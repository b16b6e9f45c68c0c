-------------------------- MODULE InferenceProofs --------------------------
(***************************************************************************)
(* Proofs about the two sides of an inference.                             *)
(*                                                                         *)
(* InferenceQueue, for any number of execution objects, any size of the    *)
(* queue and any limits of the three retry loops: the loops stay in their  *)
(* limits, and runs implement InferenceService.                            *)
(*                                                                         *)
(* InferenceIO, for any networks and wherever an attempt to make an        *)
(* execution object fails: no buffer object is left that no execution      *)
(* object holds, but for those whose slices or mapping failed.             *)
(***************************************************************************)
EXTENDS InferenceQueue, InferenceIO, NumberingProofs

-----------------------------------------------------------------------------
(* InferenceQueue: the invariant.                                          *)

\* Where run() of an object is, and a place where submit() is at work.
Places ==
  {"idle", "submit", "execute", "waiting", "slept", "finish", "wait", "succeed"}
Submitting == {"execute", "waiting", "slept"}

Device ==
  /\ device \in {"up", "lost", "closed"}
  /\ inError => device = "closed"
  /\ queue \in Seq(Objs)
  /\ done \in [Objs -> BOOLEAN]

\* What the counters of each object are where its run() is: none is above its
\* limit, a submission under way has an attempt left, and one that will call
\* the driver again has a try left.
Counters ==
  /\ pc \in [Objs -> Places]
  /\ attempts \in [Objs -> 0..InferenceRetryCount]
  /\ tries \in [Objs -> 0..SubmitRetryMax]
  /\ retries \in [Objs -> 0..NumMaxWaitRetries]
  /\ \A o \in Objs : pc[o] \in Submitting => attempts[o] > 0
  /\ \A o \in Objs : pc[o] \in {"idle", "submit"} => tries[o] = 0
  /\ \A o \in Objs : pc[o] \in {"execute", "waiting"} => tries[o] < SubmitRetryMax

\* The queue holds no execution twice.
Once == IsInjective(queue)

Inv == Device /\ Counters /\ Once

LEMMA InitInv == Init => Inv
  BY RetryAssumption
  DEF Init, Inv, Device, Counters, Places, Submitting, Once, IsInjective

-----------------------------------------------------------------------------
(* Steps of a thread that leave the device alone: they keep the invariant  *)
(* when they keep the counters of the object within their limits.          *)

\* An object moves to a place that fits its counters.
LEMMA MovesCount ==
  ASSUME Counters, NEW o \in Objs, NEW p \in Places, Go(o, p),
         NEW a \in 0..InferenceRetryCount, NEW t \in 0..SubmitRetryMax,
         NEW r \in 0..NumMaxWaitRetries,
         attempts' = [attempts EXCEPT ![o] = a],
         tries' = [tries EXCEPT ![o] = t],
         retries' = [retries EXCEPT ![o] = r],
         p \in Submitting => a > 0,
         p \in {"idle", "submit"} => t = 0,
         p \in {"execute", "waiting"} => t < SubmitRetryMax
  PROVE  Counters'
  BY DEF Counters, Go

\* A counter that is left alone is what it was.
LEMMA KeepsCount ==
  ASSUME Counters, NEW o \in Objs
  PROVE  /\ pc = [pc EXCEPT ![o] = pc[o]] /\ pc[o] \in Places
         /\ attempts = [attempts EXCEPT ![o] = attempts[o]]
         /\ attempts[o] \in 0..InferenceRetryCount
         /\ tries = [tries EXCEPT ![o] = tries[o]] /\ tries[o] \in 0..SubmitRetryMax
         /\ retries = [retries EXCEPT ![o] = retries[o]]
         /\ retries[o] \in 0..NumMaxWaitRetries
  BY DEF Counters

LEMMA ReturnCounts ==
  ASSUME Counters, NEW o \in Objs, Return(o)
  PROVE  Counters'
<1>1. 0 \in 0..InferenceRetryCount /\ 0 \in 0..SubmitRetryMax /\ 0 \in 0..NumMaxWaitRetries
  BY RetryAssumption
<1>2. "idle" \in Places /\ "idle" \notin Submitting
  BY DEF Places, Submitting
<1>. QED
  BY <1>1, <1>2, MovesCount DEF Return

LEMMA DeviceKept ==
  ASSUME Device, Once, UNCHANGED dev
  PROVE  Device' /\ Once'
  BY DEF Device, Once, IsInjective, dev

-----------------------------------------------------------------------------
(* The counters, action by action.                                         *)

LEMMA RunCounts ==
  ASSUME Counters, NEW o \in Objs, run(o)
  PROVE  Counters'
  BY RetryAssumption DEF run, Go, Counters, Places, Submitting

LEMMA SubmitCounts ==
  ASSUME Counters, NEW o \in Objs, submit(o)
  PROVE  Counters'
<1>1. CASE Return(o)
  BY <1>1, ReturnCounts
<1>2. CASE Go(o, "execute") /\ attempts' = [attempts EXCEPT ![o] = InferenceRetryCount]
           /\ UNCHANGED <<tries, retries>>
  BY <1>2, RetryAssumption DEF submit, Go, Counters, Places, Submitting
<1>. QED
  BY <1>1, <1>2 DEF submit

LEMMA RunExecuteCounts ==
  ASSUME Counters, NEW o \in Objs, runExecute(o)
  PROVE  Counters'
  BY RetryAssumption DEF runExecute, Go, Counters, Places, Submitting

\* The last try does not wait: a submission that waits has a try left.
LEMMA RunExecuteFailsCounts ==
  ASSUME Counters, NEW o \in Objs, runExecuteFails(o)
  PROVE  Counters'
<1>1. pc[o] = "execute" /\ UNCHANGED <<attempts, retries>>
  BY DEF runExecuteFails
<1>2. attempts[o] > 0 /\ tries[o] < SubmitRetryMax
  BY <1>1 DEF Counters, Submitting
<1>3. CASE retryExecute(o)
  <2>1. tries'[o] = tries[o] + 1
    BY <1>3 DEF retryExecute, Counters
  <2>2. CASE Go(o, "slept")
    BY <1>1, <1>2, <1>3, <2>2, RetryAssumption
    DEF retryExecute, Go, Counters, Places, Submitting
  <2>3. CASE Go(o, "waiting") /\ tries'[o] < SubmitRetryMax
    BY <1>1, <1>2, <1>3, <2>1, <2>3, RetryAssumption
    DEF retryExecute, Go, Counters, Places, Submitting
  <2>. QED
    BY <1>2, <1>3, <2>1, <2>2, <2>3, RetryAssumption DEF retryExecute, Counters
<1>4. CASE Go(o, "slept") /\ UNCHANGED tries
  BY <1>1, <1>2, <1>4 DEF Go, Counters, Places, Submitting
<1>. QED
  BY <1>3, <1>4 DEF runExecuteFails

LEMMA WaitedCounts ==
  ASSUME Counters, NEW o \in Objs, waited(o)
  PROVE  Counters'
  BY DEF waited, Go, Counters, Places, Submitting

LEMMA RetrySubmitCounts ==
  ASSUME Counters, NEW o \in Objs, retrySubmit(o)
  PROVE  Counters'
<1>1. CASE attempts[o] > 1 /\ Go(o, "execute")
           /\ attempts' = [attempts EXCEPT ![o] = @ - 1]
           /\ tries' = [tries EXCEPT ![o] = 0] /\ UNCHANGED retries
  BY <1>1, RetryAssumption DEF Go, Counters, Places, Submitting
<1>2. CASE Return(o)
  BY <1>2, ReturnCounts
<1>. QED
  BY <1>1, <1>2 DEF retrySubmit

LEMMA FinishCounts ==
  ASSUME Counters, NEW o \in Objs, finish(o)
  PROVE  Counters'
<1>1. CASE Return(o)
  BY <1>1, ReturnCounts
<1>2. CASE Go(o, "wait") /\ UNCHANGED <<attempts, tries, retries>>
  BY <1>2 DEF finish, Go, Counters, Places, Submitting
<1>. QED
  BY <1>1, <1>2 DEF finish

LEMMA WaitCounts ==
  ASSUME Counters, NEW o \in Objs, wait(o)
  PROVE  Counters'
  BY DEF wait, Go, Counters, Places, Submitting

LEMMA WaitFailsCounts ==
  ASSUME Counters, NEW o \in Objs, waitFails(o)
  PROVE  Counters'
<1>1. CASE retries[o] < NumMaxWaitRetries /\ retries' = [retries EXCEPT ![o] = @ + 1]
           /\ UNCHANGED <<pc, attempts, tries>>
  BY <1>1, RetryAssumption DEF Counters
<1>2. CASE Return(o)
  BY <1>2, ReturnCounts
<1>. QED
  BY <1>1, <1>2 DEF waitFails

LEMMA SucceedCounts ==
  ASSUME Counters, NEW o \in Objs, succeed(o)
  PROVE  Counters'
  BY ReturnCounts DEF succeed

LEMMA DeviceCounts ==
  ASSUME Counters, UNCHANGED <<pc, attempts, tries, retries>>
  PROVE  Counters'
  BY DEF Counters

-----------------------------------------------------------------------------
(* The queue of the device, action by action.                              *)

\* The same handle is not queued while it is queued.
LEMMA RunExecuteQueues ==
  ASSUME Device, Once, NEW o \in Objs, runExecute(o)
  PROVE  Device' /\ Once'
<1>1. queue' = Append(queue, o) /\ queue \in Seq(Objs)
  BY DEF runExecute, Device
<1>2. Device'
  BY <1>1 DEF runExecute, Device
<1>3. \A i \in 1..Len(queue) : queue[i] # o
  BY DEF runExecute, Contains
<1>4. Once'
  BY <1>1, <1>3 DEF Once, IsInjective
<1>. QED
  BY <1>2, <1>4

LEMMA CompleteTakes ==
  ASSUME Device, Once, complete
  PROVE  /\ Device' /\ Once'
         /\ Head(queue) \in Objs
<1>1. queue \in Seq(Objs) /\ queue # <<>> /\ queue' = Tail(queue)
  BY DEF complete, Device
<1>2. Head(queue) \in Objs /\ queue' \in Seq(Objs)
  BY <1>1
<1>3. Device'
  BY <1>2 DEF complete, Device
<1>4. Once'
  BY <1>1 DEF Once, IsInjective
<1>. QED
  BY <1>2, <1>3, <1>4

LEMMA LoseForgets ==
  ASSUME Device, lose
  PROVE  Device' /\ Once'
<1>1. queue' = <<>>
  BY DEF lose
<1>2. Once'
  BY <1>1 DEF Once, IsInjective
<1>3. Device'
  BY <1>1 DEF lose, Device
<1>. QED
  BY <1>2, <1>3

LEMMA OthersKeep ==
  ASSUME Device, Once, closeDevice \/ notifyDeviceStateInfo
  PROVE  Device' /\ Once'
  BY DEF closeDevice, notifyDeviceStateInfo, Device, Once, IsInjective

-----------------------------------------------------------------------------
(* The invariant is kept.                                                  *)

LEMMA NextInv == Inv /\ [Next]_vars => Inv'
<1>. SUFFICES ASSUME Inv, [Next]_vars PROVE Inv'
  OBVIOUS
<1>. USE DEF Inv
<1>1. ASSUME NEW o \in Objs, run(o) PROVE Inv'
  BY <1>1, RunCounts, DeviceKept DEF run
<1>2. ASSUME NEW o \in Objs, submit(o) PROVE Inv'
  BY <1>2, SubmitCounts, DeviceKept DEF submit
<1>3. ASSUME NEW o \in Objs, runExecute(o) PROVE Inv'
  BY <1>3, RunExecuteCounts, RunExecuteQueues
<1>4. ASSUME NEW o \in Objs, runExecuteFails(o) PROVE Inv'
  BY <1>4, RunExecuteFailsCounts, DeviceKept DEF runExecuteFails
<1>5. ASSUME NEW o \in Objs, waited(o) PROVE Inv'
  BY <1>5, WaitedCounts, DeviceKept DEF waited
<1>6. ASSUME NEW o \in Objs, retrySubmit(o) PROVE Inv'
  BY <1>6, RetrySubmitCounts, DeviceKept DEF retrySubmit
<1>7. ASSUME NEW o \in Objs, finish(o) PROVE Inv'
  BY <1>7, FinishCounts, DeviceKept DEF finish
<1>8. ASSUME NEW o \in Objs, wait(o) PROVE Inv'
  BY <1>8, WaitCounts, DeviceKept DEF wait
<1>9. ASSUME NEW o \in Objs, waitFails(o) PROVE Inv'
  BY <1>9, WaitFailsCounts, DeviceKept DEF waitFails
<1>10. ASSUME NEW o \in Objs, succeed(o) PROVE Inv'
  BY <1>10, SucceedCounts, DeviceKept DEF succeed
<1>11. CASE complete
  BY <1>11, CompleteTakes, DeviceCounts DEF complete
<1>12. CASE lose
  BY <1>12, LoseForgets, DeviceCounts DEF lose
<1>13. CASE closeDevice \/ notifyDeviceStateInfo
  BY <1>13, OthersKeep, DeviceCounts DEF closeDevice, notifyDeviceStateInfo
<1>14. CASE UNCHANGED vars
  BY <1>14, DeviceCounts, DeviceKept DEF vars
<1>. QED
  BY <1>1, <1>2, <1>3, <1>4, <1>5, <1>6, <1>7, <1>8, <1>9, <1>10, <1>11, <1>12,
     <1>13, <1>14
  DEF Next, RunStep, Finished

\* The loops of submit(), runExecute() and wait() end: none counts beyond its
\* limit, a submission under way has an attempt left and the queue holds each
\* execution once.
THEOREM LoopsAreBounded == Spec => []Inv
  BY InitInv, NextInv, PTL DEF Spec

-----------------------------------------------------------------------------
(* Runs implement InferenceService.                                        *)

Mapped == [o \in Objs |-> Phase(o)]

LEMMA InitMaps == Init => Service!Init
  BY DEF Init, Service!Init, Phase

\* A thread whose data's phase stays, while the device does nothing, stutters.
LEMMA Stutter ==
  ASSUME Device, Counters, NEW o \in Objs, NEW p \in Places, Go(o, p),
         UNCHANGED <<queue, done>>,
         Phase(o)' = Phase(o)
  PROVE  UNCHANGED Service!vars
<1>1. ASSUME NEW x \in Objs PROVE Phase(x)' = Phase(x)
  BY <1>1 DEF Phase, Go, Counters, Device
<1>. QED
  BY <1>1 DEF Service!vars

\* A thread that moves changes its own phase only.
LEMMA PhaseChanges ==
  ASSUME Device, Counters, NEW o \in Objs, NEW p \in Places, Go(o, p),
         \A x \in Objs : x # o => done'[x] = done[x],
         NEW q, Phase(o)' = q
  PROVE  Mapped' = [Mapped EXCEPT ![o] = q]
<1>1. ASSUME NEW x \in Objs, x # o PROVE Phase(x)' = Phase(x)
  BY <1>1 DEF Phase, Go, Counters
<1>. QED
  BY <1>1 DEF Mapped

\* A run that returns while it is in a phase fails, or ends as it should.
LEMMA ReturnFails ==
  ASSUME Device, Counters, NEW o \in Objs, pc[o] # "idle", Return(o),
         UNCHANGED <<queue, done>>
  PROVE  Service!Fail(o)
<1>1. Phase(o) # "idle"
  BY DEF Phase, Counters, Places, Device
<1>2. Go(o, "idle") /\ "idle" \in Places
  BY DEF Return, Places
<1>3. Phase(o)' = "idle"
  BY <1>2 DEF Go, Phase, Counters
<1>4. Mapped' = [Mapped EXCEPT ![o] = "idle"]
  BY <1>2, <1>3, PhaseChanges
<1>. QED
  BY <1>1, <1>4 DEF Service!Fail, Service!Become, Mapped

LEMMA RunMaps ==
  ASSUME Device, Counters, NEW o \in Objs, run(o)
  PROVE  Service!Run(o)
<1>1. Phase(o) = "idle"
  BY DEF run, Phase
<1>2. Go(o, "submit") /\ "submit" \in Places /\ UNCHANGED done
  BY DEF run, dev, Places
<1>3. Phase(o)' = "running"
  BY <1>2 DEF Go, Phase, Counters
<1>4. Mapped' = [Mapped EXCEPT ![o] = "running"]
  BY <1>2, <1>3, PhaseChanges
<1>. QED
  BY <1>1, <1>4 DEF run, dev, Service!Run, Service!Become, Mapped

LEMMA RunExecuteMaps ==
  ASSUME Device, Counters, NEW o \in Objs, runExecute(o)
  PROVE  Service!Queue(o)
<1>1. Phase(o) = "running" /\ ~Service!Pending(o)
  <2>1. Phase(o) = "running"
    BY DEF runExecute, Phase
  <2>2. ~Service!Pending(o)
    <3>1. \A i \in 1..Len(queue) : queue[i] # o
      BY DEF runExecute, Contains
    <3>. QED
      BY <3>1 DEF Service!Pending, Service!Contains
  <2>. QED
    BY <2>1, <2>2
<1>2. Go(o, "finish") /\ "finish" \in Places /\ done' = [done EXCEPT ![o] = FALSE]
  BY DEF runExecute, Places
<1>3. Phase(o)' = "queued"
  BY <1>2 DEF Go, Phase, Counters, Device
<1>4. Mapped' = [Mapped EXCEPT ![o] = "queued"]
  BY <1>2, <1>3, PhaseChanges DEF Device
<1>. QED
  BY <1>1, <1>4 DEF runExecute, Service!Queue, Service!Become, Mapped

\* The device executes what is first: what a run queued, or what one that
\* gave up has left.
LEMMA CompleteMaps ==
  ASSUME Device, Counters, complete, Head(queue) \in Objs
  PROVE  Service!Execute
<1>. DEFINE h == Head(queue)
<1>1. queue # <<>> /\ queue' = Tail(queue) /\ done' = [done EXCEPT ![h] = TRUE]
      /\ UNCHANGED pc
  BY DEF complete
<1>2. CASE Phase(h) = "queued"
  <2>1. Mapped' = [Mapped EXCEPT ![h] = "executed"]
    BY <1>1, <1>2 DEF Mapped, Phase, Counters, Places, Device
  <2>. QED
    BY <1>1, <1>2, <2>1 DEF Service!Execute, Service!Become, Mapped
<1>3. CASE Phase(h) # "queued"
  <2>1. Mapped' = Mapped
    BY <1>1, <1>3 DEF Mapped, Phase, Counters, Places, Device
  <2>. QED
    BY <1>1, <1>3, <2>1 DEF Service!Execute, Mapped
<1>. QED
  BY <1>2, <1>3

LEMMA LoseMaps == lose => Service!Lose
  BY DEF lose, Service!Lose, Phase

LEMMA SucceedMaps ==
  ASSUME Device, Counters, NEW o \in Objs, succeed(o)
  PROVE  Service!Succeed(o)
<1>1. Phase(o) = "executed"
  BY DEF succeed, Phase
<1>2. Go(o, "idle") /\ "idle" \in Places /\ UNCHANGED done
  BY DEF succeed, Return, dev, Places
<1>3. Phase(o)' = "idle"
  BY <1>2 DEF Go, Phase, Counters
<1>4. Mapped' = [Mapped EXCEPT ![o] = "idle"]
  BY <1>2, <1>3, PhaseChanges
<1>. QED
  BY <1>1, <1>4 DEF succeed, dev, Service!Succeed, Service!Become, Mapped

\* The steps of a submission before its data are queued: they stutter, or the
\* run returns.
LEMMA SubmissionMaps ==
  ASSUME Device, Counters, NEW o \in Objs,
         submit(o) \/ runExecuteFails(o) \/ waited(o) \/ retrySubmit(o)
  PROVE  UNCHANGED Service!vars \/ Service!Fail(o)
<1>1. pc[o] \in {"submit"} \cup Submitting /\ UNCHANGED <<queue, done>>
  BY DEF submit, runExecuteFails, waited, retrySubmit, dev, Submitting
<1>2. ASSUME NEW p \in Submitting, Go(o, p) PROVE UNCHANGED Service!vars
  <2>1. p \in Places /\ Phase(o)' = Phase(o)
    BY <1>1, <1>2 DEF Phase, Go, Counters, Submitting, Places
  <2>. QED
    BY <1>1, <1>2, <2>1, Stutter
<1>3. CASE Return(o)
  BY <1>1, <1>3, ReturnFails DEF Submitting
<1>4. Return(o) \/ \E p \in Submitting : Go(o, p)
  BY DEF submit, runExecuteFails, retryExecute, waited, retrySubmit, Submitting
<1>. QED
  BY <1>2, <1>3, <1>4

\* The steps of finish(): a wait that ends well finds the data executed.
LEMMA FinishMaps ==
  ASSUME Device, Counters, NEW o \in Objs, finish(o) \/ wait(o) \/ waitFails(o)
  PROVE  UNCHANGED Service!vars \/ Service!Fail(o)
<1>1. pc[o] \in {"finish", "wait"} /\ UNCHANGED <<queue, done>>
  BY DEF finish, wait, waitFails, dev
<1>2. CASE Return(o)
  BY <1>1, <1>2, ReturnFails
<1>3. CASE Go(o, "wait")
  <2>1. Phase(o)' = Phase(o) /\ "wait" \in Places
    BY <1>1, <1>3 DEF Phase, Go, Counters, Places
  <2>. QED
    BY <1>1, <1>3, <2>1, Stutter
<1>4. CASE wait(o)
  <2>1. Go(o, "succeed") /\ done[o]
    BY <1>4 DEF wait
  <2>2. Phase(o)' = Phase(o) /\ "succeed" \in Places
    BY <1>1, <2>1 DEF Phase, Go, Counters, Places
  <2>. QED
    BY <1>1, <2>1, <2>2, Stutter
<1>5. CASE UNCHANGED pc
  BY <1>1, <1>5 DEF Service!vars, Phase
<1>. QED
  BY <1>2, <1>3, <1>4, <1>5 DEF finish, waitFails

LEMMA NextMaps == Inv /\ [Next]_vars => [Service!Next]_(Service!vars)
<1>. SUFFICES ASSUME Device, Counters, Once, [Next]_vars
              PROVE  Service!Next \/ UNCHANGED Service!vars
  BY DEF Inv
<1>1. ASSUME NEW o \in Objs, run(o) \/ RunStep(o)
      PROVE  Service!Next \/ UNCHANGED Service!vars
  BY <1>1, RunMaps, RunExecuteMaps, SucceedMaps, SubmissionMaps, FinishMaps
  DEF RunStep, Service!Next
<1>2. CASE complete
  BY <1>2, CompleteTakes, CompleteMaps DEF Service!Next
<1>3. CASE lose
  BY <1>3, LoseMaps DEF Service!Next
<1>4. CASE closeDevice \/ notifyDeviceStateInfo \/ UNCHANGED vars
  <2>1. UNCHANGED <<pc, queue, done>>
    BY <1>4 DEF closeDevice, notifyDeviceStateInfo, vars, dev
  <2>. QED
    BY <2>1 DEF Service!vars, Phase
<1>. QED
  BY <1>1, <1>2, <1>3, <1>4 DEF Next, Finished

\* Across the three retry loops and the loss of the device, a run queues its
\* data once or not at all and succeeds only when these data were executed.
THEOREM InferencesRefined == Spec => ImplementsService
<1>1. Spec => []Inv
  BY LoopsAreBounded
<1>2. Init => Service!Init
  BY InitMaps
<1>3. Inv /\ [Next]_vars => [Service!Next]_(Service!vars)
  BY NextMaps
<1>. QED
  BY <1>1, <1>2, <1>3, PTL DEF Spec, ImplementsService, Service!Spec

-----------------------------------------------------------------------------
(* InferenceIO: the buffer objects of the kernel.                          *)

\* The sequence of requests and that of their buffer objects are sequences.
LEMMA RequestsAreASequence ==
  ASSUME net \in Networks
  PROVE  Len(requests) \in Nat /\ DOMAIN requests = 1..Len(requests)
<1> DEFINE E == Ends(meta)
<1>1. net.reqs \in Seq(Range(net.reqs))
  BY InferenceIOAssumption
<1>2. DOMAIN net.reqs = 1..Len(net.reqs) /\ Len(net.reqs) \in Nat
  BY <1>1
<1>3. IsFiniteSet(1..Len(net.reqs))
  BY <1>2, FS_Interval
<1>4. E \in SUBSET (1..Len(net.reqs))
  BY <1>2 DEF Ends, meta, parseRequests
<1>5. Cardinality(E) \in Nat
  BY <1>3, <1>4, FS_Subset, FS_CardinalityType
<1>. DEFINE c == Cardinality(E)
            f(k) == BufferObject(meta, dmaSizes, IF k = 1 THEN 1 ELSE Nth(Ends(meta), k - 1) + 1,
                                   Nth(Ends(meta), k))
<1>6. requests = [k \in 1..c |-> f(k)]
  BY DEF requests, Requests
<1>7. c \in Nat
  BY <1>5
<1>. HIDE DEF c, f
<1>. QED
  BY <1>6, <1>7

\* The buffer objects the kernel has: those of the handle, and those that were
\* left behind.
BosInv ==
  /\ net \in Networks
  /\ bos \subseteq Nat /\ IsFiniteSet(bos)
  /\ handle.bo \in Seq(Nat)
  /\ BuffersReturned

LEMMA BosInit == IOInit => BosInv
  BY FS_EmptySet DEF IOInit, BosInv, BuffersReturned, NoHandle, Range

\* The handles the kernel gives are new, and no two of them are the same.
LEMMA AnyUnused ==
  ASSUME NEW n \in Nat, bos \subseteq Nat, IsFiniteSet(bos)
  PROVE  /\ Made(n) \in Seq(Nat) /\ Len(Made(n)) = n
         /\ Fresh(n) = {Made(n)[k] : k \in 1..n}
         /\ IsFiniteSet(Fresh(n)) /\ Fresh(n) \subseteq Nat
         /\ \A k \in 1..n : Made(n)[k] \in Nat /\ Made(n)[k] \notin bos
         /\ \A i, j \in 1..n : Made(n)[i] = Made(n)[j] => i = j
<1> DEFINE b == Cardinality(bos) + n
           free == (1..b) \ bos
<1>1. Cardinality(bos) \in Nat
  BY FS_CardinalityType
<1>2. b \in Nat
  BY <1>1
<1>3. IsFiniteSet(1..b) /\ Cardinality(1..b) = b
  <2>. HIDE DEF b
  <2>. QED
    BY <1>2, FS_Interval
<1>4. Cardinality((1..b) \cap bos) \in Nat /\ Cardinality((1..b) \cap bos) <= Cardinality(bos)
  <2>1. (1..b) \cap bos \in SUBSET bos
    OBVIOUS
  <2>. QED
    BY <2>1, FS_Subset, FS_CardinalityType
<1>5. IsFiniteSet(free) /\ Cardinality(free) = b - Cardinality((1..b) \cap bos)
  BY <1>3, FS_Difference
<1>6. Cardinality(free) \in Nat /\ Cardinality(free) >= n
  BY <1>1, <1>4, <1>5
<1>7. free \in SUBSET (0..b)
  BY <1>2
<1>8. \A k \in 1..n : k \in 1..Cardinality(free)
  BY <1>6
<1>9. Made(n) = [k \in 1..n |-> Nth(free, k)]
  BY DEF Made
<1>f. \A x \in free : x \notin bos
  OBVIOUS
<1>. HIDE DEF b, free
<1>10. \A k \in 1..n : Nth(free, k) \in free
  BY <1>2, <1>7, <1>8, NthIsThere
<1>d. \A k \in 1..n : Cardinality({m \in free : m <= Nth(free, k)}) = k
  BY <1>2, <1>7, <1>8, NthIsThere
<1>11. \A k \in 1..n : Nth(free, k) \in Nat
  <2>1. \A x \in free : x \in Nat
    BY <1>7, <1>2
  <2>. QED
    BY <1>10, <2>1
<1>12. Made(n) \in [1..n -> Nat]
  BY <1>9, <1>11
<1>13. IsFiniteSet(1..n)
  BY FS_Interval
<1>14. Fresh(n) = {Made(n)[k] : k \in 1..n}
  BY <1>12 DEF Fresh, Range
<1>15. IsFiniteSet(Fresh(n))
  <2>1. Fresh(n) \in SUBSET free
    BY <1>9, <1>10, <1>14
  <2>. QED
    BY <1>5, <2>1, FS_Subset
<1>16. \A k \in 1..n : Made(n)[k] \notin bos
  BY <1>9, <1>10, <1>f
<1>17. ASSUME NEW i \in 1..n, NEW j \in 1..n, Made(n)[i] = Made(n)[j] PROVE i = j
  <2>1. Nth(free, i) = Nth(free, j)
    BY <1>9, <1>17
  <2>. QED
    BY <1>d, <2>1
<1>. QED
  BY <1>12, <1>14, <1>15, <1>16, <1>17

\* When as many are closed as were made, nothing has changed.
LEMMA AllClosed ==
  ASSUME NEW n \in Nat, bos \subseteq Nat, IsFiniteSet(bos)
  PROVE  (bos \cup Fresh(n)) \ freeMemReq(Made(n), n) = bos
  BY AnyUnused DEF freeMemReq

\* When all but the last are, that one is left.
LEMMA OneIsLeft ==
  ASSUME NEW k \in Nat, k >= 1, bos \subseteq Nat, IsFiniteSet(bos)
  PROVE  /\ (bos \cup Fresh(k)) \ freeMemReq(Made(k), k - 1) = bos \cup {Made(k)[k]}
         /\ Made(k)[k] \in Nat
<1>. DEFINE made == Made(k)
<1>1. /\ Fresh(k) = {made[i] : i \in 1..k}
      /\ \A i \in 1..k : made[i] \in Nat /\ made[i] \notin bos
      /\ \A i, j \in 1..k : made[i] = made[j] => i = j
  BY AnyUnused
<1>. HIDE DEF made
<1>2. k \in 1..k /\ 1..k = 1..(k - 1) \cup {k} /\ k \notin 1..(k - 1)
  OBVIOUS
<1>3. freeMemReq(made, k - 1) = {made[i] : i \in 1..(k - 1)}
  BY DEF freeMemReq
<1>4. Fresh(k) = freeMemReq(made, k - 1) \cup {made[k]}
  BY <1>1, <1>2, <1>3
<1>5. made[k] \notin freeMemReq(made, k - 1)
  BY <1>1, <1>2, <1>3
<1>6. \A x \in bos : x \notin freeMemReq(made, k - 1)
  BY <1>1, <1>2, <1>3
<1>7. (bos \cup Fresh(k)) \ freeMemReq(made, k - 1) = bos \cup {made[k]}
  BY <1>4, <1>5, <1>6
<1>. QED
  BY <1>1, <1>2, <1>7 DEF made

LEMMA BosStep == BosInv /\ [IONext]_ioVars => BosInv'
<1> SUFFICES ASSUME BosInv, [IONext]_ioVars PROVE BosInv'
  OBVIOUS
<1>0. /\ net \in Networks
      /\ bos \subseteq Nat /\ IsFiniteSet(bos)
      /\ handle.bo \in Seq(Nat)
      /\ bos = Range(handle.bo) \cup stranded
      /\ Range(handle.bo) \cap stranded = {}
  BY DEF BosInv, BuffersReturned
<1>2. net' = net
  BY DEF IONext, ioVars, FactoryVector, LoadFromFileSet, SetInputBuffers, SetOutputBuffers, SetData,
         CreateInfHandle, ReleaseExecObj, PreTransform, Submit, Execute, Finish, WaitFails, Behind
<1>5. CASE bos' = bos /\ stranded' = stranded /\ handle'.bo = handle.bo
  BY <1>0, <1>2, <1>5 DEF BosInv, BuffersReturned
<1>3. CASE CreateInfHandle
  <2>1. handle = NoHandle /\ Range(handle.bo) = {} /\ bos = stranded
    BY <1>0, <1>3 DEF CreateInfHandle, NoHandle, Range
  <2>. DEFINE n == Len(requests)
  <2>2. n \in Nat /\ \A k \in DOMAIN requests : k \in Nat /\ k >= 1 /\ k - 1 \in Nat
    BY <1>0, RequestsAreASequence
  <2>. HIDE DEF n
  <2>3. CASE Attach
    <3>1. bos' = bos \cup Fresh(n) /\ handle'.bo = Made(n) /\ stranded' = stranded
      BY <2>3 DEF Attach, n
    <3>2. /\ Made(n) \in Seq(Nat) /\ IsFiniteSet(Fresh(n)) /\ Fresh(n) \subseteq Nat
          /\ Fresh(n) \cap bos = {}
      <4>1. /\ Made(n) \in Seq(Nat) /\ IsFiniteSet(Fresh(n)) /\ Fresh(n) \subseteq Nat
            /\ Fresh(n) = {Made(n)[k] : k \in 1..n} /\ \A k \in 1..n : Made(n)[k] \notin bos
        BY <1>0, <2>2, AnyUnused
      <4>2. \A x \in Fresh(n) : x \notin bos
        BY <4>1, Zenon
      <4>. QED
        BY <4>1, <4>2
    <3>3. Range(handle'.bo) = Fresh(n)
      BY <3>1 DEF Fresh
    <3>4. BuffersReturned'
      BY <2>1, <3>1, <3>2, <3>3 DEF BuffersReturned
    <3>5. IsFiniteSet(bos') /\ bos' \subseteq Nat
      BY <1>0, <3>1, <3>2, FS_Union
    <3>. QED
      BY <1>0, <1>2, <3>1, <3>2, <3>4, <3>5 DEF BosInv
  <2>4. CASE Discard
    <3>1. Made(n) \in Seq(Nat) /\ Len(Made(n)) = n
      BY <1>0, <2>2, AnyUnused
    <3>2. bos' = (bos \cup Fresh(n)) \ freeMemReq(Made(n), n)
      BY <2>4, <3>1 DEF Discard, Fresh, n
    <3>3. bos' = bos
      BY <1>0, <2>2, <3>2, AllClosed
    <3>. QED
      BY <1>5, <2>4, <3>3 DEF Discard
  <2>5. ASSUME NEW k \in DOMAIN requests, FailAt(k) PROVE BosInv'
    <3>1. handle' = handle
      BY <2>5 DEF FailAt
    <3>2. CASE NotMade(k)
      <4>1. bos' = bos
        BY <1>0, <2>2, <3>2, AllClosed DEF NotMade
      <4>. QED
        BY <1>5, <3>1, <3>2, <4>1 DEF NotMade
    <3>3. CASE LeftBehind(k)
      <4>1. bos' = bos \cup {Made(k)[k]} /\ Made(k)[k] \in Nat
        BY <1>0, <2>2, <3>3, OneIsLeft DEF LeftBehind
      <4>2. stranded' = stranded \cup {Made(k)[k]}
        BY <3>3 DEF LeftBehind
      <4>3. BuffersReturned'
        BY <2>1, <3>1, <4>1, <4>2 DEF BuffersReturned
      <4>4. IsFiniteSet(bos') /\ bos' \subseteq Nat
        BY <1>0, <4>1, FS_AddElement
      <4>. QED
        BY <1>0, <1>2, <3>1, <4>3, <4>4 DEF BosInv
    <3>. QED
      BY <2>5, <3>2, <3>3 DEF FailAt, SlicesRefused, MappingFails
  <2>. QED
    BY <1>3, <2>3, <2>4, <2>5 DEF CreateInfHandle
<1>4. CASE ReleaseExecObj
  <2>1. /\ bos' = bos \ freeMemReq(handle.bo, Len(handle.bo))
        /\ handle' = NoHandle /\ stranded' = stranded
    BY <1>4 DEF ReleaseExecObj
  <2>2. freeMemReq(handle.bo, Len(handle.bo)) = Range(handle.bo)
    BY <1>0 DEF freeMemReq, Range
  <2>3. bos' = stranded
    BY <1>0, <2>1, <2>2
  <2>4. handle'.bo \in Seq(Nat) /\ Range(handle'.bo) = {}
    BY <2>1 DEF NoHandle, Range
  <2>5. IsFiniteSet(bos') /\ bos' \subseteq Nat
    BY <1>0, <2>1, <2>2, FS_Difference
  <2>. QED
    BY <1>0, <1>2, <2>1, <2>3, <2>4, <2>5 DEF BosInv, BuffersReturned
<1>6. CASE PreTransform
  <2>1. handle'.bo = handle.bo
    BY <1>6 DEF PreTransform
  <2>. QED
    BY <1>5, <1>6, <2>1 DEF PreTransform
<1>. QED
  BY <1>3, <1>4, <1>5, <1>6
  DEF IONext, ioVars, FactoryVector, LoadFromFileSet, SetInputBuffers, SetOutputBuffers, SetData,
      Submit, Execute, Finish, WaitFails, Behind

\* Wherever an attempt to make an execution object fails, and however often, the
\* kernel has the buffer objects of the one there is and those of the requests
\* whose slices or mapping failed, which the code leaves behind; every other one
\* is closed, and none before its time (QDevInterfaceAic100::freeMemReq).
THEOREM BuffersAccountedFor == IOSpec => []BuffersReturned
<1>1. IOInit => BosInv
  BY BosInit
<1>2. BosInv /\ [IONext]_ioVars => BosInv'
  BY BosStep
<1>3. BosInv => BuffersReturned
  BY DEF BosInv
<1>. QED
  BY <1>1, <1>2, <1>3, PTL DEF IOSpec

=============================================================================
