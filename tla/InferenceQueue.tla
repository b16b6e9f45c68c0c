--------------------------- MODULE InferenceQueue ---------------------------
(***************************************************************************)
(* Execution objects that run inferences on one activated network: run(),  *)
(* submit() and finish() of lib/core/src/QExecObj.cpp over runExecute()    *)
(* and wait() of lib/network-driver/src/QNeuralNetwork.cpp.  A submission  *)
(* that finds the queue of the device full waits on submitWaitCv_ and is   *)
(* tried again, a wait that times out is tried again, and a submission     *)
(* that fails is tried again while the device is ready.  A step is one     *)
(* command to the device with what is done under submitWaitMutex_ around   *)
(* it.                                                                     *)
(*                                                                         *)
(* The kernel driver and the device are external: an execution is queued   *)
(* whole or not at all, fails with EAGAIN when the queue has no room, is   *)
(* refused while the same handle is queued, and is done in order.  A       *)
(* device that is lost forgets its queue; what comes after its reset runs  *)
(* on another network.                                                     *)
(***************************************************************************)
EXTENDS Naturals, Sequences, SequencesExt

CONSTANTS
  Objs,                \* execution objects, each run by a thread of its own
  Size,                \* elements of the queue an execution of each takes
  QueueSize,           \* elements the queue has
  SubmitRetryMax,      \* submitRetryMax_
  InferenceRetryCount, \* inferenceRetryCount
  NumMaxWaitRetries,   \* numMaxWaitRetries_
  MaxRuns              \* bound: runs of each object

ASSUME SizeAssumption == Size \in [Objs -> Nat \ {0}]
ASSUME RetryAssumption ==
  SubmitRetryMax \in Nat \ {0} /\ InferenceRetryCount \in Nat \ {0} /\ NumMaxWaitRetries \in Nat

VARIABLES
  device,    \* "up"; "lost": commands fail; "closed": devHandle_ is invalid
  inError,   \* the program is in device_error
  queue,     \* executions queued on the device
  done,      \* the execution each object queued last is done
  pc,        \* where run() of each object is
  attempts,  \* retryCount of submit(), with the attempt under way
  tries,     \* submitRetryCount of runExecute()
  retries,   \* retries of wait()
  errno,     \* errno of each object's thread
  runs       \* runs so far

dev  == <<device, inError, queue, done>>
vars == <<dev, pc, attempts, tries, retries, errno, runs>>

Go(o, where) == pc' = [pc EXCEPT ![o] = where]

\* run() returns and its counters are gone.
Return(o) ==
  /\ Go(o, "idle")
  /\ attempts' = [attempts EXCEPT ![o] = 0]
  /\ tries' = [tries EXCEPT ![o] = 0]
  /\ retries' = [retries EXCEPT ![o] = 0]

Elements(q) == FoldSeq(LAMBDA o, n : Size[o] + n, 0, q)
HasRoom(o) == Elements(queue) + Size[o] <= QueueSize

\* A command that fails, and the errno the caller reads: when the handle is
\* invalid no system call is made and errno is what it was, or what logging
\* left.
Fails(o, errors) ==
  \/ device = "up" /\ \E e \in errors : errno' = [errno EXCEPT ![o] = e]
  \/ device = "lost" /\ errno' = [errno EXCEPT ![o] = "other"]
  \/ device = "closed" /\ \E e \in {errno[o], "other"} : errno' = [errno EXCEPT ![o] = e]

-----------------------------------------------------------------------------
(* QExecObj::run and submit.                                               *)

run(o) ==
  /\ pc[o] = "idle" /\ runs[o] < MaxRuns
  /\ runs' = [runs EXCEPT ![o] = @ + 1]
  /\ Go(o, "submit")
  /\ UNCHANGED <<dev, attempts, tries, retries, errno>>

submit(o) ==
  /\ pc[o] = "submit"
  /\ \/ inError /\ Return(o)
     \/ /\ ~inError /\ Go(o, "execute")
        /\ attempts' = [attempts EXCEPT ![o] = InferenceRetryCount]
        /\ UNCHANGED <<tries, retries>>
  /\ UNCHANGED <<dev, errno, runs>>

\* The execution is queued.
runExecute(o) ==
  /\ pc[o] = "execute" /\ device = "up" /\ ~Contains(queue, o) /\ HasRoom(o)
  /\ queue' = Append(queue, o)
  /\ done' = [done EXCEPT ![o] = FALSE]
  /\ Go(o, "finish")
  /\ UNCHANGED <<device, inError, attempts, tries, retries, errno, runs>>

\* Fault: a queue that stays full is tried for ever.
retryExecute_Forever(o) ==
  /\ IF device # "up" /\ tries[o] = 0 THEN Go(o, "slept") ELSE Go(o, "waiting")
  /\ tries' = [tries EXCEPT ![o] = 1]

\* After EAGAIN: the first time, the queue is queried, which fails when the
\* device is gone.  The answer refuses nothing: numInfInQueue counts executions
\* that fitted and is compared with the size in elements.  Then the wait,
\* unless it was the last try (QS_BUSY).
retryExecute(o) ==
  /\ tries' = [tries EXCEPT ![o] = @ + 1]
  /\ IF (device # "up" /\ tries[o] = 0) \/ tries'[o] >= SubmitRetryMax
     THEN Go(o, "slept") ELSE Go(o, "waiting")

runExecuteFails(o) ==
  /\ pc[o] = "execute"
  /\ Fails(o, IF HasRoom(o) THEN {"other"} ELSE {"EAGAIN", "other"})
  /\ \/ errno'[o] = "EAGAIN" /\ retryExecute(o)
     \/ errno'[o] # "EAGAIN" /\ Go(o, "slept") /\ UNCHANGED tries
  /\ UNCHANGED <<dev, attempts, retries, runs>>

\* wait_until ends: notified by a wait() that returns, or not.
waited(o) ==
  /\ pc[o] = "waiting" /\ Go(o, "execute")
  /\ UNCHANGED <<dev, attempts, tries, retries, errno, runs>>

\* A second after a submission failed.
retrySubmit(o) ==
  /\ pc[o] = "slept"
  /\ \/ /\ ~inError /\ attempts[o] > 1 /\ Go(o, "execute")
        /\ attempts' = [attempts EXCEPT ![o] = @ - 1]
        /\ tries' = [tries EXCEPT ![o] = 0]
        /\ UNCHANGED retries
     \/ (inError \/ attempts[o] = 1) /\ Return(o)
  /\ UNCHANGED <<dev, errno, runs>>

-----------------------------------------------------------------------------
(* QExecObj::finish.                                                       *)

finish(o) ==
  /\ pc[o] = "finish"
  /\ \/ inError /\ Return(o)
     \/ ~inError /\ Go(o, "wait") /\ UNCHANGED <<attempts, tries, retries>>
  /\ UNCHANGED <<dev, errno, runs>>

\* Fault: a wait that timed out once too often is taken for one that ended.
wait_TakesTimeout(o) ==
  /\ pc[o] = "wait"
  /\ (device = "up" /\ done[o]) \/ retries[o] = NumMaxWaitRetries
  /\ Go(o, "succeed")
  /\ UNCHANGED <<dev, attempts, tries, retries, errno, runs>>

wait(o) ==
  /\ pc[o] = "wait" /\ device = "up" /\ done[o]
  /\ Go(o, "succeed")
  /\ UNCHANGED <<dev, attempts, tries, retries, errno, runs>>

waitFails(o) ==
  /\ pc[o] = "wait"
  /\ Fails(o, IF done[o] THEN {"other"} ELSE {"ETIMEDOUT", "other"})
  /\ \/ /\ errno'[o] = "ETIMEDOUT" /\ retries[o] < NumMaxWaitRetries
        /\ retries' = [retries EXCEPT ![o] = @ + 1]
        /\ UNCHANGED <<pc, attempts, tries>>
     \/ /\ errno'[o] # "ETIMEDOUT" \/ retries[o] = NumMaxWaitRetries
        /\ Return(o)
  /\ UNCHANGED <<dev, runs>>

\* postTransform, and run() returns success.
succeed(o) ==
  /\ pc[o] = "succeed" /\ Return(o)
  /\ UNCHANGED <<dev, errno, runs>>

-----------------------------------------------------------------------------
(* The device.                                                             *)

complete ==
  /\ device = "up" /\ queue # <<>>
  /\ queue' = Tail(queue)
  /\ done' = [done EXCEPT ![Head(queue)] = TRUE]
  /\ UNCHANGED <<device, inError, pc, attempts, tries, retries, errno, runs>>

lose ==
  /\ device = "up"
  /\ device' = "lost" /\ queue' = <<>>
  /\ UNCHANGED <<inError, done, pc, attempts, tries, retries, errno, runs>>

\* The device factory closes the handle before the program hears.
closeDevice ==
  /\ device = "lost" /\ device' = "closed"
  /\ UNCHANGED <<inError, queue, done, pc, attempts, tries, retries, errno, runs>>

notifyDeviceStateInfo ==
  /\ device = "closed" /\ ~inError /\ inError' = TRUE
  /\ UNCHANGED <<device, queue, done, pc, attempts, tries, retries, errno, runs>>

-----------------------------------------------------------------------------
Init ==
  /\ device = "up" /\ inError = FALSE /\ queue = <<>> /\ done = [o \in Objs |-> FALSE]
  /\ pc = [o \in Objs |-> "idle"] /\ runs = [o \in Objs |-> 0]
  /\ attempts = [o \in Objs |-> 0] /\ tries = [o \in Objs |-> 0]
  /\ retries = [o \in Objs |-> 0] /\ errno = [o \in Objs |-> "other"]

\* What the thread of an object does to end its run.
RunStep(o) ==
  \/ submit(o) \/ runExecute(o) \/ runExecuteFails(o) \/ waited(o) \/ retrySubmit(o)
  \/ finish(o) \/ wait(o) \/ waitFails(o) \/ succeed(o)

Finished == (\A o \in Objs : pc[o] = "idle" /\ runs[o] = MaxRuns) /\ UNCHANGED vars

Next ==
  \/ \E o \in Objs : run(o) \/ RunStep(o)
  \/ complete \/ lose \/ closeDevice \/ notifyDeviceStateInfo \/ Finished

Spec == Init /\ [][Next]_vars

\* Threads are scheduled, and timed waits time out.
FairSpec == Spec /\ \A o \in Objs : WF_vars(RunStep(o))

-----------------------------------------------------------------------------
(* Properties.                                                             *)

\* Every variable has its type; the queue holds each execution once and never
\* more elements than it has; the counters of the three retry loops stay in
\* their bounds.
TypeOK ==
  /\ device \in {"up", "lost", "closed"} /\ (inError => device = "closed")
  /\ queue \in Seq(Objs) /\ IsInjective(queue) /\ Elements(queue) <= QueueSize
  /\ done \in [Objs -> BOOLEAN]
  /\ pc \in [Objs -> {"idle", "submit", "execute", "waiting", "slept", "finish", "wait", "succeed"}]
  /\ attempts \in [Objs -> 0..InferenceRetryCount]
  /\ tries \in [Objs -> 0..SubmitRetryMax]
  /\ retries \in [Objs -> 0..NumMaxWaitRetries]
  /\ \A o \in Objs : pc[o] \in {"execute", "waiting", "slept"} => attempts[o] > 0

\* Across the three retry loops and the loss of the device, a run queues its
\* data once or not at all, in the order of the queue, and succeeds only when
\* these data, not those of a run that gave up, were executed.
Phase(o) ==
  CASE pc[o] = "idle" -> "idle"
    [] pc[o] \in {"submit", "execute", "waiting", "slept"} -> "running"
    [] pc[o] \in {"finish", "wait"} -> IF done[o] THEN "executed" ELSE "queued"
    [] pc[o] = "succeed" -> "executed"

Service == INSTANCE InferenceService WITH
  phase <- [o \in Objs |-> Phase(o)], pending <- queue
ImplementsService == Service!Spec

\* run() returns, whatever the device does: when its queue stays full, when it
\* never answers, and when it goes away while errno still says to try again.
RunReturns == \A o \in Objs : pc[o] # "idle" ~> pc[o] = "idle"

=============================================================================
