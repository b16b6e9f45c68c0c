----------------------- MODULE RuntimePlatformProofs -----------------------
(***************************************************************************)
(* Proofs about the threads of the runtime platform.                       *)
(*                                                                         *)
(* Workqueue, for any number of elements: no request is forgotten, and     *)
(* requests run one at a time, in their order.                             *)
(*                                                                         *)
(* SubSystemRestart, for any number of channels and timers and any         *)
(* duration: an outage that lasts is reported in time, and, when two       *)
(* outages of a channel begin at least a tick apart, an expiry is raised   *)
(* once and only for a channel that was down all the while.  Timers of a   *)
(* channel overlap and share one entry of vcStatusMap_; the one that wakes *)
(* a duration after the channel last went down is the only one that may    *)
(* act.                                                                    *)
(*                                                                         *)
(* EventDelivery, for any number of contexts, clients and producers and    *)
(* any priorities: the way through two queues, two workqueues and a list   *)
(* that changes delivers in order and without a gap, behind the device     *)
(* factory and by priority, and no request to run is lost.  Events are     *)
(* consecutive numbers; what every proof rests on is where in this count   *)
(* each queue and each client stands.                                      *)
(***************************************************************************)
EXTENDS Workqueue, SubSystemRestart, EventDelivery,
  FiniteSetTheorems, WellFoundedInduction, TLAPS

-----------------------------------------------------------------------------
(* Workqueue: the invariant.                                               *)

\* ready_ is reset only where the queue was seen empty under mutex_, and only a
\* thread that executes is in an element.
WorkqueueInv == WorkqueueTypeOK /\ NothingForgotten

LEMMA WorkqueueInitInv == WorkqueueInit => WorkqueueInv
<1>1. WorkqueueInit => WorkqueueTypeOK
  <2>. SUFFICES ASSUME WorkqueueInit PROVE WorkqueueTypeOK
    OBVIOUS
  <2>1. workQueue \in Seq(Elements)
    BY DEF WorkqueueInit
  <2>. QED
    BY <2>1 DEF WorkqueueInit, WorkqueueTypeOK
<1>2. WorkqueueInit => NothingForgotten
  BY DEF WorkqueueInit, NothingForgotten
<1>. QED
  BY <1>1, <1>2 DEF WorkqueueInv

\* What cleanup() leaves are requests, and there are some only if there were.
LEMMA CleanupLeaves ==
  ASSUME NEW e \in Elements, workQueue \in Seq(Elements), cleanup(e)
  PROVE  workQueue' \in Seq(Elements) /\ (workQueue' # <<>> => workQueue # <<>>)
<1>. DEFINE others == {i \in DOMAIN workQueue : workQueue[i] # e}
            n == Cardinality(others)
<1>1. PICK left \in [1..n -> others] :
        workQueue' = [i \in DOMAIN left |-> workQueue[left[i]]]
  BY DEF cleanup
<1>2. n \in Nat
  <2>1. DOMAIN workQueue = 1..Len(workQueue) /\ Len(workQueue) \in Nat
    OBVIOUS
  <2>2. IsFiniteSet(1..Len(workQueue))
    BY <2>1, FS_Interval
  <2>3. IsFiniteSet(others)
    BY <2>1, <2>2, FS_Subset
  <2>. QED
    BY <2>3, FS_CardinalityType
<1>. HIDE DEF n
<1>3. workQueue' = [i \in 1..n |-> workQueue[left[i]]]
  BY <1>1
<1>4. \A i \in 1..n : workQueue[left[i]] \in Elements
  <2>1. \A i \in 1..n : left[i] \in DOMAIN workQueue
    BY <1>1
  <2>. QED
    BY <2>1
<1>5. workQueue' \in Seq(Elements)
  BY <1>2, <1>3, <1>4
<1>6. workQueue' # <<>> => workQueue # <<>>
  <2>. SUFFICES ASSUME workQueue = <<>> PROVE workQueue' = <<>>
    OBVIOUS
  <2>1. others = {}
    OBVIOUS
  <2>2. n = 0
    BY <2>1, FS_EmptySet DEF n
  <2>. QED
    BY <1>3, <2>2
<1>. QED
  BY <1>5, <1>6

LEMMA WorkqueueNextInv == WorkqueueInv /\ [WorkqueueNext]_workqueueVars => WorkqueueInv'
<1>. SUFFICES ASSUME WorkqueueTypeOK, NothingForgotten, [WorkqueueNext]_workqueueVars
              PROVE  WorkqueueTypeOK' /\ NothingForgotten'
  BY DEF WorkqueueInv
<1>. USE NoElementAssumption
<1>1. ASSUME NEW e \in Elements, notifyReady(e) PROVE WorkqueueTypeOK' /\ NothingForgotten'
  BY <1>1 DEF notifyReady, WorkqueueTypeOK, NothingForgotten
<1>2. ASSUME NEW e \in Elements, cleanup(e) PROVE WorkqueueTypeOK' /\ NothingForgotten'
  <2>1. workQueue' \in Seq(Elements) /\ (workQueue' # <<>> => workQueue # <<>>)
    BY <1>2, CleanupLeaves DEF WorkqueueTypeOK
  <2>2. UNCHANGED <<ready, terminate, worker, running, alive>>
    BY <1>2 DEF cleanup
  <2>. QED
    BY <2>1, <2>2 DEF WorkqueueTypeOK, NothingForgotten
<1>3. ASSUME NEW e \in Elements, destroyElement(e) PROVE WorkqueueTypeOK' /\ NothingForgotten'
  BY <1>3 DEF destroyElement, WorkqueueTypeOK, NothingForgotten
<1>4. CASE wake \/ next
  BY <1>4 DEF wake, next, Pop, WorkqueueTypeOK, NothingForgotten
<1>5. CASE execute
  BY <1>5 DEF execute, WorkqueueTypeOK, NothingForgotten
<1>6. CASE drained
  BY <1>6 DEF drained, WorkqueueTypeOK, NothingForgotten
<1>7. CASE exit
  BY <1>7 DEF exit, WorkqueueTypeOK, NothingForgotten
<1>8. CASE terminateProcessor
  BY <1>8 DEF terminateProcessor, WorkqueueTypeOK, NothingForgotten
<1>9. CASE UNCHANGED workqueueVars
  BY <1>9 DEF workqueueVars, WorkqueueTypeOK, NothingForgotten
<1>. QED
  BY <1>1, <1>2, <1>3, <1>4, <1>5, <1>6, <1>7, <1>8, <1>9
  DEF WorkqueueNext, WorkerStep, Exited

LEMMA WorkqueueInvariance == WorkqueueSpec => []WorkqueueInv
  BY WorkqueueInitInv, WorkqueueNextInv, PTL DEF WorkqueueSpec

\* Every variable has its type, and the thread is in run() of an element
\* exactly while it executes.
THEOREM WorkqueueTypes == WorkqueueSpec => []WorkqueueTypeOK
<1>1. WorkqueueInv => WorkqueueTypeOK
  BY DEF WorkqueueInv
<1>. QED
  BY <1>1, WorkqueueInvariance, PTL

\* ready() and run() never leave a request behind a flag that is down: the
\* thread waits only while the queue is empty or ready_ says it is not.
THEOREM RequestsAreNoticed == WorkqueueSpec => []NothingForgotten
<1>1. WorkqueueInv => NothingForgotten
  BY DEF WorkqueueInv
<1>. QED
  BY <1>1, WorkqueueInvariance, PTL

-----------------------------------------------------------------------------
(* The processor implements the safety part of WorkqueueService.           *)

LEMMA WorkqueueInitMaps == WorkqueueInit => Service!Init
  BY DEF WorkqueueInit, Service!Init

LEMMA WorkqueueNextMaps ==
  WorkqueueInv /\ [WorkqueueNext]_workqueueVars => [Service!Next]_(Service!vars)
<1>. SUFFICES ASSUME WorkqueueTypeOK, [WorkqueueNext]_workqueueVars
              PROVE  Service!Next \/ UNCHANGED Service!vars
  BY DEF WorkqueueInv
<1>1. ASSUME NEW e \in Elements, notifyReady(e) PROVE Service!Request(e)
  BY <1>1 DEF notifyReady, Service!Request
<1>2. ASSUME NEW e \in Elements, cleanup(e) PROVE Service!Withdraw(e)
  BY <1>2 DEF cleanup, Service!Withdraw, Service!Cardinality, Cardinality
<1>3. CASE wake \/ next
  BY <1>3 DEF wake, next, Pop, WorkqueueTypeOK, Service!Start, Service!Next
<1>4. CASE execute
  BY <1>4 DEF execute, WorkqueueTypeOK, Service!Finish, Service!Next
<1>5. CASE terminateProcessor
  BY <1>5 DEF terminateProcessor, Service!Close, Service!Next
<1>6. ASSUME NEW e \in Elements, destroyElement(e) PROVE UNCHANGED Service!vars
  BY <1>6 DEF destroyElement, Service!vars
<1>7. CASE drained \/ exit \/ UNCHANGED workqueueVars
  BY <1>7 DEF drained, exit, workqueueVars, Service!vars
<1>. QED
  BY <1>1, <1>2, <1>3, <1>4, <1>5, <1>6, <1>7
  DEF WorkqueueNext, WorkerStep, Exited, Service!Next

\* The processor does what a workqueue may do: each request is kept until it
\* is withdrawn or run, and requests run one at a time, in their order.
THEOREM ServiceRefined == WorkqueueSpec => Service!Safety
<1>1. WorkqueueInit => Service!Init
  BY WorkqueueInitMaps
<1>2. WorkqueueInv /\ [WorkqueueNext]_workqueueVars => [Service!Next]_(Service!vars)
  BY WorkqueueNextMaps
<1>. QED
  BY <1>1, <1>2, WorkqueueInvariance, PTL DEF WorkqueueSpec, Service!Safety

-----------------------------------------------------------------------------
(* SubSystemRestart: the inductive invariant.                              *)

Entries == [event : {"none", "INVALID_EVENT", "VC_DOWN", "VC_UP"}, at : Times]
TimerStates == [at : {"free", "sleeping", "ended"}, vc : VCs \cup {Nobody}, wake : Times]
ThreadStates == {"none", "THREAD_RUNNING", "THREAD_FINISHED"}

RestartTypes ==
  /\ now \in Times /\ now >= Start
  /\ vcStatus \in [VCs -> Entries]
  /\ timer \in [Timers -> TimerStates]
  /\ threadMap \in [Timers -> ThreadStates]
  /\ starting \in Timers \cup {Nobody}
  /\ life \in {"running", "stopping", "joining", "destroyed"}
  /\ isDown \in [VCs -> BOOLEAN]
  /\ downSince \in [VCs -> Times]
  /\ expired \in [VCs -> Nat]

Sleeping(t) == timer[t].at = "sleeping"

\* A thread that sleeps is not marked, so it is neither joined nor removed.
Threads ==
  /\ \A t \in Timers :
       /\ Sleeping(t) => timer[t].vc \in VCs /\ threadMap[t] # "THREAD_FINISHED"
       /\ threadMap[t] # "none" => timer[t].at # "free"
  /\ starting # Nobody => timer[starting].at # "free"

\* The entry of a channel that is down says so, and since when.
Noted ==
  \A v \in VCs :
    /\ downSince[v] <= now
    /\ isDown[v] => vcStatus[v].event = "VC_DOWN" /\ vcStatus[v].at = downSince[v]
    /\ ~isDown[v] => vcStatus[v].event # "VC_DOWN"

\* A timer that runs the moment it wakes does not oversleep.
InTime == Prompt => \A t \in Timers : Sleeping(t) => now <= timer[t].wake

\* The timer of an outage sleeps until it has reported it.
Watches(t, v) == Sleeping(t) /\ timer[t].vc = v /\ timer[t].wake = downSince[v] + Duration
Watched ==
  \A v \in VCs :
    isDown[v] /\ life = "running" => expired[v] > 0 \/ \E t \in Timers : Watches(t, v)

\* Of the timers of a channel one watches the last outage and has not reported
\* it yet; the others wake before.  The entry is there as long as they sleep.
LatestEvent(t) == timer[t].wake = downSince[timer[t].vc] + Duration
OneByOne ==
  \A t \in Timers : Sleeping(t) =>
    /\ timer[t].wake <= downSince[timer[t].vc] + Duration
    /\ vcStatus[timer[t].vc].event \in {"VC_DOWN", "VC_UP"}
    /\ vcStatus[timer[t].vc].at = downSince[timer[t].vc]
    /\ LatestEvent(t) => expired[timer[t].vc] = 0
    /\ \A u \in Timers \ {t} :
         Sleeping(u) /\ timer[u].vc = timer[t].vc => timer[u].wake # timer[t].wake
Orderly == Prompt /\ Apart => OneByOne

\* Every expiry event of an outage came from a timer of its own.
SleepingFor(v) == {t \in Timers : Sleeping(t) /\ timer[t].vc = v}
Counted == \A v \in VCs : expired[v] + Cardinality(SleepingFor(v)) <= Cardinality(Timers)

RestartInv == RestartTypes /\ Threads /\ Noted /\ InTime /\ Watched /\ Orderly /\ Counted

-----------------------------------------------------------------------------
(* What a timer that ends, or one that starts, changes.                    *)

TimerEnds(t) == timer' = [timer EXCEPT ![t].at = "ended"]

LEMMA EndedTimer ==
  ASSUME RestartTypes, NEW t \in Timers, TimerEnds(t)
  PROVE  /\ timer' \in [Timers -> TimerStates]
         /\ timer'[t].at = "ended"
         /\ \A u \in Timers \ {t} : timer'[u] = timer[u]
BY DEF RestartTypes, TimerStates, TimerEnds

LEMMA SleepersFinite ==
  ASSUME NEW S \in SUBSET Timers
  PROVE  /\ IsFiniteSet(S) /\ Cardinality(S) \in Nat /\ Cardinality(Timers) \in Nat
         /\ Cardinality(S) <= Cardinality(Timers)
BY TimersAssumption, FS_Subset, FS_CardinalityType

\* No other channel is watched less, and this one by one less.
LEMMA EndedSleeper ==
  ASSUME RestartTypes, NEW t \in Timers, TimerEnds(t), Sleeping(t)
  PROVE  /\ \A v \in VCs : Cardinality(SleepingFor(v)') <= Cardinality(SleepingFor(v))
         /\ \A v \in VCs : timer[t].vc = v =>
              Cardinality(SleepingFor(v)') = Cardinality(SleepingFor(v)) - 1
         /\ \A v \in VCs : /\ Cardinality(SleepingFor(v)') \in Nat
                            /\ Cardinality(SleepingFor(v)) \in Nat
<1>1. ASSUME NEW v \in VCs
      PROVE  /\ SleepingFor(v)' = SleepingFor(v) \ {t}
             /\ SleepingFor(v) \in SUBSET Timers /\ SleepingFor(v)' \in SUBSET Timers
             /\ timer[t].vc = v => t \in SleepingFor(v)
  BY EndedTimer DEF SleepingFor, Sleeping
<1>2. \A v \in VCs : /\ IsFiniteSet(SleepingFor(v)) /\ Cardinality(SleepingFor(v)) \in Nat
                     /\ Cardinality(SleepingFor(v)') \in Nat
  BY <1>1, SleepersFinite
<1>3. \A v \in VCs : Cardinality(SleepingFor(v)') <= Cardinality(SleepingFor(v))
  BY <1>1, <1>2, FS_Subset
<1>4. \A v \in VCs : timer[t].vc = v =>
        Cardinality(SleepingFor(v)') = Cardinality(SleepingFor(v)) - 1
  BY <1>1, <1>2, FS_RemoveElement
<1>5. QED
  BY <1>2, <1>3, <1>4

-----------------------------------------------------------------------------
(* The monitor thread.                                                     *)

\* A timer that was free is told apart from those that sleep by the time.
LEMMA vcDownKeeps ==
  ASSUME RestartInv, NEW v \in VCs, NEW t \in Timers, vcDown(v, t)
  PROVE  RestartInv'
<1>1. /\ now + Duration \in Times /\ now \in Times
      /\ t # Nobody /\ timer[t].at = "free"
  BY TimeAssumption, NobodyAssumption DEF vcDown, RestartInv, RestartTypes, Times, Start
<1>2. /\ timer' \in [Timers -> TimerStates]
      /\ timer'[t] = [at |-> "sleeping", vc |-> v, wake |-> now + Duration]
      /\ \A u \in Timers \ {t} : timer'[u] = timer[u]
  BY <1>1 DEF vcDown, RestartInv, RestartTypes, TimerStates
<1>3. /\ vcStatus' \in [VCs -> Entries]
      /\ vcStatus'[v] = [event |-> "VC_DOWN", at |-> now]
      /\ \A w \in VCs \ {v} : vcStatus'[w] = vcStatus[w]
  BY <1>1 DEF vcDown, RestartInv, RestartTypes, Entries
<1>4. /\ downSince' \in [VCs -> Times] /\ downSince'[v] = now
      /\ \A w \in VCs \ {v} : downSince'[w] = downSince[w]
      /\ expired' \in [VCs -> Nat] /\ expired'[v] = 0
      /\ \A w \in VCs \ {v} : expired'[w] = expired[w]
  BY <1>1 DEF vcDown, RestartInv, RestartTypes
<1>5. /\ isDown' \in [VCs -> BOOLEAN] /\ isDown'[v]
      /\ \A w \in VCs \ {v} : isDown'[w] = isDown[w]
  BY DEF vcDown, RestartInv, RestartTypes
<1>6. RestartTypes'
  BY <1>2, <1>3, <1>4, <1>5 DEF vcDown, RestartInv, RestartTypes
<1>7. Threads'
  <2>1. threadMap[t] = "none"
    BY <1>1 DEF RestartInv, RestartTypes, Threads, ThreadStates
  <2>2. QED
    BY <1>1, <1>2, <2>1 DEF vcDown, RestartInv, Threads, Sleeping
<1>8. Noted'
  BY <1>1, <1>3, <1>4, <1>5 DEF vcDown, RestartInv, RestartTypes, Times, Noted
<1>9. InTime'
  BY <1>1, <1>2, TimeAssumption DEF vcDown, RestartInv, RestartTypes, Times, InTime, Sleeping
<1>10. Watched'
  <2>1. Watches(t, v)'
    BY <1>2, <1>4 DEF Watches, Sleeping
  <2>2. \A w \in VCs \ {v} : \A u \in Timers : Watches(u, w) => Watches(u, w)'
    BY <1>1, <1>2, <1>4 DEF Watches, Sleeping
  <2>3. QED
    BY <1>4, <1>5, <2>1, <2>2 DEF vcDown, RestartInv, Watched
<1>11. Orderly'
  <2>1. SUFFICES ASSUME Prompt, Apart PROVE OneByOne'
    BY DEF Orderly
  <2>2. OneByOne
    BY <2>1 DEF RestartInv, Orderly
  <2>3. downSince[v] < now
    BY <2>1 DEF vcDown
  <2>4. ASSUME NEW u \in Timers \ {t}, Sleeping(u)'
        PROVE  /\ Sleeping(u) /\ timer'[u] = timer[u] /\ timer[u].vc \in VCs
               /\ timer[u].wake \in Times
               /\ timer[u].vc = v => timer[u].wake < now + Duration
    <3>1. Sleeping(u) /\ timer'[u] = timer[u] /\ timer[u].vc \in VCs /\ timer[u].wake \in Times
      BY <1>2, <2>4 DEF Sleeping, RestartInv, RestartTypes, TimerStates, Threads
    <3>2. timer[u].vc = v => timer[u].wake <= downSince[v] + Duration
      BY <2>2, <3>1 DEF OneByOne
    <3>3. downSince[v] \in Times
      BY DEF RestartInv, RestartTypes
    <3>4. QED
      BY <1>1, <2>3, <3>1, <3>2, <3>3, TimeAssumption DEF Times
  <2>5. ASSUME NEW u \in Timers, Sleeping(u)', u # t
        PROVE  /\ timer'[u].wake <= downSince'[timer'[u].vc] + Duration
               /\ vcStatus'[timer'[u].vc].event \in {"VC_DOWN", "VC_UP"}
               /\ vcStatus'[timer'[u].vc].at = downSince'[timer'[u].vc]
               /\ timer'[u].wake = downSince'[timer'[u].vc] + Duration =>
                    expired'[timer'[u].vc] = 0
    <3>1. CASE timer[u].vc = v
      BY <1>1, <1>3, <1>4, <2>4, <2>5, <3>1, TimeAssumption DEF Times
    <3>2. CASE timer[u].vc # v
      BY <1>3, <1>4, <2>2, <2>4, <2>5, <3>2 DEF OneByOne, LatestEvent
    <3>3. QED
      BY <3>1, <3>2
  <2>6. ASSUME NEW u \in Timers, Sleeping(u)', NEW w \in Timers \ {u}, Sleeping(w)',
               timer'[w].vc = timer'[u].vc
        PROVE  timer'[w].wake # timer'[u].wake
    <3>1. CASE u = t
      BY <1>1, <1>2, <2>4, <2>6, <3>1 DEF Times
    <3>2. CASE w = t
      BY <1>1, <1>2, <2>4, <2>6, <3>2 DEF Times
    <3>3. CASE u # t /\ w # t
      BY <2>2, <2>4, <2>6, <3>3 DEF OneByOne
    <3>4. QED
      BY <3>1, <3>2, <3>3
  <2>7. ASSUME Sleeping(t)'
        PROVE  /\ timer'[t].wake <= downSince'[timer'[t].vc] + Duration
               /\ vcStatus'[timer'[t].vc].event \in {"VC_DOWN", "VC_UP"}
               /\ vcStatus'[timer'[t].vc].at = downSince'[timer'[t].vc]
               /\ timer'[t].wake = downSince'[timer'[t].vc] + Duration =>
                    expired'[timer'[t].vc] = 0
    BY <1>1, <1>2, <1>3, <1>4, TimeAssumption DEF Times
  <2>8. QED
    BY <2>5, <2>6, <2>7 DEF OneByOne, LatestEvent
<1>12. Counted'
  <2>1. ASSUME NEW w \in VCs \ {v} PROVE SleepingFor(w)' = SleepingFor(w)
    BY <1>1, <1>2 DEF SleepingFor, Sleeping
  <2>2. Cardinality(SleepingFor(v)') <= Cardinality(Timers) /\ Cardinality(SleepingFor(v)') \in Nat
    <3>1. SleepingFor(v)' \in SUBSET Timers
      BY DEF SleepingFor
    <3>2. QED
      BY <3>1, SleepersFinite
  <2>3. ASSUME NEW w \in VCs
        PROVE  (expired[w] + Cardinality(SleepingFor(w)) <= Cardinality(Timers))'
    <3>1. CASE w = v
      BY <1>4, <2>2, <3>1
    <3>2. CASE w # v
      BY <1>4, <2>1, <3>2 DEF RestartInv, Counted
    <3>3. QED
      BY <3>1, <3>2
  <2>4. QED
    BY <2>3 DEF Counted
<1>13. QED
  BY <1>6, <1>7, <1>8, <1>9, <1>10, <1>11, <1>12 DEF RestartInv

\* Only threads that do not sleep are joined and removed.
LEMMA enterThreadKeeps ==
  ASSUME RestartInv, enterThread
  PROVE  RestartInv'
<1> DEFINE entered  == [threadMap EXCEPT ![starting] = "THREAD_RUNNING"]
           finished == {t \in Timers : entered[t] = "THREAD_FINISHED"}
<1>1. /\ starting \in Timers /\ starting' = Nobody
      /\ threadMap' = [t \in Timers |-> IF t \in finished THEN "none" ELSE entered[t]]
      /\ timer' = [t \in Timers |-> IF t \in finished THEN Idle ELSE timer[t]]
  BY DEF enterThread, RestartInv, RestartTypes
<1>2. entered \in [Timers -> ThreadStates]
  BY <1>1 DEF RestartInv, RestartTypes, ThreadStates
<1>3. \A t \in Timers : t \in finished => threadMap[t] = "THREAD_FINISHED" /\ t # starting
  BY <1>1 DEF RestartInv, RestartTypes
<1>4. \A t \in Timers : IF t \in finished THEN timer'[t] = Idle ELSE timer'[t] = timer[t]
  BY <1>1
<1>5. \A t \in Timers : /\ Sleeping(t) => timer'[t] = timer[t]
                        /\ Sleeping(t)' => Sleeping(t)
  BY <1>3, <1>4 DEF Sleeping, Idle, RestartInv, Threads
<1>6. RestartTypes'
  <2>1. Idle \in TimerStates
    BY TimeAssumption DEF Idle, TimerStates, Times, Start
  <2>2. timer' \in [Timers -> TimerStates]
    BY <1>1, <2>1 DEF RestartInv, RestartTypes
  <2>3. threadMap' \in [Timers -> ThreadStates]
    BY <1>1, <1>2 DEF ThreadStates
  <2>4. QED
    BY <1>1, <2>2, <2>3 DEF enterThread, history, RestartInv, RestartTypes
<1>7. Threads'
  <2>1. ASSUME NEW t \in Timers, threadMap'[t] # "none"
        PROVE  timer'[t].at # "free"
    <3>1. t \notin finished /\ threadMap'[t] = entered[t] /\ timer'[t] = timer[t]
      BY <1>1, <1>4, <2>1
    <3>2. CASE t = starting
      BY <1>1, <3>1, <3>2, NobodyAssumption DEF RestartInv, Threads
    <3>3. CASE t # starting
      BY <1>1, <2>1, <3>1, <3>3 DEF RestartInv, RestartTypes, Threads
    <3>4. QED
      BY <3>2, <3>3
  <2>2. \A t \in Timers : Sleeping(t)' => timer'[t].vc \in VCs /\ threadMap'[t] # "THREAD_FINISHED"
    BY <1>1, <1>2, <1>5 DEF RestartInv, Threads
  <2>3. QED
    BY <1>1, <2>1, <2>2 DEF Threads, Sleeping
<1>8. Noted' /\ InTime'
  BY <1>5 DEF enterThread, history, RestartInv, Noted, InTime
<1>9. Watched'
  <2>1. \A t \in Timers, v \in VCs : Watches(t, v) => Watches(t, v)'
    BY <1>5 DEF enterThread, history, Watches, Sleeping
  <2>2. QED
    BY <2>1 DEF enterThread, history, RestartInv, Watched
<1>10. Orderly'
  BY <1>5 DEF enterThread, history, RestartInv, Orderly, OneByOne, LatestEvent
<1>11. Counted'
  <2>1. \A v \in VCs : SleepingFor(v)' = SleepingFor(v)
    BY <1>5 DEF SleepingFor, Sleeping
  <2>2. QED
    BY <2>1 DEF enterThread, history, RestartInv, Counted
<1>12. QED
  BY <1>6, <1>7, <1>8, <1>9, <1>10, <1>11 DEF RestartInv

LEMMA vcUpKeeps ==
  ASSUME RestartInv, NEW v \in VCs, vcUp(v)
  PROVE  RestartInv'
<1>1. /\ vcStatus' \in [VCs -> Entries]
      /\ vcStatus'[v].at = vcStatus[v].at
      /\ vcStatus'[v].event = IF vcStatus[v] = NoEntry THEN "none" ELSE "VC_UP"
      /\ \A w \in VCs \ {v} : vcStatus'[w] = vcStatus[w]
  <2>1. CASE vcStatus[v] = NoEntry
    BY <2>1 DEF vcUp, RestartInv, RestartTypes, Entries, NoEntry
  <2>2. CASE vcStatus[v] # NoEntry
    BY <2>2 DEF vcUp, RestartInv, RestartTypes, Entries
  <2>3. QED
    BY <2>1, <2>2
<1>2. /\ isDown' \in [VCs -> BOOLEAN] /\ ~isDown'[v]
      /\ \A w \in VCs \ {v} : isDown'[w] = isDown[w]
  BY DEF vcUp, RestartInv, RestartTypes
<1>3. RestartTypes'
  BY <1>1, <1>2 DEF vcUp, RestartInv, RestartTypes
<1>4. Threads' /\ InTime'
  BY DEF vcUp, RestartInv, Threads, InTime, Sleeping
<1>5. Noted'
  BY <1>1, <1>2 DEF vcUp, RestartInv, Noted
<1>6. Watched'
  BY <1>2 DEF vcUp, RestartInv, Watched, Watches, Sleeping
<1>7. Orderly'
  BY <1>1 DEF vcUp, RestartInv, Orderly, OneByOne, LatestEvent, Sleeping, Threads, NoEntry
<1>8. Counted'
  BY DEF vcUp, RestartInv, Counted, SleepingFor, Sleeping
<1>9. QED
  BY <1>3, <1>4, <1>5, <1>6, <1>7, <1>8 DEF RestartInv

-----------------------------------------------------------------------------
(* A timer thread.                                                         *)

\* What no timer that ends can disturb.
LEMMA EndKeeps ==
  ASSUME RestartInv, NEW t \in Timers, Sleeping(t), TimerEnds(t),
         UNCHANGED <<now, starting, life, isDown, downSince>>,
         \/ UNCHANGED threadMap
         \/ threadMap' = [threadMap EXCEPT ![t] = "THREAD_FINISHED"]
  PROVE  Threads' /\ InTime' /\ threadMap' \in [Timers -> ThreadStates]
<1>1. /\ threadMap' \in [Timers -> ThreadStates]
      /\ \A u \in Timers \ {t} : threadMap'[u] = threadMap[u]
  BY DEF RestartInv, RestartTypes, ThreadStates
<1>2. Threads'
  BY <1>1, EndedTimer DEF RestartInv, RestartTypes, Threads, Sleeping
<1>3. InTime'
  BY EndedTimer DEF RestartInv, InTime, Sleeping
<1>4. QED
  BY <1>1, <1>2, <1>3

LEMMA stopTimerKeeps ==
  ASSUME RestartInv, NEW t \in Timers, stopTimer(t)
  PROVE  RestartInv'
<1>1. TimerEnds(t) /\ Sleeping(t) /\ Stopped
  BY DEF stopTimer, TimerEnds, Sleeping
<1>2. Threads' /\ InTime' /\ threadMap' \in [Timers -> ThreadStates]
  BY <1>1, EndKeeps DEF stopTimer, history
<1>3. RestartTypes'
  BY <1>1, <1>2, EndedTimer DEF stopTimer, history, RestartInv, RestartTypes
<1>4. Noted' /\ Watched'
  BY <1>1 DEF stopTimer, history, RestartInv, Noted, Watched, Stopped
<1>5. Orderly'
  BY <1>1, EndedTimer DEF stopTimer, history, RestartInv, Orderly, OneByOne, LatestEvent, Sleeping
<1>6. Counted'
  <2>1. ASSUME NEW v \in VCs
        PROVE  (expired[v] + Cardinality(SleepingFor(v)) <= Cardinality(Timers))'
    <3>1. /\ Cardinality(SleepingFor(v)') <= Cardinality(SleepingFor(v))
          /\ Cardinality(SleepingFor(v)') \in Nat /\ Cardinality(SleepingFor(v)) \in Nat
      BY <1>1, EndedSleeper DEF RestartInv
    <3>2. Cardinality(Timers) \in Nat
      BY SleepersFinite
    <3>3. QED
      BY <3>1, <3>2 DEF stopTimer, history, RestartInv, RestartTypes, Counted
  <2>2. QED
    BY <2>1 DEF Counted
<1>7. QED
  BY <1>2, <1>3, <1>4, <1>5, <1>6 DEF RestartInv

\* What a timer that wakes finds.
LEMMA AwakeFinds ==
  ASSUME RestartInv, NEW t \in Timers, Awake(t)
  PROVE  /\ TimerEnds(t) /\ Sleeping(t) /\ timer[t].vc \in VCs
         /\ now >= timer[t].wake /\ now \in Times /\ timer[t].wake \in Times
         /\ \A v \in VCs : downSince[v] \in Times /\ vcStatus[v] \in Entries
         /\ Entry(timer[t].vc) \in Entries
<1>1. TimerEnds(t) /\ Sleeping(t) /\ timer[t].vc \in VCs /\ now >= timer[t].wake
  BY DEF Awake, TimerEnds, Sleeping, RestartInv, Threads
<1>2. now \in Times /\ timer[t].wake \in Times
  BY DEF RestartInv, RestartTypes, TimerStates
<1>3. \A v \in VCs : downSince[v] \in Times /\ vcStatus[v] \in Entries
  BY DEF RestartInv, RestartTypes
<1>4. DefaultEntry \in Entries
  BY TimeAssumption DEF DefaultEntry, Entries, Times, Start
<1>5. QED
  BY <1>1, <1>2, <1>3, <1>4 DEF Entry

\* Nobody else is woken too late when a timer ends without raising anything.
LEMMA QuietEnd ==
  ASSUME RestartInv, NEW t \in Timers, Awake(t), UNCHANGED expired,
         \/ UNCHANGED threadMap
         \/ threadMap' = [threadMap EXCEPT ![t] = "THREAD_FINISHED"],
         NEW x \in Entries, vcStatus' = [vcStatus EXCEPT ![timer[t].vc] = x],
         isDown[timer[t].vc] => x = vcStatus[timer[t].vc] /\ ~LatestEvent(t),
         ~isDown[timer[t].vc] => x.event # "VC_DOWN",
         Orderly'
  PROVE  RestartInv'
<1>1. /\ TimerEnds(t) /\ Sleeping(t) /\ timer[t].vc \in VCs
      /\ UNCHANGED <<now, starting, life, isDown, downSince>>
  BY AwakeFinds DEF Awake
<1>2. Threads' /\ InTime' /\ threadMap' \in [Timers -> ThreadStates]
  BY <1>1, EndKeeps
<1>3. /\ vcStatus' \in [VCs -> Entries] /\ vcStatus'[timer[t].vc] = x
      /\ \A w \in VCs \ {timer[t].vc} : vcStatus'[w] = vcStatus[w]
  BY <1>1 DEF RestartInv, RestartTypes
<1>4. RestartTypes'
  BY <1>1, <1>2, <1>3, EndedTimer DEF RestartInv, RestartTypes
<1>5. Noted'
  BY <1>1, <1>3 DEF RestartInv, Noted
<1>6. Watched'
  <2>1. ASSUME NEW v \in VCs, isDown[v], NEW u \in Timers, Watches(u, v)
        PROVE  Watches(u, v)'
    <3>1. u # t
      BY <1>1, <2>1 DEF Watches, LatestEvent
    <3>2. QED
      BY <1>1, <2>1, <3>1, EndedTimer DEF RestartInv, Watches, Sleeping
  <2>2. QED
    BY <1>1, <2>1 DEF RestartInv, Watched
<1>7. Counted'
  <2>1. ASSUME NEW v \in VCs
        PROVE  (expired[v] + Cardinality(SleepingFor(v)) <= Cardinality(Timers))'
    <3>1. /\ Cardinality(SleepingFor(v)') <= Cardinality(SleepingFor(v))
          /\ Cardinality(SleepingFor(v)') \in Nat /\ Cardinality(SleepingFor(v)) \in Nat
      BY <1>1, EndedSleeper DEF RestartInv
    <3>2. Cardinality(Timers) \in Nat
      BY SleepersFinite
    <3>3. QED
      BY <3>1, <3>2 DEF RestartInv, RestartTypes, Counted
  <2>2. QED
    BY <2>1 DEF Counted
<1>8. QED
  BY <1>2, <1>4, <1>5, <1>6, <1>7 DEF RestartInv

LEMMA restartedKeeps ==
  ASSUME RestartInv, NEW t \in Timers, restarted(t)
  PROVE  RestartInv'
<1>1. /\ Awake(t) /\ UNCHANGED expired
      /\ threadMap' = [threadMap EXCEPT ![t] = "THREAD_FINISHED"]
      /\ vcStatus' = [vcStatus EXCEPT ![timer[t].vc] = NoEntry]
      /\ Entry(timer[t].vc).event = "VC_UP" /\ Elapsed(timer[t].vc) >= Duration
  BY DEF restarted, finish
<1>2. /\ NoEntry \in Entries /\ NoEntry.event # "VC_DOWN"
      /\ vcStatus[timer[t].vc].event = "VC_UP"
      /\ vcStatus[timer[t].vc] = Entry(timer[t].vc)
  BY <1>1, TimeAssumption DEF NoEntry, DefaultEntry, Entry, Entries, Times, Start
<1>3. ~isDown[timer[t].vc]
  BY <1>1, <1>2, AwakeFinds DEF RestartInv, Noted
<1>4. Orderly'
  <2>1. SUFFICES ASSUME Prompt, Apart PROVE OneByOne'
    BY DEF Orderly
  <2>2. OneByOne /\ \A u \in Timers : Sleeping(u) => now <= timer[u].wake
    BY <2>1 DEF RestartInv, Orderly, InTime
  <2>3. LatestEvent(t) /\ now = timer[t].wake
    <3>1. /\ vcStatus[timer[t].vc].at = downSince[timer[t].vc]
          /\ timer[t].wake <= downSince[timer[t].vc] + Duration
          /\ now <= timer[t].wake
      BY <1>1, <2>2, AwakeFinds DEF OneByOne
    <3>2. now - downSince[timer[t].vc] >= Duration
      BY <1>1, <1>2, <3>1 DEF Elapsed
    <3>3. QED
      BY <1>1, <3>1, <3>2, AwakeFinds, TimeAssumption DEF LatestEvent, Times, Start
  <2>4. ASSUME NEW u \in Timers \ {t}, Sleeping(u)
        PROVE  timer[u].vc # timer[t].vc
    <3>1. SUFFICES ASSUME timer[u].vc = timer[t].vc PROVE FALSE
      OBVIOUS
    <3>2. /\ timer[u].wake <= downSince[timer[t].vc] + Duration
          /\ now <= timer[u].wake /\ timer[u].wake # timer[t].wake
      BY <1>1, <2>2, <2>4, <3>1, AwakeFinds DEF OneByOne
    <3>3. timer[u].wake \in Times /\ downSince[timer[t].vc] \in Times
      BY <1>1, AwakeFinds DEF RestartInv, RestartTypes, TimerStates
    <3>4. QED
      BY <1>1, <2>3, <3>2, <3>3, AwakeFinds, TimeAssumption DEF LatestEvent, Times, Start
  <2>5. /\ \A u \in Timers : Sleeping(u)' =>
             /\ u # t /\ timer'[u] = timer[u] /\ Sleeping(u)
             /\ vcStatus'[timer[u].vc] = vcStatus[timer[u].vc]
    BY <1>1, <2>4, AwakeFinds, EndedTimer DEF RestartInv, RestartTypes, Threads, Sleeping
  <2>6. QED
    BY <1>1, <2>2, <2>5 DEF OneByOne, LatestEvent, Awake
<1>5. QED
  BY <1>1, <1>2, <1>3, <1>4, QuietEnd

LEMMA supersededKeeps ==
  ASSUME RestartInv, NEW t \in Timers, superseded(t)
  PROVE  RestartInv'
<1>1. /\ Awake(t) /\ UNCHANGED <<threadMap, expired>>
      /\ vcStatus' = [vcStatus EXCEPT ![timer[t].vc] = Entry(timer[t].vc)]
      /\ Elapsed(timer[t].vc) < Duration
  BY DEF superseded
<1>2. Entry(timer[t].vc) = vcStatus[timer[t].vc]
  <2>1. vcStatus[timer[t].vc] # NoEntry
    <3>1. SUFFICES ASSUME vcStatus[timer[t].vc] = NoEntry PROVE FALSE
      OBVIOUS
    <3>2. Elapsed(timer[t].vc) = now
      BY <1>1, <3>1, AwakeFinds DEF Elapsed, Entry, DefaultEntry, Times
    <3>3. QED
      BY <1>1, <3>2, TimeAssumption DEF RestartInv, RestartTypes, Times, Start
  <2>2. QED
    BY <2>1 DEF Entry
<1>3. isDown[timer[t].vc] => ~LatestEvent(t)
  <2>1. isDown[timer[t].vc] => now - downSince[timer[t].vc] < Duration
    BY <1>1, <1>2, AwakeFinds DEF RestartInv, Noted, Elapsed
  <2>2. QED
    BY <1>1, <2>1, AwakeFinds, TimeAssumption DEF LatestEvent, Times, Start
<1>4. ~isDown[timer[t].vc] => vcStatus[timer[t].vc].event # "VC_DOWN"
  BY <1>1, AwakeFinds DEF RestartInv, Noted
<1>5. vcStatus' = vcStatus
  BY <1>1, <1>2 DEF RestartInv, RestartTypes
<1>6. Orderly'
  BY <1>1, <1>5, AwakeFinds, EndedTimer
  DEF RestartInv, Orderly, OneByOne, LatestEvent, Sleeping, Awake
<1>7. QED
  BY <1>1, <1>2, <1>3, <1>4, <1>6, AwakeFinds, QuietEnd

\* The timer that raises the event watches the outage that started last.
LEMMA ExpireFinds ==
  ASSUME RestartInv, NEW t \in Timers, expire(t), Prompt, Apart
  PROVE  /\ LatestEvent(t) /\ isDown[timer[t].vc] /\ expired[timer[t].vc] = 0
         /\ now - downSince[timer[t].vc] >= Duration
<1>1. /\ Awake(t) /\ Entry(timer[t].vc).event # "VC_UP" /\ Elapsed(timer[t].vc) >= Duration
  BY DEF expire
<1>2. OneByOne /\ now <= timer[t].wake
  BY <1>1, AwakeFinds DEF RestartInv, Orderly, InTime
<1>3. /\ timer[t].wake <= downSince[timer[t].vc] + Duration
      /\ vcStatus[timer[t].vc].event \in {"VC_DOWN", "VC_UP"}
      /\ vcStatus[timer[t].vc].at = downSince[timer[t].vc]
      /\ LatestEvent(t) => expired[timer[t].vc] = 0
  BY <1>1, <1>2, AwakeFinds DEF OneByOne
<1>4. Entry(timer[t].vc) = vcStatus[timer[t].vc]
  BY <1>3 DEF Entry, NoEntry
<1>5. now - downSince[timer[t].vc] >= Duration
  BY <1>1, <1>3, <1>4 DEF Elapsed
<1>6. LatestEvent(t)
  BY <1>1, <1>2, <1>3, <1>5, AwakeFinds, TimeAssumption DEF LatestEvent, Times, Start
<1>7. isDown[timer[t].vc]
  BY <1>1, <1>3, <1>4, AwakeFinds DEF RestartInv, Noted
<1>8. QED
  BY <1>3, <1>5, <1>6, <1>7

LEMMA expireKeeps ==
  ASSUME RestartInv, NEW t \in Timers, expire(t)
  PROVE  RestartInv'
<1>1. /\ Awake(t) /\ threadMap' = [threadMap EXCEPT ![t] = "THREAD_FINISHED"]
      /\ vcStatus' = [vcStatus EXCEPT ![timer[t].vc] = Entry(timer[t].vc)]
      /\ expired' = [expired EXCEPT ![timer[t].vc] = expired[timer[t].vc] + 1]
      /\ UNCHANGED <<now, starting, life, isDown, downSince>>
  BY DEF expire, finish, Awake
<1>2. TimerEnds(t) /\ Sleeping(t) /\ timer[t].vc \in VCs
  BY <1>1, AwakeFinds
<1>3. /\ expired' \in [VCs -> Nat] /\ expired'[timer[t].vc] = expired[timer[t].vc] + 1
      /\ \A v \in VCs \ {timer[t].vc} : expired'[v] = expired[v]
      /\ \A v \in VCs : expired[v] \in Nat
  BY <1>1, <1>2 DEF RestartInv, RestartTypes
<1>4. /\ vcStatus' \in [VCs -> Entries] /\ vcStatus'[timer[t].vc] = Entry(timer[t].vc)
      /\ \A v \in VCs \ {timer[t].vc} : vcStatus'[v] = vcStatus[v]
  BY <1>1, <1>2, AwakeFinds DEF RestartInv, RestartTypes
<1>5. Threads' /\ InTime' /\ threadMap' \in [Timers -> ThreadStates]
  BY <1>1, <1>2, EndKeeps
<1>6. RestartTypes'
  BY <1>1, <1>2, <1>3, <1>4, <1>5, EndedTimer DEF RestartInv, RestartTypes
<1>7. Noted'
  BY <1>1, <1>2, <1>4 DEF RestartInv, Noted, Entry, NoEntry, DefaultEntry
<1>8. Watched'
  <2>1. ASSUME NEW v \in VCs \ {timer[t].vc}, NEW u \in Timers, Watches(u, v)
        PROVE  Watches(u, v)'
    BY <1>1, <1>2, <2>1, EndedTimer DEF RestartInv, Watches, Sleeping
  <2>2. QED
    BY <1>1, <1>2, <1>3, <2>1 DEF RestartInv, Watched
<1>9. Orderly'
  <2>1. SUFFICES ASSUME Prompt, Apart PROVE OneByOne'
    BY DEF Orderly
  <2>2. OneByOne /\ LatestEvent(t)
    BY <2>1, ExpireFinds DEF RestartInv, Orderly
  <2>3. vcStatus' = vcStatus
    <3>1. Entry(timer[t].vc) = vcStatus[timer[t].vc]
      BY <1>2, <2>2 DEF OneByOne, Entry, NoEntry
    <3>2. QED
      BY <1>1, <3>1 DEF RestartInv, RestartTypes
  <2>4. ASSUME NEW u \in Timers, Sleeping(u)'
        PROVE  /\ u # t /\ timer'[u] = timer[u] /\ Sleeping(u) /\ timer[u].vc \in VCs
               /\ LatestEvent(u) => timer[u].vc # timer[t].vc
    <3>1. u # t /\ timer'[u] = timer[u] /\ Sleeping(u) /\ timer[u].vc \in VCs
      BY <1>2, <2>4, EndedTimer DEF Sleeping, RestartInv, Threads
    <3>2. QED
      BY <1>2, <2>2, <3>1 DEF OneByOne, LatestEvent
  <2>5. QED
    BY <1>1, <1>3, <2>2, <2>3, <2>4 DEF OneByOne, LatestEvent
<1>10. Counted'
  <2>1. ASSUME NEW v \in VCs
        PROVE  (expired[v] + Cardinality(SleepingFor(v)) <= Cardinality(Timers))'
    <3>1. /\ Cardinality(SleepingFor(v)') <= Cardinality(SleepingFor(v))
          /\ Cardinality(SleepingFor(v)') \in Nat /\ Cardinality(SleepingFor(v)) \in Nat
          /\ timer[t].vc = v => Cardinality(SleepingFor(v)') = Cardinality(SleepingFor(v)) - 1
      BY <1>2, EndedSleeper DEF RestartInv
    <3>2. Cardinality(Timers) \in Nat
      BY SleepersFinite
    <3>3. expired[v] + Cardinality(SleepingFor(v)) <= Cardinality(Timers)
      BY DEF RestartInv, Counted
    <3>4. CASE v = timer[t].vc
      BY <1>3, <3>1, <3>2, <3>3, <3>4
    <3>5. CASE v # timer[t].vc
      BY <1>3, <3>1, <3>2, <3>3, <3>5
    <3>6. QED
      BY <3>4, <3>5
  <2>2. QED
    BY <2>1 DEF Counted
<1>11. QED
  BY <1>5, <1>6, <1>7, <1>8, <1>9, <1>10 DEF RestartInv

-----------------------------------------------------------------------------
(* The clock and the destructor.                                           *)

LEMMA tickKeeps ==
  ASSUME RestartInv, tick
  PROVE  RestartInv'
<1>1. now' \in Times /\ now' = now + 1 /\ now \in Times
  BY TimeAssumption DEF tick, RestartInv, RestartTypes, Times, Start
<1>2. RestartTypes'
  BY <1>1, TimeAssumption DEF tick, history, RestartInv, RestartTypes, Times, Start
<1>3. Noted'
  BY <1>1 DEF tick, history, RestartInv, RestartTypes, Noted, Times
<1>4. InTime'
  <2>1. \A t \in Timers : timer[t].wake \in Times
    BY DEF RestartInv, RestartTypes, TimerStates
  <2>2. QED
    BY <1>1, <2>1, TimeAssumption DEF tick, RestartInv, InTime, Sleeping, Times, Start
<1>5. Threads' /\ Watched' /\ Orderly' /\ Counted'
  BY DEF tick, history, RestartInv, Threads, Watched, Watches, Orderly, OneByOne, LatestEvent, Counted,
     SleepingFor, Sleeping
<1>6. QED
  BY <1>2, <1>3, <1>4, <1>5 DEF RestartInv

LEMMA lifeKeeps ==
  ASSUME RestartInv, destroy \/ joinMonitor \/ joinTimers \/ UNCHANGED restartVars
  PROVE  RestartInv'
<1>1. /\ UNCHANGED <<now, vcStatus, timer, threadMap, starting, isDown, downSince, expired>>
      /\ life' \in {"running", "stopping", "joining", "destroyed"}
      /\ life' = "running" => life = "running"
  BY DEF destroy, joinMonitor, joinTimers, history, restartVars, RestartInv, RestartTypes
<1>2. RestartTypes'
  BY <1>1 DEF RestartInv, RestartTypes
<1>3. Threads' /\ Noted' /\ InTime' /\ Watched' /\ Orderly' /\ Counted'
  BY <1>1 DEF RestartInv, Threads, Noted, InTime, Watched, Watches, Orderly, OneByOne, LatestEvent,
     Counted, SleepingFor, Sleeping
<1>4. QED
  BY <1>2, <1>3 DEF RestartInv

-----------------------------------------------------------------------------
(* The theorems.                                                           *)

LEMMA RestartInitInv == RestartInit => RestartInv
<1> SUFFICES ASSUME RestartInit PROVE RestartInv
  OBVIOUS
<1>1. Start \in Times /\ 0 \in Times
  BY TimeAssumption DEF Times, Start
<1>2. RestartTypes
  BY <1>1, TimeAssumption DEF RestartInit, RestartTypes, Entries, NoEntry, TimerStates, ThreadStates,
     Idle, Times, Start
<1>3. Threads /\ InTime /\ Watched /\ Orderly
  BY DEF RestartInit, Threads, InTime, Watched, Orderly, OneByOne, Sleeping, Idle
<1>4. Noted
  BY <1>1, TimeAssumption DEF RestartInit, Noted, NoEntry, Start
<1>5. Counted
  <2>1. \A v \in VCs : SleepingFor(v) = {}
    BY DEF RestartInit, SleepingFor, Sleeping, Idle
  <2>2. Cardinality({}) = 0 /\ Cardinality(Timers) \in Nat
    BY FS_EmptySet, SleepersFinite
  <2>3. QED
    BY <2>1, <2>2 DEF RestartInit, Counted
<1>6. QED
  BY <1>2, <1>3, <1>4, <1>5 DEF RestartInv

LEMMA RestartNextInv == RestartInv /\ [RestartNext]_restartVars => RestartInv'
<1> SUFFICES ASSUME RestartInv, [RestartNext]_restartVars PROVE RestartInv'
  OBVIOUS
<1>1. ASSUME NEW v \in VCs, vcUp(v) \/ \E t \in Timers : vcDown(v, t)
      PROVE  RestartInv'
  BY <1>1, vcUpKeeps, vcDownKeeps
<1>2. CASE enterThread
  BY <1>2, enterThreadKeeps
<1>3. ASSUME NEW t \in Timers, TimerStep(t)
      PROVE  RestartInv'
  BY <1>3, stopTimerKeeps, restartedKeeps, supersededKeeps, expireKeeps DEF TimerStep
<1>4. CASE tick
  BY <1>4, tickKeeps
<1>5. CASE destroy \/ joinMonitor \/ joinTimers \/ UNCHANGED restartVars
  BY <1>5, lifeKeeps
<1>6. QED
  BY <1>1, <1>2, <1>3, <1>4, <1>5 DEF RestartNext

LEMMA Invariant == RestartSpec => []RestartInv
BY RestartInitInv, RestartNextInv, PTL DEF RestartSpec

\* Every variable has its type; an outage raises no more events than there are
\* timers, and a thread in threadMap_ was started.
THEOREM RestartTypeCorrect == RestartSpec => []RestartTypeOK
<1>1. RestartInv => RestartTypeOK
  <2> SUFFICES ASSUME RestartInv PROVE RestartTypeOK
    OBVIOUS
  <2>1. ASSUME NEW v \in VCs PROVE expired[v] \in 0..Cardinality(Timers)
    <3>1. SleepingFor(v) \in SUBSET Timers
      BY DEF SleepingFor
    <3>2. Cardinality(SleepingFor(v)) \in Nat /\ Cardinality(Timers) \in Nat
      BY <3>1, SleepersFinite
    <3>3. QED
      BY <3>2 DEF RestartInv, RestartTypes, Counted
  <2>2. expired \in [VCs -> 0..Cardinality(Timers)]
    BY <2>1 DEF RestartInv, RestartTypes
  <2>3. QED
    BY <2>2 DEF RestartInv, RestartTypes, Threads, RestartTypeOK, Entries, TimerStates, ThreadStates
<1>2. QED
  BY <1>1, Invariant, PTL

\* QDeviceStateMonitor: whatever timers of earlier outages do to the entry they
\* share, an outage that outlasts the duration is reported, provided that
\* timers run when they wake.
THEOREM OutagesAreReported == RestartSpec => []OutageReported
<1>1. RestartInv => OutageReported
  <2> SUFFICES ASSUME RestartInv, NEW v \in VCs, Prompt, life = "running", isDown[v],
                      now > downSince[v] + Duration
               PROVE  expired[v] > 0
    BY DEF OutageReported
  <2>1. ASSUME NEW t \in Timers, Watches(t, v) PROVE FALSE
    <3>1. now <= downSince[v] + Duration
      BY <2>1 DEF RestartInv, InTime, Watches
    <3>2. now \in Times /\ downSince[v] \in Times
      BY DEF RestartInv, RestartTypes
    <3>3. QED
      BY <3>1, <3>2, TimeAssumption DEF Times, Start
  <2>2. QED
    BY <2>1 DEF RestartInv, Watched
<1>2. QED
  BY <1>1, Invariant, PTL

\* waitForSubSystemRestart: with timers that run when they wake, and outages
\* of a channel that begin at different times, the expiry event is raised for
\* a channel that was down for the whole duration, and once.
THEOREM ExpiriesAreJustified == Prompt /\ Apart => (RestartSpec => ExpiryJustified)
<1> SUFFICES ASSUME Prompt, Apart PROVE RestartSpec => ExpiryJustified
  OBVIOUS
<1>1. ASSUME RestartInv, [RestartNext]_restartVars, NEW v \in VCs, expired'[v] > expired[v]
      PROVE  isDown[v] /\ now - downSince[v] >= Duration /\ expired[v] = 0
  <2>1. expired[v] \in Nat
    BY <1>1 DEF RestartInv, RestartTypes
  <2>2. PICK t \in Timers : expire(t)
    <3>1. CASE \E w \in VCs, t \in Timers : vcDown(w, t)
      BY <1>1, <2>1, <3>1 DEF vcDown, RestartInv, RestartTypes
    <3>2. CASE \/ \E w \in VCs : vcUp(w)
               \/ enterThread \/ tick \/ destroy \/ joinMonitor \/ joinTimers
               \/ UNCHANGED restartVars
      BY <1>1, <2>1, <3>2 DEF vcUp, enterThread, tick, destroy, joinMonitor, joinTimers,
         history, restartVars
    <3>3. CASE \E t \in Timers : stopTimer(t) \/ restarted(t) \/ superseded(t)
      BY <1>1, <2>1, <3>3 DEF stopTimer, restarted, superseded, history
    <3>4. QED
      BY <1>1, <3>1, <3>2, <3>3 DEF RestartNext, TimerStep
  <2>3. timer[t].vc = v
    BY <1>1, <2>1, <2>2 DEF expire, RestartInv, RestartTypes
  <2>4. QED
    BY <1>1, <2>2, <2>3, ExpireFinds
<1>2. RestartInv /\ [RestartNext]_restartVars =>
        [\A v \in VCs : expired'[v] > expired[v] =>
           isDown[v] /\ now - downSince[v] >= Duration /\ expired[v] = 0]_restartVars
  BY <1>1
<1>3. QED
  BY <1>2, Invariant, PTL DEF RestartSpec, ExpiryJustified

-----------------------------------------------------------------------------
(* EventDelivery: sequences.                                               *)

Observers == Contexts \cup {Factory}

LEMMA SeqElements ==
  ASSUME NEW S, NEW s \in Seq(S)
  PROVE  /\ DOMAIN s = 1..Len(s) /\ Len(s) \in Nat
         /\ ToSet(s) \subseteq S
         /\ s = <<>> <=> Len(s) = 0
         /\ s = <<>> <=> ToSet(s) = {}
<1>1. DOMAIN s = 1..Len(s) /\ Len(s) \in Nat
  OBVIOUS
<1>2. \A i \in 1..Len(s) : s[i] \in S
  OBVIOUS
<1>3. s = <<>> <=> Len(s) = 0
  OBVIOUS
<1>4. Len(s) # 0 => s[1] \in ToSet(s)
  BY <1>1 DEF ToSet
<1>5. Len(s) = 0 => ToSet(s) = {}
  BY <1>1 DEF ToSet
<1>. QED
  BY <1>1, <1>2, <1>3, <1>4, <1>5 DEF ToSet

LEMMA TailElements ==
  ASSUME NEW S, NEW s \in Seq(S), s # <<>>
  PROVE  /\ Head(s) = s[1] /\ Head(s) \in S /\ Head(s) \in ToSet(s)
         /\ Tail(s) \in Seq(S) /\ Len(Tail(s)) = Len(s) - 1
         /\ \A i \in 1..Len(Tail(s)) : Tail(s)[i] = s[i + 1]
         /\ ToSet(s) = {Head(s)} \cup ToSet(Tail(s))
         /\ IsInjective(s) => IsInjective(Tail(s)) /\ Head(s) \notin ToSet(Tail(s))
<1>1. /\ Head(s) = s[1] /\ Head(s) \in S
      /\ Tail(s) \in Seq(S) /\ Len(Tail(s)) = Len(s) - 1
      /\ \A i \in 1..Len(Tail(s)) : Tail(s)[i] = s[i + 1]
      /\ Len(s) \in Nat \ {0} /\ DOMAIN s = 1..Len(s)
      /\ DOMAIN Tail(s) = 1..Len(Tail(s))
  OBVIOUS
<1>2. ASSUME NEW x \in ToSet(s) PROVE x = Head(s) \/ x \in ToSet(Tail(s))
  <2>1. PICK i \in 1..Len(s) : x = s[i]
    BY <1>1 DEF ToSet
  <2>2. CASE i = 1
    BY <1>1, <2>1, <2>2
  <2>3. CASE i # 1
    <3>1. i - 1 \in 1..Len(Tail(s)) /\ Tail(s)[i - 1] = s[i]
      BY <1>1, <2>3
    <3>. QED
      BY <1>1, <2>1, <3>1 DEF ToSet
  <2>. QED
    BY <2>2, <2>3
<1>3. ASSUME NEW x \in ToSet(Tail(s)) PROVE \E i \in 1..Len(s) : i # 1 /\ x = s[i]
  <2>1. PICK i \in 1..Len(Tail(s)) : x = Tail(s)[i]
    BY <1>1 DEF ToSet
  <2>2. i + 1 \in 1..Len(s) /\ i + 1 # 1 /\ x = s[i + 1]
    BY <1>1, <2>1
  <2>. QED
    BY <2>2
<1>4. Head(s) \in ToSet(s)
  BY <1>1 DEF ToSet
<1>5. ToSet(Tail(s)) \subseteq ToSet(s)
  BY <1>1, <1>3 DEF ToSet
<1>6. ASSUME IsInjective(s) PROVE IsInjective(Tail(s)) /\ Head(s) \notin ToSet(Tail(s))
  <2>1. Head(s) \notin ToSet(Tail(s))
    <3>1. 1 \in DOMAIN s
      BY <1>1
    <3>. QED
      BY <1>1, <1>3, <1>6, <3>1 DEF IsInjective
  <2>2. ASSUME NEW i \in 1..Len(Tail(s)), NEW j \in 1..Len(Tail(s)), Tail(s)[i] = Tail(s)[j]
        PROVE  i = j
    <3>1. i + 1 \in DOMAIN s /\ j + 1 \in DOMAIN s /\ s[i + 1] = s[j + 1]
      BY <1>1, <2>2
    <3>2. i + 1 = j + 1
      BY <1>6, <3>1 DEF IsInjective
    <3>. QED
      BY <3>2
  <2>. QED
    BY <1>1, <2>1, <2>2 DEF IsInjective
<1>. QED
  BY <1>1, <1>2, <1>4, <1>5, <1>6

LEMMA AppendElements ==
  ASSUME NEW S, NEW s \in Seq(S), NEW x \in S
  PROVE  /\ Append(s, x) \in Seq(S) /\ Append(s, x) # <<>>
         /\ Len(Append(s, x)) = Len(s) + 1
         /\ \A i \in 1..Len(s) : Append(s, x)[i] = s[i]
         /\ Append(s, x)[Len(s) + 1] = x
         /\ ToSet(Append(s, x)) = ToSet(s) \cup {x}
         /\ IsInjective(s) /\ x \notin ToSet(s) => IsInjective(Append(s, x))
<1>. DEFINE t == Append(s, x)
<1>1. /\ t \in Seq(S) /\ t # <<>> /\ Len(t) = Len(s) + 1 /\ Len(s) \in Nat
      /\ \A i \in 1..Len(s) : t[i] = s[i]
      /\ t[Len(s) + 1] = x
      /\ DOMAIN s = 1..Len(s) /\ DOMAIN t = 1..(Len(s) + 1)
  OBVIOUS
<1>. HIDE DEF t
<1>2. ToSet(t) = ToSet(s) \cup {x}
  <2>1. \A i \in 1..(Len(s) + 1) : i \in 1..Len(s) \/ i = Len(s) + 1
    BY <1>1
  <2>2. \A i \in 1..Len(s) : i \in 1..(Len(s) + 1)
    BY <1>1
  <2>3. Len(s) + 1 \in 1..(Len(s) + 1)
    BY <1>1
  <2>. QED
    BY <1>1, <2>1, <2>2, <2>3 DEF ToSet
<1>3. ASSUME IsInjective(s), x \notin ToSet(s) PROVE IsInjective(t)
  <2>1. \A i \in 1..Len(s) : s[i] # x
    BY <1>1, <1>3 DEF ToSet
  <2>. QED
    BY <1>1, <1>3, <2>1 DEF IsInjective
<1>. QED
  BY <1>1, <1>2, <1>3 DEF t

LEMMA ConcatElements ==
  ASSUME NEW S, NEW s \in Seq(S), NEW t \in Seq(S)
  PROVE  /\ s \o t \in Seq(S) /\ Len(s \o t) = Len(s) + Len(t)
         /\ \A i \in 1..Len(s) : (s \o t)[i] = s[i]
         /\ \A i \in 1..Len(t) : (s \o t)[Len(s) + i] = t[i]
  OBVIOUS

LEMMA ConsElements ==
  ASSUME NEW S, NEW s \in Seq(S), NEW x \in S
  PROVE  /\ <<x>> \o s \in Seq(S) /\ (<<x>> \o s)[1] = x
         /\ ToSet(<<x>> \o s) = {x} \cup ToSet(s)
         /\ IsInjective(s) /\ x \notin ToSet(s) => IsInjective(<<x>> \o s)
<1>. DEFINE t == <<x>> \o s
<1>1. /\ t \in Seq(S) /\ Len(t) = Len(s) + 1 /\ Len(s) \in Nat
      /\ t[1] = x /\ \A i \in 1..Len(s) : t[1 + i] = s[i]
      /\ DOMAIN s = 1..Len(s) /\ DOMAIN t = 1..(Len(s) + 1)
  OBVIOUS
<1>. HIDE DEF t
<1>2. ASSUME NEW i \in 1..(Len(s) + 1), i # 1
      PROVE  i - 1 \in 1..Len(s) /\ t[i] = s[i - 1]
  <2>1. i - 1 \in 1..Len(s) /\ 1 + (i - 1) = i
    BY <1>1, <1>2
  <2>. QED
    BY <1>1, <2>1
<1>3. ToSet(t) = {x} \cup ToSet(s)
  <2>1. ASSUME NEW y \in ToSet(t) PROVE y = x \/ y \in ToSet(s)
    <3>1. PICK i \in 1..(Len(s) + 1) : y = t[i]
      BY <1>1 DEF ToSet
    <3>2. CASE i = 1
      BY <1>1, <3>1, <3>2
    <3>3. CASE i # 1
      BY <1>1, <1>2, <3>1, <3>3 DEF ToSet
    <3>. QED
      BY <3>2, <3>3
  <2>2. ASSUME NEW y \in ToSet(s) PROVE y \in ToSet(t)
    <3>1. PICK i \in 1..Len(s) : y = s[i]
      BY <1>1 DEF ToSet
    <3>2. 1 + i \in DOMAIN t /\ t[1 + i] = y
      BY <1>1, <3>1
    <3>. QED
      BY <3>2 DEF ToSet
  <2>3. x \in ToSet(t)
    <3>1. 1 \in DOMAIN t
      BY <1>1
    <3>. QED
      BY <1>1, <3>1 DEF ToSet
  <2>. QED
    BY <2>1, <2>2, <2>3
<1>4. ASSUME IsInjective(s), x \notin ToSet(s) PROVE IsInjective(t)
  <2>1. \A i \in 1..Len(s) : s[i] # x
    BY <1>1, <1>4 DEF ToSet
  <2>2. ASSUME NEW i \in 1..(Len(s) + 1), NEW j \in 1..(Len(s) + 1), t[i] = t[j]
        PROVE  i = j
    <3>1. CASE i = 1 \/ j = 1
      BY <1>1, <1>2, <2>1, <2>2, <3>1
    <3>2. CASE i # 1 /\ j # 1
      <4>1. /\ i - 1 \in 1..Len(s) /\ j - 1 \in 1..Len(s) /\ s[i - 1] = s[j - 1]
        BY <1>2, <2>2, <3>2
      <4>2. i - 1 = j - 1
        BY <1>1, <1>4, <4>1 DEF IsInjective
      <4>. QED
        BY <1>1, <4>2
    <3>. QED
      BY <3>1, <3>2
  <2>. QED
    BY <1>1, <2>2 DEF IsInjective
<1>. QED
  BY <1>1, <1>3, <1>4 DEF t

LEMMA SubSeqElements ==
  ASSUME NEW S, NEW s \in Seq(S), NEW m \in 1..(Len(s) + 1), NEW n \in (m - 1)..Len(s)
  PROVE  /\ SubSeq(s, m, n) \in Seq(S) /\ Len(SubSeq(s, m, n)) = n - m + 1
         /\ \A i \in 1..(n - m + 1) : SubSeq(s, m, n)[i] = s[m + i - 1]
  OBVIOUS

\* A set of numbers has a least one.
LEMMA MinIsLeast ==
  ASSUME NEW T \in SUBSET Nat, T # {}
  PROVE  Min(T) \in T /\ \A n \in T : Min(T) <= n
<1>1. PICK m \in T : \A n \in T : <<n, m>> \notin OpToRel(<, Nat)
  BY NatLessThanWellFounded, WFMin, Zenon
<1>2. ASSUME NEW n \in T PROVE m <= n
  <2>1. <<n, m>> \in Nat \X Nat
    OBVIOUS
  <2>2. ~(n < m)
    BY <1>1, <2>1 DEF OpToRel
  <2>. QED
    BY <2>2
<1>. QED
  BY <1>2 DEF Min

-----------------------------------------------------------------------------
(* The list of a context.                                                  *)

\* No client twice, and none before one of a higher priority.
Sorted(list) ==
  /\ \A i, j \in DOMAIN list : i < j => Priority[list[i]] >= Priority[list[j]]
  /\ IsInjective(list)

LEMMA SortedTail ==
  ASSUME NEW list \in Seq(Clients), list # <<>>, Sorted(list)
  PROVE  /\ Sorted(Tail(list))
         /\ \A q \in ToSet(Tail(list)) : Priority[Head(list)] >= Priority[q]
<1>1. /\ Head(list) = list[1] /\ Tail(list) \in Seq(Clients)
      /\ Len(Tail(list)) = Len(list) - 1
      /\ \A i \in 1..Len(Tail(list)) : Tail(list)[i] = list[i + 1]
      /\ IsInjective(Tail(list))
  BY TailElements DEF Sorted
<1>2. /\ DOMAIN list = 1..Len(list) /\ Len(list) \in Nat \ {0}
      /\ DOMAIN Tail(list) = 1..Len(Tail(list))
  BY <1>1
<1>3. ASSUME NEW i \in 1..Len(Tail(list)), NEW j \in 1..Len(Tail(list)), i < j
      PROVE  Priority[Tail(list)[i]] >= Priority[Tail(list)[j]]
  <2>1. i + 1 \in DOMAIN list /\ j + 1 \in DOMAIN list /\ i + 1 < j + 1
    BY <1>1, <1>2, <1>3
  <2>2. Priority[list[i + 1]] >= Priority[list[j + 1]]
    BY <2>1 DEF Sorted
  <2>. QED
    BY <1>1, <2>2
<1>4. ASSUME NEW q \in ToSet(Tail(list)) PROVE Priority[Head(list)] >= Priority[q]
  <2>1. PICK i \in 1..Len(Tail(list)) : q = Tail(list)[i]
    BY <1>2 DEF ToSet
  <2>2. 1 \in DOMAIN list /\ i + 1 \in DOMAIN list /\ 1 < i + 1
    BY <1>1, <1>2
  <2>3. Priority[list[1]] >= Priority[list[i + 1]]
    BY <2>2 DEF Sorted
  <2>. QED
    BY <1>1, <2>1, <2>3
<1>. QED
  BY <1>1, <1>2, <1>3, <1>4 DEF Sorted

\* registerNotifyDeviceStateInfo keeps the order.
LEMMA InsertKeeps ==
  ASSUME NEW list \in Seq(Clients), NEW p \in Clients, Sorted(list), p \notin ToSet(list)
  PROVE  /\ Insert(list, p) \in Seq(Clients)
         /\ ToSet(Insert(list, p)) = ToSet(list) \cup {p}
         /\ Sorted(Insert(list, p))
<1>. DEFINE n  == Len(list)
            I  == {i \in DOMAIN list : Priority[p] >= Priority[list[i]]} \cup {n + 1}
            it == Min(I)
            t  == Insert(list, p)
<1>1. n \in Nat /\ DOMAIN list = 1..n /\ \A i \in 1..n : list[i] \in Clients
  OBVIOUS
<1>2. it \in I /\ \A i \in I : it <= i
  <2>1. I \in SUBSET Nat /\ I # {}
    BY <1>1
  <2>. QED
    BY <2>1, MinIsLeast
<1>3. it \in 1..(n + 1)
  BY <1>1, <1>2
<1>4. t = SubSeq(list, 1, it - 1) \o <<p>> \o SubSeq(list, it, n)
  BY DEF Insert, InsertAt
<1>5. ASSUME NEW i \in 1..n, i < it PROVE ~(Priority[p] >= Priority[list[i]])
  <2>. HIDE DEF it, I
  <2>1. i \notin I
    BY <1>1, <1>2, <1>3, <1>5
  <2>. QED
    BY <1>1, <2>1 DEF I
<1>6. it <= n => Priority[p] >= Priority[list[it]]
  BY <1>1, <1>2, <1>3
<1>. HIDE DEF it, t, n
<1>7. /\ t \in Seq(Clients) /\ Len(t) = n + 1
      /\ \A i \in 1..(n + 1) :
           t[i] = IF i < it THEN list[i] ELSE IF i = it THEN p ELSE list[i - 1]
  <2>. DEFINE a == SubSeq(list, 1, it - 1)
              b == SubSeq(list, it, n)
              c == a \o <<p>>
  <2>1. /\ a \in Seq(Clients) /\ Len(a) = it - 1
        /\ \A i \in 1..(it - 1) : a[i] = list[i]
    BY <1>1, <1>3, SubSeqElements DEF n
  <2>2. /\ b \in Seq(Clients) /\ Len(b) = n + 1 - it
        /\ \A i \in 1..(n + 1 - it) : b[i] = list[it + i - 1]
    BY <1>1, <1>3, SubSeqElements DEF n
  <2>. HIDE DEF a, b
  <2>3. <<p>> \in Seq(Clients) /\ Len(<<p>>) = 1 /\ <<p>>[1] = p
    OBVIOUS
  <2>4. /\ c \in Seq(Clients) /\ Len(c) = it
        /\ \A i \in 1..(it - 1) : c[i] = list[i]
        /\ c[it] = p
    <3>1. /\ c \in Seq(Clients) /\ Len(c) = Len(a) + 1
          /\ \A i \in 1..Len(a) : c[i] = a[i]
          /\ c[Len(a) + 1] = p
      BY <2>1, <2>3, ConcatElements
    <3>. QED
      BY <1>1, <1>3, <2>1, <3>1
  <2>5. t = c \o b
    BY <1>4 DEF a, b
  <2>. HIDE DEF c
  <2>6. /\ t \in Seq(Clients) /\ Len(t) = it + (n + 1 - it)
        /\ \A i \in 1..it : t[i] = c[i]
        /\ \A i \in 1..(n + 1 - it) : t[it + i] = b[i]
    <3>1. /\ c \o b \in Seq(Clients) /\ Len(c \o b) = Len(c) + Len(b)
          /\ \A i \in 1..Len(c) : (c \o b)[i] = c[i]
          /\ \A i \in 1..Len(b) : (c \o b)[Len(c) + i] = b[i]
      <4>1. c \in Seq(Clients) /\ b \in Seq(Clients)
        BY <2>2, <2>4
      <4>. QED
        BY <4>1, ConcatElements
    <3>. QED
      BY <2>2, <2>4, <2>5, <3>1
  <2>7. ASSUME NEW i \in 1..(n + 1)
        PROVE  t[i] = IF i < it THEN list[i] ELSE IF i = it THEN p ELSE list[i - 1]
    <3>1. CASE i <= it
      BY <1>1, <1>3, <2>4, <2>6, <3>1
    <3>2. CASE i > it
      <4>1. i - it \in 1..(n + 1 - it) /\ it + (i - it) = i /\ it + (i - it) - 1 = i - 1
        BY <1>1, <1>3, <3>2
      <4>2. t[i] = b[i - it] /\ b[i - it] = list[i - 1]
        BY <2>2, <2>6, <4>1
      <4>. QED
        BY <1>3, <3>2, <4>2, <1>1
    <3>. QED
      BY <1>1, <1>3, <3>1, <3>2
  <2>. QED
    BY <1>1, <1>3, <2>6, <2>7
<1>8. DOMAIN t = 1..(n + 1)
  BY <1>7
<1>9. ToSet(t) = ToSet(list) \cup {p}
  <2>1. ASSUME NEW x \in ToSet(t) PROVE x \in ToSet(list) \cup {p}
    <3>1. PICK i \in 1..(n + 1) : x = t[i]
      BY <1>8 DEF ToSet
    <3>2. i < it => i \in DOMAIN list
      BY <1>1, <1>3
    <3>3. i > it => i - 1 \in DOMAIN list
      BY <1>1, <1>3
    <3>4. x = p \/ x \in ToSet(list)
      BY <1>3, <1>7, <3>1, <3>2, <3>3 DEF ToSet
    <3>. QED
      BY <3>4
  <2>2. ASSUME NEW x \in ToSet(list) PROVE x \in ToSet(t)
    <3>1. PICK i \in 1..n : x = list[i]
      BY <1>1 DEF ToSet
    <3>2. CASE i < it
      <4>1. i \in 1..(n + 1) /\ t[i] = x
        BY <1>1, <1>7, <3>1, <3>2
      <4>. QED
        BY <1>8, <4>1 DEF ToSet
    <3>3. CASE i >= it
      <4>1. i + 1 \in 1..(n + 1) /\ t[i + 1] = x
        BY <1>1, <1>3, <1>7, <3>1, <3>3
      <4>. QED
        BY <1>8, <4>1 DEF ToSet
    <3>. QED
      BY <1>1, <1>3, <3>2, <3>3
  <2>3. p \in ToSet(t)
    <3>1. t[it] = p
      BY <1>3, <1>7, <1>1
    <3>. QED
      BY <1>3, <1>8, <3>1 DEF ToSet
  <2>. QED
    BY <2>1, <2>2, <2>3
<1>10. \A i \in 1..n : list[i] # p
  BY <1>1 DEF ToSet
<1>11. ASSUME NEW i \in 1..(n + 1), NEW j \in 1..(n + 1), i < j
       PROVE  Priority[t[i]] >= Priority[t[j]] /\ t[i] # t[j]
  <2>1. \A k, l \in 1..n : k < l => Priority[list[k]] >= Priority[list[l]] /\ list[k] # list[l]
    BY <1>1 DEF Sorted, IsInjective
  <2>2. \A x \in Clients : Priority[x] \in Nat
    BY PriorityAssumption
  <2>3. CASE j < it
    BY <1>1, <1>3, <1>7, <1>11, <2>1, <2>3
  <2>4. CASE j = it
    <3>1. i \in 1..n /\ i < it /\ t[i] = list[i] /\ t[j] = p
      BY <1>1, <1>3, <1>7, <1>11, <2>4
    <3>. QED
      BY <1>1, <1>5, <1>10, <2>2, <3>1
  <2>5. CASE i < it /\ j > it
    BY <1>1, <1>3, <1>7, <1>11, <2>1, <2>5, <1>5, <1>6
  <2>6. CASE i = it
    <3>1. it <= n /\ j - 1 \in 1..n /\ j - 1 >= it /\ t[i] = p /\ t[j] = list[j - 1]
      BY <1>1, <1>3, <1>7, <1>11, <2>6
    <3>2. Priority[list[it]] >= Priority[list[j - 1]]
      BY <1>1, <1>3, <2>1, <2>2, <3>1
    <3>. QED
      BY <1>1, <1>3, <1>6, <1>10, <2>2, <3>1, <3>2
  <2>7. CASE i > it
    <3>1. /\ i - 1 \in 1..n /\ j - 1 \in 1..n /\ i - 1 < j - 1
          /\ t[i] = list[i - 1] /\ t[j] = list[j - 1]
      BY <1>1, <1>3, <1>7, <1>11, <2>7
    <3>. QED
      BY <2>1, <3>1
  <2>. QED
    BY <1>3, <1>1, <1>11, <2>3, <2>4, <2>5, <2>6, <2>7
<1>12. Sorted(t)
  <2>1. \A i, j \in 1..(n + 1) : i < j \/ j < i \/ i = j
    BY <1>1
  <2>. QED
    BY <1>8, <1>11, <2>1 DEF Sorted, IsInjective
<1>. QED
  BY <1>7, <1>9, <1>12 DEF t

\* unRegisterNotifyDeviceStateInfo takes out the client and no other.
LEMMA EraseKeeps ==
  ASSUME NEW list \in Seq(Clients), NEW p \in ToSet(list), Sorted(list)
  PROVE  /\ RemoveFirst(list, p) \in Seq(Clients)
         /\ ToSet(RemoveFirst(list, p)) = ToSet(list) \ {p}
         /\ Sorted(RemoveFirst(list, p))
<1>. DEFINE n  == Len(list)
            I  == {i \in 1..n : list[i] = p}
            it == Min(I)
            t  == RemoveFirst(list, p)
<1>1. n \in Nat /\ DOMAIN list = 1..n /\ \A i \in 1..n : list[i] \in Clients
  OBVIOUS
<1>2. \E i \in 1..n : list[i] = p
  BY <1>1 DEF ToSet
<1>3. it \in 1..n /\ list[it] = p
  <2>1. I \in SUBSET Nat /\ I # {}
    BY <1>1, <1>2
  <2>2. Min(I) \in I
    BY <2>1, MinIsLeast
  <2>. QED
    BY <2>2
<1>4. t = SubSeq(list, 1, it - 1) \o SubSeq(list, it + 1, n)
  <2>1. I # {}
    BY <1>2
  <2>. QED
    BY <1>2, <2>1 DEF RemoveFirst, RemoveAt, SelectInSeq
<1>. HIDE DEF it, t, n
<1>5. /\ t \in Seq(Clients) /\ Len(t) = n - 1
      /\ \A i \in 1..(n - 1) : t[i] = IF i < it THEN list[i] ELSE list[i + 1]
  <2>. DEFINE a == SubSeq(list, 1, it - 1)
              b == SubSeq(list, it + 1, n)
  <2>1. /\ a \in Seq(Clients) /\ Len(a) = it - 1
        /\ \A i \in 1..(it - 1) : a[i] = list[i]
    BY <1>1, <1>3, SubSeqElements DEF n
  <2>2. /\ b \in Seq(Clients) /\ Len(b) = n - it
        /\ \A i \in 1..(n - it) : b[i] = list[it + i]
    <3>1. it + 1 \in 1..(n + 1) /\ n \in ((it + 1) - 1)..n
      BY <1>1, <1>3
    <3>2. /\ b \in Seq(Clients) /\ Len(b) = n - (it + 1) + 1
          /\ \A i \in 1..(n - (it + 1) + 1) : b[i] = list[(it + 1) + i - 1]
      BY <3>1, SubSeqElements DEF n
    <3>. QED
      BY <1>1, <1>3, <3>2
  <2>3. t = a \o b
    BY <1>4
  <2>. HIDE DEF a, b
  <2>4. /\ t \in Seq(Clients) /\ Len(t) = (it - 1) + (n - it)
        /\ \A i \in 1..(it - 1) : t[i] = a[i]
        /\ \A i \in 1..(n - it) : t[(it - 1) + i] = b[i]
    <3>1. /\ a \o b \in Seq(Clients) /\ Len(a \o b) = Len(a) + Len(b)
          /\ \A i \in 1..Len(a) : (a \o b)[i] = a[i]
          /\ \A i \in 1..Len(b) : (a \o b)[Len(a) + i] = b[i]
      <4>1. a \in Seq(Clients) /\ b \in Seq(Clients)
        BY <2>1, <2>2
      <4>. QED
        BY <4>1, ConcatElements
    <3>. QED
      BY <2>1, <2>2, <2>3, <3>1
  <2>5. ASSUME NEW i \in 1..(n - 1) PROVE t[i] = IF i < it THEN list[i] ELSE list[i + 1]
    <3>1. CASE i < it
      BY <1>1, <1>3, <2>1, <2>4, <3>1
    <3>2. CASE i >= it
      <4>1. /\ i - it + 1 \in 1..(n - it) /\ (it - 1) + (i - it + 1) = i
            /\ it + (i - it + 1) = i + 1
        BY <1>1, <1>3, <3>2
      <4>2. t[i] = b[i - it + 1] /\ b[i - it + 1] = list[i + 1]
        BY <2>2, <2>4, <4>1
      <4>. QED
        BY <1>1, <1>3, <3>2, <4>2
    <3>. QED
      BY <1>1, <1>3, <3>1, <3>2
  <2>. QED
    BY <1>1, <1>3, <2>4, <2>5
<1>6. DOMAIN t = 1..(n - 1)
  BY <1>5
<1>7. ASSUME NEW i \in 1..(n - 1)
      PROVE  /\ i < it => i \in 1..n /\ i # it /\ t[i] = list[i]
             /\ i >= it => i + 1 \in 1..n /\ i + 1 # it /\ t[i] = list[i + 1]
  BY <1>1, <1>3, <1>5
<1>8. \A i \in 1..n : i # it => list[i] # p
  BY <1>1, <1>3 DEF Sorted, IsInjective
<1>9. ToSet(t) = ToSet(list) \ {p}
  <2>1. ASSUME NEW x \in ToSet(t) PROVE x \in ToSet(list) /\ x # p
    <3>1. PICK i \in 1..(n - 1) : x = t[i]
      BY <1>6 DEF ToSet
    <3>2. \E k \in 1..n : k # it /\ x = list[k]
      BY <1>1, <1>3, <1>7, <3>1
    <3>. QED
      BY <1>1, <1>8, <3>2 DEF ToSet
  <2>2. ASSUME NEW x \in ToSet(list), x # p PROVE x \in ToSet(t)
    <3>1. PICK i \in 1..n : x = list[i]
      BY <1>1 DEF ToSet
    <3>2. i # it
      BY <1>3, <2>2, <3>1
    <3>3. \E k \in 1..(n - 1) : t[k] = x
      <4>1. CASE i < it
        <5>1. i \in 1..(n - 1)
          BY <1>1, <1>3, <4>1
        <5>. QED
          BY <1>7, <3>1, <4>1, <5>1
      <4>2. CASE i > it
        <5>1. i - 1 \in 1..(n - 1) /\ i - 1 >= it /\ (i - 1) + 1 = i
          BY <1>1, <1>3, <4>2
        <5>2. t[i - 1] = list[(i - 1) + 1]
          BY <1>7, <5>1
        <5>. QED
          BY <3>1, <5>1, <5>2
      <4>. QED
        BY <1>1, <1>3, <3>2, <4>1, <4>2
    <3>. QED
      BY <1>6, <3>3 DEF ToSet
  <2>. QED
    BY <2>1, <2>2
<1>10. ASSUME NEW i \in 1..(n - 1), NEW j \in 1..(n - 1), i < j
       PROVE  Priority[t[i]] >= Priority[t[j]] /\ t[i] # t[j]
  <2>1. PICK k \in 1..n, l \in 1..n : k < l /\ t[i] = list[k] /\ t[j] = list[l]
    <3>. DEFINE k == IF i < it THEN i ELSE i + 1
                l == IF j < it THEN j ELSE j + 1
    <3>1. k \in 1..n /\ l \in 1..n /\ k < l /\ t[i] = list[k] /\ t[j] = list[l]
      BY <1>1, <1>3, <1>5, <1>10
    <3>. QED
      BY <3>1
  <2>. QED
    BY <1>1, <2>1 DEF Sorted, IsInjective
<1>11. Sorted(t)
  <2>1. \A i, j \in 1..(n - 1) : i < j \/ j < i \/ i = j
    BY <1>1
  <2>. QED
    BY <1>6, <1>10, <2>1 DEF Sorted, IsInjective
<1>. QED
  BY <1>5, <1>9, <1>11 DEF t

-----------------------------------------------------------------------------
(* Where everybody stands.                                                 *)

\* The event the monitor delivers now, or will deliver next.
Current == sent + 1 - Len(stateEventsQueue)

\* An observer has the current event.
Given(c) == notifying # Nothing /\ c \in ToSet(observers) /\ c \notin ToSet(notifying)

\* The event a context is given next.
Coming(c) == IF Given(c) THEN Current + 1 ELSE Current

\* The event a context calls its clients about now, or next.
AtHand(c) == Coming(c) - Len(queue[c])

\* A client was called about it.
Called(p) == calling # Nothing /\ ctxRunning = ContextOf[p] /\ p \notin ToSet(calling)

\* The event a client hears next.
Due(p) == IF Called(p) THEN AtHand(ContextOf[p]) + 1 ELSE AtHand(ContextOf[p])

-----------------------------------------------------------------------------
(* The invariant.                                                          *)

Types ==
  /\ sent \in Nat /\ factorySeen \in Nat /\ factorySince \in Nat
  /\ stateEventsQueue \in Seq(Nat)
  /\ observers \in Seq(Observers)
  /\ monPending \in Seq({Monitor}) /\ monRunning \in {Monitor, Nothing}
  /\ notifying = Nothing \/ notifying \in Seq(Observers)
  /\ announcing \in Contexts \cup {Nothing}
  /\ queue \in [Contexts -> Seq(Nat)]
  /\ ctxPending \in Seq(Contexts)
  /\ ctxRunning \in Contexts \cup {Nothing}
  /\ calling = Nothing \/ calling \in Seq(Clients)
  /\ db \in [Contexts -> Seq(Clients)]
  /\ received \in [Clients -> Seq(Nat)]
  /\ since \in [Clients -> Nat]

\* The factory is the first observer, and a context whose construction is over
\* came with it.
Observing ==
  /\ IsInjective(observers)
  /\ Factory \in ToSet(observers) => observers[1] = Factory
  /\ created \subseteq ToSet(observers) \cap Contexts
  /\ created # {} => Factory \in ToSet(observers)

\* While the monitor notifies, some event is current, and the factory is first.
Notifying ==
  notifying # Nothing =>
    /\ stateEventsQueue # <<>>
    /\ ToSet(notifying) \subseteq ToSet(observers)
    /\ IsInjective(notifying)
    /\ Factory \in ToSet(notifying) => notifying[1] = Factory

\* The monitor's queue ends with the last event raised.
Raised ==
  /\ Len(stateEventsQueue) <= sent
  /\ \A i \in DOMAIN stateEventsQueue : stateEventsQueue[i] = Current + i - 1

\* The queue of a context ends with the last event it was given.
Queued ==
  \A c \in Contexts :
    /\ AtHand(c) >= 1
    /\ \A i \in DOMAIN queue[c] : queue[c][i] = AtHand(c) + i - 1
    /\ c \notin ToSet(observers) => queue[c] = <<>>

\* The factory has seen what a context was given, or came after it was raised.
FactoryKnows ==
  /\ factorySince <= sent /\ factorySeen <= Current
  /\ Factory \in ToSet(observers) =>
       \A c \in Contexts : Coming(c) - 1 <= factorySince \/ Coming(c) - 1 <= factorySeen
  /\ Given(Factory) => factorySeen = Current

\* The list of a context holds clients of it, once each, by priority.
Listed ==
  \A c \in Contexts :
    /\ Sorted(db[c])
    /\ \A p \in ToSet(db[c]) : p \in Clients /\ ContextOf[p] = c
    /\ c \notin created => db[c] = <<>>

\* The clients still to be called are the last ones of the list, which does not
\* change meanwhile.
Calling ==
  calling # Nothing =>
    /\ ctxRunning \in Contexts /\ queue[ctxRunning] # <<>>
    /\ ToSet(calling) \subseteq ToSet(db[ctxRunning])
    /\ Sorted(calling)
    /\ \A p \in ToSet(db[ctxRunning]) \ ToSet(calling), q \in ToSet(calling) :
         Priority[p] >= Priority[q]

\* A client has heard everything since it registered, in order, up to where
\* its context stands.
Heard ==
  \A p \in subscribed :
    /\ received[p] # <<>> => Last(received[p]) = Due(p) - 1
    /\ \A e \in ToSet(received[p]) : e < Due(p)
    /\ \A e \in Nat : since[p] < e /\ e < Due(p) => e \in ToSet(received[p])

\* FactoryFirst, also for events that came before the factory.
Known ==
  \A p \in Clients : \A e \in ToSet(received[p]) : e <= factorySince \/ e <= factorySeen

Inv ==
  /\ Types /\ Observing /\ Notifying /\ Raised /\ Queued /\ FactoryKnows
  /\ Listed /\ Calling /\ Heard /\ Known /\ QueuesAttended

LEMMA InitInv == Init => Inv
<1>. SUFFICES ASSUME Init PROVE Inv
  OBVIOUS
<1>1. Types
  <2>1. \A S : <<>> \in Seq(S)
    OBVIOUS
  <2>. QED
    BY <2>1 DEF Init, Types
<1>2. \A s : s = <<>> => Len(s) = 0 /\ DOMAIN s = {} /\ ToSet(s) = {}
  BY DEF ToSet
<1>3. Observing /\ Notifying /\ Calling
  BY <1>2 DEF Init, Observing, Notifying, Calling, IsInjective
<1>4. Current = 1
  BY <1>2 DEF Init, Current
<1>5. Raised
  BY <1>2 DEF Init, Raised
<1>6. \A c : ~Given(c) /\ Coming(c) = 1
  BY <1>4 DEF Init, Given, Coming
<1>7. Queued
  <2>1. \A c \in Contexts : queue[c] = <<>> /\ AtHand(c) = 1
    BY <1>2, <1>6 DEF Init, AtHand
  <2>. QED
    BY <1>2, <2>1 DEF Queued
<1>8. FactoryKnows
  BY <1>2, <1>4, <1>6 DEF Init, FactoryKnows
<1>9. Listed
  BY <1>2 DEF Init, Listed, Sorted, IsInjective
<1>10. Heard
  BY <1>2 DEF Init, Heard, subscribed
<1>11. Known
  BY <1>2 DEF Init, Known
<1>12. QueuesAttended
  BY DEF Init, QueuesAttended
<1>. QED
  BY <1>1, <1>3, <1>5, <1>7, <1>8, <1>9, <1>10, <1>11, <1>12 DEF Inv

-----------------------------------------------------------------------------
(* What follows from the invariant.                                        *)

\* A client is in the list of its own context, which is complete and came with
\* the factory.
LEMMA Subscribed ==
  ASSUME Types, Observing, Listed, NEW p \in subscribed
  PROVE  /\ p \in Clients /\ ContextOf[p] \in Contexts /\ p \in ToSet(db[ContextOf[p]])
         /\ ContextOf[p] \in created /\ ContextOf[p] \in ToSet(observers)
         /\ Factory \in ToSet(observers)
<1>1. PICK c \in Contexts : p \in ToSet(db[c])
  BY DEF subscribed
<1>2. p \in Clients /\ ContextOf[p] = c
  BY <1>1 DEF Listed
<1>3. c \in created
  <2>1. db[c] \in Seq(Clients)
    BY DEF Types
  <2>2. db[c] # <<>>
    BY <1>1, <2>1, SeqElements
  <2>. QED
    BY <2>2 DEF Listed
<1>. QED
  BY <1>1, <1>2, <1>3 DEF Observing

LEMMA Numbers ==
  ASSUME Types, Raised
  PROVE  /\ Current \in Nat \ {0} /\ Current <= sent + 1
         /\ stateEventsQueue # <<>> => Current <= sent /\ Head(stateEventsQueue) = Current
         /\ \A c : Coming(c) \in Nat \ {0}
         /\ \A c \in Contexts : AtHand(c) \in Int /\ AtHand(c) + Len(queue[c]) = Coming(c)
<1>1. Len(stateEventsQueue) \in Nat /\ DOMAIN stateEventsQueue = 1..Len(stateEventsQueue)
  BY DEF Types
<1>2. sent \in Nat /\ Len(stateEventsQueue) <= sent
  BY DEF Types, Raised
<1>3. Current \in Nat \ {0} /\ Current <= sent + 1
  <2>. DEFINE n == Len(stateEventsQueue)
  <2>1. n \in Nat /\ n <= sent /\ Current = sent + 1 - n
    BY <1>1, <1>2 DEF Current
  <2>. HIDE DEF n
  <2>. QED
    BY <1>2, <2>1
<1>4. ASSUME stateEventsQueue # <<>>
      PROVE  Current <= sent /\ Head(stateEventsQueue) = Current
  <2>1. Len(stateEventsQueue) >= 1 /\ Head(stateEventsQueue) = stateEventsQueue[1]
    BY <1>4, <1>1 DEF Types
  <2>2. stateEventsQueue[1] = Current + 1 - 1
    BY <1>1, <2>1 DEF Raised
  <2>3. Current <= sent
    <3>. DEFINE n == Len(stateEventsQueue)
    <3>1. n \in Nat /\ n >= 1 /\ Current = sent + 1 - n
      BY <1>1, <2>1 DEF Current
    <3>. HIDE DEF n
    <3>. QED
      BY <1>2, <3>1
  <2>. QED
    BY <1>3, <2>1, <2>2, <2>3
<1>5. \A c : Coming(c) \in Nat \ {0}
  BY <1>3 DEF Coming
<1>6. ASSUME NEW c \in Contexts
      PROVE  AtHand(c) \in Int /\ AtHand(c) + Len(queue[c]) = Coming(c)
  <2>1. Len(queue[c]) \in Nat
    BY DEF Types
  <2>. QED
    BY <1>5, <2>1 DEF AtHand
<1>. QED
  BY <1>3, <1>4, <1>5, <1>6

\* What a context was given was raised.
LEMMA ComingRaised ==
  ASSUME Types, Raised, Notifying, NEW c
  PROVE  Coming(c) <= sent + 1
<1>1. CASE Given(c)
  BY <1>1, Numbers DEF Given, Notifying, Coming, Types
<1>2. CASE ~Given(c)
  BY <1>2, Numbers DEF Coming, Types
<1>. QED
  BY <1>1, <1>2

\* The first event in the queue of a context is the one at hand.
LEMMA HeadAtHand ==
  ASSUME Types, Raised, Queued, NEW c \in Contexts, queue[c] # <<>>
  PROVE  /\ Head(queue[c]) = AtHand(c) /\ AtHand(c) < Coming(c)
         /\ AtHand(c) \in Nat \ {0}
<1>1. queue[c] \in Seq(Nat)
  BY DEF Types
<1>2. /\ DOMAIN queue[c] = 1..Len(queue[c]) /\ Len(queue[c]) \in Nat \ {0}
      /\ Head(queue[c]) = queue[c][1]
  BY <1>1
<1>3. /\ AtHand(c) \in Int /\ AtHand(c) + Len(queue[c]) = Coming(c)
      /\ Coming(c) \in Nat
  BY Numbers
<1>4. queue[c][1] = AtHand(c) + 1 - 1 /\ AtHand(c) >= 1
  BY <1>2 DEF Queued
<1>. QED
  BY <1>2, <1>3, <1>4

-----------------------------------------------------------------------------
(* What is kept by a step that leaves its variables alone.                 *)

LEMMA PositionsKept ==
  ASSUME UNCHANGED <<sent, stateEventsQueue, observers, notifying, queue>>
  PROVE  /\ Current' = Current
         /\ \A c : Given(c)' = Given(c) /\ Coming(c)' = Coming(c)
         /\ \A c \in Contexts : AtHand(c)' = AtHand(c)
  BY DEF Current, Given, Coming, AtHand

LEMMA ObservingKept ==
  ASSUME Observing, UNCHANGED <<observers, created>>
  PROVE  Observing'
  BY DEF Observing

LEMMA NotifyingKept ==
  ASSUME Notifying, UNCHANGED <<observers, notifying, stateEventsQueue>>
  PROVE  Notifying'
  BY DEF Notifying

LEMMA RaisedKept ==
  ASSUME Raised, UNCHANGED <<sent, stateEventsQueue>>
  PROVE  Raised'
  BY DEF Raised, Current

LEMMA QueuedKept ==
  ASSUME Queued, UNCHANGED <<queue, observers>>, \A c \in Contexts : AtHand(c)' = AtHand(c)
  PROVE  Queued'
  BY DEF Queued

LEMMA FactoryKnowsKept ==
  ASSUME FactoryKnows,
         UNCHANGED <<sent, stateEventsQueue, observers, notifying, queue, factory>>
  PROVE  FactoryKnows'
  BY PositionsKept DEF FactoryKnows, factory

LEMMA ListedKept ==
  ASSUME Listed, UNCHANGED <<db, created>>
  PROVE  Listed'
  BY DEF Listed

LEMMA CallingKept ==
  ASSUME Calling, UNCHANGED <<calling, ctxRunning, db>>,
         calling # Nothing /\ queue[ctxRunning] # <<>> => queue'[ctxRunning] # <<>>
  PROVE  Calling'
  BY DEF Calling

LEMMA HeardKept ==
  ASSUME Heard, UNCHANGED <<db, received, since>>,
         \A p \in subscribed : Due(p)' = Due(p)
  PROVE  Heard'
  BY DEF Heard, subscribed

\* A client's turn stays when its context's does.
LEMMA DueKept ==
  ASSUME Types, Observing, Listed, NEW p \in subscribed, UNCHANGED <<calling, ctxRunning>>,
         AtHand(ContextOf[p])' = AtHand(ContextOf[p])
  PROVE  Due(p)' = Due(p)
  BY DEF Due, Called

LEMMA KnownKept ==
  ASSUME Known, UNCHANGED <<received, factory>>
  PROVE  Known'
  BY DEF Known, factory

\* A step that moves no event.  A context's thread may turn to another one
\* while no client is called.
LEMMA Aside ==
  ASSUME Inv, Types', QueuesAttended',
         UNCHANGED <<sent, stateEventsQueue, observers, notifying, factory, created, queue,
                     calling, db, received, since>>,
         ctxRunning' = ctxRunning \/ calling = Nothing
  PROVE  Inv'
<1>. USE DEF Inv
<1>1. Observing' /\ Notifying' /\ Raised' /\ FactoryKnows' /\ Listed' /\ Known'
  BY ObservingKept, NotifyingKept, RaisedKept, FactoryKnowsKept, ListedKept, KnownKept
<1>2. \A c \in Contexts : AtHand(c)' = AtHand(c)
  BY PositionsKept
<1>3. Queued'
  BY <1>2, QueuedKept
<1>4. CASE ctxRunning' = ctxRunning
  <2>1. \A p \in subscribed : Due(p)' = Due(p)
    BY <1>2, <1>4, DueKept, Subscribed
  <2>2. Calling'
    BY <1>4, CallingKept
  <2>3. Heard'
    BY <2>1, HeardKept
  <2>. QED
    BY <1>1, <1>3, <2>2, <2>3
<1>5. CASE calling = Nothing
  <2>1. calling' = Nothing
    BY <1>5
  <2>2. \A p \in subscribed : Due(p)' = Due(p)
    BY <1>2, <1>5, <2>1, Subscribed DEF Due, Called
  <2>3. Calling'
    BY <2>1 DEF Calling
  <2>4. Heard'
    BY <2>2, HeardKept
  <2>. QED
    BY <1>1, <1>3, <2>3, <2>4
<1>. QED
  BY <1>4, <1>5

-----------------------------------------------------------------------------
(* The monitor.                                                            *)

LEMMA PushEventInv ==
  ASSUME Inv, NEW t \in Producers, pushEvent(t)
  PROVE  Inv'
<1>. USE DEF Inv
<1>. DEFINE n == Len(stateEventsQueue)
<1>1. /\ sent' = sent + 1 /\ raising' = raising \cup {t}
      /\ stateEventsQueue' = Append(stateEventsQueue, sent + 1)
      /\ UNCHANGED <<observers, monRun, factory, created, queue, ctxRun, clients>>
  BY DEF pushEvent
<1>2. /\ n \in Nat /\ sent \in Nat /\ n <= sent
      /\ stateEventsQueue \in Seq(Nat) /\ sent + 1 \in Nat
  BY DEF Types, Raised
<1>3. /\ stateEventsQueue' \in Seq(Nat) /\ stateEventsQueue' # <<>>
      /\ Len(stateEventsQueue') = n + 1
      /\ \A i \in 1..n : stateEventsQueue'[i] = stateEventsQueue[i]
      /\ stateEventsQueue'[n + 1] = sent + 1
  BY <1>1, <1>2, AppendElements
<1>4. Types'
  BY <1>1, <1>2, <1>3 DEF Types, monRun, factory, ctxRun, clients
<1>5. Current' = Current
  <2>1. Current = sent + 1 - n /\ Current' = sent' + 1 - Len(stateEventsQueue')
    BY DEF Current
  <2>. HIDE DEF n
  <2>. QED
    BY <1>1, <1>2, <1>3, <2>1
<1>6. \A c : Given(c)' = Given(c) /\ Coming(c)' = Coming(c)
  BY <1>1, <1>5 DEF Given, Coming, monRun
<1>7. \A c \in Contexts : AtHand(c)' = AtHand(c)
  BY <1>1, <1>6 DEF AtHand
<1>8. Raised'
  <2>1. Current = sent + 1 - n
    BY DEF Current
  <2>2. DOMAIN stateEventsQueue = 1..n /\ DOMAIN stateEventsQueue' = 1..(n + 1)
    BY <1>2, <1>3
  <2>3. \A i \in 1..n : stateEventsQueue[i] = Current + i - 1
    BY <2>2 DEF Raised
  <2>. HIDE DEF n
  <2>4. ASSUME NEW i \in 1..(n + 1) PROVE stateEventsQueue'[i] = Current + i - 1
    <3>1. CASE i \in 1..n
      BY <1>3, <2>3, <3>1
    <3>2. CASE i = n + 1
      BY <1>2, <1>3, <2>1, <3>2
    <3>. QED
      BY <1>2, <3>1, <3>2
  <2>. QED
    BY <1>1, <1>2, <1>3, <1>5, <2>2, <2>4 DEF Raised
<1>9. Notifying'
  BY <1>1, <1>3 DEF Notifying, monRun
<1>10. Queued'
  BY <1>1, <1>7, QueuedKept
<1>11. FactoryKnows'
  BY <1>1, <1>2, <1>5, <1>6 DEF FactoryKnows, Types, factory
<1>12. Calling'
  BY <1>1, CallingKept DEF ctxRun, clients
<1>13. Heard'
  <2>1. \A p \in subscribed : Due(p)' = Due(p)
    BY <1>1, <1>7, DueKept, Subscribed DEF ctxRun
  <2>. QED
    BY <1>1, <2>1, HeardKept DEF clients
<1>14. Observing' /\ Listed' /\ Known'
  BY <1>1, ObservingKept, ListedKept, KnownKept DEF clients
<1>15. QueuesAttended'
  BY <1>1 DEF QueuesAttended, monRun, ctxRun
<1>. QED
  BY <1>4, <1>8, <1>9, <1>10, <1>11, <1>12, <1>13, <1>14, <1>15

LEMMA NotifyReadyInv ==
  ASSUME Inv, NEW t \in Producers, monitorReady(t)
  PROVE  Inv'
<1>1. /\ monPending' = Append(monPending, Monitor) /\ monPending' # <<>>
      /\ UNCHANGED <<sent, stateEventsQueue, observers, notifying, announcing, factory,
                     created, queue, ctxRun, clients>>
  BY DEF monitorReady, MonitorWq!Request
<1>2. monPending' \in Seq({Monitor})
  BY <1>1 DEF Inv, Types
<1>3. Types' /\ QueuesAttended'
  BY <1>1, <1>2 DEF Inv, Types, QueuesAttended, factory, ctxRun, clients, monitorReady,
     MonitorWq!Request
<1>. QED
  BY <1>1, <1>3, Aside DEF ctxRun, clients

LEMMA MonStartInv ==
  ASSUME Inv, monStart
  PROVE  Inv'
<1>1. /\ monRunning' = Head(monPending) /\ monPending # <<>>
      /\ monPending' = Tail(monPending)
      /\ UNCHANGED <<monitor, observers, notifying, announcing, factory, created,
                     queue, ctxRun, clients>>
  BY DEF monStart, MonitorWq!Start
<1>2. monRunning' = Monitor /\ monPending' \in Seq({Monitor})
  <2>1. monPending \in Seq({Monitor})
    BY DEF Inv, Types
  <2>2. Head(monPending) \in {Monitor} /\ Tail(monPending) \in Seq({Monitor})
    BY <1>1, <2>1
  <2>. QED
    BY <1>1, <2>2
<1>3. Types' /\ QueuesAttended'
  BY <1>1, <1>2, NothingAssumption
  DEF Inv, Types, QueuesAttended, monitor, factory, ctxRun, clients
<1>. QED
  BY <1>1, <1>3, Aside DEF monitor, ctxRun, clients

\* run() of the monitor ends when its queue is empty.
LEMMA MonFinishInv ==
  ASSUME Inv, monFinish
  PROVE  Inv'
<1>1. /\ stateEventsQueue = <<>>
      /\ monRunning' = Nothing /\ monPending' = monPending
      /\ UNCHANGED <<monitor, observers, notifying, announcing, factory, created,
                     queue, ctxRun, clients>>
  BY DEF monFinish, MonitorWq!Finish
<1>2. Types' /\ QueuesAttended'
  BY <1>1 DEF Inv, Types, QueuesAttended, monitor, factory, ctxRun, clients
<1>. QED
  BY <1>1, <1>2, Aside DEF monitor, ctxRun, clients

LEMMA ProcessEventsInv ==
  ASSUME Inv, processEvents
  PROVE  Inv'
<1>. USE DEF Inv
<1>1. /\ notifying = Nothing /\ stateEventsQueue # <<>> /\ notifying' = observers
      /\ UNCHANGED <<sent, stateEventsQueue, observers, monPending, monRunning, announcing,
                     factory, created, queue, ctxRun, clients>>
  BY DEF processEvents, monitor
<1>2. Types'
  BY <1>1 DEF Types, factory, ctxRun, clients
<1>3. /\ Current' = Current
      /\ \A c : ~Given(c) /\ ~Given(c)' /\ Coming(c)' = Coming(c)
  BY <1>1 DEF Current, Given, Coming
<1>4. \A c \in Contexts : AtHand(c)' = AtHand(c)
  BY <1>1, <1>3 DEF AtHand
<1>5. Notifying'
  BY <1>1 DEF Notifying, Observing
<1>6. FactoryKnows'
  BY <1>1, <1>3 DEF FactoryKnows, factory
<1>7. Heard'
  <2>1. \A p \in subscribed : Due(p)' = Due(p)
    BY <1>1, <1>4, DueKept, Subscribed DEF ctxRun
  <2>. QED
    BY <1>1, <2>1, HeardKept DEF clients
<1>8. Observing' /\ Raised' /\ Queued' /\ Listed' /\ Calling' /\ Known'
  BY <1>1, <1>4, ObservingKept, RaisedKept, QueuedKept, ListedKept, CallingKept, KnownKept
  DEF ctxRun, clients
<1>9. QueuesAttended'
  <2>1. monRunning' # Nothing
    BY NothingAssumption DEF processEvents
  <2>. QED
    BY <1>1, <2>1 DEF QueuesAttended, ctxRun
<1>. QED
  BY <1>2, <1>5, <1>6, <1>7, <1>8, <1>9

\* What the monitor has before it notifies the next observer.
LEMMA NextObserver ==
  ASSUME Types, Observing, Notifying, Raised, NotifyNext
  PROVE  /\ notifying \in Seq(Observers) /\ notifying # <<>>
         /\ Head(notifying) \in Observers /\ Head(notifying) = notifying[1]
         /\ Head(notifying) \in ToSet(observers)
         /\ Tail(notifying) \in Seq(Observers) /\ Tail(notifying) # Nothing
         /\ ToSet(notifying) = {Head(notifying)} \cup ToSet(Tail(notifying))
         /\ Head(notifying) \notin ToSet(Tail(notifying))
         /\ IsInjective(Tail(notifying))
         /\ Factory \notin ToSet(Tail(notifying))
         /\ Head(stateEventsQueue) = Current /\ Current <= sent
         /\ ~Given(Head(notifying))
<1>1. notifying \in Seq(Observers) /\ notifying # <<>> /\ notifying # Nothing
  BY DEF Types, NotifyNext
<1>2. /\ stateEventsQueue # <<>> /\ ToSet(notifying) \subseteq ToSet(observers)
      /\ IsInjective(notifying)
      /\ Factory \in ToSet(notifying) => notifying[1] = Factory
  BY <1>1 DEF Notifying
<1>3. /\ Head(notifying) = notifying[1] /\ Head(notifying) \in Observers
      /\ Head(notifying) \in ToSet(notifying)
      /\ Tail(notifying) \in Seq(Observers)
      /\ ToSet(notifying) = {Head(notifying)} \cup ToSet(Tail(notifying))
      /\ IsInjective(Tail(notifying)) /\ Head(notifying) \notin ToSet(Tail(notifying))
  BY <1>1, <1>2, TailElements
<1>4. Tail(notifying) # Nothing
  BY <1>3, NothingAssumption DEF Observers
<1>5. Factory \notin ToSet(Tail(notifying))
  BY <1>2, <1>3
<1>6. Head(stateEventsQueue) = Current /\ Current <= sent
  BY <1>2, Numbers
<1>7. ~Given(Head(notifying))
  BY <1>3 DEF Given
<1>. QED
  BY <1>1, <1>2, <1>3, <1>4, <1>5, <1>6, <1>7

\* The factory is the first to see the event.
LEMMA NotifyFactoryInv ==
  ASSUME Inv, notifyFactory
  PROVE  Inv'
<1>. USE DEF Inv
<1>1. /\ NotifyNext /\ Head(notifying) = Factory
      /\ factorySeen' = Head(stateEventsQueue) /\ notifying' = Tail(notifying)
      /\ UNCHANGED <<monitor, observers, monPending, monRunning, announcing, factorySince,
                     created, queue, ctxRun, clients>>
  BY DEF notifyFactory
<1>2. /\ notifying' \in Seq(Observers) /\ notifying' # Nothing
      /\ ToSet(notifying) = {Factory} \cup ToSet(notifying')
      /\ Factory \notin ToSet(notifying') /\ IsInjective(notifying')
      /\ factorySeen' = Current /\ Factory \in ToSet(observers)
      /\ notifying # Nothing
  BY <1>1, NextObserver DEF NotifyNext
<1>3. Current \in Nat
  BY Numbers
<1>4. Types'
  BY <1>1, <1>2, <1>3 DEF Types, monitor, ctxRun, clients
<1>5. Current' = Current
  BY <1>1 DEF Current, monitor
<1>6. \A c : c # Factory => Given(c)' = Given(c) /\ Coming(c)' = Coming(c)
  BY <1>1, <1>2, <1>5 DEF Given, Coming
<1>7. \A c \in Contexts : AtHand(c)' = AtHand(c)
  BY <1>1, <1>6, FactoryAssumption DEF AtHand
<1>8. Notifying'
  BY <1>1, <1>2 DEF Notifying, monitor
<1>9. FactoryKnows'
  <2>1. ASSUME NEW c \in Contexts PROVE Coming(c)' - 1 <= Current
    BY <1>3, <1>6, FactoryAssumption DEF Coming
  <2>. QED
    BY <1>1, <1>2, <1>3, <1>5, <2>1 DEF FactoryKnows, monitor
<1>10. Heard'
  <2>1. \A p \in subscribed : Due(p)' = Due(p)
    BY <1>1, <1>7, DueKept, Subscribed DEF ctxRun
  <2>. QED
    BY <1>1, <2>1, HeardKept DEF clients
<1>11. Known'
  <2>1. factorySeen <= factorySeen' /\ factorySeen \in Nat /\ factorySince \in Nat
    BY <1>2 DEF FactoryKnows, Types
  <2>2. received \in [Clients -> Seq(Nat)]
    BY DEF Types
  <2>3. \A p \in Clients : ToSet(received[p]) \subseteq Nat
    BY <2>2, SeqElements
  <2>4. ASSUME NEW p \in Clients, NEW e \in ToSet(received'[p])
        PROVE  e <= factorySince' \/ e <= factorySeen'
    <3>1. e \in ToSet(received[p]) /\ factorySince' = factorySince
      BY <1>1, <2>4 DEF clients
    <3>2. e \in Nat /\ (e <= factorySince \/ e <= factorySeen)
      BY <2>3, <3>1 DEF Known
    <3>. QED
      BY <1>2, <1>3, <2>1, <3>1, <3>2
  <2>. QED
    BY <2>4 DEF Known
<1>12. Observing' /\ Raised' /\ Queued' /\ Listed' /\ Calling'
  BY <1>1, <1>7, ObservingKept, RaisedKept, QueuedKept, ListedKept, CallingKept
  DEF monitor, ctxRun, clients
<1>13. QueuesAttended'
  BY <1>1 DEF QueuesAttended, monitor, ctxRun
<1>. QED
  BY <1>4, <1>8, <1>9, <1>10, <1>11, <1>12, <1>13

\* A context is given the event behind those it was given before, when the
\* factory has seen it.
LEMMA NotifyDeviceEventInv ==
  ASSUME Inv, notifyDeviceEvent
  PROVE  Inv'
<1>. USE DEF Inv
<1>. PICK c : c = Head(notifying)
  OBVIOUS
<1>. DEFINE n == Len(queue[c])
<1>1. /\ NotifyNext /\ c = Head(notifying) /\ c # Factory
      /\ queue' = [queue EXCEPT ![c] = Append(@, Head(stateEventsQueue))]
      /\ announcing' = c /\ notifying' = Tail(notifying)
      /\ UNCHANGED <<monitor, observers, monPending, monRunning, factory, created,
                     ctxRun, clients>>
  BY DEF notifyDeviceEvent
<1>2. /\ c \in Contexts /\ c \in ToSet(observers)
      /\ notifying # Nothing /\ notifying' # Nothing /\ announcing = Nothing
      /\ notifying' \in Seq(Observers) /\ IsInjective(notifying')
      /\ ToSet(notifying) = {c} \cup ToSet(notifying') /\ c \notin ToSet(notifying')
      /\ Factory \notin ToSet(notifying') /\ Factory \notin ToSet(notifying)
      /\ Head(stateEventsQueue) = Current /\ ~Given(c)
  BY <1>1, NextObserver DEF NotifyNext, Observers
<1>3. Current \in Nat \ {0} /\ queue \in [Contexts -> Seq(Nat)] /\ queue[c] \in Seq(Nat)
  BY <1>2, Numbers DEF Types
<1>4. /\ queue'[c] \in Seq(Nat) /\ queue'[c] # <<>> /\ Len(queue'[c]) = n + 1 /\ n \in Nat
      /\ \A i \in 1..n : queue'[c][i] = queue[c][i]
      /\ queue'[c][n + 1] = Current
      /\ queue' \in [Contexts -> Seq(Nat)]
      /\ \A d \in Contexts : d # c => queue'[d] = queue[d]
  <2>. DEFINE old == queue[c]
              new == queue'[c]
  <2>1. new = Append(old, Current) /\ old \in Seq(Nat)
    BY <1>1, <1>2, <1>3
  <2>2. /\ new \in Seq(Nat) /\ new # <<>> /\ Len(new) = Len(old) + 1
        /\ \A i \in 1..Len(old) : new[i] = old[i]
        /\ new[Len(old) + 1] = Current
    <3>1. old \in Seq(Nat) /\ Current \in Nat
      BY <1>3, <2>1
    <3>. HIDE DEF old, new
    <3>2. /\ Append(old, Current) \in Seq(Nat) /\ Append(old, Current) # <<>>
          /\ Len(Append(old, Current)) = Len(old) + 1
          /\ \A i \in 1..Len(old) : Append(old, Current)[i] = old[i]
          /\ Append(old, Current)[Len(old) + 1] = Current
      BY <3>1, AppendElements
    <3>. QED
      BY <2>1, <3>2
  <2>3. n \in Nat
    BY <1>3
  <2>. QED
    BY <1>1, <1>2, <1>3, <2>2, <2>3
<1>5. Types'
  BY <1>1, <1>2, <1>4 DEF Types, monitor, factory, ctxRun, clients
<1>6. Current' = Current
  BY <1>1 DEF Current, monitor
<1>7. Given(c)' /\ Coming(c) = Current /\ Coming(c)' = Current + 1
  BY <1>1, <1>2, <1>6 DEF Given, Coming
<1>8. \A d : d # c => Given(d)' = Given(d) /\ Coming(d)' = Coming(d)
  BY <1>1, <1>2, <1>6 DEF Given, Coming
<1>9. ASSUME NEW d \in Contexts PROVE AtHand(d)' = AtHand(d)
  <2>1. CASE d = c
    <3>1. AtHand(c) = Coming(c) - n /\ AtHand(c)' = Coming(c)' - Len(queue'[c])
      BY DEF AtHand
    <3>. HIDE DEF n
    <3>. QED
      BY <1>3, <1>4, <1>7, <2>1, <3>1
  <2>2. CASE d # c
    BY <1>4, <1>8, <2>2 DEF AtHand
  <2>. QED
    BY <2>1, <2>2
<1>10. Notifying'
  BY <1>1, <1>2 DEF Notifying, monitor
<1>11. Queued'
  <2>1. ASSUME NEW d \in Contexts, d # c
        PROVE  /\ (AtHand(d) >= 1)'
               /\ \A i \in DOMAIN queue'[d] : queue'[d][i] = AtHand(d)' + i - 1
               /\ d \notin ToSet(observers) => queue'[d] = <<>>
    BY <1>4, <1>9, <2>1 DEF Queued
  <2>2. /\ DOMAIN queue[c] = 1..n /\ DOMAIN queue'[c] = 1..(n + 1)
    BY <1>3, <1>4
  <2>3. AtHand(c) + n = Current
    BY <1>2, <1>7, Numbers
  <2>4. AtHand(c) >= 1 /\ \A i \in 1..n : queue[c][i] = AtHand(c) + i - 1
    BY <1>2, <2>2 DEF Queued
  <2>5. AtHand(c) \in Int
    BY <1>2, Numbers
  <2>. HIDE DEF n
  <2>6. ASSUME NEW i \in 1..(n + 1) PROVE queue'[c][i] = AtHand(c)' + i - 1
    <3>1. AtHand(c)' = AtHand(c)
      BY <1>2, <1>9
    <3>2. CASE i \in 1..n
      BY <1>4, <2>4, <3>1, <3>2
    <3>3. CASE i = n + 1
      BY <1>3, <1>4, <2>3, <2>5, <3>1, <3>3
    <3>. QED
      BY <1>4, <3>2, <3>3
  <2>7. AtHand(c)' >= 1
    BY <1>2, <1>9, <2>4
  <2>. QED
    BY <1>1, <1>2, <2>1, <2>2, <2>6, <2>7 DEF Queued
<1>12. FactoryKnows'
  <2>1. Factory \in ToSet(observers) => Given(Factory)
    BY <1>2 DEF Given
  <2>2. Factory \in ToSet(observers) => factorySeen = Current
    BY <2>1 DEF FactoryKnows
  <2>3. Coming(c)' - 1 = Current
    BY <1>3, <1>7
  <2>4. c # Factory
    BY <1>1
  <2>5. Given(Factory)' = Given(Factory)
    BY <1>8, <2>4
  <2>. QED
    BY <1>1, <1>3, <1>6, <1>8, <2>2, <2>3, <2>5 DEF FactoryKnows, monitor, factory
<1>13. Calling'
  <2>1. calling # Nothing /\ queue[ctxRunning] # <<>> => queue'[ctxRunning] # <<>>
    BY <1>4 DEF Calling
  <2>. QED
    BY <1>1, <2>1, CallingKept DEF ctxRun, clients
<1>14. Heard'
  <2>1. \A p \in subscribed : Due(p)' = Due(p)
    BY <1>1, <1>9, DueKept, Subscribed DEF ctxRun
  <2>. QED
    BY <1>1, <2>1, HeardKept DEF clients
<1>15. Observing' /\ Raised' /\ Listed' /\ Known'
  BY <1>1, ObservingKept, RaisedKept, ListedKept, KnownKept DEF monitor, clients
<1>16. QueuesAttended'
  <2>1. ASSUME NEW d \in Contexts, queue'[d] # <<>>
        PROVE  announcing' = d \/ d \in ToSet(ctxPending') \/ ctxRunning' = d
    BY <1>1, <1>2, <1>4, <2>1, NothingAssumption DEF QueuesAttended, ctxRun
  <2>. QED
    BY <1>1, <2>1 DEF QueuesAttended, monitor
<1>. QED
  BY <1>5, <1>10, <1>11, <1>12, <1>13, <1>14, <1>15, <1>16

LEMMA ContextReadyInv ==
  ASSUME Inv, contextReady
  PROVE  Inv'
<1>1. /\ announcing # Nothing /\ announcing' = Nothing
      /\ ctxPending' = Append(ctxPending, announcing)
      /\ UNCHANGED <<monitor, observers, monPending, monRunning, notifying, factory,
                     created, queue, calling, ctxRunning, clients>>
  BY DEF contextReady, ContextWq!Request
<1>2. announcing \in Contexts /\ ctxPending \in Seq(Contexts)
  BY <1>1 DEF Inv, Types
<1>3. /\ ctxPending' \in Seq(Contexts)
      /\ ToSet(ctxPending') = ToSet(ctxPending) \cup {announcing}
  BY <1>1, <1>2, AppendElements
<1>4. Types' /\ QueuesAttended'
  BY <1>1, <1>3 DEF Inv, Types, QueuesAttended, monitor, factory, clients
<1>. QED
  BY <1>1, <1>4, Aside DEF monitor, clients

\* When all observers have the event, those that registered meanwhile come next.
LEMMA PopEventInv ==
  ASSUME Inv, popEvent
  PROVE  Inv'
<1>. USE DEF Inv
<1>. DEFINE n == Len(stateEventsQueue)
<1>1. /\ notifying = <<>> /\ notifying' = Nothing
      /\ stateEventsQueue' = Tail(stateEventsQueue)
      /\ UNCHANGED <<sent, raising, observers, monPending, monRunning, announcing, factory,
                     created, queue, ctxRun, clients>>
  BY DEF popEvent
<1>2. notifying # Nothing
  <2>1. <<>> \in Seq(Clients)
    OBVIOUS
  <2>. QED
    BY <1>1, <2>1, NothingAssumption
<1>3. stateEventsQueue # <<>> /\ stateEventsQueue \in Seq(Nat)
  BY <1>2 DEF Notifying, Types
<1>4. /\ stateEventsQueue' \in Seq(Nat) /\ Len(stateEventsQueue') = n - 1
      /\ \A i \in 1..(n - 1) : stateEventsQueue'[i] = stateEventsQueue[i + 1]
  BY <1>1, <1>3, TailElements
<1>5. /\ n \in Nat \ {0} /\ sent \in Nat /\ n <= sent
      /\ Current \in Nat \ {0}
  BY <1>3, Numbers DEF Types, Raised
<1>6. Current' = Current + 1
  <2>1. Current = sent + 1 - n /\ Current' = sent' + 1 - Len(stateEventsQueue')
    BY DEF Current
  <2>. HIDE DEF n
  <2>. QED
    BY <1>1, <1>4, <1>5, <2>1
<1>7. Types'
  BY <1>1, <1>4 DEF Types, factory, ctxRun, clients
<1>8. Raised'
  <2>1. DOMAIN stateEventsQueue = 1..n /\ DOMAIN stateEventsQueue' = 1..(n - 1)
    BY <1>3, <1>4, <1>5
  <2>2. \A i \in 1..n : stateEventsQueue[i] = Current + i - 1
    BY <2>1 DEF Raised
  <2>. HIDE DEF n
  <2>3. ASSUME NEW i \in 1..(n - 1) PROVE stateEventsQueue'[i] = Current' + i - 1
    <3>1. i + 1 \in 1..n
      BY <1>5
    <3>. QED
      BY <1>4, <1>5, <1>6, <2>2, <3>1
  <2>. QED
    BY <1>1, <1>4, <1>5, <2>1, <2>3 DEF Raised
<1>9. ToSet(notifying) = {}
  BY <1>1 DEF ToSet
<1>10. \A c : ~Given(c)' /\ Coming(c)' = Current + 1
  BY <1>1, <1>6 DEF Given, Coming
<1>11. \A c : c \in ToSet(observers) => Given(c) /\ Coming(c) = Current + 1
  BY <1>2, <1>9 DEF Given, Coming
<1>12. \A c \in Contexts : c \in ToSet(observers) => AtHand(c)' = AtHand(c)
  BY <1>1, <1>10, <1>11 DEF AtHand
<1>13. Queued'
  <2>1. ASSUME NEW c \in Contexts, c \in ToSet(observers)
        PROVE  /\ AtHand(c)' >= 1
               /\ \A i \in DOMAIN queue'[c] : queue'[c][i] = AtHand(c)' + i - 1
    BY <1>1, <1>12, <2>1 DEF Queued
  <2>2. ASSUME NEW c \in Contexts, c \notin ToSet(observers)
        PROVE  queue'[c] = <<>> /\ AtHand(c)' >= 1 /\ DOMAIN queue'[c] = {}
    <3>1. queue'[c] = <<>>
      BY <1>1, <2>2 DEF Queued
    <3>2. Len(queue'[c]) = 0 /\ DOMAIN queue'[c] = {}
      BY <3>1
    <3>3. AtHand(c)' = Coming(c)' - Len(queue'[c])
      BY DEF AtHand
    <3>4. Coming(c)' = Current + 1
      BY <1>10
    <3>. QED
      BY <1>5, <3>1, <3>2, <3>3, <3>4
  <2>. QED
    BY <1>1, <2>1, <2>2 DEF Queued
<1>14. FactoryKnows'
  <2>1. Factory \in ToSet(observers) => factorySeen = Current
    BY <1>11 DEF FactoryKnows
  <2>2. \A c : Coming(c)' - 1 = Current
    BY <1>5, <1>10
  <2>3. factorySeen <= Current + 1
    BY <1>5 DEF FactoryKnows, Types
  <2>. QED
    BY <1>1, <1>5, <1>6, <1>10, <2>1, <2>2, <2>3 DEF FactoryKnows, factory
<1>15. Heard'
  <2>1. \A p \in subscribed : Due(p)' = Due(p)
    BY <1>1, <1>12, DueKept, Subscribed DEF ctxRun
  <2>. QED
    BY <1>1, <2>1, HeardKept DEF clients
<1>16. Notifying'
  BY <1>1 DEF Notifying
<1>17. Observing' /\ Listed' /\ Calling' /\ Known'
  BY <1>1, ObservingKept, ListedKept, CallingKept, KnownKept DEF ctxRun, clients
<1>18. QueuesAttended'
  BY <1>1, <1>3 DEF QueuesAttended, ctxRun
<1>. QED
  BY <1>7, <1>8, <1>13, <1>14, <1>15, <1>16, <1>17, <1>18

-----------------------------------------------------------------------------
(* Observers register.                                                     *)

\* The factory comes in front, and has nothing to see of what was raised before.
LEMMA RegisterPriorityDeviceObserverInv ==
  ASSUME Inv, registerPriorityDeviceObserver
  PROVE  Inv'
<1>. USE DEF Inv
<1>1. /\ notifying = Nothing /\ Factory \notin ToSet(observers)
      /\ observers' = <<Factory>> \o observers /\ factorySince' = sent
      /\ UNCHANGED <<monitor, monRun, factorySeen, created, queue, ctxRun, clients>>
  BY DEF registerPriorityDeviceObserver, ObserversFree
<1>2. /\ observers' \in Seq(Observers)
      /\ ToSet(observers') = {Factory} \cup ToSet(observers)
      /\ IsInjective(observers') /\ observers'[1] = Factory
  <2>1. observers \in Seq(Observers) /\ Factory \in Observers /\ IsInjective(observers)
    BY DEF Types, Observers, Observing
  <2>. QED
    BY <1>1, <2>1, ConsElements
<1>3. /\ Current' = Current
      /\ \A c : ~Given(c) /\ ~Given(c)' /\ Coming(c)' = Coming(c) /\ Coming(c) = Current
  BY <1>1 DEF Current, Given, Coming, monitor, monRun
<1>4. \A c \in Contexts : AtHand(c)' = AtHand(c)
  BY <1>1, <1>3 DEF AtHand
<1>5. Types'
  BY <1>1, <1>2 DEF Types, monitor, monRun, ctxRun, clients
<1>6. Observing'
  BY <1>1, <1>2 DEF Observing
<1>7. Notifying'
  BY <1>1 DEF Notifying, monRun
<1>8. Queued'
  BY <1>1, <1>2, <1>4 DEF Queued
<1>9. FactoryKnows'
  <2>1. Current \in Nat /\ Current <= sent + 1 /\ sent \in Nat
    BY Numbers DEF Types
  <2>2. \A c : Coming(c)' - 1 <= factorySince'
    BY <1>1, <1>3, <2>1
  <2>. QED
    BY <1>1, <1>3, <2>1, <2>2 DEF FactoryKnows, monitor
<1>10. Heard'
  <2>1. \A p \in subscribed : Due(p)' = Due(p)
    BY <1>1, <1>4, DueKept, Subscribed DEF ctxRun
  <2>. QED
    BY <1>1, <2>1, HeardKept DEF clients
<1>11. Known'
  <2>1. factorySince <= factorySince' /\ factorySince \in Nat /\ factorySince' \in Nat
    BY <1>1 DEF FactoryKnows, Types
  <2>2. ASSUME NEW p \in Clients, NEW e \in ToSet(received[p])
        PROVE  e <= factorySince' \/ e <= factorySeen
    <3>1. received[p] \in Seq(Nat)
      BY DEF Types
    <3>2. e \in Nat
      BY <3>1, SeqElements
    <3>. QED
      BY <2>1, <3>2 DEF Known
  <2>. QED
    BY <1>1, <2>2 DEF Known, clients
<1>12. Raised' /\ Listed' /\ Calling'
  BY <1>1, RaisedKept, ListedKept, CallingKept DEF monitor, ctxRun, clients
<1>13. QueuesAttended'
  BY <1>1 DEF QueuesAttended, monitor, monRun, ctxRun
<1>. QED
  BY <1>5, <1>6, <1>7, <1>8, <1>9, <1>10, <1>11, <1>12, <1>13

LEMMA RegisterDeviceObserverInv ==
  ASSUME Inv, NEW c \in Contexts, registerDeviceObserver(c)
  PROVE  Inv'
<1>. USE DEF Inv
<1>1. /\ notifying = Nothing /\ c \notin ToSet(observers)
      /\ observers' = Append(observers, c)
      /\ UNCHANGED <<monitor, monRun, factory, created, queue, ctxRun, clients>>
  BY DEF registerDeviceObserver, ObserversFree
<1>2. /\ observers' \in Seq(Observers)
      /\ ToSet(observers') = ToSet(observers) \cup {c}
      /\ IsInjective(observers')
      /\ observers # <<>> => observers'[1] = observers[1]
  <2>1. observers \in Seq(Observers) /\ c \in Observers /\ IsInjective(observers)
    BY DEF Types, Observers, Observing
  <2>2. /\ observers' \in Seq(Observers)
        /\ ToSet(observers') = ToSet(observers) \cup {c}
        /\ IsInjective(observers')
        /\ \A i \in 1..Len(observers) : observers'[i] = observers[i]
    BY <1>1, <2>1, AppendElements
  <2>3. observers # <<>> => 1 \in 1..Len(observers)
    BY <2>1
  <2>. QED
    BY <2>2, <2>3
<1>3. Factory \in ToSet(observers') => Factory \in ToSet(observers) /\ observers # <<>>
  <2>1. c # Factory
    BY FactoryAssumption
  <2>2. observers \in Seq(Observers)
    BY DEF Types
  <2>3. ToSet(observers) # {} => observers # <<>>
    BY <2>2, SeqElements
  <2>. QED
    BY <1>2, <2>1, <2>3
<1>4. /\ Current' = Current
      /\ \A d : ~Given(d) /\ ~Given(d)' /\ Coming(d)' = Coming(d)
  BY <1>1 DEF Current, Given, Coming, monitor, monRun
<1>5. \A d \in Contexts : AtHand(d)' = AtHand(d)
  BY <1>1, <1>4 DEF AtHand
<1>6. Types'
  BY <1>1, <1>2 DEF Types, monitor, monRun, factory, ctxRun, clients
<1>7. Observing'
  BY <1>1, <1>2, <1>3 DEF Observing
<1>8. Notifying'
  BY <1>1 DEF Notifying, monRun
<1>9. Queued'
  BY <1>1, <1>2, <1>5 DEF Queued
<1>10. FactoryKnows'
  BY <1>1, <1>3, <1>4 DEF FactoryKnows, monitor, factory
<1>11. Heard'
  <2>1. \A p \in subscribed : Due(p)' = Due(p)
    BY <1>1, <1>5, DueKept, Subscribed DEF ctxRun
  <2>. QED
    BY <1>1, <2>1, HeardKept DEF clients
<1>12. Raised' /\ Listed' /\ Calling' /\ Known'
  BY <1>1, RaisedKept, ListedKept, CallingKept, KnownKept DEF monitor, ctxRun, clients
<1>13. QueuesAttended'
  BY <1>1 DEF QueuesAttended, monitor, monRun, ctxRun
<1>. QED
  BY <1>6, <1>7, <1>8, <1>9, <1>10, <1>11, <1>12, <1>13

LEMMA CreateContextInv ==
  ASSUME Inv, NEW c \in Contexts, createContext(c)
  PROVE  Inv'
<1>. USE DEF Inv
<1>1. /\ c \in ToSet(observers) /\ Factory \in ToSet(observers)
      /\ created' = created \cup {c}
      /\ UNCHANGED <<monitor, observers, monRun, factory, queue, ctxRun, clients>>
  BY DEF createContext
<1>2. Types'
  BY <1>1 DEF Types, monitor, monRun, factory, ctxRun, clients
<1>3. Observing' /\ Listed'
  BY <1>1 DEF Observing, Listed, clients
<1>4. UNCHANGED <<sent, stateEventsQueue, observers, notifying, queue>>
  BY <1>1 DEF monitor, monRun
<1>5. \A d \in Contexts : AtHand(d)' = AtHand(d)
  BY <1>4, PositionsKept
<1>6. Heard'
  <2>1. \A p \in subscribed : Due(p)' = Due(p)
    BY <1>1, <1>5, DueKept, Subscribed DEF ctxRun
  <2>. QED
    BY <1>1, <2>1, HeardKept DEF clients
<1>7. Notifying' /\ Raised' /\ Queued' /\ FactoryKnows' /\ Calling' /\ Known'
  BY <1>1, <1>4, <1>5, NotifyingKept, RaisedKept, QueuedKept, FactoryKnowsKept,
     CallingKept, KnownKept
  DEF ctxRun, clients
<1>8. QueuesAttended'
  BY <1>1 DEF QueuesAttended, monitor, monRun, ctxRun
<1>. QED
  BY <1>2, <1>3, <1>6, <1>7, <1>8

-----------------------------------------------------------------------------
(* The contexts.                                                           *)

LEMMA CtxStartInv ==
  ASSUME Inv, ctxStart
  PROVE  Inv'
<1>1. /\ ctxRunning = Nothing /\ ctxPending # <<>>
      /\ ctxRunning' = Head(ctxPending) /\ ctxPending' = Tail(ctxPending)
      /\ UNCHANGED <<monitor, observers, monRun, factory, created, queue, calling, clients>>
  BY DEF ctxStart, ContextWq!Start
<1>2. ctxPending \in Seq(Contexts)
  BY DEF Inv, Types
<1>3. /\ ctxRunning' \in Contexts /\ ctxPending' \in Seq(Contexts)
      /\ ToSet(ctxPending) = {ctxRunning'} \cup ToSet(ctxPending')
  BY <1>1, <1>2, TailElements
<1>4. calling = Nothing
  BY <1>1, NothingAssumption DEF Inv, Calling
<1>5. Types'
  BY <1>1, <1>3 DEF Inv, Types, monitor, monRun, factory, clients
<1>6. QueuesAttended'
  <2>1. ASSUME NEW c \in Contexts, queue[c] # <<>>
        PROVE  announcing = c \/ c \in ToSet(ctxPending') \/ ctxRunning' = c
    BY <1>1, <1>3, <2>1, NothingAssumption DEF Inv, QueuesAttended
  <2>. QED
    BY <1>1, <2>1 DEF Inv, QueuesAttended, monitor, monRun
<1>. QED
  BY <1>1, <1>4, <1>5, <1>6, Aside DEF monitor, monRun, clients

\* run() of a context ends when its queue is empty.
LEMMA CtxFinishInv ==
  ASSUME Inv, ctxFinish
  PROVE  Inv'
<1>1. /\ calling = Nothing /\ queue[ctxRunning] = <<>>
      /\ ctxRunning' = Nothing /\ ctxPending' = ctxPending
      /\ UNCHANGED <<monitor, observers, monRun, factory, created, queue, calling, clients>>
  BY DEF ctxFinish, ContextWq!Finish
<1>2. Types'
  BY <1>1 DEF Inv, Types, monitor, monRun, factory, clients
<1>3. QueuesAttended'
  BY <1>1 DEF Inv, QueuesAttended, monitor, monRun
<1>. QED
  BY <1>1, <1>2, <1>3, Aside DEF monitor, monRun, clients

\* Every client in the list is still to be called.
LEMMA CallClientsInv ==
  ASSUME Inv, callClients
  PROVE  Inv'
<1>. USE DEF Inv
<1>1. /\ ctxRunning # Nothing /\ calling = Nothing /\ queue[ctxRunning] # <<>>
      /\ calling' = db[ctxRunning]
      /\ UNCHANGED <<monitor, observers, monRun, factory, created, queue,
                     ctxPending, ctxRunning, clients>>
  BY DEF callClients
<1>2. ctxRunning \in Contexts /\ calling' \in Seq(Clients)
  BY <1>1 DEF Types
<1>3. Types'
  BY <1>1, <1>2 DEF Types, monitor, monRun, factory, clients
<1>4. Calling'
  BY <1>1, <1>2 DEF Calling, Listed, clients
<1>5. UNCHANGED <<sent, stateEventsQueue, observers, notifying, queue>>
  BY <1>1 DEF monitor, monRun
<1>6. \A c \in Contexts : AtHand(c)' = AtHand(c)
  BY <1>5, PositionsKept
<1>7. Heard'
  <2>1. ASSUME NEW p \in subscribed PROVE Due(p)' = Due(p)
    <3>1. p \in ToSet(db[ContextOf[p]]) /\ ContextOf[p] \in Contexts
      BY Subscribed
    <3>2. ~Called(p) /\ ~Called(p)'
      BY <1>1, <3>1 DEF Called
    <3>. QED
      BY <1>6, <3>1, <3>2 DEF Due
  <2>. QED
    BY <1>1, <2>1, HeardKept DEF clients
<1>8. Observing' /\ Notifying' /\ Raised' /\ Queued' /\ FactoryKnows' /\ Listed' /\ Known'
  BY <1>1, <1>5, <1>6, ObservingKept, NotifyingKept, RaisedKept, QueuedKept,
     FactoryKnowsKept, ListedKept, KnownKept
  DEF clients
<1>9. QueuesAttended'
  BY <1>1 DEF QueuesAttended, monitor, monRun
<1>. QED
  BY <1>3, <1>4, <1>7, <1>8, <1>9

\* The first client still to be called hears of the event at hand.  The factory
\* has seen it.
LEMMA NextClient ==
  ASSUME Inv, notifyDeviceStateInfo, NEW p, p = Head(calling)
  PROVE  /\ p \in Clients /\ p \in subscribed
         /\ ContextOf[p] = ctxRunning /\ ctxRunning \in Contexts
         /\ calling \in Seq(Clients) /\ calling # <<>> /\ calling # Nothing
         /\ p \in ToSet(calling) /\ ToSet(calling) \subseteq ToSet(db[ctxRunning])
         /\ Head(queue[ctxRunning]) = AtHand(ctxRunning) /\ Due(p) = AtHand(ctxRunning)
         /\ AtHand(ctxRunning) \in 1..sent
         /\ AtHand(ctxRunning) <= factorySince \/ AtHand(ctxRunning) <= factorySeen
<1>. USE DEF Inv
<1>1. calling # Nothing /\ calling # <<>> /\ calling \in Seq(Clients)
  BY DEF notifyDeviceStateInfo, Types
<1>2. /\ ctxRunning \in Contexts /\ queue[ctxRunning] # <<>>
      /\ ToSet(calling) \subseteq ToSet(db[ctxRunning])
  BY <1>1 DEF Calling
<1>3. p \in ToSet(calling)
  BY <1>1, TailElements
<1>4. p \in Clients /\ ContextOf[p] = ctxRunning /\ p \in subscribed
  BY <1>2, <1>3 DEF Listed, subscribed
<1>5. Due(p) = AtHand(ctxRunning)
  BY <1>3, <1>4 DEF Due, Called
<1>6. /\ Head(queue[ctxRunning]) = AtHand(ctxRunning)
      /\ AtHand(ctxRunning) < Coming(ctxRunning)
      /\ AtHand(ctxRunning) \in Nat \ {0}
  BY <1>2, HeadAtHand
<1>7. Coming(ctxRunning) \in Nat /\ Coming(ctxRunning) <= sent + 1 /\ sent \in Nat
  BY Numbers, ComingRaised DEF Types
<1>8. \/ Coming(ctxRunning) - 1 <= factorySince
      \/ Coming(ctxRunning) - 1 <= factorySeen
  BY <1>2, <1>4, Subscribed DEF FactoryKnows
<1>9. factorySince \in Nat /\ factorySeen \in Nat
  BY DEF Types
<1>. QED
  BY <1>1, <1>2, <1>3, <1>4, <1>5, <1>6, <1>7, <1>8, <1>9

LEMMA NotifyDeviceStateInfoInv ==
  ASSUME Inv, notifyDeviceStateInfo
  PROVE  Inv'
<1>. USE DEF Inv
<1>. PICK p : p = Head(calling)
  OBVIOUS
<1>. PICK c : c = ctxRunning
  OBVIOUS
<1>1. /\ received' = [received EXCEPT ![p] = Append(@, Head(queue[c]))]
      /\ calling' = Tail(calling)
      /\ UNCHANGED <<monitor, observers, monRun, factory, created, queue,
                     ctxPending, ctxRunning, db, busy, since>>
  BY DEF notifyDeviceStateInfo
<1>2. /\ p \in Clients /\ p \in subscribed /\ ContextOf[p] = c /\ c \in Contexts
      /\ calling \in Seq(Clients) /\ calling # <<>> /\ calling # Nothing
      /\ p \in ToSet(calling) /\ ToSet(calling) \subseteq ToSet(db[c])
      /\ Head(queue[c]) = AtHand(c) /\ Due(p) = AtHand(c) /\ AtHand(c) \in Nat
      /\ AtHand(c) <= factorySince \/ AtHand(c) <= factorySeen
  BY NextClient
<1>3. /\ calling' \in Seq(Clients) /\ calling' # Nothing
      /\ ToSet(calling) = {p} \cup ToSet(calling') /\ p \notin ToSet(calling')
  <2>1. IsInjective(calling)
    BY <1>2 DEF Calling, Sorted
  <2>2. /\ calling' \in Seq(Clients)
        /\ ToSet(calling) = {p} \cup ToSet(calling') /\ p \notin ToSet(calling')
    BY <1>1, <1>2, <2>1, TailElements
  <2>. QED
    BY <2>2, NothingAssumption
<1>4. /\ received' \in [Clients -> Seq(Nat)]
      /\ received'[p] # <<>> /\ Last(received'[p]) = AtHand(c)
      /\ ToSet(received'[p]) = ToSet(received[p]) \cup {AtHand(c)}
      /\ \A q \in Clients : q # p => received'[q] = received[q]
  <2>. DEFINE old == received[p]
              new == received'[p]
  <2>1. old \in Seq(Nat) /\ AtHand(c) \in Nat /\ new = Append(old, AtHand(c))
    BY <1>1, <1>2 DEF Types
  <2>. HIDE DEF old, new
  <2>2. /\ Append(old, AtHand(c)) \in Seq(Nat) /\ Append(old, AtHand(c)) # <<>>
        /\ Len(Append(old, AtHand(c))) = Len(old) + 1
        /\ Append(old, AtHand(c))[Len(old) + 1] = AtHand(c)
        /\ ToSet(Append(old, AtHand(c))) = ToSet(old) \cup {AtHand(c)}
    BY <2>1, AppendElements
  <2>3. /\ new \in Seq(Nat) /\ new # <<>> /\ Last(new) = AtHand(c)
        /\ ToSet(new) = ToSet(old) \cup {AtHand(c)}
    BY <2>1, <2>2 DEF Last
  <2>. QED
    BY <1>1, <1>2, <2>3 DEF Types, old, new
<1>5. Types'
  BY <1>1, <1>3, <1>4 DEF Types, monitor, monRun, factory
<1>6. Calling'
  <2>1. Sorted(calling') /\ \A q \in ToSet(calling') : Priority[p] >= Priority[q]
    BY <1>1, <1>2, SortedTail DEF Calling
  <2>2. ASSUME NEW q \in ToSet(db[c]) \ ToSet(calling'), NEW r \in ToSet(calling')
        PROVE  Priority[q] >= Priority[r]
    <3>1. CASE q = p
      BY <2>1, <3>1
    <3>2. CASE q # p
      BY <1>2, <1>3, <3>2 DEF Calling
    <3>. QED
      BY <3>1, <3>2
  <2>. QED
    BY <1>1, <1>2, <1>3, <2>1, <2>2 DEF Calling
<1>7. UNCHANGED <<sent, stateEventsQueue, observers, notifying, queue>>
  BY <1>1 DEF monitor, monRun
<1>8. \A d \in Contexts : AtHand(d)' = AtHand(d)
  BY <1>7, PositionsKept
<1>9. Heard'
  <2>1. ASSUME NEW q \in subscribed, q # p
        PROVE  Due(q)' = Due(q) /\ received'[q] = received[q]
    <3>1. q \in Clients /\ ContextOf[q] \in Contexts
      BY Subscribed
    <3>2. Called(q)' <=> Called(q)
      BY <1>1, <1>2, <1>3, <2>1 DEF Called
    <3>. QED
      BY <1>4, <1>8, <2>1, <3>1, <3>2 DEF Due
  <2>2. Due(p)' = AtHand(c) + 1
    <3>1. Called(p)'
      BY <1>1, <1>2, <1>3 DEF Called
    <3>. QED
      BY <1>2, <1>8, <3>1 DEF Due
  <2>3. /\ \A e \in ToSet(received[p]) : e < AtHand(c)
        /\ \A e \in Nat : since[p] < e /\ e < AtHand(c) => e \in ToSet(received[p])
    BY <1>2 DEF Heard
  <2>4. ToSet(received[p]) \subseteq Nat
    <3>1. received[p] \in Seq(Nat)
      BY <1>2 DEF Types
    <3>. QED
      BY <3>1, SeqElements
  <2>5. Last(received'[p]) = Due(p)' - 1
    BY <1>2, <1>4, <2>2
  <2>6. \A e \in ToSet(received'[p]) : e < Due(p)'
    BY <1>2, <1>4, <2>2, <2>3, <2>4
  <2>7. ASSUME NEW e \in Nat, since[p] < e, e < Due(p)' PROVE e \in ToSet(received'[p])
    BY <1>2, <1>4, <2>2, <2>3, <2>7
  <2>8. ASSUME NEW q \in subscribed
        PROVE  /\ received'[q] # <<>> => Last(received'[q]) = Due(q)' - 1
               /\ \A e \in ToSet(received'[q]) : e < Due(q)'
               /\ \A e \in Nat : since[q] < e /\ e < Due(q)' => e \in ToSet(received'[q])
    <3>1. CASE q = p
      BY <2>5, <2>6, <2>7, <3>1
    <3>2. CASE q # p
      BY <2>1, <3>2 DEF Heard
    <3>. QED
      BY <3>1, <3>2
  <2>9. subscribed' = subscribed /\ since' = since
    BY <1>1 DEF subscribed
  <2>. QED
    BY <2>8, <2>9 DEF Heard
<1>10. Known'
  <2>1. ASSUME NEW q \in Clients, NEW e \in ToSet(received'[q])
        PROVE  e <= factorySince \/ e <= factorySeen
    BY <1>2, <1>4 DEF Known
  <2>. QED
    BY <1>1, <2>1 DEF Known, factory
<1>11. Observing' /\ Notifying' /\ Raised' /\ Queued' /\ FactoryKnows' /\ Listed'
  BY <1>1, <1>7, <1>8, ObservingKept, NotifyingKept, RaisedKept, QueuedKept,
     FactoryKnowsKept, ListedKept
<1>12. QueuesAttended'
  BY <1>1 DEF QueuesAttended, monitor, monRun
<1>. QED
  BY <1>5, <1>6, <1>9, <1>10, <1>11, <1>12

\* When all clients were called the context turns to the next event.
LEMMA ContextPopInv ==
  ASSUME Inv, contextPop
  PROVE  Inv'
<1>. USE DEF Inv
<1>. PICK c : c = ctxRunning
  OBVIOUS
<1>. DEFINE n == Len(queue[c])
<1>1. /\ calling = <<>> /\ calling' = Nothing
      /\ queue' = [queue EXCEPT ![c] = Tail(@)]
      /\ UNCHANGED <<monitor, observers, monRun, factory, created, ctxPending, ctxRunning,
                     clients>>
  BY DEF contextPop
<1>2. calling # Nothing
  <2>1. <<>> \in Seq(Clients)
    OBVIOUS
  <2>. QED
    BY <1>1, <2>1, NothingAssumption
<1>3. c \in Contexts /\ queue[c] # <<>> /\ queue[c] \in Seq(Nat)
  BY <1>2 DEF Calling, Types
<1>4. /\ queue'[c] \in Seq(Nat) /\ Len(queue'[c]) = n - 1 /\ n \in Nat \ {0}
      /\ \A i \in 1..(n - 1) : queue'[c][i] = queue[c][i + 1]
      /\ DOMAIN queue[c] = 1..n /\ DOMAIN queue'[c] = 1..(n - 1)
      /\ \A d \in Contexts : d # c => queue'[d] = queue[d]
      /\ queue' \in [Contexts -> Seq(Nat)]
  <2>. DEFINE old == queue[c]
              new == queue'[c]
  <2>1. old \in Seq(Nat) /\ old # <<>> /\ new = Tail(old)
    BY <1>1, <1>3 DEF Types
  <2>. HIDE DEF old, new
  <2>2. /\ Tail(old) \in Seq(Nat) /\ Len(Tail(old)) = Len(old) - 1
        /\ \A i \in 1..Len(Tail(old)) : Tail(old)[i] = old[i + 1]
        /\ Len(old) \in Nat \ {0}
        /\ DOMAIN old = 1..Len(old) /\ DOMAIN Tail(old) = 1..Len(Tail(old))
    BY <2>1
  <2>. QED
    BY <1>1, <1>3, <2>1, <2>2 DEF Types, old, new
<1>5. /\ Current' = Current
      /\ \A d : Given(d)' = Given(d) /\ Coming(d)' = Coming(d)
  BY <1>1 DEF Current, Given, Coming, monitor, monRun
<1>6. AtHand(c)' = AtHand(c) + 1 /\ AtHand(c) \in Int
  <2>1. /\ AtHand(c) = Coming(c) - n /\ AtHand(c)' = Coming(c)' - Len(queue'[c])
        /\ Coming(c)' = Coming(c)
    BY <1>5 DEF AtHand
  <2>2. Coming(c) \in Nat
    BY Numbers
  <2>. HIDE DEF n
  <2>. QED
    BY <1>4, <2>1, <2>2
<1>7. \A d \in Contexts : d # c => AtHand(d)' = AtHand(d)
  BY <1>4, <1>5 DEF AtHand
<1>8. Types'
  BY <1>1, <1>4 DEF Types, monitor, monRun, factory, clients
<1>9. Calling'
  BY <1>1 DEF Calling
<1>10. Queued'
  <2>1. \A d \in Contexts : d # c =>
          /\ AtHand(d)' >= 1
          /\ \A i \in DOMAIN queue'[d] : queue'[d][i] = AtHand(d)' + i - 1
          /\ d \notin ToSet(observers) => queue'[d] = <<>>
    BY <1>4, <1>7 DEF Queued
  <2>2. AtHand(c) >= 1 /\ \A i \in 1..n : queue[c][i] = AtHand(c) + i - 1
    BY <1>3, <1>4 DEF Queued
  <2>3. c \in ToSet(observers)
    BY <1>3 DEF Queued
  <2>. HIDE DEF n
  <2>4. ASSUME NEW i \in 1..(n - 1) PROVE queue'[c][i] = AtHand(c)' + i - 1
    <3>1. i + 1 \in 1..n
      BY <1>4
    <3>2. queue'[c][i] = queue[c][i + 1] /\ queue[c][i + 1] = AtHand(c) + (i + 1) - 1
      BY <1>4, <2>2, <3>1
    <3>. QED
      BY <1>6, <3>2
  <2>5. AtHand(c)' >= 1
    BY <1>6, <2>2
  <2>. QED
    BY <1>1, <1>4, <2>1, <2>3, <2>4, <2>5 DEF Queued
<1>11. FactoryKnows'
  BY <1>1, <1>5 DEF FactoryKnows, monitor, factory
<1>12. Heard'
  <2>1. ASSUME NEW p \in subscribed PROVE Due(p)' = Due(p)
    <3>1. ContextOf[p] \in Contexts /\ ~Called(p)'
      BY <1>1, Subscribed DEF Called
    <3>2. CASE ContextOf[p] = c
      <4>1. Called(p)
        BY <1>1, <1>2, <3>2 DEF Called, ToSet
      <4>. QED
        BY <1>6, <3>1, <3>2, <4>1 DEF Due
    <3>3. CASE ContextOf[p] # c
      BY <1>7, <3>1, <3>3 DEF Due, Called
    <3>. QED
      BY <3>2, <3>3
  <2>. QED
    BY <1>1, <2>1, HeardKept DEF clients
<1>13. Observing' /\ Notifying' /\ Raised' /\ Listed' /\ Known'
  BY <1>1, ObservingKept, NotifyingKept, RaisedKept, ListedKept, KnownKept
  DEF monitor, monRun, clients
<1>14. QueuesAttended'
  <2>1. \A d \in Contexts : queue'[d] # <<>> => queue[d] # <<>>
    BY <1>3, <1>4
  <2>. QED
    BY <1>1, <2>1 DEF QueuesAttended, monitor, monRun
<1>. QED
  BY <1>8, <1>9, <1>10, <1>11, <1>12, <1>13, <1>14

-----------------------------------------------------------------------------
(* The clients.                                                            *)

\* The list of a context changes while no client of it is called.
LEMMA ListChanged ==
  ASSUME Inv, NEW c \in Contexts, DbFree(c), NEW list \in Seq(Clients),
         db' = [db EXCEPT ![c] = list], Sorted(list),
         \A p \in ToSet(list) : p \in Clients /\ ContextOf[p] = c,
         c \in created \/ list = <<>>,
         UNCHANGED <<sent, stateEventsQueue, observers, notifying, created, queue, calling,
                     ctxRunning>>
  PROVE  /\ db' \in [Contexts -> Seq(Clients)] /\ Listed' /\ Calling'
         /\ subscribed' = (subscribed \ ToSet(db[c])) \cup ToSet(list)
         /\ \A p \in Clients : Due(p)' = Due(p)
<1>. USE DEF Inv
<1>1. /\ db' \in [Contexts -> Seq(Clients)] /\ db'[c] = list
      /\ \A d \in Contexts : d # c => db'[d] = db[d]
  BY DEF Types
<1>2. Listed'
  BY <1>1 DEF Listed
<1>3. calling # Nothing => ctxRunning # c
  BY DEF DbFree
<1>4. Calling'
  BY <1>1, <1>3 DEF Calling
<1>5. subscribed' = (subscribed \ ToSet(db[c])) \cup ToSet(list)
  <2>1. \A d \in Contexts : \A p \in ToSet(db[d]) : ContextOf[p] = d
    BY DEF Listed
  <2>2. \A p \in subscribed :
          p \notin ToSet(db[c]) => \E d \in Contexts : d # c /\ p \in ToSet(db[d])
    BY DEF subscribed
  <2>3. subscribed' \subseteq (subscribed \ ToSet(db[c])) \cup ToSet(list)
    BY <1>1, <2>1 DEF subscribed
  <2>4. ASSUME NEW p \in subscribed, p \notin ToSet(db[c]) PROVE p \in subscribed'
    BY <1>1, <2>2, <2>4 DEF subscribed
  <2>5. ToSet(list) \subseteq subscribed'
    BY <1>1 DEF subscribed
  <2>. QED
    BY <2>3, <2>4, <2>5
<1>6. \A d \in Contexts : AtHand(d)' = AtHand(d)
  BY PositionsKept
<1>7. \A p \in Clients : Due(p)' = Due(p)
  BY <1>6, ContextOfAssumption DEF Due, Called
<1>. QED
  BY <1>1, <1>2, <1>4, <1>5, <1>7

\* A client starts with nothing heard, and misses nothing raised from now on.
LEMMA RegisterInv ==
  ASSUME Inv, NEW p \in Clients, registerNotifyDeviceStateInfo(p)
  PROVE  Inv' /\ subscribed' = subscribed \cup {p}
<1>. USE DEF Inv
<1>. PICK c : c = ContextOf[p]
  OBVIOUS
<1>. PICK list : list = Insert(db[c], p)
  OBVIOUS
<1>1. /\ c \in created /\ p \notin subscribed /\ DbFree(c)
      /\ db' = [db EXCEPT ![c] = list]
      /\ received' = [received EXCEPT ![p] = <<>>]
      /\ since' = [since EXCEPT ![p] = sent]
      /\ UNCHANGED <<monitor, observers, monRun, factory, created, queue, ctxRun, busy>>
  BY DEF registerNotifyDeviceStateInfo, Types
<1>2. c \in Contexts /\ db[c] \in Seq(Clients) /\ Sorted(db[c])
  BY ContextOfAssumption DEF Types, Listed
<1>3. p \notin ToSet(db[c])
  BY <1>1, <1>2 DEF subscribed
<1>4. list \in Seq(Clients) /\ ToSet(list) = ToSet(db[c]) \cup {p} /\ Sorted(list)
  BY <1>2, <1>3, InsertKeeps
<1>5. \A q \in ToSet(list) : q \in Clients /\ ContextOf[q] = c
  BY <1>2, <1>4 DEF Listed
<1>6. UNCHANGED <<sent, stateEventsQueue, observers, notifying, created, queue, calling,
                  ctxRunning>>
  BY <1>1 DEF monitor, monRun, ctxRun
<1>7. /\ db' \in [Contexts -> Seq(Clients)] /\ Listed' /\ Calling'
      /\ subscribed' = (subscribed \ ToSet(db[c])) \cup ToSet(list)
      /\ \A q \in Clients : Due(q)' = Due(q)
  BY <1>1, <1>2, <1>4, <1>5, <1>6, ListChanged
<1>8. ToSet(db[c]) \subseteq subscribed
  BY <1>2 DEF subscribed
<1>9. subscribed' = subscribed \cup {p}
  BY <1>4, <1>7, <1>8
<1>10. /\ received' \in [Clients -> Seq(Nat)] /\ since' \in [Clients -> Nat]
       /\ received'[p] = <<>> /\ since'[p] = sent /\ sent \in Nat
       /\ \A q \in Clients : q # p => received'[q] = received[q] /\ since'[q] = since[q]
  BY <1>1 DEF Types
<1>11. ToSet(received'[p]) = {}
  BY <1>10 DEF ToSet
<1>12. Types'
  BY <1>1, <1>7, <1>10 DEF Types, monitor, monRun, factory, ctxRun
<1>13. Heard'
  <2>1. Due(p) \in Int /\ Due(p) <= sent + 1
    <3>1. ~Called(p)
      BY <1>1 DEF DbFree, Called
    <3>2. /\ AtHand(c) \in Int /\ AtHand(c) + Len(queue[c]) = Coming(c)
          /\ Coming(c) \in Nat /\ Coming(c) <= sent + 1
      BY <1>2, Numbers, ComingRaised
    <3>3. Len(queue[c]) \in Nat
      BY <1>2 DEF Types
    <3>. QED
      BY <1>10, <3>1, <3>2, <3>3 DEF Due
  <2>2. /\ received'[p] # <<>> => Last(received'[p]) = Due(p)' - 1
        /\ \A e \in ToSet(received'[p]) : e < Due(p)'
        /\ \A e \in Nat : since'[p] < e /\ e < Due(p)' => e \in ToSet(received'[p])
    BY <1>7, <1>10, <1>11, <2>1
  <2>3. ASSUME NEW q \in subscribed
        PROVE  /\ received'[q] # <<>> => Last(received'[q]) = Due(q)' - 1
               /\ \A e \in ToSet(received'[q]) : e < Due(q)'
               /\ \A e \in Nat : since'[q] < e /\ e < Due(q)' => e \in ToSet(received'[q])
    <3>1. q \in Clients /\ q # p
      BY <1>1, Subscribed
    <3>. QED
      BY <1>7, <1>10, <3>1 DEF Heard
  <2>. QED
    BY <1>9, <2>2, <2>3 DEF Heard
<1>14. Known'
  <2>1. ASSUME NEW q \in Clients, NEW e \in ToSet(received'[q])
        PROVE  e <= factorySince \/ e <= factorySeen
    BY <1>10, <1>11 DEF Known
  <2>. QED
    BY <1>1, <2>1 DEF Known, factory
<1>15. \A d \in Contexts : AtHand(d)' = AtHand(d)
  BY <1>6, PositionsKept
<1>16. Observing' /\ Notifying' /\ Raised' /\ Queued' /\ FactoryKnows'
  BY <1>1, <1>6, <1>15, ObservingKept, NotifyingKept, RaisedKept, QueuedKept,
     FactoryKnowsKept
<1>17. QueuesAttended'
  BY <1>1 DEF QueuesAttended, monitor, monRun, ctxRun
<1>. QED
  BY <1>7, <1>9, <1>12, <1>13, <1>14, <1>16, <1>17

LEMMA UnRegisterInv ==
  ASSUME Inv, NEW p \in Clients, unRegisterNotifyDeviceStateInfo(p)
  PROVE  Inv' /\ subscribed' = subscribed \ {p}
<1>. USE DEF Inv
<1>. PICK c : c = ContextOf[p]
  OBVIOUS
<1>. PICK list : list = RemoveFirst(db[c], p)
  OBVIOUS
<1>1. /\ p \in subscribed /\ DbFree(c)
      /\ db' = [db EXCEPT ![c] = list]
      /\ UNCHANGED <<monitor, observers, monRun, factory, created, queue, ctxRun,
                     busy, received, since>>
  BY DEF unRegisterNotifyDeviceStateInfo, Types
<1>2. /\ c \in Contexts /\ c \in created /\ p \in ToSet(db[c])
      /\ db[c] \in Seq(Clients) /\ Sorted(db[c])
  BY <1>1, Subscribed DEF Types, Listed
<1>3. list \in Seq(Clients) /\ ToSet(list) = ToSet(db[c]) \ {p} /\ Sorted(list)
  BY <1>2, EraseKeeps
<1>4. \A q \in ToSet(list) : q \in Clients /\ ContextOf[q] = c
  BY <1>2, <1>3 DEF Listed
<1>5. UNCHANGED <<sent, stateEventsQueue, observers, notifying, created, queue, calling,
                  ctxRunning>>
  BY <1>1 DEF monitor, monRun, ctxRun
<1>6. /\ db' \in [Contexts -> Seq(Clients)] /\ Listed' /\ Calling'
      /\ subscribed' = (subscribed \ ToSet(db[c])) \cup ToSet(list)
      /\ \A q \in Clients : Due(q)' = Due(q)
  BY <1>1, <1>2, <1>3, <1>4, <1>5, ListChanged
<1>7. ToSet(db[c]) \subseteq subscribed
  BY <1>2 DEF subscribed
<1>8. subscribed' = subscribed \ {p}
  BY <1>2, <1>3, <1>6, <1>7
<1>9. Types'
  BY <1>1, <1>6 DEF Types, monitor, monRun, factory, ctxRun
<1>10. Heard'
  <2>1. \A q \in subscribed : q \in Clients
    BY Subscribed
  <2>. QED
    BY <1>1, <1>6, <1>8, <2>1 DEF Heard
<1>11. \A d \in Contexts : AtHand(d)' = AtHand(d)
  BY <1>5, PositionsKept
<1>12. Observing' /\ Notifying' /\ Raised' /\ Queued' /\ FactoryKnows' /\ Known'
  BY <1>1, <1>5, <1>11, ObservingKept, NotifyingKept, RaisedKept, QueuedKept,
     FactoryKnowsKept, KnownKept
<1>13. QueuesAttended'
  BY <1>1 DEF QueuesAttended, monitor, monRun, ctxRun
<1>. QED
  BY <1>6, <1>8, <1>9, <1>10, <1>12, <1>13

\* Whether the application holds the mutex of a client moves no event.
LEMMA BusyInv ==
  ASSUME Inv, NEW p \in Clients, beginCall(p) \/ endCall(p)
  PROVE  Inv'
<1>1. UNCHANGED <<monitor, observers, monRun, factory, created, queue, ctxRun, db,
                  received, since>>
  BY DEF beginCall, endCall
<1>2. Types' /\ QueuesAttended'
  BY <1>1 DEF Inv, Types, QueuesAttended, monitor, monRun, factory, ctxRun
<1>. QED
  BY <1>1, <1>2, Aside DEF monitor, monRun, ctxRun

-----------------------------------------------------------------------------
(* The theorems.                                                           *)

LEMMA NextInv == Inv /\ [Next]_vars => Inv'
<1>. SUFFICES ASSUME Inv, [Next]_vars PROVE Inv'
  OBVIOUS
<1>1. CASE UNCHANGED vars
  <2>1. Types' /\ QueuesAttended'
    BY <1>1
    DEF Inv, Types, QueuesAttended, vars, monitor, monRun, factory, ctxRun, clients
  <2>. QED
    BY <1>1, <2>1, Aside DEF vars, monitor, monRun, ctxRun, clients
<1>2. CASE \E t \in Producers : pushEvent(t) \/ monitorReady(t)
  BY <1>2, PushEventInv, NotifyReadyInv
<1>3. CASE MonitorRun
  BY <1>3, MonStartInv, ProcessEventsInv, NotifyFactoryInv, NotifyDeviceEventInv,
     ContextReadyInv, PopEventInv, MonFinishInv
  DEF MonitorRun
<1>4. CASE ContextRun
  BY <1>4, CtxStartInv, CallClientsInv, NotifyDeviceStateInfoInv, ContextPopInv,
     CtxFinishInv DEF ContextRun
<1>5. CASE registerPriorityDeviceObserver
  BY <1>5, RegisterPriorityDeviceObserverInv
<1>6. CASE \E c \in Contexts : registerDeviceObserver(c) \/ createContext(c)
  BY <1>6, RegisterDeviceObserverInv, CreateContextInv
<1>7. CASE \E p \in Clients :
             \/ registerNotifyDeviceStateInfo(p) \/ unRegisterNotifyDeviceStateInfo(p)
             \/ beginCall(p) \/ endCall(p)
  BY <1>7, RegisterInv, UnRegisterInv, BusyInv
<1>. QED
  BY <1>1, <1>2, <1>3, <1>4, <1>5, <1>6, <1>7 DEF Next

LEMMA Invariance == Spec => []Inv
<1>. QED
  BY InitInv, NextInv, PTL DEF Spec

\* When a client hears of an event the factory has already opened or closed the
\* device, or had not come yet when the event was raised.
THEOREM FactoryHearsFirst == Spec => []FactoryFirst
<1>1. Inv => FactoryFirst
  <2>. SUFFICES ASSUME Inv, NEW p \in Clients, NEW e \in ToSet(received[p]), e > factorySince
                PROVE  factorySeen >= e
    BY DEF FactoryFirst
  <2>1. received[p] \in Seq(Nat) /\ factorySince \in Nat /\ factorySeen \in Nat
    BY DEF Inv, Types
  <2>2. e \in Nat
    BY <2>1, SeqElements
  <2>3. e <= factorySince \/ e <= factorySeen
    BY DEF Inv, Known
  <2>. QED
    BY <2>1, <2>2, <2>3
<1>. QED
  BY <1>1, Invariance, PTL

\* Among the clients of a context those of a higher priority hear first.
THEOREM HigherPriorityHearsFirst == Spec => []PriorityFirst
<1>1. Inv => PriorityFirst
  <2>. SUFFICES ASSUME Inv, NEW p \in subscribed, NEW q \in subscribed,
                       ContextOf[p] = ContextOf[q], Priority[p] > Priority[q],
                       NEW e \in ToSet(received[q]), e > since[p]
                PROVE  e \in ToSet(received[p])
    BY DEF PriorityFirst
  <2>. USE DEF Inv
  <2>1. /\ p \in Clients /\ q \in Clients /\ ContextOf[p] \in Contexts
        /\ p \in ToSet(db[ContextOf[p]]) /\ q \in ToSet(db[ContextOf[p]])
    BY Subscribed
  <2>2. /\ received[q] \in Seq(Nat) /\ since[p] \in Nat
        /\ Priority[p] \in Nat /\ Priority[q] \in Nat
    BY <2>1, PriorityAssumption DEF Types
  <2>3. e \in Nat
    BY <2>2, SeqElements
  <2>4. AtHand(ContextOf[p]) \in Int
    BY <2>1, Numbers
  <2>5. Called(q) => Called(p)
    <3>. SUFFICES ASSUME Called(q), p \in ToSet(calling) PROVE FALSE
      BY DEF Called
    <3>1. Priority[q] >= Priority[p]
      BY <2>1 DEF Called, Calling
    <3>. QED
      BY <2>2, <3>1
  <2>6. Due(q) <= Due(p) /\ Due(p) \in Int /\ Due(q) \in Int
    BY <2>4, <2>5 DEF Due
  <2>7. e < Due(q)
    BY DEF Heard
  <2>8. e < Due(p)
    BY <2>3, <2>6, <2>7
  <2>. QED
    BY <2>2, <2>3, <2>8 DEF Heard
<1>. QED
  BY <1>1, Invariance, PTL

\* No request to run is lost: a queue that holds an event will be looked at.
THEOREM RequestsToRunAreKept == Spec => []QueuesAttended
<1>1. Inv => QueuesAttended
  BY DEF Inv
<1>. QED
  BY <1>1, Invariance, PTL

\* A step is one of the broadcast, or moves an event from one queue to another.
LEMMA NextBroadcasts == Inv /\ [Next]_vars => [Broadcast!Next]_Broadcast!vars
<1>. SUFFICES ASSUME Inv, [Next]_vars
              PROVE  Broadcast!Next \/ UNCHANGED <<sent, received, subscribed>>
  BY DEF Broadcast!vars
<1>1. ASSUME UNCHANGED <<sent, db, received>>
      PROVE  UNCHANGED <<sent, received, subscribed>>
  BY <1>1 DEF subscribed
<1>2. CASE UNCHANGED vars
  BY <1>1, <1>2 DEF vars, monitor, clients
<1>3. ASSUME NEW t \in Producers, pushEvent(t)
      PROVE  Broadcast!Next
  <2>1. sent' = sent + 1 /\ received' = received /\ db' = db
    BY <1>3 DEF pushEvent, clients
  <2>2. Broadcast!Send
    BY <2>1 DEF Broadcast!Send, subscribed
  <2>. QED
    BY <2>2 DEF Broadcast!Next
<1>4. ASSUME NEW t \in Producers, monitorReady(t)
      PROVE  UNCHANGED <<sent, received, subscribed>>
  BY <1>1, <1>4 DEF monitorReady, clients
<1>5. CASE MonitorRun
  BY <1>1, <1>5
  DEF MonitorRun, monStart, processEvents, notifyFactory, notifyDeviceEvent, contextReady,
      popEvent, monFinish, monitor, clients
<1>6. CASE ContextRun /\ ~notifyDeviceStateInfo
  BY <1>1, <1>6
  DEF ContextRun, ctxStart, callClients, contextPop, ctxFinish, monitor, clients
<1>7. CASE notifyDeviceStateInfo
  <2>. PICK p : p = Head(calling)
    OBVIOUS
  <2>. PICK c : c = ctxRunning
    OBVIOUS
  <2>1. /\ received' = [received EXCEPT ![p] = Append(@, Head(queue[c]))]
        /\ sent' = sent /\ db' = db
    BY <1>7 DEF notifyDeviceStateInfo, monitor
  <2>2. /\ p \in Clients /\ p \in subscribed
        /\ Head(queue[c]) = AtHand(c) /\ Due(p) = AtHand(c) /\ AtHand(c) \in 1..sent
    BY <1>7, NextClient
  <2>3. received[p] # <<>> => Last(received[p]) = AtHand(c) - 1
    BY <2>2 DEF Inv, Heard
  <2>4. AtHand(c) \in Int
    BY <2>2
  <2>5. received[p] # <<>> => AtHand(c) = Last(received[p]) + 1
    BY <2>3, <2>4
  <2>6. subscribed' = subscribed
    BY <2>1 DEF subscribed
  <2>7. Broadcast!Deliver(p)
    <3>. PICK e : e = AtHand(c)
      OBVIOUS
    <3>1. /\ e \in 1..sent /\ received[p] # <<>> => e = Last(received[p]) + 1
          /\ received' = [received EXCEPT ![p] = Append(@, e)]
      BY <2>1, <2>2, <2>5
    <3>. QED
      BY <2>1, <2>2, <2>6, <3>1 DEF Broadcast!Deliver, Broadcast!Last, Last
  <2>. QED
    BY <2>2, <2>7 DEF Broadcast!Next
<1>8. CASE registerPriorityDeviceObserver
  BY <1>1, <1>8 DEF registerPriorityDeviceObserver, monitor, clients
<1>9. CASE \E c \in Contexts : registerDeviceObserver(c) \/ createContext(c)
  BY <1>1, <1>9 DEF registerDeviceObserver, createContext, monitor, clients
<1>10. ASSUME NEW p \in Clients, registerNotifyDeviceStateInfo(p)
       PROVE  Broadcast!Next
  <2>1. subscribed' = subscribed \cup {p}
    BY <1>10, RegisterInv
  <2>2. Broadcast!Subscribe(p)
    BY <1>10, <2>1 DEF registerNotifyDeviceStateInfo, Broadcast!Subscribe, monitor
  <2>. QED
    BY <2>2 DEF Broadcast!Next
<1>11. ASSUME NEW p \in Clients, unRegisterNotifyDeviceStateInfo(p)
       PROVE  Broadcast!Next
  <2>1. subscribed' = subscribed \ {p}
    BY <1>11, UnRegisterInv
  <2>2. Broadcast!Unsubscribe(p)
    BY <1>11, <2>1 DEF unRegisterNotifyDeviceStateInfo, Broadcast!Unsubscribe, monitor
  <2>. QED
    BY <2>2 DEF Broadcast!Next
<1>12. ASSUME NEW p \in Clients, beginCall(p) \/ endCall(p)
       PROVE  UNCHANGED <<sent, received, subscribed>>
  BY <1>1, <1>12 DEF beginCall, endCall, monitor
<1>. QED
  BY <1>2, <1>3, <1>4, <1>5, <1>6, <1>7, <1>8, <1>9, <1>10, <1>11, <1>12
  DEF Next, ContextRun

\* Two queues, two workqueues and a list that changes deliver like one queue:
\* in order, without a gap, none twice, and to subscribed clients only.
THEOREM BroadcastRefined == Spec => ImplementsBroadcast
<1>1. Init => Broadcast!Init
  <2>. SUFFICES ASSUME Init PROVE Broadcast!Init
    OBVIOUS
  <2>1. subscribed = {}
    <3>1. \A s : s = <<>> => ToSet(s) = {}
      BY DEF ToSet
    <3>. QED
      BY <3>1 DEF Init, subscribed
  <2>. QED
    BY <2>1 DEF Init, Broadcast!Init
<1>. QED
  BY <1>1, Invariance, NextBroadcasts, PTL DEF Spec, ImplementsBroadcast, Broadcast!Spec

=============================================================================
