----------------------------- MODULE Workqueue -----------------------------
(***************************************************************************)
(* A workqueue (lib/runtime-platform/src/QWorkqueueProcessor.cpp) and the  *)
(* elements that use it (QWorkqueueElement.cpp).  Any thread may ask for an *)
(* element to run; one thread of the processor runs what is asked for.     *)
(* mutex_ is held between two steps by nobody: a step is what one thread   *)
(* does from taking it to releasing it.                                    *)
(***************************************************************************)
EXTENDS Naturals, Sequences, FiniteSets, SequencesExt

CONSTANTS
  Elements, NoElement,
  MaxPending          \* bound: requests in the queue

ASSUME NoElementAssumption == NoElement \notin Elements
ASSUME MaxPendingAssumption == MaxPending \in Nat

VARIABLES
  workQueue,          \* workQueue_
  ready, terminate,   \* ready_, terminate_
  worker,             \* where the processor's thread is
  running,            \* the element whose run() it is in
  alive               \* elements that are not destroyed

workqueueVars == <<workQueue, ready, terminate, worker, running, alive>>

-----------------------------------------------------------------------------
\* QWorkqueueElement::notifyReady.
notifyReady(e) ==
  /\ e \in alive /\ Len(workQueue) < MaxPending
  /\ workQueue' = Append(workQueue, e)
  /\ ready' = TRUE
  /\ UNCHANGED <<terminate, worker, running, alive>>

\* Fault: the request that came last is taken first.
Pop_Last ==
  /\ workQueue # <<>>
  /\ running' = Last(workQueue) /\ workQueue' = Front(workQueue)
  /\ worker' = "executing"
  /\ UNCHANGED <<ready, terminate, alive>>

Pop ==
  /\ workQueue # <<>>
  /\ running' = Head(workQueue) /\ workQueue' = Tail(workQueue)
  /\ worker' = "executing"
  /\ UNCHANGED <<ready, terminate, alive>>

\* The wait polls, so a request or a termination is seen even if no signal is.
wake == worker = "waiting" /\ ready /\ ~terminate /\ Pop

\* run() of the element, with no lock held.
execute ==
  /\ worker = "executing"
  /\ worker' = "relocking" /\ running' = NoElement
  /\ UNCHANGED <<workQueue, ready, terminate, alive>>

\* Everything in the queue is run before terminate_ is looked at again.
next == worker = "relocking" /\ Pop

\* Fault: ready_ is reset after each request.
drained_TooSoon ==
  /\ \/ worker = "waiting" /\ ready /\ ~terminate /\ workQueue = <<>>
     \/ worker = "relocking"
  /\ ready' = FALSE /\ worker' = "waiting"
  /\ UNCHANGED <<workQueue, terminate, running, alive>>

drained ==
  /\ workQueue = <<>>
  /\ worker = "relocking" \/ (worker = "waiting" /\ ready /\ ~terminate)
  /\ ready' = FALSE /\ worker' = "waiting"
  /\ UNCHANGED <<workQueue, terminate, running, alive>>

\* Fault: only a thread that has something to do looks at terminate_.
exit_WhenReady ==
  /\ worker = "waiting" /\ ready /\ terminate
  /\ worker' = "exited"
  /\ UNCHANGED <<workQueue, ready, terminate, running, alive>>

exit ==
  /\ worker = "waiting" /\ terminate
  /\ worker' = "exited"
  /\ UNCHANGED <<workQueue, ready, terminate, running, alive>>

\* wqDeletePendingRequests: what others asked for stays, in order.
cleanup(e) ==
  /\ e \in alive
  /\ LET others == {i \in DOMAIN workQueue : workQueue[i] # e} IN
       \E left \in [1..Cardinality(others) -> others] :
         /\ \A i, j \in DOMAIN left : i < j => left[i] < left[j]
         /\ workQueue' = [i \in DOMAIN left |-> workQueue[left[i]]]
  /\ UNCHANGED <<ready, terminate, worker, running, alive>>

\* ~QWorkqueueElement: the call of cleanup() is commented out.
destroyElement(e) ==
  /\ e \in alive
  /\ alive' = alive \ {e}
  /\ UNCHANGED <<workQueue, ready, terminate, worker, running>>

\* ~QWorkqueueProcessor, when no element holds the processor any more.
terminateProcessor ==
  /\ alive = {} /\ ~terminate
  /\ terminate' = TRUE
  /\ UNCHANGED <<workQueue, ready, worker, running, alive>>

Exited == worker = "exited" /\ UNCHANGED workqueueVars

-----------------------------------------------------------------------------
WorkqueueInit ==
  /\ workQueue = <<>> /\ ready = FALSE /\ terminate = FALSE
  /\ worker = "waiting" /\ running = NoElement
  /\ alive = Elements

WorkerStep == wake \/ execute \/ next \/ drained \/ exit

WorkqueueNext ==
  \/ \E e \in Elements : notifyReady(e) \/ cleanup(e) \/ destroyElement(e)
  \/ WorkerStep \/ terminateProcessor \/ Exited

WorkqueueSpec == WorkqueueInit /\ [][WorkqueueNext]_workqueueVars

\* The thread of the processor is scheduled.
FairWorkqueueSpec == WorkqueueSpec /\ WF_workqueueVars(WorkerStep)

-----------------------------------------------------------------------------
\* Every variable has its type, and the thread is in an element exactly while
\* it executes.
WorkqueueTypeOK ==
  /\ workQueue \in Seq(Elements)
  /\ ready \in BOOLEAN /\ terminate \in BOOLEAN
  /\ worker \in {"waiting", "executing", "relocking", "exited"}
  /\ running \in Elements \cup {NoElement}
  /\ alive \subseteq Elements
  /\ worker = "executing" <=> running # NoElement

\* A request never sits in the queue while the thread waits for ready_: the
\* flag is reset only when the queue was seen empty under the same lock.
NothingForgotten ==
  workQueue # <<>> /\ worker = "waiting" => ready

\* The processor keeps what a workqueue promises: order, one at a time, and
\* every request runs.
Service == 
  INSTANCE WorkqueueService WITH Nothing <- NoElement, pending <- workQueue, closed <- terminate
ImplementsService == Service!Spec

\* A processor that is told to stop does stop, though the flag is set without the
\* mutex and the signal may come before the wait.  A thread that is going through
\* the queue empties it first; one that was waiting leaves what is queued.
Terminates == terminate ~> worker = "exited"

\* QWorkqueueProcessor.h expects the destructor of an element to call cleanup():
\* then no element that is gone would be run.
RunsLiveElements ==
  [][worker' = "executing" /\ worker # "executing" => running' \in alive]_workqueueVars

=============================================================================
