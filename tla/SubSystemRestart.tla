-------------------------- MODULE SubSystemRestart --------------------------
(***************************************************************************)
(* How QDeviceStateMonitor watches a subsystem of the device restart       *)
(* (lib/runtime-platform/src/os/linux/QDeviceStateMonitor.cpp).  When a    *)
(* virtual channel goes down the monitor thread starts a timer thread that *)
(* sleeps, looks at what became of the channel, and raises an expiry event *)
(* if it did not come back.  Timers of one channel may overlap.            *)
(*                                                                         *)
(* A timer thread and the monitor thread share vcStatusMap_ and threadMap_, *)
(* each under a mutex of its own; only the monitor releases one mutex and  *)
(* takes another within a call, which is why VC_DOWN takes two steps.      *)
(***************************************************************************)
EXTENDS Integers, FiniteSets

CONSTANTS
  VCs,          \* pairs of a device and a virtual channel
  Timers,       \* timer threads; bound: those that exist at a time
  Nobody,
  Duration,     \* subSystemRestartWaitDuration
  MaxTime,      \* bound of the clock
  Prompt,       \* do timers run the moment they wake?
  Apart         \* do two VC_DOWN of a channel lie a tick apart?

ASSUME NobodyAssumption == Nobody \notin Timers
ASSUME TimersAssumption == IsFiniteSet(Timers)
ASSUME TimeAssumption == Duration \in Nat \ {0} /\ MaxTime \in Nat
ASSUME ModeAssumption == Prompt \in BOOLEAN /\ Apart \in BOOLEAN

VARIABLES
  now,          \* system_clock
  vcStatus,     \* vcStatusMap_: event and time of each channel, or NoEntry
  timer,        \* what each timer thread does, for which channel, until when
  threadMap,    \* threadMap_: the status recorded for each thread, or "none"
  starting,     \* the timer that is started and not yet in threadMap_
  life,         \* "running", "stopping", "joining" or "destroyed"
  isDown, downSince,  \* history: each channel as the last event left it
  expired       \* history: expiry events of the outage that started last

restartVars == <<now, vcStatus, timer, threadMap, starting, life, isDown, downSince, expired>>
history == <<isDown, downSince, expired>>

\* Outages start after the epoch of the clock, by more than Duration.
Start == Duration + 1
Times == 0..(Start + MaxTime)

NoEntry == [event |-> "none", at |-> 0]
\* What operator[] of the map inserts: no event, at the epoch.
DefaultEntry == [event |-> "INVALID_EVENT", at |-> 0]
Idle == [at |-> "free", vc |-> Nobody, wake |-> 0]

\* vcStatusMapMutex_ is held from the start of a timer to its entry.
MapFree == starting = Nobody
Stopped == life # "running"

-----------------------------------------------------------------------------
(* The monitor thread.                                                     *)

\* processDeviceStateInfo(VC_DOWN): the time is noted and a timer started ...
vcDown(v, t) ==
  /\ ~Stopped /\ MapFree
  /\ timer[t].at = "free" /\ now <= Start + MaxTime - Duration
  /\ Apart => downSince[v] < now
  /\ vcStatus' = [vcStatus EXCEPT ![v] = [event |-> "VC_DOWN", at |-> now]]
  /\ timer' = [timer EXCEPT ![t] = [at |-> "sleeping", vc |-> v, wake |-> now + Duration]]
  /\ starting' = t
  /\ isDown' = [isDown EXCEPT ![v] = TRUE]
  /\ downSince' = [downSince EXCEPT ![v] = now]
  /\ expired' = [expired EXCEPT ![v] = 0]
  /\ UNCHANGED <<now, threadMap, life>>

\* ... then it is entered in threadMap_, over an entry the thread may have made
\* itself by now, and the threads that are finished are joined and removed.
enterThread ==
  /\ starting # Nobody
  /\ LET entered == [threadMap EXCEPT ![starting] = "THREAD_RUNNING"]
         finished == {t \in Timers : entered[t] = "THREAD_FINISHED"}
     IN /\ threadMap' = [t \in Timers |-> IF t \in finished THEN "none" ELSE entered[t]]
        /\ timer' = [t \in Timers |-> IF t \in finished THEN Idle ELSE timer[t]]
  /\ starting' = Nobody
  /\ UNCHANGED <<now, vcStatus, life, history>>

\* processDeviceStateInfo(VC_UP).
vcUp(v) ==
  /\ ~Stopped /\ MapFree
  /\ vcStatus' = IF vcStatus[v] = NoEntry THEN vcStatus
                 ELSE [vcStatus EXCEPT ![v].event = "VC_UP"]
  /\ isDown' = [isDown EXCEPT ![v] = FALSE]
  /\ UNCHANGED <<now, timer, threadMap, starting, life, downSince, expired>>

-----------------------------------------------------------------------------
(* A timer thread: waitForSubSystemRestart.                                *)

\* Once a second it looks whether it is to stop; the entry it makes may come
\* before the one of the monitor thread.
stopTimer(t) ==
  /\ timer[t].at = "sleeping" /\ Stopped
  /\ timer' = [timer EXCEPT ![t].at = "ended"]
  /\ threadMap' = [threadMap EXCEPT ![t] = "THREAD_FINISHED"]
  /\ UNCHANGED <<now, vcStatus, starting, life, history>>

\* Awake, with vcStatusMapMutex_; reading the time makes an entry if none is there.
Awake(t) ==
  /\ timer[t].at = "sleeping" /\ now >= timer[t].wake /\ MapFree
  /\ timer' = [timer EXCEPT ![t].at = "ended"]
  /\ UNCHANGED <<now, starting, life, isDown, downSince>>

Entry(v) == IF vcStatus[v] = NoEntry THEN DefaultEntry ELSE vcStatus[v]
Elapsed(v) == now - Entry(v).at

finish(t) == threadMap' = [threadMap EXCEPT ![t] = "THREAD_FINISHED"]

\* The channel came back.
restarted(t) ==
  LET v == timer[t].vc IN
  /\ Awake(t) /\ Entry(v).event = "VC_UP" /\ Elapsed(v) >= Duration
  /\ vcStatus' = [vcStatus EXCEPT ![v] = NoEntry]
  /\ finish(t)
  /\ UNCHANGED expired

\* Fault: a timer that is not the last one raises its event as well.
superseded_Raises(t) ==
  LET v == timer[t].vc IN
  /\ Awake(t) /\ Elapsed(v) < Duration
  /\ vcStatus' = [vcStatus EXCEPT ![v] = Entry(v)]
  /\ expired' = [expired EXCEPT ![v] = @ + 1]
  /\ finish(t)

\* It went down again and another timer watches it; the thread just returns.
superseded(t) ==
  LET v == timer[t].vc IN
  /\ Awake(t) /\ Elapsed(v) < Duration
  /\ vcStatus' = [vcStatus EXCEPT ![v] = Entry(v)]
  /\ UNCHANGED <<threadMap, expired>>

\* Fault: a timer gives up when it wakes on the second.
expire_Strict(t) ==
  LET v == timer[t].vc IN
  /\ Awake(t) /\ Entry(v).event # "VC_UP" /\ Elapsed(v) >= Duration
  /\ vcStatus' = [vcStatus EXCEPT ![v] = Entry(v)]
  /\ expired' = [expired EXCEPT ![v] = IF Elapsed(v) > Duration THEN @ + 1 ELSE @]
  /\ finish(t)

\* It did not come back: VC_UP_WAIT_TIMER_EXPIRY.
expire(t) ==
  LET v == timer[t].vc IN
  /\ Awake(t) /\ Entry(v).event # "VC_UP" /\ Elapsed(v) >= Duration
  /\ vcStatus' = [vcStatus EXCEPT ![v] = Entry(v)]
  /\ expired' = [expired EXCEPT ![v] = @ + 1]
  /\ finish(t)

-----------------------------------------------------------------------------
tick ==
  /\ now < Start + MaxTime
  /\ Prompt => \A t \in Timers : timer[t].at = "sleeping" => now < timer[t].wake
  /\ now' = now + 1
  /\ UNCHANGED <<vcStatus, timer, threadMap, starting, life, history>>

(* The destructor.                                                         *)

destroy ==
  /\ life = "running"
  /\ life' = "stopping"
  /\ UNCHANGED <<now, vcStatus, timer, threadMap, starting, history>>

\* The monitor thread ends after the event it is in.
joinMonitor ==
  /\ life = "stopping" /\ starting = Nobody
  /\ life' = "joining"
  /\ UNCHANGED <<now, vcStatus, timer, threadMap, starting, history>>

\* The destructor waits for every thread in threadMap_ to be marked.
joinTimers ==
  /\ life = "joining"
  /\ \A t \in Timers : threadMap[t] # "THREAD_RUNNING"
  /\ life' = "destroyed"
  /\ UNCHANGED <<now, vcStatus, timer, threadMap, starting, history>>

-----------------------------------------------------------------------------
RestartInit ==
  /\ now = Start
  /\ vcStatus = [v \in VCs |-> NoEntry]
  /\ timer = [t \in Timers |-> Idle]
  /\ threadMap = [t \in Timers |-> "none"]
  /\ starting = Nobody /\ life = "running"
  /\ isDown = [v \in VCs |-> FALSE]
  /\ downSince = [v \in VCs |-> 0]
  /\ expired = [v \in VCs |-> 0]

TimerStep(t) == stopTimer(t) \/ restarted(t) \/ superseded(t) \/ expire(t)

RestartNext ==
  \/ \E v \in VCs : vcUp(v) \/ \E t \in Timers : vcDown(v, t)
  \/ enterThread
  \/ \E t \in Timers : TimerStep(t)
  \/ tick \/ destroy \/ joinMonitor \/ joinTimers

RestartSpec == RestartInit /\ [][RestartNext]_restartVars

\* Threads are scheduled, time passes, and a destructor goes on.
FairRestartSpec ==
  /\ RestartSpec
  /\ WF_restartVars(enterThread) /\ WF_restartVars(tick)
  /\ \A t \in Timers : SF_restartVars(TimerStep(t))
  /\ WF_restartVars(joinMonitor) /\ WF_restartVars(joinTimers)

-----------------------------------------------------------------------------
(* Properties.                                                             *)

\* Every variable has its type, and a thread in threadMap_ was started.
RestartTypeOK ==
  /\ now \in Times
  /\ vcStatus \in [VCs -> [event : {"none", "INVALID_EVENT", "VC_DOWN", "VC_UP"}, at : Times]]
  /\ timer \in [Timers -> [at : {"free", "sleeping", "ended"},
                           vc : VCs \cup {Nobody}, wake : Times]]
  /\ threadMap \in [Timers -> {"none", "THREAD_RUNNING", "THREAD_FINISHED"}]
  /\ starting \in Timers \cup {Nobody}
  /\ life \in {"running", "stopping", "joining", "destroyed"}
  /\ expired \in [VCs -> 0..Cardinality(Timers)]
  /\ \A t \in Timers : threadMap[t] # "none" => timer[t].at # "free"

\* The expiry event is raised for a channel that is down and was all the time,
\* once for an outage.
ExpiryJustified ==
  [][\A v \in VCs :
       expired'[v] > expired[v] =>
         isDown[v] /\ now - downSince[v] >= Duration /\ expired[v] = 0]_restartVars

\* With timers that wake in time, an outage that lasts is reported in time,
\* whatever happened to the channel before.
OutageReported ==
  \A v \in VCs :
    Prompt /\ life = "running" /\ isDown[v] /\ now > downSince[v] + Duration => expired[v] > 0

-----------------------------------------------------------------------------
(* What the comments say and the code does not do.                         *)

\* The event is raised if VC_UP is not received within the duration, so not for
\* a channel that came back.
ExpiryOnlyWhenDown == [][\A v \in VCs : expired'[v] > expired[v] => isDown[v]]_restartVars

\* The destructor signals the threads to terminate, so it ends.
DestructorEnds == life = "stopping" ~> life = "destroyed"

=============================================================================
