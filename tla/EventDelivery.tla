--------------------------- MODULE EventDelivery ---------------------------
(***************************************************************************)
(* The way of a device event from the monitor to the programs:             *)
(*   - the monitor queues it (stateEventsQueue_) and asks its workqueue to *)
(*     run it (lib/runtime-platform/src/os/linux/QDeviceStateMonitor.cpp); *)
(*   - run() notifies every observer under deviceObserversMtx_: the device *)
(*     factory first, then the contexts, which queue it again              *)
(*     (lib/core/src/QContext.cpp) and ask another workqueue;              *)
(*   - run() of a context calls its clients, the QProgramDevices, by       *)
(*     priority, under notifyDeviceStateInfoPriorityDbMutex_.              *)
(* Both workqueues are instances of WorkqueueService, which Workqueue is   *)
(* shown to implement.  A step is what happens under one lock.             *)
(***************************************************************************)
EXTENDS Naturals, Sequences, FiniteSets, SequencesExt

CONSTANTS
  Contexts, Clients,
  ContextOf,           \* [Clients -> Contexts]
  Priority,            \* [Clients -> Nat], higher is called first
  Factory, Monitor, Nothing,
  Producers,           \* threads that raise events: the udev thread, the timers
  MaxEvents            \* bound: events raised

ASSUME ContextOfAssumption == ContextOf \in [Clients -> Contexts]
ASSUME PriorityAssumption == Priority \in [Clients -> Nat]
ASSUME FactoryAssumption == Factory \notin Contexts
ASSUME NothingAssumption ==
  Nothing \notin Contexts \cup {Monitor} \cup Seq(Contexts \cup {Factory}) \cup Seq(Clients)
ASSUME MaxEventsAssumption == MaxEvents \in Nat

VARIABLES
  sent,                  \* number of events raised
  raising,               \* producers between the push and notifyReady()
  stateEventsQueue,      \* QDeviceStateMonitor
  observers,             \* deviceObservers_
  monPending, monRunning,    \* DEVICE_STATE_WORKQUEUE
  notifying,             \* observers still to notify of the first event, or Nothing
  announcing,            \* a context was given the event and not asked to run
  factorySeen, factorySince, \* history: last event of the factory; sent when it came
  created,               \* contexts whose construction is over
  queue,                 \* deviceStateInfoQueue_ of each context
  ctxPending, ctxRunning,    \* QContext_WORKQUEUE
  calling,               \* clients still to call, or Nothing
  db,                    \* notifyDeviceStateInfoPriorityDb_ of each context
  busy,                  \* clients whose programMutex_ an application call holds
  received,              \* history: what each client heard since it registered
  since                  \* history: sent when the client registered

monitor == <<sent, raising, stateEventsQueue>>
monRun == <<monPending, monRunning, notifying, announcing>>
factory == <<factorySeen, factorySince>>
ctxRun == <<ctxPending, ctxRunning, calling>>
clients == <<db, busy, received, since>>
vars == <<monitor, observers, monRun, factory, created, queue, ctxRun, clients>>

MonitorWq == INSTANCE WorkqueueService
  WITH Elements <- {Monitor}, pending <- monPending, running <- monRunning, closed <- FALSE
ContextWq == INSTANCE WorkqueueService
  WITH Elements <- Contexts, pending <- ctxPending, running <- ctxRunning, closed <- FALSE

subscribed == UNION {ToSet(db[c]) : c \in Contexts}

-----------------------------------------------------------------------------
(* QDeviceStateMonitor.                                                    *)

\* The monitor thread, or a timer, pushes an event ...
pushEvent(t) ==
  /\ t \notin raising /\ sent < MaxEvents
  /\ sent' = sent + 1
  /\ stateEventsQueue' = Append(stateEventsQueue, sent')
  /\ raising' = raising \cup {t}
  /\ UNCHANGED <<observers, monRun, factory, created, queue, ctxRun, clients>>

\* ... and asks for run().
monitorReady(t) ==
  /\ t \in raising
  /\ raising' = raising \ {t}
  /\ MonitorWq!Request(Monitor)
  /\ UNCHANGED <<sent, stateEventsQueue, observers, notifying, announcing,
                 factory, created, queue, ctxRun, clients>>

monStart ==
  /\ MonitorWq!Start
  /\ UNCHANGED <<monitor, observers, notifying, announcing, factory, created,
                 queue, ctxRun, clients>>

\* run(): the front of the queue; deviceObserversMtx_ is held from here ...
processEvents ==
  /\ monRunning = Monitor /\ notifying = Nothing /\ stateEventsQueue # <<>>
  /\ notifying' = observers
  /\ UNCHANGED <<monitor, observers, monPending, monRunning, announcing, factory,
                 created, queue, ctxRun, clients>>

NotifyNext == notifying # Nothing /\ notifying # <<>> /\ announcing = Nothing

notifyFactory ==
  /\ NotifyNext /\ Head(notifying) = Factory
  /\ factorySeen' = Head(stateEventsQueue)
  /\ notifying' = Tail(notifying)
  /\ UNCHANGED <<monitor, observers, monPending, monRunning, announcing, factorySince,
                 created, queue, ctxRun, clients>>

\* QContext::notifyDeviceEvent: the event is queued again ...
notifyDeviceEvent ==
  /\ NotifyNext /\ Head(notifying) # Factory
  /\ queue' = [queue EXCEPT ![Head(notifying)] = Append(@, Head(stateEventsQueue))]
  /\ announcing' = Head(notifying)
  /\ notifying' = Tail(notifying)
  /\ UNCHANGED <<monitor, observers, monPending, monRunning, factory, created,
                 ctxRun, clients>>

\* Fault: the context does not ask for its run.
contextReady_Forgets ==
  /\ announcing # Nothing
  /\ announcing' = Nothing
  /\ UNCHANGED <<monitor, observers, monPending, monRunning, notifying, factory,
                 created, queue, ctxRun, clients>>

\* ... and the context asks for its own run().
contextReady ==
  /\ announcing # Nothing
  /\ ContextWq!Request(announcing)
  /\ announcing' = Nothing
  /\ UNCHANGED <<monitor, observers, monPending, monRunning, notifying, factory,
                 created, queue, calling, clients>>

\* ... to here.  The event stays in the queue until it was delivered.
popEvent ==
  /\ notifying = <<>> /\ announcing = Nothing
  /\ stateEventsQueue' = Tail(stateEventsQueue)
  /\ notifying' = Nothing
  /\ UNCHANGED <<sent, raising, observers, monPending, monRunning, announcing, factory,
                 created, queue, ctxRun, clients>>

monFinish ==
  /\ notifying = Nothing /\ stateEventsQueue = <<>>
  /\ MonitorWq!Finish
  /\ UNCHANGED <<monitor, observers, notifying, announcing, factory, created,
                 queue, ctxRun, clients>>

-----------------------------------------------------------------------------
(* Observers register.                                                     *)

ObserversFree == notifying = Nothing

\* Fault: the factory is put behind the contexts that came first.
registerPriorityDeviceObserver_Last ==
  /\ ObserversFree /\ Factory \notin ToSet(observers)
  /\ observers' = Append(observers, Factory)
  /\ factorySince' = sent
  /\ UNCHANGED <<monitor, monRun, factorySeen, created, queue, ctxRun, clients>>

\* The device factory comes with the first context, which needs the runtime.
registerPriorityDeviceObserver ==
  /\ ObserversFree /\ Factory \notin ToSet(observers)
  /\ observers' = <<Factory>> \o observers
  /\ factorySince' = sent
  /\ UNCHANGED <<monitor, monRun, factorySeen, created, queue, ctxRun, clients>>

\* The constructor of a context registers it before it asks for the runtime.
registerDeviceObserver(c) ==
  /\ ObserversFree /\ c \notin ToSet(observers)
  /\ observers' = Append(observers, c)
  /\ UNCHANGED <<monitor, monRun, factory, created, queue, ctxRun, clients>>

createContext(c) ==
  /\ c \in ToSet(observers) \ created /\ Factory \in ToSet(observers)
  /\ created' = created \cup {c}
  /\ UNCHANGED <<monitor, observers, monRun, factory, queue, ctxRun, clients>>

-----------------------------------------------------------------------------
(* QContext.                                                               *)

ctxStart ==
  /\ ContextWq!Start
  /\ UNCHANGED <<monitor, observers, monRun, factory, created, queue, calling, clients>>

\* run(): the front of the queue; the mutex of the list is held from here ...
callClients ==
  /\ ctxRunning # Nothing /\ calling = Nothing /\ queue[ctxRunning] # <<>>
  /\ calling' = db[ctxRunning]
  /\ UNCHANGED <<monitor, observers, monRun, factory, created, queue,
                 ctxPending, ctxRunning, clients>>

\* A client takes its programMutex_ to handle the event.
notifyDeviceStateInfo ==
  /\ calling # Nothing /\ calling # <<>> /\ Head(calling) \notin busy
  /\ received' = [received EXCEPT ![Head(calling)] = Append(@, Head(queue[ctxRunning]))]
  /\ calling' = Tail(calling)
  /\ UNCHANGED <<monitor, observers, monRun, factory, created, queue,
                 ctxPending, ctxRunning, db, busy, since>>

\* ... to here.
contextPop ==
  /\ calling = <<>>
  /\ queue' = [queue EXCEPT ![ctxRunning] = Tail(@)]
  /\ calling' = Nothing
  /\ UNCHANGED <<monitor, observers, monRun, factory, created, ctxPending, ctxRunning,
                 clients>>

ctxFinish ==
  /\ ctxRunning # Nothing /\ calling = Nothing /\ queue[ctxRunning] = <<>>
  /\ ContextWq!Finish
  /\ UNCHANGED <<monitor, observers, monRun, factory, created, queue, calling, clients>>

-----------------------------------------------------------------------------
(* Clients.                                                                *)

DbFree(c) == ~(calling # Nothing /\ ctxRunning = c)

\* Fault: a client is put behind those of the same priority or a higher one.
Insert_Last(list, p) == Append(list, p)

\* A client goes before the first one whose priority is not higher.
Insert(list, p) ==
  LET end == Len(list) + 1
      it  == Min({i \in DOMAIN list : Priority[p] >= Priority[list[i]]} \cup {end})
  IN  InsertAt(list, it, p)

registerNotifyDeviceStateInfo(p) ==
  LET c == ContextOf[p] IN
  /\ c \in created /\ p \notin subscribed /\ DbFree(c)
  /\ db' = [db EXCEPT ![c] = Insert(@, p)]
  /\ received' = [received EXCEPT ![p] = <<>>]
  /\ since' = [since EXCEPT ![p] = sent]
  /\ UNCHANGED <<monitor, observers, monRun, factory, created, queue, ctxRun, busy>>

\* Fault: the mutex of the list is not taken.
unRegisterNotifyDeviceStateInfo_Unlocked(p) ==
  /\ p \in subscribed \ busy
  /\ db' = [db EXCEPT ![ContextOf[p]] = RemoveFirst(@, p)]
  /\ UNCHANGED <<monitor, observers, monRun, factory, created, queue, ctxRun,
                 busy, received, since>>

\* The destructor of a client, which is in no call.
unRegisterNotifyDeviceStateInfo(p) ==
  /\ p \in subscribed \ busy /\ DbFree(ContextOf[p])
  /\ db' = [db EXCEPT ![ContextOf[p]] = RemoveFirst(@, p)]
  /\ UNCHANGED <<monitor, observers, monRun, factory, created, queue, ctxRun,
                 busy, received, since>>

beginCall(p) ==
  /\ p \in subscribed \ busy
  /\ busy' = busy \cup {p}
  /\ UNCHANGED <<monitor, observers, monRun, factory, created, queue, ctxRun,
                 db, received, since>>

endCall(p) ==
  /\ p \in busy
  /\ busy' = busy \ {p}
  /\ UNCHANGED <<monitor, observers, monRun, factory, created, queue, ctxRun,
                 db, received, since>>

-----------------------------------------------------------------------------
Init ==
  /\ sent = 0 /\ raising = {} /\ stateEventsQueue = <<>>
  /\ observers = <<>>
  /\ monPending = <<>> /\ monRunning = Nothing
  /\ notifying = Nothing /\ announcing = Nothing
  /\ factorySeen = 0 /\ factorySince = 0
  /\ created = {}
  /\ queue = [c \in Contexts |-> <<>>]
  /\ ctxPending = <<>> /\ ctxRunning = Nothing /\ calling = Nothing
  /\ db = [c \in Contexts |-> <<>>]
  /\ busy = {}
  /\ received = [p \in Clients |-> <<>>]
  /\ since = [p \in Clients |-> 0]

MonitorRun ==
  monStart \/ processEvents \/ notifyFactory \/ notifyDeviceEvent \/ contextReady
    \/ popEvent \/ monFinish
ContextRun ==
  ctxStart \/ callClients \/ notifyDeviceStateInfo \/ contextPop \/ ctxFinish

Next ==
  \/ \E t \in Producers : pushEvent(t) \/ monitorReady(t)
  \/ MonitorRun \/ ContextRun
  \/ registerPriorityDeviceObserver
  \/ \E c \in Contexts : registerDeviceObserver(c) \/ createContext(c)
  \/ \E p \in Clients :
       \/ registerNotifyDeviceStateInfo(p) \/ unRegisterNotifyDeviceStateInfo(p)
       \/ beginCall(p) \/ endCall(p)

Spec == Init /\ [][Next]_vars

\* The two workqueue threads run, a thread that pushed an event goes on to ask
\* for its delivery, and a call of a program returns (see ProgramDevice).  The
\* threads of the application may stay away for ever otherwise.
Fairness ==
  /\ WF_vars(MonitorRun)
  /\ SF_vars(ContextRun)
  /\ \A t \in Producers : WF_vars(monitorReady(t))
  /\ \A p \in Clients : WF_vars(endCall(p))

FairSpec == Spec /\ Fairness

-----------------------------------------------------------------------------
(* Properties.                                                             *)

Events == 1..MaxEvents

\* Every variable has its type, and a workqueue runs an element only.
TypeOK ==
  /\ sent \in 0..MaxEvents /\ raising \subseteq Producers
  /\ stateEventsQueue \in Seq(Events)
  /\ ToSet(observers) \subseteq Contexts \cup {Factory}
  /\ monRunning \in {Monitor, Nothing}
  /\ notifying = Nothing \/ ToSet(notifying) \subseteq ToSet(observers)
  /\ announcing \in Contexts \cup {Nothing}
  /\ factorySeen \in 0..MaxEvents /\ factorySince \in 0..MaxEvents
  /\ created \subseteq ToSet(observers)
  /\ queue \in [Contexts -> Seq(Events)]
  /\ ctxRunning \in Contexts \cup {Nothing}
  /\ calling = Nothing \/ ToSet(calling) \subseteq ToSet(db[ctxRunning])
  /\ \A c \in Contexts : ToSet(db[c]) \subseteq {p \in Clients : ContextOf[p] = c}
  /\ busy \subseteq subscribed
  /\ received \in [Clients -> Seq(Events)]

\* When a client hears of an event the factory has already opened or closed the
\* device, although the client is called by another thread, out of a queue that
\* may have been filled before the factory came.
FactoryFirst ==
  \A p \in Clients :
    \A e \in ToSet(received[p]) : e > factorySince => factorySeen >= e

\* Among the clients of a context those of a higher priority hear first.  The list
\* supports it; the clients in the repository all ask for the same priority.
PriorityFirst ==
  \A p, q \in subscribed :
    /\ ContextOf[p] = ContextOf[q] /\ Priority[p] > Priority[q]
    => \A e \in ToSet(received[q]) : e > since[p] => e \in ToSet(received[p])

\* Two queues, two workqueues and a list that changes deliver like one queue:
\* in order, without a gap, none twice, and to subscribed clients only.
Broadcast == INSTANCE EventBroadcast
ImplementsBroadcast == Broadcast!Spec

\* A client that stays hears of every event that is raised from now on.
EventsArrive ==
  \A p \in Clients : \A e \in Events :
    p \in subscribed /\ since[p] < e /\ e <= sent
      ~> p \notin subscribed \/ e \in ToSet(received[p])

\* No request to run is lost: a queue that holds an event will be looked at.
QueuesAttended ==
  /\ stateEventsQueue # <<>> =>
       raising # {} \/ monPending # <<>> \/ monRunning # Nothing
  /\ \A c \in Contexts :
       queue[c] # <<>> =>
         announcing = c \/ c \in ToSet(ctxPending) \/ ctxRunning = c

=============================================================================
