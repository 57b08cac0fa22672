---------------------------- MODULE StatusEvents ----------------------------
(***************************************************************************)
(* The status event handler (src/UNS/StatusEventHandler) and the event     *)
(* manager (src/UNS/EventManager): the state of the firmware's features is *)
(* kept in the registry, which survives the process. It is written when an *)
(* alert arrives. The firmware sends alerts through port forwarding; those *)
(* that nobody was there to receive are made good by asking the firmware   *)
(* ("pull") and raising an alert for each difference with the registry.    *)
(*                                                                         *)
(* One reactor thread runs the manager and the handler, one message at a   *)
(* time; a pull is a loop of firmware calls in the handler, during which   *)
(* the firmware changes and its alerts arrive.                             *)
(*                                                                         *)
(* The features stand for their kind: SOL for the ones the handler only    *)
(* saves, TIME_SYNC for the ones that are asked over port forwarding, AMT, *)
(* system defense and provisioning each have a handling of their own. EAC  *)
(* is left out: its alerts are not subscribed to and never saved.          *)
(***************************************************************************)
EXTENDS Naturals, Sequences, FiniteSets

CONSTANTS
    Features,    \* the features of the firmware that change
    MayFail,     \* the features whose question the firmware may not answer
    MaxChanges,  \* bound: changes in the firmware
    MaxLives,    \* bound: ends and suspends of the process
    MaxLinks,    \* bound: connections of port forwarding
    None

Feature == {"AMT", "SOL", "SYSDEF", "PROV", "TIME_SYNC"}

\* FEATURE_STATE and AMT_PROVISIONING_STATE have three values, the others two.
State(f) == IF f \in {"AMT", "PROV"} THEN 0..2 ELSE 0..1

AMT_NOT_PRESENT == 0
AMT_DISABLED == 1
AMT_ENABLED == 2
PRE == 0
POST == 2

\* The features in the order of GenerateEvents, GeneratePortFwrdRelatedEvents.
GenerateEvents == <<"AMT", "SOL", "SYSDEF", "PROV">>
GeneratePortFwrdRelatedEvents == <<"AMT", "TIME_SYNC">>

Alert(f, v) == [type |-> "PUBLISH_EVENT", f |-> f, v |-> v]
Message(type) == [type |-> type]
Messages ==
    {Message(t) : t \in {"SUBSCRIBE_EVENT", "SRVICE_UP", "PFW_AVAILABLE"}}
    \cup {Alert(f, v) : f \in Feature, v \in 0..2}

ASSUME StatusConstants ==
    /\ Features \subseteq Feature /\ MayFail \subseteq Feature
    /\ {MaxChanges, MaxLives, MaxLinks} \subseteq Nat
    /\ None \notin Nat

VARIABLES
    fw,             \* the state of the features in the firmware
    storage,        \* what the registry says of them
    m_prevProvState,
    m_firstPullForEvents,
    life,           \* "absent", "up", "half" (the handler is suspended and the
                    \*   manager is not yet), "suspended"
    link,           \* port forwarding: "down", "connected", "announced" (it
                    \*   told the Configurator)
    needBroadcast,  \* m_needBroadcastStarted or m_needBroadcastPfwActivated
    pfwTasks,       \* MB_PORT_FORWARDING_STARTED and _STOPPED on their way to
                    \*   the Configurator
    isPortForwardingStarted,
    wire,           \* alerts on their way through port forwarding
    managerQueue,   \* the message queue of the event manager
    handlers,       \* the handler is bound in the manager's map
    queue,          \* the message queue of the handler
    pull,           \* the features the handler has yet to ask for
    amt,            \* AmtState in the pull
    missed,         \* the features whose last change nobody told the handler,
                    \*   and that it did not ask for since
    announced,      \* "configured" and "unconfigured", as they were announced
    bounds

forwarding == <<link, needBroadcast, pfwTasks, isPortForwardingStarted>>
vars == <<fw, storage, m_prevProvState, m_firstPullForEvents, life, forwarding, wire,
          managerQueue, handlers, queue, pull, amt, missed, announced, bounds>>

TypeOK ==
    /\ \A f \in Feature : fw[f] \in State(f) /\ storage[f] \in State(f) \cup {None}
    /\ m_prevProvState \in State("PROV")
    /\ m_firstPullForEvents \in BOOLEAN /\ handlers \in BOOLEAN
    /\ life \in {"absent", "up", "half", "suspended"}
    /\ link \in {"down", "connected", "announced"}
    /\ needBroadcast \in BOOLEAN /\ isPortForwardingStarted \in BOOLEAN
    /\ pfwTasks \in Seq({"STARTED", "STOPPED"})
    /\ wire \in Seq(Messages) /\ managerQueue \in Seq(Messages)
    /\ queue \in Seq(Messages)
    /\ pull \in Seq(Feature) /\ amt \in State("AMT")
    /\ missed \subseteq Feature
    /\ announced \in Seq({"configured", "unconfigured"})
    /\ bounds \in [changes : 0..MaxChanges, lives : 0..MaxLives, links : 0..MaxLinks]

-----------------------------------------------------------------------------
(* The firmware and port forwarding.                                       *)

\* The features of the alerts in a queue, which are lost with it.
Told(messages) ==
    {messages[i].f : i \in {j \in DOMAIN messages : messages[j].type = "PUBLISH_EVENT"}}

\* A feature changes, and the firmware sends an alert if it has a connection.
\* A platform without AMT has no features that change.
FirmwareChange(f, v) ==
    /\ bounds.changes < MaxChanges
    /\ fw["AMT"] # AMT_NOT_PRESENT /\ v # fw[f] /\ (f = "AMT" => v # AMT_NOT_PRESENT)
    /\ fw' = [fw EXCEPT ![f] = v]
    /\ bounds' = [bounds EXCEPT !.changes = @ + 1]
    /\ \/ /\ link # "down"
          /\ wire' = Append(wire, Alert(f, v))
          /\ missed' = missed \ {f}
       \/ /\ link = "down"
          /\ missed' = missed \cup {f}
          /\ UNCHANGED wire
    /\ UNCHANGED <<storage, m_prevProvState, m_firstPullForEvents, life, forwarding,
                   managerQueue, handlers, queue, pull, amt, announced>>

\* The SOAP channel: an alert of the firmware is sent to the event manager.
AlertArrives ==
    /\ wire # <<>>
    /\ wire' = Tail(wire)
    /\ managerQueue' = Append(managerQueue, Head(wire))
    /\ UNCHANGED <<fw, storage, m_prevProvState, m_firstPullForEvents, life, forwarding,
                   handlers, queue, pull, amt, missed, announced, bounds>>

\* Port forwarding is loaded after the handler and suspended before it.
Connect ==
    /\ life = "up" /\ handlers /\ link = "down"
    /\ bounds.links < MaxLinks
    /\ link' = "connected"
    /\ bounds' = [bounds EXCEPT !.links = @ + 1]
    /\ UNCHANGED <<fw, storage, m_prevProvState, m_firstPullForEvents, life,
                   needBroadcast, pfwTasks, isPortForwardingStarted, wire,
                   managerQueue, handlers, queue, pull, amt, missed, announced>>

\* The first message is sent at once; then only after a failure that was told.
BroadcastActive ==
    /\ link = "connected" /\ needBroadcast
    /\ link' = "announced" /\ needBroadcast' = FALSE
    /\ pfwTasks' = Append(pfwTasks, "STARTED")
    /\ UNCHANGED <<fw, storage, m_prevProvState, m_firstPullForEvents, life,
                   isPortForwardingStarted, wire, managerQueue, handlers, queue,
                   pull, amt, missed, announced, bounds>>

\* A loss of the connection is told, unless LMS caused it itself. (Where the
\* loop tells it first and gives the connection up then, that is one step here;
\* before the first BroadcastActive it would clear a flag that is not set.)
BroadcastFailure ==
    /\ link = "down" /\ ~needBroadcast
    /\ needBroadcast' = TRUE
    /\ pfwTasks' = Append(pfwTasks, "STOPPED")
    /\ UNCHANGED <<fw, storage, m_prevProvState, m_firstPullForEvents, life, link,
                   isPortForwardingStarted, wire, managerQueue, handlers, queue,
                   pull, amt, missed, announced, bounds>>

Disconnect ==
    /\ link # "down"
    /\ link' = "down" /\ wire' = <<>>
    /\ missed' = missed \cup Told(wire)
    /\ UNCHANGED <<fw, storage, m_prevProvState, m_firstPullForEvents, life,
                   needBroadcast, pfwTasks, isPortForwardingStarted,
                   managerQueue, handlers, queue, pull, amt, announced, bounds>>

\* Mutant: the flag is set and no alert is sent.
PfwStartedQuietly ==
    /\ pfwTasks # <<>> /\ Head(pfwTasks) = "STARTED" /\ pull = <<>>
    /\ pfwTasks' = Tail(pfwTasks)
    /\ isPortForwardingStarted' = TRUE
    /\ UNCHANGED <<fw, storage, m_prevProvState, m_firstPullForEvents, life, link,
                   needBroadcast, wire, managerQueue, handlers, queue, pull, amt,
                   missed, announced, bounds>>

\* The messages are tasks of the Configurator, on the same reactor thread.
\* What is sent to a manager that is suspended is dropped.
PfwStarted ==
    /\ pfwTasks # <<>> /\ Head(pfwTasks) = "STARTED" /\ pull = <<>>
    /\ pfwTasks' = Tail(pfwTasks)
    /\ isPortForwardingStarted' = TRUE
    /\ managerQueue' = IF life = "suspended" THEN managerQueue
                       ELSE Append(managerQueue, Message("PFW_AVAILABLE"))
    /\ UNCHANGED <<fw, storage, m_prevProvState, m_firstPullForEvents, life, link,
                   needBroadcast, wire, handlers, queue, pull, amt, missed,
                   announced, bounds>>

PfwStopped ==
    /\ pfwTasks # <<>> /\ Head(pfwTasks) = "STOPPED" /\ pull = <<>>
    /\ pfwTasks' = Tail(pfwTasks)
    /\ isPortForwardingStarted' = FALSE
    /\ UNCHANGED <<fw, storage, m_prevProvState, m_firstPullForEvents, life, link,
                   needBroadcast, wire, managerQueue, handlers, queue, pull, amt,
                   missed, announced, bounds>>

-----------------------------------------------------------------------------
(* The event manager.                                                      *)

ManagerStep ==
    /\ life \in {"up", "half"} /\ pull = <<>> /\ managerQueue # <<>>
    /\ managerQueue' = Tail(managerQueue)
    /\ LET m == Head(managerQueue) IN
       \/ /\ m.type = "SUBSCRIBE_EVENT"
          /\ handlers' = TRUE
          /\ UNCHANGED <<queue, missed>>
       \/ /\ m.type # "SUBSCRIBE_EVENT"
          /\ handlers /\ life = "up"
          /\ queue' = Append(queue, m)
          /\ UNCHANGED <<handlers, missed>>
       \/ /\ m.type # "SUBSCRIBE_EVENT"
          /\ ~(handlers /\ life = "up")
          /\ missed' = missed \cup Told(<<m>>)
          /\ UNCHANGED <<handlers, queue>>
    /\ UNCHANGED <<fw, storage, m_prevProvState, m_firstPullForEvents, life, forwarding,
                   wire, pull, amt, announced, bounds>>

-----------------------------------------------------------------------------
(* The status event handler.                                               *)

\* What a question to the firmware may return; None when it fails. The state of
\* time synchronization is asked with WS-Management, through port forwarding.
Answers(f) ==
    IF f = "TIME_SYNC" /\ link = "down" THEN {None}
    ELSE {fw[f]} \cup IF f \in MayFail THEN {None} ELSE {}

\* Mutant: the state of an earlier life is not read from the registry.
FirstPullForgets(v) ==
    /\ m_firstPullForEvents' = FALSE
    /\ m_prevProvState' = IF m_firstPullForEvents THEN PRE ELSE m_prevProvState

\* firstPullForEvents, where v is what the firmware answers. It is asked on
\* corporate platforms only; on the others AMT, and its provisioning, is absent.
FirstPullForEvents(v) ==
    /\ m_firstPullForEvents' = FALSE
    /\ m_prevProvState' =
          CASE ~m_firstPullForEvents -> m_prevProvState
            [] m_firstPullForEvents /\ storage["PROV"] # None -> storage["PROV"]
            [] OTHER -> IF v = None THEN PRE ELSE v

\* MB_SRVICE_UP and EVENT_PORT_FORWARDING_SERVICE_AVAILABLE begin a pull; the
\* second only while the Configurator has port forwarding for started.
BeginPull ==
    LET m == Head(queue) IN
    /\ m.type \in {"SRVICE_UP", "PFW_AVAILABLE"}
    /\ \E v \in Answers("PROV") : FirstPullForEvents(v)
    /\ pull' = CASE m.type = "SRVICE_UP" -> GenerateEvents
                 [] m.type = "PFW_AVAILABLE" /\ isPortForwardingStarted ->
                       GeneratePortFwrdRelatedEvents
                 [] OTHER -> <<>>
    /\ amt' = AMT_NOT_PRESENT
    /\ UNCHANGED <<storage, missed, announced>>

\* handleProvisioningEvents: the announcement of a change to and from POST.
Announcement(v) ==
    CASE v = POST /\ m_prevProvState # POST -> <<"configured">>
      [] v # POST /\ m_prevProvState = POST -> <<"unconfigured">>
      [] OTHER -> <<>>

\* Mutants: the enabled state saved as AVAILABLE, an end that is not saved.
SavedAvailable(f, v) == IF f = "AMT" /\ v = AMT_ENABLED THEN 3 ELSE v
SavedStart(f, v) == IF f = "SOL" /\ v = 0 THEN storage[f] ELSE v

\* What SaveCurrentStatus gets: AMT that is not enabled is saved as disabled.
Saved(f, v) == IF f = "AMT" /\ v # AMT_ENABLED THEN AMT_DISABLED ELSE v

\* handleStatusChanged. System defense alerts have no state: it is asked for.
HandleAlert ==
    LET m == Head(queue) IN
    /\ m.type = "PUBLISH_EVENT"
    /\ \/ /\ m.f = "SYSDEF"
          /\ \/ /\ storage' = [storage EXCEPT !["SYSDEF"] = fw["SYSDEF"]]
                /\ UNCHANGED missed
             \/ /\ None \in Answers("SYSDEF")
                /\ missed' = missed \cup {"SYSDEF"}
                /\ UNCHANGED storage
          /\ UNCHANGED <<m_prevProvState, announced>>
       \/ /\ m.f = "PROV"
          /\ m_prevProvState' = m.v
          /\ announced' = announced \o Announcement(m.v)
          /\ storage' = [storage EXCEPT !["PROV"] = m.v]
          /\ UNCHANGED missed
       \/ /\ m.f \notin {"SYSDEF", "PROV"}
          /\ storage' = [storage EXCEPT ![m.f] = Saved(m.f, m.v)]
          /\ UNCHANGED <<m_prevProvState, announced, missed>>
    /\ UNCHANGED <<m_firstPullForEvents, pull, amt>>

\* EventHandler::HandleAceMessage and handle_event
HandlerStep ==
    /\ life \in {"up", "half"} /\ pull = <<>> /\ queue # <<>>
    /\ queue' = Tail(queue)
    /\ BeginPull \/ HandleAlert
    /\ UNCHANGED <<fw, life, forwarding, wire, managerQueue, handlers, bounds>>

\* The features with an older alert under way, which will undo what is asked now.
Waiting == Told(wire \o managerQueue \o queue)

\* CheckForStatusChange: the first state is saved, a change is announced.
CheckForStatusChange(f, v) ==
    /\ storage' = IF storage[f] = None THEN [storage EXCEPT ![f] = v] ELSE storage
    /\ managerQueue' = IF storage[f] \in {None, v} THEN managerQueue
                       ELSE Append(managerQueue, Alert(f, v))

\* The state of AMT is asked first; without an answer the pull ends. Over port
\* forwarding it is only remembered.
PullAmt ==
    /\ Head(pull) = "AMT"
    /\ \E v \in Answers("AMT") :
       \/ /\ v = None
          /\ pull' = <<>>
          /\ UNCHANGED <<amt, storage, managerQueue, missed>>
       \/ /\ v # None
          /\ pull' = Tail(pull) /\ amt' = v
          /\ \/ /\ pull = GenerateEvents
                /\ CheckForStatusChange("AMT", v)
                /\ missed' = missed \ ({"AMT"} \ Waiting)
             \/ /\ pull # GenerateEvents
                /\ UNCHANGED <<storage, managerQueue, missed>>

\* Generate...Events(AMTstate): without AMT the state is the default, except
\* for system defense, which is left alone.
PullFeature ==
    LET f == Head(pull) IN
    /\ f # "AMT"
    /\ pull' = Tail(pull)
    /\ \/ /\ amt # AMT_NOT_PRESENT
          /\ \E v \in Answers(f) \ {None} : CheckForStatusChange(f, v)
          /\ missed' = missed \ ({f} \ Waiting)
       \/ /\ amt = AMT_NOT_PRESENT /\ f # "SYSDEF"
          /\ CheckForStatusChange(f, 0)
          /\ missed' = missed \ ({f} \ Waiting)
       \/ /\ IF amt = AMT_NOT_PRESENT THEN f = "SYSDEF" ELSE None \in Answers(f)
          /\ UNCHANGED <<storage, managerQueue, missed>>
    /\ UNCHANGED amt

PullStep ==
    /\ pull # <<>>
    /\ PullAmt \/ PullFeature
    /\ UNCHANGED <<fw, m_prevProvState, m_firstPullForEvents, life, forwarding, wire,
                   handlers, queue, announced, bounds>>

-----------------------------------------------------------------------------
(* The life of the process.                                                *)

\* EventHandler::init and StatusEventHandler::init
Start ==
    /\ life = "absent"
    /\ life' = "up"
    /\ managerQueue' = <<Message("SUBSCRIBE_EVENT")>>
    /\ queue' = <<Message("SRVICE_UP")>>
    /\ UNCHANGED <<fw, storage, m_prevProvState, m_firstPullForEvents, forwarding, wire,
                   handlers, pull, amt, missed, announced, bounds>>

\* The process ends, in order or not: all but the registry is lost.
End ==
    /\ life # "absent" /\ bounds.lives < MaxLives
    /\ bounds' = [bounds EXCEPT !.lives = @ + 1]
    /\ life' = "absent" /\ handlers' = FALSE
    /\ link' = "down" /\ needBroadcast' = TRUE
    /\ pfwTasks' = <<>> /\ isPortForwardingStarted' = FALSE
    /\ wire' = <<>> /\ managerQueue' = <<>> /\ queue' = <<>> /\ pull' = <<>>
    /\ m_prevProvState' = PRE /\ m_firstPullForEvents' = TRUE /\ amt' = AMT_NOT_PRESENT
    /\ missed' = missed \cup Told(wire \o managerQueue \o queue)
    /\ UNCHANGED <<fw, storage, announced>>

\* The handler is suspended after port forwarding and before the manager.
Suspend ==
    /\ life = "up" /\ handlers /\ link = "down" /\ pull = <<>>
    /\ bounds.lives < MaxLives
    /\ bounds' = [bounds EXCEPT !.lives = @ + 1]
    /\ life' = "half"
    /\ UNCHANGED <<fw, storage, m_prevProvState, m_firstPullForEvents, forwarding, wire,
                   managerQueue, handlers, queue, pull, amt, missed, announced>>

\* The reactor serves the notifications of the queues in order: both services
\* have handled what came before the manager's own MB_SUSPEND_SERVICE.
SuspendManager ==
    /\ life = "half" /\ managerQueue = <<>> /\ queue = <<>> /\ pull = <<>>
    /\ life' = "suspended"
    /\ UNCHANGED <<fw, storage, m_prevProvState, m_firstPullForEvents, forwarding, wire,
                   managerQueue, handlers, queue, pull, amt, missed, announced, bounds>>

\* StatusEventHandler::resume
Resume ==
    /\ life = "suspended"
    /\ life' = "up"
    /\ queue' = Append(queue, Message("SRVICE_UP"))
    /\ UNCHANGED <<fw, storage, m_prevProvState, m_firstPullForEvents, forwarding, wire,
                   managerQueue, handlers, pull, amt, missed, announced, bounds>>

-----------------------------------------------------------------------------
\* A new installation, with AMT or without it; or the registry of an earlier
\* life, in which the firmware was configured.
InitStates ==
    {[fw |-> [f \in Feature |-> IF f = "AMT" THEN a ELSE 0],
      storage |-> [f \in Feature |-> None],
      missed |-> Feature, announced |-> <<>>] : a \in {AMT_NOT_PRESENT, AMT_DISABLED}}
    \cup
    {LET now == [f \in Feature |-> CASE f = "AMT" -> AMT_ENABLED
                                     [] f = "PROV" -> POST
                                     [] OTHER -> 0]
     IN  [fw |-> now, storage |-> now, missed |-> {}, announced |-> <<"configured">>]}

Init ==
    /\ \E s \in InitStates : /\ fw = s.fw /\ storage = s.storage
                            /\ missed = s.missed /\ announced = s.announced
    /\ m_prevProvState = PRE /\ m_firstPullForEvents = TRUE
    /\ life = "absent" /\ handlers = FALSE
    /\ link = "down" /\ needBroadcast = TRUE
    /\ pfwTasks = <<>> /\ isPortForwardingStarted = FALSE
    /\ wire = <<>> /\ managerQueue = <<>> /\ queue = <<>>
    /\ pull = <<>> /\ amt = AMT_NOT_PRESENT
    /\ bounds = [changes |-> 0, lives |-> 0, links |-> 0]

Next ==
    \/ ManagerStep \/ HandlerStep \/ PullStep
    \/ \E f \in Features : \E v \in State(f) : FirmwareChange(f, v)
    \/ AlertArrives
    \/ Connect \/ BroadcastActive \/ BroadcastFailure \/ Disconnect
    \/ PfwStarted \/ PfwStopped
    \/ Start \/ End \/ Suspend \/ SuspendManager \/ Resume

Spec == Init /\ [][Next]_vars

-----------------------------------------------------------------------------
(* Properties.                                                             *)

\* Nothing is under way.
Quiet ==
    /\ life = "up" /\ pull = <<>>
    /\ wire = <<>> /\ managerQueue = <<>> /\ queue = <<>>

\* Once everything has been handled the registry agrees with the firmware,
\* except for a feature whose change nobody told the handler and that was not
\* asked for since: alerts that wait, pulls, their echoes and the losses of
\* suspends, restarts and disconnections never leave an old state behind.
QuietAgrees ==
    Quiet => \A f \in Feature \ missed : storage[f] = fw[f]

\* "Intel(R) ME configured" and "Intel(R) ME unconfigured" are announced in
\* turn, although a change may be told twice (by the firmware and by a pull)
\* and the process may end in between.
ConfiguredAlternates ==
    \A i \in 1..(Len(announced) - 1) : announced[i] # announced[i + 1]

\* Port forwarding runs, and the Configurator has handled its last message.
Started == link = "announced" /\ pfwTasks = <<>>

\* While port forwarding is started, the state that is asked for over it is that
\* of the firmware once everything has been handled, also when it changed while
\* there was no connection, unless the firmware did not answer what the state of
\* AMT is: EVENT_PORT_FORWARDING_SERVICE_AVAILABLE makes every gap good.
StartedIsCurrent ==
    Quiet /\ Started /\ amt # AMT_NOT_PRESENT
        => storage["TIME_SYNC"] = fw["TIME_SYNC"]
=============================================================================
