---------------------------- MODULE Configurator ----------------------------
(***************************************************************************)
(* The Configurator of LMS (src/UNS/Configurator) and the part of          *)
(* src/UNS/GMS_COMMON it works with: it decides which sub-services run,    *)
(* loads, unloads, suspends and resumes them in the order of their         *)
(* dependencies, and executes the requests it receives ("tasks") one after *)
(* the other.                                                              *)
(*                                                                         *)
(* Every sub-service is an ACE_Task with a message queue; one reactor      *)
(* thread dispatches them all, and a dispatched service drains its queue.  *)
(* The thread of the Port Forwarding Service, the signal handler and the   *)
(* control handler of the operating system put messages at any time.       *)
(*                                                                         *)
(* The methods call each other and each of them changes the fields of      *)
(* several objects, so a method is an operator from the state of the       *)
(* process (the record lms) to the next one, with the source's name; the   *)
(* actions at the end apply them.                                          *)
(***************************************************************************)
EXTENDS Naturals, Sequences, FiniteSets

CONSTANTS
    Manageability,  \* BOOLEAN: the scan finds AMT enabled in the firmware
    DeferResume,    \* BOOLEAN: FW older than 12 and a password on wakeup
    Changes,        \* the configuration changes the status handler may report
    MayFail,        \* services that ACE may fail to start
    Overlap,        \* BOOLEAN: a suspend, a resume or a device event may
                    \*   come before all that came earlier is done
    PresentAtStart, \* whether the MEI device is there when the process starts
    ScanResults,    \* outcomes of a scan with the device: of {"ok", "error"}
    NumRetries,     \* NUM_RETRIES of the scan
    MaxChanges,     \* bound: changes reported
    MaxPfw,         \* bound: starts and stops of port forwarding reported
    MaxPower,       \* bound: suspend, resume and unlock events
    MaxVisits,      \* bound: visits of services in one batch command
    MaxDevice,      \* bound: removals and arrivals of the MEI device
    None

(***************************************************************************)
(* The services. DBus stands for the event handlers of layer 2, TimeSync   *)
(* for the three services whose loading depends on a query of the firmware.*)
(***************************************************************************)
MountOrder ==
    [First |-> 0, EventManager |-> 1, DBus |-> 2, StatusEventHandler |-> 3,
     PortForwarding |-> 5, TimeSync |-> 7, PowerOperations |-> 7,
     AmtEnableLast |-> 8, WaitingForPfwLast |-> 8, Last |-> 9]

\* The order of m_mountOrder, in which the dependency lists are filled.
ByMountOrder ==
    <<"First", "EventManager", "DBus", "StatusEventHandler", "PortForwarding",
      "TimeSync", "PowerOperations", "AmtEnableLast", "WaitingForPfwLast",
      "Last">>

\* The order of std::set<ACE_TString>: by name.
ByName ==
    <<"AmtEnableLast", "DBus", "EventManager", "First", "HostChanges", "Last",
      "PortForwarding", "PowerOperations", "StatusEventHandler", "TimeSync",
      "WaitingForPfwLast">>

Service == {ByName[i] : i \in DOMAIN ByName}
CONF == "Configurator"
Handler == {"DBus", "StatusEventHandler"}        \* derived from EventHandler
CheckLoad == {"TimeSync"}                        \* the keys of m_checkLoadMap
DummyServicesToRemove == {"Last", "AmtEnableLast", "WaitingForPfwLast"}
ManageabilityGroup == <<"PowerOperations", "TimeSync">>

AbsoluteDependencies ==
    [s \in Service |->
        CASE s \in Handler -> {"EventManager"}
          [] s \in {"TimeSync", "PowerOperations"} -> {"PortForwarding"}
          [] OTHER -> {}]

Op == {"load", "unload", "suspend", "resume"}

\* Messages. A task is any message to the Configurator but the first two.
Status(s, op) == [type |-> "STATUS", service |-> s, op |-> op]
Completed == [type |-> "TASK_COMPLETED"]
Task(type) == [type |-> type]
Change(conf, value) == [type |-> "CHANGE", conf |-> conf, value |-> value]
From(type, s) == [type |-> type, service |-> s]

SimpleTasks ==
    {Task(t) : t \in {"START", "STOP", "SUSPEND", "RESUME", "UNLOCK",
                      "DEFERRED_RESUME", "PFW_STARTED", "PFW_STOPPED",
                      "DEVICE_ARRIVAL", "DEVICE_REMOVED"}}
ChangeTasks ==
    {Change(c, v) : c \in {"ME", "AMT", "TIME_SYNC", "PFW"}, v \in BOOLEAN}
Tasks == SimpleTasks \cup ChangeTasks
Components == Service \cup {CONF}

ConfMessages == Tasks \cup {Completed, Status(CONF, "resume")}
                \cup {Status(s, op) : s \in Service, op \in Op}
Orders == {Task("STOP_SERVICE"), Task("SUSPEND_SERVICE")}
ManagerMessages ==
    Orders \cup {From(t, s) : t \in {"SUBSCRIBE", "UNSUBSCRIBE"}, s \in Handler}
HandlerMessages == Orders \cup {Task("SUBSCRIBED"), Task("UNSUBSCRIBED")}

MessagesTo(dest) ==
    CASE dest = CONF -> ConfMessages
      [] dest = "EventManager" -> ManagerMessages
      [] dest \in Handler -> HandlerMessages
      [] OTHER -> Orders

ASSUME ConfiguratorConstants ==
    /\ {Manageability, DeferResume, Overlap} \subseteq BOOLEAN
    /\ Changes \subseteq ChangeTasks
    /\ MayFail \subseteq Service
    /\ PresentAtStart \subseteq BOOLEAN
    /\ ScanResults \subseteq {"ok", "error"}
    /\ {NumRetries, MaxChanges, MaxPfw, MaxPower, MaxDevice} \subseteq Nat
    /\ MaxVisits \in Nat /\ MaxVisits >= Len(ByName)
    /\ None \notin Components /\ None \notin Tasks

VARIABLES
    lms,      \* the state of the Configurator, its helpers and the services
    running,  \* the service whose handle_output is running, or None
    env       \* what the world has done so far

vars == <<lms, running, env>>

\* The states of the record lms.
Lms ==
    [loaded : SUBSET Service, active : SUBSET Service, locked : SUBSET Service,
     toLoad : SUBSET Service, waitPfw : SUBSET Service,
     waiting : [Op -> SUBSET Service],
     inProcess : Tasks \cup {None}, onToggle : BOOLEAN,
     toggled : Service \cup {None}, nextTasks : Seq(Tasks),
     needToStop : BOOLEAN, pfwStarted : BOOLEAN, scans : 0..NumRetries,
     scanTimer : BOOLEAN, deferred : BOOLEAN,
     repository : [Components -> {"absent", "active", "closed", "suspended"}],
     queue : [Components -> Seq(UNION {MessagesTo(d) : d \in Components})],
     notify : Seq(Components), handlers : SUBSET Handler,
     asleep : BOOLEAN, ended : BOOLEAN]

\* The state of the process, and that nobody gets a message that only others
\* can handle (HandleAceMessage of the base class, of EventHandler and of
\* EventManager).
TypeOK ==
    /\ lms \in Lms
    /\ \A dest \in Components : lms.queue[dest] \in Seq(MessagesTo(dest))
    /\ running \in Components \cup {None}
    /\ env \in [stop : BOOLEAN, changes : 0..MaxChanges, pfw : 0..MaxPfw,
                up : BOOLEAN, suspended : BOOLEAN, power : 0..MaxPower,
                device : 0..MaxDevice, present : BOOLEAN]

-----------------------------------------------------------------------------
(* GmsService, GmsSubService: messages.                                    *)

\* find() of the repository sees a service that is neither removed nor
\* suspended; to any other one a message is lost and false is returned.
Reachable(l, dest) == l.repository[dest] \in {"active", "closed"}

\* ACE_Task::putq appends to the queue and notifies the reactor.
PutQ(l, dest, m) ==
    [l EXCEPT !.queue[dest] = Append(@, m), !.notify = Append(@, dest)]

SendMessage(l, dest, m) == IF Reachable(l, dest) THEN PutQ(l, dest, m) ELSE l

TaskCompleted(l) == PutQ(l, CONF, Completed)

CompletedUnless(ok, l) == IF ok THEN l ELSE TaskCompleted(l)

-----------------------------------------------------------------------------
(* DependencyManager and AsyncActivationManager.                           *)

Before(s, t) ==
    {s, t} \subseteq DOMAIN MountOrder /\ MountOrder[s] < MountOrder[t]

\* The members of S in the order of a list.
Listed(order, S) ==
    LET picked[n \in Nat] ==
            IF n = 0 THEN <<>>
            ELSE IF order[n] \in S THEN Append(picked[n - 1], order[n])
                                   ELSE picked[n - 1]
    IN picked[Len(order)]

InOrder(S) == Listed(ByName, S)

\* The services that must have done op before s does it, among the ones to be
\* loaded. The dummy services do not depend on the service that is being
\* switched off.
Prerequisites(l, s, op) ==
    {t \in l.toLoad :
        IF op \in {"load", "resume"}
        THEN Before(t, s)
        ELSE Before(s, t) /\ ~(s = l.toggled /\ t \in DummyServicesToRemove)}

GetPrerequisites(l, s, op) == Listed(ByMountOrder, Prerequisites(l, s, op))

\* Mutants: nothing keeps a service that others depend on, in the first from
\* being unloaded, in the second from being suspended.
ReadyToUnloadAlways(l, s, op) ==
    CASE op = "load"    -> Prerequisites(l, s, op) \subseteq l.loaded
      [] op = "resume"  -> Prerequisites(l, s, op) \subseteq l.active
      [] op = "suspend" -> Prerequisites(l, s, op) \cap l.active = {}
      [] OTHER          -> TRUE
ReadyToSuspendAlways(l, s, op) ==
    CASE op = "load"   -> Prerequisites(l, s, op) \subseteq l.loaded
      [] op = "resume" -> Prerequisites(l, s, op) \subseteq l.active
      [] op = "unload" -> Prerequisites(l, s, op) \cap l.loaded = {}
      [] OTHER         -> TRUE

ReadyToOperation(l, s, op) ==
    CASE op = "load"    -> Prerequisites(l, s, op) \subseteq l.loaded
      [] op = "resume"  -> Prerequisites(l, s, op) \subseteq l.active
      [] op = "unload"  -> Prerequisites(l, s, op) \cap l.loaded = {}
      [] op = "suspend" -> Prerequisites(l, s, op) \cap l.active = {}

\* The services that waited for op and can now do it.
RefreshOnOperation(l, op) ==
    {s \in l.waiting[op] : ReadyToOperation(l, s, op)}

-----------------------------------------------------------------------------
(* The operations on one service: [l |-> the next state, ok |-> the result] *)

\* GmsService::StartAceService and the service's init(): an event handler
\* subscribes first, any other service reports at once.
StartInRepository(l, w, s) ==
    IF s \in w.bad THEN [l |-> l, ok |-> FALSE]
    ELSE LET up == [l EXCEPT !.repository[s] = "active"] IN
         [l |-> IF s \in Handler
                THEN SendMessage(up, "EventManager", From("SUBSCRIBE", s))
                ELSE SendMessage(up, CONF, Status(s, "load")),
          ok |-> TRUE]

\* A service that will not be loaded now is no longer to be loaded.
NotLoaded(l, s) ==
    [l EXCEPT !.toLoad = @ \ {s}, !.locked = @ \ {s}]

StartAceService(l, w, s) ==
    CASE s \in l.loaded -> [l |-> l, ok |-> FALSE]
      [] s \notin l.loaded /\ s \in CheckLoad /\ ~l.pfwStarted ->
            [l |-> [NotLoaded(l, s) EXCEPT !.waitPfw = @ \cup {s}], ok |-> TRUE]
      [] s \notin l.loaded /\ s \in CheckLoad /\ l.pfwStarted /\ s \in w.off ->
            IF l.onToggle THEN [l |-> l, ok |-> FALSE]
                          ELSE [l |-> NotLoaded(l, s), ok |-> TRUE]
      [] OTHER -> StartInRepository(l, w, s)

\* Mutant: the last service is removed without SetStop.
FiniWithoutStop(l, s) ==
    [l EXCEPT !.repository[s] = "absent", !.queue[s] = <<>>,
              !.handlers = IF s = "EventManager" THEN {} ELSE @,
              !.loaded = @ \ {s}, !.active = @ \ {s}, !.locked = @ \ {s}]

\* Removal from the repository destroys the object, its queue and, for the
\* event manager, the map of the subscribed handlers.
FiniAceService(l, s) ==
    IF s \notin l.loaded THEN l
    ELSE LET m == [l EXCEPT !.repository[s] = "absent", !.queue[s] = <<>>,
                            !.handlers = IF s = "EventManager" THEN {} ELSE @,
                            !.loaded = @ \ {s}, !.active = @ \ {s},
                            !.locked = @ \ {s}]
         IN IF m.loaded # {} THEN m
            ELSE [m EXCEPT !.toLoad = {}, !.ended = @ \/ m.needToStop]

StopAceService(l, s) ==
    CASE s \notin l.loaded -> [l |-> l, ok |-> FALSE]
      [] s \in l.loaded \cap l.active ->
            [l |-> SendMessage(l, s, Task("STOP_SERVICE")), ok |-> Reachable(l, s)]
      [] OTHER -> [l |-> FiniAceService(l, s), ok |-> TRUE]

SuspendAceService(l, s) ==
    IF s \in l.active
    THEN [l |-> SendMessage(l, s, Task("SUSPEND_SERVICE")), ok |-> Reachable(l, s)]
    ELSE [l |-> l, ok |-> FALSE]

\* Mutant: the service is resumed and does not report it.
ResumeQuietly(l, s) ==
    [l |-> [l EXCEPT !.repository[s] = "active"],
     ok |-> l.repository[s] # "absent"]

\* Resuming in the repository calls the service's resume(), which reports.
ResumeAceService(l, s) ==
    IF l.repository[s] = "absent" THEN [l |-> l, ok |-> FALSE]
    ELSE [l |-> SendMessage([l EXCEPT !.repository[s] = "active"], CONF,
                            Status(s, "resume")),
          ok |-> TRUE]

\* Mutant: the Configurator is suspended with the first service.
SuspendAtOnce(l, s) ==
    [l EXCEPT !.repository[s] = IF @ = "absent" THEN @ ELSE "suspended",
              !.repository[CONF] = "suspended", !.asleep = TRUE]

\* CompleteSuspendAceService, with SetSuspend when no service is active any
\* more: the Configurator is suspended and the reactor dispatches nothing.
CompleteSuspendAceService(l, s) ==
    LET m == [l EXCEPT !.repository[s] = IF @ = "absent" THEN @ ELSE "suspended"]
    IN IF m.active # {} THEN m
       ELSE [m EXCEPT !.repository[CONF] = "suspended", !.asleep = TRUE]

DoOperation(l, w, s, op) ==
    CASE op = "load"    -> StartAceService(l, w, s)
      [] op = "unload"  -> StopAceService(l, s)
      [] op = "suspend" -> SuspendAceService(l, s)
      [] op = "resume"  -> ResumeAceService(l, s)

DoneCriteria(l, s, op) ==
    CASE op = "load"    -> s \in l.loaded
      [] op = "unload"  -> s \notin l.loaded
      [] op = "suspend" -> s \in l.loaded \ l.active
      [] op = "resume"  -> s \in l.loaded \cap l.active

-----------------------------------------------------------------------------
(***************************************************************************)
(* ServicesBatchCommand::Execute is a loop over a list of services; it     *)
(* calls itself on the prerequisites of a service that is not ready, which *)
(* is put into the waiting set. Here the prerequisites come first in the   *)
(* list that is left. "seen" holds the services found waiting since the    *)
(* last operation: to visit one of them again, as the code does, has no    *)
(* effect.                                                                 *)
(***************************************************************************)
Visit(b, w, op) ==
    LET l == b.l
        s == Head(b.list)
        left == Tail(b.list)
        todo == IF b.ret = "FAILURE" THEN "FAILURE" ELSE "SUCCESS"
        done == s \in l.locked \/ DoneCriteria(l, s, op)
        r == DoOperation([l EXCEPT !.locked = @ \cup {s}], w, s, op)
    IN CASE done -> [b EXCEPT !.list = left]
         [] ~done /\ ReadyToOperation(l, s, op) ->
              [l    |-> IF r.ok THEN r.l ELSE [r.l EXCEPT !.locked = @ \ {s}],
               list |-> left,
               ret  |-> IF r.ok THEN todo ELSE "FAILURE",
               seen |-> IF r.ok THEN {} ELSE b.seen]
         [] ~done /\ ~ReadyToOperation(l, s, op) /\ s \in b.seen ->
              [b EXCEPT !.list = left, !.ret = todo]
         [] OTHER ->
              [l    |-> [l EXCEPT !.waiting[op] = @ \cup {s}],
               list |-> GetPrerequisites(l, s, op) \o left,
               ret  |-> todo,
               seen |-> b.seen \cup {s}]

\* The loop, after n visits or when nothing is left to visit.
Visits(start, w, op) ==
    LET after[n \in Nat] ==
            IF n = 0 THEN start
            ELSE LET b == after[n - 1]
                 IN IF b.list = <<>> THEN b ELSE Visit(b, w, op)
    IN after

Execute(l, w, list, op) ==
    Visits([l |-> l, list |-> list, ret |-> "NOTHING_TO_DO", seen |-> {}],
           w, op)[MaxVisits]

\* "if (command.Execute(services) != SUCCESS) TaskCompleted();"
ExecuteOrComplete(l, w, list, op) ==
    LET r == Execute(l, w, list, op)
    IN CompletedUnless(r.ret = "SUCCESS", r.l)

-----------------------------------------------------------------------------
(* The Configurator's operations on all services.                          *)

\* Mutant: the reactor is ended before the services are stopped.
StopAllAtOnce(l, w, stopMain) ==
    ExecuteOrComplete([l EXCEPT !.needToStop = stopMain,
                                !.ended = @ \/ stopMain],
                      w, InOrder(l.loaded), "unload")

\* StopAllServices: with nothing loaded the task, and the process, end here.
StopAllServices(l, w, stopMain) ==
    LET m == [l EXCEPT !.needToStop = stopMain]
    IN IF m.loaded # {}
       THEN ExecuteOrComplete(m, w, InOrder(m.loaded), "unload")
       ELSE TaskCompleted([m EXCEPT !.ended = @ \/ stopMain])

SuspendResumeAllServices(l, w, op) ==
    ExecuteOrComplete(l, w, InOrder(l.loaded), op)

\* The services the scan selects, with what they depend on absolutely.
ScanGroup ==
    LET base == {"First", "Last", "DBus", "StatusEventHandler",
                 "PortForwarding", "HostChanges"}
        all == base \cup IF Manageability
                         THEN {ManageabilityGroup[i] : i \in DOMAIN ManageabilityGroup}
                         ELSE {}
    IN all \cup UNION {AbsoluteDependencies[s] : s \in all}

\* cancel_timer(this), and a handler that returns -1, cancel every timer of the
\* Configurator, the one of the deferred resume too.
CancelTimers(l) == [l EXCEPT !.scanTimer = FALSE, !.deferred = FALSE]

\* The timer is started first; a scan that could not read the firmware leaves
\* it running, unless the MEI device is disabled.
ScanConfiguration(l, w) ==
    CASE w.scan = "ok" ->
            LET m == [l EXCEPT !.toLoad = ScanGroup]
            IN CancelTimers(ExecuteOrComplete(m, w, InOrder(ScanGroup), "load"))
      [] w.scan = "noMei" ->
            TaskCompleted(CancelTimers([l EXCEPT !.scans = 0]))
      [] OTHER -> [l EXCEPT !.scanTimer = TRUE]

OnToggleService(l, w, s, val) ==
    IF val = (s \in l.loaded) THEN TaskCompleted(l)
    ELSE IF val
         THEN ExecuteOrComplete([l EXCEPT !.onToggle = TRUE,
                                          !.toLoad = @ \cup {s}], w, <<s>>, "load")
         ELSE ExecuteOrComplete([l EXCEPT !.onToggle = TRUE, !.toggled = s,
                                          !.toLoad = @ \ {s}], w, <<s>>, "unload")

\* LoadNow: AMT_ENABLE_CONF and PFW_ENABLE_CONF add the services to the ones
\* to be loaded and start them, a dummy service at the end of the list.
LoadNow(l, w, list) ==
    ExecuteOrComplete([l EXCEPT !.toLoad = @ \cup {list[i] : i \in DOMAIN list}],
                      w, list, "load")

UpdateConfiguration(l, w, t) ==
    CASE t.conf = "TIME_SYNC" -> OnToggleService(l, w, "TimeSync", t.value)
      [] t.conf = "AMT" ->
            IF t.value
            THEN LoadNow(l, w, Append(ManageabilityGroup, "AmtEnableLast"))
            ELSE TaskCompleted(l)
      [] t.conf = "PFW" ->
            IF t.value /\ l.waitPfw # {}
            THEN [LoadNow(l, w, Append(InOrder(l.waitPfw), "WaitingForPfwLast"))
                    EXCEPT !.waitPfw = {}]
            ELSE TaskCompleted(l)
      [] OTHER -> l     \* ME_ENABLE_CONF: "Invalid Message"

-----------------------------------------------------------------------------
(* Tasks.                                                                  *)

\* Mutant: nobody looks at the services that wait.
ContinueNobody(l, w, op, s, marker) ==
    CompletedUnless(s \notin marker, l)

\* After a status the services that waited for it go on; only a marker
\* service ends the task, when nobody waited.
ContinueOrComplete(l, w, op, s, marker) ==
    LET ready == RefreshOnOperation(l, op)
    IN CASE ready # {} ->
              ExecuteOrComplete([l EXCEPT !.waiting[op] = @ \ ready], w,
                                InOrder(ready), op)
         [] ready = {} /\ s \in marker -> TaskCompleted(l)
         [] OTHER -> l

ServiceChanged(l, w, s, op) ==
    CASE op = "unload" ->
            ContinueOrComplete(FiniAceService(l, s), w, op, s, {"First"})
      [] op = "load" ->
            ContinueOrComplete(
               [l EXCEPT !.loaded = @ \cup {s}, !.active = @ \cup {s},
                         !.locked = @ \ {s}],
               w, op, s, {"Last", "AmtEnableLast", "WaitingForPfwLast"})
      [] op = "suspend" ->
            ContinueOrComplete(
               CompleteSuspendAceService(
                  [l EXCEPT !.active = @ \ {s}, !.locked = @ \ {s}], s),
               w, op, s, {"First"})
      [] op = "resume" ->
            ContinueOrComplete(
               [l EXCEPT !.active = @ \cup ({s} \cap l.loaded),
                         !.locked = @ \ {s}],
               w, op, s, {"Last"})

\* While a service is being toggled any status ends the task.
ChangeServiceState(l, w, s, op) ==
    CompletedUnless(~l.onToggle, ServiceChanged(l, w, s, op))

ResumeNow(l, w) ==
    SuspendResumeAllServices([l EXCEPT !.deferred = FALSE], w, "resume")

\* The switch of ExecuteTask, on a task that has just been put in process.
StartTask(l, w, t) ==
    CASE t.type \in {"START", "DEVICE_ARRIVAL"} -> ScanConfiguration(l, w)
      [] t.type = "STOP" ->
            StopAllServices([l EXCEPT !.deferred = FALSE], w, TRUE)
      [] t.type = "DEVICE_REMOVED" -> StopAllServices(l, w, FALSE)
      [] t.type = "SUSPEND" ->
            TaskCompleted(SuspendResumeAllServices(
                             [l EXCEPT !.deferred = FALSE], w, "suspend"))
      [] t.type = "RESUME" ->
            TaskCompleted(IF DeferResume THEN [l EXCEPT !.deferred = TRUE]
                                         ELSE ResumeNow(l, w))
      [] t.type = "UNLOCK" ->
            TaskCompleted(IF l.deferred THEN ResumeNow(l, w) ELSE l)
      [] t.type = "DEFERRED_RESUME" ->
            TaskCompleted(SuspendResumeAllServices(l, w, "resume"))
      [] t.type = "PFW_STARTED" ->
            TaskCompleted(PutQ([l EXCEPT !.pfwStarted = TRUE], CONF,
                               Change("PFW", TRUE)))
      [] t.type = "PFW_STOPPED" ->
            TaskCompleted([l EXCEPT !.pfwStarted = FALSE])
      [] t.type = "CHANGE" -> UpdateConfiguration(l, w, t)

ExecuteTask(l, w, t) ==
    CASE l.needToStop -> CompletedUnless(l.inProcess # None, l)
      [] ~l.needToStop /\ l.inProcess = None ->
            StartTask([l EXCEPT !.inProcess = t], w, t)
      [] OTHER -> [l EXCEPT !.nextTasks = Append(@, t)]

\* Mutant: the task that came last is executed next.
TaskEndedNewest(l, w) ==
    LET m == [l EXCEPT !.toggled = IF l.onToggle THEN None ELSE @,
                       !.onToggle = FALSE, !.inProcess = None]
        n == Len(m.nextTasks)
    IN IF n = 0 THEN m
       ELSE ExecuteTask([m EXCEPT !.nextTasks = SubSeq(@, 1, n - 1)], w,
                        m.nextTasks[n])

TaskEnded(l, w) ==
    LET m == [l EXCEPT !.toggled = IF l.onToggle THEN None ELSE @,
                       !.onToggle = FALSE, !.inProcess = None]
    IN IF m.nextTasks = <<>> THEN m
       ELSE ExecuteTask([m EXCEPT !.nextTasks = Tail(@)], w, Head(m.nextTasks))

HandleConfMessage(l, w, m) ==
    CASE m.type = "STATUS" -> ChangeServiceState(l, w, m.service, m.op)
      [] m.type = "TASK_COMPLETED" -> TaskEnded(l, w)
      [] OTHER -> ExecuteTask(l, w, m)

-----------------------------------------------------------------------------
(* The other services, as far as the Configurator sees them.               *)

\* GmsSubService::HandleAceMessage
HandleServiceMessage(l, s, m) ==
    CASE m.type = "STOP_SERVICE" ->
            SendMessage([l EXCEPT !.repository[s] = "closed"], CONF,
                        Status(s, "unload"))
      [] m.type = "SUSPEND_SERVICE" -> SendMessage(l, CONF, Status(s, "suspend"))

\* Mutant: a handler that is unbound is not told.
UnbindQuietly(l, m) ==
    CASE m.type = "SUBSCRIBE" ->
            SendMessage([l EXCEPT !.handlers = @ \cup {m.service}], m.service,
                        Task("SUBSCRIBED"))
      [] m.type = "UNSUBSCRIBE" -> [l EXCEPT !.handlers = @ \ {m.service}]
      [] OTHER -> HandleServiceMessage(l, "EventManager", m)

\* EventManager::HandleAceMessage: the handler is told when it is (un)bound.
HandleManagerMessage(l, m) ==
    CASE m.type = "SUBSCRIBE" ->
            SendMessage([l EXCEPT !.handlers = @ \cup {m.service}], m.service,
                        Task("SUBSCRIBED"))
      [] m.type = "UNSUBSCRIBE" /\ m.service \in l.handlers ->
            SendMessage([l EXCEPT !.handlers = @ \ {m.service}], m.service,
                        Task("UNSUBSCRIBED"))
      [] m.type = "UNSUBSCRIBE" /\ m.service \notin l.handlers -> l
      [] OTHER -> HandleServiceMessage(l, "EventManager", m)

\* EventHandler::HandleAceMessage
HandleHandlerMessage(l, s, m) ==
    CASE m.type = "SUBSCRIBED" ->
            IF l.repository[s] = "closed" THEN l
            ELSE SendMessage(l, CONF, Status(s, "load"))
      [] m.type = "UNSUBSCRIBED" -> SendMessage(l, CONF, Status(s, "unload"))
      [] m.type = "STOP_SERVICE" ->
            [SendMessage(l, "EventManager", From("UNSUBSCRIBE", s))
               EXCEPT !.repository[s] = "closed"]
      [] m.type = "SUSPEND_SERVICE" -> SendMessage(l, CONF, Status(s, "suspend"))

-----------------------------------------------------------------------------
(* The reactor thread.                                                     *)

\* handle_output: a closed service no longer takes messages, but an event
\* handler does, until it is removed.
ShouldPass(l, s) ==
    l.queue[s] # <<>> /\ (s \in Handler \/ l.repository[s] # "closed")

\* Notifications are served first come first served; one whose service has
\* nothing left to do is skipped.
Served(l) ==
    LET todo == {i \in DOMAIN l.notify : ShouldPass(l, l.notify[i])}
    IN IF todo = {} THEN [l EXCEPT !.notify = <<>>]
       ELSE LET i == CHOOSE i \in todo : \A j \in todo : i <= j
            IN [l EXCEPT !.notify = SubSeq(@, i, Len(@))]

\* The reactor calls handle_output of s, or that is already running.
Dispatched(s) ==
    /\ \/ running = s
       \/ /\ running = None /\ ~lms.asleep /\ ~lms.ended
          /\ lms.notify # <<>> /\ Head(lms.notify) = s
    /\ ShouldPass(lms, s)

\* The state in which the next message of s is handled.
Taken(s) ==
    [lms EXCEPT !.queue[s] = Tail(@),
                !.notify = IF running = None THEN Tail(@) ELSE @]

\* handle_output goes on until the queue is empty.
Handled(s, l) ==
    IF ShouldPass(l, s) THEN lms' = l /\ running' = s
                        ELSE lms' = Served(l) /\ running' = None

\* What the world answers: the services that should not be loaded, the ones
\* that cannot be, and the outcome of a scan.
World ==
    [off : SUBSET CheckLoad, bad : SUBSET MayFail,
     scan : IF env.present THEN ScanResults ELSE {"noMei"}]

ConfiguratorStep ==
    /\ Dispatched(CONF)
    /\ \E w \in World :
          Handled(CONF, HandleConfMessage(Taken(CONF), w, Head(lms.queue[CONF])))
    /\ UNCHANGED env

ServiceStep(s) ==
    /\ Dispatched(s)
    /\ LET m == Head(lms.queue[s]) IN
       Handled(s, CASE s = "EventManager" -> HandleManagerMessage(Taken(s), m)
                    [] s \in Handler -> HandleHandlerMessage(Taken(s), s, m)
                    [] OTHER -> HandleServiceMessage(Taken(s), s, m))
    /\ UNCHANGED env

\* handle_timeout of the scan.
ScanExpires == running = None /\ lms.scanTimer /\ ~lms.ended

\* Mutants: one scan more than NUM_RETRIES, and a count that starts anew.
ScanOnceMore ==
    /\ ScanExpires
    /\ \E w \in World :
          IF lms.scans <= NumRetries
          THEN lms' = [ScanConfiguration(lms, w) EXCEPT !.scans = @ + 1]
          ELSE lms' = TaskCompleted(StopAllServices(CancelTimers(lms), w, TRUE))
    /\ UNCHANGED <<running, env>>
ScanForever ==
    /\ ScanExpires
    /\ \E w \in World :
          IF lms.scans < NumRetries
          THEN lms' = [ScanConfiguration(lms, w) EXCEPT !.scans = @ + 1]
          ELSE lms' = [lms EXCEPT !.scans = 0]
    /\ UNCHANGED <<running, env>>

ScanTimeout ==
    /\ ScanExpires
    /\ \E w \in World :
          IF lms.scans < NumRetries
          THEN lms' = [ScanConfiguration(lms, w) EXCEPT !.scans = @ + 1]
          ELSE lms' = TaskCompleted(StopAllServices(CancelTimers(lms), w, TRUE))
    /\ UNCHANGED <<running, env>>

\* Mutant: the timer expires and nothing is put into the queue.
DeferredTimeoutSilent ==
    /\ running = None /\ lms.deferred /\ ~lms.ended
    /\ lms' = CancelTimers(lms)
    /\ UNCHANGED <<running, env>>

\* handle_timeout of the deferred resume.
DeferredResumeTimeout ==
    /\ running = None /\ lms.deferred /\ ~lms.ended
    /\ lms' = PutQ(CancelTimers(lms), CONF, Task("DEFERRED_RESUME"))
    /\ UNCHANGED <<running, env>>

-----------------------------------------------------------------------------
(* The other threads, and what makes the status event handler report.      *)

\* The status event handler tells the Configurator about a change (it is
\* dispatched, so no other service is running).
ReportChange(t) ==
    /\ running = None /\ ~lms.asleep /\ ~lms.ended
    /\ "StatusEventHandler" \in lms.loaded
    /\ lms.repository["StatusEventHandler"] = "active"
    /\ env.changes < MaxChanges
    /\ lms' = SendMessage(lms, CONF, t)
    /\ env' = [env EXCEPT !.changes = @ + 1]
    /\ UNCHANGED running

\* The thread of the Port Forwarding Service reports that it is connected to
\* the firmware, or that it no longer is.
ReportPortForwarding ==
    /\ lms.repository["PortForwarding"] # "absent" /\ ~lms.ended
    /\ env.pfw < MaxPfw
    /\ lms' = SendMessage(lms, CONF,
                 Task(IF env.up THEN "PFW_STOPPED" ELSE "PFW_STARTED"))
    /\ env' = [env EXCEPT !.pfw = @ + 1, !.up = ~@]
    /\ UNCHANGED running

\* GmsService::stop, from the signal handler.
Stop ==
    /\ ~env.stop /\ ~lms.ended
    /\ lms' = SendMessage(lms, CONF, Task("STOP"))
    /\ env' = [env EXCEPT !.stop = Reachable(lms, CONF)]
    /\ UNCHANGED running

\* Every message has been handled and no task is in process.
Settled ==
    /\ running = None /\ lms.inProcess = None
    /\ \A s \in Components : lms.queue[s] = <<>>

\* GmsService::suspend, GmsService::resume and the unlock of the session.
PowerEvent ==
    /\ env.power < MaxPower /\ ~lms.ended
    /\ \/ /\ Settled \/ Overlap
          /\ lms' = SendMessage(lms, CONF, Task("SUSPEND"))
          /\ env' = [env EXCEPT !.power = @ + 1, !.suspended = TRUE]
       \/ /\ Settled \/ Overlap
          /\ lms' = LET awake == [lms EXCEPT !.asleep = FALSE,
                                             !.repository[CONF] = "active"]
                    IN SendMessage(SendMessage(awake, CONF,
                                               Status(CONF, "resume")),
                                   CONF, Task("RESUME"))
          /\ env' = [env EXCEPT !.power = @ + 1, !.suspended = FALSE]
       \/ /\ lms' = SendMessage(lms, CONF, Task("UNLOCK"))
          /\ env' = [env EXCEPT !.power = @ + 1]
    /\ UNCHANGED running

\* The MEI device is removed or arrives (GmsService::handle_control).
\* Arrival and removal of another device go no further than sServiceCtrlHandler.
DeviceEvent ==
    /\ env.device < MaxDevice /\ ~lms.ended
    /\ Settled \/ Overlap
    /\ lms' = SendMessage(lms, CONF,
                 Task(IF env.present THEN "DEVICE_REMOVED" ELSE "DEVICE_ARRIVAL"))
    /\ env' = [env EXCEPT !.device = @ + 1, !.present = ~@]
    /\ UNCHANGED running

-----------------------------------------------------------------------------
\* GmsService::svc has started the Configurator and sent it the start task.
Init ==
    /\ lms = [loaded |-> {}, active |-> {}, locked |-> {}, toLoad |-> {},
              waitPfw |-> {}, waiting |-> [op \in Op |-> {}],
              inProcess |-> None, onToggle |-> FALSE, toggled |-> None,
              nextTasks |-> <<>>, needToStop |-> FALSE, pfwStarted |-> FALSE,
              scans |-> 0, scanTimer |-> FALSE, deferred |-> FALSE,
              repository |-> [s \in Components |->
                                 IF s = CONF THEN "active" ELSE "absent"],
              queue |-> [s \in Components |->
                            IF s = CONF THEN <<Task("START")>> ELSE <<>>],
              notify |-> <<CONF>>,
              handlers |-> {}, asleep |-> FALSE, ended |-> FALSE]
    /\ running = None
    /\ \E present \in PresentAtStart :
          env = [stop |-> FALSE, changes |-> 0, pfw |-> 0, up |-> FALSE,
                 suspended |-> FALSE, power |-> 0, device |-> 0, present |-> present]

Dispatch == ConfiguratorStep \/ \E s \in Service : ServiceStep(s)

Reactor ==
    \/ Dispatch
    \/ ScanTimeout
    \/ DeferredResumeTimeout

Next ==
    \/ Reactor
    \/ \E t \in Changes : ReportChange(t)
    \/ ReportPortForwarding
    \/ Stop
    \/ PowerEvent
    \/ DeviceEvent

Spec == Init /\ [][Next]_vars

\* The reactor's loop runs until it is ended: it serves the notifications in
\* their order, and its timers once they have expired. The second conjunct is
\* the weak fairness of Dispatch with ENABLED written out: the handlers are
\* total, so a dispatch is possible exactly when Dispatched holds.
CanDispatch == \E s \in Components : Dispatched(s)

Fairness ==
    /\ WF_vars(DeferredResumeTimeout)
    /\ []<>~CanDispatch \/ []<><<Dispatch>>_vars
    /\ []<>~ScanExpires \/ []<><<ScanTimeout>>_vars

FairSpec == Spec /\ Fairness

-----------------------------------------------------------------------------
(* Properties.                                                             *)

\* A service is loaded only together with the services it cannot do without
\* (ReadAbsoluteDependencies): the batch commands keep the order when loads,
\* unloads and toggles of several tasks overlap.
DependenciesLoaded ==
    \A s \in lms.loaded : AbsoluteDependencies[s] \subseteq lms.loaded

\* The same for the services that are active, through suspends and resumes.
DependenciesActive ==
    \A s \in lms.active : AbsoluteDependencies[s] \subseteq lms.active

\* The message that will unlock s is on its way: LockService is undone by the
\* status message of the operation and by nothing else.
AnswerOnItsWay(s) ==
    \/ \E i \in DOMAIN lms.queue[CONF] :
          lms.queue[CONF][i].type = "STATUS" /\ lms.queue[CONF][i].service = s
    \/ lms.queue[s] # <<>>
    \/ \E i \in DOMAIN lms.queue["EventManager"] :
          lms.queue["EventManager"][i].type \in {"SUBSCRIBE", "UNSUBSCRIBE"}
          /\ lms.queue["EventManager"][i].service = s

\* No lock leaks: a locked service is skipped by every command, so one whose
\* answer got lost could never be stopped.
LockedIsAnswered == \A s \in lms.locked : AnswerOnItsWay(s)

\* Nobody waits for nobody: a service in a waiting set is only looked at again
\* when the status of another service arrives, so one must be expected.
WaitingIsWoken ==
    (\E op \in Op : lms.waiting[op] # {}) =>
        \/ lms.locked # {}
        \/ \E i \in DOMAIN lms.queue[CONF] : lms.queue[CONF][i].type = "STATUS"
        \/ lms.ended

Sequential == INSTANCE TaskQueue WITH
    pending <- lms.nextTasks \o Listed(lms.queue[CONF], Tasks),
    current <- lms.inProcess,
    busy    <- lms.locked # {} \/ (\E op \in Op : lms.waiting[op] # {}),
    closing <- lms.needToStop

\* The Configurator implements TaskQueue: tasks are started one at a time and
\* in order, and MB_TASK_COMPLETED arrives when the task's services are done.
SequentialTasks == Sequential!TaskSpec

\* A task in process ends.
TasksEnd == lms.inProcess # None ~> (lms.inProcess = None \/ lms.ended)

\* A stop that is executed ends the process, whatever the tasks before it left
\* behind.
StopEnds == lms.needToStop ~> lms.ended

\* The process ends when every service has been removed, and not before.
EndedIsClean ==
    lms.ended => \A s \in Service : lms.repository[s] = "absent"

\* The scan does not go on for ever: its timer is cancelled.
ScanEnds == lms.scanTimer ~> ~lms.scanTimer

\* After a resume every service is active again, at once or when the deferred
\* resume is due, unless another suspend, a stop or the removal of the device
\* comes in between.
AwakeAgain ==
    ~env.suspended ~> \/ lms.active = lms.loaded
                      \/ env.suspended \/ env.stop \/ env.device > 0

\* The Configurator suspends itself only when no service is active.
SleepsWhenSuspended == lms.asleep => lms.active = {}
=============================================================================
