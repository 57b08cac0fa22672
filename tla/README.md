# A verification of LMS, the Intel Local Management Service

LMS connects programs on a PC to the manageability firmware (Intel ME) of the
same PC. Its heart is port forwarding: local TCP connections to the AMT ports
are carried, as channels of the APF protocol, over the MEI driver to the LME
client of the firmware. Around it stand services that react to firmware events.

This directory holds TLA+ modules translated from the C++ source, TLC
configurations that check them on small instances, and proofs that TLAPS checks
for every value of the constants. `PROJECT.json` lists, for each definition,
the lines it translates.

| file | what it is |
| --- | --- |
| `Protocol.tla` | port forwarding: its tables, locks and threads |
| `FirmwareView.tla` | what it promises the firmware about channels; `Protocol` is shown to implement it |
| `MCProtocol.tla`, `MCProtocol*.cfg` | five instances of it |
| `Lifecycle.tla` | the loop that connects and reconnects, stop, suspend, broadcasts |
| `MCLifecycle.tla`, `MCLifecycle*.cfg` | three instances of it |
| `Configurator.tla` | the Configurator: its tasks, the services it loads, suspends and stops, its timers |
| `TaskQueue.tla` | what it promises: one task at a time, in order; `Configurator` is shown to implement it |
| `MCConfigurator.tla`, `MCConfigurator*.cfg` | three instances of it |
| `StatusEvents.tla`, `MCStatusEvents.cfg` | the status event handler, the event manager and the registry |
| `LifecycleProofs.tla` | theorems about `Lifecycle` |
| `ProtocolProofs.tla` | theorems about `Protocol`: types, sockets, windows |
| `ProtocolRequestsProofs.tla` | counts of channels, the life of the requests |
| `ProtocolWakeProofs.tla` | wake-ups of `select()` |
| `ProtocolViewProofs.tla` | `Protocol` implements `FirmwareView` |
| `StatusEventsProofs.tla` | theorems about `StatusEvents` |
| `ConfiguratorProofs.tla` | types of `Configurator`; batch commands as loops, the conversation with a service |
| `ConfiguratorTasksProofs.tla` | theorems about its tasks |

To check an instance: `tlc -workers 2 -config MCProtocolWindow.cfg MCProtocol`.
To check the proofs: `tlapm LifecycleProofs.tla`, and the same for the other `*Proofs.tla`.

## 1. Inventory of the system

All paths are under `src/UNS/` unless they begin with `src/`.

### PortForwardingService

`Protocol.cpp`, with `Channel.h` and `PortForwardRequest.h`.

* State: `_openPorts` (port -> list of `PortForwardRequest`, each with status,
  channel count and the listening sockets it shares with the others of its
  port), `_openChannels` (socket -> `Channel` with status, transmit window and
  the request it was accepted for), `_handshakingStatus`, `_pfwdService`, the
  signal pipe, `_sockets_active`, `_rxSocketBuffer`, and one lock for each
  group.
* Operations: `Init`, `Deinit`, `CreateSockets`, `Select` with
  `_acceptConnection` and `_rxFromSocket`, and `_LmeReceive` with a handler for
  each APF message.
* Hard: five kinds of thread share the tables; each operation is several lock
  sections; `Deinit` runs on any thread; sockets are known by descriptor
  numbers, which the kernel reuses; the select loop must be woken for every
  change it should see.
* Correct when: no socket is leaked or closed under another owner, a request
  object lives as long as its channels and no longer, the window the firmware
  grants is respected, and no wake-up is lost.

`LMEConnection.cpp`

* State: `_initState`, the MEI handle, `_rxThread`, the cancel mark that ACE
  keeps for each thread, `_selfDisconnect`.
* Operations: `Init` (open, spawn the receive thread, wait for the port),
  `Deinit`, `Disconnect`, `_doRX`, and one sender for each APF message.
* Hard: a receive thread can outlive its connection and find the next one.
* Correct when: a connection that is up has one reader that was not cancelled.

`PortForwardingService.cpp`

* State: `m_suspended`, the broadcast flags, and the locals of `svc()`.
* Operations: `svc()`, `suspend`, `resume`, `BroadcastActive`,
  `BroadcastFailure`, `OnStop`, MEI enable and disable.
* Hard: flags shared without a lock, a wait with no timeout in `OnStop`, retries.
* Correct when: what the Configurator was told agrees with the flags, the loop
  ends when it is asked to, and failures are retried a bounded number of times.

`AdapterListInfoLinux.cpp` keeps the adapters and their DNS suffixes, and has a
netlink thread that calls `_AdapterCallback`. `SoapHandler.cpp` and
`CimToEventTranslator.cpp` turn a SOAP message that arrives on a channel into
an alert.

### Configurator, GMS_COMMON

`Configurator/`, with `GMS_COMMON/GmsService.cpp`, `GmsSubService.cpp` and
`EventHandler.cpp`.

* State: the queue of tasks that wait while one is in process
  (`m_taskQueue`, `m_inProcess`), the services that are to be loaded, loaded,
  active, and that wait for port forwarding (`LoadedServices`), the lists of
  services that wait to be loaded, unloaded, suspended or resumed
  (`AsyncActivationManager`), two timers on one handler, the scan counter, and
  the service repository of ACE, which knows what is suspended.
* Operations: `ExecuteTask` (start, stop, suspend, resume, deferred resume,
  unlock, port forwarding started and stopped, configuration changes, device
  arrival and removal), `TaskCompleted`, `ScanConfiguration`, the batch commands,
  `ChangeServiceState` on each answer of a service, `handle_timeout`.
* Hard: a task that completes twice or never; a batch that goes on in the
  answers of other services; a message to a suspended service is dropped; two
  timers that cancel each other; suspend and stop that overlap.
* Correct when: one task runs at a time, every task ends, a service starts after
  all it depends on and stops before them, and a stop ends the process.

### EventManager and the event handlers

`EventManager/eventManager.cpp` keeps the subscribed handlers and publishes each
alert to those whose filter accepts it. `StatusEventHandler` keeps the last
known state of the firmware's features in the registry; the others write alerts
to COM, WMI, the Windows event log or a history file.

* State of `StatusEventHandler`: one registry value for each feature, which
  survives the process; `m_prevProvState`, `m_firstPullForEvents`.
* Operations: it saves the state that an alert tells; when it starts, is resumed,
  or port forwarding becomes available, it asks the firmware and raises an alert
  for every difference with the registry, which comes back to it through the
  event manager.
* Hard: alerts are lost, told twice, or wait in a queue while the firmware is
  asked; the process ends between two steps.
* Correct when: the registry follows the firmware, and a change is announced once.

### Services that react to events

`TimeSyncService`, `WiFiProfileSyncService`, `PartialFWUpdateService`,
`SharedStaticIPService`, `IPRefreshService`, `HostChangesNotificationService`,
`PowerOperationsService`: timers, one firmware or OS call per event, and in the
first three a state that says whether a sync is due.

### The rest

Interfaces (`AMT_COM_Interface`, `DBusService`, `DataInterfaceBackend`),
`src/MEIClient`, `src/WsmanClient`, `src/MEWMIProv`: a request, one call of the
firmware, an answer. `src/CIM_Framework` is generated code and the vendored
openwsman.

### How they interact

The Configurator loads services and sends them suspend, resume and stop through
the reactor of `GmsService`; port forwarding tells it `STARTED` and `STOPPED`,
on which services that need WS-Man are loaded or suspended. The firmware's
events reach `SoapHandler` on a channel, become alerts, and go through
`EventManager` to the handlers.

## 2. Protocol

### State and steps

A step is what a thread does while it holds a lock, or between two locks.

| thread | code | labels of `pc` |
| --- | --- | --- |
| `"main"` | `LMS_Thread_Impl::svc`, `Protocol::Init`, `Select` | `top`, `i...`, `sockets`, `sel...`, `accept`, `rxLoop`, `recv`, `apply`, `d...` |
| `RxThreads` | `LMEConnection::_doRX` and `_LmeReceive` | `dead`, `receive`, `check`, `service`, `forward`, `closeRequest`, `remote`, `signal...`, `d...` |
| `SvcThreads` | callers of `OnHeciDisable` | `idle`, `d...` |
| `"adapter"` | the thread of `AdapterListInfo` | `off`, `idle`, `signal` |

* `requests` are the `PortForwardRequest` objects. `_openPorts[port]` is
  `RequestsAt(port)`. An empty list and no list are not told apart: every
  reader of the map treats them alike. `sock` stands for the vector of
  listening sockets of a port, which its requests share.
* `channels` is `_openChannels`, keyed by descriptor. `credit` is not in the
  code: it is the firmware's side of the window.
* `openFds` is the kernel's table; `FreeFds` may be given out at once, as the
  kernel does, which is what makes stale descriptors visible.
* `portsLock`, `channelsLock` and `versionLock` have an owner only when a lock
  is kept from one step to the next: by main between two accepts, by a thread
  whose send into the full pipe blocks, by a receive thread that runs `Deinit`
  from the flow check.
* `Deinit` is five steps (`dLme`, `dPipe`, `dChannels`, `dPorts`, `dReset`), and
  any thread but the adapter's may be in it.
* `_initLock` has no variable: a thread holds it between steps only while the
  last signal of a receive thread blocks (`LMEConnection.cpp:166-177`), and
  `InitLockFree` is the guard that says so, in the steps that need it: `Deinit`
  of the connection, `Init`, and what main sends. The replies that handlers
  send need it too and are not held up here, which only adds behaviours.
* A receive thread reads a message and passes `testcancel` in one step
  (`ReceiveMessage`), and `_checkProtocolFlow` looks at it in the next
  (`Receive`); a `Deinit` of another thread may come between.
* Every way in which `Init` fails is there: the HECI client (`InitConnect`), a
  receive thread that does not start in ten seconds and is left behind marked
  (`InitThreadLate`), the AMT port that is not forwarded (`InitWait`), the adapter
  list (`InitAdapterFails`), a buffer size that is not positive (`InitBuffer`). So
  is `CreateSockets` failing, after which the loop begins again.
* `reaped` and `overlap` are history: descriptors closed since main chose them;
  another thread was in `Deinit` or had a message when the receive thread was
  spawned (`SomeoneBusy`).

Abstracted: the bytes (counted), message layouts, the permission check of a
connection (both outcomes are possible in every state), the DNS suffix
comparison (`shared` is either), and the FQDN entry in the hosts file. A freed
request that is read through a dangling pointer reads as anything
(`DecreaseChannelCount`), and an address is not given out again while somebody
still points to it, so that a dangling pointer stays visible.

### Properties

| property | what it says |
| --- | --- |
| `TypeOK` | domains; a window is never negative |
| `FdsOwned` | open descriptors are exactly those of channels and acceptors, no owner shares one, requests share sockets within one port only |
| `CountCoversChannels` | the count of a request is at least its channels plus the opens that failed |
| `CancelledRequestsGoAway` | a cancelled request goes with its last channel, except for the named reasons |
| `ChannelsPointToRequests` | no channel points to a freed request, unless the receive thread was spawned while another thread was busy with the connection before |
| `RequestFreedUnused` | a step frees a request only in `Deinit`, or when nothing points to it |
| `WindowNotOverdrawn` | the firmware never gets more bytes than it granted |
| `ChannelsAsPromised` | `Protocol` implements `FirmwareView` |
| `SelectWatchesAll` | while main waits and the pipe is empty, every acceptor and readable channel is watched |
| `NoDataFromSoapChannel` (violated) | main never goes to read from the dummy socket of a SOAP channel |

Two of them name an exception that the code really has. `CancelledRequestsGoAway`
excepts a request whose open could not be sent: its count was increased and is
never given back (`Protocol.cpp:745`). `ChannelsPointToRequests` and
`RequestFreedUnused` except an `overlap`: a receive thread that has a message,
or any thread in `Deinit`, when main spawns the next receive thread can free the
new connection's requests or leave its channels behind.

`FirmwareView` is the promise to the firmware: a channel is asked for or opened,
confirmed, granted window, sent data, asked to be closed, closed; data never
exceeds the window and never follows the request to close, unless the firmware
confirms the channel again (`OPEN_CONFIRMATION` sets `OPEN` whatever the status
was); one channel changes at a time, except when the session ends.
`ChannelView` maps the table of channels to it. `_rxFromSocket` sends without
looking at the status again, and a close may be asked for on behalf of a channel
that took the descriptor of another (the `reuse` run), so the promise allows a
close from every state, and its part about data takes the whole of `Select` to
keep.

### Runs

| run | instance | shows |
| --- | --- | --- |
| `window` | windows up to 2, credit up to 3, grants of 0 and 2 | types, the firmware's window, wake-ups, `FirmwareView` |
| `remote` | 2 ports, 2 requests that may share one, local and remote tunnels, opens that fail, no data | sockets, counts, cancelled requests |
| `restart` | 2 receive threads: the old one still runs | pointers between channels and requests, sockets |
| `suspend` | a service thread that runs `Deinit` at any time | the same |
| `reuse` (violation) | 2 descriptors, windows of 1 | a descriptor that was selected is the dummy of a SOAP channel when main reads |

The bounds. Two descriptors are an acceptor and a channel, or two channels, and a
number that is closed is free to be given out again at once; two requests at one port are the
least that share sockets (`remote`); two receive threads are the old and the new connection's.
`PipeCap = 1` makes the pipe full after one signal, the earliest a send can
block. `MaxCredit` bounds the window a channel holds unused, not how much is sent
over time; `MaxFailed` bounds the opens that fail for one request. A credit above
`MaxWindow` is what makes `AddBytesTxWindow` saturate: in the `window` run a grant
of 2 on top of one byte that is left. A grant of 0 leaves an open channel without
a window. Requests and receive threads are symmetric; descriptors are not,
because the loop in `Select` starts at the lowest.

`CHECK_DEADLOCK FALSE`: the code can stand still. A thread whose signal blocks
under a lock that main needs before it reads the pipe waits for main and main
for it; and `accept()` on a reused blocking descriptor waits with `_portsLock`
held. Both are modelled (`SignalUnder`, `AcceptBlocks`) and listed as hazards.

## 3. Lifecycle

The loop of `svc()` and the state of the connection, without the tables. `pc`
follows the code: `top`, `tryInit`, `connect`, `portWait`, `failed`, `retry`,
`settle`, `sockets`, `active`, `selCall`, `select`. `failure` and `sendStopped`
are `BroadcastFailure`, `dLme`, `dPipe` and `dReset` are `Deinit`, and `goal`
says where main goes on after them. The flags of a broadcast change in one step
and the message is sent in another, since no lock covers both. `selectBlind` is
a select whose pipe had been closed: `FD_SET` of -1 is undefined.

| property | what it says |
| --- | --- |
| `TypeOK` | domains; the retry counter stays within `MAX_CONNECT_RETRIES` |
| `ConnectedHasReader` | a connection that is up has its receive thread, not cancelled |
| `OneReader` | every other receive thread is dead, ending, or cancelled |
| `FlagMeansStopped` | the flag that mutes `BroadcastFailure` is on only when the last message was not `STARTED` |
| `EndedIsReported` | when the loop has ended, the last message was `STOPPED` |
| `GivesUp` | failures lead to a connection or the end of the loop, unless suspended |
| `StopReachesSelect` | `OnStop` that finds the loop in `select()` ends it |

| run | instance | shows |
| --- | --- | --- |
| `loop` | 2 receive threads, `OnStop`, fairness | broadcasts, retries, stop |
| `readers` | 3 receive threads, all service calls | types, one reader |
| `stop_lost` (violation) | `OnStop` while the loop connects | its signal is dropped |

Two receive threads are the old and the new one; the `readers` run has three, so
that an old one can meet two later connections. `MaxRetries = 2` is the least
with a failure that is counted and one that ends the loop.

`FlagMeansStopped` and `EndedIsReported` are checked without suspend: with it,
main and the service thread race for the flags and neither holds, since a
`STARTED` can be on its way while the other thread broadcasts the failure.

Fairness. `MainStep` and `SvcStep` are weakly fair: the threads are scheduled and
the waits in them are timed. A receive thread is fair in `Deinit`, in its last
signal, and in noticing that its connection is down, because the closed handle
makes its read fail. Nothing is assumed of the firmware, of the sockets
(`SelectActivity` is not in `MainStep`), of service calls, or of the success of a
connection.

`CHECK_DEADLOCK FALSE`: the loop may end, and may wait in `select()` for ever
when nothing happens.

The `catch (...)` of `_rxThreadFunc` (`LMEConnection.cpp:584`), which would end a
receive thread without `Deinit`, has no step: what is thrown below `_doRX` is
caught below it (`HECIException` in `_receiveMessage` and `_sendMessage`,
`std::exception` in `Protocol::Deinit`, `MEIClientException` around the AMTHI
calls). What is left is memory that cannot be allocated, and a mutex that fails,
which no module models anywhere.

## 4. Configurator and TaskQueue

### State and steps

One reactor thread runs every service. `lms` is the state of the process: the
repository of ACE (`absent`, `active`, `suspended` or `closed` for each
service), the message queues, the order of the reactor's notifications, the lists of `LoadedServices`
and `AsyncActivationManager`, the task in process and those that wait, and the
timers. `running` is the service whose queue the reactor is draining: a
`handle_output` takes one message at a time and other threads may send between
two of them. `env` counts what the outside does.

A handler is a function of `lms`: `HandleConfMessage(l, w, m)` is the state after
the whole of `HandleAceMessage`, every call in it included; `w` holds the answers
the outside gives during it. The handlers follow the code's names:
`ExecuteTask`, `UpdateConfiguration`, `ChangeServiceState`, `ScanConfiguration`,
`StartAceService`, `FiniAceService`. A batch command (`Execute`) visits the
services in order; one that is not ready is put on a waiting list, and is visited
again when another service has answered (`ContinueOrComplete`). The code calls
`Execute` again on the prerequisites of a service that is not ready; here they
come first in the list that is left, so that the batch is one loop, a recursive
function of the number of visits (`Visits`). `MaxVisits` bounds it: TLC needs
more than 40 visits in the instances below and no batch of theirs needs more
than the 80 they allow; the proofs hold for any bound.

Services: the event manager, two event handlers (DBus for those of its layer, and
the status event handler), port forwarding and two services that depend on it
(power operations, and time synchronization, which can be toggled), the host
changes service, and the dummies "first", "last", "AMT enable last" and
"waiting for PFW last", whose start ends a task. The other services repeat one of
these. Device events, the deferred resume and the unlock of the session exist on
Windows only and are modelled.

| property | what it says |
| --- | --- |
| `TypeOK` | domains; the scan counter stays within `NumRetries` |
| `DependenciesLoaded` | a service is loaded only with those it cannot do without |
| `DependenciesActive` | a service that is active finds those it depends on active |
| `LockedIsAnswered` | a service that was asked to change state has the request or the answer on its way |
| `WaitingIsWoken` | a service on a waiting list has somebody to wait for |
| `EndedIsClean` | when the process has ended, no service is left in the repository |
| `SleepsWhenSuspended` | the Configurator suspends itself only when no service is active |
| `SequentialTasks` | `Configurator` implements `TaskQueue` |
| `StopEnds`, `ScanEnds`, `AwakeAgain` | a stop ends the process; a scan that fails is given up; after a resume, deferred or not, every service is active again, unless a suspend, a stop or the removal of the device comes in between |
| `TasksEnd` (violated) | a task in process comes to its end |

`TaskQueue` is the promise: tasks start in the order in which they came, one at a
time, services change only on behalf of the task in process, and a task is over
when every service it touched has arrived. The refinement mapping (`Sequential`)
maps the tasks that were put aside (`nextTasks`) followed by those in the
Configurator's message queue to `pending`, the task in process to `current`, and
the services under way to `busy`.

| run | instance | shows |
| --- | --- | --- |
| `tasks` | toggles and AMT enable, port forwarding up and down, with or without the device at the start, stop at any time | dependencies, waiting lists, sequential tasks, the end |
| `power` | 3 power events, 2 device events, scans that fail, deferred resume | sleep and wake, timers |
| `pfw_last` (violation) | port forwarding up, down, up, and AMT enabled | the queue of tasks stands still |

The bounds. Three changes of port forwarding are up, down, up: the second start
is what finds old state. Two configuration changes are on and off, or two that
meet in the queue. Three power events are suspend, resume, and one more or an
unlock before the timer; two device events are removal and return.
`NumRetries = 1` is the least with a scan that is repeated and one that is given
up.

What the runs do not let happen, because the code does not keep the properties
then: a suspend, a resume or a device event that comes before the one before it
is over (`Overlap = TRUE`: both complete their task twice, and the second
completion ends another task); a service that fails to start (`MayFail`: the
task ends while others are under way); a configuration change that meets a
device event (it loads a service without what it depends on); and
`ME_ENABLE_CONF`, which is refused without completing its task. Each is in the
list of hazards.

A device event is on the GUID of the MEI device: the branch that would pass over
another one without completing its task (`Configurator.cpp:1166-1175`) is never
reached, since `AMT_COM_Interface.cpp:183-191` does not send such an event on.

Fairness. The reactor serves its notifications in order for as long as it runs,
and its timers when they have expired. The fairness of `Dispatch` and of
`ScanTimeout` is written without `ENABLED`, from the condition under which they
are possible, because `ENABLED` of a batch command is slow to evaluate. Nothing
is assumed of the outside. `CHECK_DEADLOCK FALSE`: a process that has ended, or
has nothing to do, stands still.

## 5. StatusEvents

`fw` is the firmware, `storage` the registry. A change goes as an alert over port
forwarding (`wire`), through the event manager (`managerQueue`, `ManagerStep`), to
the handler (`queue`, `HandlerStep`). A pull is a list of features still to be
asked, one `PullStep` for each firmware call, during which the firmware changes and
alerts arrive; the manager and the handler wait, because they share the reactor
thread. `life` is the process: `End` may come at any moment and leaves the
registry; `Suspend` and `Resume` are what the Configurator does, the handler
before the manager. `missed` is history: the features whose last change nobody
told the handler and that it has not asked for since.

Port forwarding comes and goes in three places that do not agree at every moment,
and the model keeps them apart. `link` is the connection: `down`, `connected`, or
`announced` once `BroadcastActive` ran. `pfwTasks` are the messages to the
Configurator, `STARTED` and `STOPPED`, each a task on the reactor thread.
`isPortForwardingStarted` is the Configurator's flag, which a pull asks for
(`StatusEventHandler.cpp:815`): it is set when `STARTED` is executed
(`PfwStarted`, which also sends `PFW_AVAILABLE`, dropped by a manager that is
suspended) and cleared only when `STOPPED` is (`PfwStopped`). In between a pull
still takes port forwarding to be up, asks, and gets no answer, because
WS-Management goes over the connection. `needBroadcast` is what mutes the second
of two messages of a kind.

The features stand for their kinds: SOL for those that are only saved, TIME_SYNC
for those that are asked with WS-Management, AMT (three states, and an answer on
which the pull depends), system defense (its alert carries no state), and
provisioning (announcements that depend on the state before).

| property | what it says |
| --- | --- |
| `TypeOK` | domains; a registry value is a state of its feature |
| `QuietAgrees` | when nothing is under way the registry agrees with the firmware, except for `missed` features |
| `ConfiguredAlternates` | "configured" and "unconfigured" are announced in turn, across restarts and double telling |
| `StartedIsCurrent` | with port forwarding announced, its last message handled and nothing under way, what is asked for over it is current |

`QuietAgrees` names an exception that the code has (`Waiting`): a pull that finds
no difference while an older alert waits in a queue is undone by that alert, and
the registry stays old until the next pull. Another is in what `missed` keeps:
after a loss of the connection only the features behind WS-Management are asked
for again (`StatusEventHandler.cpp:575`); a change of the others in between stays
unknown until the next resume or start.

`StartedIsCurrent` speaks of a connection that was announced. A disconnect that
LMS makes itself is not told (`PortForwardingService.cpp:140`), so
`BroadcastActive` takes the next connection for the old one, returns at once
(line 328), and nobody asks for what changed in between. `BroadcastFailure` is
not forced in the model, which then stays at `connected`.

The run `status` has two changes, one end or suspend, two connections, and
firmware that may not answer for AMT and system defense. Two changes are there
and back, which an old alert or an old registry value confuses; with a registry of an earlier life
as one of the initial states they are also enough for "configured" to be said
twice. Two connections are a loss and a return. `CHECK_DEADLOCK FALSE`: nothing
more may happen.

## 6. What the violated runs show

Each states what a comment of the source says.

* `reuse`: where `_rxFromSocket` finds a `SoapChannel` under the descriptor it
  is to read, the comment says "Should not happen, we can't receive data from
  unconnected SOAP socket" (`Protocol.cpp:970`). It does not need data: main
  selects a channel to a local server, the receive thread closes that channel
  and opens a SOAP channel, whose dummy socket gets the number that was just
  freed, and main then looks the old number up. The code returns and nothing is
  lost; the comment is wrong about what can happen.
* `stop_lost`: `OnStop` signals so that the loop leaves `select()` and sees the
  cancel (`PortForwardingService.cpp:428`). While the loop is in `Init` or in
  the half second after it, `_sockets_active` is false and the signal is
  dropped; the loop then opens the pipe and waits, and `OnStop` waits for it
  until some other socket is ready.
* `pfw_last`: the services that waited for port forwarding are loaded with the
  dummy `WAITING_FOR_PFW_LAST_SERVICE`, whose start should end the task
  (`Configurator.cpp:1069`). When port forwarding has been up before, and AMT is
  enabled while it is down, the dummy is still loaded at the second start: it
  does not start again, the task never ends, and every later task waits behind
  it, the stop of the process included.

Seen in the source and not stated as a run: when the new channel is one with a
socket, `_rxFromSocket` does not notice, and the new channel loses window or is
marked `WAITING_CLOSE` for what happened to the old one (the firmware's window is
still respected: `WindowNotOverdrawn` passes); `Deinit(true)` signals so that the
loop reinitializes (`LMEConnection.cpp:161`), and in the interval of `stop_lost`
that signal is dropped too; after the last retry the failure should reach the
event log (`PortForwardingService.cpp:127`, `:188`), but `BroadcastFailure`
returns at once when the loss of the connection was already broadcast.

## 7. What is proved

`LifecycleProofs.tla` proves, for any set of receive threads, any
`MAX_CONNECT_RETRIES` above zero and any capacity of the pipe
(`LifecycleAssumption`):

* `TypeCorrect`: `Spec => []TypeOK`. `TypeOK` is inductive. It is proved in three
  parts, `FlagsOK` (Booleans), `PcOK` (labels) and `DataOK`, one step per action;
  `GotoTyped` is the lemma for every step that only moves a thread.
* `ReaderOfConnection`: `Spec => []ConnectedHasReader`.
* `SingleReader`: `Spec => []OneReader`.

The last two are not inductive. `ConnectedHasReader` could be lost when a new
connection gets a thread that still carries a cancel mark, `OneReader` when main
connects while the last reader still reads unmarked. `ReaderInv` adds what rules
this out: `MarkedRuns` (a dead thread has no mark), `DownIsTold` (when the
connection is down, its last reader is dead, at its end, or marked) and
`ConnectsFromDown` (main, on its way through `Deinit` to `Connect`, finds the
connection down, since nobody else connects). `ReaderInv` is inductive relative to
`TypeOK`. A step is one of four kinds, each with a lemma: it takes the connection
down (`ReaderDown`), ends a receive thread (`ReaderDie`), connects
(`ReaderConnect`), or only moves a thread (`ReaderGoto`).

Where nobody suspends (`"suspend" \notin SvcCalls`, as in the `loop` run):

* `FlagTellsTheTruth`: `[]FlagMeansStopped`, and `EndIsTold`:
  `[]EndedIsReported`. `ReportInv` says who may broadcast (main alone), what the
  flag and the last message are before, between and after the two steps of a
  broadcast, and that the loop does not leave without the flag. The hypothesis is
  needed: `suspend` broadcasts from the service thread, between the flag and
  the message of main's broadcast too, and TLC finds both properties violated then.

`ProtocolProofs.tla` proves, for any sets of ports, addresses, requests, threads
and descriptors, any grants and window sizes (`ThreadsAssumption`,
`BoundsAssumption`, `NoneAssumption`):

* `TypeCorrect`: `Spec => []TypeOK`. `TypeOK` alone is not inductive: `RxApply`
  writes to the channel of `current`, which must still be there. `TypeInv` adds
  `Working`, that while main reads from a channel its descriptor has that
  channel or was closed since main chose it.
* `Ownership`: `Spec => []FdsOwned`. `FdsOwned` is inductive relative to
  `TypeInv`. One lemma per kind of change of the tables (`OwnedKept`,
  `OwnedOpened`, `OwnedClosed`, `OwnedRequested`, `OwnedDeleted`, `OwnedAccess`)
  does the work, one step per action applies it.
* `WindowRespected`: `Spec => []WindowNotOverdrawn`. Between `recv()` and
  `RemoveBytesTxWindow` the code's window is larger than what the firmware still
  allows. `WindowInv` says by how much: `Drawn(f)` are the bytes main has read
  from `f` and not yet taken off, as long as `f` is still the channel main chose.
  Then `tx <= credit + Drawn` and `credit >= 0`. Other threads only widen a
  window by what was granted, open a channel or close one (`WindowChanged`).
  `Ownership` is needed: a new channel never gets the descriptor main is reading
  from unless that one was closed, and then nothing counts as drawn.

`ProtocolRequestsProofs.tla`, from the same assumptions (of `BoundsAssumption`
it needs that `Fds` is finite, to count channels):

* `CountsCover`: `Spec => []CountCoversChannels`, and `CancelledGoAway`:
  `Spec => []CancelledRequestsGoAway`. The two are proved together. A count that
  only covers the channels could stay above zero after the last one is gone, and
  the cancelled request with it; so `CountInv` adds `CountExact`, that the count
  is exact except between the two halves of a `Deinit`. `RetainInv` says that
  `closePortForwardRequest` is set between the two lock sections only.
* `PointersHold`: `Spec => []ChannelsPointToRequests`. Whether a request may be
  freed depends on who else runs. `ControlInv` is about that alone: only the last
  receive thread takes messages and none after the connection is down; main
  connects only when it is down; and, unless threads overlapped, no `Deinit` that
  took the connection down still runs when it is up. On top of it `RefInv` says
  that where a step is about to free requests (`Deinit` at `dPorts`, a retained
  request that is not active) no channel points to them.
* `FreedUnused`: `Spec => RequestFreedUnused`, an action property, from the same
  two invariants.

`ProtocolWakeProofs.tla`:

* `WakeUpsKept`: `Spec => []SelectWatchesAll`. The property speaks of main in
  `select()`; `WatchInv` says the same on the way there, for what main has looked
  up so far, as long as the pipe is empty. A step of another thread leaves a byte
  in the pipe (or a full pipe, or a closed one), or there is no more to watch than
  before.

`ProtocolViewProofs.tla`:

* `ViewKept`: `Spec => ChannelsAsPromised`, the refinement of `FirmwareView`. A
  step leaves the table of channels alone or changes it in one of five ways
  (`Changes`), each a step of `FirmwareView` (`ChangesSeen`); main's two steps in
  `_rxFromSocket` are done apart (`SelectSeen`). Data within the window follows
  from `WindowInv`. No data after the request to close needs `SendInv`: no socket
  that main still has to look at, nor the one it reads from, belongs to a channel
  that waits for its close.

`StatusEventsProofs.tla` proves, for any features that may fail to answer and any
numbers of changes, lives and connections:

* `TypeCorrect`: `Spec => []TypeOK`. `DataInv` is inductive: it also says which
  messages travel and that what is left of a pull is an end of one of the two
  lists of questions.
* `AnnouncedInTurn`: `Spec => []ConfiguredAlternates`. `m_prevProvState` dies with
  the process and the registry does not, so `AnnounceInv` ties the last
  announcement to the registry (`AnnouncedIsSaved`), and to the handler's memory
  once it has read it, which it does before anything else: the first message of
  every life is `SRVICE_UP` (`FirstIsUp`).
* `RegistryAgrees`: `Spec => []QuietAgrees`. `Fresh(f)` is what holds before
  everything is handled: the newest alert of `f` under way, on the wire, in the
  manager's queue or in the handler's, has the firmware's state, or there is none
  and the registry has it. `AgreeInv` keeps it for every feature that is not in
  `missed` (`FreshKept`, `FreshGained`), also through a pull that found AMT absent
  (`PullRemembers`, `AbsentIsStill`).
* `GapsMadeGood`: where the firmware answers for time synchronization
  (`"TIME_SYNC" \notin MayFail`), `Spec => []StartedIsCurrent`. `missed` is too
  coarse here. `FlagFollows` says that the last message to the Configurator, or its
  flag when no message is left, agrees with `needBroadcast`, which is off while
  the connection is announced. `GapIsAsked` says that an old state while port forwarding is
  started has its question under way, behind every alert that could still be
  wrong: `PFW_AVAILABLE` in a queue, its pull running, or a pull that got no
  answer for AMT, which the property excepts. Without the hypothesis the question
  may fail and nothing repeats it.

`ConfiguratorProofs.tla` proves, for any constants (`ConfiguratorConstants`):

* `TypeCorrect`: `Spec => []TypeOK`. A handler is a chain of functions of `lms`,
  each with a lemma that it keeps the domains. The loops are recursive functions
  on the numbers: that they exist (`Recursion`) is proved from the
  well-foundedness of `<`, since the library's theorem about them takes an
  operator as a parameter. `ExecuteRule` is the rule for a batch command: what
  holds at the start and is kept by every visit holds at the end. Everything
  below uses it with an invariant of its own.

`ConfiguratorTasksProofs.tla` proves, where no service fails to start, nobody
suspends or resumes and the device stays (`CalmWorld`, which the `tasks` run
satisfies), for any configuration changes, any answers about the services that
are wanted, any scan results and any bounds:

* `DependenciesKept`: `Spec => []DependenciesLoaded`,
* `LocksAnswered`: `Spec => []LockedIsAnswered`,
* `EndClean`: `Spec => []EndedIsClean`,
* `TasksInOrder`: `Spec => SequentialTasks`, the refinement of `TaskQueue`.

None of the first three is inductive, and they need each other. `Sane` (`CalmSane`:
`Spec => []Sane(lms)`) has these parts:

* `Wire`: for each service, `Converse` lists where the conversation with the
  Configurator can stand: whether it is loaded and locked, its state in the
  repository, whether the event manager knows it and which single message is
  under way. It is stronger than `LockedIsAnswered`, which is lost when a message
  is dropped because its receiver is gone. `Depend` is stronger than
  `DependenciesLoaded`: what a service needs is loaded and is not being
  unloaded, for the locked services too.
* `Calm`: nobody sleeps, what is loaded is active.
* `Tasking`: while no stop was executed (`Open`), what each task in process
  allows: between two tasks nothing is locked or waits, and the services that
  are loaded are those to be loaded (`Rest`); during a task that loads, what is
  locked has its prerequisites and only services in the scope of the task take
  part (`Loading`); during the task that switches time synchronization off, it
  alone is unloaded (`Unloading`); `TASK_COMPLETED` is under way at most once.
  After a stop (`Closing`), services are only unloaded. `Wanted` and `Begun` say
  which tasks can come before the first scan.

The hypotheses are needed. A service that fails to start ends the task while
others are under way; an overlapping suspend or resume ends another task. In
both cases `Rest` is lost, and TLC finds states that break the properties (see
the hazards). The proof follows the calls: one lemma for each function, what it
keeps of each part.

The refinement is proved from `Sane`. `Follows(l, m)` is the disjunction of the
actions of `TaskQueue` between two states of the record, written with what the
mapping reads: `Pending` (the tasks put aside, then `Posted`, those in the
message queue), `inProcess`, `Busy` and `needToStop`. Most functions change
nothing of this, or nothing but the locks: `Kept` says so, again with one lemma
for each function, and `Still` says that the locks stay too, which is true of
every step of the other services (`ServiceStepStill`: their messages to the
Configurator are no tasks). What is left are the Configurator's own steps. A task
taken from the queue starts or is put aside (`TaskFollows`), the end of a task
starts the one that waits longest (`EndFollows`), a status is work for the task in
process (`StatusFollows`), a request is appended (`RequestFollows`). `Sane` is
needed twice: a status comes from a service that is locked, so that a task is in
process; and `TASK_COMPLETED` is announced only when nothing is locked or waits.
The facts about lists that this takes are lemmas of their own (`ListedAppend`,
`ListedTail`, `ConcatMove`, `ConcatTailDrop`, `ConcatHeadDrop`), by induction on
the length where a list is filtered.

A convention of the modules: an update of several fields of one entry is written
`![f] = [@ EXCEPT !.a = .., !.b = ..]`. tlapm 1.4.5 mistranslates two updates of
the same entry in one EXCEPT (`![f].a = .., ![f].b = ..`) and then proves false
statements, so that form is avoided.

Only model-checked: all liveness (`GivesUp`, `StopReachesSelect`, `StopEnds`,
`ScanEnds`, `AwakeAgain` and the violated ones), since TLAPS has no rule for
fairness here; the violated properties; and of `Configurator`,

* `WaitingIsWoken`. Unlike what is proved, it depends on `MaxVisits`: a
  batch that is cut off leaves services waiting whose prerequisites nobody
  visited (TLC finds the property violated with 20 visits in the `tasks`
  instance, and not with 40, 60 or 80). The code has no such bound, so the
  theorem needs a number of visits after which every batch is over, for lists and
  waiting services of any kind, and an invariant about the order of the services,
  that what a waiting service needs is loaded, locked or waiting too;
* `DependenciesActive` and `SleepsWhenSuspended`, which speak of suspend and
  resume: `CalmWorld` excludes both, and what keeps them in the `power` run is
  `Overlap = FALSE`, an assumption about the order of the world's events.

Every other property of a run is a theorem.


## 8. Plan

Done: port forwarding (`Protocol`, `Lifecycle`) with its abstract specification,
the Configurator with its own, the status event handler with the event manager,
the proofs of every invariant and action property of `Protocol`, `Lifecycle`
and `StatusEvents`, and those of `Configurator` where nobody suspends, with the
refinement of `TaskQueue`. What is left, in this order:

1. `Configurator`: `WaitingIsWoken`; then suspend and resume, with
   `Overlap = FALSE` in the invariant.
2. `TimeSyncService`, `WiFiProfileSyncService` and `PartialFWUpdateService`, the
   services that keep a state of their own; the parsing states of `SoapHandler`.

## 9. Not modelled, and why

Message layouts, formatting and logging; WS-Man, COM, D-Bus and WMI adapters,
which turn one request into one call and keep no state; Windows device
registration; memory other than the request objects. In the status event handler,
KVM, user consent, WLAN, IP synchronization, agent presence, boot reason and
display settings: more features of the kinds that are modelled, or I/O.

Most of the repository's lines are not the program's own logic and have no
states to check: `src/CIM_Framework` is one generated class per CIM type, their
serializer and the vendored openwsman; `src/WsmanClient`, `src/MEIClient` and
`src/MEWMIProv` are one class per command, which encodes a request and decodes
its answer. The modules cover the parts that run concurrently and keep state
(port forwarding, the Configurator, the event manager and the status handler);
the share of all lines is small and cannot be made large by faithful models.

The components and the reasons are listed one by one in `PROJECT.json`, and so
are the hazards that no property covers.
