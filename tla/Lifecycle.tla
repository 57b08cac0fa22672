----------------------------- MODULE Lifecycle -----------------------------
(***************************************************************************)
(* The life of the port forwarding connection: the loop of LMS_Thread_Impl *)
(* (UNS/PortForwardingService/PortForwardingService.cpp), the connection   *)
(* state of LMEConnection.cpp and the signal pipe of Protocol.cpp that     *)
(* wakes the loop.  The tables of Protocol are left out here (module       *)
(* Protocol has them); what the loop tells the Configurator is kept.       *)
(*                                                                         *)
(*   "main"      LMS_Thread_Impl::svc                                      *)
(*   RxThreads   LMEConnection::_doRX, one per connection                  *)
(*   "svc"       the thread that delivers suspend, resume, HECI removal    *)
(*               and MB_STOP_SERVICE to PortForwardingService              *)
(*                                                                         *)
(* The timed waits of the loop always end; m_initProtStop only shortens    *)
(* them and has no variable.  m_needBroadcastResumed is written and never  *)
(* read for a decision, and has none either.                               *)
(***************************************************************************)
EXTENDS Integers

CONSTANTS
    RxThreads,      \* receive threads
    SvcCalls,       \* what "svc" may call: a subset of AllCalls
    MaxRetries,     \* MAX_CONNECT_RETRIES
    PipeCap,        \* bound of the model: signals the pipe holds
    None            \* no thread

AllCalls == {"suspend", "resume", "stop"}
Threads  == {"main", "svc"} \cup RxThreads

ASSUME LifecycleAssumption ==
    /\ "main" \notin RxThreads /\ "svc" \notin RxThreads
    /\ None \notin RxThreads
    /\ SvcCalls \subseteq AllCalls
    /\ MaxRetries \in Nat \ {0} /\ PipeCap \in Nat \ {0}

VARIABLES
    lme,             \* LMEConnection::_initState, CONNECTING left out
    rxThread,        \* LMEConnection::_rxThread
    cancelled,       \* threads marked by the thread manager's cancel
    selfDisconnect,  \* LMEConnection::_selfDisconnect
    pipeOpen, pipe,  \* _signalPipe and the bytes in it
    socketsActive,   \* _sockets_active
    suspended,       \* m_suspended
    needStarted, needActivated,  \* m_needBroadcastStarted, m_needBroadcastPfwActivated
    init, counter, publishFailure, warningShown, secondTry,   \* locals of svc()
    reported,        \* the last message sent to the Configurator
    goal,            \* where main goes on after BroadcastFailure and Deinit
    pc               \* where each thread is

connection == <<lme, rxThread, cancelled, selfDisconnect>>
wake       == <<pipeOpen, pipe, socketsActive>>
broadcast  == <<needStarted, needActivated, reported>>
warnings   == <<warningShown, secondTry>>
locals     == <<init, counter, publishFailure, warnings, goal>>
vars       == <<connection, wake, broadcast, locals, suspended, pc>>

Goto(t, label) == pc' = [pc EXCEPT ![t] = label]

-----------------------------------------------------------------------------
(* Deinit, the signal and the broadcasts, by any thread *)

(* Variant: the receive thread is not cancelled. *)
LmeDownNoCancel ==
    lme' = "DISCONNECTED" /\ UNCHANGED <<cancelled, rxThread, selfDisconnect>>

(* LMEConnection::DeinitInternal, under _initLock: the handle is closed    *)
(* and the last thread spawned is marked, if it still runs.                *)
LmeDown ==
    /\ lme' = "DISCONNECTED"
    /\ cancelled' = cancelled \cup {r \in RxThreads : r = rxThread /\ pc[r] # "dead"}
    /\ UNCHANGED <<rxThread, selfDisconnect>>

DeinitLme(t) ==
    /\ pc[t] = "dLme"
    /\ LmeDown
    /\ Goto(t, "dPipe")
    /\ UNCHANGED <<wake, broadcast, locals, suspended>>

DeinitPipe(t) ==
    /\ pc[t] = "dPipe"
    /\ pipeOpen' = FALSE /\ pipe' = 0
    /\ Goto(t, "dReset")
    /\ UNCHANGED <<connection, socketsActive, broadcast, locals, suspended>>

DeinitReset(t) ==
    /\ pc[t] = "dReset"
    /\ socketsActive' = FALSE
    /\ Goto(t, IF t = "main" THEN goal ELSE IF t = "svc" THEN "idle" ELSE "receive")
    /\ UNCHANGED <<connection, pipeOpen, pipe, broadcast, locals, suspended>>

(* One byte into the pipe; SignalSelect writes it only when the sockets    *)
(* are active.  A send that would block is the subject of module Protocol. *)
SignalPipe == pipe' = IF pipeOpen /\ pipe < PipeCap THEN pipe + 1 ELSE pipe

SignalSelect == IF socketsActive THEN SignalPipe ELSE UNCHANGED pipe

(* BroadcastFailure, after which t goes to Deinit, or main tries again.    *)
(* The flag is tested and set in one step and the message sent in another. *)
AfterFailure(t) == IF t = "main" /\ goal = "tryInit" THEN "tryInit" ELSE "dLme"

BroadcastFailure(t) ==
    /\ pc[t] = "failure"
    /\ needActivated' = TRUE
    /\ Goto(t, IF needActivated THEN AfterFailure(t) ELSE "sendStopped")
    /\ UNCHANGED <<connection, wake, needStarted, reported, locals, suspended>>

SendStopped(t) ==
    /\ pc[t] = "sendStopped"
    /\ reported' = "STOPPED"
    /\ Goto(t, AfterFailure(t))
    /\ UNCHANGED <<connection, wake, needStarted, needActivated, locals, suspended>>

-----------------------------------------------------------------------------
(* The receive threads *)

Receiving(r) == pc[r] = "receive" /\ r \notin cancelled /\ lme = "CONNECTED"

(* A message whose handler ends with _signalSelect().                      *)
ReceiveRequest(r) ==
    /\ Receiving(r)
    /\ SignalPipe
    /\ UNCHANGED <<connection, pipeOpen, socketsActive, broadcast, locals, suspended, pc>>

(* APF_DISCONNECT, or a message the protocol does not allow: then LMS      *)
(* disconnects first.  Both go on with Deinit.                             *)
ReceiveDisconnect(r, bySelf) ==
    /\ Receiving(r)
    /\ selfDisconnect' = (selfDisconnect \/ bySelf)
    /\ Goto(r, "dLme")
    /\ UNCHANGED <<lme, rxThread, cancelled, wake, broadcast, locals, suspended>>

(* Variant: the thread ends and leaves the connection as it is. *)
ReceiveErrorKeepsState(r) ==
    /\ pc[r] = "receive"
    /\ Goto(r, "signal")
    /\ UNCHANGED <<connection, wake, broadcast, locals, suspended>>

(* The read fails, or finds the connection down: Deinit(true).             *)
ReceiveError(r) ==
    /\ pc[r] = "receive"
    /\ LmeDown
    /\ Goto(r, "signal")
    /\ UNCHANGED <<wake, broadcast, locals, suspended>>

Die(r) == Goto(r, "dead") /\ cancelled' = cancelled \ {r}

ReceiveSignal(r) ==
    /\ pc[r] = "signal"
    /\ SignalSelect
    /\ Die(r)
    /\ UNCHANGED <<lme, rxThread, selfDisconnect, pipeOpen, socketsActive, broadcast, locals,
                   suspended>>

(* testcancel after a read.                                                *)
ReceiveCancelled(r) ==
    /\ pc[r] = "receive"
    /\ r \in cancelled
    /\ Die(r)
    /\ UNCHANGED <<lme, rxThread, selfDisconnect, wake, broadcast, locals, suspended>>

-----------------------------------------------------------------------------
(* PortForwardingService, on the service's thread *)

(* suspend() and CloseHeciHandle(): OnHeciDisable.                         *)
Suspend ==
    /\ pc["svc"] = "idle" /\ "suspend" \in SvcCalls
    /\ suspended' = TRUE
    /\ Goto("svc", "failure")
    /\ UNCHANGED <<connection, wake, broadcast, locals>>

(* resume(), NotifyHeciEnable() and MB_MEI_DISABLE_FAILED: OnHeciEnable.   *)
Resume ==
    /\ pc["svc"] = "idle" /\ "resume" \in SvcCalls
    /\ suspended
    /\ suspended' = FALSE
    /\ UNCHANGED <<connection, wake, broadcast, locals, pc>>

(* OnStop: the loop is asked to end, signalled, and waited for.            *)
OnStop ==
    /\ pc["svc"] = "idle" /\ "stop" \in SvcCalls
    /\ cancelled' = cancelled \cup {"main"}
    /\ Goto("svc", "signal")
    /\ UNCHANGED <<lme, rxThread, selfDisconnect, wake, broadcast, locals, suspended>>

(* Variant: the loop is marked and not signalled. *)
StopSilent ==
    /\ pc["svc"] = "signal"
    /\ Goto("svc", "wait")
    /\ UNCHANGED <<connection, wake, broadcast, locals, suspended>>

StopSignal ==
    /\ pc["svc"] = "signal"
    /\ SignalSelect
    /\ Goto("svc", "wait")
    /\ UNCHANGED <<connection, pipeOpen, socketsActive, broadcast, locals, suspended>>

StopWait ==
    /\ pc["svc"] = "wait" /\ pc["main"] = "ended"
    /\ Goto("svc", "stopped")
    /\ UNCHANGED <<connection, wake, broadcast, locals, suspended>>

-----------------------------------------------------------------------------
(* LMS_Thread_Impl::svc *)

(* Variant: the loop ends without the last broadcast. *)
LeaveQuietly == goal' = "ended" /\ Goto("main", "dLme")

(* The loop is left: BroadcastFailure, Deinit, the end.                    *)
Leave == goal' = "ended" /\ Goto("main", "failure")

(* testcancel.                                                             *)
TopCancelled ==
    /\ pc["main"] = "top" /\ "main" \in cancelled
    /\ Leave
    /\ UNCHANGED <<connection, wake, broadcast, init, counter, publishFailure, warnings,
                   suspended>>

TopConnected ==
    /\ pc["main"] = "top" /\ "main" \notin cancelled
    /\ lme = "CONNECTED"
    /\ Goto("main", "sockets")
    /\ UNCHANGED <<connection, wake, broadcast, locals, suspended>>

(* A connection that was up is lost: the first time, the Configurator is   *)
(* told, unless LMS disconnected itself or is suspended.                   *)
TopLost ==
    /\ pc["main"] = "top" /\ "main" \notin cancelled
    /\ lme # "CONNECTED"
    /\ init' = FALSE
    /\ IF init /\ ~suspended /\ ~warningShown /\ ~selfDisconnect
       THEN goal' = "tryInit" /\ Goto("main", "failure")
       ELSE Goto("main", "tryInit") /\ UNCHANGED goal
    /\ UNCHANGED <<connection, wake, broadcast, counter, publishFailure, warnings, suspended>>

(* Protocol::Init begins with Deinit.                                      *)
TryInit ==
    /\ pc["main"] = "tryInit"
    /\ IF suspended THEN Goto("main", "failed") /\ UNCHANGED goal
                    ELSE Goto("main", "dLme") /\ goal' = "connect"
    /\ UNCHANGED <<connection, wake, broadcast, init, counter, publishFailure, warnings,
                   suspended>>

(* LMEConnection::Init opens the client and spawns a receive thread.       *)
Connect(ok) ==
    /\ pc["main"] = "connect"
    /\ selfDisconnect' = FALSE
    /\ IF ok
       THEN \E r \in RxThreads :
              /\ pc[r] = "dead"
              /\ rxThread' = r
              /\ lme' = "CONNECTED"
              /\ pc' = [pc EXCEPT !["main"] = "portWait", ![r] = "receive"]
       ELSE Goto("main", "failed") /\ UNCHANGED <<lme, rxThread>>
    /\ UNCHANGED <<cancelled, wake, broadcast, locals, suspended>>

(* ... and waits for the firmware's request; the rest of Protocol::Init.   *)
PortWait(ok) ==
    /\ pc["main"] = "portWait"
    /\ IF ok
       THEN /\ init' = TRUE /\ counter' = 1
            /\ Goto("main", "settle")
            /\ UNCHANGED connection
       ELSE /\ LmeDown
            /\ Goto("main", "failed")
            /\ UNCHANGED <<init, counter>>
    /\ UNCHANGED <<wake, broadcast, publishFailure, warnings, goal, suspended>>

(* The warning is logged after the second failure.                         *)
Failed(clientNotFound) ==
    /\ pc["main"] = "failed"
    /\ IF warningShown \/ selfDisconnect \/ suspended \/ clientNotFound
       THEN UNCHANGED warnings
       ELSE warningShown' = secondTry /\ secondTry' = TRUE
    /\ Goto("main", "retry")
    /\ UNCHANGED <<connection, wake, broadcast, init, counter, publishFailure, goal, suspended>>

(* Variant: the attempts are counted and never looked at. *)
RetryForever ==
    /\ pc["main"] = "retry"
    /\ Goto("main", "top")
    /\ UNCHANGED <<connection, wake, broadcast, locals, suspended>>

(* Variant: one attempt too many. *)
RetryOnceMore ==
    /\ pc["main"] = "retry"
    /\ IF ~suspended /\ counter > MaxRetries
       THEN publishFailure' = TRUE /\ Leave /\ UNCHANGED counter
       ELSE /\ counter' = IF suspended THEN counter ELSE counter + 1
            /\ Goto("main", "top")
            /\ UNCHANGED <<publishFailure, goal>>
    /\ UNCHANGED <<connection, wake, broadcast, init, warnings, suspended>>

(* A second later: attempts are counted while LMS is not suspended.        *)
Retry ==
    /\ pc["main"] = "retry"
    /\ IF ~suspended /\ counter >= MaxRetries
       THEN publishFailure' = TRUE /\ Leave /\ UNCHANGED counter
       ELSE /\ counter' = IF suspended THEN counter ELSE counter + 1
            /\ Goto("main", "top")
            /\ UNCHANGED <<publishFailure, goal>>
    /\ UNCHANGED <<connection, wake, broadcast, init, warnings, suspended>>

(* Half a second later: is the connection still up?                        *)
Settle ==
    /\ pc["main"] = "settle"
    /\ IF lme = "CONNECTED"
       THEN /\ warningShown' = FALSE
            /\ secondTry' = (secondTry /\ ~warningShown)
            /\ Goto("main", "sockets")
       ELSE Goto("main", "top") /\ UNCHANGED warnings
    /\ UNCHANGED <<connection, wake, broadcast, init, counter, publishFailure, goal, suspended>>

(* CreateSockets opens the pipe, or fails and the loop goes round.         *)
Sockets ==
    /\ pc["main"] = "sockets"
    /\ \/ /\ socketsActive
          /\ Goto("main", "active")
          /\ UNCHANGED wake
       \/ /\ ~socketsActive
          /\ pipeOpen' = TRUE /\ pipe' = 0 /\ socketsActive' = TRUE
          /\ Goto("main", "active")
       \/ /\ ~socketsActive
          /\ Goto("main", "top")
          /\ UNCHANGED wake
    /\ UNCHANGED <<connection, broadcast, locals, suspended>>

(* Variant: the flags stay as they are when the message is sent. *)
BroadcastActiveKeepsFlags ==
    /\ pc["main"] = "active"
    /\ Goto("main", IF needStarted \/ needActivated THEN "sendStarted" ELSE "selCall")
    /\ UNCHANGED <<connection, wake, broadcast, locals, suspended>>

BroadcastActive ==
    /\ pc["main"] = "active"
    /\ IF needStarted \/ needActivated
       THEN needStarted' = FALSE /\ needActivated' = FALSE /\ Goto("main", "sendStarted")
       ELSE Goto("main", "selCall") /\ UNCHANGED <<needStarted, needActivated>>
    /\ UNCHANGED <<connection, wake, reported, locals, suspended>>

SendStarted ==
    /\ pc["main"] = "sendStarted"
    /\ reported' = "STARTED"
    /\ Goto("main", "selCall")
    /\ UNCHANGED <<connection, wake, needStarted, needActivated, locals, suspended>>

(* select() is called; FD_SET of a pipe that was closed is undefined, and  *)
(* leaves main waiting without it or makes the call fail.  It also fails   *)
(* when another descriptor was closed.                                     *)
SelectCall ==
    /\ pc["main"] = "selCall"
    /\ Goto("main", IF pipeOpen THEN "select" ELSE "selectBlind")
    /\ UNCHANGED <<connection, wake, broadcast, locals, suspended>>

SelectFails ==
    /\ pc["main"] = "selCall"
    /\ goal' = "top"
    /\ Goto("main", "failure")
    /\ UNCHANGED <<connection, wake, broadcast, init, counter, publishFailure, warnings,
                   suspended>>

(* The pipe can be read, or was closed.                                    *)
SelectSignalled ==
    /\ pc["main"] = "select"
    /\ pipe > 0 \/ ~pipeOpen
    /\ pipe' = IF pipe > 0 THEN pipe - 1 ELSE 0
    /\ Goto("main", "top")
    /\ UNCHANGED <<connection, pipeOpen, socketsActive, broadcast, locals, suspended>>

(* Some other socket is ready.                                             *)
SelectActivity ==
    /\ pc["main"] \in {"select", "selectBlind"}
    /\ Goto("main", "top")
    /\ UNCHANGED <<connection, wake, broadcast, locals, suspended>>

-----------------------------------------------------------------------------
Init ==
    /\ lme = "DISCONNECTED" /\ rxThread = None /\ cancelled = {} /\ selfDisconnect = FALSE
    /\ pipeOpen = FALSE /\ pipe = 0 /\ socketsActive = FALSE
    /\ suspended = FALSE
    /\ needStarted = TRUE /\ needActivated = FALSE
    /\ init = FALSE /\ counter = 1 /\ publishFailure = FALSE
    /\ warningShown = FALSE /\ secondTry = FALSE
    /\ reported = "NOTHING"
    /\ goal = "top"
    /\ pc = [t \in Threads |-> IF t = "main" THEN "top" ELSE IF t = "svc" THEN "idle" ELSE "dead"]

DeinitStep(t) == DeinitLme(t) \/ DeinitPipe(t) \/ DeinitReset(t)
FailureStep(t) == BroadcastFailure(t) \/ SendStopped(t)

RxStep(r) == \/ ReceiveRequest(r) \/ ReceiveError(r) \/ ReceiveSignal(r) \/ ReceiveCancelled(r)
             \/ \E bySelf \in BOOLEAN : ReceiveDisconnect(r, bySelf)
             \/ DeinitStep(r)

(* What a service call that began goes on to do.                           *)
SvcStep == FailureStep("svc") \/ DeinitStep("svc") \/ StopSignal \/ StopWait

MainStep ==
    \/ TopCancelled \/ TopConnected \/ TopLost \/ TryInit \/ Retry \/ Settle \/ Sockets
    \/ \E ok \in BOOLEAN : Connect(ok) \/ PortWait(ok) \/ Failed(ok)
    \/ BroadcastActive \/ SendStarted \/ SelectCall \/ SelectFails \/ SelectSignalled
    \/ FailureStep("main") \/ DeinitStep("main")

Next ==
    \/ MainStep \/ SelectActivity
    \/ SvcStep \/ Suspend \/ Resume \/ OnStop
    \/ \E r \in RxThreads : RxStep(r)

Spec == Init /\ [][Next]_vars

(* Threads are scheduled: main and a service call go on when they can, and *)
(* so does a receive thread in Deinit or at its end.  A message, a socket  *)
(* that gets ready, a service call and a successful connection need never  *)
(* come.                                                                   *)
Fairness ==
    /\ WF_vars(MainStep) /\ WF_vars(SvcStep)
    /\ \A r \in RxThreads : /\ WF_vars(DeinitStep(r) \/ ReceiveSignal(r))
                            /\ WF_vars(ReceiveError(r) /\ lme # "CONNECTED")

FairSpec == Spec /\ Fairness

-----------------------------------------------------------------------------
(* Properties *)

DeinitLabels == {"dLme", "dPipe", "dReset"}
MainLabels == DeinitLabels \cup {"top", "failure", "sendStopped", "tryInit", "connect",
    "portWait", "failed", "retry", "settle", "sockets", "active", "sendStarted", "selCall",
    "select", "selectBlind", "ended"}
SvcLabels == DeinitLabels \cup {"idle", "failure", "sendStopped", "signal", "wait", "stopped"}
RxLabels  == DeinitLabels \cup {"dead", "receive", "signal"}

FlagsOK ==
    /\ selfDisconnect \in BOOLEAN /\ pipeOpen \in BOOLEAN /\ socketsActive \in BOOLEAN
    /\ suspended \in BOOLEAN /\ needStarted \in BOOLEAN /\ needActivated \in BOOLEAN
    /\ init \in BOOLEAN /\ publishFailure \in BOOLEAN
    /\ warningShown \in BOOLEAN /\ secondTry \in BOOLEAN

PcOK ==
    /\ pc \in [Threads -> MainLabels \cup SvcLabels \cup RxLabels]
    /\ pc["main"] \in MainLabels /\ pc["svc"] \in SvcLabels
    /\ \A r \in RxThreads : pc[r] \in RxLabels

DataOK ==
    /\ lme \in {"DISCONNECTED", "CONNECTED"} /\ rxThread \in RxThreads \cup {None}
    /\ cancelled \subseteq RxThreads \cup {"main"}
    /\ pipe \in 0 .. PipeCap /\ counter \in 1 .. MaxRetries
    /\ reported \in {"NOTHING", "STARTED", "STOPPED"}
    /\ goal \in {"top", "tryInit", "connect", "ended"}

(* Type invariant: every variable keeps its domain, the retries stay       *)
(* within MAX_CONNECT_RETRIES and each thread is at a label of its code.   *)
TypeOK == FlagsOK /\ PcOK /\ DataOK

(* A connection that is up has a reader: the receive thread it was given   *)
(* runs and was not cancelled, whatever older threads still do to it.      *)
ConnectedHasReader ==
    lme = "CONNECTED" => /\ rxThread \in RxThreads /\ rxThread \notin cancelled
                         /\ pc[rxThread] \in DeinitLabels \cup {"receive"}

(* At most one receive thread handles messages: all others that run were   *)
(* cancelled, or are about to end.                                         *)
OneReader ==
    \A r \in RxThreads \ {rxThread} : pc[r] \in {"dead", "signal"} \/ r \in cancelled

BroadcastUnderWay == \E t \in {"main", "svc"} : pc[t] \in {"sendStarted", "sendStopped"}

(* The flag that mutes BroadcastFailure is on only when the Configurator   *)
(* was already told: the last message it got is not STARTED.               *)
FlagMeansStopped == needActivated /\ ~BroadcastUnderWay => reported # "STARTED"

(* When the loop has ended, the Configurator knows that forwarding stopped *)
EndedIsReported == pc["main"] = "ended" => reported = "STOPPED"

(* The loop gives up after MAX_CONNECT_RETRIES failures: it does not retry *)
(* for ever while nobody suspends it.                                      *)
GivesUp == pc["main"] = "failed" ~> (lme = "CONNECTED" \/ pc["main"] = "ended" \/ suspended)

(* OnStop that finds the loop in select(), with the sockets active, ends   *)
(* it, whatever the receive threads do to the pipe meanwhile.  Only a      *)
(* Deinit that closed the pipe before the loop opened it again, and has    *)
(* yet to reset _sockets_active, can still mute the signal.                *)
StopReachesSelect ==
    /\ pc["svc"] = "signal" /\ pc["main"] = "select" /\ socketsActive
    /\ \A r \in RxThreads : pc[r] # "dReset"
    ~> pc["main"] = "ended"

(* The comment in OnStop: the signal gets the loop out of select() to see  *)
(* that it was asked to cancel.                                            *)
StopEndsMain == pc["svc"] = "wait" ~> pc["main"] = "ended"
=============================================================================
