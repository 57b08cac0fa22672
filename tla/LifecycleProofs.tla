-------------------------- MODULE LifecycleProofs --------------------------
(***************************************************************************)
(* Proofs about Lifecycle, for any set of receive threads, any number of   *)
(* retries and any capacity of the pipe: types, that a connection which is *)
(* up has exactly one reader, and that the Configurator is told the truth  *)
(* about it.                                                               *)
(***************************************************************************)
EXTENDS Lifecycle, TLAPS

-----------------------------------------------------------------------------
(* Types *)

LEMMA TypeInit == Init => TypeOK
<1> SUFFICES ASSUME Init PROVE TypeOK OBVIOUS
<1>1. FlagsOK BY Zenon DEF Init, FlagsOK
<1>2. PcOK BY LifecycleAssumption
      DEF Init, PcOK, Threads, MainLabels, SvcLabels, RxLabels, DeinitLabels
<1>3. DataOK BY LifecycleAssumption DEF Init, DataOK
<1> QED BY <1>1, <1>2, <1>3 DEF TypeOK

(* A thread that goes to a label of its own code keeps pc well typed.      *)
LEMMA GotoTyped ==
    ASSUME PcOK, NEW t \in Threads, NEW label, Goto(t, label),
           t = "main" => label \in MainLabels,
           t = "svc" => label \in SvcLabels,
           t \in RxThreads => label \in RxLabels
    PROVE  PcOK'
BY LifecycleAssumption DEF Goto, PcOK, Threads

LEMMA TypeDeinit ==
    ASSUME TypeOK, NEW t \in Threads, DeinitStep(t)
    PROVE  TypeOK'
<1> USE LifecycleAssumption DEF connection, wake, broadcast, warnings, locals
<1>1. CASE DeinitLme(t)
  <2>1. FlagsOK' BY <1>1, Zenon DEF DeinitLme, LmeDown, TypeOK, FlagsOK
  <2>2. PcOK' BY <1>1, GotoTyped DEF DeinitLme, LmeDown, TypeOK, Threads, MainLabels, SvcLabels, RxLabels, DeinitLabels
  <2>3. DataOK' BY <1>1 DEF DeinitLme, LmeDown, TypeOK, DataOK
  <2> QED BY <2>1, <2>2, <2>3 DEF TypeOK
<1>2. CASE DeinitPipe(t)
  <2>1. FlagsOK' BY <1>2, Zenon DEF DeinitPipe, TypeOK, FlagsOK
  <2>2. PcOK' BY <1>2, GotoTyped DEF DeinitPipe, TypeOK, Threads, MainLabels, SvcLabels, RxLabels, DeinitLabels
  <2>3. DataOK' BY <1>2 DEF DeinitPipe, TypeOK, DataOK
  <2> QED BY <2>1, <2>2, <2>3 DEF TypeOK
<1>3. CASE DeinitReset(t)
  <2>1. FlagsOK' BY <1>3, Zenon DEF DeinitReset, TypeOK, FlagsOK
  <2>2. PcOK' BY <1>3, GotoTyped DEF DeinitReset, TypeOK, Threads, MainLabels, SvcLabels, RxLabels, DeinitLabels, DataOK
  <2>3. DataOK' BY <1>3 DEF DeinitReset, TypeOK, DataOK
  <2> QED BY <2>1, <2>2, <2>3 DEF TypeOK
<1> QED BY <1>1, <1>2, <1>3 DEF DeinitStep

LEMMA TypeFailure ==
    ASSUME TypeOK, NEW t \in {"main", "svc"}, FailureStep(t)
    PROVE  TypeOK'
<1> USE LifecycleAssumption DEF connection, wake, broadcast, warnings, locals
<1>1. CASE BroadcastFailure(t)
  <2>1. FlagsOK' BY <1>1, Zenon DEF BroadcastFailure, AfterFailure, TypeOK, FlagsOK
  <2>2. PcOK' BY <1>1, GotoTyped DEF BroadcastFailure, AfterFailure, TypeOK, Threads, MainLabels, SvcLabels, RxLabels, DeinitLabels
  <2>3. DataOK' BY <1>1 DEF BroadcastFailure, AfterFailure, TypeOK, DataOK
  <2> QED BY <2>1, <2>2, <2>3 DEF TypeOK
<1>2. CASE SendStopped(t)
  <2>1. FlagsOK' BY <1>2, Zenon DEF SendStopped, AfterFailure, TypeOK, FlagsOK
  <2>2. PcOK' BY <1>2, GotoTyped DEF SendStopped, AfterFailure, TypeOK, Threads, MainLabels, SvcLabels, RxLabels, DeinitLabels
  <2>3. DataOK' BY <1>2 DEF SendStopped, AfterFailure, TypeOK, DataOK
  <2> QED BY <2>1, <2>2, <2>3 DEF TypeOK
<1> QED BY <1>1, <1>2 DEF FailureStep

LEMMA TypeRx ==
    ASSUME TypeOK, NEW r \in RxThreads, RxStep(r)
    PROVE  TypeOK'
<1> USE LifecycleAssumption DEF connection, wake, broadcast, warnings, locals
<1>1. CASE ReceiveRequest(r)
  <2>1. FlagsOK' BY <1>1, Zenon DEF ReceiveRequest, SignalPipe, TypeOK, FlagsOK
  <2>2. PcOK' BY <1>1, GotoTyped DEF ReceiveRequest, SignalPipe, TypeOK, Threads, MainLabels, SvcLabels, RxLabels, DeinitLabels, PcOK
  <2>3. DataOK' BY <1>1 DEF ReceiveRequest, SignalPipe, TypeOK, DataOK
  <2> QED BY <2>1, <2>2, <2>3 DEF TypeOK
<1>2. CASE ReceiveError(r)
  <2>1. FlagsOK' BY <1>2, Zenon DEF ReceiveError, LmeDown, TypeOK, FlagsOK
  <2>2. PcOK' BY <1>2, GotoTyped DEF ReceiveError, LmeDown, TypeOK, Threads, MainLabels, SvcLabels, RxLabels, DeinitLabels
  <2>3. DataOK' BY <1>2 DEF ReceiveError, LmeDown, TypeOK, DataOK
  <2> QED BY <2>1, <2>2, <2>3 DEF TypeOK
<1>3. CASE ReceiveSignal(r)
  <2>1. FlagsOK' BY <1>3, Zenon DEF ReceiveSignal, SignalSelect, SignalPipe, Die, TypeOK, FlagsOK
  <2>2. PcOK' BY <1>3, GotoTyped DEF ReceiveSignal, SignalSelect, SignalPipe, Die, TypeOK, Threads, MainLabels, SvcLabels, RxLabels, DeinitLabels
  <2>3. DataOK' BY <1>3 DEF ReceiveSignal, SignalSelect, SignalPipe, Die, TypeOK, DataOK
  <2> QED BY <2>1, <2>2, <2>3 DEF TypeOK
<1>4. CASE ReceiveCancelled(r)
  <2>1. FlagsOK' BY <1>4, Zenon DEF ReceiveCancelled, Die, TypeOK, FlagsOK
  <2>2. PcOK' BY <1>4, GotoTyped DEF ReceiveCancelled, Die, TypeOK, Threads, MainLabels, SvcLabels, RxLabels, DeinitLabels
  <2>3. DataOK' BY <1>4 DEF ReceiveCancelled, Die, TypeOK, DataOK
  <2> QED BY <2>1, <2>2, <2>3 DEF TypeOK
<1>5. CASE \E bySelf \in BOOLEAN : ReceiveDisconnect(r, bySelf)
  <2>0. PICK bySelf \in BOOLEAN : ReceiveDisconnect(r, bySelf) BY <1>5
  <2>1. FlagsOK' BY <2>0, Zenon DEF ReceiveDisconnect, TypeOK, FlagsOK
  <2>2. PcOK' BY <2>0, GotoTyped DEF ReceiveDisconnect, TypeOK, Threads, MainLabels, SvcLabels, RxLabels, DeinitLabels
  <2>3. DataOK' BY <2>0 DEF ReceiveDisconnect, TypeOK, DataOK
  <2> QED BY <2>1, <2>2, <2>3 DEF TypeOK
<1>6. CASE DeinitStep(r) BY <1>6, TypeDeinit DEF Threads
<1> QED BY <1>1, <1>2, <1>3, <1>4, <1>5, <1>6 DEF RxStep

LEMMA TypeSvc ==
    ASSUME TypeOK, SvcStep \/ Suspend \/ Resume \/ OnStop
    PROVE  TypeOK'
<1> USE LifecycleAssumption DEF connection, wake, broadcast, warnings, locals
<1>1. CASE StopSignal
  <2>1. FlagsOK' BY <1>1, Zenon DEF StopSignal, SignalSelect, SignalPipe, TypeOK, FlagsOK
  <2>2. PcOK' BY <1>1, GotoTyped DEF StopSignal, SignalSelect, SignalPipe, TypeOK, Threads, MainLabels, SvcLabels, RxLabels, DeinitLabels
  <2>3. DataOK' BY <1>1 DEF StopSignal, SignalSelect, SignalPipe, TypeOK, DataOK
  <2> QED BY <2>1, <2>2, <2>3 DEF TypeOK
<1>2. CASE StopWait
  <2>1. FlagsOK' BY <1>2, Zenon DEF StopWait, TypeOK, FlagsOK
  <2>2. PcOK' BY <1>2, GotoTyped DEF StopWait, TypeOK, Threads, MainLabels, SvcLabels, RxLabels, DeinitLabels
  <2>3. DataOK' BY <1>2 DEF StopWait, TypeOK, DataOK
  <2> QED BY <2>1, <2>2, <2>3 DEF TypeOK
<1>3. CASE Suspend
  <2>1. FlagsOK' BY <1>3, Zenon DEF Suspend, TypeOK, FlagsOK
  <2>2. PcOK' BY <1>3, GotoTyped DEF Suspend, TypeOK, Threads, MainLabels, SvcLabels, RxLabels, DeinitLabels
  <2>3. DataOK' BY <1>3 DEF Suspend, TypeOK, DataOK
  <2> QED BY <2>1, <2>2, <2>3 DEF TypeOK
<1>4. CASE Resume
  <2>1. FlagsOK' BY <1>4, Zenon DEF Resume, TypeOK, FlagsOK
  <2>2. PcOK' BY <1>4, GotoTyped DEF Resume, TypeOK, Threads, MainLabels, SvcLabels, RxLabels, DeinitLabels, PcOK
  <2>3. DataOK' BY <1>4 DEF Resume, TypeOK, DataOK
  <2> QED BY <2>1, <2>2, <2>3 DEF TypeOK
<1>5. CASE OnStop
  <2>1. FlagsOK' BY <1>5, Zenon DEF OnStop, TypeOK, FlagsOK
  <2>2. PcOK' BY <1>5, GotoTyped DEF OnStop, TypeOK, Threads, MainLabels, SvcLabels, RxLabels, DeinitLabels
  <2>3. DataOK' BY <1>5 DEF OnStop, TypeOK, DataOK
  <2> QED BY <2>1, <2>2, <2>3 DEF TypeOK
<1>6. CASE FailureStep("svc") BY <1>6, TypeFailure
<1>7. CASE DeinitStep("svc") BY <1>7, TypeDeinit DEF Threads
<1> QED BY <1>1, <1>2, <1>3, <1>4, <1>5, <1>6, <1>7 DEF SvcStep

LEMMA TypeMain ==
    ASSUME TypeOK, MainStep \/ SelectActivity
    PROVE  TypeOK'
<1> USE LifecycleAssumption DEF connection, wake, broadcast, warnings, locals
<1>1. CASE TopCancelled
  <2>1. FlagsOK' BY <1>1, Zenon DEF TopCancelled, Leave, TypeOK, FlagsOK
  <2>2. PcOK' BY <1>1, GotoTyped DEF TopCancelled, Leave, TypeOK, Threads, MainLabels, SvcLabels, RxLabels, DeinitLabels
  <2>3. DataOK' BY <1>1 DEF TopCancelled, Leave, TypeOK, DataOK
  <2> QED BY <2>1, <2>2, <2>3 DEF TypeOK
<1>2. CASE TopConnected
  <2>1. FlagsOK' BY <1>2, Zenon DEF TopConnected, TypeOK, FlagsOK
  <2>2. PcOK' BY <1>2, GotoTyped DEF TopConnected, TypeOK, Threads, MainLabels, SvcLabels, RxLabels, DeinitLabels
  <2>3. DataOK' BY <1>2 DEF TopConnected, TypeOK, DataOK
  <2> QED BY <2>1, <2>2, <2>3 DEF TypeOK
<1>3. CASE TopLost
  <2>1. FlagsOK' BY <1>3, Zenon DEF TopLost, TypeOK, FlagsOK
  <2>2. PcOK' BY <1>3, GotoTyped DEF TopLost, TypeOK, Threads, MainLabels, SvcLabels, RxLabels, DeinitLabels
  <2>3. DataOK' BY <1>3 DEF TopLost, TypeOK, DataOK
  <2> QED BY <2>1, <2>2, <2>3 DEF TypeOK
<1>4. CASE TryInit
  <2>1. FlagsOK' BY <1>4, Zenon DEF TryInit, TypeOK, FlagsOK
  <2>2. PcOK' BY <1>4, GotoTyped DEF TryInit, TypeOK, Threads, MainLabels, SvcLabels, RxLabels, DeinitLabels
  <2>3. DataOK' BY <1>4 DEF TryInit, TypeOK, DataOK
  <2> QED BY <2>1, <2>2, <2>3 DEF TypeOK
<1>5. CASE \E ok \in BOOLEAN : Connect(ok)
  <2>0. PICK ok \in BOOLEAN : Connect(ok) BY <1>5
  <2>1. FlagsOK' BY <2>0, Zenon DEF Connect, TypeOK, FlagsOK
  <2>2. PcOK' BY <2>0, GotoTyped DEF Connect, TypeOK, Threads, MainLabels, SvcLabels, RxLabels, DeinitLabels, Goto, PcOK
  <2>3. DataOK' BY <2>0 DEF Connect, TypeOK, DataOK
  <2> QED BY <2>1, <2>2, <2>3 DEF TypeOK
<1>6. CASE \E ok \in BOOLEAN : PortWait(ok)
  <2>0. PICK ok \in BOOLEAN : PortWait(ok) BY <1>6
  <2>1. FlagsOK' BY <2>0, Zenon DEF PortWait, LmeDown, TypeOK, FlagsOK
  <2>2. PcOK' BY <2>0, GotoTyped DEF PortWait, LmeDown, TypeOK, Threads, MainLabels, SvcLabels, RxLabels, DeinitLabels
  <2>3. DataOK' BY <2>0 DEF PortWait, LmeDown, TypeOK, DataOK
  <2> QED BY <2>1, <2>2, <2>3 DEF TypeOK
<1>7. CASE \E ok \in BOOLEAN : Failed(ok)
  <2>0. PICK ok \in BOOLEAN : Failed(ok) BY <1>7
  <2>1. FlagsOK' BY <2>0, Zenon DEF Failed, TypeOK, FlagsOK
  <2>2. PcOK' BY <2>0, GotoTyped DEF Failed, TypeOK, Threads, MainLabels, SvcLabels, RxLabels, DeinitLabels
  <2>3. DataOK' BY <2>0 DEF Failed, TypeOK, DataOK
  <2> QED BY <2>1, <2>2, <2>3 DEF TypeOK
<1>8. CASE Retry
  <2>1. FlagsOK' BY <1>8, Zenon DEF Retry, Leave, TypeOK, FlagsOK
  <2>2. PcOK' BY <1>8, GotoTyped DEF Retry, Leave, TypeOK, Threads, MainLabels, SvcLabels, RxLabels, DeinitLabels
  <2>3. DataOK' BY <1>8 DEF Retry, Leave, TypeOK, DataOK
  <2> QED BY <2>1, <2>2, <2>3 DEF TypeOK
<1>9. CASE Settle
  <2>1. FlagsOK' BY <1>9, Zenon DEF Settle, TypeOK, FlagsOK
  <2>2. PcOK' BY <1>9, GotoTyped DEF Settle, TypeOK, Threads, MainLabels, SvcLabels, RxLabels, DeinitLabels
  <2>3. DataOK' BY <1>9 DEF Settle, TypeOK, DataOK
  <2> QED BY <2>1, <2>2, <2>3 DEF TypeOK
<1>10. CASE Sockets
  <2>1. FlagsOK' BY <1>10, Zenon DEF Sockets, TypeOK, FlagsOK
  <2>2. PcOK' BY <1>10, GotoTyped DEF Sockets, TypeOK, Threads, MainLabels, SvcLabels, RxLabels, DeinitLabels
  <2>3. DataOK' BY <1>10 DEF Sockets, TypeOK, DataOK
  <2> QED BY <2>1, <2>2, <2>3 DEF TypeOK
<1>11. CASE BroadcastActive
  <2>1. FlagsOK' BY <1>11, Zenon DEF BroadcastActive, TypeOK, FlagsOK
  <2>2. PcOK' BY <1>11, GotoTyped DEF BroadcastActive, TypeOK, Threads, MainLabels, SvcLabels, RxLabels, DeinitLabels
  <2>3. DataOK' BY <1>11 DEF BroadcastActive, TypeOK, DataOK
  <2> QED BY <2>1, <2>2, <2>3 DEF TypeOK
<1>12. CASE SendStarted
  <2>1. FlagsOK' BY <1>12, Zenon DEF SendStarted, TypeOK, FlagsOK
  <2>2. PcOK' BY <1>12, GotoTyped DEF SendStarted, TypeOK, Threads, MainLabels, SvcLabels, RxLabels, DeinitLabels
  <2>3. DataOK' BY <1>12 DEF SendStarted, TypeOK, DataOK
  <2> QED BY <2>1, <2>2, <2>3 DEF TypeOK
<1>13. CASE SelectCall
  <2>1. FlagsOK' BY <1>13, Zenon DEF SelectCall, TypeOK, FlagsOK
  <2>2. PcOK' BY <1>13, GotoTyped DEF SelectCall, TypeOK, Threads, MainLabels, SvcLabels, RxLabels, DeinitLabels
  <2>3. DataOK' BY <1>13 DEF SelectCall, TypeOK, DataOK
  <2> QED BY <2>1, <2>2, <2>3 DEF TypeOK
<1>14. CASE SelectFails
  <2>1. FlagsOK' BY <1>14, Zenon DEF SelectFails, TypeOK, FlagsOK
  <2>2. PcOK' BY <1>14, GotoTyped DEF SelectFails, TypeOK, Threads, MainLabels, SvcLabels, RxLabels, DeinitLabels
  <2>3. DataOK' BY <1>14 DEF SelectFails, TypeOK, DataOK
  <2> QED BY <2>1, <2>2, <2>3 DEF TypeOK
<1>15. CASE SelectSignalled
  <2>1. FlagsOK' BY <1>15, Zenon DEF SelectSignalled, TypeOK, FlagsOK
  <2>2. PcOK' BY <1>15, GotoTyped DEF SelectSignalled, TypeOK, Threads, MainLabels, SvcLabels, RxLabels, DeinitLabels
  <2>3. DataOK' BY <1>15 DEF SelectSignalled, TypeOK, DataOK
  <2> QED BY <2>1, <2>2, <2>3 DEF TypeOK
<1>16. CASE SelectActivity
  <2>1. FlagsOK' BY <1>16, Zenon DEF SelectActivity, TypeOK, FlagsOK
  <2>2. PcOK' BY <1>16, GotoTyped DEF SelectActivity, TypeOK, Threads, MainLabels, SvcLabels, RxLabels, DeinitLabels
  <2>3. DataOK' BY <1>16 DEF SelectActivity, TypeOK, DataOK
  <2> QED BY <2>1, <2>2, <2>3 DEF TypeOK
<1>17. CASE FailureStep("main") BY <1>17, TypeFailure
<1>18. CASE DeinitStep("main") BY <1>18, TypeDeinit DEF Threads
<1> QED BY <1>1, <1>2, <1>3, <1>4, <1>5, <1>6, <1>7, <1>8, <1>9, <1>10, <1>11, <1>12, <1>13,
           <1>14, <1>15, <1>16, <1>17, <1>18 DEF MainStep

LEMMA TypeStutter ==
    ASSUME TypeOK, UNCHANGED vars
    PROVE  TypeOK'
<1> USE DEF vars, connection, wake, broadcast, warnings, locals
<1>1. FlagsOK' BY Zenon DEF TypeOK, FlagsOK
<1>2. PcOK' BY DEF TypeOK, PcOK
<1>3. DataOK' BY DEF TypeOK, DataOK
<1> QED BY <1>1, <1>2, <1>3 DEF TypeOK

LEMMA TypeNext ==
    ASSUME TypeOK, [Next]_vars
    PROVE  TypeOK'
<1>1. CASE MainStep \/ SelectActivity BY <1>1, TypeMain
<1>2. CASE SvcStep \/ Suspend \/ Resume \/ OnStop BY <1>2, TypeSvc
<1>3. CASE \E r \in RxThreads : RxStep(r) BY <1>3, TypeRx
<1>4. CASE UNCHANGED vars BY <1>4, TypeStutter
<1> QED BY <1>1, <1>2, <1>3, <1>4 DEF Next

(* Every behaviour of the loop keeps its types: in particular the retries  *)
(* never pass MAX_CONNECT_RETRIES and no thread leaves its own code.       *)
THEOREM TypeCorrect == Spec => []TypeOK
<1>1. Init => TypeOK BY TypeInit
<1>2. TypeOK /\ [Next]_vars => TypeOK' BY TypeNext
<1> QED BY <1>1, <1>2, PTL DEF Spec

-----------------------------------------------------------------------------
(* One reader *)

(* What the two properties need beside themselves.  A thread that ended    *)
(* has no mark left, so that the next one is spawned unmarked; a           *)
(* connection that is down has told its reader to end; and only main,      *)
(* which takes the connection down first, makes a new one.                 *)
MarkedRuns == \A r \in cancelled \cap RxThreads : pc[r] # "dead"

DownIsTold ==
    lme = "DISCONNECTED" /\ rxThread \in RxThreads =>
        pc[rxThread] \in {"dead", "signal"} \/ rxThread \in cancelled

ConnectsFromDown == pc["main"] \in {"dPipe", "dReset", "connect"} => lme = "DISCONNECTED"

ReaderInv ==
    ConnectedHasReader /\ OneReader /\ MarkedRuns /\ DownIsTold /\ ConnectsFromDown

LEMMA ReaderInit == Init => ReaderInv
BY LifecycleAssumption
DEF Init, ReaderInv, ConnectedHasReader, OneReader, MarkedRuns, DownIsTold, ConnectsFromDown,
    Threads

(* Taking the connection down tells its reader, whichever thread does it.  *)
LEMMA ReaderDown ==
    ASSUME TypeOK, ReaderInv, NEW t \in Threads, NEW label, LmeDown, Goto(t, label),
           pc[t] \notin {"dead", "signal"}, label # "dead"
    PROVE  ReaderInv'
<1> USE LifecycleAssumption
    DEF LmeDown, Goto, TypeOK, DataOK, PcOK, ReaderInv, Threads
<1>1. ConnectedHasReader' BY DEF ConnectedHasReader
<1>2. OneReader' BY DEF OneReader
<1>3. MarkedRuns' BY DEF MarkedRuns
<1>4. DownIsTold' BY DEF DownIsTold
<1>5. ConnectsFromDown' BY DEF ConnectsFromDown
<1> QED BY <1>1, <1>2, <1>3, <1>4, <1>5

(* A step that leaves connection, marks and dead threads alone, and main   *)
(* where it does not connect, keeps the invariant.                         *)
LEMMA ReaderGoto ==
    ASSUME TypeOK, ReaderInv, NEW t \in Threads, NEW label, Goto(t, label),
           UNCHANGED <<lme, rxThread>>,
           cancelled' \cap RxThreads = cancelled \cap RxThreads,
           pc[t] \notin {"dead", "signal"} \/ t = "svc", label # "dead",
           t \in RxThreads => label \in DeinitLabels \cup {"receive"},
           t = "main" /\ label \in {"dPipe", "dReset", "connect"} => lme = "DISCONNECTED"
    PROVE  ReaderInv'
<1> USE LifecycleAssumption
    DEF Goto, TypeOK, DataOK, PcOK, ReaderInv, Threads
<1>1. ConnectedHasReader' BY DEF ConnectedHasReader
<1>2. OneReader' BY DEF OneReader
<1>3. MarkedRuns' BY DEF MarkedRuns
<1>4. DownIsTold' BY DEF DownIsTold
<1>5. ConnectsFromDown' BY DEF ConnectsFromDown
<1> QED BY <1>1, <1>2, <1>3, <1>4, <1>5

(* A receive thread ends: it was cancelled, or took the connection down.   *)
LEMMA ReaderDie ==
    ASSUME TypeOK, ReaderInv, NEW r \in RxThreads, Die(r), UNCHANGED <<lme, rxThread>>,
           pc[r] = "signal" \/ r \in cancelled
    PROVE  ReaderInv'
<1> USE LifecycleAssumption
    DEF Die, Goto, TypeOK, DataOK, PcOK, ReaderInv, Threads
<1>1. ConnectedHasReader' BY DEF ConnectedHasReader, DeinitLabels
<1>2. OneReader' BY DEF OneReader
<1>3. MarkedRuns' BY DEF MarkedRuns
<1>4. DownIsTold' BY DEF DownIsTold
<1>5. ConnectsFromDown' BY DEF ConnectsFromDown
<1> QED BY <1>1, <1>2, <1>3, <1>4, <1>5

(* A new connection gets a thread that was dead, hence is not marked; the  *)
(* reader of the last one has been told.                                   *)
LEMMA ReaderConnect ==
    ASSUME TypeOK, ReaderInv, NEW ok \in BOOLEAN, Connect(ok)
    PROVE  ReaderInv'
<1> USE LifecycleAssumption DEF TypeOK, DataOK, PcOK, ReaderInv, Threads
<1>1. CASE ~ok
  <2>1. Goto("main", "failed") /\ UNCHANGED <<lme, rxThread, cancelled>> /\ pc["main"] = "connect"
    BY <1>1 DEF Connect
  <2> QED BY <2>1, ReaderGoto
<1>2. CASE ok
  <2>1. PICK r \in RxThreads : /\ pc[r] = "dead" /\ rxThread' = r /\ lme' = "CONNECTED"
                               /\ pc' = [pc EXCEPT !["main"] = "portWait", ![r] = "receive"]
    BY <1>2 DEF Connect
  <2>2. cancelled' = cancelled /\ pc["main"] = "connect" BY <1>2 DEF Connect
  <2>3. ConnectedHasReader' BY <2>1, <2>2 DEF ConnectedHasReader, MarkedRuns
  <2>4. OneReader' BY <2>1, <2>2 DEF OneReader, DownIsTold, ConnectsFromDown
  <2>5. MarkedRuns' BY <2>1, <2>2 DEF MarkedRuns
  <2>6. DownIsTold' BY <2>1, <2>2 DEF DownIsTold
  <2>7. ConnectsFromDown' BY <2>1, <2>2 DEF ConnectsFromDown
  <2> QED BY <2>3, <2>4, <2>5, <2>6, <2>7
<1> QED BY <1>1, <1>2

(* Every step keeps the invariant; nearly all leave connection and marks   *)
(* alone and only move their thread.                                       *)
LEMMA ReaderDeinit ==
    ASSUME TypeOK, ReaderInv, NEW t \in Threads, DeinitStep(t)
    PROVE  ReaderInv'
<1> USE LifecycleAssumption DEF connection, Threads, TypeOK, DataOK, DeinitLabels
<1>1. CASE DeinitLme(t) BY <1>1, ReaderDown DEF DeinitLme
<1>2. CASE DeinitPipe(t)
  <2>1. t = "main" => lme = "DISCONNECTED" BY <1>2 DEF DeinitPipe, ReaderInv, ConnectsFromDown
  <2> QED BY <1>2, <2>1, ReaderGoto DEF DeinitPipe
<1>3. CASE DeinitReset(t)
  <2>1. t = "main" => lme = "DISCONNECTED" BY <1>3 DEF DeinitReset, ReaderInv, ConnectsFromDown
  <2> QED BY <1>3, <2>1, ReaderGoto DEF DeinitReset
<1> QED BY <1>1, <1>2, <1>3 DEF DeinitStep

LEMMA ReaderFailure ==
    ASSUME TypeOK, ReaderInv, NEW t \in {"main", "svc"}, FailureStep(t)
    PROVE  ReaderInv'
<1> USE LifecycleAssumption DEF connection, Threads, AfterFailure
<1>1. CASE BroadcastFailure(t) BY <1>1, ReaderGoto DEF BroadcastFailure
<1>2. CASE SendStopped(t) BY <1>2, ReaderGoto DEF SendStopped
<1> QED BY <1>1, <1>2 DEF FailureStep

(* A step that changes none of the variables of the invariant keeps it.    *)
LEMMA ReaderStutter ==
    ASSUME ReaderInv, UNCHANGED <<lme, rxThread, cancelled, pc>>
    PROVE  ReaderInv'
BY DEF ReaderInv, ConnectedHasReader, OneReader, MarkedRuns, DownIsTold, ConnectsFromDown

LEMMA ReaderRx ==
    ASSUME TypeOK, ReaderInv, NEW r \in RxThreads, RxStep(r)
    PROVE  ReaderInv'
<1> USE LifecycleAssumption DEF connection, Threads
<1>1. CASE ReceiveRequest(r) BY <1>1, ReaderStutter DEF ReceiveRequest
<1>2. CASE ReceiveError(r) BY <1>2, ReaderDown DEF ReceiveError
<1>3. CASE ReceiveSignal(r) BY <1>3, ReaderDie DEF ReceiveSignal
<1>4. CASE ReceiveCancelled(r) BY <1>4, ReaderDie DEF ReceiveCancelled
<1>5. ASSUME NEW bySelf \in BOOLEAN, ReceiveDisconnect(r, bySelf) PROVE ReaderInv'
  BY <1>5, ReaderGoto DEF ReceiveDisconnect, Receiving, DeinitLabels
<1>6. CASE DeinitStep(r) BY <1>6, ReaderDeinit
<1> QED BY <1>1, <1>2, <1>3, <1>4, <1>5, <1>6 DEF RxStep

LEMMA ReaderSvc ==
    ASSUME TypeOK, ReaderInv, SvcStep \/ Suspend \/ Resume \/ OnStop
    PROVE  ReaderInv'
<1> USE LifecycleAssumption DEF connection, Threads
<1>1. CASE FailureStep("svc") BY <1>1, ReaderFailure
<1>2. CASE DeinitStep("svc") BY <1>2, ReaderDeinit
<1>3. CASE StopSignal BY <1>3, ReaderGoto DEF StopSignal
<1>4. CASE StopWait BY <1>4, ReaderGoto DEF StopWait
<1>5. CASE Suspend BY <1>5, ReaderGoto DEF Suspend
<1>6. CASE Resume BY <1>6, ReaderStutter DEF Resume
<1>7. CASE OnStop BY <1>7, ReaderGoto DEF OnStop
<1> QED BY <1>1, <1>2, <1>3, <1>4, <1>5, <1>6, <1>7 DEF SvcStep

LEMMA ReaderMain ==
    ASSUME TypeOK, ReaderInv, MainStep \/ SelectActivity
    PROVE  ReaderInv'
<1> USE LifecycleAssumption DEF connection, Threads
<1>1. CASE TopCancelled BY <1>1, ReaderGoto DEF TopCancelled, Leave
<1>2. CASE TopConnected BY <1>2, ReaderGoto DEF TopConnected
<1>3. CASE TopLost BY <1>3, ReaderGoto DEF TopLost
<1>4. CASE TryInit BY <1>4, ReaderGoto DEF TryInit
<1>5. CASE Retry BY <1>5, ReaderGoto DEF Retry, Leave
<1>6. CASE Settle BY <1>6, ReaderGoto DEF Settle
<1>7. CASE Sockets BY <1>7, ReaderGoto DEF Sockets
<1>8. CASE BroadcastActive BY <1>8, ReaderGoto DEF BroadcastActive
<1>9. CASE SendStarted BY <1>9, ReaderGoto DEF SendStarted
<1>10. CASE SelectCall BY <1>10, ReaderGoto DEF SelectCall
<1>11. CASE SelectFails BY <1>11, ReaderGoto DEF SelectFails
<1>12. CASE SelectSignalled BY <1>12, ReaderGoto DEF SelectSignalled
<1>13. CASE SelectActivity BY <1>13, ReaderGoto DEF SelectActivity
<1>14. ASSUME NEW ok \in BOOLEAN, Connect(ok) PROVE ReaderInv' BY <1>14, ReaderConnect
<1>15. ASSUME NEW ok \in BOOLEAN, PortWait(ok) PROVE ReaderInv'
  <2>1. CASE ok BY <1>15, <2>1, ReaderGoto DEF PortWait
  <2>2. CASE ~ok BY <1>15, <2>2, ReaderDown DEF PortWait
  <2> QED BY <2>1, <2>2
<1>16. ASSUME NEW ok \in BOOLEAN, Failed(ok) PROVE ReaderInv' BY <1>16, ReaderGoto DEF Failed
<1>17. CASE FailureStep("main") BY <1>17, ReaderFailure
<1>18. CASE DeinitStep("main") BY <1>18, ReaderDeinit
<1> QED BY <1>1, <1>2, <1>3, <1>4, <1>5, <1>6, <1>7, <1>8, <1>9,
    <1>10, <1>11, <1>12, <1>13, <1>14, <1>15, <1>16, <1>17, <1>18 DEF MainStep

LEMMA ReaderNext == TypeOK /\ ReaderInv /\ [Next]_vars => ReaderInv'
<1> SUFFICES ASSUME TypeOK, ReaderInv, [Next]_vars PROVE ReaderInv' OBVIOUS
<1>1. CASE MainStep \/ SelectActivity BY <1>1, ReaderMain
<1>2. CASE SvcStep \/ Suspend \/ Resume \/ OnStop BY <1>2, ReaderSvc
<1>3. ASSUME NEW r \in RxThreads, RxStep(r) PROVE ReaderInv' BY <1>3, ReaderRx
<1>4. CASE UNCHANGED vars BY <1>4, ReaderStutter DEF vars, connection
<1> QED BY <1>1, <1>2, <1>3, <1>4 DEF Next

LEMMA ReaderCorrect == Spec => []ReaderInv
<1>1. Init => ReaderInv BY ReaderInit
<1>2. TypeOK /\ ReaderInv /\ [Next]_vars => ReaderInv' BY ReaderNext
<1> QED BY <1>1, <1>2, TypeCorrect, PTL DEF Spec

(* A connection that is up has a reader that runs and was not cancelled,   *)
(* for any number of receive threads: DeinitInternal, by whichever thread, *)
(* and LMEConnection::Init leave none that is up and unread.               *)
THEOREM ReaderOfConnection == Spec => []ConnectedHasReader
<1>1. ReaderInv => ConnectedHasReader BY DEF ReaderInv
<1> QED BY <1>1, ReaderCorrect, PTL

(* At most one receive thread handles the firmware's messages: the thread  *)
(* of an earlier connection is dead, at its end, or cancelled.             *)
THEOREM SingleReader == Spec => []OneReader
<1>1. ReaderInv => OneReader BY DEF ReaderInv
<1> QED BY <1>1, ReaderCorrect, PTL
-----------------------------------------------------------------------------
(* What the Configurator is told *)

(* While nobody suspends the service, only the loop broadcasts.  The flag  *)
(* needActivated is then the loop's own account of its last message: it    *)
(* goes on before STOPPED is sent and off before STARTED is, and the loop  *)
(* that leaves for good has it on from the broadcast to the end.           *)
MainBroadcasts == pc["svc"] \in {"idle", "signal", "wait", "stopped"}

FlagIsStopped ==
    /\ needActivated /\ pc["main"] # "sendStopped" => reported = "STOPPED"
    /\ pc["main"] = "sendStopped" => needActivated
    /\ pc["main"] = "sendStarted" => ~needActivated

LeavingIsFlagged ==
    /\ goal = "ended" /\ pc["main"] \in DeinitLabels => needActivated
    /\ pc["main"] = "ended" => needActivated

ReportInv == MainBroadcasts /\ FlagIsStopped /\ LeavingIsFlagged

LEMMA ReportInit == Init => ReportInv
BY LifecycleAssumption
DEF Init, ReportInv, MainBroadcasts, FlagIsStopped, LeavingIsFlagged, Threads, DeinitLabels

(* A step of another thread that leaves the flag and the messages alone.   *)
LEMMA ReportOther ==
    ASSUME ReportInv, UNCHANGED <<needActivated, reported, goal>>,
           pc'["main"] = pc["main"], pc'["svc"] \in {"idle", "signal", "wait", "stopped"}
    PROVE  ReportInv'
BY DEF ReportInv, MainBroadcasts, FlagIsStopped, LeavingIsFlagged

(* A step of main that is neither a broadcast nor the way out.             *)
LEMMA ReportGoto ==
    ASSUME TypeOK, ReportInv, NEW label, Goto("main", label),
           UNCHANGED <<needActivated, reported>>,
           pc["main"] # "sendStopped",
           label \notin {"sendStopped", "sendStarted", "ended"},
           label \in DeinitLabels => goal' # "ended" \/ (pc["main"] \in DeinitLabels /\ goal' = goal)
    PROVE  ReportInv'
<1>1. pc'["main"] = label /\ pc'["svc"] = pc["svc"]
  BY LifecycleAssumption DEF Goto, TypeOK, PcOK, Threads
<1> QED BY <1>1 DEF ReportInv, MainBroadcasts, FlagIsStopped, LeavingIsFlagged, DeinitLabels

(* A receive thread, and the service without suspend, never broadcast.     *)
LEMMA ReportRx ==
    ASSUME TypeOK, ReportInv, NEW r \in RxThreads, RxStep(r)
    PROVE  ReportInv'
<1>1. r # "main" /\ r # "svc" /\ r \in Threads BY LifecycleAssumption DEF Threads
<1>2. pc'["main"] = pc["main"] /\ pc'["svc"] = pc["svc"]
  <2>1. pc' = pc \/ \E label : Goto(r, label)
    BY DEF RxStep, ReceiveRequest, ReceiveError, ReceiveSignal, ReceiveCancelled,
       ReceiveDisconnect, DeinitStep, DeinitLme, DeinitPipe, DeinitReset, Die
  <2> QED BY <1>1, <2>1 DEF Goto, TypeOK, PcOK, Threads
<1>3. UNCHANGED <<needActivated, reported, goal>>
  BY DEF RxStep, ReceiveRequest, ReceiveError, ReceiveSignal, ReceiveCancelled,
     ReceiveDisconnect, DeinitStep, DeinitLme, DeinitPipe, DeinitReset, broadcast, locals
<1>4. pc["svc"] \in {"idle", "signal", "wait", "stopped"} BY DEF ReportInv, MainBroadcasts
<1> QED BY <1>2, <1>3, <1>4, ReportOther

LEMMA ReportSvc ==
    ASSUME TypeOK, ReportInv, "suspend" \notin SvcCalls,
           SvcStep \/ Suspend \/ Resume \/ OnStop
    PROVE  ReportInv'
<1> USE DEF broadcast, locals
<1>1. pc["svc"] \in {"idle", "signal", "wait", "stopped"} BY DEF ReportInv, MainBroadcasts
<1>2. pc \in [Threads -> MainLabels \cup SvcLabels \cup RxLabels] /\ {"main", "svc"} \subseteq Threads
  BY DEF TypeOK, PcOK, Threads
<1>3. CASE StopSignal BY <1>2, <1>3, ReportOther DEF StopSignal, Goto
<1>4. CASE StopWait BY <1>2, <1>4, ReportOther DEF StopWait, Goto
<1>5. CASE OnStop BY <1>2, <1>5, ReportOther DEF OnStop, Goto
<1>6. CASE Resume BY <1>1, <1>6, ReportOther DEF Resume
<1>7. ~Suspend BY DEF Suspend
<1>8. ~FailureStep("svc") BY <1>1 DEF FailureStep, BroadcastFailure, SendStopped
<1>9. ~DeinitStep("svc") BY <1>1 DEF DeinitStep, DeinitLme, DeinitPipe, DeinitReset
<1> QED BY <1>3, <1>4, <1>5, <1>6, <1>7, <1>8, <1>9 DEF SvcStep

(* The broadcasts of main, and the last step of its way out.               *)
LEMMA ReportFailure ==
    ASSUME TypeOK, ReportInv, FailureStep("main")
    PROVE  ReportInv'
<1> USE DEF ReportInv, MainBroadcasts, FlagIsStopped, LeavingIsFlagged, DeinitLabels, AfterFailure
<1>1. pc \in [Threads -> MainLabels \cup SvcLabels \cup RxLabels] /\ {"main", "svc"} \subseteq Threads
  BY DEF TypeOK, PcOK, Threads
<1>2. CASE BroadcastFailure("main") BY <1>1, <1>2 DEF BroadcastFailure, Goto
<1>3. CASE SendStopped("main") BY <1>1, <1>3 DEF SendStopped, Goto
<1> QED BY <1>2, <1>3 DEF FailureStep

LEMMA ReportActive ==
    ASSUME TypeOK, ReportInv, BroadcastActive \/ SendStarted
    PROVE  ReportInv'
<1> USE DEF ReportInv, MainBroadcasts, FlagIsStopped, LeavingIsFlagged, DeinitLabels
<1>1. pc \in [Threads -> MainLabels \cup SvcLabels \cup RxLabels] /\ {"main", "svc"} \subseteq Threads
  BY DEF TypeOK, PcOK, Threads
<1>2. CASE BroadcastActive BY <1>1, <1>2 DEF BroadcastActive, Goto, locals
<1>3. CASE SendStarted BY <1>1, <1>3 DEF SendStarted, Goto, locals
<1> QED BY <1>2, <1>3

LEMMA ReportDeinit ==
    ASSUME TypeOK, ReportInv, DeinitStep("main")
    PROVE  ReportInv'
<1> USE DEF broadcast, locals, DeinitLabels
<1>1. CASE DeinitLme("main") BY <1>1, ReportGoto DEF DeinitLme
<1>2. CASE DeinitPipe("main") BY <1>2, ReportGoto DEF DeinitPipe
<1>3. CASE DeinitReset("main")
  <2>1. pc["main"] = "dReset" /\ Goto("main", goal) /\ UNCHANGED <<needActivated, reported, goal>>
    BY <1>3 DEF DeinitReset
  <2>2. CASE goal # "ended"
    BY <2>1, <2>2, ReportGoto DEF TypeOK, DataOK
  <2>3. CASE goal = "ended"
    <3>1. pc'["main"] = "ended" /\ pc'["svc"] = pc["svc"]
      BY <2>1, <2>3 DEF Goto, TypeOK, PcOK, Threads
    <3> QED BY <2>1, <2>3, <3>1
        DEF ReportInv, MainBroadcasts, FlagIsStopped, LeavingIsFlagged
  <2> QED BY <2>2, <2>3
<1> QED BY <1>1, <1>2, <1>3 DEF DeinitStep

LEMMA ReportMain ==
    ASSUME TypeOK, ReportInv, MainStep \/ SelectActivity
    PROVE  ReportInv'
<1> USE DEF broadcast, warnings, locals, DeinitLabels
<1>1. CASE TopCancelled BY <1>1, ReportGoto DEF TopCancelled, Leave
<1>2. CASE TopConnected BY <1>2, ReportGoto DEF TopConnected
<1>3. CASE TopLost BY <1>3, ReportGoto DEF TopLost
<1>4. CASE TryInit BY <1>4, ReportGoto DEF TryInit
<1>5. CASE Retry BY <1>5, ReportGoto DEF Retry, Leave
<1>6. CASE Settle BY <1>6, ReportGoto DEF Settle
<1>7. CASE Sockets BY <1>7, ReportGoto DEF Sockets
<1>8. CASE SelectCall BY <1>8, ReportGoto DEF SelectCall
<1>9. CASE SelectFails BY <1>9, ReportGoto DEF SelectFails
<1>10. CASE SelectSignalled BY <1>10, ReportGoto DEF SelectSignalled
<1>11. CASE SelectActivity BY <1>11, ReportGoto DEF SelectActivity
<1>12. ASSUME NEW ok \in BOOLEAN, Connect(ok) PROVE ReportInv'
  <2>1. CASE ~ok BY <1>12, <2>1, ReportGoto DEF Connect
  <2>2. CASE ok
    <3>1. pc'["main"] = "portWait" /\ pc'["svc"] = pc["svc"]
      BY <1>12, <2>2, LifecycleAssumption DEF Connect, TypeOK, PcOK, Threads
    <3>2. pc["main"] = "connect" /\ UNCHANGED <<needActivated, reported, goal>>
      BY <1>12 DEF Connect
    <3> QED BY <3>1, <3>2 DEF ReportInv, MainBroadcasts, FlagIsStopped, LeavingIsFlagged
  <2> QED BY <2>1, <2>2
<1>13. ASSUME NEW ok \in BOOLEAN, PortWait(ok) PROVE ReportInv' BY <1>13, ReportGoto DEF PortWait
<1>14. ASSUME NEW ok \in BOOLEAN, Failed(ok) PROVE ReportInv' BY <1>14, ReportGoto DEF Failed
<1>15. CASE BroadcastActive \/ SendStarted BY <1>15, ReportActive
<1>16. CASE FailureStep("main") BY <1>16, ReportFailure
<1>17. CASE DeinitStep("main") BY <1>17, ReportDeinit
<1> QED BY <1>1, <1>2, <1>3, <1>4, <1>5, <1>6, <1>7, <1>8, <1>9,
    <1>10, <1>11, <1>12, <1>13, <1>14, <1>15, <1>16, <1>17 DEF MainStep

LEMMA ReportNext ==
    ASSUME "suspend" \notin SvcCalls
    PROVE  TypeOK /\ ReportInv /\ [Next]_vars => ReportInv'
<1> SUFFICES ASSUME TypeOK, ReportInv, [Next]_vars PROVE ReportInv' OBVIOUS
<1>1. CASE MainStep \/ SelectActivity BY <1>1, ReportMain
<1>2. CASE SvcStep \/ Suspend \/ Resume \/ OnStop BY <1>2, ReportSvc
<1>3. ASSUME NEW r \in RxThreads, RxStep(r) PROVE ReportInv' BY <1>3, ReportRx
<1>4. CASE UNCHANGED vars
  BY <1>4 DEF vars, broadcast, locals, ReportInv, MainBroadcasts, FlagIsStopped, LeavingIsFlagged
<1> QED BY <1>1, <1>2, <1>3, <1>4 DEF Next

LEMMA ReportCorrect ==
    ASSUME "suspend" \notin SvcCalls
    PROVE  Spec => []ReportInv
<1>1. Init => ReportInv BY ReportInit
<1>2. TypeOK /\ ReportInv /\ [Next]_vars => ReportInv' BY ReportNext
<1> QED BY <1>1, <1>2, TypeCorrect, PTL DEF Spec

(* BroadcastFailure is never muted wrongly in a run without a suspend: for *)
(* any number of receive threads, any calls of the service but suspend and *)
(* any number of retries, the flag is on only when STARTED was not the     *)
(* last word.  With a suspend it is not so: the service's STOPPED and the  *)
(* loop's STARTED can cross, which is why the hypothesis is there.         *)
THEOREM FlagTellsTheTruth ==
    ASSUME "suspend" \notin SvcCalls
    PROVE  Spec => []FlagMeansStopped
<1>1. ReportInv => FlagMeansStopped
  BY DEF ReportInv, FlagIsStopped, FlagMeansStopped, BroadcastUnderWay
<1> QED BY <1>1, ReportCorrect, PTL

(* In the same runs the loop that has ended told the Configurator so,      *)
(* whether it gave up after MAX_CONNECT_RETRIES or was asked to stop, and  *)
(* also when an earlier failure has muted its last BroadcastFailure.       *)
THEOREM EndIsTold ==
    ASSUME "suspend" \notin SvcCalls
    PROVE  Spec => []EndedIsReported
<1>1. ReportInv => EndedIsReported
  BY DEF ReportInv, FlagIsStopped, LeavingIsFlagged, EndedIsReported
<1> QED BY <1>1, ReportCorrect, PTL
=============================================================================
