------------------------- MODULE ProtocolWakeProofs -------------------------
(***************************************************************************)
(* Proof that the signal pipe of Protocol loses no wake-up: main never     *)
(* waits in select() with an empty pipe without watching every acceptor    *)
(* and every channel that can be read, for the same constants as           *)
(* ProtocolProofs.                                                         *)
(***************************************************************************)
EXTENDS ProtocolProofs

(* Where main has a set of descriptors at hand, and where it still relies  *)
(* on the pipe to hear of a change to the tables.                          *)
PassLabels  == {"selChannels", "selCall", "select", "selectBlind", "accept", "acceptWait",
                "rxLoop", "recv", "apply"}
WatchLabels == {"selPorts", "selChannels", "selCall", "select"}

(* Outside Select() main holds no descriptor.                              *)
PassIdle == pc["main"] \notin PassLabels => rset = {} /\ current = None /\ reaped = {}

(* SelectWatchesAll speaks of one label; on the way there, while the pipe  *)
(* is empty, no descriptor that was closed has been opened again, and main *)
(* watches what it has looked up so far.                                   *)
WatchInv ==
    pc["main"] \in WatchLabels /\ pipeOpen /\ pipe = 0 =>
        /\ reaped \cap openFds = {}
        /\ pc["main"] # "selPorts" => ListenFds \subseteq rset
        /\ pc["main"] \in {"selCall", "select"} => Eligible \subseteq rset

WakeInv == PassIdle /\ WatchInv

-----------------------------------------------------------------------------
(* Steps of other threads *)

(* The descriptors main works on stay; some of them may be closed.         *)
Holds == /\ rset' = rset /\ current' = current
         /\ reaped' \subseteq reaped \cup (Fds \cap (rset \cup {current}))

(* A step leaves a byte in the pipe, or the pipe closed ...                *)
Wakes == ~pipeOpen' \/ pipe' > 0

(* ... or there is no more to watch than before.                           *)
Shrinks ==
    /\ UNCHANGED wake
    /\ openFds' \subseteq openFds
    /\ reaped' \cap openFds' \subseteq reaped \cap openFds
    /\ ListenFds' \subseteq ListenFds
    /\ Eligible' \subseteq Eligible

OtherStep == pc'["main"] = pc["main"] /\ Holds /\ (Wakes \/ Shrinks)

(* A step of main that stays outside Select().                             *)
IdleStep == {pc["main"], pc'["main"]} \cap (PassLabels \cup WatchLabels) = {} /\ Holds

LEMMA WakeOther ==
    ASSUME TypeInv, WakeInv, OtherStep
    PROVE  WakeInv'
<1>1. PassIdle' BY NoneAssumption DEF WakeInv, PassIdle, OtherStep, Holds
<1>2. WatchInv'
  <2>1. CASE Wakes BY <2>1 DEF WatchInv, Wakes, TypeInv, SessionOK
  <2>2. CASE Shrinks BY <2>2 DEF WakeInv, WatchInv, OtherStep, Holds, Shrinks, wake
  <2> QED BY <2>1, <2>2 DEF OtherStep
<1> QED BY <1>1, <1>2 DEF WakeInv

LEMMA WakeIdle ==
    ASSUME TypeInv, WakeInv, IdleStep
    PROVE  WakeInv'
BY NoneAssumption DEF WakeInv, PassIdle, WatchInv, IdleStep, Holds

(* closesocket tells main which of its descriptors went.                   *)
LEMMA CloseHolds ==
    ASSUME NEW F \in SUBSET Fds, CloseFds(F), UNCHANGED pass
    PROVE  /\ Holds /\ openFds' \subseteq openFds
           /\ reaped' \cap openFds' \subseteq reaped \cap openFds
BY DEF CloseFds, Holds, pass

LEMMA KeepHolds ==
    ASSUME reaped' = reaped, UNCHANGED pass
    PROVE  Holds
BY DEF Holds, pass

(* Tables that do not change.                                              *)
LEMMA ShrinksNot ==
    ASSUME UNCHANGED <<tables, wake>>
    PROVE  Shrinks
BY DEF Shrinks, tables, ListenFds, Live, Eligible, ChannelFds

LEMMA SameEligible ==
    ASSUME channels' = channels
    PROVE  Eligible' = Eligible
BY DEF Eligible, ChannelFds

LEMMA SameListenFds ==
    ASSUME requests' = requests
    PROVE  ListenFds' = ListenFds
BY DEF ListenFds, Live

(* Every path through a signal wakes main: the byte is written, or the     *)
(* pipe is full, or it is closed.                                          *)
LEMMA SignalWakes ==
    ASSUME TypeInv, NEW lock, NEW t, NEW next, NEW blocked, SignalUnder(lock, t, next, blocked)
    PROVE  Wakes
<1>1. pipe \in Nat /\ PipeCap \in Nat /\ PipeCap > 0
  BY BoundsAssumption DEF TypeInv, SessionOK
<1>2. CASE pipeOpen /\ pipe >= PipeCap BY <1>1, <1>2 DEF SignalUnder, Wakes, wake
<1>3. CASE ~(pipeOpen /\ pipe >= PipeCap) BY <1>1, <1>3 DEF SignalUnder, Wakes
<1> QED BY <1>2, <1>3

LEMMA MainStays ==
    ASSUME TypeInv, NEW t \in Threads \ {"main"}, NEW label, Goto(t, label)
    PROVE  pc'["main"] = pc["main"]
BY DEF Goto, TypeInv, SessionOK, Threads

(* A step of another thread that leaves the tables alone.                  *)
LEMMA OtherGoto ==
    ASSUME TypeInv, NEW t \in Threads \ {"main"}, NEW label, Goto(t, label),
           UNCHANGED <<tables, wake, pass>>
    PROVE  OtherStep
<1>1. pc'["main"] = pc["main"] BY MainStays
<1>2. Holds BY KeepHolds DEF tables
<1> QED BY <1>1, <1>2, ShrinksNot DEF OtherStep

(* One that ends with a signal, whatever it does to the tables.            *)
LEMMA OtherSignal ==
    ASSUME TypeInv, NEW t \in Threads \ {"main"}, NEW lock, NEW next, NEW blocked,
           SignalUnder(lock, t, next, blocked), reaped' = reaped, UNCHANGED pass
    PROVE  OtherStep
<1>1. pc'["main"] = pc["main"] BY MainStays DEF SignalUnder
<1> QED BY <1>1, KeepHolds, SignalWakes DEF OtherStep

LEMMA OtherDeinit ==
    ASSUME TypeInv, WakeInv, NEW t \in Deiniters, DeinitStep(t)
    PROVE  WakeInv'
<1> USE ThreadsAssumption
<1>1. \/ t = "main" /\ pc["main"] \in {"dLme", "dPipe", "dChannels", "dPorts", "dReset"}
      \/ t \in Threads \ {"main"}
  BY DEF Deiniters, Threads, DeinitStep, DeinitLme, DeinitPipe, DeinitChannels, DeinitPorts,
         DeinitReset
<1>2. Holds
  <2>1. CASE UNCHANGED <<reaped, pass>> BY <2>1, KeepHolds
  <2>2. ChannelFds \in SUBSET Fds /\ ListenFds \in SUBSET Fds
    BY DEF ChannelFds, ListenFds, Live, Request, TypeInv, TablesOK
  <2>3. CASE DeinitChannels(t) BY <2>2, <2>3, CloseHolds DEF DeinitChannels
  <2>4. CASE DeinitPorts(t) BY <2>2, <2>4, CloseHolds DEF DeinitPorts
  <2> QED BY <2>1, <2>3, <2>4 DEF DeinitStep, DeinitLme, DeinitPipe, DeinitReset, tables
<1>3. CASE t = "main"
  <2>1. pc'["main"] \in {"dPipe", "dChannels", "dPorts", "dReset", "iConnect", "top"}
    BY <1>3 DEF DeinitStep, DeinitLme, DeinitPipe, DeinitChannels, DeinitPorts, DeinitReset,
                AfterDeinit, Goto, TypeInv, SessionOK, Threads
  <2>2. IdleStep BY <1>1, <1>2, <1>3, <2>1 DEF IdleStep, PassLabels, WatchLabels
  <2> QED BY <2>2, WakeIdle
<1>4. CASE t \in Threads \ {"main"}
  <2>1. pc'["main"] = pc["main"]
    BY <1>4 DEF DeinitStep, DeinitLme, DeinitPipe, DeinitChannels, DeinitPorts, DeinitReset,
                Goto, TypeInv, SessionOK, Threads
  <2> SUFFICES Wakes \/ Shrinks BY <1>2, <2>1, WakeOther DEF OtherStep
  <2>2. CASE DeinitLme(t) BY <2>2, ShrinksNot DEF DeinitLme
  <2>3. CASE DeinitPipe(t) BY <2>3 DEF DeinitPipe, Wakes
  <2>4. CASE DeinitChannels(t)
    <3>1. openFds' \subseteq openFds /\ reaped' \cap openFds' \subseteq reaped \cap openFds
      BY <2>4, CloseHolds DEF DeinitChannels, ChannelFds
    <3>2. Eligible' = {} BY <2>4 DEF DeinitChannels, Eligible, ChannelFds
    <3> QED BY <2>4, <3>1, <3>2, SameListenFds DEF DeinitChannels, Shrinks
  <2>5. CASE DeinitPorts(t)
    <3>1. ListenFds \in SUBSET Fds BY DEF ListenFds, Live, Request, TypeInv, TablesOK
    <3>2. openFds' \subseteq openFds /\ reaped' \cap openFds' \subseteq reaped \cap openFds
      BY <2>5, <3>1, CloseHolds DEF DeinitPorts
    <3>3. ListenFds' = {} BY <2>5 DEF DeinitPorts, ListenFds, Live
    <3> QED BY <2>5, <3>2, <3>3, SameEligible DEF DeinitPorts, Shrinks
  <2>6. CASE DeinitReset(t) BY <2>6, ShrinksNot DEF DeinitReset
  <2> QED BY <2>2, <2>3, <2>4, <2>5, <2>6 DEF DeinitStep
<1> QED BY <1>1, <1>3, <1>4

LEMMA OtherReceive ==
    ASSUME TypeInv, NEW r \in RxThreads, ReceiveStep(r)
    PROVE  OtherStep
<1> USE ThreadsAssumption DEF Threads
<1>1. ASSUME NEW kind \in {"service", "forward"}, Receive(r, kind) PROVE OtherStep
  BY <1>1, OtherGoto DEF Receive
<1>2. ASSUME NEW supported \in BOOLEAN, ReceiveProtocolVersion(r, supported) PROVE OtherStep
  BY <1>2, OtherGoto DEF ReceiveProtocolVersion
<1>3. CASE ReceiveDisconnect(r) BY <1>3, OtherGoto DEF ReceiveDisconnect
<1>4. CASE ReceiveError(r)
  <2>1. CASE ~socketsActive BY <1>4, <2>1, OtherGoto DEF ReceiveError
  <2>2. CASE socketsActive BY <1>4, <2>2, OtherSignal DEF ReceiveError, tables
  <2> QED BY <2>1, <2>2
<1>5. CASE ReceiveCancelled(r) BY <1>5, OtherGoto DEF ReceiveCancelled
<1>6. CASE ReceiveMessage(r) BY <1>6, OtherGoto DEF ReceiveMessage
<1> QED BY <1>1, <1>2, <1>3, <1>4, <1>5, <1>6 DEF ReceiveStep

(* A request that leaves its list takes no socket that others listen on.   *)
LEMMA DeleteShrinks ==
    ASSUME TypeInv, NEW p \in Live, DeleteRequest(p), UNCHANGED <<channels, wake, pass>>
    PROVE  Holds /\ Shrinks
<1>1. p \in Requests /\ requests[p].sock \in Fds BY DEF Live, Request, TypeInv, TablesOK
<1> DEFINE F == IF RequestsAt(requests[p].port) = {p} THEN {requests[p].sock} ELSE {}
<1>2. F \in SUBSET Fds /\ CloseFds(F) BY <1>1 DEF DeleteRequest
<1> HIDE DEF F
<1>3. /\ Holds /\ openFds' \subseteq openFds
      /\ reaped' \cap openFds' \subseteq reaped \cap openFds
  BY <1>2, CloseHolds
<1>4. requests' = [requests EXCEPT ![p] = None] BY DEF DeleteRequest
<1>5. \A x \in Live' : x \in Live /\ requests'[x] = requests[x]
  BY <1>1, <1>4 DEF Live, TypeInv, TablesOK
<1>6. ListenFds' \subseteq ListenFds BY <1>5 DEF ListenFds
<1> QED BY <1>3, <1>6, SameEligible DEF Shrinks

LEMMA OtherHandler ==
    ASSUME TypeInv, NEW r \in RxThreads, HandlerStep(r)
    PROVE  OtherStep
<1> USE ThreadsAssumption DEF Threads
<1>1. ASSUME NEW name \in {"pfwd", "auth", "other"}, ServiceRequest(r, name) PROVE OtherStep
  BY <1>1, OtherGoto DEF ServiceRequest
<1>2. CASE StatelessRequest(r) BY <1>2, OtherGoto DEF StatelessRequest
<1>3. CASE MalformedRequest(r) BY <1>3, OtherGoto DEF MalformedRequest
<1>4. ASSUME NEW q \in Ports, TcpForwardListenFails(r, q) PROVE OtherStep
  BY <1>4, OtherGoto DEF TcpForwardListenFails
<1>5. ASSUME NEW q \in Ports, NEW a \in Addrs, TcpForwardRefused(r, q, a) PROVE OtherStep
  BY <1>5, OtherGoto DEF TcpForwardRefused
<1>6. ASSUME NEW q \in Ports, NEW a \in Addrs, TcpForwardListen(r, q, a) PROVE OtherStep
  <2>1. UNCHANGED <<reaped, pass>> BY <1>6 DEF TcpForwardListen
  <2>2. \/ SignalUnder("ports", r, "remote", "signalRemote")
        \/ SignalUnder("ports", r, "receive", "signal")
    BY <1>6 DEF TcpForwardListen
  <2> QED BY <2>1, <2>2, OtherSignal
<1>7. ASSUME NEW q \in Ports, NEW a \in Addrs, TcpForwardCancel(r, q, a) PROVE OtherStep
  <2>1. pc'["main"] = pc["main"] /\ UNCHANGED <<channels, wake, pass>>
    BY <1>7, MainStays DEF TcpForwardCancel
  <2>2. CASE UNCHANGED <<requests, openFds, reaped>>
    BY <2>1, <2>2, KeepHolds, ShrinksNot DEF OtherStep, tables
  <2>3. ASSUME NEW p \in Live, DeleteRequest(p) PROVE OtherStep
    BY <2>1, <2>3, DeleteShrinks DEF OtherStep
  <2>4. ASSUME NEW p \in Live, requests' = [requests EXCEPT ![p].status = "NOT_ACTIVE"],
               UNCHANGED <<openFds, reaped>>
        PROVE  OtherStep
    <3>1. p \in Requests /\ requests[p] \in Request BY DEF Live, TypeInv, TablesOK
    <3>2. requests'[p].sock = requests[p].sock
          /\ \A x \in Requests : x # p => requests'[x] = requests[x]
      BY <2>4, <3>1 DEF Request, TypeInv, TablesOK
    <3>3. ListenFds' \subseteq ListenFds BY <3>2 DEF ListenFds, Live
    <3> QED BY <2>1, <2>4, <3>3, KeepHolds, SameEligible DEF OtherStep, Shrinks
  <2> QED BY <1>7, <2>2, <2>3, <2>4 DEF TcpForwardCancel, RequestsAt
<1>8. ASSUME NEW soap \in BOOLEAN, NEW w \in Grants, ChannelOpen(r, soap, w) PROVE OtherStep
  BY <1>8, OtherSignal DEF ChannelOpen
<1>9. CASE ChannelOpenRefused(r) BY <1>9, OtherGoto DEF ChannelOpenRefused
<1>10. ASSUME NEW f \in Fds, NEW w \in Grants, ChannelOpenConfirmation(r, f, w) PROVE OtherStep
  BY <1>10, OtherSignal DEF ChannelOpenConfirmation
<1>11. ASSUME NEW f \in Fds, NEW w \in Grants, ChannelWindowAdjust(r, f, w) PROVE OtherStep
  <2>1. CASE f \in ChannelFds BY <1>11, <2>1, OtherSignal DEF ChannelWindowAdjust
  <2>2. CASE f \notin ChannelFds BY <1>11, <2>2, OtherGoto DEF ChannelWindowAdjust, tables
  <2> QED BY <2>1, <2>2
<1>12. ASSUME NEW f \in Fds, NEW requestClose \in BOOLEAN, ChannelData(r, f, requestClose)
       PROVE  OtherStep
  <2>1. pc'["main"] = pc["main"] /\ UNCHANGED <<requests, openFds, reaped, wake, pass>>
    BY <1>12, MainStays DEF ChannelData
  <2>2. Eligible' \subseteq Eligible
    <3>1. CASE channels' = channels BY <3>1, SameEligible
    <3>2. CASE f \in ChannelFds /\ channels' = [channels EXCEPT ![f].status = "WAITING_CLOSE"]
      <4>1. channels[f] \in Channel BY <3>2 DEF ChannelFds, TypeInv, TablesOK
      <4>2. channels'[f].status = "WAITING_CLOSE" /\ \A g \in Fds : g # f => channels'[g] = channels[g]
        BY <3>2, <4>1 DEF Channel, TypeInv, TablesOK
      <4> QED BY <4>2 DEF Eligible, ChannelFds
    <3> QED BY <1>12, <3>1, <3>2 DEF ChannelData
  <2> QED BY <2>1, <2>2, KeepHolds, SameListenFds DEF OtherStep, Shrinks
<1>13. ASSUME NEW f \in Fds, ChannelClose(r, f) PROVE OtherStep
  <2>1. pc'["main"] = pc["main"] /\ UNCHANGED <<wake, pass>>
    <3>1. Goto(r, "receive") \/ Goto(r, "closeRequest")
      BY <1>13 DEF ChannelClose, DecreaseChannelCount
    <3> QED BY <1>13, <3>1, MainStays DEF ChannelClose
  <2>2. CASE f \notin ChannelFds
    BY <1>13, <2>1, <2>2, KeepHolds, ShrinksNot DEF ChannelClose, OtherStep, tables
  <2>3. CASE f \in ChannelFds
    <3>1. CloseFds({f}) /\ channels' = [channels EXCEPT ![f] = None] BY <1>13, <2>3 DEF ChannelClose
    <3>2. /\ Holds /\ openFds' \subseteq openFds
          /\ reaped' \cap openFds' \subseteq reaped \cap openFds
      BY <2>1, <3>1, CloseHolds
    <3>3. Eligible' \subseteq Eligible BY <3>1 DEF Eligible, ChannelFds, TypeInv, TablesOK
    <3>4. ListenFds' \subseteq ListenFds
      <4>1. \/ requests' = requests
            \/ \E p \in Live : requests' = [requests EXCEPT ![p].count = Decreased(requests[p].count)]
        BY <1>13, <2>3 DEF ChannelClose, DecreaseChannelCount
      <4>2. ASSUME NEW p \in Live,
                   requests' = [requests EXCEPT ![p].count = Decreased(requests[p].count)]
            PROVE  ListenFds' \subseteq ListenFds
        <5>1. p \in Requests /\ requests[p] \in Request BY DEF Live, TypeInv, TablesOK
        <5>2. requests'[p].sock = requests[p].sock
              /\ \A x \in Requests : x # p => requests'[x] = requests[x]
          BY <4>2, <5>1 DEF Request, TypeInv, TablesOK
        <5> QED BY <5>2 DEF ListenFds, Live
      <4> QED BY <4>1, <4>2, SameListenFds
    <3> QED BY <2>1, <3>2, <3>3, <3>4 DEF OtherStep, Shrinks
  <2> QED BY <2>2, <2>3
<1>14. CASE CloseRequest(r)
  <2>1. pc'["main"] = pc["main"] /\ UNCHANGED <<channels, wake, pass>>
    BY <1>14, MainStays DEF CloseRequest
  <2>2. CASE UNCHANGED <<requests, openFds, reaped>>
    BY <2>1, <2>2, KeepHolds, ShrinksNot DEF OtherStep, tables
  <2>3. ASSUME NEW p \in Live, DeleteRequest(p) PROVE OtherStep
    BY <2>1, <2>3, DeleteShrinks DEF OtherStep
  <2> QED BY <1>14, <2>2, <2>3 DEF CloseRequest, ClosePortForwardRequest
<1>15. ASSUME NEW shared \in BOOLEAN, RxUpdateAccess(r, shared) PROVE OtherStep
  <2>1. CASE shared BY <1>15, <2>1, OtherSignal DEF RxUpdateAccess, UpdateEnterpriseAccess
  <2>2. CASE ~shared BY <1>15, <2>2, OtherGoto DEF RxUpdateAccess, UpdateEnterpriseAccess, tables
  <2> QED BY <2>1, <2>2
<1> QED BY <1>1, <1>2, <1>3, <1>4, <1>5, <1>6, <1>7, <1>8, <1>9, <1>10, <1>11, <1>12, <1>13,
           <1>14, <1>15 DEF HandlerStep

-----------------------------------------------------------------------------
(* Steps of main *)

LEMMA WakeInitStep ==
    ASSUME TypeInv, WakeInv, InitStep
    PROVE  WakeInv'
<1> USE ThreadsAssumption DEF LeaveInit, Goto, TypeInv, SessionOK, Threads, PassLabels, WatchLabels,
                              IdleStep
<1>1. CASE BeginInit BY <1>1, WakeIdle, KeepHolds DEF BeginInit, tables
<1>2. CASE InitConnect BY <1>2, WakeIdle, KeepHolds DEF InitConnect, tables
<1>3. CASE InitVersion BY <1>3, WakeIdle, KeepHolds DEF InitVersion, tables
<1>4. CASE InitDone BY <1>4, WakeIdle, KeepHolds DEF InitDone, tables
<1>5. ASSUME NEW ok \in BOOLEAN, InitWait(ok) PROVE WakeInv'
  BY <1>5, WakeIdle, KeepHolds DEF InitWait, tables
<1>6. ASSUME NEW ok \in BOOLEAN, InitBuffer(ok) PROVE WakeInv'
  BY <1>6, WakeIdle, KeepHolds DEF InitBuffer, AdapterStarted, tables
<1>7. ASSUME NEW ok \in BOOLEAN, InitUpdateAccess(ok) PROVE WakeInv'
  <2>1. pc["main"] = "iRemote" /\ pc'["main"] \in {"iDone", "signal"} /\ UNCHANGED <<reaped, pass>>
    BY <1>7 DEF InitUpdateAccess, UpdateEnterpriseAccess, SignalUnder
  <2> QED BY <2>1, WakeIdle, KeepHolds
<1>8. CASE InitThreadLate BY <1>8, WakeIdle, KeepHolds DEF InitThreadLate, tables
<1>9. CASE InitAdapterFails BY <1>9, WakeIdle, KeepHolds DEF InitAdapterFails, tables
<1> QED BY <1>1, <1>2, <1>3, <1>4, <1>5, <1>6, <1>7, <1>8, <1>9 DEF InitStep

LEMMA WakeSelect ==
    ASSUME TypeInv, FdsOwned, WakeInv, SelectStep
    PROVE  WakeInv'
<1> USE ThreadsAssumption DEF Goto, SessionOK, Threads, PassLabels, WatchLabels
<1>0. pc \in [Threads -> MainLabels \cup RxLabels \cup SvcLabels \cup {"off"}] BY DEF TypeInv
<1>1. CASE BeginSelect
  BY <1>0, <1>1 DEF BeginSelect, WakeInv, PassIdle, WatchInv, tables, pass
<1>2. CASE SelectPorts
  <2>1. ListenFds' = ListenFds BY <1>2, SameListenFds DEF SelectPorts, tables
  <2> QED BY <1>0, <1>2, <2>1 DEF SelectPorts, WakeInv, PassIdle, WatchInv, tables
<1>3. CASE SelectChannels
  <2>1. ListenFds' = ListenFds /\ Eligible' = Eligible
    BY <1>3, SameListenFds, SameEligible DEF SelectChannels, tables
  <2>2. pc'["main"] = "selCall" /\ pc["main"] = "selChannels" /\ rset' = rset \cup Eligible
        /\ UNCHANGED <<tables, wake>>
    BY <1>0, <1>3 DEF SelectChannels
  <2>3. PassIdle' BY <2>2 DEF PassIdle
  <2>4. WatchInv' BY <2>1, <2>2 DEF WakeInv, WatchInv, tables, wake
  <2> QED BY <2>3, <2>4 DEF WakeInv
<1>4. CASE SelectCall
  <2>1. ListenFds' = ListenFds /\ Eligible' = Eligible
    BY <1>4, SameListenFds, SameEligible DEF SelectCall
  <2>2. CASE pc'["main"] = "dLme" /\ PassOver BY <2>2 DEF WakeInv, PassIdle, WatchInv, PassOver
  <2>3. CASE pc'["main"] = "select" /\ pipeOpen /\ UNCHANGED <<pass, reaped>>
    BY <1>4, <2>1, <2>3 DEF SelectCall, WakeInv, PassIdle, WatchInv, pass, wake
  <2>4. CASE pc'["main"] = "selectBlind" BY <2>4 DEF WakeInv, PassIdle, WatchInv
  <2> QED BY <1>0, <1>4, <2>2, <2>3, <2>4 DEF SelectCall
<1>5. CASE SelectDone
  BY <1>0, <1>5 DEF SelectDone, PassOver, WakeInv, PassIdle, WatchInv
<1>6. CASE pc'["main"] \in {"accept", "acceptWait", "rxLoop", "recv", "apply"}
  BY <1>6 DEF WakeInv, PassIdle, WatchInv
<1>7. ASSUME NEW ok \in BOOLEAN, CreateSockets(ok) PROVE WakeInv'
  <2>1. pc["main"] = "sockets" /\ pc'["main"] \in {"selPorts", "top"} /\ UNCHANGED <<tables, pass>>
    BY <1>0, <1>7, Zenon DEF CreateSockets
  <2> QED BY <2>1 DEF WakeInv, PassIdle, WatchInv, tables, pass
<1>8. \/ BeginSelect \/ (\E ok \in BOOLEAN : CreateSockets(ok)) \/ SelectPorts \/ SelectChannels \/ SelectCall \/ SelectDone
      \/ pc'["main"] \in {"accept", "acceptWait", "rxLoop", "recv", "apply"}
  BY <1>0 DEF SelectStep, SelectReturns, AcceptRefused, AcceptBlocks, Accept, AcceptResumes, AcceptDone,
              RxCopy, RxReceive, RxApply
<1> QED BY <1>1, <1>2, <1>3, <1>4, <1>5, <1>6, <1>7, <1>8

LEMMA WakeNext ==
    ASSUME TypeInv, FdsOwned, WakeInv, [Next]_vars
    PROVE  WakeInv'
<1> USE ThreadsAssumption DEF Threads
<1>1. ASSUME NEW t \in SvcThreads, SvcDeinit(t) PROVE WakeInv'
  BY <1>1, OtherGoto, WakeOther DEF SvcDeinit
<1>2. ASSUME NEW t \in Threads \ {"main"}, SignalResumes(t) PROVE WakeInv'
  <2>1. Wakes
    BY <1>2, BoundsAssumption DEF SignalResumes, Wakes, TypeInv, SessionOK
  <2>2. pc'["main"] = pc["main"] BY <1>2, MainStays DEF SignalResumes
  <2> QED BY <1>2, <2>1, <2>2, KeepHolds, WakeOther DEF SignalResumes, OtherStep, tables
<1>3. ASSUME NEW shared \in BOOLEAN, AdapterUpdateAccess(shared) PROVE WakeInv'
  <2>1. CASE shared
    BY <1>3, <2>1, OtherSignal, WakeOther DEF AdapterUpdateAccess, UpdateEnterpriseAccess
  <2>2. CASE ~shared
    BY <1>3, <2>2, OtherGoto, WakeOther DEF AdapterUpdateAccess, UpdateEnterpriseAccess, tables
  <2> QED BY <2>1, <2>2
<1>4. CASE InitStep BY <1>4, WakeInitStep
<1>5. CASE SelectStep BY <1>5, WakeSelect
<1>6. ASSUME NEW r \in RxThreads, ReceiveStep(r) \/ HandlerStep(r) PROVE WakeInv'
  BY <1>6, OtherReceive, OtherHandler, WakeOther
<1>7. ASSUME NEW t \in Deiniters, DeinitStep(t) PROVE WakeInv' BY <1>7, OtherDeinit
<1>8. CASE UNCHANGED vars
  BY <1>8, KeepHolds, ShrinksNot, WakeOther DEF vars, OtherStep, tables
<1> QED BY <1>1, <1>2, <1>3, <1>4, <1>5, <1>6, <1>7, <1>8 DEF Next

(* No change to the tables that needs main's attention is missed, for any  *)
(* capacity of the pipe, although threads write to it, block on it and     *)
(* close it at any point of Select().                                      *)
THEOREM WakeUpsKept == Spec => []SelectWatchesAll
<1>1. Init => WakeInv
  BY ThreadsAssumption DEF Init, WakeInv, PassIdle, WatchInv, WatchLabels, Threads
<1>2. TypeInv /\ FdsOwned /\ WakeInv /\ [Next]_vars => WakeInv' BY WakeNext
<1>3. WakeInv /\ FdsOwned => SelectWatchesAll
  BY DEF WakeInv, WatchInv, SelectWatchesAll, WatchLabels, FdsOwned, Eligible
<1> QED BY <1>1, <1>2, <1>3, TypeInvCorrect, Ownership, PTL DEF Spec
=============================================================================
