------------------------- MODULE ProtocolViewProofs -------------------------
(***************************************************************************)
(* Proof that Protocol implements FirmwareView: what the firmware sees of  *)
(* the channels is what it was promised, for the same constants as         *)
(* ProtocolProofs.                                                         *)
(***************************************************************************)
EXTENDS ProtocolProofs

(* FirmwareView allows no data for a channel once the close was asked for. *)
(* main sends what it reads without looking at the status again, so none   *)
(* of the sockets it still has to look at may belong to such a channel,    *)
(* nor the one it is reading from, unless that one was closed meanwhile.   *)
SendInv ==
    /\ ~Reading => current = None
    /\ current \notin rset
    /\ \A f \in ChannelFds \cap rset :
          channels[f].soap \/ channels[f].status # "WAITING_CLOSE"
    /\ pc["main"] = "recv" /\ current \notin reaped =>
          ~channels[current].soap /\ channels[current].status # "WAITING_CLOSE"

-----------------------------------------------------------------------------
(* The ways in which the channels change.                                  *)

NewChannel ==
    {c \in Channel : \/ c.status = "NOT_OPENED" /\ c.credit = 0
                     \/ c.status = "OPEN" /\ c.credit \in Grants}

Opened == \E f \in Fds, c \in NewChannel :
              channels[f] = None /\ channels' = [channels EXCEPT ![f] = c]

Grew == \E f \in ChannelFds, w \in Grants, status \in ChannelStatus :
            status \in {"OPEN", channels[f].status} /\ Granted(f, w, status)

SoapAsked == \E f \in ChannelFds :
                 channels[f].soap /\ channels' = [channels EXCEPT ![f].status = "WAITING_CLOSE"]

ClosedOne == \E f \in Fds : channels' = [channels EXCEPT ![f] = None]

ClosedAll == channels' = [f \in Fds |-> None]

Changes == UNCHANGED channels \/ Opened \/ Grew \/ SoapAsked \/ ClosedOne \/ ClosedAll

(* main keeps its descriptors, and goes on with the one it reads from.     *)
MainKept ==
    /\ UNCHANGED <<rset, current>> /\ reaped \subseteq reaped'
    /\ pc'["main"] = pc["main"] \/ (~Reading /\ ~Reading')

(* Every one of these ways is allowed by FirmwareView ...                  *)
LEMMA ViewSet ==
    ASSUME TypeInv, NEW f \in Fds, NEW c, channels' = [channels EXCEPT ![f] = c]
    PROVE  ChannelView' = [ChannelView EXCEPT ![f] = ViewOf(c)]
BY DEF ChannelView, TypeInv, TablesOK

(* Only a channel that is not in the map looks closed.                     *)
LEMMA ViewClosed ==
    ASSUME TypeInv, NEW f \in Fds
    PROVE  /\ channels[f] = None => ChannelView[f] = Firmware!Closed
           /\ channels[f] # None =>
                 /\ ChannelView[f] # Firmware!Closed
                 /\ ChannelView[f].state = ViewState(channels[f].status)
                 /\ ChannelView[f].credit = channels[f].credit
BY DEF ChannelView, ViewOf, ViewState, Firmware!Closed, Channel, ChannelStatus, TypeInv, TablesOK

LEMMA ChangesSeen ==
    ASSUME TypeInv, Changes
    PROVE  [Firmware!ViewNext]_ChannelView
<1>1. CASE UNCHANGED channels BY <1>1 DEF ChannelView
<1>2. CASE Opened
  <2>1. PICK f \in Fds, c \in NewChannel :
           channels[f] = None /\ channels' = [channels EXCEPT ![f] = c]
    BY <1>2 DEF Opened
  <2>2. c # None BY NoneAssumption DEF NewChannel
  <2>3. ChannelView' = [ChannelView EXCEPT ![f] =
                           [state |-> ViewState(c.status), credit |-> c.credit]]
    BY <2>1, <2>2, ViewSet DEF ViewOf
  <2>4. Firmware!Request(f) \/ Firmware!Open(f)
    BY <2>1, <2>3, ViewClosed
    DEF NewChannel, ViewState, Firmware!Request, Firmware!Open, Firmware!Set
  <2> QED BY <2>4 DEF Firmware!ViewNext
<1>3. CASE Grew
  <2>1. PICK f \in ChannelFds, w \in Grants, status \in ChannelStatus :
           status \in {"OPEN", channels[f].status} /\ Granted(f, w, status)
    BY <1>3 DEF Grew
  <2>2. f \in Fds /\ channels[f] # None BY DEF ChannelFds
  <2> DEFINE c == channels'[f]
  <2>3. /\ channels' \in [Fds -> Channel \cup {None}] /\ c \in Channel
        /\ c.credit = channels[f].credit + w /\ c.status = status
        /\ \A g \in Fds : g # f => channels'[g] = channels[g]
    BY <2>1, GrantedFields
  <2>4. channels' = [channels EXCEPT ![f] = c] BY <2>2, <2>3 DEF TypeInv, TablesOK
  <2>5. c # None BY <2>3, NoneAssumption
  <2> HIDE DEF c
  <2>6. ChannelView' = [ChannelView EXCEPT ![f] =
                           [state |-> ViewState(status), credit |-> channels[f].credit + w]]
    BY <2>2, <2>3, <2>4, <2>5, ViewSet DEF ViewOf
  <2>7. Firmware!Confirm(f) \/ Firmware!Adjust(f)
    BY <2>1, <2>2, <2>6, ViewClosed DEF ViewState, Firmware!Confirm, Firmware!Adjust, Firmware!Set
  <2> QED BY <2>2, <2>7 DEF Firmware!ViewNext
<1>4. CASE SoapAsked
  <2>1. PICK f \in ChannelFds : channels' = [channels EXCEPT ![f].status = "WAITING_CLOSE"]
    BY <1>4 DEF SoapAsked
  <2>2. f \in Fds /\ channels[f] # None /\ channels[f] \in Channel
    BY DEF ChannelFds, TypeInv, TablesOK
  <2> DEFINE c == [channels[f] EXCEPT !.status = "WAITING_CLOSE"]
  <2>3. c \in Channel /\ c.status = "WAITING_CLOSE" /\ c.credit = channels[f].credit
    BY <2>2 DEF Channel, ChannelStatus
  <2>4. channels' = [channels EXCEPT ![f] = c] BY <2>1
  <2> HIDE DEF c
  <2>5. ChannelView' = [ChannelView EXCEPT ![f] =
                           [state |-> "closing", credit |-> channels[f].credit]]
    BY <2>2, <2>3, <2>4, ViewSet, NoneAssumption DEF ViewOf, ViewState
  <2>6. Firmware!AskClose(f)
    BY <2>2, <2>5, ViewClosed DEF Firmware!AskClose, Firmware!Set
  <2> QED BY <2>2, <2>6 DEF Firmware!ViewNext
<1>5. CASE ClosedOne
  <2>1. PICK f \in Fds : channels' = [channels EXCEPT ![f] = None] BY <1>5 DEF ClosedOne
  <2>2. Firmware!Close(f) BY <2>1, ViewSet DEF ViewOf, Firmware!Close, Firmware!Closed
  <2> QED BY <2>2 DEF Firmware!ViewNext
<1>6. CASE ClosedAll
  <2>1. Firmware!SessionEnds
    BY <1>6 DEF ClosedAll, ChannelView, ViewOf, Firmware!SessionEnds, Firmware!Closed
  <2> QED BY <2>1 DEF Firmware!ViewNext
<1> QED BY <1>1, <1>2, <1>3, <1>4, <1>5, <1>6 DEF Changes

(* ... and none of them asks to close a channel that main reads from.      *)
LEMMA ChangesKept ==
    ASSUME TypeInv, Changes, NEW f \in ChannelFds'
    PROVE  \/ channels'[f].soap \/ channels'[f].status # "WAITING_CLOSE"
           \/ /\ f \in ChannelFds /\ channels[f].soap = channels'[f].soap
              /\ channels[f].status = "WAITING_CLOSE"
<1>0. f \in Fds /\ channels'[f] # None BY DEF ChannelFds
<1>1. CASE channels'[f] = channels[f] BY <1>0, <1>1 DEF ChannelFds
<1>2. CASE channels'[f] # channels[f] /\ Opened
  BY <1>0, <1>2 DEF Opened, NewChannel, TypeInv, TablesOK
<1>3. CASE channels'[f] # channels[f] /\ Grew
  <2>1. PICK g \in ChannelFds, w \in Grants, status \in ChannelStatus :
           status \in {"OPEN", channels[g].status} /\ Granted(g, w, status)
    BY <1>3 DEF Grew
  <2>2. /\ channels'[g].status = status /\ channels'[g].soap = channels[g].soap
        /\ \A h \in Fds : h # g => channels'[h] = channels[h]
    BY <2>1, GrantedFields
  <2> QED BY <1>0, <1>3, <2>1, <2>2
<1>4. CASE channels'[f] # channels[f] /\ SoapAsked
  <2>1. PICK g \in ChannelFds :
           channels[g].soap /\ channels' = [channels EXCEPT ![g].status = "WAITING_CLOSE"]
    BY <1>4 DEF SoapAsked
  <2>2. g \in Fds /\ channels[g] \in Channel BY DEF ChannelFds, TypeInv, TablesOK
  <2>3. f = g /\ channels'[g].soap = channels[g].soap
    BY <1>0, <1>4, <2>1, <2>2 DEF Channel, TypeInv, TablesOK
  <2> QED BY <2>1, <2>3
<1>5. CASE ClosedOne \/ ClosedAll
  BY <1>0, <1>1, <1>5 DEF ClosedOne, ClosedAll, TypeInv, TablesOK
<1> QED BY <1>1, <1>2, <1>3, <1>4, <1>5 DEF Changes

(* The channel main reads from stays, or its descriptor counts as reaped.  *)
LEMMA SendKept ==
    ASSUME TypeInv, TypeInv', SendInv, MainKept, Changes
    PROVE  SendInv'
<1>1. (~Reading => current = None)' BY DEF SendInv, MainKept, Reading
<1>2. (current \notin rset)' BY DEF SendInv, MainKept
<1>3. ASSUME NEW f \in (ChannelFds \cap rset)'
      PROVE  channels'[f].soap \/ channels'[f].status # "WAITING_CLOSE"
  BY ChangesKept DEF SendInv, MainKept
<1>4. ASSUME pc'["main"] = "recv", current' \notin reaped'
      PROVE  ~channels'[current'].soap /\ channels'[current'].status # "WAITING_CLOSE"
  <2>1. pc["main"] = "recv" /\ current' = current /\ current \notin reaped
    BY <1>4 DEF MainKept, Reading
  <2>2. current \in ChannelFds /\ current \in ChannelFds'
    BY <1>4, <2>1 DEF ChannelFds, TypeInv, Working
  <2>3. ~channels[current].soap /\ channels[current].status # "WAITING_CLOSE"
    BY <2>1 DEF SendInv
  <2>4. channels'[current].soap = channels[current].soap
    <3>0. current \in Fds /\ channels[current] # None /\ channels'[current] # None
      BY <2>2 DEF ChannelFds
    <3>1. CASE Opened BY <3>0, <3>1 DEF Opened, TypeInv, TablesOK
    <3>2. CASE Grew BY <3>0, <3>2, GrantedFields DEF Grew
    <3>3. CASE SoapAsked
      BY <2>3, <3>0, <3>3 DEF SoapAsked, ChannelFds, TypeInv, TablesOK
    <3>4. CASE ClosedOne BY <3>0, <3>4 DEF ClosedOne, TypeInv, TablesOK
    <3>5. CASE ClosedAll BY <3>0, <3>5 DEF ClosedAll
    <3> QED BY <3>1, <3>2, <3>3, <3>4, <3>5 DEF Changes
  <2> QED BY <2>1, <2>2, <2>3, <2>4, ChangesKept
<1> QED BY <1>1, <1>2, <1>3, <1>4 DEF SendInv

-----------------------------------------------------------------------------
(* Steps of other threads, and those of main outside Select().             *)

LEMMA GotoKept ==
    ASSUME TypeInv, NEW t \in Threads \ {"main"}, NEW label, Goto(t, label),
           UNCHANGED <<rset, current>>, reaped \subseteq reaped'
    PROVE  MainKept
BY DEF MainKept, Goto, TypeInv, SessionOK

LEMMA SignalKept ==
    ASSUME TypeInv, NEW t \in Threads \ {"main"}, NEW lock, NEW next, NEW blocked,
           SignalUnder(lock, t, next, blocked), UNCHANGED <<rset, current>>,
           reaped \subseteq reaped'
    PROVE  MainKept
BY GotoKept DEF SignalUnder

LEMMA DeinitChanges ==
    ASSUME TypeInv, NEW t \in Deiniters, DeinitStep(t)
    PROVE  MainKept /\ Changes
<1>1. Changes
  BY DEF DeinitStep, DeinitLme, DeinitPipe, DeinitChannels, DeinitPorts, DeinitReset, Changes,
         ClosedAll, tables
<1>2. UNCHANGED <<rset, current>> /\ reaped \subseteq reaped'
  BY DEF DeinitStep, DeinitLme, DeinitPipe, DeinitChannels, DeinitPorts, DeinitReset, CloseFds,
         tables, pass
<1>3. pc'["main"] = pc["main"] \/ (~Reading /\ ~Reading')
  BY ThreadsAssumption
  DEF DeinitStep, DeinitLme, DeinitPipe, DeinitChannels, DeinitPorts, DeinitReset, AfterDeinit,
      Goto, Deiniters, Threads, Reading, TypeInv, SessionOK
<1> QED BY <1>1, <1>2, <1>3 DEF MainKept

LEMMA ReceiveChanges ==
    ASSUME TypeInv, NEW r \in RxThreads, ReceiveStep(r)
    PROVE  MainKept /\ Changes
<1>1. UNCHANGED channels /\ UNCHANGED <<rset, current, reaped>>
  BY DEF ReceiveStep, ReceiveMessage, Receive, ReceiveProtocolVersion, ReceiveDisconnect,
         ReceiveError, ReceiveCancelled, tables, pass
<1>2. pc'["main"] = pc["main"]
  BY ThreadsAssumption
  DEF ReceiveStep, ReceiveMessage, Receive, ReceiveProtocolVersion, ReceiveDisconnect,
      ReceiveError, ReceiveCancelled, SignalUnder, Goto, Threads, TypeInv, SessionOK
<1> QED BY <1>1, <1>2 DEF MainKept, Changes

LEMMA HandlerChanges ==
    ASSUME TypeInv, FdsOwned, NEW r \in RxThreads, HandlerStep(r)
    PROVE  MainKept /\ Changes
<1> USE ThreadsAssumption DEF Threads, tables, pass
<1>1. ASSUME NEW name \in {"pfwd", "auth", "other"}, ServiceRequest(r, name)
      PROVE  MainKept /\ Changes
  BY <1>1, GotoKept DEF ServiceRequest, Changes
<1>2. CASE StatelessRequest(r) BY <1>2, GotoKept DEF StatelessRequest, Changes
<1>3. CASE MalformedRequest(r) BY <1>3, GotoKept DEF MalformedRequest, Changes
<1>4. ASSUME NEW q \in Ports, TcpForwardListenFails(r, q) PROVE MainKept /\ Changes
  BY <1>4, GotoKept DEF TcpForwardListenFails, Changes
<1>5. ASSUME NEW q \in Ports, NEW a \in Addrs, TcpForwardRefused(r, q, a)
      PROVE  MainKept /\ Changes
  BY <1>5, GotoKept DEF TcpForwardRefused, Changes
<1>6. ASSUME NEW q \in Ports, NEW a \in Addrs, TcpForwardListen(r, q, a)
      PROVE  MainKept /\ Changes
  BY <1>6, SignalKept DEF TcpForwardListen, Changes
<1>7. ASSUME NEW q \in Ports, NEW a \in Addrs, TcpForwardCancel(r, q, a)
      PROVE  MainKept /\ Changes
  BY <1>7, GotoKept DEF TcpForwardCancel, DeleteRequest, CloseFds, Changes
<1>8. ASSUME NEW soap \in BOOLEAN, NEW w \in Grants, ChannelOpen(r, soap, w)
      PROVE  MainKept /\ Changes
  <2> DEFINE c == [status |-> "OPEN", tx |-> AddBytesTxWindow(0, w), request |-> None,
                   soap |-> soap, credit |-> w]
  <2>1. PICK f \in FreeFds : channels' = [channels EXCEPT ![f] = c] BY <1>8 DEF ChannelOpen
  <2>2. f \in Fds /\ channels[f] = None BY <2>1 DEF FreeFds, FdsOwned, ChannelFds
  <2>3. AddBytesTxWindow(0, w) \in 0 .. MaxWindow /\ w \in Int
    BY BoundsAssumption DEF AddBytesTxWindow
  <2>4. c \in NewChannel BY <2>3 DEF NewChannel, Channel, ChannelStatus
  <2>5. Opened BY <2>1, <2>2, <2>4 DEF Opened
  <2> QED BY <1>8, <2>5, SignalKept DEF ChannelOpen, Changes
<1>9. CASE ChannelOpenRefused(r) BY <1>9, GotoKept DEF ChannelOpenRefused, Changes
<1>10. ASSUME NEW f \in Fds, NEW w \in Grants, ChannelOpenConfirmation(r, f, w)
       PROVE  MainKept /\ Changes
  BY <1>10, SignalKept DEF ChannelOpenConfirmation, Changes, Grew, ChannelStatus
<1>11. ASSUME NEW f \in Fds, NEW w \in Grants, ChannelWindowAdjust(r, f, w)
       PROVE  MainKept /\ Changes
  <2>1. CASE f \in ChannelFds
    <3>1. channels[f].status \in ChannelStatus
      BY <2>1 DEF ChannelFds, Channel, TypeInv, TablesOK
    <3>2. Grew BY <1>11, <2>1, <3>1 DEF ChannelWindowAdjust, Grew
    <3> QED BY <1>11, <2>1, <3>2, SignalKept DEF ChannelWindowAdjust, Changes
  <2>2. CASE f \notin ChannelFds BY <1>11, <2>2, GotoKept DEF ChannelWindowAdjust, Changes
  <2> QED BY <2>1, <2>2
<1>12. ASSUME NEW f \in Fds, NEW requestClose \in BOOLEAN, ChannelData(r, f, requestClose)
       PROVE  MainKept /\ Changes
  BY <1>12, GotoKept DEF ChannelData, Changes, SoapAsked
<1>13. ASSUME NEW f \in Fds, ChannelClose(r, f) PROVE MainKept /\ Changes
  <2>1. Goto(r, "receive") \/ Goto(r, "closeRequest")
    BY <1>13 DEF ChannelClose, DecreaseChannelCount
  <2>2. UNCHANGED <<rset, current>> /\ reaped \subseteq reaped'
    BY <1>13 DEF ChannelClose, CloseFds
  <2>3. UNCHANGED channels \/ ClosedOne BY <1>13 DEF ChannelClose, ClosedOne
  <2> QED BY <2>1, <2>2, <2>3, GotoKept DEF Changes
<1>14. CASE CloseRequest(r)
  BY <1>14, GotoKept DEF CloseRequest, ClosePortForwardRequest, DeleteRequest, CloseFds, Changes
<1>15. ASSUME NEW shared \in BOOLEAN, RxUpdateAccess(r, shared) PROVE MainKept /\ Changes
  BY <1>15, GotoKept, SignalKept DEF RxUpdateAccess, UpdateEnterpriseAccess, Changes
<1> QED BY <1>1, <1>2, <1>3, <1>4, <1>5, <1>6, <1>7, <1>8, <1>9, <1>10, <1>11, <1>12, <1>13,
           <1>14, <1>15 DEF HandlerStep

LEMMA InitChanges ==
    ASSUME TypeInv, InitStep
    PROVE  MainKept /\ Changes
<1>1. UNCHANGED <<channels, rset, current, reaped>>
  BY DEF InitStep, BeginInit, InitConnect, InitThreadLate, InitVersion, InitDone, InitWait,
         InitAdapterFails, InitBuffer, InitUpdateAccess, UpdateEnterpriseAccess, tables, pass
<1>2. ~Reading /\ ~Reading'
  BY ThreadsAssumption
  DEF InitStep, BeginInit, InitConnect, InitThreadLate, InitVersion, InitDone, InitWait,
      InitAdapterFails, InitBuffer, AdapterStarted, LeaveInit, InitUpdateAccess, UpdateEnterpriseAccess, SignalUnder, Goto, Reading, Threads, TypeInv,
      SessionOK
<1> QED BY <1>1, <1>2 DEF MainKept, Changes

-----------------------------------------------------------------------------
(* Select() *)

(* SelectPorts and SelectChannels fill rset with sockets that are not      *)
(* closing; the steps after them only take sockets out.                    *)
LEMMA SendSelect ==
    ASSUME TypeInv, TypeInv', FdsOwned, SendInv, SelectStep
    PROVE  SendInv'
<1> USE ThreadsAssumption, NoneAssumption DEF tables, pass, Threads, Goto, Reading
<1>0. pc \in [Threads -> MainLabels \cup RxLabels \cup SvcLabels \cup {"off"}]
      /\ current \in Fds \cup {None} /\ rset \subseteq Fds
  BY DEF TypeInv, SessionOK, PassOK
<1>1. ASSUME UNCHANGED channels, ~Reading, ~Reading', UNCHANGED current, rset' \subseteq rset
      PROVE  SendInv'
  BY <1>1 DEF SendInv, ChannelFds
<1>2. CASE BeginSelect BY <1>0, <1>1, <1>2 DEF BeginSelect
<1>3. ASSUME NEW ok \in BOOLEAN, CreateSockets(ok) PROVE SendInv'
  <2>1. pc["main"] = "sockets" /\ pc'["main"] \in {"selPorts", "top"} /\ UNCHANGED <<tables, pass>>
    BY <1>0, <1>3, Zenon DEF CreateSockets
  <2> QED BY <1>1, <2>1
<1>4. CASE SelectPorts
  <2>1. current' = None /\ ~Reading' /\ rset' = ListenFds /\ UNCHANGED channels
    BY <1>0, <1>4 DEF SelectPorts, SendInv
  <2>2. rset' \cap ChannelFds' = {} BY <2>1 DEF FdsOwned, ChannelFds
  <2>3. None \notin ListenFds BY DEF FdsOwned, ChannelFds, TypeInv, TablesOK
  <2> QED BY <2>1, <2>2, <2>3 DEF SendInv
<1>5. CASE SelectChannels
  <2>1. current' = None /\ ~Reading' /\ rset' = rset \cup Eligible /\ UNCHANGED channels
    BY <1>0, <1>5 DEF SelectChannels, SendInv
  <2> QED BY <1>0, <2>1 DEF SendInv, Eligible, ChannelFds
<1>6. CASE SelectCall
  <2>1. CASE PassOver BY <1>0, <1>6, <2>1 DEF SelectCall, PassOver, SendInv
  <2>2. CASE ~PassOver BY <1>0, <1>1, <1>6, <2>2 DEF SelectCall
  <2> QED BY <2>1, <2>2
<1>7. CASE SelectDone BY <1>0, <1>7 DEF SelectDone, PassOver, SendInv
<1>8. ASSUME NEW R \in SUBSET rset, SelectReturns(R) PROVE SendInv'
  BY <1>0, <1>1, <1>8 DEF SelectReturns
<1>9. ASSUME NEW s \in rset, AcceptRefused(s) \/ AcceptBlocks(s) PROVE SendInv'
  BY <1>0, <1>1, <1>9 DEF AcceptRefused, AcceptBlocks
<1>10. ASSUME NEW s \in rset, NEW p \in Requests, NEW sent \in BOOLEAN, Accept(s, p, sent)
      PROVE  SendInv'
  <2>1. ~Reading /\ ~Reading' /\ UNCHANGED current /\ rset' \subseteq rset
    BY <1>10 DEF Accept
  <2>2. CASE ~sent BY <1>1, <1>10, <2>1, <2>2 DEF Accept
  <2>3. CASE sent
    <3>1. PICK f \in FreeFds : channels' = [channels EXCEPT ![f] =
               [status |-> "NOT_OPENED", tx |-> 0, request |-> p, soap |-> FALSE, credit |-> 0]]
      BY <1>10, <2>3 DEF Accept
    <3>2. \A g \in ChannelFds' : channels'[g].status = "NOT_OPENED"
                                 \/ (g \in ChannelFds /\ channels'[g] = channels[g])
      BY <3>1 DEF ChannelFds, TypeInv, TablesOK
    <3> QED BY <2>1, <3>2 DEF SendInv
  <2> QED BY <2>2, <2>3
<1>11. CASE AcceptResumes BY <1>0, <1>1, <1>11 DEF AcceptResumes
<1>12. CASE AcceptDone BY <1>0, <1>1, <1>12 DEF AcceptDone
<1>13. ASSUME NEW f \in rset, RxCopy(f) PROVE SendInv'
  <2>1. /\ pc["main"] = "rxLoop" /\ UNCHANGED channels /\ rset' = rset \ {f} /\ current = None
    BY <1>13 DEF RxCopy, SendInv
  <2>2. CASE f \in ChannelFds /\ ~channels[f].soap
    <3>1. current' = f /\ pc'["main"] = "recv" BY <1>0, <1>13, <2>2 DEF RxCopy
    <3>2. channels[f].status # "WAITING_CLOSE" BY <2>2 DEF SendInv
    <3> QED BY <2>1, <2>2, <3>1, <3>2 DEF SendInv, ChannelFds
  <2>3. CASE ~(f \in ChannelFds /\ ~channels[f].soap)
    <3>1. current' = current /\ pc' = pc BY <1>13, <2>3 DEF RxCopy
    <3> QED BY <1>1, <2>1, <3>1
  <2> QED BY <2>2, <2>3
<1>14. ASSUME NEW n \in 0 .. BufSize, RxReceive(n) PROVE SendInv'
  <2>1. /\ pc'["main"] = "apply" /\ UNCHANGED <<current, rset>>
    BY <1>0, <1>14 DEF RxReceive
  <2>2. \A g \in ChannelFds' : /\ g \in ChannelFds
                               /\ g # current => channels'[g] = channels[g]
    BY <1>14 DEF RxReceive, ChannelFds, TypeInv, TablesOK, Working
  <2> QED BY <2>1, <2>2 DEF SendInv
<1>15. CASE RxApply
  <2>1. /\ pc'["main"] = "rxLoop" /\ current' = None /\ rset' = rset
    BY <1>0, <1>15 DEF RxApply
  <2>2. \A g \in ChannelFds' : /\ g # current => g \in ChannelFds /\ channels'[g] = channels[g]
    BY <1>15 DEF RxApply, ChannelFds, TypeInv, TablesOK
  <2>3. current \notin rset BY DEF SendInv
  <2> QED BY <1>0, <2>1, <2>2, <2>3 DEF SendInv
<1> QED BY <1>2, <1>4, <1>5, <1>6, <1>7, <1>8, <1>9, <1>10, <1>11, <1>12, <1>13, <1>14, <1>15,
           <1>3 DEF SelectStep

(* What main reads, it sends within the window and before the close.       *)
LEMMA SelectSeen ==
    ASSUME TypeInv, FdsOwned, WindowInv, SendInv, SelectStep
    PROVE  [Firmware!ViewNext]_ChannelView
<1>1. CASE UNCHANGED channels BY <1>1, ChangesSeen DEF Changes
<1>2. ASSUME NEW s \in rset, NEW p \in Requests, NEW sent \in BOOLEAN, Accept(s, p, sent)
      PROVE  [Firmware!ViewNext]_ChannelView
  <2>1. CASE ~sent BY <1>1, <1>2, <2>1 DEF Accept
  <2>2. CASE sent
    <3> DEFINE c == [status |-> "NOT_OPENED", tx |-> 0, request |-> p, soap |-> FALSE, credit |-> 0]
    <3>1. PICK f \in FreeFds : channels' = [channels EXCEPT ![f] = c] BY <1>2, <2>2 DEF Accept
    <3>2. f \in Fds /\ channels[f] = None BY DEF FreeFds, FdsOwned, ChannelFds
    <3>3. c \in NewChannel BY BoundsAssumption DEF NewChannel, Channel, ChannelStatus
    <3> QED BY <3>1, <3>2, <3>3, ChangesSeen DEF Changes, Opened
  <2> QED BY <2>1, <2>2
<1>3. ASSUME NEW n \in 0 .. BufSize, RxReceive(n) PROVE [Firmware!ViewNext]_ChannelView
  <2>1. /\ pc["main"] = "recv" /\ current \in Fds /\ n \in Nat /\ n <= BytesToRead
    BY <1>3, BoundsAssumption DEF RxReceive, TypeInv, Working
  <2>2. CASE current \in reaped BY <1>1, <1>3, <2>2 DEF RxReceive
  <2>3. CASE current \notin reaped
    <3>1. channels[current] \in Channel /\ channels[current] # None
      BY <2>1, <2>3 DEF TypeInv, TablesOK, Working
    <3> DEFINE c == [channels[current] EXCEPT !.credit = channels[current].credit - n]
    <3>2. channels' = [channels EXCEPT ![current] = c] BY <1>3, <2>3 DEF RxReceive
    <3>3. /\ channels[current].credit \in Int /\ channels[current].tx \in Nat
      BY <3>1, BoundsAssumption DEF Channel
    <3>4. /\ n <= channels[current].credit
      BY <2>1, <2>3, <3>1, <3>3, BoundsAssumption
      DEF BytesToRead, WindowInv, Drawn, ChannelFds, TypeInv, PassOK
    <3>5. channels[current].status \in {"NOT_OPENED", "OPEN"}
      BY <2>1, <2>3, <3>1 DEF SendInv, Channel, ChannelStatus
    <3>6. /\ c \in Channel /\ c.status = channels[current].status
          /\ c.credit = channels[current].credit - n
      BY <2>1, <3>1, <3>3 DEF Channel
    <3>7. CASE n = 0
      <4>1. c = channels[current] BY <3>1, <3>3, <3>7 DEF Channel
      <4> QED BY <1>1, <2>1, <3>2, <4>1 DEF TypeInv, TablesOK
    <3>8. CASE n > 0
      <4> HIDE DEF c
      <4>1. ChannelView' = [ChannelView EXCEPT ![current] =
               [state |-> ViewState(channels[current].status),
                credit |-> channels[current].credit - n]]
        BY <2>1, <3>2, <3>6, ViewSet, NoneAssumption DEF ViewOf
      <4>2. /\ ChannelView[current].state = ViewState(channels[current].status)
            /\ ChannelView[current].credit = channels[current].credit
        BY <2>1, <3>1, ViewClosed
      <4>3. ChannelView[current].state \in {"opening", "open"} BY <3>5, <4>2 DEF ViewState
      <4>4. n \in 1 .. ChannelView[current].credit BY <2>1, <3>3, <3>4, <3>8, <4>2
      <4>5. Firmware!Data(current)
        BY <4>1, <4>2, <4>3, <4>4 DEF Firmware!Data, Firmware!Set
      <4> QED BY <2>1, <4>5 DEF Firmware!ViewNext
    <3> QED BY <2>1, <3>7, <3>8
  <2> QED BY <2>2, <2>3
<1>4. CASE RxApply
  <2>1. current \in Fds BY <1>4 DEF RxApply, TypeInv, Working
  <2>2. CASE channels[current] = None BY <1>1, <1>4, <2>2 DEF RxApply
  <2>3. CASE channels[current] # None
    <3>1. channels[current] \in Channel BY <2>1, <2>3 DEF TypeInv, TablesOK
    <3> DEFINE c == IF received > 0
                    THEN [channels[current] EXCEPT
                             !.tx = RemoveBytesTxWindow(channels[current].tx, received)]
                    ELSE [channels[current] EXCEPT !.status = "WAITING_CLOSE"]
    <3>2. channels' = [channels EXCEPT ![current] = c] BY <1>4, <2>3 DEF RxApply
    <3>3. /\ c # None /\ c.credit = channels[current].credit
          /\ c.status = IF received > 0 THEN channels[current].status ELSE "WAITING_CLOSE"
      <4>1. RemoveBytesTxWindow(channels[current].tx, received) \in 0 .. MaxWindow
        BY <3>1, BoundsAssumption DEF RemoveBytesTxWindow, Channel, TypeInv, PassOK
      <4>2. c \in Channel BY <3>1, <4>1 DEF Channel, ChannelStatus
      <4> QED BY <3>1, <4>2, NoneAssumption DEF Channel
    <3> HIDE DEF c
    <3>4. ChannelView' = [ChannelView EXCEPT ![current] =
             [state |-> ViewState(c.status), credit |-> channels[current].credit]]
      BY <2>1, <3>2, <3>3, ViewSet DEF ViewOf
    <3>5. /\ ChannelView[current] # Firmware!Closed
          /\ ChannelView[current].credit = channels[current].credit
      BY <2>1, <2>3, ViewClosed
    <3>6. CASE received > 0
      <4>1. ChannelView[current] =
               [state |-> ViewState(channels[current].status), credit |-> channels[current].credit]
        BY <2>1, <2>3 DEF ChannelView, ViewOf
      <4>2. ChannelView' = ChannelView
        BY <2>1, <3>3, <3>4, <3>6, <4>1 DEF ChannelView
      <4> QED BY <4>2
    <3>7. CASE ~(received > 0)
      <4>1. Firmware!AskClose(current)
        BY <3>3, <3>4, <3>5, <3>7 DEF ViewState, Firmware!AskClose, Firmware!Set
      <4> QED BY <2>1, <4>1 DEF Firmware!ViewNext
    <3> QED BY <3>6, <3>7
  <2> QED BY <2>2, <2>3
<1> QED
  BY <1>1, <1>2, <1>3, <1>4
  DEF SelectStep, BeginSelect, CreateSockets, SelectPorts, SelectChannels, SelectCall, SelectDone,
      SelectReturns, AcceptRefused, AcceptBlocks, AcceptResumes, AcceptDone, RxCopy, tables

-----------------------------------------------------------------------------
(* Every step.                                                             *)

LEMMA OtherChanges ==
    ASSUME TypeInv, FdsOwned, [Next]_vars, ~SelectStep
    PROVE  MainKept /\ Changes
<1> USE ThreadsAssumption DEF Threads, tables, pass
<1>1. ASSUME NEW t \in SvcThreads, SvcDeinit(t) PROVE MainKept /\ Changes
  BY <1>1, GotoKept DEF SvcDeinit, Changes
<1>2. ASSUME NEW t \in Threads \ {"main"}, SignalResumes(t) PROVE MainKept /\ Changes
  BY <1>2, GotoKept DEF SignalResumes, Changes
<1>3. ASSUME NEW shared \in BOOLEAN, AdapterUpdateAccess(shared) PROVE MainKept /\ Changes
  BY <1>3, GotoKept, SignalKept DEF AdapterUpdateAccess, UpdateEnterpriseAccess, Changes
<1>4. CASE UNCHANGED vars BY <1>4 DEF vars, MainKept, Changes
<1> QED BY <1>1, <1>2, <1>3, <1>4, InitChanges, ReceiveChanges, HandlerChanges, DeinitChanges DEF Next

(* Protocol implements FirmwareView: whatever the threads do to the tables *)
(* between the lock sections of _rxFromSocket, the firmware gets no data   *)
(* beyond its window, and none for a channel whose close was asked for.    *)
THEOREM ViewKept == Spec => ChannelsAsPromised
<1>1. Init => SendInv
  BY ThreadsAssumption, NoneAssumption DEF Init, SendInv, Reading, ChannelFds, Threads
<1>2. TypeInv /\ TypeInv' /\ FdsOwned /\ SendInv /\ [Next]_vars => SendInv'
  BY OtherChanges, SendKept, SendSelect
<1>3. Init => Firmware!ViewInit
  BY DEF Init, ChannelView, ViewOf, Firmware!ViewInit, Firmware!Closed
<1>4. TypeInv /\ FdsOwned /\ WindowInv /\ SendInv /\ [Next]_vars
         => [Firmware!ViewNext]_ChannelView
  BY OtherChanges, ChangesSeen, SelectSeen
<1> QED
  BY <1>1, <1>2, <1>3, <1>4, TypeInvCorrect, Ownership, WindowCorrect, PTL
  DEF Spec, ChannelsAsPromised, Firmware!ViewSpec
=============================================================================
