--------------------------- MODULE ProtocolProofs ---------------------------
(***************************************************************************)
(* Proofs about Protocol, for any sets of ports, addresses, requests,      *)
(* descriptors and threads and any window sizes: types, the ownership of   *)
(* descriptors and the window the firmware granted.                        *)
(***************************************************************************)
EXTENDS Protocol, TLAPS

-----------------------------------------------------------------------------
(* Types *)

(* What the types need beside themselves: while main reads from a channel, *)
(* its descriptor has that channel, or was closed since main chose it.     *)
Working ==
    pc["main"] \in {"recv", "apply"} =>
        current \in Fds /\ (current \in reaped \/ channels[current] # None)

TypeInv == FlagsOK /\ TablesOK /\ PassOK /\ SessionOK /\ Working

(* The tables are empty and the threads at their first labels.             *)
LEMMA TypeInit == Init => TypeInv
<1> SUFFICES ASSUME Init PROVE TypeInv OBVIOUS
<1> USE ThreadsAssumption, BoundsAssumption, NoneAssumption DEF Init
<1>1. FlagsOK BY Zenon DEF FlagsOK
<1>2. TablesOK BY DEF TablesOK
<1>3. PassOK BY DEF PassOK
<1>4. SessionOK BY DEF SessionOK, Threads, MainLabels, RxLabels, SvcLabels, DeinitLabels
<1>5. Working BY DEF Working, Threads
<1> QED BY <1>1, <1>2, <1>3, <1>4, <1>5 DEF TypeInv

(* A step that ends with a signal keeps pipe, locks and labels typed, and  *)
(* moves its own thread only.                                              *)
LEMMA SignalTyped ==
    ASSUME SessionOK, NEW lock, NEW t \in Threads,
           NEW next \in MainLabels \cup RxLabels \cup SvcLabels,
           NEW blocked \in MainLabels \cup RxLabels \cup SvcLabels,
           SignalUnder(lock, t, next, blocked)
    PROVE  /\ pipe' \in 0 .. PipeCap
           /\ {portsLock', channelsLock', versionLock'} \subseteq Threads \cup {None}
           /\ pc' \in [Threads -> MainLabels \cup RxLabels \cup SvcLabels \cup {"off"}]
BY BoundsAssumption DEF SignalUnder, SessionOK, Goto, wake, locks

(* Where a signal leaves main.                                             *)
LEMMA SignalPlaced ==
    ASSUME SessionOK, NEW lock, NEW t \in Threads, NEW next, NEW blocked,
           SignalUnder(lock, t, next, blocked)
    PROVE  pc'["main"] = IF t # "main" THEN pc["main"]
                         ELSE IF pipeOpen /\ pipe >= PipeCap THEN blocked ELSE next
BY DEF SignalUnder, SessionOK, Goto, Threads

(* A grant rewrites three fields of one channel and keeps the others.      *)
LEMMA GrantedFields ==
    ASSUME TypeInv, NEW f \in ChannelFds, NEW w \in Grants, NEW status \in ChannelStatus,
           Granted(f, w, status)
    PROVE  /\ channels' \in [Fds -> Channel \cup {None}]
           /\ channels'[f] \in Channel
           /\ channels'[f].tx = AddBytesTxWindow(channels[f].tx, w)
           /\ channels'[f].credit = channels[f].credit + w
           /\ channels'[f].request = channels[f].request
           /\ channels'[f].status = status /\ channels'[f].soap = channels[f].soap
           /\ \A g \in Fds : g # f => channels'[g] = channels[g]
<1> USE BoundsAssumption, NoneAssumption
<1>1. f \in Fds /\ channels[f] \in Channel BY DEF ChannelFds, TypeInv, TablesOK
<1> DEFINE c == [channels[f] EXCEPT !.status = status,
                    !.tx     = AddBytesTxWindow(channels[f].tx, w),
                    !.credit = channels[f].credit + w]
<1>2. channels' = [channels EXCEPT ![f] = c] BY DEF Granted
<1>3. channels[f].tx \in 0 .. MaxWindow /\ channels[f].credit \in Int BY <1>1 DEF Channel
<1>4. w \in Nat OBVIOUS
<1>5. AddBytesTxWindow(channels[f].tx, w) \in 0 .. MaxWindow
  BY <1>3, <1>4 DEF AddBytesTxWindow
<1>6. /\ c \in Channel /\ c.request = channels[f].request /\ c.credit = channels[f].credit + w
      /\ c.tx = AddBytesTxWindow(channels[f].tx, w)
      /\ c.status = status /\ c.soap = channels[f].soap
  <2> HIDE DEF AddBytesTxWindow
  <2>1. channels[f].credit + w \in Int BY <1>3, <1>4
  <2> QED BY <1>1, <1>5, <2>1 DEF Channel
<1> HIDE DEF c
<1> QED BY <1>1, <1>2, <1>6 DEF TypeInv, TablesOK

(* So a handler that grants keeps the table typed and with its entries.    *)
LEMMA GrantTyped ==
    ASSUME TypeInv, NEW f \in Fds, NEW w \in Grants, NEW status,
           f \in ChannelFds => status \in ChannelStatus,
           IF f \in ChannelFds THEN Granted(f, w, status) ELSE UNCHANGED channels
    PROVE  /\ channels' \in [Fds -> Channel \cup {None}]
           /\ \A g \in Fds : channels'[g] = None <=> channels[g] = None
<1>1. CASE f \in ChannelFds
  <2>1. channels[f] # None BY <1>1 DEF ChannelFds
  <2>2. /\ channels' \in [Fds -> Channel \cup {None}] /\ channels'[f] \in Channel
        /\ \A g \in Fds : g # f => channels'[g] = channels[g]
    BY <1>1, GrantedFields
  <2> QED BY <2>1, <2>2, NoneAssumption
<1>2. CASE f \notin ChannelFds BY <1>2 DEF TypeInv, TablesOK
<1> QED BY <1>1, <1>2

(* A refused connection is counted twice in its request's record, the rest *)
(* of which is kept.                                                       *)
LEMMA CountedFields ==
    ASSUME TypeInv, NEW p \in Live,
           requests' = [requests EXCEPT ![p] =
              [@ EXCEPT !.count = requests[p].count + 1, !.failed = requests[p].failed + 1]]
    PROVE  /\ requests' \in [Requests -> Request \cup {None}]
           /\ requests'[p] \in Request
           /\ requests'[p].sock = requests[p].sock /\ requests'[p].port = requests[p].port
           /\ \A x \in Requests : x # p => requests'[x] = requests[x]
<1> DEFINE c == [requests[p] EXCEPT !.count = requests[p].count + 1,
                                    !.failed = requests[p].failed + 1]
<1>1. p \in Requests /\ requests[p] \in Request BY DEF Live, TypeInv, TablesOK
<1>2. c \in Request /\ c.sock = requests[p].sock /\ c.port = requests[p].port
  <2>1. requests[p].count \in Nat /\ requests[p].failed \in Nat BY <1>1 DEF Request
  <2>2. requests[p].count + 1 \in Nat /\ requests[p].failed + 1 \in Nat BY <2>1
  <2> QED BY <1>1, <2>2 DEF Request
<1>3. requests' = [requests EXCEPT ![p] = c] OBVIOUS
<1> HIDE DEF c
<1> QED BY <1>1, <1>2, <1>3 DEF TypeInv, TablesOK

(* The five lock sections of Protocol::Deinit, on any thread.              *)
LEMMA TypeDeinit ==
    ASSUME TypeInv, NEW t \in Deiniters, DeinitStep(t)
    PROVE  TypeInv'
<1> USE ThreadsAssumption, BoundsAssumption, NoneAssumption
    DEF tables, session, protocol, wake, locks, pass, flags, Threads, Deiniters, Goto,
        MainLabels, RxLabels, SvcLabels, DeinitLabels
<1>1. CASE DeinitLme(t)
  <2>1. FlagsOK' BY <1>1, Zenon DEF DeinitLme, TypeInv, FlagsOK
  <2>2. TablesOK' BY <1>1 DEF DeinitLme, TypeInv, TablesOK
  <2>3. PassOK' BY <1>1 DEF DeinitLme, TypeInv, PassOK
  <2>4. SessionOK' BY <1>1 DEF DeinitLme, LmeDown, TypeInv, SessionOK
  <2>5. Working' BY <1>1 DEF DeinitLme, TypeInv, SessionOK, Working
  <2> QED BY <2>1, <2>2, <2>3, <2>4, <2>5 DEF TypeInv
<1>2. CASE DeinitPipe(t)
  <2>1. FlagsOK' BY <1>2, Zenon DEF DeinitPipe, TypeInv, FlagsOK
  <2>2. TablesOK' BY <1>2 DEF DeinitPipe, TypeInv, TablesOK
  <2>3. PassOK' BY <1>2 DEF DeinitPipe, TypeInv, PassOK
  <2>4. SessionOK'
    <3>1. pc' \in [Threads -> MainLabels \cup RxLabels \cup SvcLabels \cup {"off"}]
      BY <1>2 DEF DeinitPipe, TypeInv, SessionOK
    <3>2. pipe' \in 0 .. PipeCap BY <1>2 DEF DeinitPipe
    <3> QED BY <1>2, <3>1, <3>2 DEF DeinitPipe, TypeInv, SessionOK
  <2>5. Working' BY <1>2 DEF DeinitPipe, TypeInv, SessionOK, Working
  <2> QED BY <2>1, <2>2, <2>3, <2>4, <2>5 DEF TypeInv
<1>3. CASE DeinitChannels(t)
  <2>1. FlagsOK' BY <1>3, Zenon DEF DeinitChannels, TypeInv, FlagsOK
  <2>2. TablesOK' BY <1>3 DEF DeinitChannels, CloseFds, ChannelFds, TypeInv, TablesOK
  <2>3. PassOK' BY <1>3 DEF DeinitChannels, TypeInv, PassOK
  <2>4. SessionOK' BY <1>3 DEF DeinitChannels, TypeInv, SessionOK
  <2>5. Working' BY <1>3 DEF DeinitChannels, CloseFds, ChannelFds, TypeInv, TablesOK, SessionOK, Working
  <2> QED BY <2>1, <2>2, <2>3, <2>4, <2>5 DEF TypeInv
<1>4. CASE DeinitPorts(t)
  <2>1. FlagsOK' BY <1>4, Zenon DEF DeinitPorts, TypeInv, FlagsOK
  <2>2. TablesOK'
    <3>1. ListenFds \subseteq Fds BY DEF ListenFds, Live, Request, TypeInv, TablesOK
    <3>2. requests' \in [Requests -> Request \cup {None}] BY <1>4 DEF DeinitPorts
    <3> QED BY <1>4, <3>1, <3>2 DEF DeinitPorts, CloseFds, TypeInv, TablesOK
  <2>3. PassOK' BY <1>4 DEF DeinitPorts, TypeInv, PassOK
  <2>4. SessionOK' BY <1>4 DEF DeinitPorts, TypeInv, SessionOK
  <2>5. Working' BY <1>4 DEF DeinitPorts, CloseFds, ListenFds, TypeInv, TablesOK, SessionOK, Working
  <2> QED BY <2>1, <2>2, <2>3, <2>4, <2>5 DEF TypeInv
<1>5. CASE DeinitReset(t)
  <2>1. FlagsOK' BY <1>5, Zenon DEF DeinitReset, TypeInv, FlagsOK
  <2>2. TablesOK' BY <1>5 DEF DeinitReset, TypeInv, TablesOK
  <2>3. PassOK' BY <1>5 DEF DeinitReset, TypeInv, PassOK
  <2>4. SessionOK' BY <1>5 DEF DeinitReset, AfterDeinit, TypeInv, SessionOK
  <2>5. Working' BY <1>5 DEF DeinitReset, AfterDeinit, TypeInv, SessionOK, Working
  <2> QED BY <2>1, <2>2, <2>3, <2>4, <2>5 DEF TypeInv
<1> QED BY <1>1, <1>2, <1>3, <1>4, <1>5 DEF DeinitStep

(* What the receive thread does before it is in a handler.                 *)
LEMMA TypeReceive ==
    ASSUME TypeInv, NEW r \in RxThreads, ReceiveStep(r)
    PROVE  TypeInv'
<1> USE ThreadsAssumption, BoundsAssumption, NoneAssumption
    DEF tables, session, protocol, wake, locks, pass, flags, Threads, Goto,
        MainLabels, RxLabels, SvcLabels, DeinitLabels
<1>1. ASSUME NEW kind \in {"service", "forward"}, Receive(r, kind) PROVE TypeInv'
  <2>1. FlagsOK' BY <1>1, Zenon DEF Receive, TypeInv, FlagsOK
  <2>2. TablesOK' BY <1>1 DEF Receive, TypeInv, TablesOK
  <2>3. PassOK' BY <1>1 DEF Receive, TypeInv, PassOK
  <2>4. SessionOK'
    <3>1. pc' \in [Threads -> MainLabels \cup RxLabels \cup SvcLabels \cup {"off"}]
      <4> DEFINE L == MainLabels \cup RxLabels \cup SvcLabels \cup {"off"}
      <4>1. {"service", "forward", "dLme"} \subseteq L OBVIOUS
      <4>2. pc \in [Threads -> L] BY DEF TypeInv, SessionOK
      <4> HIDE DEF L
      <4>3. pc' \in [Threads -> L] BY <1>1, <4>1, <4>2 DEF Receive
      <4> QED BY <4>3 DEF L
    <3>2. versionLock' \in Threads \cup {None} BY <1>1 DEF Receive, TypeInv, SessionOK
    <3>3. UNCHANGED <<session, handshaking, failureReported, pipe, portsLock, channelsLock>>
      BY <1>1 DEF Receive
    <3> QED BY <3>1, <3>2, <3>3 DEF TypeInv, SessionOK
  <2>5. Working' BY <1>1 DEF Receive, TypeInv, SessionOK, Working
  <2> QED BY <2>1, <2>2, <2>3, <2>4, <2>5 DEF TypeInv
<1>2. ASSUME NEW supported \in BOOLEAN, ReceiveProtocolVersion(r, supported) PROVE TypeInv'
  <2>1. FlagsOK' BY <1>2, Zenon DEF ReceiveProtocolVersion, TypeInv, FlagsOK
  <2>2. TablesOK' BY <1>2 DEF ReceiveProtocolVersion, TypeInv, TablesOK
  <2>3. PassOK' BY <1>2 DEF ReceiveProtocolVersion, TypeInv, PassOK
  <2>4. SessionOK'
    <3>1. pc' \in [Threads -> MainLabels \cup RxLabels \cup SvcLabels \cup {"off"}]
      <4> DEFINE L == MainLabels \cup RxLabels \cup SvcLabels \cup {"off"}
      <4>1. {"receive", "dLme"} \subseteq L OBVIOUS
      <4>2. pc \in [Threads -> L] BY DEF TypeInv, SessionOK
      <4> HIDE DEF L
      <4>3. pc' \in [Threads -> L] BY <1>2, <4>1, <4>2 DEF ReceiveProtocolVersion
      <4> QED BY <4>3 DEF L
    <3>2. /\ versionLock' \in Threads \cup {None}
          /\ handshaking' \in {"NOT_INITIATED", "INITIATED", "AGREED"}
      BY <1>2 DEF ReceiveProtocolVersion, TypeInv, SessionOK
    <3>3. UNCHANGED <<session, failureReported, pipe, portsLock, channelsLock>>
      BY <1>2 DEF ReceiveProtocolVersion
    <3> QED BY <3>1, <3>2, <3>3 DEF TypeInv, SessionOK
  <2>5. Working' BY <1>2 DEF ReceiveProtocolVersion, TypeInv, SessionOK, Working
  <2> QED BY <2>1, <2>2, <2>3, <2>4, <2>5 DEF TypeInv
<1>3. CASE ReceiveDisconnect(r)
  <2>1. FlagsOK' BY <1>3, Zenon DEF ReceiveDisconnect, TypeInv, FlagsOK
  <2>2. TablesOK' BY <1>3 DEF ReceiveDisconnect, TypeInv, TablesOK
  <2>3. PassOK' BY <1>3 DEF ReceiveDisconnect, TypeInv, PassOK
  <2>4. SessionOK' BY <1>3 DEF ReceiveDisconnect, TypeInv, SessionOK
  <2>5. Working' BY <1>3 DEF ReceiveDisconnect, TypeInv, SessionOK, Working
  <2> QED BY <2>1, <2>2, <2>3, <2>4, <2>5 DEF TypeInv
<1>4. CASE ReceiveError(r)
  <2>1. FlagsOK' BY <1>4, Zenon DEF ReceiveError, SignalUnder, TypeInv, FlagsOK
  <2>2. TablesOK' BY <1>4 DEF ReceiveError, TypeInv, TablesOK
  <2>3. PassOK' BY <1>4 DEF ReceiveError, TypeInv, PassOK
  <2>4. SessionOK' BY <1>4, SignalTyped DEF ReceiveError, TypeInv, SessionOK
  <2>5. Working' BY <1>4, SignalPlaced DEF ReceiveError, TypeInv, SessionOK, Working
  <2> QED BY <2>1, <2>2, <2>3, <2>4, <2>5 DEF TypeInv
<1>5. CASE ReceiveCancelled(r)
  <2>1. FlagsOK' BY <1>5, Zenon DEF ReceiveCancelled, TypeInv, FlagsOK
  <2>2. TablesOK' BY <1>5 DEF ReceiveCancelled, TypeInv, TablesOK
  <2>3. PassOK' BY <1>5 DEF ReceiveCancelled, TypeInv, PassOK
  <2>4. SessionOK' BY <1>5 DEF ReceiveCancelled, TypeInv, SessionOK
  <2>5. Working' BY <1>5 DEF ReceiveCancelled, TypeInv, SessionOK, Working
  <2> QED BY <2>1, <2>2, <2>3, <2>4, <2>5 DEF TypeInv
<1>6. CASE ReceiveMessage(r)
  <2>1. FlagsOK' BY <1>6, Zenon DEF ReceiveMessage, TypeInv, FlagsOK
  <2>2. TablesOK' BY <1>6 DEF ReceiveMessage, TypeInv, TablesOK
  <2>3. PassOK' BY <1>6 DEF ReceiveMessage, TypeInv, PassOK
  <2>4. SessionOK' BY <1>6 DEF ReceiveMessage, TypeInv, SessionOK
  <2>5. Working' BY <1>6 DEF ReceiveMessage, TypeInv, SessionOK, Working
  <2> QED BY <2>1, <2>2, <2>3, <2>4, <2>5 DEF TypeInv
<1> QED BY <1>1, <1>2, <1>3, <1>4, <1>5, <1>6 DEF ReceiveStep

(* The handlers of _LmeReceive.                                            *)
LEMMA TypeHandler ==
    ASSUME TypeInv, NEW r \in RxThreads, HandlerStep(r)
    PROVE  TypeInv'
<1> USE ThreadsAssumption, BoundsAssumption, NoneAssumption
    DEF tables, session, protocol, wake, locks, pass, flags, Threads, Goto,
        MainLabels, RxLabels, SvcLabels, DeinitLabels
<1>1. ASSUME NEW name \in {"pfwd", "auth", "other"}, ServiceRequest(r, name) PROVE TypeInv'
  <2>1. FlagsOK' BY <1>1, Zenon DEF ServiceRequest, TypeInv, FlagsOK
  <2>2. TablesOK' BY <1>1 DEF ServiceRequest, TypeInv, TablesOK
  <2>3. PassOK' BY <1>1 DEF ServiceRequest, TypeInv, PassOK
  <2>4. SessionOK' BY <1>1 DEF ServiceRequest, TypeInv, SessionOK
  <2>5. Working' BY <1>1 DEF ServiceRequest, TypeInv, SessionOK, Working
  <2> QED BY <2>1, <2>2, <2>3, <2>4, <2>5 DEF TypeInv
<1>2. CASE StatelessRequest(r)
  <2>1. FlagsOK' BY <1>2, Zenon DEF StatelessRequest, TypeInv, FlagsOK
  <2>2. TablesOK' BY <1>2 DEF StatelessRequest, TypeInv, TablesOK
  <2>3. PassOK' BY <1>2 DEF StatelessRequest, TypeInv, PassOK
  <2>4. SessionOK' BY <1>2 DEF StatelessRequest, TypeInv, SessionOK
  <2>5. Working' BY <1>2 DEF StatelessRequest, TypeInv, SessionOK, Working
  <2> QED BY <2>1, <2>2, <2>3, <2>4, <2>5 DEF TypeInv
<1>3. CASE MalformedRequest(r)
  <2>1. FlagsOK' BY <1>3, Zenon DEF MalformedRequest, TypeInv, FlagsOK
  <2>2. TablesOK' BY <1>3 DEF MalformedRequest, TypeInv, TablesOK
  <2>3. PassOK' BY <1>3 DEF MalformedRequest, TypeInv, PassOK
  <2>4. SessionOK' BY <1>3 DEF MalformedRequest, TypeInv, SessionOK
  <2>5. Working' BY <1>3 DEF MalformedRequest, TypeInv, SessionOK, Working
  <2> QED BY <2>1, <2>2, <2>3, <2>4, <2>5 DEF TypeInv
<1>4. ASSUME NEW q \in Ports, TcpForwardListenFails(r, q) PROVE TypeInv'
  <2>1. FlagsOK' BY <1>4, Zenon DEF TcpForwardListenFails, TypeInv, FlagsOK
  <2>2. TablesOK' BY <1>4 DEF TcpForwardListenFails, TypeInv, TablesOK
  <2>3. PassOK' BY <1>4 DEF TcpForwardListenFails, TypeInv, PassOK
  <2>4. SessionOK' BY <1>4 DEF TcpForwardListenFails, TypeInv, SessionOK
  <2>5. Working' BY <1>4 DEF TcpForwardListenFails, TypeInv, SessionOK, Working
  <2> QED BY <2>1, <2>2, <2>3, <2>4, <2>5 DEF TypeInv
<1>5. ASSUME NEW q \in Ports, NEW a \in Addrs, TcpForwardRefused(r, q, a) PROVE TypeInv'
  <2>1. FlagsOK' BY <1>5, Zenon DEF TcpForwardRefused, TypeInv, FlagsOK
  <2>2. TablesOK' BY <1>5 DEF TcpForwardRefused, TypeInv, TablesOK
  <2>3. PassOK' BY <1>5 DEF TcpForwardRefused, TypeInv, PassOK
  <2>4. SessionOK' BY <1>5 DEF TcpForwardRefused, TypeInv, SessionOK
  <2>5. Working' BY <1>5 DEF TcpForwardRefused, TypeInv, SessionOK, Working
  <2> QED BY <2>1, <2>2, <2>3, <2>4, <2>5 DEF TypeInv
<1>6. ASSUME NEW q \in Ports, NEW a \in Addrs, TcpForwardListen(r, q, a) PROVE TypeInv'
  <2>1. FlagsOK' BY <1>6, Zenon DEF TcpForwardListen, SignalUnder, TypeInv, FlagsOK
  <2>2. TablesOK'
    <3>1. PICK p \in FreeRequests, s \in Fds :
             /\ requests' = [requests EXCEPT ![p] = NewRequest(q, a, s)]
             /\ openFds' = openFds \cup {s}
      BY <1>6 DEF TcpForwardListen
    <3>2. NewRequest(q, a, s) \in Request BY <1>6, <3>1 DEF NewRequest, Request, RequestStatus
    <3>3. requests' \in [Requests -> Request \cup {None}]
      BY <3>1, <3>2 DEF FreeRequests, TypeInv, TablesOK
    <3>4. UNCHANGED <<channels, reaped, retained>> BY <1>6 DEF TcpForwardListen
    <3> QED BY <3>1, <3>3, <3>4 DEF TypeInv, TablesOK
  <2>3. PassOK' BY <1>6 DEF TcpForwardListen, TypeInv, PassOK
  <2>4. SessionOK' BY <1>6, SignalTyped DEF TcpForwardListen, TypeInv, SessionOK
  <2>5. Working' BY <1>6, SignalPlaced DEF TcpForwardListen, TypeInv, SessionOK, Working
  <2> QED BY <2>1, <2>2, <2>3, <2>4, <2>5 DEF TypeInv
<1>7. ASSUME NEW q \in Ports, NEW a \in Addrs, TcpForwardCancel(r, q, a) PROVE TypeInv'
  <2>1. FlagsOK' BY <1>7, Zenon DEF TcpForwardCancel, TypeInv, FlagsOK
  <2>2. TablesOK' BY <1>7 DEF TcpForwardCancel, DeleteRequest, CloseFds, RequestsAt, Live, Request, RequestStatus, TypeInv, TablesOK
  <2>3. PassOK' BY <1>7 DEF TcpForwardCancel, TypeInv, PassOK
  <2>4. SessionOK' BY <1>7 DEF TcpForwardCancel, TypeInv, SessionOK
  <2>5. Working' BY <1>7 DEF TcpForwardCancel, DeleteRequest, CloseFds, RequestsAt, TypeInv, TablesOK, SessionOK, Working
  <2> QED BY <2>1, <2>2, <2>3, <2>4, <2>5 DEF TypeInv
<1>8. ASSUME NEW soap \in BOOLEAN, NEW w \in Grants, ChannelOpen(r, soap, w) PROVE TypeInv'
  <2>1. FlagsOK' BY <1>8, Zenon DEF ChannelOpen, SignalUnder, TypeInv, FlagsOK
  <2>2. TablesOK'
    <3>1. PICK f \in FreeFds :
             /\ openFds' = openFds \cup {f}
             /\ channels' = [channels EXCEPT ![f] =
                   [status |-> "OPEN", tx |-> AddBytesTxWindow(0, w), request |-> None,
                    soap |-> soap, credit |-> w]]
      BY <1>8 DEF ChannelOpen
    <3>2. w \in Nat BY <1>8
    <3>3. AddBytesTxWindow(0, w) \in 0 .. MaxWindow /\ w \in Int BY <3>2 DEF AddBytesTxWindow
    <3>4. channels' \in [Fds -> Channel \cup {None}]
      BY <1>8, <3>1, <3>2, <3>3 DEF FreeFds, Channel, ChannelStatus, TypeInv, TablesOK
    <3> QED BY <1>8, <3>1, <3>4 DEF ChannelOpen, FreeFds, TypeInv, TablesOK
  <2>3. PassOK' BY <1>8 DEF ChannelOpen, TypeInv, PassOK
  <2>4. SessionOK' BY <1>8, SignalTyped DEF ChannelOpen, TypeInv, SessionOK
  <2>5. Working'
    <3>1. PICK f \in FreeFds :
             channels' = [channels EXCEPT ![f] =
                [status |-> "OPEN", tx |-> AddBytesTxWindow(0, w), request |-> None,
                 soap |-> soap, credit |-> w]]
      BY <1>8 DEF ChannelOpen
    <3>2. channels'[f] # None
      <4>1. w \in Nat BY <1>8
      <4>2. AddBytesTxWindow(0, w) \in 0 .. MaxWindow /\ w \in Int BY <4>1 DEF AddBytesTxWindow
      <4>3. channels'[f] \in Channel
        BY <1>8, <3>1, <4>2 DEF FreeFds, Channel, ChannelStatus, TypeInv, TablesOK
      <4> QED BY <4>3
    <3>3. pc'["main"] = pc["main"] /\ UNCHANGED <<current, reaped>>
      BY <1>8, SignalPlaced DEF ChannelOpen, TypeInv
    <3> QED BY <3>1, <3>2, <3>3 DEF TypeInv, TablesOK, Working, FreeFds
  <2> QED BY <2>1, <2>2, <2>3, <2>4, <2>5 DEF TypeInv
<1>9. CASE ChannelOpenRefused(r)
  <2>1. FlagsOK' BY <1>9, Zenon DEF ChannelOpenRefused, TypeInv, FlagsOK
  <2>2. TablesOK' BY <1>9 DEF ChannelOpenRefused, TypeInv, TablesOK
  <2>3. PassOK' BY <1>9 DEF ChannelOpenRefused, TypeInv, PassOK
  <2>4. SessionOK' BY <1>9 DEF ChannelOpenRefused, TypeInv, SessionOK
  <2>5. Working' BY <1>9 DEF ChannelOpenRefused, TypeInv, SessionOK, Working
  <2> QED BY <2>1, <2>2, <2>3, <2>4, <2>5 DEF TypeInv
<1>10. ASSUME NEW f \in Fds, NEW w \in Grants, ChannelOpenConfirmation(r, f, w) PROVE TypeInv'
  <2>1. /\ channels' \in [Fds -> Channel \cup {None}]
        /\ \A g \in Fds : channels'[g] = None <=> channels[g] = None
    <3>1. IF f \in ChannelFds THEN Granted(f, w, "OPEN") ELSE UNCHANGED channels
      BY <1>10 DEF ChannelOpenConfirmation
    <3>2. f \in ChannelFds => "OPEN" \in ChannelStatus
      BY DEF ChannelFds, Channel, ChannelStatus, TypeInv, TablesOK
    <3> QED BY <1>10, <3>1, <3>2, GrantTyped
  <2>2. FlagsOK' BY <1>10, Zenon DEF ChannelOpenConfirmation, SignalUnder, TypeInv, FlagsOK
  <2>3. TablesOK' BY <1>10, <2>1 DEF ChannelOpenConfirmation, TypeInv, TablesOK
  <2>4. PassOK' BY <1>10 DEF ChannelOpenConfirmation, TypeInv, PassOK
  <2>5. SessionOK' BY <1>10, SignalTyped DEF ChannelOpenConfirmation, TypeInv, SessionOK
  <2>6. Working'
    <3>1. pc'["main"] = pc["main"] /\ UNCHANGED <<current, reaped>>
      BY <1>10, SignalPlaced DEF ChannelOpenConfirmation, TypeInv
    <3> QED BY <2>1, <3>1 DEF TypeInv, Working
  <2> QED BY <2>2, <2>3, <2>4, <2>5, <2>6 DEF TypeInv
<1>11. ASSUME NEW f \in Fds, NEW w \in Grants, ChannelWindowAdjust(r, f, w) PROVE TypeInv'
  <2>1. /\ channels' \in [Fds -> Channel \cup {None}]
        /\ \A g \in Fds : channels'[g] = None <=> channels[g] = None
    <3>1. IF f \in ChannelFds THEN Granted(f, w, channels[f].status) ELSE UNCHANGED channels
      BY <1>11 DEF ChannelWindowAdjust
    <3>2. f \in ChannelFds => channels[f].status \in ChannelStatus
      BY DEF ChannelFds, Channel, ChannelStatus, TypeInv, TablesOK
    <3> QED BY <1>11, <3>1, <3>2, GrantTyped
  <2>2. FlagsOK' BY <1>11, Zenon DEF ChannelWindowAdjust, SignalUnder, TypeInv, FlagsOK
  <2>3. TablesOK' BY <1>11, <2>1 DEF ChannelWindowAdjust, TypeInv, TablesOK
  <2>4. PassOK' BY <1>11 DEF ChannelWindowAdjust, TypeInv, PassOK
  <2>5. SessionOK' BY <1>11, SignalTyped DEF ChannelWindowAdjust, TypeInv, SessionOK
  <2>6. Working'
    <3>1. pc'["main"] = pc["main"] /\ UNCHANGED <<current, reaped>>
      BY <1>11, SignalPlaced DEF ChannelWindowAdjust, TypeInv, SessionOK
    <3> QED BY <2>1, <3>1 DEF TypeInv, Working
  <2> QED BY <2>2, <2>3, <2>4, <2>5, <2>6 DEF TypeInv
<1>12. ASSUME NEW f \in Fds, NEW requestClose \in BOOLEAN, ChannelData(r, f, requestClose) PROVE TypeInv'
  <2>1. FlagsOK' BY <1>12, Zenon DEF ChannelData, TypeInv, FlagsOK
  <2>2. TablesOK' BY <1>12 DEF ChannelData, ChannelFds, Channel, ChannelStatus, TypeInv, TablesOK
  <2>3. PassOK' BY <1>12 DEF ChannelData, TypeInv, PassOK
  <2>4. SessionOK' BY <1>12 DEF ChannelData, TypeInv, SessionOK
  <2>5. Working' BY <1>12 DEF ChannelData, ChannelFds, Channel, ChannelStatus, TypeInv, TablesOK, SessionOK, Working
  <2> QED BY <2>1, <2>2, <2>3, <2>4, <2>5 DEF TypeInv
<1>13. ASSUME NEW f \in Fds, ChannelClose(r, f) PROVE TypeInv'
  <2>1. FlagsOK' BY <1>13, Zenon DEF ChannelClose, DecreaseChannelCount, TypeInv, FlagsOK
  <2>2. TablesOK' BY <1>13 DEF ChannelClose, CloseFds, ChannelFds, DecreaseChannelCount, Decreased, Live, Request, Channel, TypeInv, TablesOK
  <2>3. PassOK' BY <1>13 DEF ChannelClose, TypeInv, PassOK
  <2>4. SessionOK' BY <1>13 DEF ChannelClose, DecreaseChannelCount, TypeInv, SessionOK
  <2>5. Working' BY <1>13 DEF ChannelClose, CloseFds, ChannelFds, DecreaseChannelCount, Channel, TypeInv, TablesOK, SessionOK, Working
  <2> QED BY <2>1, <2>2, <2>3, <2>4, <2>5 DEF TypeInv
<1>14. CASE CloseRequest(r)
  <2>1. FlagsOK' BY <1>14, Zenon DEF CloseRequest, TypeInv, FlagsOK
  <2>2. TablesOK'
    <3>1. CASE UNCHANGED <<requests, openFds, reaped>>
      BY <1>14, <3>1 DEF CloseRequest, TypeInv, TablesOK
    <3>2. CASE retained[r] \in Live /\ DeleteRequest(retained[r])
      <4>1. requests[retained[r]].sock \in Fds
        BY <3>2 DEF Live, Request, TypeInv, TablesOK
      <4> QED BY <1>14, <3>2, <4>1 DEF CloseRequest, DeleteRequest, CloseFds, TypeInv, TablesOK
    <3> QED BY <1>14, <3>1, <3>2 DEF CloseRequest, ClosePortForwardRequest
  <2>3. PassOK' BY <1>14 DEF CloseRequest, TypeInv, PassOK
  <2>4. SessionOK' BY <1>14 DEF CloseRequest, TypeInv, SessionOK
  <2>5. Working' BY <1>14 DEF CloseRequest, ClosePortForwardRequest, DeleteRequest, CloseFds, TypeInv, TablesOK, SessionOK, Working
  <2> QED BY <2>1, <2>2, <2>3, <2>4, <2>5 DEF TypeInv
<1>15. ASSUME NEW shared \in BOOLEAN, RxUpdateAccess(r, shared) PROVE TypeInv'
  <2>1. FlagsOK' BY <1>15, Zenon DEF RxUpdateAccess, UpdateEnterpriseAccess, SignalUnder, TypeInv, FlagsOK
  <2>2. TablesOK' BY <1>15 DEF RxUpdateAccess, UpdateEnterpriseAccess, Live, Request, RequestStatus, TypeInv, TablesOK
  <2>3. PassOK' BY <1>15 DEF RxUpdateAccess, UpdateEnterpriseAccess, TypeInv, PassOK
  <2>4. SessionOK' BY <1>15, SignalTyped DEF RxUpdateAccess, UpdateEnterpriseAccess, TypeInv, SessionOK
  <2>5. Working' BY <1>15, SignalPlaced DEF RxUpdateAccess, UpdateEnterpriseAccess, TypeInv, SessionOK, Working
  <2> QED BY <2>1, <2>2, <2>3, <2>4, <2>5 DEF TypeInv
<1> QED BY <1>1, <1>2, <1>3, <1>4, <1>5, <1>6, <1>7, <1>8, <1>9, <1>10, <1>11, <1>12,
           <1>13, <1>14, <1>15 DEF HandlerStep

(* Protocol::Init, on main.                                                *)
LEMMA TypeInitStep ==
    ASSUME TypeInv, InitStep
    PROVE  TypeInv'
<1> USE ThreadsAssumption, BoundsAssumption, NoneAssumption
    DEF tables, session, protocol, wake, locks, pass, flags, Threads, Goto,
        MainLabels, RxLabels, SvcLabels, DeinitLabels
<1>1. CASE BeginInit
  <2>1. FlagsOK' BY <1>1, Zenon DEF BeginInit, TypeInv, FlagsOK
  <2>2. TablesOK' BY <1>1 DEF BeginInit, TypeInv, TablesOK
  <2>3. PassOK' BY <1>1 DEF BeginInit, TypeInv, PassOK
  <2>4. SessionOK' BY <1>1 DEF BeginInit, TypeInv, SessionOK
  <2>5. Working' BY <1>1 DEF BeginInit, TypeInv, SessionOK, Working
  <2> QED BY <2>1, <2>2, <2>3, <2>4, <2>5 DEF TypeInv
<1>2. CASE InitConnect
  <2>1. FlagsOK' BY <1>2, Zenon DEF InitConnect, SomeoneBusy, LeaveInit, TypeInv, FlagsOK
  <2>2. TablesOK' BY <1>2 DEF InitConnect, TypeInv, TablesOK
  <2>3. PassOK' BY <1>2 DEF InitConnect, TypeInv, PassOK
  <2>4. SessionOK'
    <3>1. pc' \in [Threads -> MainLabels \cup RxLabels \cup SvcLabels \cup {"off"}]
      <4> DEFINE L == MainLabels \cup RxLabels \cup SvcLabels \cup {"off"}
      <4>1. {"iWait", "receive", "top"} \subseteq L OBVIOUS
      <4>2. pc \in [Threads -> L] BY DEF TypeInv, SessionOK
      <4> HIDE DEF L
      <4>3. pc' \in [Threads -> L] BY <1>2, <4>1, <4>2 DEF InitConnect, LeaveInit
      <4> QED BY <4>3 DEF L
    <3>2. /\ lme' \in {"DISCONNECTED", "CONNECTED"} /\ rxThread' \in RxThreads \cup {None}
          /\ cancelled' \subseteq RxThreads
      BY <1>2 DEF InitConnect, TypeInv, SessionOK
    <3>3. UNCHANGED <<handshaking, failureReported, pipe, locks>> BY <1>2 DEF InitConnect
    <3> QED BY <3>1, <3>2, <3>3 DEF TypeInv, SessionOK
  <2>5. Working' BY <1>2 DEF InitConnect, LeaveInit, TypeInv, SessionOK, Working
  <2> QED BY <2>1, <2>2, <2>3, <2>4, <2>5 DEF TypeInv
<1>3. CASE InitVersion
  <2>1. FlagsOK' BY <1>3, Zenon DEF InitVersion, TypeInv, FlagsOK
  <2>2. TablesOK' BY <1>3 DEF InitVersion, TypeInv, TablesOK
  <2>3. PassOK' BY <1>3 DEF InitVersion, TypeInv, PassOK
  <2>4. SessionOK' BY <1>3 DEF InitVersion, TypeInv, SessionOK
  <2>5. Working' BY <1>3 DEF InitVersion, TypeInv, SessionOK, Working
  <2> QED BY <2>1, <2>2, <2>3, <2>4, <2>5 DEF TypeInv
<1>4. CASE InitDone
  <2>1. FlagsOK' BY <1>4, Zenon DEF InitDone, LeaveInit, TypeInv, FlagsOK
  <2>2. TablesOK' BY <1>4 DEF InitDone, TypeInv, TablesOK
  <2>3. PassOK' BY <1>4 DEF InitDone, TypeInv, PassOK
  <2>4. SessionOK' BY <1>4 DEF InitDone, LeaveInit, TypeInv, SessionOK
  <2>5. Working' BY <1>4 DEF InitDone, LeaveInit, TypeInv, SessionOK, Working
  <2> QED BY <2>1, <2>2, <2>3, <2>4, <2>5 DEF TypeInv
<1>5. ASSUME NEW ok \in BOOLEAN, InitWait(ok) PROVE TypeInv'
  <2>1. FlagsOK' BY <1>5, Zenon DEF InitWait, LeaveInit, TypeInv, FlagsOK
  <2>2. TablesOK' BY <1>5 DEF InitWait, TypeInv, TablesOK
  <2>3. PassOK' BY <1>5 DEF InitWait, TypeInv, PassOK
  <2>4. SessionOK' BY <1>5 DEF InitWait, LeaveInit, LmeDown, TypeInv, SessionOK
  <2>5. Working' BY <1>5 DEF InitWait, LeaveInit, TypeInv, SessionOK, Working
  <2> QED BY <2>1, <2>2, <2>3, <2>4, <2>5 DEF TypeInv
<1>6. ASSUME NEW ok \in BOOLEAN, InitBuffer(ok) PROVE TypeInv'
  <2>1. FlagsOK' BY <1>6, Zenon DEF InitBuffer, TypeInv, FlagsOK
  <2>2. TablesOK' BY <1>6 DEF InitBuffer, TypeInv, TablesOK
  <2>3. PassOK' BY <1>6 DEF InitBuffer, TypeInv, PassOK
  <2>4. SessionOK'
    <3>1. pc' \in [Threads -> MainLabels \cup RxLabels \cup SvcLabels \cup {"off"}]
      <4> DEFINE L == MainLabels \cup RxLabels \cup SvcLabels \cup {"off"}
      <4>1. {"iRemote", "dLme", "idle"} \subseteq L OBVIOUS
      <4>2. pc \in [Threads -> L] BY DEF TypeInv, SessionOK
      <4> HIDE DEF L
      <4>3. pc' \in [Threads -> L] BY <1>6, <4>1, <4>2 DEF InitBuffer, AdapterStarted
      <4> QED BY <4>3 DEF L
    <3>2. UNCHANGED <<session, handshaking, failureReported, pipe, locks>> BY <1>6 DEF InitBuffer
    <3> QED BY <3>1, <3>2 DEF TypeInv, SessionOK
  <2>5. Working' BY <1>6 DEF InitBuffer, AdapterStarted, TypeInv, SessionOK, Working
  <2> QED BY <2>1, <2>2, <2>3, <2>4, <2>5 DEF TypeInv
<1>7. ASSUME NEW ok \in BOOLEAN, InitUpdateAccess(ok) PROVE TypeInv'
  <2>1. FlagsOK' BY <1>7, Zenon DEF InitUpdateAccess, UpdateEnterpriseAccess, SignalUnder, TypeInv, FlagsOK
  <2>2. TablesOK' BY <1>7 DEF InitUpdateAccess, UpdateEnterpriseAccess, Live, Request, RequestStatus, TypeInv, TablesOK
  <2>3. PassOK' BY <1>7 DEF InitUpdateAccess, UpdateEnterpriseAccess, TypeInv, PassOK
  <2>4. SessionOK' BY <1>7, SignalTyped DEF InitUpdateAccess, UpdateEnterpriseAccess, TypeInv, SessionOK
  <2>5. Working' BY <1>7, SignalPlaced DEF InitUpdateAccess, UpdateEnterpriseAccess, TypeInv, SessionOK, Working
  <2> QED BY <2>1, <2>2, <2>3, <2>4, <2>5 DEF TypeInv
<1>8. CASE InitThreadLate
  <2>1. FlagsOK' BY <1>8, Zenon DEF InitThreadLate, SomeoneBusy, TypeInv, FlagsOK
  <2>2. TablesOK' BY <1>8 DEF InitThreadLate, TypeInv, TablesOK
  <2>3. PassOK' BY <1>8 DEF InitThreadLate, TypeInv, PassOK
  <2>4. SessionOK'
    <3>1. pc' \in [Threads -> MainLabels \cup RxLabels \cup SvcLabels \cup {"off"}]
      <4> DEFINE L == MainLabels \cup RxLabels \cup SvcLabels \cup {"off"}
      <4>1. {"receive", "top"} \subseteq L OBVIOUS
      <4>2. pc \in [Threads -> L] BY DEF TypeInv, SessionOK
      <4> HIDE DEF L
      <4>3. pc' \in [Threads -> L] BY <1>8, <4>1, <4>2 DEF InitThreadLate
      <4> QED BY <4>3 DEF L
    <3>2. /\ lme' \in {"DISCONNECTED", "CONNECTED"} /\ rxThread' \in RxThreads \cup {None}
          /\ cancelled' \subseteq RxThreads
      BY <1>8 DEF InitThreadLate, TypeInv, SessionOK
    <3>3. UNCHANGED <<handshaking, failureReported, pipe, locks>> BY <1>8 DEF InitThreadLate
    <3> QED BY <3>1, <3>2, <3>3 DEF TypeInv, SessionOK
  <2>5. Working' BY <1>8 DEF InitThreadLate, TypeInv, SessionOK, Working
  <2> QED BY <2>1, <2>2, <2>3, <2>4, <2>5 DEF TypeInv
<1>9. CASE InitAdapterFails
  <2>1. FlagsOK' BY <1>9, Zenon DEF InitAdapterFails, LeaveInit, TypeInv, FlagsOK
  <2>2. TablesOK' BY <1>9 DEF InitAdapterFails, TypeInv, TablesOK
  <2>3. PassOK' BY <1>9 DEF InitAdapterFails, TypeInv, PassOK
  <2>4. SessionOK'
    <3>1. pc' \in [Threads -> MainLabels \cup RxLabels \cup SvcLabels \cup {"off"}]
      <4> DEFINE L == MainLabels \cup RxLabels \cup SvcLabels \cup {"off"}
      <4>1. {"top"} \subseteq L OBVIOUS
      <4>2. pc \in [Threads -> L] BY DEF TypeInv, SessionOK
      <4> HIDE DEF L
      <4>3. pc' \in [Threads -> L] BY <1>9, <4>1, <4>2 DEF InitAdapterFails, LeaveInit
      <4> QED BY <4>3 DEF L
    <3>2. lme' = "DISCONNECTED" /\ rxThread' = rxThread /\ cancelled' \subseteq RxThreads
      BY <1>9 DEF InitAdapterFails, LmeDown, TypeInv, SessionOK
    <3>3. UNCHANGED <<handshaking, failureReported, pipe, locks>> BY <1>9 DEF InitAdapterFails
    <3> QED BY <3>1, <3>2, <3>3 DEF TypeInv, SessionOK
  <2>5. Working' BY <1>9 DEF InitAdapterFails, LeaveInit, LmeDown, TypeInv, SessionOK, Working
  <2> QED BY <2>1, <2>2, <2>3, <2>4, <2>5 DEF TypeInv
<1> QED BY <1>1, <1>2, <1>3, <1>4, <1>5, <1>6, <1>7, <1>8, <1>9 DEF InitStep

(* CreateSockets, Select, _acceptConnection and _rxFromSocket, on main.    *)
LEMMA TypeSelect ==
    ASSUME TypeInv, SelectStep
    PROVE  TypeInv'
<1> USE ThreadsAssumption, BoundsAssumption, NoneAssumption
    DEF tables, session, protocol, wake, locks, pass, flags, Threads, Goto,
        MainLabels, RxLabels, SvcLabels, DeinitLabels
<1>1. CASE BeginSelect
  <2>1. FlagsOK' BY <1>1, Zenon DEF BeginSelect, TypeInv, FlagsOK
  <2>2. TablesOK' BY <1>1 DEF BeginSelect, TypeInv, TablesOK
  <2>3. PassOK' BY <1>1 DEF BeginSelect, TypeInv, PassOK
  <2>4. SessionOK' BY <1>1 DEF BeginSelect, TypeInv, SessionOK
  <2>5. Working' BY <1>1 DEF BeginSelect, TypeInv, SessionOK, Working
  <2> QED BY <2>1, <2>2, <2>3, <2>4, <2>5 DEF TypeInv
<1>2. CASE SelectPorts
  <2>1. FlagsOK' BY <1>2, Zenon DEF SelectPorts, TypeInv, FlagsOK
  <2>2. TablesOK' BY <1>2 DEF SelectPorts, ListenFds, Live, Request, TypeInv, TablesOK
  <2>3. PassOK' BY <1>2 DEF SelectPorts, ListenFds, Live, Request, TypeInv, TablesOK, PassOK
  <2>4. SessionOK' BY <1>2 DEF SelectPorts, TypeInv, SessionOK
  <2>5. Working' BY <1>2 DEF SelectPorts, TypeInv, SessionOK, Working
  <2> QED BY <2>1, <2>2, <2>3, <2>4, <2>5 DEF TypeInv
<1>3. CASE SelectChannels
  <2>1. FlagsOK' BY <1>3, Zenon DEF SelectChannels, TypeInv, FlagsOK
  <2>2. TablesOK' BY <1>3 DEF SelectChannels, Eligible, ChannelFds, TypeInv, TablesOK
  <2>3. PassOK' BY <1>3 DEF SelectChannels, Eligible, ChannelFds, TypeInv, TablesOK, PassOK
  <2>4. SessionOK' BY <1>3 DEF SelectChannels, TypeInv, SessionOK
  <2>5. Working' BY <1>3 DEF SelectChannels, Eligible, ChannelFds, TypeInv, TablesOK, SessionOK, Working
  <2> QED BY <2>1, <2>2, <2>3, <2>4, <2>5 DEF TypeInv
<1>4. CASE SelectCall
  <2>1. FlagsOK' BY <1>4, Zenon DEF SelectCall, TypeInv, FlagsOK
  <2>2. TablesOK' BY <1>4 DEF SelectCall, PassOver, TypeInv, TablesOK
  <2>3. PassOK'
    <3>1. CASE UNCHANGED pass BY <3>1 DEF TypeInv, PassOK
    <3>2. CASE PassOver BY <3>2 DEF PassOver, PassOK
    <3> QED BY <1>4, <3>1, <3>2 DEF SelectCall
  <2>4. SessionOK' BY <1>4 DEF SelectCall, TypeInv, SessionOK
  <2>5. Working' BY <1>4 DEF SelectCall, PassOver, TypeInv, SessionOK, Working
  <2> QED BY <2>1, <2>2, <2>3, <2>4, <2>5 DEF TypeInv
<1>5. CASE SelectDone
  <2>1. FlagsOK' BY <1>5, Zenon DEF SelectDone, TypeInv, FlagsOK
  <2>2. TablesOK' BY <1>5 DEF SelectDone, PassOver, TypeInv, TablesOK
  <2>3. PassOK' BY <1>5 DEF SelectDone, PassOver, TypeInv, PassOK
  <2>4. SessionOK' BY <1>5 DEF SelectDone, TypeInv, SessionOK
  <2>5. Working' BY <1>5 DEF SelectDone, PassOver, TypeInv, SessionOK, Working
  <2> QED BY <2>1, <2>2, <2>3, <2>4, <2>5 DEF TypeInv
<1>6. ASSUME NEW R \in SUBSET rset, SelectReturns(R) PROVE TypeInv'
  <2>1. FlagsOK' BY <1>6, Zenon DEF SelectReturns, TypeInv, FlagsOK
  <2>2. TablesOK' BY <1>6 DEF SelectReturns, TypeInv, TablesOK
  <2>3. PassOK' BY <1>6 DEF SelectReturns, TypeInv, PassOK
  <2>4. SessionOK' BY <1>6 DEF SelectReturns, TypeInv, SessionOK
  <2>5. Working' BY <1>6 DEF SelectReturns, TypeInv, SessionOK, Working
  <2> QED BY <2>1, <2>2, <2>3, <2>4, <2>5 DEF TypeInv
<1>7. ASSUME NEW s \in rset, AcceptRefused(s) PROVE TypeInv'
  <2>1. FlagsOK' BY <1>7, Zenon DEF AcceptRefused, TypeInv, FlagsOK
  <2>2. TablesOK' BY <1>7 DEF AcceptRefused, TypeInv, TablesOK
  <2>3. PassOK' BY <1>7 DEF AcceptRefused, TypeInv, PassOK
  <2>4. SessionOK' BY <1>7 DEF AcceptRefused, TypeInv, SessionOK
  <2>5. Working' BY <1>7 DEF AcceptRefused, TypeInv, SessionOK, Working
  <2> QED BY <2>1, <2>2, <2>3, <2>4, <2>5 DEF TypeInv
<1>8. ASSUME NEW s \in rset, AcceptBlocks(s) PROVE TypeInv'
  <2>1. FlagsOK' BY <1>8, Zenon DEF AcceptBlocks, TypeInv, FlagsOK
  <2>2. TablesOK' BY <1>8 DEF AcceptBlocks, TypeInv, TablesOK
  <2>3. PassOK' BY <1>8 DEF AcceptBlocks, TypeInv, PassOK
  <2>4. SessionOK' BY <1>8 DEF AcceptBlocks, TypeInv, SessionOK
  <2>5. Working' BY <1>8 DEF AcceptBlocks, TypeInv, SessionOK, Working
  <2> QED BY <2>1, <2>2, <2>3, <2>4, <2>5 DEF TypeInv
<1>9. ASSUME NEW s \in rset, NEW p \in Requests, NEW sent \in BOOLEAN, Accept(s, p, sent) PROVE TypeInv'
  <2>1. FlagsOK' BY <1>9, Zenon DEF Accept, TypeInv, FlagsOK
  <2>2. TablesOK'
    <3>1. p \in Live BY <1>9 DEF Accept, Acceptors
    <3>2. requests[p] \in Request BY <3>1 DEF Live, TypeInv, TablesOK
    <3>3. requests' \in [Requests -> Request \cup {None}]
      <4>1. CASE ~sent BY <1>9, <3>1, <4>1, CountedFields DEF Accept
      <4>2. CASE sent
        <5>1. requests[p].count \in Nat BY <3>2 DEF Request
        <5> QED BY <1>9, <3>2, <4>2, <5>1 DEF Accept, Request, TypeInv, TablesOK
      <4> QED BY <4>1, <4>2
    <3>4. channels' \in [Fds -> Channel \cup {None}] /\ openFds' \subseteq Fds
      <4>1. CASE ~sent BY <1>9, <4>1 DEF Accept, TypeInv, TablesOK
      <4>2. CASE sent
        <5>1. PICK f \in FreeFds :
                 /\ openFds' = openFds \cup {f}
                 /\ channels' = [channels EXCEPT ![f] =
                       [status |-> "NOT_OPENED", tx |-> 0, request |-> p,
                        soap |-> FALSE, credit |-> 0]]
          BY <1>9, <4>2 DEF Accept
        <5>2. [status |-> "NOT_OPENED", tx |-> 0, request |-> p, soap |-> FALSE, credit |-> 0]
                 \in Channel
          <6>1. FALSE \in BOOLEAN BY Zenon
          <6> QED BY <6>1 DEF Channel, ChannelStatus
        <5> QED BY <5>1, <5>2 DEF FreeFds, TypeInv, TablesOK
      <4> QED BY <4>1, <4>2
    <3> QED BY <1>9, <3>3, <3>4 DEF Accept, TypeInv, TablesOK
  <2>3. PassOK' BY <1>9 DEF Accept, TypeInv, PassOK
  <2>4. SessionOK' BY <1>9 DEF Accept, TypeInv, SessionOK
  <2>5. Working' BY <1>9 DEF Accept, FreeFds, Acceptors, Channel, ChannelStatus, TypeInv, TablesOK, SessionOK, Working
  <2> QED BY <2>1, <2>2, <2>3, <2>4, <2>5 DEF TypeInv
<1>10. CASE AcceptResumes
  <2>1. FlagsOK' BY <1>10, Zenon DEF AcceptResumes, TypeInv, FlagsOK
  <2>2. TablesOK' BY <1>10 DEF AcceptResumes, TypeInv, TablesOK
  <2>3. PassOK' BY <1>10 DEF AcceptResumes, TypeInv, PassOK
  <2>4. SessionOK' BY <1>10 DEF AcceptResumes, TypeInv, SessionOK
  <2>5. Working' BY <1>10 DEF AcceptResumes, TypeInv, SessionOK, Working
  <2> QED BY <2>1, <2>2, <2>3, <2>4, <2>5 DEF TypeInv
<1>11. CASE AcceptDone
  <2>1. FlagsOK' BY <1>11, Zenon DEF AcceptDone, TypeInv, FlagsOK
  <2>2. TablesOK' BY <1>11 DEF AcceptDone, TypeInv, TablesOK
  <2>3. PassOK' BY <1>11 DEF AcceptDone, TypeInv, PassOK
  <2>4. SessionOK' BY <1>11 DEF AcceptDone, TypeInv, SessionOK
  <2>5. Working' BY <1>11 DEF AcceptDone, TypeInv, SessionOK, Working
  <2> QED BY <2>1, <2>2, <2>3, <2>4, <2>5 DEF TypeInv
<1>12. ASSUME NEW f \in rset, RxCopy(f) PROVE TypeInv'
  <2>1. FlagsOK' BY <1>12, Zenon DEF RxCopy, TypeInv, FlagsOK
  <2>2. TablesOK' BY <1>12 DEF RxCopy, ChannelFds, Channel, TypeInv, TablesOK
  <2>3. PassOK' BY <1>12 DEF RxCopy, ChannelFds, Channel, TypeInv, TablesOK, PassOK
  <2>4. SessionOK' BY <1>12 DEF RxCopy, TypeInv, SessionOK
  <2>5. Working' BY <1>12 DEF RxCopy, ChannelFds, Channel, TypeInv, TablesOK, PassOK, SessionOK, Working
  <2> QED BY <2>1, <2>2, <2>3, <2>4, <2>5 DEF TypeInv
<1>13. ASSUME NEW n \in 0 .. BufSize, RxReceive(n) PROVE TypeInv'
  <2>1. FlagsOK' BY <1>13, Zenon DEF RxReceive, TypeInv, FlagsOK
  <2>2. TablesOK' BY <1>13 DEF RxReceive, Channel, TypeInv, TablesOK, PassOK, SessionOK, Working
  <2>3. PassOK' BY <1>13 DEF RxReceive, TypeInv, PassOK
  <2>4. SessionOK' BY <1>13 DEF RxReceive, TypeInv, SessionOK
  <2>5. Working' BY <1>13 DEF RxReceive, Channel, TypeInv, TablesOK, SessionOK, Working
  <2> QED BY <2>1, <2>2, <2>3, <2>4, <2>5 DEF TypeInv
<1>14. CASE RxApply
  <2>1. FlagsOK' BY <1>14, Zenon DEF RxApply, TypeInv, FlagsOK
  <2>2. TablesOK' BY <1>14 DEF RxApply, RemoveBytesTxWindow, Channel, ChannelStatus, TypeInv, TablesOK, PassOK, SessionOK, Working
  <2>3. PassOK' BY <1>14 DEF RxApply, TypeInv, PassOK
  <2>4. SessionOK' BY <1>14 DEF RxApply, TypeInv, SessionOK
  <2>5. Working' BY <1>14 DEF RxApply, RemoveBytesTxWindow, Channel, ChannelStatus, TypeInv, TablesOK, SessionOK, Working
  <2> QED BY <2>1, <2>2, <2>3, <2>4, <2>5 DEF TypeInv
<1>15. ASSUME NEW ok \in BOOLEAN, CreateSockets(ok) PROVE TypeInv'
  <2>1. FlagsOK' BY <1>15, Zenon DEF CreateSockets, TypeInv, FlagsOK
  <2>2. TablesOK' BY <1>15 DEF CreateSockets, TypeInv, TablesOK
  <2>3. PassOK' BY <1>15 DEF CreateSockets, TypeInv, PassOK
  <2>4. SessionOK'
    <3>1. CASE socketsActive BY <1>15, <3>1 DEF CreateSockets, TypeInv, SessionOK
    <3>2. CASE ~socketsActive
      <4>1. pc' \in [Threads -> MainLabels \cup RxLabels \cup SvcLabels \cup {"off"}]
        BY <1>15, <3>2 DEF CreateSockets, TypeInv, SessionOK
      <4>2. pipe' \in 0 .. PipeCap
        <5>1. pipe' = 0 \/ pipe' = pipe BY <1>15, <3>2, Zenon DEF CreateSockets
        <5> QED BY <5>1 DEF TypeInv, SessionOK
      <4>3. UNCHANGED <<session, handshaking, failureReported, locks>>
        BY <1>15, Zenon DEF CreateSockets
      <4> QED BY <4>1, <4>2, <4>3 DEF TypeInv, SessionOK
    <3> QED BY <3>1, <3>2
  <2>5. Working' BY <1>15 DEF CreateSockets, TypeInv, SessionOK, Working
  <2> QED BY <2>1, <2>2, <2>3, <2>4, <2>5 DEF TypeInv
<1> QED BY <1>1, <1>2, <1>3, <1>4, <1>5, <1>6, <1>7, <1>8, <1>9, <1>10, <1>11, <1>12,
           <1>13, <1>14, <1>15 DEF SelectStep

(* Every step keeps the types.                                             *)
LEMMA TypeNext ==
    ASSUME TypeInv, [Next]_vars
    PROVE  TypeInv'
<1> USE ThreadsAssumption, BoundsAssumption, NoneAssumption
    DEF tables, session, protocol, wake, locks, pass, flags, Threads, Goto,
        MainLabels, RxLabels, SvcLabels, DeinitLabels
<1>1. ASSUME NEW t \in SvcThreads, SvcDeinit(t) PROVE TypeInv'
  <2>1. FlagsOK' BY <1>1, Zenon DEF SvcDeinit, TypeInv, FlagsOK
  <2>2. TablesOK' BY <1>1 DEF SvcDeinit, TypeInv, TablesOK
  <2>3. PassOK' BY <1>1 DEF SvcDeinit, TypeInv, PassOK
  <2>4. SessionOK' BY <1>1 DEF SvcDeinit, TypeInv, SessionOK
  <2>5. Working' BY <1>1 DEF SvcDeinit, TypeInv, SessionOK, Working
  <2> QED BY <2>1, <2>2, <2>3, <2>4, <2>5 DEF TypeInv
<1>2. ASSUME NEW t \in Threads \ {"main"}, SignalResumes(t) PROVE TypeInv'
  <2>1. FlagsOK' BY <1>2, Zenon DEF SignalResumes, TypeInv, FlagsOK
  <2>2. TablesOK' BY <1>2 DEF SignalResumes, TypeInv, TablesOK
  <2>3. PassOK' BY <1>2 DEF SignalResumes, TypeInv, PassOK
  <2>4. SessionOK' BY <1>2 DEF SignalResumes, TypeInv, SessionOK
  <2>5. Working' BY <1>2 DEF SignalResumes, TypeInv, SessionOK, Working
  <2> QED BY <2>1, <2>2, <2>3, <2>4, <2>5 DEF TypeInv
<1>3. ASSUME NEW shared \in BOOLEAN, AdapterUpdateAccess(shared) PROVE TypeInv'
  <2>1. FlagsOK' BY <1>3, Zenon DEF AdapterUpdateAccess, UpdateEnterpriseAccess, SignalUnder, TypeInv, FlagsOK
  <2>2. TablesOK' BY <1>3 DEF AdapterUpdateAccess, UpdateEnterpriseAccess, Live, Request, RequestStatus, TypeInv, TablesOK
  <2>3. PassOK' BY <1>3 DEF AdapterUpdateAccess, UpdateEnterpriseAccess, TypeInv, PassOK
  <2>4. SessionOK' BY <1>3, SignalTyped DEF AdapterUpdateAccess, UpdateEnterpriseAccess, TypeInv, SessionOK
  <2>5. Working' BY <1>3, SignalPlaced DEF AdapterUpdateAccess, UpdateEnterpriseAccess, TypeInv, SessionOK, Working
  <2> QED BY <2>1, <2>2, <2>3, <2>4, <2>5 DEF TypeInv
<1>4. CASE InitStep BY <1>4, TypeInitStep
<1>5. CASE SelectStep BY <1>5, TypeSelect
<1>6. ASSUME NEW r \in RxThreads, ReceiveStep(r) \/ HandlerStep(r) PROVE TypeInv' BY <1>6, TypeReceive, TypeHandler
<1>7. ASSUME NEW t \in Deiniters, DeinitStep(t) PROVE TypeInv' BY <1>7, TypeDeinit
<1>8. CASE UNCHANGED vars
  <2>1. FlagsOK' BY <1>8, Zenon DEF vars, TypeInv, FlagsOK
  <2>2. TablesOK' /\ PassOK' /\ SessionOK' /\ Working'
    BY <1>8 DEF vars, TypeInv, TablesOK, PassOK, SessionOK, Working
  <2> QED BY <2>1, <2>2 DEF TypeInv
<1> QED BY <1>1, <1>2, <1>3, <1>4, <1>5, <1>6, <1>7, <1>8 DEF Next

(* The invariant the other proofs use.                                     *)
LEMMA TypeInvCorrect == Spec => []TypeInv
<1>1. Init => TypeInv BY TypeInit
<1>2. TypeInv /\ [Next]_vars => TypeInv' BY TypeNext
<1> QED BY <1>1, <1>2, PTL DEF Spec

(* Every behaviour of the tables and their threads keeps its types: in     *)
(* particular no window and no channel count falls below zero.             *)
THEOREM TypeCorrect == Spec => []TypeOK
<1>1. TypeInv => TypeOK BY DEF TypeInv, TypeOK
<1> QED BY <1>1, TypeInvCorrect, PTL

-----------------------------------------------------------------------------
(* Ownership of descriptors *)

(* A step that leaves every request its port and its sockets.              *)
SameRequests ==
    \A p \in Requests : /\ requests'[p] = None <=> requests[p] = None
                        /\ p \in Live => /\ requests'[p].sock = requests[p].sock
                                         /\ requests'[p].port = requests[p].port

SameChannels == \A f \in Fds : channels'[f] = None <=> channels[f] = None

(* Requests that keep their sockets keep the set of acceptors.             *)
LEMMA SameListen ==
    ASSUME SameRequests
    PROVE  Live' = Live /\ ListenFds' = ListenFds
<1>1. Live' = Live BY DEF SameRequests, Live
<1>2. \A p \in Live : requests'[p].sock = requests[p].sock BY DEF SameRequests, Live
<1> QED BY <1>1, <1>2 DEF ListenFds

(* A step that opens and closes nothing keeps every owner.                 *)
LEMMA OwnedKept ==
    ASSUME FdsOwned, SameRequests, SameChannels, openFds' = openFds
    PROVE  FdsOwned'
<1>1. Live' = Live /\ ListenFds' = ListenFds BY SameListen
<1>2. ChannelFds' = ChannelFds BY DEF SameChannels, ChannelFds
<1> QED BY <1>1, <1>2 DEF FdsOwned, SameRequests, Live

(* A channel is given a descriptor that nobody owns.                       *)
LEMMA OwnedOpened ==
    ASSUME TypeInv, FdsOwned, SameRequests, NEW f \in FreeFds, openFds' = openFds \cup {f},
           NEW c \in Channel, channels' = [channels EXCEPT ![f] = c]
    PROVE  FdsOwned'
<1>1. Live' = Live /\ ListenFds' = ListenFds BY SameListen
<1>2. ChannelFds' = ChannelFds \cup {f}
  BY NoneAssumption DEF ChannelFds, FreeFds, TypeInv, TablesOK
<1>3. f \notin ListenFds BY DEF FreeFds, FdsOwned
<1> QED BY <1>1, <1>2, <1>3 DEF FdsOwned, SameRequests, Live

(* A channel goes, with its descriptor.                                    *)
LEMMA OwnedClosed ==
    ASSUME TypeInv, FdsOwned, SameRequests, NEW f \in ChannelFds, openFds' = openFds \ {f},
           channels' = [channels EXCEPT ![f] = None]
    PROVE  FdsOwned'
<1>1. Live' = Live /\ ListenFds' = ListenFds BY SameListen
<1>2. ChannelFds' = ChannelFds \ {f} BY DEF ChannelFds, TypeInv, TablesOK
<1> QED BY <1>1, <1>2 DEF FdsOwned, SameRequests, Live

(* A request gets the sockets of its port, or a descriptor nobody owns.    *)
LEMMA OwnedRequested ==
    ASSUME TypeInv, FdsOwned, NEW p \in FreeRequests, NEW q \in Ports, NEW a \in Addrs,
           NEW s \in Fds,
           IF RequestsAt(q) = {} THEN s \in FreeFds
                                 ELSE \E x \in RequestsAt(q) : s = requests[x].sock,
           requests' = [requests EXCEPT ![p] = NewRequest(q, a, s)],
           openFds' = openFds \cup {s}, channels' = channels
    PROVE  FdsOwned'
<1> DEFINE n == NewRequest(q, a, s)
<1>1. n \in Request /\ n.sock = s /\ n.port = q
  BY DEF NewRequest, Request, RequestStatus
<1> HIDE DEF n
<1>2. requests' = [requests EXCEPT ![p] = n] /\ n # None
  BY <1>1, NoneAssumption DEF n
<1>3. Live' = Live \cup {p} /\ p \notin Live /\ ChannelFds' = ChannelFds
  BY <1>2 DEF Live, ChannelFds, FreeRequests, TypeInv, TablesOK
<1>4. \A x \in Live : requests'[x] = requests[x]
  BY <1>2, <1>3 DEF Live, TypeInv, TablesOK
<1>5. requests'[p] = n BY <1>2 DEF FreeRequests, TypeInv, TablesOK
<1>6. ListenFds' = ListenFds \cup {s}
  BY <1>1, <1>3, <1>4, <1>5 DEF ListenFds
<1>7. s \notin ChannelFds
  BY DEF FreeFds, FdsOwned, RequestsAt, ListenFds
<1>8. \A x \in Live : requests[x].sock = s <=> requests[x].port = q
  BY DEF FreeFds, FdsOwned, RequestsAt, ListenFds
<1> QED BY <1>1, <1>3, <1>4, <1>5, <1>6, <1>7, <1>8 DEF FdsOwned

(* A request goes; the last one of its port closes the sockets.            *)
LEMMA OwnedDeleted ==
    ASSUME TypeInv, FdsOwned, NEW p \in Live, DeleteRequest(p), channels' = channels
    PROVE  FdsOwned'
<1>1. Live' = Live \ {p} /\ ChannelFds' = ChannelFds
  BY DEF DeleteRequest, Live, ChannelFds, TypeInv, TablesOK
<1>2. \A x \in Live \ {p} : requests'[x] = requests[x]
  BY DEF DeleteRequest, Live, TypeInv, TablesOK
<1>3. CASE RequestsAt(requests[p].port) = {p}
  <2>1. \A x \in Live \ {p} : requests[x].sock # requests[p].sock
    BY <1>3 DEF RequestsAt, FdsOwned
  <2>2. ListenFds' = ListenFds \ {requests[p].sock} BY <1>1, <1>2, <2>1 DEF ListenFds
  <2>3. openFds' = openFds \ {requests[p].sock} BY <1>3 DEF DeleteRequest, CloseFds
  <2>4. requests[p].sock \notin ChannelFds BY DEF FdsOwned, ListenFds
  <2> QED BY <1>1, <1>2, <2>2, <2>3, <2>4 DEF FdsOwned
<1>4. CASE RequestsAt(requests[p].port) # {p}
  <2>1. PICK x \in Live \ {p} : requests[x].port = requests[p].port
    BY <1>4 DEF RequestsAt
  <2>2. requests[x].sock = requests[p].sock BY <2>1 DEF FdsOwned
  <2>3. ListenFds' = ListenFds BY <1>1, <1>2, <2>2 DEF ListenFds
  <2>4. openFds' = openFds BY <1>4 DEF DeleteRequest, CloseFds
  <2> QED BY <1>1, <1>2, <2>3, <2>4 DEF FdsOwned
<1> QED BY <1>3, <1>4

(* Pending requests that begin to listen keep their sockets.               *)
LEMMA OwnedAccess ==
    ASSUME TypeInv, FdsOwned, NEW t, NEW from, NEW to, NEW shared \in BOOLEAN,
           UpdateEnterpriseAccess(t, from, to, shared)
    PROVE  FdsOwned'
<1>1. UNCHANGED <<channels, openFds>> BY DEF UpdateEnterpriseAccess
<1>2. CASE ~shared
  <2>1. UNCHANGED requests BY <1>2 DEF UpdateEnterpriseAccess
  <2> QED BY <1>1, <2>1, OwnedKept DEF SameRequests, SameChannels
<1>3. CASE shared
  <2>1. ASSUME NEW p \in Live
        PROVE  /\ requests'[p] \in Request
               /\ requests'[p].sock = requests[p].sock /\ requests'[p].port = requests[p].port
    <3>1. requests[p] \in Request /\ p \in Requests BY DEF Live, TypeInv, TablesOK
    <3> QED BY <1>3, <3>1 DEF UpdateEnterpriseAccess, Request, RequestStatus
  <2>2. \A p \in Requests \ Live : requests'[p] = None
    BY <1>3 DEF UpdateEnterpriseAccess, Live
  <2>3. SameRequests BY <2>1, <2>2, NoneAssumption DEF SameRequests, Live
  <2> QED BY <1>1, <2>3, OwnedKept DEF SameChannels
<1> QED BY <1>2, <1>3

(* Deinit closes what it drops.                                            *)
LEMMA OwnedDeinit ==
    ASSUME TypeInv, FdsOwned, NEW t \in Deiniters, DeinitStep(t)
    PROVE  FdsOwned'
<1> USE ThreadsAssumption, BoundsAssumption, NoneAssumption
    DEF tables, pass, Threads, Deiniters
<1>1. CASE DeinitLme(t) BY <1>1, OwnedKept DEF DeinitLme, SameRequests, SameChannels
<1>2. CASE DeinitPipe(t) BY <1>2, OwnedKept DEF DeinitPipe, SameRequests, SameChannels
<1>3. CASE DeinitChannels(t)
  <2>1. ChannelFds' = {} /\ Live' = Live /\ ListenFds' = ListenFds
    BY <1>3 DEF DeinitChannels, ChannelFds, Live, ListenFds
  <2> QED BY <1>3, <2>1 DEF DeinitChannels, CloseFds, FdsOwned, Live
<1>4. CASE DeinitPorts(t)
  <2>1. Live' = {} /\ ListenFds' = {} /\ ChannelFds' = ChannelFds
    BY <1>4 DEF DeinitPorts, ChannelFds, Live, ListenFds
  <2> QED BY <1>4, <2>1 DEF DeinitPorts, CloseFds, FdsOwned
<1>5. CASE DeinitReset(t) BY <1>5, OwnedKept DEF DeinitReset, SameRequests, SameChannels
<1> QED BY <1>1, <1>2, <1>3, <1>4, <1>5 DEF DeinitStep

(* Receiving touches no descriptor.                                        *)
LEMMA OwnedReceive ==
    ASSUME TypeInv, FdsOwned, NEW r \in RxThreads, ReceiveStep(r)
    PROVE  FdsOwned'
<1> USE ThreadsAssumption, BoundsAssumption, NoneAssumption
    DEF tables, pass, Threads
<1>1. ASSUME NEW kind \in {"service", "forward"}, Receive(r, kind) PROVE FdsOwned'
  BY <1>1, OwnedKept
  DEF Receive, SameRequests, SameChannels
<1>2. ASSUME NEW supported \in BOOLEAN, ReceiveProtocolVersion(r, supported) PROVE FdsOwned'
  BY <1>2, OwnedKept
  DEF ReceiveProtocolVersion, SameRequests, SameChannels
<1>3. CASE ReceiveDisconnect(r)
  BY <1>3, OwnedKept
  DEF ReceiveDisconnect, SameRequests, SameChannels
<1>4. CASE ReceiveError(r) BY <1>4, OwnedKept DEF ReceiveError, SameRequests, SameChannels
<1>5. CASE ReceiveCancelled(r)
  BY <1>5, OwnedKept
  DEF ReceiveCancelled, SameRequests, SameChannels
<1>6. CASE ReceiveMessage(r)
  BY <1>6, OwnedKept
  DEF ReceiveMessage, SameRequests, SameChannels
<1> QED BY <1>1, <1>2, <1>3, <1>4, <1>5, <1>6 DEF ReceiveStep

(* Handlers open and close descriptors with their owners.                  *)
LEMMA OwnedHandler ==
    ASSUME TypeInv, FdsOwned, NEW r \in RxThreads, HandlerStep(r)
    PROVE  FdsOwned'
<1> USE ThreadsAssumption, BoundsAssumption, NoneAssumption
    DEF tables, pass, Threads
<1>1. ASSUME NEW name \in {"pfwd", "auth", "other"}, ServiceRequest(r, name) PROVE FdsOwned'
  BY <1>1, OwnedKept
  DEF ServiceRequest, SameRequests, SameChannels
<1>2. CASE StatelessRequest(r)
  BY <1>2, OwnedKept
  DEF StatelessRequest, SameRequests, SameChannels
<1>3. CASE MalformedRequest(r)
  BY <1>3, OwnedKept
  DEF MalformedRequest, SameRequests, SameChannels
<1>4. ASSUME NEW q \in Ports, TcpForwardListenFails(r, q) PROVE FdsOwned'
  BY <1>4, OwnedKept
  DEF TcpForwardListenFails, SameRequests, SameChannels
<1>5. ASSUME NEW q \in Ports, NEW a \in Addrs, TcpForwardRefused(r, q, a) PROVE FdsOwned'
  BY <1>5, OwnedKept
  DEF TcpForwardRefused, SameRequests, SameChannels
<1>6. ASSUME NEW q \in Ports, NEW a \in Addrs, TcpForwardListen(r, q, a) PROVE FdsOwned'
  <2>1. PICK p \in FreeRequests, s \in Fds :
           /\ IF RequestsAt(q) = {} THEN s \in FreeFds
                                    ELSE \E x \in RequestsAt(q) : s = requests[x].sock
           /\ requests' = [requests EXCEPT ![p] = NewRequest(q, a, s)]
           /\ openFds' = openFds \cup {s}
    BY <1>6 DEF TcpForwardListen
  <2>2. channels' = channels BY <1>6 DEF TcpForwardListen
  <2> QED BY <2>1, <2>2, OwnedRequested
<1>7. ASSUME NEW q \in Ports, NEW a \in Addrs, TcpForwardCancel(r, q, a) PROVE FdsOwned'
  <2>1. CASE UNCHANGED <<requests, openFds, reaped>>
    BY <1>7, <2>1, OwnedKept DEF TcpForwardCancel, SameRequests, SameChannels
  <2>2. ASSUME NEW p \in Live, DeleteRequest(p) PROVE FdsOwned'
    BY <1>7, <2>2, OwnedDeleted DEF TcpForwardCancel
  <2>3. ASSUME NEW p \in Live, requests' = [requests EXCEPT ![p].status = "NOT_ACTIVE"],
               UNCHANGED <<openFds, reaped>>
        PROVE  FdsOwned'
    <3>1. SameRequests
      BY <2>3 DEF SameRequests, Live, Request, RequestStatus, TypeInv, TablesOK
    <3> QED BY <1>7, <2>3, <3>1, OwnedKept DEF TcpForwardCancel, SameChannels
  <2> QED BY <1>7, <2>1, <2>2, <2>3 DEF TcpForwardCancel, RequestsAt
<1>8. ASSUME NEW soap \in BOOLEAN, NEW w \in Grants, ChannelOpen(r, soap, w) PROVE FdsOwned'
  <2>1. PICK f \in FreeFds :
           /\ openFds' = openFds \cup {f}
           /\ channels' = [channels EXCEPT ![f] =
                 [status |-> "OPEN", tx |-> AddBytesTxWindow(0, w), request |-> None,
                  soap |-> soap, credit |-> w]]
    BY <1>8 DEF ChannelOpen
  <2>2. w \in Nat BY <1>8
  <2>3. AddBytesTxWindow(0, w) \in 0 .. MaxWindow BY <2>2 DEF AddBytesTxWindow
  <2>4. [status |-> "OPEN", tx |-> AddBytesTxWindow(0, w), request |-> None,
         soap |-> soap, credit |-> w] \in Channel
    BY <1>8, <2>2, <2>3 DEF Channel, ChannelStatus
  <2>5. SameRequests BY <1>8 DEF ChannelOpen, SameRequests
  <2> QED BY <2>1, <2>4, <2>5, OwnedOpened
<1>9. CASE ChannelOpenRefused(r)
  BY <1>9, OwnedKept
  DEF ChannelOpenRefused, SameRequests, SameChannels
<1>10. ASSUME NEW f \in Fds, NEW w \in Grants, ChannelOpenConfirmation(r, f, w) PROVE FdsOwned'
  <2>1. IF f \in ChannelFds THEN Granted(f, w, "OPEN") ELSE UNCHANGED channels
    BY <1>10 DEF ChannelOpenConfirmation
  <2>2. f \in ChannelFds => "OPEN" \in ChannelStatus
    BY DEF ChannelFds, Channel, ChannelStatus, TypeInv, TablesOK
  <2>3. SameChannels BY <1>10, <2>1, <2>2, GrantTyped DEF SameChannels
  <2> QED BY <1>10, <2>3, OwnedKept DEF ChannelOpenConfirmation, SameRequests
<1>11. ASSUME NEW f \in Fds, NEW w \in Grants, ChannelWindowAdjust(r, f, w) PROVE FdsOwned'
  <2>1. IF f \in ChannelFds THEN Granted(f, w, channels[f].status) ELSE UNCHANGED channels
    BY <1>11 DEF ChannelWindowAdjust
  <2>2. f \in ChannelFds => channels[f].status \in ChannelStatus
    BY DEF ChannelFds, Channel, ChannelStatus, TypeInv, TablesOK
  <2>3. SameChannels BY <1>11, <2>1, <2>2, GrantTyped DEF SameChannels
  <2> QED BY <1>11, <2>3, OwnedKept DEF ChannelWindowAdjust, SameRequests
<1>12. ASSUME NEW f \in Fds, NEW requestClose \in BOOLEAN, ChannelData(r, f, requestClose) PROVE FdsOwned'
  BY <1>12, OwnedKept
  DEF ChannelData, ChannelFds, Channel, ChannelStatus, TypeInv, TablesOK, SameRequests, SameChannels
<1>13. ASSUME NEW f \in Fds, ChannelClose(r, f) PROVE FdsOwned'
  <2>1. CASE f \notin ChannelFds
    BY <1>13, <2>1, OwnedKept DEF ChannelClose, SameRequests, SameChannels
  <2>2. CASE f \in ChannelFds
    <3>1. channels' = [channels EXCEPT ![f] = None] /\ openFds' = openFds \ {f}
      BY <1>13, <2>2 DEF ChannelClose, CloseFds
    <3>2. SameRequests
      BY <1>13, <2>2 DEF ChannelClose, DecreaseChannelCount, Decreased, SameRequests, Live,
                     Request, TypeInv, TablesOK
    <3> QED BY <2>2, <3>1, <3>2, OwnedClosed
  <2> QED BY <2>1, <2>2
<1>14. CASE CloseRequest(r)
  <2>1. CASE UNCHANGED <<requests, openFds, reaped>>
    BY <1>14, <2>1, OwnedKept DEF CloseRequest, SameRequests, SameChannels
  <2>2. CASE retained[r] \in Live /\ DeleteRequest(retained[r])
    BY <1>14, <2>2, OwnedDeleted DEF CloseRequest
  <2> QED BY <1>14, <2>1, <2>2 DEF CloseRequest, ClosePortForwardRequest
<1>15. ASSUME NEW shared \in BOOLEAN, RxUpdateAccess(r, shared) PROVE FdsOwned'
  BY <1>15, OwnedAccess
  DEF RxUpdateAccess
<1> QED BY <1>1, <1>2, <1>3, <1>4, <1>5, <1>6, <1>7, <1>8, <1>9, <1>10, <1>11, <1>12,
           <1>13, <1>14, <1>15 DEF HandlerStep

(* Init touches no descriptor.                                             *)
LEMMA OwnedInitStep ==
    ASSUME TypeInv, FdsOwned, InitStep
    PROVE  FdsOwned'
<1> USE ThreadsAssumption, BoundsAssumption, NoneAssumption
    DEF tables, pass, Threads
<1>1. CASE BeginInit BY <1>1, OwnedKept DEF BeginInit, SameRequests, SameChannels
<1>2. CASE InitConnect BY <1>2, OwnedKept DEF InitConnect, SameRequests, SameChannels
<1>3. CASE InitVersion BY <1>3, OwnedKept DEF InitVersion, SameRequests, SameChannels
<1>4. CASE InitDone BY <1>4, OwnedKept DEF InitDone, SameRequests, SameChannels
<1>5. ASSUME NEW ok \in BOOLEAN, InitWait(ok) PROVE FdsOwned'
  BY <1>5, OwnedKept
  DEF InitWait, SameRequests, SameChannels
<1>6. ASSUME NEW ok \in BOOLEAN, InitBuffer(ok) PROVE FdsOwned'
  BY <1>6, OwnedKept
  DEF InitBuffer, SameRequests, SameChannels
<1>7. ASSUME NEW ok \in BOOLEAN, InitUpdateAccess(ok) PROVE FdsOwned'
  BY <1>7, OwnedAccess
  DEF InitUpdateAccess
<1>8. CASE InitThreadLate BY <1>8, OwnedKept DEF InitThreadLate, SameRequests, SameChannels
<1>9. CASE InitAdapterFails BY <1>9, OwnedKept DEF InitAdapterFails, SameRequests, SameChannels
<1> QED BY <1>1, <1>2, <1>3, <1>4, <1>5, <1>6, <1>7, <1>8, <1>9 DEF InitStep

(* Select gives each accepted connection a channel.                        *)
LEMMA OwnedSelect ==
    ASSUME TypeInv, FdsOwned, SelectStep
    PROVE  FdsOwned'
<1> USE ThreadsAssumption, BoundsAssumption, NoneAssumption
    DEF tables, pass, Threads
<1>1. CASE BeginSelect BY <1>1, OwnedKept DEF BeginSelect, SameRequests, SameChannels
<1>2. CASE SelectPorts BY <1>2, OwnedKept DEF SelectPorts, SameRequests, SameChannels
<1>3. CASE SelectChannels BY <1>3, OwnedKept DEF SelectChannels, SameRequests, SameChannels
<1>4. CASE SelectCall BY <1>4, OwnedKept DEF SelectCall, SameRequests, SameChannels
<1>5. CASE SelectDone BY <1>5, OwnedKept DEF SelectDone, PassOver, SameRequests, SameChannels
<1>6. ASSUME NEW R \in SUBSET rset, SelectReturns(R) PROVE FdsOwned'
  BY <1>6, OwnedKept
  DEF SelectReturns, SameRequests, SameChannels
<1>7. ASSUME NEW s \in rset, AcceptRefused(s) PROVE FdsOwned'
  BY <1>7, OwnedKept
  DEF AcceptRefused, SameRequests, SameChannels
<1>8. ASSUME NEW s \in rset, AcceptBlocks(s) PROVE FdsOwned'
  BY <1>8, OwnedKept
  DEF AcceptBlocks, SameRequests, SameChannels
<1>9. ASSUME NEW s \in rset, NEW p \in Requests, NEW sent \in BOOLEAN, Accept(s, p, sent) PROVE FdsOwned'
  <2>1. p \in Live BY <1>9 DEF Accept, Acceptors
  <2>2. SameRequests
    <3>1. CASE ~sent
      BY <1>9, <2>1, <3>1, CountedFields, NoneAssumption DEF Accept, SameRequests, Live
    <3>2. CASE sent
      BY <1>9, <2>1, <3>2 DEF Accept, SameRequests, Live, Request, TypeInv, TablesOK
    <3> QED BY <3>1, <3>2
  <2>3. CASE ~sent
    BY <1>9, <2>2, <2>3, OwnedKept DEF Accept, SameChannels
  <2>4. CASE sent
    <3>1. PICK f \in FreeFds :
             /\ openFds' = openFds \cup {f}
             /\ channels' = [channels EXCEPT ![f] =
                   [status |-> "NOT_OPENED", tx |-> 0, request |-> p,
                    soap |-> FALSE, credit |-> 0]]
      BY <1>9, <2>4 DEF Accept
    <3>2. FALSE \in BOOLEAN BY Zenon
    <3>3. [status |-> "NOT_OPENED", tx |-> 0, request |-> p, soap |-> FALSE, credit |-> 0]
             \in Channel
      BY <3>2 DEF Channel, ChannelStatus
    <3> QED BY <2>2, <3>1, <3>3, OwnedOpened
  <2> QED BY <2>3, <2>4
<1>10. CASE AcceptResumes BY <1>10, OwnedKept DEF AcceptResumes, SameRequests, SameChannels
<1>11. CASE AcceptDone BY <1>11, OwnedKept DEF AcceptDone, SameRequests, SameChannels
<1>12. ASSUME NEW f \in rset, RxCopy(f) PROVE FdsOwned'
  BY <1>12, OwnedKept
  DEF RxCopy, SameRequests, SameChannels
<1>13. ASSUME NEW n \in 0 .. BufSize, RxReceive(n) PROVE FdsOwned'
  BY <1>13, OwnedKept
  DEF RxReceive, Channel, Working, TypeInv, TablesOK, PassOK, SameRequests, SameChannels
<1>14. CASE RxApply
  BY <1>14, OwnedKept
  DEF RxApply, Channel, ChannelStatus, RemoveBytesTxWindow, Working, TypeInv, TablesOK, PassOK, SameRequests, SameChannels
<1>15. ASSUME NEW ok \in BOOLEAN, CreateSockets(ok) PROVE FdsOwned'
  BY <1>15, OwnedKept
  DEF CreateSockets, SameRequests, SameChannels
<1> QED BY <1>1, <1>2, <1>3, <1>4, <1>5, <1>6, <1>7, <1>8, <1>9, <1>10, <1>11, <1>12,
           <1>13, <1>14, <1>15 DEF SelectStep

(* Every step keeps the owners.                                            *)
LEMMA OwnedNext ==
    ASSUME TypeInv, FdsOwned, [Next]_vars
    PROVE  FdsOwned'
<1> USE ThreadsAssumption, BoundsAssumption, NoneAssumption
    DEF tables, pass, Threads
<1>1. ASSUME NEW t \in SvcThreads, SvcDeinit(t) PROVE FdsOwned'
  BY <1>1, OwnedKept
  DEF SvcDeinit, SameRequests, SameChannels
<1>2. ASSUME NEW t \in Threads \ {"main"}, SignalResumes(t) PROVE FdsOwned'
  BY <1>2, OwnedKept
  DEF SignalResumes, SameRequests, SameChannels
<1>3. ASSUME NEW shared \in BOOLEAN, AdapterUpdateAccess(shared) PROVE FdsOwned'
  BY <1>3, OwnedAccess
  DEF AdapterUpdateAccess
<1>4. CASE InitStep BY <1>4, OwnedInitStep
<1>5. CASE SelectStep BY <1>5, OwnedSelect
<1>6. ASSUME NEW r \in RxThreads, ReceiveStep(r) \/ HandlerStep(r) PROVE FdsOwned'
  BY <1>6, OwnedReceive, OwnedHandler
<1>7. ASSUME NEW t \in Deiniters, DeinitStep(t) PROVE FdsOwned' BY <1>7, OwnedDeinit
<1>8. CASE UNCHANGED vars BY <1>8, OwnedKept DEF vars, SameRequests, SameChannels
<1> QED BY <1>1, <1>2, <1>3, <1>4, <1>5, <1>6, <1>7, <1>8 DEF Next

(* No socket is leaked, closed twice or closed under another owner, for    *)
(* any number of threads in Deinit, in a handler and in Select at once.    *)
THEOREM Ownership == Spec => []FdsOwned
<1>1. Init => FdsOwned
  BY DEF Init, FdsOwned, ChannelFds, ListenFds, Live
<1>2. TypeInv /\ FdsOwned /\ [Next]_vars => FdsOwned' BY OwnedNext
<1> QED BY <1>1, <1>2, TypeInvCorrect, PTL DEF Spec

-----------------------------------------------------------------------------
(* The window *)

(* What main has sent for a channel and not yet taken from its window.     *)
Drawn(f) ==
    IF pc["main"] = "apply" /\ f = current /\ current \notin reaped THEN received ELSE 0

(* A channel's window is covered by the firmware's grants less what was    *)
(* sent, and the copy that main reads by does not exceed it.               *)
WindowInv ==
    /\ \A f \in ChannelFds : /\ channels[f].credit >= 0
                             /\ channels[f].tx <= channels[f].credit + Drawn(f)
    /\ pc["main"] = "recv" /\ current \notin reaped => copyTx <= channels[current].tx

Reading == pc["main"] \in {"recv", "apply"}

(* main stays where it is, or neither was nor is reading.                  *)
ReadingKept ==
    \/ pc'["main"] = pc["main"] /\ UNCHANGED <<current, copyTx, received>>
    \/ ~Reading /\ ~Reading'

(* A step that touches neither the channels nor main's reading.            *)
LEMMA WindowKept ==
    ASSUME WindowInv, UNCHANGED channels, ReadingKept, Reading => UNCHANGED reaped
    PROVE  WindowInv'
BY DEF WindowInv, ReadingKept, Reading, Drawn, ChannelFds

(* A window that grows, grows by no more than the firmware's grant; a new  *)
(* channel begins with one.                                                *)
WindowGrows(f) ==
    \/ /\ channels[f] # None
       /\ channels[f].tx <= channels'[f].tx
       /\ channels'[f].tx - channels[f].tx <= channels'[f].credit - channels[f].credit
    \/ /\ channels[f] = None
       /\ 0 <= channels'[f].credit
       /\ channels'[f].tx <= channels'[f].credit

(* A grant widens the window by at most what it grants.                    *)
LEMMA GrantGrows ==
    ASSUME TypeInv, NEW f \in Fds, NEW w \in Grants, NEW status,
           f \in ChannelFds => status \in ChannelStatus,
           IF f \in ChannelFds THEN Granted(f, w, status) ELSE UNCHANGED channels
    PROVE  \A g \in ChannelFds' : WindowGrows(g)
<1> SUFFICES ASSUME NEW g \in ChannelFds' PROVE WindowGrows(g) OBVIOUS
<1>1. g \in Fds /\ channels[g] \in Channel /\ channels[g] # None
  BY GrantTyped, NoneAssumption DEF ChannelFds, TypeInv, TablesOK
<1>2. channels[g].tx \in 0 .. MaxWindow /\ channels[g].credit \in Int BY <1>1 DEF Channel
<1>3. CASE g = f
  <2>1. /\ channels'[f].tx = AddBytesTxWindow(channels[f].tx, w)
        /\ channels'[f].credit = channels[f].credit + w
    BY <1>1, <1>3, GrantedFields DEF ChannelFds
  <2>2. w \in Nat BY BoundsAssumption
  <2> QED BY <1>1, <1>2, <1>3, <2>1, <2>2, BoundsAssumption DEF AddBytesTxWindow, WindowGrows
<1>4. CASE g # f
  <2>1. channels'[g] = channels[g] BY <1>1, <1>4, GrantedFields
  <2> QED BY <1>1, <1>2, <2>1 DEF WindowGrows
<1> QED BY <1>3, <1>4

(* Other threads may let windows grow, open channels and close them: the   *)
(* descriptor main reads from counts as reaped from then on.               *)
LEMMA WindowChanged ==
    ASSUME TypeInv, TypeInv', WindowInv, ReadingKept, reaped \subseteq reaped',
           Reading /\ current \in reaped' => current \in reaped \/ channels'[current] = None,
           \A f \in ChannelFds' : WindowGrows(f)
    PROVE  WindowInv'
<1>1. ASSUME NEW f \in ChannelFds'
      PROVE  channels'[f].credit >= 0 /\ channels'[f].tx <= channels'[f].credit + Drawn(f)'
  <2>1. /\ f \in Fds /\ channels'[f] # None /\ channels'[f].tx \in Nat
        /\ channels'[f].credit \in Int /\ received \in Nat /\ received' \in Nat
    BY DEF ChannelFds, Channel, TypeInv, TablesOK, PassOK
  <2>2. CASE channels[f] # None
    <3>1. /\ channels[f].tx \in Nat /\ channels[f].credit \in Int
          /\ channels[f].credit >= 0 /\ channels[f].tx <= channels[f].credit + Drawn(f)
      BY <2>1, <2>2 DEF ChannelFds, Channel, TypeInv, TablesOK, WindowInv
    <3>2. Drawn(f)' = Drawn(f)
      BY <2>1, <2>2 DEF Drawn, ReadingKept, Reading
    <3>3. Drawn(f) \in Nat BY <2>1 DEF Drawn
    <3> QED BY <1>1, <2>1, <2>2, <3>1, <3>2, <3>3 DEF WindowGrows
  <2>3. CASE channels[f] = None
    <3>1. Drawn(f)' \in Nat BY <2>1 DEF Drawn
    <3> QED BY <1>1, <2>1, <2>3, <3>1 DEF WindowGrows
  <2> QED BY <2>2, <2>3
<1>2. ASSUME pc'["main"] = "recv", current' \notin reaped'
      PROVE  copyTx' <= channels'[current'].tx
  <2>1. /\ pc["main"] = "recv" /\ UNCHANGED <<current, copyTx>> /\ current \notin reaped
    BY <1>2 DEF ReadingKept, Reading
  <2>2. /\ current \in Fds /\ channels[current] # None /\ channels'[current] # None
    BY <1>2, <2>1 DEF TypeInv, Working
  <2>3. copyTx <= channels[current].tx /\ channels[current].tx <= channels'[current].tx
    BY <2>1, <2>2 DEF WindowInv, WindowGrows, ChannelFds
  <2>4. /\ copyTx \in Nat /\ channels[current].tx \in Nat /\ channels'[current].tx \in Nat
    BY <2>2 DEF Channel, TypeInv, TablesOK, PassOK
  <2> QED BY <2>1, <2>3, <2>4
<1> QED BY <1>1, <1>2 DEF WindowInv

(* Deinit drops the channels it closes.                                    *)
LEMMA WindowDeinit ==
    ASSUME TypeInv, TypeInv', FdsOwned, WindowInv, NEW t \in Deiniters, DeinitStep(t)
    PROVE  WindowInv'
<1> USE ThreadsAssumption, BoundsAssumption, NoneAssumption
    DEF tables, pass, Threads, ReadingKept, Reading, Goto, Deiniters
<1>1. CASE DeinitLme(t) BY <1>1, WindowKept DEF DeinitLme, TypeInv, SessionOK
<1>2. CASE DeinitPipe(t) BY <1>2, WindowKept DEF DeinitPipe, TypeInv, SessionOK
<1>3. CASE DeinitChannels(t)
  <2>1. ChannelFds' = {} BY <1>3 DEF DeinitChannels, ChannelFds
  <2>2. current' \in reaped' \/ pc'["main"] # "recv"
    BY <1>3 DEF DeinitChannels, CloseFds, ChannelFds, TypeInv, SessionOK, Working
  <2> QED BY <2>1, <2>2 DEF WindowInv
<1>4. CASE DeinitPorts(t)
  <2>1. Reading /\ current \notin reaped => current \notin ListenFds
    BY DEF TypeInv, Working, FdsOwned, ChannelFds
  <2>2. Reading => (current \in reaped' <=> current \in reaped)
    BY <1>4, <2>1 DEF DeinitPorts, CloseFds
  <2>3. ReadingKept /\ UNCHANGED channels /\ reaped \subseteq reaped'
    BY <1>4 DEF DeinitPorts, CloseFds, TypeInv, SessionOK
  <2> QED BY <2>2, <2>3 DEF WindowInv, Drawn, ChannelFds
<1>5. CASE DeinitReset(t) BY <1>5, WindowKept DEF DeinitReset, AfterDeinit, TypeInv, SessionOK
<1> QED BY <1>1, <1>2, <1>3, <1>4, <1>5 DEF DeinitStep

(* Receiving touches no window.                                            *)
LEMMA WindowReceive ==
    ASSUME TypeInv, TypeInv', FdsOwned, WindowInv, NEW r \in RxThreads, ReceiveStep(r)
    PROVE  WindowInv'
<1> USE ThreadsAssumption, BoundsAssumption, NoneAssumption
    DEF tables, pass, Threads, ReadingKept, Reading, Goto
<1>1. ASSUME NEW kind \in {"service", "forward"}, Receive(r, kind) PROVE WindowInv'
  BY <1>1, WindowKept
  DEF Receive, TypeInv, SessionOK
<1>2. ASSUME NEW supported \in BOOLEAN, ReceiveProtocolVersion(r, supported) PROVE WindowInv'
  BY <1>2, WindowKept
  DEF ReceiveProtocolVersion, TypeInv, SessionOK
<1>3. CASE ReceiveDisconnect(r) BY <1>3, WindowKept DEF ReceiveDisconnect, TypeInv, SessionOK
<1>4. CASE ReceiveError(r)
  BY <1>4, WindowKept, SignalPlaced
  DEF ReceiveError, TypeInv, SessionOK
<1>5. CASE ReceiveCancelled(r) BY <1>5, WindowKept DEF ReceiveCancelled, TypeInv, SessionOK
<1>6. CASE ReceiveMessage(r) BY <1>6, WindowKept DEF ReceiveMessage, TypeInv, SessionOK
<1> QED BY <1>1, <1>2, <1>3, <1>4, <1>5, <1>6 DEF ReceiveStep

(* Handlers widen windows, open and close channels.                        *)
LEMMA WindowHandler ==
    ASSUME TypeInv, TypeInv', FdsOwned, WindowInv, NEW r \in RxThreads, HandlerStep(r)
    PROVE  WindowInv'
<1> USE ThreadsAssumption, BoundsAssumption, NoneAssumption
    DEF tables, pass, Threads, ReadingKept, Reading, Goto
<1>1. ASSUME NEW name \in {"pfwd", "auth", "other"}, ServiceRequest(r, name) PROVE WindowInv'
  BY <1>1, WindowKept
  DEF ServiceRequest, TypeInv, SessionOK
<1>2. CASE StatelessRequest(r) BY <1>2, WindowKept DEF StatelessRequest, TypeInv, SessionOK
<1>3. CASE MalformedRequest(r) BY <1>3, WindowKept DEF MalformedRequest, TypeInv, SessionOK
<1>4. ASSUME NEW q \in Ports, TcpForwardListenFails(r, q) PROVE WindowInv'
  BY <1>4, WindowKept
  DEF TcpForwardListenFails, TypeInv, SessionOK
<1>5. ASSUME NEW q \in Ports, NEW a \in Addrs, TcpForwardRefused(r, q, a) PROVE WindowInv'
  BY <1>5, WindowKept
  DEF TcpForwardRefused, TypeInv, SessionOK
<1>6. ASSUME NEW q \in Ports, NEW a \in Addrs, TcpForwardListen(r, q, a) PROVE WindowInv'
  BY <1>6, WindowKept, SignalPlaced
  DEF TcpForwardListen, TypeInv, SessionOK
<1>7. ASSUME NEW q \in Ports, NEW a \in Addrs, TcpForwardCancel(r, q, a) PROVE WindowInv'
  <2>1. Reading /\ current \notin reaped => current \notin ListenFds
    BY DEF TypeInv, Working, FdsOwned, ChannelFds
  <2>2. Reading => (current \in reaped' <=> current \in reaped)
    BY <1>7, <2>1 DEF TcpForwardCancel, DeleteRequest, CloseFds, RequestsAt, ListenFds
  <2>3. ReadingKept /\ UNCHANGED channels BY <1>7 DEF TcpForwardCancel, TypeInv, SessionOK
  <2> QED BY <2>2, <2>3 DEF WindowInv, Drawn, ChannelFds
<1>8. ASSUME NEW soap \in BOOLEAN, NEW w \in Grants, ChannelOpen(r, soap, w) PROVE WindowInv'
  <2>1. ReadingKept /\ UNCHANGED <<reaped, current>>
    BY <1>8, SignalPlaced DEF ChannelOpen, TypeInv, SessionOK
  <2>2. PICK f \in FreeFds : channels' = [channels EXCEPT ![f] =
             [status |-> "OPEN", tx |-> AddBytesTxWindow(0, w), request |-> None,
              soap |-> soap, credit |-> w]]
    BY <1>8 DEF ChannelOpen
  <2>3. f \in Fds /\ channels[f] = None BY DEF FreeFds, FdsOwned, ChannelFds
  <2>4. w \in Nat BY <1>8
  <2>5. 0 <= w /\ AddBytesTxWindow(0, w) <= w BY <2>4 DEF AddBytesTxWindow
  <2>6. WindowGrows(f) BY <2>2, <2>3, <2>5 DEF WindowGrows, TypeInv, TablesOK
  <2>7. ASSUME NEW g \in ChannelFds' \ {f} PROVE WindowGrows(g)
    <3>1. g \in Fds /\ channels'[g] = channels[g] /\ channels[g] # None
      BY <2>2 DEF ChannelFds, TypeInv, TablesOK
    <3>2. channels[g] \in Channel BY <3>1 DEF TypeInv, TablesOK
    <3>3. channels[g].tx \in Int /\ channels[g].credit \in Int BY <3>2 DEF Channel
    <3> QED BY <3>1, <3>3 DEF WindowGrows
  <2> QED BY <2>1, <2>6, <2>7, WindowChanged
<1>9. CASE ChannelOpenRefused(r) BY <1>9, WindowKept DEF ChannelOpenRefused, TypeInv, SessionOK
<1>10. ASSUME NEW f \in Fds, NEW w \in Grants, ChannelOpenConfirmation(r, f, w) PROVE WindowInv'
  <2>1. ReadingKept /\ UNCHANGED <<reaped, current>>
    BY <1>10, SignalPlaced DEF ChannelOpenConfirmation, TypeInv, SessionOK
  <2>2. IF f \in ChannelFds THEN Granted(f, w, "OPEN") ELSE UNCHANGED channels
    BY <1>10 DEF ChannelOpenConfirmation
  <2>3. f \in ChannelFds => "OPEN" \in ChannelStatus
    BY DEF ChannelFds, Channel, ChannelStatus, TypeInv, TablesOK
  <2>4. \A g \in ChannelFds' : WindowGrows(g) BY <1>10, <2>2, <2>3, GrantGrows
  <2> QED BY <2>1, <2>4, WindowChanged
<1>11. ASSUME NEW f \in Fds, NEW w \in Grants, ChannelWindowAdjust(r, f, w) PROVE WindowInv'
  <2>1. ReadingKept /\ UNCHANGED <<reaped, current>>
    BY <1>11, SignalPlaced DEF ChannelWindowAdjust, TypeInv, SessionOK
  <2>2. IF f \in ChannelFds THEN Granted(f, w, channels[f].status) ELSE UNCHANGED channels
    BY <1>11 DEF ChannelWindowAdjust
  <2>3. f \in ChannelFds => channels[f].status \in ChannelStatus
    BY DEF ChannelFds, Channel, ChannelStatus, TypeInv, TablesOK
  <2>4. \A g \in ChannelFds' : WindowGrows(g) BY <1>11, <2>2, <2>3, GrantGrows
  <2> QED BY <2>1, <2>4, WindowChanged
<1>12. ASSUME NEW f \in Fds, NEW requestClose \in BOOLEAN, ChannelData(r, f, requestClose) PROVE WindowInv'
  <2>1. ReadingKept /\ UNCHANGED <<reaped, current>> BY <1>12 DEF ChannelData, TypeInv, SessionOK
  <2>2. \A g \in ChannelFds' : WindowGrows(g)
    BY <1>12 DEF ChannelData, WindowGrows, ChannelFds, Channel, TypeInv, TablesOK
  <2> QED BY <2>1, <2>2, WindowChanged
<1>13. ASSUME NEW f \in Fds, ChannelClose(r, f) PROVE WindowInv'
  <2>1. ReadingKept BY <1>13 DEF ChannelClose, DecreaseChannelCount, TypeInv, SessionOK
  <2>2. CASE f \notin ChannelFds
    BY <1>13, <2>1, <2>2, WindowKept DEF ChannelClose
  <2>3. CASE f \in ChannelFds
    <3>1. channels' = [channels EXCEPT ![f] = None] BY <1>13, <2>3 DEF ChannelClose
    <3>2. reaped' = reaped \cup ({f} \cap (rset \cup {current})) BY <1>13, <2>3 DEF ChannelClose, CloseFds
    <3>3. \A g \in ChannelFds' : WindowGrows(g)
      BY <3>1 DEF WindowGrows, ChannelFds, Channel, TypeInv, TablesOK
    <3>4. Reading /\ current \in reaped' => current \in reaped \/ channels'[current] = None
      BY <3>1, <3>2 DEF TypeInv, TablesOK
    <3> QED BY <2>1, <3>2, <3>3, <3>4, WindowChanged
  <2> QED BY <2>2, <2>3
<1>14. CASE CloseRequest(r)
  <2>1. Reading /\ current \notin reaped => current \notin ListenFds
    BY DEF TypeInv, Working, FdsOwned, ChannelFds
  <2>2. Reading => (current \in reaped' <=> current \in reaped)
    BY <1>14, <2>1 DEF CloseRequest, ClosePortForwardRequest, DeleteRequest, CloseFds, ListenFds
  <2>3. ReadingKept /\ UNCHANGED channels BY <1>14 DEF CloseRequest, TypeInv, SessionOK
  <2> QED BY <2>2, <2>3 DEF WindowInv, Drawn, ChannelFds
<1>15. ASSUME NEW shared \in BOOLEAN, RxUpdateAccess(r, shared) PROVE WindowInv'
  BY <1>15, WindowKept, SignalPlaced
  DEF RxUpdateAccess, UpdateEnterpriseAccess, TypeInv, SessionOK
<1> QED BY <1>1, <1>2, <1>3, <1>4, <1>5, <1>6, <1>7, <1>8, <1>9, <1>10, <1>11, <1>12,
           <1>13, <1>14, <1>15 DEF HandlerStep

(* Init touches no window.                                                 *)
LEMMA WindowInitStep ==
    ASSUME TypeInv, TypeInv', FdsOwned, WindowInv, InitStep
    PROVE  WindowInv'
<1> USE ThreadsAssumption, BoundsAssumption, NoneAssumption
    DEF tables, pass, Threads, ReadingKept, Reading, Goto
<1>1. CASE BeginInit BY <1>1, WindowKept DEF BeginInit, TypeInv, SessionOK
<1>2. CASE InitConnect BY <1>2, WindowKept DEF InitConnect, LeaveInit, TypeInv, SessionOK
<1>3. CASE InitVersion BY <1>3, WindowKept DEF InitVersion, TypeInv, SessionOK
<1>4. CASE InitDone BY <1>4, WindowKept DEF InitDone, LeaveInit, TypeInv, SessionOK
<1>5. ASSUME NEW ok \in BOOLEAN, InitWait(ok) PROVE WindowInv'
  BY <1>5, WindowKept
  DEF InitWait, LeaveInit, TypeInv, SessionOK
<1>6. ASSUME NEW ok \in BOOLEAN, InitBuffer(ok) PROVE WindowInv'
  BY <1>6, WindowKept
  DEF InitBuffer, AdapterStarted, TypeInv, SessionOK
<1>7. ASSUME NEW ok \in BOOLEAN, InitUpdateAccess(ok) PROVE WindowInv'
  BY <1>7, WindowKept, SignalPlaced
  DEF InitUpdateAccess, UpdateEnterpriseAccess, TypeInv, SessionOK
<1>8. CASE InitThreadLate BY <1>8, WindowKept DEF InitThreadLate, TypeInv, SessionOK
<1>9. CASE InitAdapterFails
  BY <1>9, WindowKept
  DEF InitAdapterFails, LeaveInit, TypeInv, SessionOK
<1> QED BY <1>1, <1>2, <1>3, <1>4, <1>5, <1>6, <1>7, <1>8, <1>9 DEF InitStep

(* main reads at most its copy of the window and then spends what it read. *)
LEMMA WindowSelect ==
    ASSUME TypeInv, TypeInv', FdsOwned, WindowInv, SelectStep
    PROVE  WindowInv'
<1> USE ThreadsAssumption, BoundsAssumption, NoneAssumption
    DEF tables, pass, Threads, ReadingKept, Reading, Goto
<1>1. CASE BeginSelect BY <1>1, WindowKept DEF BeginSelect, TypeInv, SessionOK
<1>2. CASE SelectPorts BY <1>2, WindowKept DEF SelectPorts, TypeInv, SessionOK
<1>3. CASE SelectChannels BY <1>3, WindowKept DEF SelectChannels, TypeInv, SessionOK
<1>4. CASE SelectCall BY <1>4, WindowKept DEF SelectCall, PassOver, TypeInv, SessionOK
<1>5. CASE SelectDone BY <1>5, WindowKept DEF SelectDone, PassOver, TypeInv, SessionOK
<1>6. ASSUME NEW R \in SUBSET rset, SelectReturns(R) PROVE WindowInv'
  BY <1>6, WindowKept
  DEF SelectReturns, TypeInv, SessionOK
<1>7. ASSUME NEW s \in rset, AcceptRefused(s) PROVE WindowInv'
  BY <1>7, WindowKept
  DEF AcceptRefused, TypeInv, SessionOK
<1>8. ASSUME NEW s \in rset, AcceptBlocks(s) PROVE WindowInv'
  BY <1>8, WindowKept
  DEF AcceptBlocks, TypeInv, SessionOK
<1>9. ASSUME NEW s \in rset, NEW p \in Requests, NEW sent \in BOOLEAN, Accept(s, p, sent) PROVE WindowInv'
  <2>1. ~Reading /\ ~Reading' BY <1>9 DEF Accept
  <2>2. CASE ~sent BY <1>9, <2>1, <2>2, WindowKept DEF Accept
  <2>3. CASE sent
    <3>1. PICK f \in FreeFds : channels' = [channels EXCEPT ![f] =
               [status |-> "NOT_OPENED", tx |-> 0, request |-> p, soap |-> FALSE, credit |-> 0]]
      BY <1>9, <2>3 DEF Accept
    <3> QED BY <2>1, <3>1 DEF WindowInv, Drawn, ChannelFds, FreeFds, TypeInv, TablesOK
  <2> QED BY <2>2, <2>3
<1>10. CASE AcceptResumes BY <1>10, WindowKept DEF AcceptResumes, TypeInv, SessionOK
<1>11. CASE AcceptDone BY <1>11, WindowKept DEF AcceptDone, TypeInv, SessionOK
<1>12. ASSUME NEW f \in rset, RxCopy(f) PROVE WindowInv'
  <2>1. UNCHANGED channels /\ pc["main"] = "rxLoop" /\ pc'["main"] # "apply"
    BY <1>12 DEF RxCopy, TypeInv, SessionOK
  <2>2. pc'["main"] = "recv" => current' \in ChannelFds /\ copyTx' = channels[current'].tx
    BY <1>12 DEF RxCopy, TypeInv, SessionOK
  <2>3. \A g \in ChannelFds : channels[g].tx \in Nat
    BY DEF ChannelFds, Channel, TypeInv, TablesOK
  <2>4. \A g \in ChannelFds' : g \in ChannelFds /\ Drawn(g) = 0 /\ Drawn(g)' = 0
    BY <2>1 DEF Drawn, ChannelFds
  <2>5. pc'["main"] = "recv" => copyTx' <= channels'[current'].tx BY <2>1, <2>2, <2>3
  <2> QED BY <2>1, <2>4, <2>5 DEF WindowInv
<1>13. ASSUME NEW n \in 0 .. BufSize, RxReceive(n) PROVE WindowInv'
  <2>1. /\ pc["main"] = "recv" /\ pc'["main"] = "apply" /\ current \in Fds
        /\ UNCHANGED <<current, reaped>> /\ received' = n /\ n \in Nat /\ n <= BytesToRead
    BY <1>13 DEF RxReceive, TypeInv, SessionOK, Working
  <2>2. CASE current \in reaped
    BY <1>13, <2>1, <2>2 DEF RxReceive, WindowInv, Drawn, ChannelFds
  <2>3. CASE current \notin reaped
    <3>1. channels' = [channels EXCEPT ![current].credit = @ - n] BY <1>13, <2>3 DEF RxReceive
    <3>2. channels[current] \in Channel BY <2>1, <2>3 DEF TypeInv, TablesOK, Working
    <3>3. /\ n <= channels[current].tx /\ channels[current].tx <= channels[current].credit
      BY <2>1, <2>3, <3>2 DEF BytesToRead, WindowInv, Drawn, ChannelFds, Channel, TypeInv, PassOK
    <3>4. /\ channels'[current].credit >= 0
          /\ channels'[current].tx <= channels'[current].credit + n
      BY <2>1, <3>1, <3>2, <3>3 DEF Channel, TypeInv, TablesOK
    <3>5. \A g \in ChannelFds' \ {current} : g \in ChannelFds /\ channels'[g] = channels[g]
      BY <3>1 DEF ChannelFds, TypeInv, TablesOK
    <3> QED BY <2>1, <2>3, <3>4, <3>5 DEF WindowInv, Drawn
  <2> QED BY <2>2, <2>3
<1>14. CASE RxApply
  <2>1. /\ pc["main"] = "apply" /\ pc'["main"] = "rxLoop" /\ current \in Fds /\ received \in Nat
    BY <1>14 DEF RxApply, TypeInv, SessionOK, PassOK, Working
  <2>2. ASSUME NEW g \in ChannelFds'
        PROVE  channels'[g].credit >= 0 /\ channels'[g].tx <= channels'[g].credit
    <3>1. g \in ChannelFds /\ channels[g] \in Channel
      BY <1>14 DEF RxApply, ChannelFds, TypeInv, TablesOK
    <3>2. /\ channels[g].tx \in Nat /\ channels[g].credit \in Int /\ channels[g].credit >= 0
          /\ channels[g].tx <= channels[g].credit + Drawn(g)
      BY <3>1 DEF WindowInv, Channel
    <3>3. CASE g # current
      BY <1>14, <2>1, <3>1, <3>2, <3>3 DEF RxApply, Drawn, TypeInv, TablesOK
    <3>4. CASE g = current
      <4>1. /\ channels'[g].credit = channels[g].credit
            /\ channels'[g].tx = IF received > 0 THEN RemoveBytesTxWindow(channels[g].tx, received)
                                                 ELSE channels[g].tx
        BY <1>14, <2>1, <3>1, <3>4 DEF RxApply, ChannelFds, Channel, TypeInv, TablesOK
      <4> QED BY <2>1, <3>2, <4>1 DEF RemoveBytesTxWindow, Drawn
    <3> QED BY <3>3, <3>4
  <2>3. \A g \in ChannelFds' : channels'[g].credit \in Int /\ Drawn(g)' = 0
    BY <2>1 DEF Drawn, ChannelFds, Channel, TypeInv, TablesOK
  <2> QED BY <2>1, <2>2, <2>3 DEF WindowInv
<1>15. ASSUME NEW ok \in BOOLEAN, CreateSockets(ok) PROVE WindowInv'
  BY <1>15, WindowKept
  DEF CreateSockets, TypeInv, SessionOK
<1> QED BY <1>1, <1>2, <1>3, <1>4, <1>5, <1>6, <1>7, <1>8, <1>9, <1>10, <1>11, <1>12,
           <1>13, <1>14, <1>15 DEF SelectStep

(* Every step keeps the firmware's window.                                 *)
LEMMA WindowNext ==
    ASSUME TypeInv, TypeInv', FdsOwned, WindowInv, [Next]_vars
    PROVE  WindowInv'
<1> USE ThreadsAssumption, BoundsAssumption, NoneAssumption
    DEF tables, pass, Threads, ReadingKept, Reading, Goto
<1>1. ASSUME NEW t \in SvcThreads, SvcDeinit(t) PROVE WindowInv'
  BY <1>1, WindowKept
  DEF SvcDeinit, TypeInv, SessionOK
<1>2. ASSUME NEW t \in Threads \ {"main"}, SignalResumes(t) PROVE WindowInv'
  BY <1>2, WindowKept
  DEF SignalResumes, TypeInv, SessionOK
<1>3. ASSUME NEW shared \in BOOLEAN, AdapterUpdateAccess(shared) PROVE WindowInv'
  BY <1>3, WindowKept, SignalPlaced
  DEF AdapterUpdateAccess, UpdateEnterpriseAccess, TypeInv, SessionOK
<1>4. CASE InitStep BY <1>4, WindowInitStep
<1>5. CASE SelectStep BY <1>5, WindowSelect
<1>6. ASSUME NEW r \in RxThreads, ReceiveStep(r) \/ HandlerStep(r) PROVE WindowInv'
  BY <1>6, WindowReceive, WindowHandler
<1>7. ASSUME NEW t \in Deiniters, DeinitStep(t) PROVE WindowInv' BY <1>7, WindowDeinit
<1>8. CASE UNCHANGED vars BY <1>8, WindowKept DEF vars
<1> QED BY <1>1, <1>2, <1>3, <1>4, <1>5, <1>6, <1>7, <1>8 DEF Next

LEMMA WindowCorrect == Spec => []WindowInv
<1>1. Init => WindowInv
  BY NoneAssumption, ThreadsAssumption DEF Init, WindowInv, ChannelFds, Threads
<1>2. TypeInv /\ TypeInv' /\ FdsOwned /\ WindowInv /\ [Next]_vars => WindowInv'
  BY WindowNext
<1> QED BY <1>1, <1>2, TypeInvCorrect, Ownership, PTL DEF Spec

(* The firmware never gets more bytes for a channel than it granted, for   *)
(* any grants, although _rxFromSocket decides by a copy of the window and  *)
(* the descriptor may pass to another channel meanwhile.                   *)
THEOREM WindowRespected == Spec => []WindowNotOverdrawn
<1>1. WindowInv => WindowNotOverdrawn BY DEF WindowInv, WindowNotOverdrawn
<1> QED BY <1>1, WindowCorrect, PTL
=============================================================================
