----------------------- MODULE ProtocolRequestsProofs -----------------------
(***************************************************************************)
(* Proofs about the life of a PortForwardRequest, for the same constants   *)
(* as ProtocolProofs: its channel count covers its channels, a cancelled   *)
(* one goes away with its last channel, and none is freed while a channel  *)
(* or a receive thread points to it.                                       *)
(***************************************************************************)
EXTENDS ProtocolProofs, FiniteSetTheorems

-----------------------------------------------------------------------------
(* Quiet steps *)

(* Every channel stays, with the request it points to.                     *)
SameRefs ==
    \A f \in Fds : /\ channels'[f] = None <=> channels[f] = None
                   /\ f \in ChannelFds => channels'[f].request = channels[f].request

(* Every request stays, with its counts, and active or not as it was.      *)
SameCounts ==
    \A p \in Requests : /\ requests'[p] = None <=> requests[p] = None
                        /\ p \in Live => /\ requests'[p].count = requests[p].count
                                         /\ requests'[p].failed = requests[p].failed
                                         /\ Active(p)' = Active(p)

(* No thread enters or leaves the labels that matter to requests.          *)
Still ==
    \A t \in Threads :
        \/ pc'[t] = pc[t]
        \/ /\ pc[t] \notin {"dPorts", "closeRequest"}
           /\ pc'[t] \notin {"dPorts", "closeRequest"}
           /\ t = "main" /\ pc'[t] \in {"dReset", "iConnect"} => pc[t] = "dReset"

QuietStep == SameRefs /\ SameCounts /\ Still /\ UNCHANGED <<retained, overlap>>

(* A step that leaves the tables alone and moves a thread between two      *)
(* other labels.                                                           *)
LEMMA QuietGoto ==
    ASSUME TypeInv, UNCHANGED <<requests, channels, retained, overlap>>,
           NEW t \in Threads, NEW label, Goto(t, label),
           {pc[t], label} \cap {"dPorts", "closeRequest"} = {},
           t = "main" /\ label \in {"dReset", "iConnect"} => pc[t] = "dReset"
    PROVE  QuietStep
<1>1. SameRefs BY DEF SameRefs
<1>2. SameCounts BY DEF SameCounts, Active
<1>3. Still BY DEF Still, Goto, TypeInv, SessionOK
<1> QED BY <1>1, <1>2, <1>3 DEF QuietStep

LEMMA QuietStay ==
    ASSUME UNCHANGED <<requests, channels, retained, overlap, pc>>
    PROVE  QuietStep
BY DEF QuietStep, SameRefs, SameCounts, Still, Active

(* So does a step that ends with a signal.                                 *)
LEMMA StillSignal ==
    ASSUME TypeInv, NEW lock, NEW t \in Threads, NEW next, NEW blocked,
           SignalUnder(lock, t, next, blocked),
           {pc[t], next, blocked} \cap {"dPorts", "closeRequest", "dReset", "iConnect"} = {}
    PROVE  Still
BY DEF SignalUnder, Still, Goto, TypeInv, SessionOK

(* A grant keeps the request of the channel.                               *)
LEMMA QuietGrant ==
    ASSUME TypeInv, NEW f \in Fds, NEW w \in Grants, NEW status,
           f \in ChannelFds => status \in ChannelStatus,
           IF f \in ChannelFds THEN Granted(f, w, status) ELSE UNCHANGED channels
    PROVE  SameRefs
<1>1. CASE f \in ChannelFds
  <2>1. \A g \in Fds : channels'[g] = None <=> channels[g] = None BY GrantTyped
  <2>2. /\ channels'[f].request = channels[f].request
        /\ \A g \in Fds : g # f => channels'[g] = channels[g]
    BY <1>1, GrantedFields
  <2> QED BY <2>1, <2>2 DEF SameRefs
<1>2. CASE f \notin ChannelFds BY <1>2 DEF SameRefs
<1> QED BY <1>1, <1>2

(* Pending requests begin to listen: they were active before.              *)
LEMMA QuietAccess ==
    ASSUME TypeInv, NEW t \in Threads, NEW from, NEW to, NEW shared \in BOOLEAN,
           UpdateEnterpriseAccess(t, from, to, shared),
           {from, to} \cap {"dPorts", "closeRequest", "dReset", "iConnect"} = {}
    PROVE  QuietStep
<1>1. UNCHANGED <<channels, retained, overlap>> /\ pc[t] = from
  BY DEF UpdateEnterpriseAccess, flags
<1>2. CASE ~shared BY <1>1, <1>2, QuietGoto DEF UpdateEnterpriseAccess
<1>3. CASE shared
  <2>1. Still BY <1>1, <1>3, StillSignal DEF UpdateEnterpriseAccess
  <2>2. ASSUME NEW p \in Live
        PROVE  /\ requests'[p] \in Request
               /\ requests'[p].count = requests[p].count
               /\ requests'[p].failed = requests[p].failed
               /\ requests'[p].status = "NOT_ACTIVE" <=> requests[p].status = "NOT_ACTIVE"
    <3>1. requests[p] \in Request /\ p \in Requests BY DEF Live, TypeInv, TablesOK
    <3> QED BY <1>3, <3>1 DEF UpdateEnterpriseAccess, Request, RequestStatus
  <2>3. \A p \in Requests \ Live : requests'[p] = None
    BY <1>3 DEF UpdateEnterpriseAccess, Live
  <2>4. SameCounts BY <2>2, <2>3, NoneAssumption DEF SameCounts, Live, Active
  <2> QED BY <1>1, <2>1, <2>4 DEF QuietStep, SameRefs
<1> QED BY <1>2, <1>3

(* The steps that are not quiet: a request or a channel comes or goes, or  *)
(* is counted, or a receive thread is spawned.                             *)
RequestStep(r) ==
    \/ CloseRequest(r)
    \/ \E q \in Ports, a \in Addrs : TcpForwardListen(r, q, a) \/ TcpForwardCancel(r, q, a)
    \/ \E soap \in BOOLEAN, w \in Grants : ChannelOpen(r, soap, w)
    \/ \E f \in Fds : ChannelClose(r, f)

DropStep(t) == DeinitChannels(t) \/ DeinitPorts(t)

SpawnStep == InitConnect \/ InitThreadLate

LEMMA QuietDeinit ==
    ASSUME TypeInv, NEW t \in Deiniters, DeinitStep(t)
    PROVE  QuietStep \/ DropStep(t)
<1> USE ThreadsAssumption DEF tables, pass, flags, Threads, Deiniters
<1>1. CASE DeinitLme(t) BY <1>1, QuietGoto DEF DeinitLme
<1>2. CASE DeinitPipe(t)
  <2>1. Still BY <1>2 DEF DeinitPipe, Still, TypeInv, SessionOK
  <2> QED BY <1>2, <2>1 DEF DeinitPipe, QuietStep, SameRefs, SameCounts, Active
<1>3. CASE DeinitReset(t) BY <1>3, QuietGoto DEF DeinitReset, AfterDeinit
<1> QED BY <1>1, <1>2, <1>3 DEF DeinitStep, DropStep

LEMMA QuietReceive ==
    ASSUME TypeInv, NEW r \in RxThreads, ReceiveStep(r)
    PROVE  QuietStep
<1> USE ThreadsAssumption DEF tables, pass, flags, Threads
<1>1. ASSUME NEW kind \in {"service", "forward"}, Receive(r, kind) PROVE QuietStep
  BY <1>1, QuietGoto DEF Receive
<1>2. ASSUME NEW supported \in BOOLEAN, ReceiveProtocolVersion(r, supported) PROVE QuietStep
  BY <1>2, QuietGoto DEF ReceiveProtocolVersion
<1>3. CASE ReceiveDisconnect(r) BY <1>3, QuietGoto DEF ReceiveDisconnect
<1>4. CASE ReceiveError(r)
  <2>1. CASE ~socketsActive BY <1>4, <2>1, QuietGoto DEF ReceiveError
  <2>2. CASE socketsActive
    <3>1. Still BY <1>4, <2>2, StillSignal DEF ReceiveError
    <3> QED BY <1>4, <3>1 DEF ReceiveError, QuietStep, SameRefs, SameCounts, Active
  <2> QED BY <2>1, <2>2
<1>5. CASE ReceiveCancelled(r) BY <1>5, QuietGoto DEF ReceiveCancelled
<1>6. CASE ReceiveMessage(r) BY <1>6, QuietGoto DEF ReceiveMessage
<1> QED BY <1>1, <1>2, <1>3, <1>4, <1>5, <1>6 DEF ReceiveStep

LEMMA QuietHandler ==
    ASSUME TypeInv, NEW r \in RxThreads, HandlerStep(r)
    PROVE  QuietStep \/ RequestStep(r)
<1> USE ThreadsAssumption DEF tables, pass, flags, Threads
<1>1. ASSUME NEW name \in {"pfwd", "auth", "other"}, ServiceRequest(r, name) PROVE QuietStep
  BY <1>1, QuietGoto DEF ServiceRequest
<1>2. CASE StatelessRequest(r) BY <1>2, QuietGoto DEF StatelessRequest
<1>3. CASE MalformedRequest(r) BY <1>3, QuietGoto DEF MalformedRequest
<1>4. ASSUME NEW q \in Ports, TcpForwardListenFails(r, q) PROVE QuietStep
  BY <1>4, QuietGoto DEF TcpForwardListenFails
<1>5. ASSUME NEW q \in Ports, NEW a \in Addrs, TcpForwardRefused(r, q, a) PROVE QuietStep
  BY <1>5, QuietGoto DEF TcpForwardRefused
<1>6. CASE ChannelOpenRefused(r) BY <1>6, QuietGoto DEF ChannelOpenRefused
<1>7. ASSUME NEW f \in Fds, NEW w \in Grants, ChannelOpenConfirmation(r, f, w) PROVE QuietStep
  <2>1. SameRefs BY <1>7, QuietGrant DEF ChannelOpenConfirmation, ChannelStatus
  <2>2. Still BY <1>7, StillSignal DEF ChannelOpenConfirmation
  <2> QED BY <1>7, <2>1, <2>2 DEF ChannelOpenConfirmation, QuietStep, SameCounts, Active
<1>8. ASSUME NEW f \in Fds, NEW w \in Grants, ChannelWindowAdjust(r, f, w) PROVE QuietStep
  <2>1. f \in ChannelFds => channels[f].status \in ChannelStatus
    BY DEF ChannelFds, Channel, TypeInv, TablesOK
  <2>2. SameRefs BY <1>8, <2>1, QuietGrant DEF ChannelWindowAdjust
  <2>3. CASE f \notin ChannelFds BY <1>8, <2>3, QuietGoto DEF ChannelWindowAdjust
  <2>4. CASE f \in ChannelFds
    <3>1. Still BY <1>8, <2>4, StillSignal DEF ChannelWindowAdjust
    <3> QED BY <1>8, <2>2, <3>1 DEF ChannelWindowAdjust, QuietStep, SameCounts, Active
  <2> QED BY <2>3, <2>4
<1>9. ASSUME NEW f \in Fds, NEW requestClose \in BOOLEAN, ChannelData(r, f, requestClose)
      PROVE  QuietStep
  <2>1. SameRefs
    BY <1>9, NoneAssumption
    DEF ChannelData, SameRefs, ChannelFds, Channel, ChannelStatus, TypeInv, TablesOK
  <2>2. Still BY <1>9 DEF ChannelData, Still, Goto, TypeInv, SessionOK
  <2> QED BY <1>9, <2>1, <2>2 DEF ChannelData, QuietStep, SameCounts, Active
<1>10. ASSUME NEW shared \in BOOLEAN, RxUpdateAccess(r, shared) PROVE QuietStep
  BY <1>10, QuietAccess DEF RxUpdateAccess
<1> QED BY <1>1, <1>2, <1>3, <1>4, <1>5, <1>6, <1>7, <1>8, <1>9, <1>10
        DEF HandlerStep, RequestStep

LEMMA QuietInitStep ==
    ASSUME TypeInv, InitStep
    PROVE  QuietStep \/ SpawnStep
<1> USE ThreadsAssumption DEF tables, pass, flags, Threads, LeaveInit
<1>1. CASE BeginInit BY <1>1, QuietGoto DEF BeginInit
<1>2. CASE InitVersion BY <1>2, QuietGoto DEF InitVersion
<1>3. CASE InitDone BY <1>3, QuietGoto DEF InitDone
<1>4. ASSUME NEW ok \in BOOLEAN, InitWait(ok) PROVE QuietStep BY <1>4, QuietGoto DEF InitWait
<1>5. ASSUME NEW ok \in BOOLEAN, InitBuffer(ok) PROVE QuietStep
  <2>1. Still BY <1>5 DEF InitBuffer, AdapterStarted, Still, TypeInv, SessionOK
  <2> QED BY <1>5, <2>1 DEF InitBuffer, QuietStep, SameRefs, SameCounts, Active
<1>6. ASSUME NEW ok \in BOOLEAN, InitUpdateAccess(ok) PROVE QuietStep
  BY <1>6, QuietAccess DEF InitUpdateAccess
<1>7. CASE InitAdapterFails BY <1>7, QuietGoto DEF InitAdapterFails
<1> QED BY <1>1, <1>2, <1>3, <1>4, <1>5, <1>6, <1>7 DEF InitStep, SpawnStep

LEMMA QuietSelect ==
    ASSUME TypeInv, SelectStep
    PROVE  QuietStep \/ \E s \in rset, p \in Requests, sent \in BOOLEAN : Accept(s, p, sent)
<1> USE ThreadsAssumption, NoneAssumption DEF tables, pass, flags, Threads
<1>1. CASE BeginSelect BY <1>1, QuietGoto DEF BeginSelect
<1>2. CASE SelectPorts BY <1>2, QuietGoto DEF SelectPorts
<1>3. CASE SelectChannels BY <1>3, QuietGoto DEF SelectChannels
<1>4. CASE SelectCall BY <1>4, QuietGoto DEF SelectCall
<1>5. CASE SelectDone BY <1>5, QuietGoto DEF SelectDone
<1>6. ASSUME NEW R \in SUBSET rset, SelectReturns(R) PROVE QuietStep
  BY <1>6, QuietGoto DEF SelectReturns
<1>7. ASSUME NEW s \in rset, AcceptRefused(s) PROVE QuietStep BY <1>7, QuietStay DEF AcceptRefused
<1>8. ASSUME NEW s \in rset, AcceptBlocks(s) PROVE QuietStep BY <1>8, QuietGoto DEF AcceptBlocks
<1>9. CASE AcceptResumes BY <1>9, QuietGoto DEF AcceptResumes
<1>10. CASE AcceptDone BY <1>10, QuietGoto DEF AcceptDone
<1>11. ASSUME NEW f \in rset, RxCopy(f) PROVE QuietStep
  <2>1. CASE f \in ChannelFds /\ ~channels[f].soap BY <1>11, <2>1, QuietGoto DEF RxCopy
  <2>2. CASE ~(f \in ChannelFds /\ ~channels[f].soap) BY <1>11, <2>2, QuietStay DEF RxCopy
  <2> QED BY <2>1, <2>2
<1>12. ASSUME NEW n \in 0 .. BufSize, RxReceive(n) PROVE QuietStep
  <2>1. SameRefs
    BY <1>12 DEF RxReceive, SameRefs, ChannelFds, Channel, Working, TypeInv, TablesOK, PassOK
  <2>2. Still BY <1>12 DEF RxReceive, Still, Goto, TypeInv, SessionOK
  <2> QED BY <1>12, <2>1, <2>2 DEF RxReceive, QuietStep, SameCounts, Active
<1>13. CASE RxApply
  <2>1. SameRefs
    <3>1. current \in Fds BY <1>13 DEF RxApply, Working, TypeInv
    <3>2. CASE channels[current] = None BY <1>13, <3>2 DEF RxApply, SameRefs
    <3>3. CASE channels[current] # None
      <4>1. channels[current] \in Channel BY <3>1, <3>3 DEF TypeInv, TablesOK
      <4>2. CASE received > 0
        <5>1. channels[current].tx \in 0 .. MaxWindow /\ received \in Nat
          BY <4>1 DEF Channel, TypeInv, PassOK
        <5>2. RemoveBytesTxWindow(channels[current].tx, received) \in 0 .. MaxWindow
          BY <5>1, BoundsAssumption DEF RemoveBytesTxWindow
        <5>3. channels' = [channels EXCEPT
                 ![current].tx = RemoveBytesTxWindow(channels[current].tx, received)]
          BY <1>13, <3>3, <4>2 DEF RxApply
        <5> QED BY <3>1, <3>3, <4>1, <5>2, <5>3 DEF SameRefs, ChannelFds, Channel, TypeInv, TablesOK
      <4>3. CASE ~(received > 0)
        BY <1>13, <3>1, <3>3, <4>1, <4>3
        DEF RxApply, SameRefs, ChannelFds, Channel, ChannelStatus, TypeInv, TablesOK
      <4> QED BY <4>2, <4>3
    <3> QED BY <3>2, <3>3
  <2>2. Still BY <1>13 DEF RxApply, Still, Goto, TypeInv, SessionOK
  <2> QED BY <1>13, <2>1, <2>2 DEF RxApply, QuietStep, SameCounts, Active
<1>14. ASSUME NEW ok \in BOOLEAN, CreateSockets(ok) PROVE QuietStep
  <2>1. \E label \in {"selPorts", "top"} : Goto("main", label) /\ pc["main"] = "sockets"
    BY <1>14, Zenon DEF CreateSockets
  <2>2. UNCHANGED <<tables, retained, overlap>> BY <1>14, Zenon DEF CreateSockets
  <2> QED BY <2>1, <2>2, QuietGoto
<1> QED BY <1>1, <1>2, <1>3, <1>4, <1>5, <1>6, <1>7, <1>8, <1>9, <1>10, <1>11, <1>12, <1>13,
           <1>14 DEF SelectStep

(* Every step is quiet or one of these.                                    *)
LEMMA StepKinds ==
    ASSUME TypeInv, [Next]_vars
    PROVE  \/ QuietStep
           \/ SpawnStep
           \/ \E t \in Deiniters : DropStep(t)
           \/ \E r \in RxThreads : RequestStep(r)
           \/ \E s \in rset, p \in Requests, sent \in BOOLEAN : Accept(s, p, sent)
<1> USE ThreadsAssumption DEF tables, pass, flags, Threads
<1>1. ASSUME NEW t \in SvcThreads, SvcDeinit(t) PROVE QuietStep
  BY <1>1, QuietGoto DEF SvcDeinit
<1>2. ASSUME NEW t \in Threads \ {"main"}, SignalResumes(t) PROVE QuietStep
  BY <1>2, QuietGoto DEF SignalResumes
<1>3. ASSUME NEW shared \in BOOLEAN, AdapterUpdateAccess(shared) PROVE QuietStep
  BY <1>3, QuietAccess DEF AdapterUpdateAccess
<1>4. CASE InitStep BY <1>4, QuietInitStep
<1>5. CASE SelectStep BY <1>5, QuietSelect
<1>6. ASSUME NEW r \in RxThreads, ReceiveStep(r) \/ HandlerStep(r) PROVE QuietStep \/ RequestStep(r)
  BY <1>6, QuietReceive, QuietHandler
<1>7. ASSUME NEW t \in Deiniters, DeinitStep(t) PROVE QuietStep \/ DropStep(t) BY <1>7, QuietDeinit
<1>8. CASE UNCHANGED vars BY <1>8, QuietStay DEF vars
<1> QED BY <1>1, <1>2, <1>3, <1>4, <1>5, <1>6, <1>7, <1>8 DEF Next

-----------------------------------------------------------------------------
(* Counts *)

Dropping == \E t \in Deiniters : pc[t] = "dPorts"

(* CountCoversChannels is not enough to keep CancelledRequestsGoAway: the  *)
(* count must also not exceed what it covers, or the last channel would    *)
(* not bring it to zero.  Between the two halves of a Deinit it does.      *)
CountExact ==
    Dropping \/ \A p \in Live : requests[p].count = Cardinality(ChannelsOf(p)) + requests[p].failed

CountInv == CountCoversChannels /\ CountExact /\ CancelledRequestsGoAway

LEMMA FiniteRefs ==
    ASSUME NEW p
    PROVE  /\ IsFiniteSet(ChannelsOf(p)) /\ Cardinality(ChannelsOf(p)) \in Nat
           /\ Cardinality(ChannelsOf(p)) = 0 <=> ChannelsOf(p) = {}
<1>1. ChannelsOf(p) \in SUBSET Fds BY DEF ChannelsOf, ChannelFds
<1>2. IsFiniteSet(ChannelsOf(p)) BY <1>1, BoundsAssumption, FS_Subset
<1> QED BY <1>2, FS_CardinalityType, FS_EmptySet

LEMMA CountTyped ==
    ASSUME TypeInv, NEW p \in Live
    PROVE  p \in Requests /\ requests[p] \in Request
           /\ requests[p].count \in Nat /\ requests[p].failed \in Nat
BY DEF TypeInv, TablesOK, Live, Request

(* Channels that keep their requests.                                      *)
LEMMA SameRefsOf ==
    ASSUME SameRefs
    PROVE  ChannelFds' = ChannelFds /\ \A p : ChannelsOf(p)' = ChannelsOf(p)
<1>1. ChannelFds' = ChannelFds BY DEF SameRefs, ChannelFds
<1> QED BY <1>1 DEF SameRefs, ChannelsOf, ChannelFds

(* A channel that comes adds to the references of its request, one that    *)
(* goes takes from them.                                                   *)
LEMMA RefsOpened ==
    ASSUME TypeInv, FdsOwned, NEW f \in FreeFds, NEW c, c # None,
           channels' = [channels EXCEPT ![f] = c]
    PROVE  /\ ChannelFds' = ChannelFds \cup {f} /\ f \notin ChannelFds
           /\ \A p : ChannelsOf(p)' = IF c.request = p THEN ChannelsOf(p) \cup {f} ELSE ChannelsOf(p)
<1>1. f \in Fds /\ f \notin ChannelFds BY DEF FreeFds, FdsOwned
<1>2. channels'[f] = c /\ \A g \in Fds : g # f => channels'[g] = channels[g]
  BY <1>1 DEF TypeInv, TablesOK
<1>3. ChannelFds' = ChannelFds \cup {f} BY <1>1, <1>2 DEF ChannelFds
<1>4. \A p : ChannelsOf(p)' = IF c.request = p THEN ChannelsOf(p) \cup {f} ELSE ChannelsOf(p)
  BY <1>1, <1>2, <1>3 DEF ChannelsOf, ChannelFds
<1> QED BY <1>1, <1>3, <1>4

LEMMA RefsClosed ==
    ASSUME TypeInv, NEW f \in ChannelFds, channels' = [channels EXCEPT ![f] = None]
    PROVE  /\ ChannelFds' = ChannelFds \ {f}
           /\ \A p : ChannelsOf(p)' = ChannelsOf(p) \ {f}
<1>1. f \in Fds BY DEF ChannelFds
<1>2. channels'[f] = None /\ \A g \in Fds : g # f => channels'[g] = channels[g]
  BY <1>1 DEF TypeInv, TablesOK
<1>3. ChannelFds' = ChannelFds \ {f} BY <1>1, <1>2 DEF ChannelFds
<1>4. \A p : ChannelsOf(p)' = ChannelsOf(p) \ {f} BY <1>1, <1>2, <1>3 DEF ChannelsOf, ChannelFds
<1> QED BY <1>3, <1>4

LEMMA StillDropping ==
    ASSUME Still
    PROVE  Dropping' <=> Dropping
BY DEF Still, Dropping, Deiniters, Threads

LEMMA CountKept ==
    ASSUME TypeInv, CountInv, SameRefs, SameCounts, Still, retained' = retained
    PROVE  CountInv'
<1>1. Live' = Live BY DEF SameCounts, Live
<1>2. \A p : ChannelsOf(p)' = ChannelsOf(p) BY SameRefsOf
<1>3. \A p \in Live : /\ requests'[p].count = requests[p].count
                      /\ requests'[p].failed = requests[p].failed
                      /\ Active(p)' = Active(p)
  BY DEF SameCounts, Live
<1>4. Dropping' <=> Dropping BY StillDropping
<1>5. CountCoversChannels' BY <1>1, <1>2, <1>3 DEF CountInv, CountCoversChannels
<1>6. CountExact' BY <1>1, <1>2, <1>3, <1>4 DEF CountInv, CountExact
<1>7. CancelledRequestsGoAway'
  BY <1>1, <1>2, <1>3, <1>4 DEF CountInv, CancelledRequestsGoAway, Dropping
<1> QED BY <1>5, <1>6, <1>7 DEF CountInv

(* A request goes; what is retained of the others stays.                   *)
LEMMA CountDeleted ==
    ASSUME TypeInv, CountInv, NEW p \in Live, requests' = [requests EXCEPT ![p] = None],
           channels' = channels, Dropping' <=> Dropping,
           \A r \in RxThreads : retained'[r] = retained[r] \/ retained[r] = p
    PROVE  CountInv'
<1>1. Live' = Live \ {p} /\ \A x \in Live' : requests'[x] = requests[x]
  BY DEF Live, TypeInv, TablesOK
<1>2. \A x : ChannelsOf(x)' = ChannelsOf(x) BY DEF ChannelsOf, ChannelFds
<1>3. CountCoversChannels' BY <1>1, <1>2 DEF CountInv, CountCoversChannels
<1>4. CountExact' BY <1>1, <1>2 DEF CountInv, CountExact
<1>5. CancelledRequestsGoAway'
  BY <1>1, <1>2 DEF CountInv, CancelledRequestsGoAway, Dropping, Active
<1> QED BY <1>3, <1>4, <1>5 DEF CountInv

(* A new request has no channel and none is counted.                       *)
LEMMA CountListen ==
    ASSUME TypeInv, CountInv, NEW r \in RxThreads, NEW q \in Ports, NEW a \in Addrs,
           TcpForwardListen(r, q, a)
    PROVE  CountInv'
<1>1. PICK p \in FreeRequests, s \in Fds : requests' = [requests EXCEPT ![p] = NewRequest(q, a, s)]
  BY DEF TcpForwardListen
<1> DEFINE n == NewRequest(q, a, s)
<1>2. n \in Request /\ n.count = 0 /\ n.failed = 0 /\ n.status # "NOT_ACTIVE"
  BY DEF NewRequest, Request, RequestStatus
<1>3. requests' = [requests EXCEPT ![p] = n] BY <1>1
<1> HIDE DEF n
<1>4. Live' = Live \cup {p} /\ p \notin Live /\ requests'[p] = n
      /\ \A x \in Live : requests'[x] = requests[x]
  BY <1>2, <1>3, NoneAssumption DEF Live, FreeRequests, TypeInv, TablesOK
<1>5. channels' = channels /\ retained' = retained /\ pc[r] = "forward" BY DEF TcpForwardListen
<1>6. (\A x : ChannelsOf(x)' = ChannelsOf(x)) /\ ChannelsOf(p) = {}
  BY <1>5 DEF ChannelsOf, ChannelFds, FreeRequests
<1>7. Dropping' <=> Dropping
  <2>1. r \in Threads BY DEF Threads
  <2>2. Still
    <3>1. CASE SignalUnder("ports", r, "remote", "signalRemote") BY <1>5, <2>1, <3>1, StillSignal
    <3>2. CASE SignalUnder("ports", r, "receive", "signal") BY <1>5, <2>1, <3>2, StillSignal
    <3> QED BY <3>1, <3>2 DEF TcpForwardListen
  <2> QED BY <2>2, StillDropping
<1>8. Cardinality(ChannelsOf(p)) = 0 BY <1>6, FS_EmptySet
<1>9. CountCoversChannels' BY <1>2, <1>4, <1>6, <1>8 DEF CountInv, CountCoversChannels
<1>10. CountExact' BY <1>2, <1>4, <1>6, <1>7, <1>8 DEF CountInv, CountExact
<1>11. CancelledRequestsGoAway'
  BY <1>2, <1>4, <1>5, <1>6, <1>7 DEF CountInv, CancelledRequestsGoAway, Dropping, Active
<1> QED BY <1>9, <1>10, <1>11 DEF CountInv

(* A request with channels is marked; one that is counted without any has  *)
(* a connection that could not be opened, or Deinit is on its way to it.   *)
LEMMA CountCancel ==
    ASSUME TypeInv, CountInv, NEW r \in RxThreads, NEW q \in Ports, NEW a \in Addrs,
           TcpForwardCancel(r, q, a)
    PROVE  CountInv'
<1> USE ThreadsAssumption
<1>1. UNCHANGED <<channels, retained, overlap>> /\ pc[r] = "forward" /\ Goto(r, "receive")
      /\ r \in Threads
  BY DEF TcpForwardCancel, flags, Threads
<1>2. Still BY <1>1 DEF Still, Goto, TypeInv, SessionOK
<1>3. Dropping' <=> Dropping BY <1>2, StillDropping
<1>4. CASE UNCHANGED requests
  BY <1>1, <1>2, <1>4, CountKept DEF SameRefs, SameCounts, Active
<1>5. ASSUME NEW p \in Live, DeleteRequest(p) PROVE CountInv'
  BY <1>1, <1>3, <1>5, CountDeleted DEF DeleteRequest
<1>6. ASSUME NEW p \in Live, requests[p].count # 0,
             requests' = [requests EXCEPT ![p].status = "NOT_ACTIVE"]
      PROVE  CountInv'
  <2>1. /\ p \in Requests /\ requests[p] \in Request
        /\ requests[p].count \in Nat /\ requests[p].failed \in Nat BY CountTyped
  <2>2. /\ requests'[p].count = requests[p].count /\ requests'[p].failed = requests[p].failed
        /\ requests'[p] \in Request
        /\ \A x \in Requests : x # p => requests'[x] = requests[x]
    BY <1>6, <2>1 DEF Request, RequestStatus, TypeInv, TablesOK
  <2>3. Live' = Live BY <2>1, <2>2, NoneAssumption DEF Live
  <2>4. \A x : ChannelsOf(x)' = ChannelsOf(x) BY <1>1 DEF ChannelsOf, ChannelFds
  <2>5. requests[p].failed > 0 \/ ChannelsOf(p) # {} \/ Dropping
    BY <1>6, <2>1, FiniteRefs DEF CountInv, CountExact
  <2>6. \A x \in Live : /\ requests'[x].count = requests[x].count
                        /\ requests'[x].failed = requests[x].failed
    BY <2>2 DEF Live
  <2>7. CountCoversChannels' BY <2>3, <2>4, <2>6 DEF CountInv, CountCoversChannels
  <2>8. CountExact' BY <1>3, <2>3, <2>4, <2>6 DEF CountInv, CountExact
  <2>9. CancelledRequestsGoAway'
    <3> SUFFICES ASSUME NEW x \in Live
                 PROVE  \/ Active(x)' \/ requests'[x].failed > 0 \/ ChannelsOf(x)' # {}
                        \/ \E y \in RxThreads : retained'[y] = x
                        \/ Dropping'
      BY <2>3 DEF CancelledRequestsGoAway, Dropping
    <3>1. CASE x = p BY <1>3, <2>2, <2>4, <2>5, <3>1
    <3>2. CASE x # p
      <4>1. requests'[x] = requests[x] BY <2>2, <3>2 DEF Live
      <4>2. \/ Active(x) \/ requests[x].failed > 0 \/ ChannelsOf(x) # {}
            \/ \E y \in RxThreads : retained[y] = x
            \/ Dropping
        BY DEF CountInv, CancelledRequestsGoAway, Dropping
      <4> QED BY <1>1, <1>3, <2>4, <4>1, <4>2 DEF Active
    <3> QED BY <3>1, <3>2
  <2> QED BY <2>7, <2>8, <2>9 DEF CountInv
<1> QED BY <1>4, <1>5, <1>6 DEF TcpForwardCancel, RequestsAt

(* closePortForwardRequest is set between the two lock sections only.      *)
RetainInv == \A r \in RxThreads : retained[r] # None => pc[r] = "closeRequest"

(* The labels of other threads stay.                                       *)
LEMMA GotoDropping ==
    ASSUME TypeInv, NEW t \in Threads, NEW label, Goto(t, label), pc[t] # "dPorts", label # "dPorts"
    PROVE  Dropping' <=> Dropping
<1>1. \A x \in Threads : (pc'[x] = "dPorts") <=> (pc[x] = "dPorts")
  BY DEF Goto, TypeInv, SessionOK
<1>2. Deiniters \subseteq Threads BY DEF Deiniters, Threads
<1> QED BY <1>1, <1>2 DEF Dropping

(* A channel that the firmware opens belongs to no request.                *)
LEMMA CountOpen ==
    ASSUME TypeInv, FdsOwned, CountInv, NEW r \in RxThreads, NEW soap \in BOOLEAN,
           NEW w \in Grants, ChannelOpen(r, soap, w)
    PROVE  CountInv'
<1>1. PICK f \in FreeFds : channels' = [channels EXCEPT ![f] =
                [status |-> "OPEN", tx |-> AddBytesTxWindow(0, w), request |-> None,
                 soap |-> soap, credit |-> w]]
  BY DEF ChannelOpen
<1> DEFINE c == [status |-> "OPEN", tx |-> AddBytesTxWindow(0, w), request |-> None,
                 soap |-> soap, credit |-> w]
<1>2. c \in Channel /\ c.request = None
  BY BoundsAssumption DEF Channel, ChannelStatus, AddBytesTxWindow
<1>3. channels' = [channels EXCEPT ![f] = c] /\ c # None BY <1>1, <1>2, NoneAssumption
<1> HIDE DEF c
<1>4. \A p \in Requests : ChannelsOf(p)' = ChannelsOf(p)
  BY <1>2, <1>3, RefsOpened, NoneAssumption
<1>5. requests' = requests /\ retained' = retained /\ Live' = Live /\ Live \subseteq Requests
  BY DEF ChannelOpen, Live
<1>6. Dropping' <=> Dropping
  <2>1. Still BY StillSignal DEF ChannelOpen, Threads
  <2> QED BY <2>1, StillDropping
<1>7. CountCoversChannels' BY <1>4, <1>5 DEF CountInv, CountCoversChannels
<1>8. CountExact' BY <1>4, <1>5, <1>6 DEF CountInv, CountExact
<1>9. CancelledRequestsGoAway'
  BY <1>4, <1>5, <1>6 DEF CountInv, CancelledRequestsGoAway, Dropping, Active
<1> QED BY <1>7, <1>8, <1>9 DEF CountInv

(* The count of a request goes down with its channels, and the one that    *)
(* brings it to zero retains it.                                           *)
LEMMA CountClose ==
    ASSUME TypeInv, CountInv, RetainInv, NEW r \in RxThreads, NEW f \in Fds, ChannelClose(r, f)
    PROVE  CountInv'
<1> USE ThreadsAssumption, NoneAssumption
<1>1. pc[r] = "forward" /\ r \in Threads /\ retained[r] = None
  BY DEF ChannelClose, Threads, RetainInv
<1>2. Dropping' <=> Dropping
  <2>1. Goto(r, "receive") \/ Goto(r, "closeRequest") BY DEF ChannelClose, DecreaseChannelCount
  <2> QED BY <1>1, <2>1, GotoDropping
<1>3. CASE f \notin ChannelFds
  <2>1. UNCHANGED <<requests, channels, retained>> BY <1>3 DEF ChannelClose, tables
  <2>2. (\A p : ChannelsOf(p)' = ChannelsOf(p)) /\ Live' = Live
    BY <2>1 DEF ChannelsOf, ChannelFds, Live
  <2> QED BY <1>2, <2>1, <2>2
          DEF CountInv, CountCoversChannels, CountExact, CancelledRequestsGoAway, Dropping, Active
<1>4. CASE f \in ChannelFds
  <2>0. PICK p : p = channels[f].request OBVIOUS
  <2>1. /\ \A x : ChannelsOf(x)' = ChannelsOf(x) \ {f}
        /\ \A x : x # p => ChannelsOf(x)' = ChannelsOf(x)
        /\ f \in ChannelsOf(p)
    <3>1. channels' = [channels EXCEPT ![f] = None] BY <1>4 DEF ChannelClose
    <3>2. \A x : ChannelsOf(x)' = ChannelsOf(x) \ {f} BY <1>4, <3>1, RefsClosed
    <3> QED BY <1>4, <2>0, <3>2 DEF ChannelsOf
  <2>2. \A x \in RxThreads : retained[x] # None => retained'[x] = retained[x]
    BY <1>1, <1>4 DEF ChannelClose, DecreaseChannelCount, TypeInv, TablesOK
  <2>3. CASE p \notin Live
    <3>1. requests' = requests /\ Live' = Live
      BY <1>4, <2>0, <2>3 DEF ChannelClose, DecreaseChannelCount, Live
    <3>2. \A x \in Live : ChannelsOf(x)' = ChannelsOf(x) BY <2>1, <2>3
    <3>3. \A x \in Live : x # None BY DEF Live
    <3>4. \A x \in Live : (\E y \in RxThreads : retained[y] = x) => \E y \in RxThreads : retained'[y] = x
      BY <2>2, <3>3
    <3>5. CountCoversChannels' BY <3>1, <3>2 DEF CountInv, CountCoversChannels
    <3>6. CountExact' BY <1>2, <3>1, <3>2 DEF CountInv, CountExact
    <3>7. CancelledRequestsGoAway'
      BY <1>2, <3>1, <3>2, <3>4 DEF CountInv, CancelledRequestsGoAway, Dropping, Active
    <3> QED BY <3>5, <3>6, <3>7 DEF CountInv
  <2>4. CASE p \in Live
    <3> DEFINE n == Decreased(requests[p].count)
    <3>1. /\ p \in Requests /\ requests[p] \in Request
          /\ requests[p].count \in Nat /\ requests[p].failed \in Nat BY <2>4, CountTyped
    <3>2. /\ requests' = [requests EXCEPT ![p].count = n]
          /\ n = 0 => retained' = [retained EXCEPT ![r] = p]
      BY <1>4, <2>0, <2>4, <3>1 DEF ChannelClose, DecreaseChannelCount
    <3>3. n \in Nat BY <3>1 DEF Decreased
    <3>4. IsFiniteSet(ChannelsOf(p)) /\ Cardinality(ChannelsOf(p)) \in Nat BY FiniteRefs
    <3>5. Cardinality(ChannelsOf(p) \ {f}) = Cardinality(ChannelsOf(p)) - 1
      BY <2>1, <3>4, FS_RemoveElement
    <3>6. /\ Cardinality(ChannelsOf(p)') \in Nat /\ IsFiniteSet(ChannelsOf(p)')
          /\ Cardinality(ChannelsOf(p)') = Cardinality(ChannelsOf(p)) - 1
      BY <2>1, <3>4, <3>5, FS_RemoveElement, FS_CardinalityType
    <3>7. requests[p].count >= Cardinality(ChannelsOf(p)) + requests[p].failed
      BY <2>4 DEF CountInv, CountCoversChannels
    <3>8. n = requests[p].count - 1 BY <3>1, <3>4, <3>6, <3>7 DEF Decreased
    <3> HIDE DEF n
    <3>9. /\ requests'[p].count = n /\ requests'[p].failed = requests[p].failed
          /\ requests'[p].status = requests[p].status /\ requests'[p] \in Request
          /\ \A x \in Requests : x # p => requests'[x] = requests[x]
      BY <3>1, <3>2, <3>3 DEF Request, TypeInv, TablesOK
    <3>10. Live' = Live BY <3>1, <3>9, <2>4 DEF Live
    <3>11. \A x \in Live : x # p => ChannelsOf(x)' = ChannelsOf(x) /\ requests'[x] = requests[x]
      BY <2>1, <3>9 DEF Live
    <3>12. CountCoversChannels'
      BY <3>1, <3>4, <3>6, <3>7, <3>8, <3>9, <3>10, <3>11 DEF CountInv, CountCoversChannels
    <3>13. ~Dropping => requests[p].count = Cardinality(ChannelsOf(p)) + requests[p].failed
      BY <2>4 DEF CountInv, CountExact
    <3>14. CountExact'
      BY <1>2, <3>1, <3>4, <3>6, <3>8, <3>9, <3>10, <3>11, <3>13 DEF CountInv, CountExact
    <3>15. CancelledRequestsGoAway'
      <4> SUFFICES ASSUME NEW x \in Live
                   PROVE  \/ Active(x)' \/ requests'[x].failed > 0 \/ ChannelsOf(x)' # {}
                          \/ \E y \in RxThreads : retained'[y] = x
                          \/ Dropping'
        BY <3>10 DEF CancelledRequestsGoAway, Dropping
      <4>1. CASE x # p
        <5>1. \/ Active(x) \/ requests[x].failed > 0 \/ ChannelsOf(x) # {}
              \/ \E y \in RxThreads : retained[y] = x
              \/ Dropping
          BY DEF CountInv, CancelledRequestsGoAway, Dropping
        <5>2. (\E y \in RxThreads : retained[y] = x) => \E y \in RxThreads : retained'[y] = x
          BY <2>2 DEF Live
        <5>3. ChannelsOf(x)' = ChannelsOf(x) /\ requests'[x] = requests[x] BY <3>11, <4>1
        <5> QED BY <1>2, <5>1, <5>2, <5>3 DEF Active
      <4>2. CASE x = p /\ n = 0
        <5>1. retained'[r] = p BY <3>2, <4>2 DEF TypeInv, TablesOK
        <5> QED BY <4>2, <5>1
      <4>3. CASE x = p /\ n # 0
        <5>1. CASE Dropping BY <1>2, <5>1
        <5>2. CASE ~Dropping
          <6>1. Cardinality(ChannelsOf(p)') + requests[p].failed = n
            BY <3>1, <3>4, <3>6, <3>8, <3>13, <5>2
          <6>2. ChannelsOf(p)' = {} => Cardinality(ChannelsOf(p)') = 0 BY FS_EmptySet
          <6> QED BY <3>1, <3>3, <3>9, <4>3, <6>1, <6>2
        <5> QED BY <5>1, <5>2
      <4> QED BY <4>1, <4>2, <4>3
    <3> QED BY <3>12, <3>14, <3>15 DEF CountInv
  <2> QED BY <2>3, <2>4
<1> QED BY <1>3, <1>4

(* The second lock section: the request goes unless it is active.          *)
LEMMA CountCloseRequest ==
    ASSUME TypeInv, CountInv, NEW r \in RxThreads, CloseRequest(r)
    PROVE  CountInv'
<1>1. PICK p : p = retained[r] OBVIOUS
<1>2. channels' = channels /\ (Dropping' <=> Dropping)
  BY GotoDropping DEF CloseRequest, Threads
<1>3. \A x \in RxThreads : retained'[x] = retained[x] \/ retained[x] = p
  BY <1>1 DEF CloseRequest, TypeInv, TablesOK
<1>4. CASE p \in Live /\ ~Active(p)
  BY <1>1, <1>2, <1>3, <1>4, CountDeleted DEF CloseRequest, ClosePortForwardRequest, DeleteRequest
<1>5. CASE p \notin Live \/ Active(p)
  <2>1. requests' = requests BY <1>1, <1>5 DEF CloseRequest, ClosePortForwardRequest
  <2>2. (\A x : ChannelsOf(x)' = ChannelsOf(x)) /\ Live' = Live
    BY <1>2, <2>1 DEF ChannelsOf, ChannelFds, Live
  <2>3. CountCoversChannels' BY <2>1, <2>2 DEF CountInv, CountCoversChannels
  <2>4. CountExact' BY <1>2, <2>1, <2>2 DEF CountInv, CountExact
  <2>5. CancelledRequestsGoAway'
    BY <1>2, <1>3, <1>5, <2>1, <2>2 DEF CountInv, CancelledRequestsGoAway, Dropping, Active
  <2> QED BY <2>3, <2>4, <2>5 DEF CountInv
<1> QED BY <1>4, <1>5

(* Deinit drops the channels, and the counts no longer match; then the     *)
(* requests.                                                               *)
LEMMA CountDrop ==
    ASSUME TypeInv, CountInv, NEW t \in Deiniters, DropStep(t)
    PROVE  CountInv'
<1>1. CASE DeinitChannels(t)
  <2>1. Dropping'
    BY <1>1 DEF DeinitChannels, Goto, Dropping, Deiniters, Threads, TypeInv, SessionOK
  <2>2. (\A x : ChannelsOf(x)' = {}) /\ requests' = requests /\ Live' = Live
    BY <1>1 DEF DeinitChannels, ChannelsOf, ChannelFds, Live
  <2>3. \A x \in Live : requests[x].count >= 0 + requests[x].failed
    <3> TAKE x \in Live
    <3>1. requests[x].count \in Nat /\ requests[x].failed \in Nat BY CountTyped
    <3>2. requests[x].count >= Cardinality(ChannelsOf(x)) + requests[x].failed
      BY DEF CountInv, CountCoversChannels
    <3>3. Cardinality(ChannelsOf(x)) \in Nat BY FiniteRefs
    <3> QED BY <3>1, <3>2, <3>3
  <2>4. CountCoversChannels' BY <2>2, <2>3, FS_EmptySet DEF CountCoversChannels
  <2>5. CountExact' BY <2>1 DEF CountExact
  <2>6. CancelledRequestsGoAway' BY <2>1 DEF CancelledRequestsGoAway, Dropping
  <2> QED BY <2>4, <2>5, <2>6 DEF CountInv
<1>2. CASE DeinitPorts(t)
  <2>1. Live' = {} BY <1>2 DEF DeinitPorts, Live
  <2> QED BY <2>1 DEF CountInv, CountCoversChannels, CountExact, CancelledRequestsGoAway
<1> QED BY <1>1, <1>2 DEF DropStep

(* A connection is counted; with its channel, or as one that failed.       *)
LEMMA CountAccept ==
    ASSUME TypeInv, FdsOwned, CountInv, NEW s \in rset, NEW p \in Requests, NEW sent \in BOOLEAN,
           Accept(s, p, sent)
    PROVE  CountInv'
<1> USE NoneAssumption
<1>1. p \in Live /\ pc' = pc /\ retained' = retained BY DEF Accept, Acceptors
<1>2. Dropping' <=> Dropping BY <1>1 DEF Dropping
<1>3. /\ requests[p] \in Request /\ requests[p].count \in Nat /\ requests[p].failed \in Nat
  BY <1>1, CountTyped
<1>4. Cardinality(ChannelsOf(p)) \in Nat /\ IsFiniteSet(ChannelsOf(p)) BY FiniteRefs
<1>5. /\ \A x \in Live : requests'[x].status = requests[x].status
      /\ \A x \in Live : requests'[x].failed >= requests[x].failed
      /\ \A x \in Requests : x # p => requests'[x] = requests[x] /\ ChannelsOf(x)' = ChannelsOf(x)
      /\ requests'[p].count = requests[p].count + 1
      /\ requests'[p] \in Request
      /\ Cardinality(ChannelsOf(p)') + requests'[p].failed
            = Cardinality(ChannelsOf(p)) + requests[p].failed + 1
      /\ \A x \in Live : ChannelsOf(x) \subseteq ChannelsOf(x)'
  <2>1. CASE sent
    <3> DEFINE c == [status |-> "NOT_OPENED", tx |-> 0, request |-> p, soap |-> FALSE, credit |-> 0]
    <3>1. PICK f \in FreeFds : channels' = [channels EXCEPT ![f] = c]
      BY <2>1 DEF Accept
    <3>2. c \in Channel /\ c.request = p
      BY BoundsAssumption DEF Channel, ChannelStatus
    <3>3. c # None BY <3>2
    <3> HIDE DEF c
    <3>4. /\ f \notin ChannelFds
          /\ \A x : ChannelsOf(x)' = IF p = x THEN ChannelsOf(x) \cup {f} ELSE ChannelsOf(x)
      BY <3>1, <3>2, <3>3, RefsOpened
    <3>5. f \notin ChannelsOf(p) BY <3>4 DEF ChannelsOf
    <3>6. Cardinality(ChannelsOf(p)') = Cardinality(ChannelsOf(p)) + 1
      BY <1>4, <3>4, <3>5, FS_AddElement
    <3>7. requests' = [requests EXCEPT ![p].count = requests[p].count + 1] BY <2>1 DEF Accept
    <3>8. requests[p].count + 1 \in Nat BY <1>3
    <3>9. /\ requests'[p].count = requests[p].count + 1 /\ requests'[p] \in Request
          /\ requests'[p].failed = requests[p].failed
          /\ requests'[p].status = requests[p].status
          /\ \A x \in Requests : x # p => requests'[x] = requests[x]
      BY <1>3, <3>7, <3>8 DEF Request, TypeInv, TablesOK
    <3>10. \A x \in Live : requests[x].failed \in Nat /\ x \in Requests BY CountTyped
    <3>11. \A x \in Live : requests'[x].failed = requests[x].failed BY <3>9, <3>10
    <3>12. \A x \in Live : requests'[x].failed >= requests[x].failed BY <3>10, <3>11
    <3> QED BY <1>3, <1>4, <3>4, <3>6, <3>9, <3>10, <3>12
  <2>2. CASE ~sent
    <3> DEFINE c == [requests[p] EXCEPT !.count = requests[p].count + 1,
                                        !.failed = requests[p].failed + 1]
    <3>1. requests' = [requests EXCEPT ![p] = c] /\ channels' = channels BY <2>2 DEF Accept
    <3>2. requests[p].count + 1 \in Nat /\ requests[p].failed + 1 \in Nat BY <1>3
    <3>3. /\ c \in Request /\ c.count = requests[p].count + 1
          /\ c.failed = requests[p].failed + 1 /\ c.status = requests[p].status
      BY <1>3, <3>2 DEF Request
    <3> HIDE DEF c
    <3>4. requests'[p] = c /\ \A x \in Requests : x # p => requests'[x] = requests[x]
      BY <3>1 DEF TypeInv, TablesOK
    <3>5. \A x : ChannelsOf(x)' = ChannelsOf(x) BY <3>1 DEF ChannelsOf, ChannelFds
    <3>6. \A x \in Live : requests[x].failed \in Nat /\ x \in Requests BY CountTyped
    <3>7. \A x \in Live : requests'[x].failed >= requests[x].failed BY <1>3, <3>3, <3>4, <3>6
    <3>8. Cardinality(ChannelsOf(p)') = Cardinality(ChannelsOf(p)) BY <3>5
    <3>9. Cardinality(ChannelsOf(p)') + c.failed = Cardinality(ChannelsOf(p)) + requests[p].failed + 1
      BY <1>3, <1>4, <3>3, <3>8
    <3> QED BY <3>3, <3>4, <3>5, <3>6, <3>7, <3>9
  <2> QED BY <2>1, <2>2
<1>6. Live' = Live /\ Live \subseteq Requests BY <1>1, <1>5 DEF Live
<1>7. \A x \in Live : x # p => /\ requests'[x] = requests[x]
                               /\ Cardinality(ChannelsOf(x)') = Cardinality(ChannelsOf(x))
  BY <1>5, <1>6
<1>8. CountCoversChannels'
  <2> SUFFICES ASSUME NEW x \in Live
               PROVE  requests'[x].count >= Cardinality(ChannelsOf(x)') + requests'[x].failed
    BY <1>6 DEF CountCoversChannels
  <2>1. requests[x].count >= Cardinality(ChannelsOf(x)) + requests[x].failed
    BY DEF CountInv, CountCoversChannels
  <2>2. CASE x = p BY <1>3, <1>4, <1>5, <2>1, <2>2
  <2>3. CASE x # p BY <1>7, <2>1, <2>3
  <2> QED BY <2>2, <2>3
<1>9. CountExact'
  <2> SUFFICES ASSUME ~Dropping, NEW x \in Live
               PROVE  requests'[x].count = Cardinality(ChannelsOf(x)') + requests'[x].failed
    BY <1>2, <1>6 DEF CountExact
  <2>1. requests[x].count = Cardinality(ChannelsOf(x)) + requests[x].failed
    BY DEF CountInv, CountExact
  <2>2. CASE x = p BY <1>3, <1>4, <1>5, <2>1, <2>2
  <2>3. CASE x # p BY <1>7, <2>1, <2>3
  <2> QED BY <2>2, <2>3
<1>10. CancelledRequestsGoAway'
  <2> SUFFICES ASSUME NEW x \in Live
               PROVE  \/ Active(x)' \/ requests'[x].failed > 0 \/ ChannelsOf(x)' # {}
                      \/ \E y \in RxThreads : retained'[y] = x
                      \/ Dropping'
    BY <1>6 DEF CancelledRequestsGoAway, Dropping
  <2>1. \/ Active(x) \/ requests[x].failed > 0 \/ ChannelsOf(x) # {}
        \/ \E y \in RxThreads : retained[y] = x
        \/ Dropping
    BY DEF CountInv, CancelledRequestsGoAway, Dropping
  <2>2. Active(x)' <=> Active(x) BY <1>5 DEF Active
  <2>3. requests[x].failed \in Nat /\ requests'[x].failed \in Nat
    BY <1>5, <1>6, CountTyped DEF Request
  <2>4. requests[x].failed > 0 => requests'[x].failed > 0 BY <1>5, <2>3
  <2>5. ChannelsOf(x) # {} => ChannelsOf(x)' # {} BY <1>5
  <2> QED BY <1>1, <1>2, <2>1, <2>2, <2>4, <2>5
<1> QED BY <1>8, <1>9, <1>10 DEF CountInv

(* A new receive thread finds the tables as they are.                      *)
LEMMA CountConnect ==
    ASSUME TypeInv, CountInv, SpawnStep
    PROVE  CountInv'
<1>1. SameRefs /\ SameCounts /\ retained' = retained
  BY DEF SpawnStep, InitThreadLate, InitConnect, tables, SameRefs, SameCounts, Active
<1>2. (\A x : ChannelsOf(x)' = ChannelsOf(x)) /\ requests' = requests /\ Live' = Live
  BY DEF SpawnStep, InitThreadLate, InitConnect, tables, ChannelsOf, ChannelFds, Live
<1>3. Dropping' <=> Dropping
  <2>1. \A t \in Threads : pc'[t] = "dPorts" <=> pc[t] = "dPorts"
    BY DEF SpawnStep, InitThreadLate, InitConnect, LeaveInit, Goto, TypeInv, SessionOK
  <2> QED BY <2>1 DEF Dropping, Deiniters, Threads
<1>4. CountCoversChannels' BY <1>2 DEF CountInv, CountCoversChannels
<1>5. CountExact' BY <1>2, <1>3 DEF CountInv, CountExact
<1>6. CancelledRequestsGoAway'
  BY <1>1, <1>2, <1>3 DEF CountInv, CancelledRequestsGoAway, Dropping, Active
<1> QED BY <1>4, <1>5, <1>6 DEF CountInv

(* A retained request is let go before the thread leaves.                  *)
LEMMA RetainNext ==
    ASSUME TypeInv, RetainInv, [Next]_vars
    PROVE  RetainInv'
<1> USE ThreadsAssumption, NoneAssumption DEF RetainInv, Threads
<1>1. CASE QuietStep BY <1>1 DEF QuietStep, Still
<1>2. CASE SpawnStep
  BY <1>2 DEF SpawnStep, InitConnect, InitThreadLate, LeaveInit, Goto, TypeInv, SessionOK
<1>3. ASSUME NEW t \in Deiniters, DropStep(t) PROVE RetainInv'
  BY <1>3 DEF DropStep, DeinitChannels, DeinitPorts, Deiniters, Goto, TypeInv, SessionOK
<1>4. ASSUME NEW r \in RxThreads, RequestStep(r) PROVE RetainInv'
  <2>1. CASE CloseRequest(r) BY <2>1 DEF CloseRequest, Goto, TypeInv, SessionOK, TablesOK
  <2>2. ASSUME NEW q \in Ports, NEW a \in Addrs, TcpForwardListen(r, q, a) PROVE RetainInv'
    BY <2>2 DEF TcpForwardListen, SignalUnder, Goto, TypeInv, SessionOK
  <2>3. ASSUME NEW q \in Ports, NEW a \in Addrs, TcpForwardCancel(r, q, a) PROVE RetainInv'
    BY <2>3 DEF TcpForwardCancel, Goto, TypeInv, SessionOK
  <2>4. ASSUME NEW soap \in BOOLEAN, NEW w \in Grants, ChannelOpen(r, soap, w) PROVE RetainInv'
    BY <2>4 DEF ChannelOpen, SignalUnder, Goto, TypeInv, SessionOK
  <2>5. ASSUME NEW f \in Fds, ChannelClose(r, f) PROVE RetainInv'
    BY <2>5 DEF ChannelClose, DecreaseChannelCount, Goto, TypeInv, SessionOK, TablesOK
  <2> QED BY <1>4, <2>1, <2>2, <2>3, <2>4, <2>5 DEF RequestStep
<1>5. ASSUME NEW s \in rset, NEW p \in Requests, NEW sent \in BOOLEAN, Accept(s, p, sent)
      PROVE  RetainInv'
  BY <1>5 DEF Accept
<1> QED BY <1>1, <1>2, <1>3, <1>4, <1>5, StepKinds

LEMMA CountNext ==
    ASSUME TypeInv, FdsOwned, RetainInv, CountInv, [Next]_vars
    PROVE  CountInv'
<1>1. CASE QuietStep BY <1>1, CountKept DEF QuietStep
<1>2. ASSUME NEW r \in RxThreads, RequestStep(r) PROVE CountInv'
  BY <1>2, CountCloseRequest, CountListen, CountCancel, CountOpen, CountClose DEF RequestStep
<1> QED BY <1>1, <1>2, StepKinds, CountConnect, CountDrop, CountAccept

LEMMA CountInvCorrect == Spec => [](CountInv /\ RetainInv)
<1>1. Init => CountInv /\ RetainInv
  BY NoneAssumption
  DEF Init, CountInv, CountCoversChannels, CountExact, CancelledRequestsGoAway, RetainInv, Live
<1>2. TypeInv /\ FdsOwned /\ CountInv /\ RetainInv /\ [Next]_vars => CountInv' /\ RetainInv'
  BY CountNext, RetainNext
<1> QED BY <1>1, <1>2, TypeInvCorrect, Ownership, PTL DEF Spec

(* DecreaseChannelCount never reaches zero while a channel still points to *)
(* the request, for any number of channels, requests and threads.          *)
THEOREM CountsCover == Spec => []CountCoversChannels
<1>1. CountInv => CountCoversChannels BY DEF CountInv
<1> QED BY <1>1, CountInvCorrect, PTL

(* A cancelled request is not left behind by its last channel.             *)
THEOREM CancelledGoAway == Spec => []CancelledRequestsGoAway
<1>1. CountInv => CancelledRequestsGoAway BY DEF CountInv
<1> QED BY <1>1, CountInvCorrect, PTL

-----------------------------------------------------------------------------
(* Who may still run *)

DropLabels == {"dPipe", "dChannels", "dPorts", "dReset"}

(* A receive thread that will not take another message.                    *)
Gone(r) == pc[r] \in {"dead", "signalLast"} \/ r \in cancelled

(* Only the last receive thread takes messages, and not after the          *)
(* connection is down; main connects only when it is.  Unless a thread was *)
(* busy when the last one was spawned, the threads before it are past their *)
(* last message and no Deinit that took the connection down still runs.    *)
OneReader  == \A r \in RxThreads \ {rxThread} : Gone(r)
DownIsTold == lme = "DISCONNECTED" /\ rxThread \in RxThreads => Gone(rxThread)
MainIsDown == pc["main"] \in DropLabels \cup {"iConnect"} => lme = "DISCONNECTED"
OldIsIdle  == ~overlap => \A r \in RxThreads \ {rxThread} : pc[r] \in {"dead", "signalLast", "receive"}
RxNotIdle  == \A r \in RxThreads : pc[r] # "idle"
DropIsDown == ~overlap /\ lme = "CONNECTED" => \A t \in Deiniters : pc[t] \notin DropLabels

ControlInv == OneReader /\ DownIsTold /\ MainIsDown /\ OldIsIdle /\ RxNotIdle /\ DropIsDown

(* A move that no part of ControlInv notices.                              *)
CalmMove(t) ==
    \/ pc'[t] = pc[t]
    \/ /\ t \in RxThreads /\ pc[t] \in {"dead", "signalLast"} => pc'[t] \in {"dead", "signalLast"}
       /\ pc[t] = "receive" => t \notin cancelled
       /\ t \in RxThreads => pc'[t] # "idle"
       /\ pc'[t] \in DropLabels => pc[t] \in DropLabels
       /\ pc'[t] = "iConnect" => pc[t] \in DropLabels

CalmStep == UNCHANGED <<session, overlap>> /\ \A t \in Threads : CalmMove(t)

LEMMA ControlKept ==
    ASSUME TypeInv, ControlInv, CalmStep
    PROVE  ControlInv'
<1> USE DEF CalmStep, CalmMove, session, Threads, Deiniters
<1>1. \A r \in RxThreads : Gone(r) => Gone(r)' BY DEF Gone
<1>2. OneReader' BY <1>1 DEF ControlInv, OneReader
<1>3. DownIsTold' BY <1>1 DEF ControlInv, DownIsTold
<1>4. MainIsDown' BY DEF ControlInv, MainIsDown
<1>5. OldIsIdle'
  <2> SUFFICES ASSUME ~overlap, NEW r \in RxThreads \ {rxThread}
               PROVE  pc'[r] \in {"dead", "signalLast", "receive"}
    BY DEF OldIsIdle
  <2>1. pc[r] \in {"dead", "signalLast", "receive"} /\ Gone(r)
    BY DEF ControlInv, OldIsIdle, OneReader
  <2> QED BY <2>1 DEF Gone
<1>6. DropIsDown' BY DEF ControlInv, DropIsDown
<1>7. RxNotIdle' BY DEF ControlInv, RxNotIdle
<1> QED BY <1>2, <1>3, <1>4, <1>5, <1>6, <1>7 DEF ControlInv

LEMMA CalmGoto ==
    ASSUME TypeInv, UNCHANGED <<session, overlap>>, NEW t \in Threads, NEW label, Goto(t, label),
           t \in RxThreads /\ pc[t] \in {"dead", "signalLast"} => label \in {"dead", "signalLast"},
           pc[t] = "receive" => t \notin cancelled,
           t \in RxThreads => label # "idle",
           label \in DropLabels \cup {"iConnect"} => pc[t] \in DropLabels
    PROVE  CalmStep
BY DEF CalmStep, CalmMove, Goto, TypeInv, SessionOK

LEMMA CalmSignal ==
    ASSUME TypeInv, UNCHANGED <<session, overlap>>, NEW lock, NEW t \in Threads, NEW next, NEW blocked,
           SignalUnder(lock, t, next, blocked),
           pc[t] \notin {"dead", "signalLast", "receive"},
           {next, blocked} \cap (DropLabels \cup {"iConnect"}) = {},
           t \in RxThreads => "idle" \notin {next, blocked}
    PROVE  CalmStep
BY CalmGoto DEF SignalUnder

LEMMA CalmStay ==
    ASSUME UNCHANGED <<session, overlap, pc>>
    PROVE  CalmStep
BY DEF CalmStep, CalmMove

LEMMA CalmAccess ==
    ASSUME TypeInv, NEW t \in Threads, NEW from, NEW to, NEW shared \in BOOLEAN,
           UpdateEnterpriseAccess(t, from, to, shared),
           from \notin {"dead", "signalLast", "receive"}, to \notin DropLabels \cup {"iConnect"},
           t \in RxThreads => to # "idle"
    PROVE  CalmStep
<1> USE DEF flags, DropLabels
<1>1. CASE ~shared BY <1>1, CalmGoto DEF UpdateEnterpriseAccess
<1>2. CASE shared BY <1>2, CalmSignal DEF UpdateEnterpriseAccess
<1> QED BY <1>1, <1>2

(* The connection goes down on thread t, which moves on to label, and the  *)
(* receive thread is told.                                                 *)
LEMMA ControlDown ==
    ASSUME TypeInv, ControlInv, LmeDown, overlap' = overlap, NEW t \in Deiniters,
           pc[t] \notin {"dead", "signalLast", "receive"},
           NEW label, label \notin {"iConnect", "idle"},
           \A x \in Threads : \/ x = t /\ pc'[x] = label
                              \/ x # t /\ pc'[x] = pc[x]
    PROVE  ControlInv'
<1> USE ThreadsAssumption DEF LmeDown, Deiniters, Threads, Gone
<1>1. lme' = "DISCONNECTED" /\ rxThread' = rxThread /\ cancelled \subseteq cancelled' OBVIOUS
<1>2. \A r \in RxThreads : Gone(r) => Gone(r)' BY <1>1
<1>3. OneReader' BY <1>1, <1>2 DEF ControlInv, OneReader
<1>4. DownIsTold' BY DEF ControlInv, DownIsTold
<1>5. MainIsDown' BY <1>1 DEF MainIsDown
<1>6. OldIsIdle'
  <2> SUFFICES ASSUME ~overlap, NEW r \in RxThreads \ {rxThread}
               PROVE  pc'[r] \in {"dead", "signalLast", "receive"}
    BY <1>1 DEF OldIsIdle
  <2>1. pc[r] \in {"dead", "signalLast", "receive"} BY DEF ControlInv, OldIsIdle
  <2> QED BY <2>1
<1>7. DropIsDown' BY <1>1 DEF DropIsDown
<1>8. RxNotIdle' BY DEF ControlInv, RxNotIdle
<1> QED BY <1>3, <1>4, <1>5, <1>6, <1>7, <1>8 DEF ControlInv

LEMMA ControlDeinit ==
    ASSUME TypeInv, ControlInv, NEW t \in Deiniters, DeinitStep(t)
    PROVE  ControlInv'
<1> USE ThreadsAssumption DEF flags, Threads, Deiniters, DropLabels
<1>1. CASE DeinitLme(t)
  <2>1. \A x \in Threads : \/ x = t /\ pc'[x] = "dPipe"
                           \/ x # t /\ pc'[x] = pc[x]
    BY <1>1 DEF DeinitLme, Goto, TypeInv, SessionOK
  <2>2. LmeDown /\ overlap' = overlap /\ pc[t] = "dLme" BY <1>1 DEF DeinitLme
  <2> QED BY <2>1, <2>2, ControlDown
<1>2. CASE DeinitPipe(t)
  <2>1. CalmStep BY <1>2 DEF DeinitPipe, CalmStep, CalmMove, TypeInv, SessionOK
  <2> QED BY <2>1, ControlKept
<1>3. CASE DeinitChannels(t)
  BY <1>3, CalmGoto, ControlKept DEF DeinitChannels
<1>4. CASE DeinitPorts(t)
  BY <1>4, CalmGoto, ControlKept DEF DeinitPorts
<1>5. CASE DeinitReset(t)
  BY <1>5, CalmGoto, ControlKept DEF DeinitReset, AfterDeinit
<1> QED BY <1>1, <1>2, <1>3, <1>4, <1>5 DEF DeinitStep

LEMMA ControlReceive ==
    ASSUME TypeInv, ControlInv, NEW r \in RxThreads, ReceiveStep(r)
    PROVE  ControlInv'
<1> USE ThreadsAssumption DEF flags, Threads, Deiniters, DropLabels
<1>1. ASSUME NEW kind \in {"service", "forward"}, Receive(r, kind) PROVE ControlInv'
  BY <1>1, CalmGoto, ControlKept DEF Receive
<1>2. ASSUME NEW supported \in BOOLEAN, ReceiveProtocolVersion(r, supported) PROVE ControlInv'
  BY <1>2, CalmGoto, ControlKept DEF ReceiveProtocolVersion
<1>3. CASE ReceiveDisconnect(r) BY <1>3, CalmGoto, ControlKept DEF ReceiveDisconnect
<1>4. CASE ReceiveError(r)
  <2>1. pc'[r] \in {"dead", "signalLast"} /\ \A x \in Threads \ {r} : pc'[x] = pc[x]
    BY <1>4 DEF ReceiveError, SignalUnder, Goto, TypeInv, SessionOK
  <2>2. lme' = "DISCONNECTED" /\ rxThread' = rxThread /\ overlap' = overlap
    BY <1>4 DEF ReceiveError
  <2>3. \A x \in RxThreads \ {r} : x \in cancelled => x \in cancelled' BY <1>4 DEF ReceiveError
  <2>4. \A x \in RxThreads : Gone(x) => Gone(x)' BY <2>1, <2>3 DEF Gone
  <2>5. OneReader' BY <2>2, <2>4 DEF ControlInv, OneReader
  <2>6. DownIsTold' BY <1>4, <2>1, <2>2 DEF ReceiveError, DownIsTold, Gone
  <2>7. MainIsDown' BY <2>2 DEF MainIsDown
  <2>8. OldIsIdle' BY <2>1, <2>2 DEF ControlInv, OldIsIdle
  <2>9. DropIsDown' BY <2>2 DEF DropIsDown
  <2>10. RxNotIdle' BY <2>1 DEF ControlInv, RxNotIdle
  <2> QED BY <2>5, <2>6, <2>7, <2>8, <2>9, <2>10 DEF ControlInv
<1>5. CASE ReceiveCancelled(r)
  <2>1. pc'[r] = "dead" /\ \A x \in Threads \ {r} : pc'[x] = pc[x]
    BY <1>5 DEF ReceiveCancelled, Goto, TypeInv, SessionOK
  <2>2. UNCHANGED <<lme, rxThread, overlap>> /\ cancelled' = cancelled \ {r}
    BY <1>5 DEF ReceiveCancelled
  <2>3. \A x \in RxThreads : Gone(x) => Gone(x)' BY <2>1, <2>2 DEF Gone
  <2>4. OneReader' BY <2>2, <2>3 DEF ControlInv, OneReader
  <2>5. DownIsTold' BY <2>2, <2>3 DEF ControlInv, DownIsTold
  <2>6. MainIsDown' BY <2>1, <2>2 DEF ControlInv, MainIsDown
  <2>7. OldIsIdle' BY <2>1, <2>2 DEF ControlInv, OldIsIdle
  <2>8. DropIsDown' BY <2>1, <2>2 DEF ControlInv, DropIsDown
  <2>9. RxNotIdle' BY <2>1 DEF ControlInv, RxNotIdle
  <2> QED BY <2>4, <2>5, <2>6, <2>7, <2>8, <2>9 DEF ControlInv
<1>6. CASE ReceiveMessage(r) BY <1>6, CalmGoto, ControlKept DEF ReceiveMessage
<1> QED BY <1>1, <1>2, <1>3, <1>4, <1>5, <1>6 DEF ReceiveStep

LEMMA ControlHandler ==
    ASSUME TypeInv, ControlInv, NEW r \in RxThreads, HandlerStep(r)
    PROVE  ControlInv'
<1> SUFFICES CalmStep BY ControlKept
<1> USE ThreadsAssumption DEF flags, Threads, DropLabels
<1>1. ASSUME NEW name \in {"pfwd", "auth", "other"}, ServiceRequest(r, name) PROVE CalmStep
  BY <1>1, CalmGoto DEF ServiceRequest
<1>2. CASE StatelessRequest(r) BY <1>2, CalmGoto DEF StatelessRequest
<1>3. CASE MalformedRequest(r) BY <1>3, CalmGoto DEF MalformedRequest
<1>4. ASSUME NEW q \in Ports, TcpForwardListenFails(r, q) PROVE CalmStep
  BY <1>4, CalmGoto DEF TcpForwardListenFails
<1>5. ASSUME NEW q \in Ports, NEW a \in Addrs, TcpForwardRefused(r, q, a) PROVE CalmStep
  BY <1>5, CalmGoto DEF TcpForwardRefused
<1>6. ASSUME NEW q \in Ports, NEW a \in Addrs, TcpForwardListen(r, q, a) PROVE CalmStep
  <2>1. UNCHANGED <<session, overlap>> /\ pc[r] = "forward" BY <1>6 DEF TcpForwardListen
  <2>2. \/ SignalUnder("ports", r, "remote", "signalRemote")
        \/ SignalUnder("ports", r, "receive", "signal")
    BY <1>6 DEF TcpForwardListen
  <2> QED BY <2>1, <2>2, CalmSignal
<1>7. ASSUME NEW q \in Ports, NEW a \in Addrs, TcpForwardCancel(r, q, a) PROVE CalmStep
  BY <1>7, CalmGoto DEF TcpForwardCancel
<1>8. ASSUME NEW soap \in BOOLEAN, NEW w \in Grants, ChannelOpen(r, soap, w) PROVE CalmStep
  BY <1>8, CalmSignal DEF ChannelOpen
<1>9. CASE ChannelOpenRefused(r) BY <1>9, CalmGoto DEF ChannelOpenRefused
<1>10. ASSUME NEW f \in Fds, NEW w \in Grants, ChannelOpenConfirmation(r, f, w) PROVE CalmStep
  BY <1>10, CalmSignal DEF ChannelOpenConfirmation
<1>11. ASSUME NEW f \in Fds, NEW w \in Grants, ChannelWindowAdjust(r, f, w) PROVE CalmStep
  <2>1. CASE f \in ChannelFds BY <1>11, <2>1, CalmSignal DEF ChannelWindowAdjust
  <2>2. CASE f \notin ChannelFds BY <1>11, <2>2, CalmGoto DEF ChannelWindowAdjust
  <2> QED BY <2>1, <2>2
<1>12. ASSUME NEW f \in Fds, NEW requestClose \in BOOLEAN, ChannelData(r, f, requestClose)
       PROVE  CalmStep
  BY <1>12, CalmGoto DEF ChannelData
<1>13. ASSUME NEW f \in Fds, ChannelClose(r, f) PROVE CalmStep
  <2>1. UNCHANGED <<session, overlap>> /\ pc[r] = "forward"
        /\ (Goto(r, "receive") \/ Goto(r, "closeRequest"))
    BY <1>13 DEF ChannelClose, DecreaseChannelCount
  <2> QED BY <2>1, CalmGoto
<1>14. CASE CloseRequest(r) BY <1>14, CalmGoto DEF CloseRequest
<1>15. ASSUME NEW shared \in BOOLEAN, RxUpdateAccess(r, shared) PROVE CalmStep
  BY <1>15, CalmAccess DEF RxUpdateAccess
<1> QED BY <1>1, <1>2, <1>3, <1>4, <1>5, <1>6, <1>7, <1>8, <1>9, <1>10, <1>11, <1>12, <1>13,
           <1>14, <1>15 DEF HandlerStep

(* A new receive thread: the one before it is gone, and overlap tells      *)
(* whether another thread is busy.  It is marked when it is late.          *)
LEMMA ControlConnect ==
    ASSUME TypeInv, ControlInv, SpawnStep
    PROVE  ControlInv'
<1> USE ThreadsAssumption DEF Threads, Deiniters, DropLabels
<1>1. CASE LeaveInit /\ UNCHANGED <<session, overlap>>
  <2>1. pc["main"] = "iConnect" BY DEF SpawnStep, InitConnect, InitThreadLate
  <2>2. CalmStep BY <1>1, <2>1, CalmGoto DEF LeaveInit
  <2> QED BY <2>2, ControlKept
<1>2. ASSUME NEW r \in RxThreads, pc[r] = "dead", rxThread' = r,
             NEW label \in {"iWait", "top"}, pc["main"] = "iConnect",
             pc' = [pc EXCEPT !["main"] = label, ![r] = "receive"],
             \/ cancelled' = cancelled /\ lme' = "CONNECTED"
             \/ cancelled' = cancelled \cup {r} /\ lme' = "DISCONNECTED",
             overlap' = SomeoneBusy
      PROVE  ControlInv'
  <2>0. ~overlap' => \A t \in RxThreads \cup SvcThreads : pc[t] \in {"dead", "receive", "idle"}
    BY <1>2 DEF SomeoneBusy
  <2>1. pc'["main"] = label /\ \A x \in Threads \ {"main", r} : pc'[x] = pc[x]
    BY <1>2 DEF TypeInv, SessionOK
  <2>2. pc'[r] = "receive" BY <1>2 DEF TypeInv, SessionOK
  <2>3. lme = "DISCONNECTED" BY <1>2 DEF ControlInv, MainIsDown
  <2>4. OneReader'
    <3> SUFFICES ASSUME NEW x \in RxThreads \ {r} PROVE Gone(x)' BY <1>2 DEF OneReader
    <3>1. Gone(x) BY <2>3 DEF ControlInv, OneReader, DownIsTold
    <3> QED BY <1>2, <2>1, <3>1 DEF Gone
  <2>5. DownIsTold' BY <1>2 DEF DownIsTold, Gone
  <2>6. MainIsDown' BY <2>1 DEF MainIsDown
  <2>7. OldIsIdle'
    <3> SUFFICES ASSUME ~overlap', NEW x \in RxThreads \ {r}
                 PROVE  pc'[x] \in {"dead", "signalLast", "receive"}
      BY <1>2 DEF OldIsIdle
    <3>1. pc'[x] = pc[x] BY <2>1
    <3>2. pc[x] \in {"dead", "receive", "idle"} BY <2>0
    <3>3. pc[x] # "idle" BY DEF ControlInv, RxNotIdle
    <3> QED BY <3>1, <3>2, <3>3
  <2>8. DropIsDown'
    <3> SUFFICES ASSUME ~overlap', NEW t \in Deiniters PROVE pc'[t] \notin DropLabels
      BY DEF DropIsDown
    <3>1. CASE t \in {"main", r} BY <2>1, <2>2, <3>1
    <3>2. CASE t \in RxThreads \cup SvcThreads /\ t # r BY <2>0, <2>1, <3>2
    <3> QED BY <3>1, <3>2
  <2>9. RxNotIdle' BY <2>1, <2>2 DEF ControlInv, RxNotIdle
  <2> QED BY <2>4, <2>5, <2>6, <2>7, <2>8, <2>9 DEF ControlInv
<1>3. CASE InitThreadLate BY <1>2, <1>3 DEF InitThreadLate
<1> QED BY <1>1, <1>2, <1>3 DEF SpawnStep, InitConnect

LEMMA ControlInitStep ==
    ASSUME TypeInv, ControlInv, InitStep
    PROVE  ControlInv'
<1> USE ThreadsAssumption DEF flags, Threads, Deiniters, DropLabels, LeaveInit
<1>1. CASE BeginInit BY <1>1, CalmGoto, ControlKept DEF BeginInit
<1>2. CASE InitVersion BY <1>2, CalmGoto, ControlKept DEF InitVersion
<1>3. CASE InitDone BY <1>3, CalmGoto, ControlKept DEF InitDone
<1>4. ASSUME NEW ok \in BOOLEAN, InitWait(ok) PROVE ControlInv'
  <2>1. CASE ok BY <1>4, <2>1, CalmGoto, ControlKept DEF InitWait
  <2>2. CASE ~ok
    <3>1. \A x \in Threads : \/ x = "main" /\ pc'[x] = "top"
                             \/ x # "main" /\ pc'[x] = pc[x]
      BY <1>4, <2>2 DEF InitWait, Goto, TypeInv, SessionOK
    <3>2. LmeDown /\ overlap' = overlap /\ pc["main"] = "iWait" BY <1>4, <2>2 DEF InitWait
    <3> QED BY <3>1, <3>2, ControlDown
  <2> QED BY <2>1, <2>2
<1>5. ASSUME NEW ok \in BOOLEAN, InitBuffer(ok) PROVE ControlInv'
  <2>1. CalmStep
    BY <1>5 DEF InitBuffer, AdapterStarted, CalmStep, CalmMove, TypeInv, SessionOK
  <2> QED BY <2>1, ControlKept
<1>6. ASSUME NEW ok \in BOOLEAN, InitUpdateAccess(ok) PROVE ControlInv'
  BY <1>6, CalmAccess, ControlKept DEF InitUpdateAccess
<1>7. CASE InitAdapterFails
  <2>1. \A x \in Threads : \/ x = "main" /\ pc'[x] = "top"
                           \/ x # "main" /\ pc'[x] = pc[x]
    BY <1>7 DEF InitAdapterFails, Goto, TypeInv, SessionOK
  <2>2. LmeDown /\ overlap' = overlap /\ pc["main"] = "iBuffer" BY <1>7 DEF InitAdapterFails
  <2> QED BY <2>1, <2>2, ControlDown
<1> QED BY <1>1, <1>2, <1>3, <1>4, <1>5, <1>6, <1>7, ControlConnect DEF InitStep, SpawnStep

LEMMA ControlSelect ==
    ASSUME TypeInv, ControlInv, SelectStep
    PROVE  ControlInv'
<1> SUFFICES CalmStep BY ControlKept
<1> USE ThreadsAssumption DEF flags, Threads, DropLabels
<1>1. CASE BeginSelect BY <1>1, CalmGoto DEF BeginSelect
<1>2. CASE SelectPorts BY <1>2, CalmGoto DEF SelectPorts
<1>3. CASE SelectChannels BY <1>3, CalmGoto DEF SelectChannels
<1>4. CASE SelectCall BY <1>4, CalmGoto DEF SelectCall
<1>5. CASE SelectDone BY <1>5, CalmGoto DEF SelectDone
<1>6. ASSUME NEW R \in SUBSET rset, SelectReturns(R) PROVE CalmStep
  BY <1>6, CalmGoto DEF SelectReturns
<1>7. ASSUME NEW s \in rset, AcceptRefused(s) PROVE CalmStep BY <1>7, CalmStay DEF AcceptRefused
<1>8. ASSUME NEW s \in rset, AcceptBlocks(s) PROVE CalmStep BY <1>8, CalmGoto DEF AcceptBlocks
<1>9. CASE AcceptResumes BY <1>9, CalmGoto DEF AcceptResumes
<1>10. CASE AcceptDone BY <1>10, CalmGoto DEF AcceptDone
<1>11. ASSUME NEW f \in rset, RxCopy(f) PROVE CalmStep
  <2>1. CASE f \in ChannelFds /\ ~channels[f].soap BY <1>11, <2>1, CalmGoto DEF RxCopy
  <2>2. CASE ~(f \in ChannelFds /\ ~channels[f].soap) BY <1>11, <2>2, CalmStay DEF RxCopy
  <2> QED BY <2>1, <2>2
<1>12. ASSUME NEW n \in 0 .. BufSize, RxReceive(n) PROVE CalmStep
  BY <1>12, CalmGoto DEF RxReceive
<1>13. CASE RxApply BY <1>13, CalmGoto DEF RxApply
<1>14. ASSUME NEW s \in rset, NEW p \in Requests, NEW sent \in BOOLEAN, Accept(s, p, sent)
       PROVE  CalmStep
  BY <1>14, CalmStay DEF Accept
<1>15. ASSUME NEW ok \in BOOLEAN, CreateSockets(ok) PROVE CalmStep
  <2>1. \E label \in {"selPorts", "top"} : Goto("main", label) /\ pc["main"] = "sockets"
    BY <1>15, Zenon DEF CreateSockets
  <2>2. UNCHANGED <<session, overlap>> BY <1>15, Zenon DEF CreateSockets
  <2> QED BY <2>1, <2>2, CalmGoto
<1> QED BY <1>1, <1>2, <1>3, <1>4, <1>5, <1>6, <1>7, <1>8, <1>9, <1>10, <1>11, <1>12, <1>13,
           <1>14, <1>15 DEF SelectStep

LEMMA ControlNext ==
    ASSUME TypeInv, ControlInv, [Next]_vars
    PROVE  ControlInv'
<1> USE ThreadsAssumption DEF flags, Threads, DropLabels
<1>1. ASSUME NEW t \in SvcThreads, SvcDeinit(t) PROVE ControlInv'
  BY <1>1, CalmGoto, ControlKept DEF SvcDeinit
<1>2. ASSUME NEW t \in Threads \ {"main"}, SignalResumes(t) PROVE ControlInv'
  <2>1. pc[t] \in {"signal", "signalRemote", "signalLast"} /\ UNCHANGED <<session, overlap>>
    BY <1>2 DEF SignalResumes
  <2>2. PICK label \in {"dead", "remote", "idle", "receive"} :
          /\ Goto(t, label)
          /\ t \in RxThreads => label # "idle" /\ (pc[t] = "signalLast" => label = "dead")
    BY <1>2 DEF SignalResumes
  <2>3. CalmStep BY <1>2, <2>1, <2>2, CalmGoto
  <2> QED BY <2>3, ControlKept
<1>3. ASSUME NEW shared \in BOOLEAN, AdapterUpdateAccess(shared) PROVE ControlInv'
  BY <1>3, CalmAccess, ControlKept DEF AdapterUpdateAccess
<1>4. CASE InitStep BY <1>4, ControlInitStep
<1>5. CASE SelectStep BY <1>5, ControlSelect
<1>6. ASSUME NEW r \in RxThreads, ReceiveStep(r) \/ HandlerStep(r) PROVE ControlInv'
  BY <1>6, ControlReceive, ControlHandler
<1>7. ASSUME NEW t \in Deiniters, DeinitStep(t) PROVE ControlInv' BY <1>7, ControlDeinit
<1>8. CASE UNCHANGED vars BY <1>8, CalmStay, ControlKept DEF vars
<1> QED BY <1>1, <1>2, <1>3, <1>4, <1>5, <1>6, <1>7, <1>8 DEF Next

LEMMA ControlInvCorrect == Spec => []ControlInv
<1>1. Init => ControlInv
  BY ThreadsAssumption, NoneAssumption
  DEF Init, ControlInv, OneReader, DownIsTold, MainIsDown, OldIsIdle, DropIsDown, RxNotIdle, Gone,
      Threads, Deiniters, DropLabels
<1>2. TypeInv /\ ControlInv /\ [Next]_vars => ControlInv' BY ControlNext
<1> QED BY <1>1, <1>2, TypeInvCorrect, PTL DEF Spec

-----------------------------------------------------------------------------
(* References *)

(* The channels that point to a request.                                   *)
Refs == {f \in ChannelFds : channels[f].request # None}

(* ChannelsPointToRequests is kept by the steps that free a request if, at *)
(* each of them, no channel points to it: main has no such channel once it *)
(* has dropped them and until it accepts again; nor has, unless threads    *)
(* overlap, a Deinit on any thread, or a retained request that is no       *)
(* longer active.                                                          *)
MainDropped    == pc["main"] \in {"dPorts", "dReset", "iConnect"} => Refs = {}
DropUnused     == ~overlap /\ Dropping => Refs = {}
RetainedUnused == ~overlap => \A r \in RxThreads, p \in Live :
                                  retained[r] = p /\ ~Active(p) => ChannelsOf(p) = {}

RefInv == MainDropped /\ DropUnused /\ RetainedUnused /\ ChannelsPointToRequests

LEMMA RefsEmpty ==
    ASSUME Refs' = {}
    PROVE  RefInv'
BY NoneAssumption
DEF Refs, RefInv, MainDropped, DropUnused, RetainedUnused, ChannelsPointToRequests, ChannelsOf, Live

LEMMA SameRefsRefs ==
    ASSUME SameRefs
    PROVE  Refs' = Refs
<1>1. ChannelFds' = ChannelFds BY SameRefsOf
<1> QED BY <1>1 DEF Refs, SameRefs, ChannelFds

LEMMA RefsUnchanged ==
    ASSUME channels' = channels
    PROVE  ChannelFds' = ChannelFds /\ Refs' = Refs /\ \A p : ChannelsOf(p)' = ChannelsOf(p)
<1>1. ChannelFds' = ChannelFds BY DEF ChannelFds
<1> QED BY <1>1 DEF Refs, ChannelsOf

(* The thread in a message is the last one, unless threads overlap.        *)
LEMMA OnlyReader ==
    ASSUME ControlInv, ~overlap, NEW r \in RxThreads, pc[r] \notin {"dead", "signalLast", "receive"}
    PROVE  r = rxThread
BY DEF ControlInv, OldIsIdle

LEMMA RefKept ==
    ASSUME TypeInv, RefInv, QuietStep
    PROVE  RefInv'
<1> USE DEF QuietStep
<1>1. Refs' = Refs /\ ChannelFds' = ChannelFds /\ \A p : ChannelsOf(p)' = ChannelsOf(p)
  BY SameRefsOf, SameRefsRefs
<1>2. Live' = Live /\ \A p \in Live : Active(p)' = Active(p) BY DEF SameCounts, Live
<1>3. Dropping' <=> Dropping BY StillDropping
<1>4. MainDropped' BY <1>1 DEF RefInv, MainDropped, Still, Threads
<1>5. DropUnused' BY <1>1, <1>3 DEF RefInv, DropUnused
<1>6. RetainedUnused' BY <1>1, <1>2 DEF RefInv, RetainedUnused
<1>7. ChannelsPointToRequests'
  BY <1>1, <1>2 DEF RefInv, ChannelsPointToRequests, SameRefs, ChannelFds
<1> QED BY <1>4, <1>5, <1>6, <1>7 DEF RefInv

LEMMA RefDrop ==
    ASSUME TypeInv, RefInv, NEW t \in Deiniters, DropStep(t)
    PROVE  RefInv'
<1>1. CASE DeinitChannels(t)
  <2>1. Refs' = {} BY <1>1 DEF DeinitChannels, Refs, ChannelFds
  <2> QED BY <2>1, RefsEmpty
<1>2. CASE DeinitPorts(t)
  <2>1. Refs' = Refs /\ overlap' = overlap BY <1>2, RefsUnchanged DEF DeinitPorts, flags
  <2>2. Dropping BY <1>2 DEF Dropping, DeinitPorts
  <2>3. CASE Refs = {}
    <3>1. Refs' = {} BY <2>1, <2>3
    <3> QED BY <3>1, RefsEmpty
  <2>4. CASE Refs # {}
    <3>1. overlap BY <2>2, <2>4 DEF RefInv, DropUnused
    <3>2. t # "main" /\ pc["main"] \notin {"dPorts", "dReset", "iConnect"}
      BY <1>2, <2>4 DEF RefInv, MainDropped, DeinitPorts
    <3>3. pc'["main"] = pc["main"] BY <1>2, <3>2 DEF DeinitPorts, Goto, TypeInv, SessionOK, Threads
    <3> QED BY <2>1, <3>1, <3>2, <3>3
            DEF RefInv, MainDropped, DropUnused, RetainedUnused, ChannelsPointToRequests
  <2> QED BY <2>3, <2>4
<1> QED BY <1>1, <1>2 DEF DropStep

(* A request goes that no channel points to.                               *)
LEMMA RefDeleted ==
    ASSUME TypeInv, RefInv, NEW p \in Live, requests' = [requests EXCEPT ![p] = None],
           ~overlap => ChannelsOf(p) = {},
           channels' = channels, overlap' = overlap, Dropping' <=> Dropping,
           pc'["main"] = pc["main"],
           \A r \in RxThreads : retained'[r] \in {retained[r], None}
    PROVE  RefInv'
<1> USE NoneAssumption
<1>1. Live' = Live \ {p} /\ \A x \in Live' : requests'[x] = requests[x] /\ x # None
  BY DEF Live, TypeInv, TablesOK
<1>2. Refs' = Refs /\ ChannelFds' = ChannelFds /\ \A x : ChannelsOf(x)' = ChannelsOf(x)
  BY RefsUnchanged
<1>3. MainDropped' BY <1>2 DEF RefInv, MainDropped
<1>4. DropUnused' BY <1>2 DEF RefInv, DropUnused
<1>5. RetainedUnused' BY <1>1, <1>2 DEF RefInv, RetainedUnused, Active
<1>6. ChannelsPointToRequests' BY <1>1, <1>2 DEF RefInv, ChannelsPointToRequests, ChannelsOf
<1> QED BY <1>3, <1>4, <1>5, <1>6 DEF RefInv

(* The request that a thread closes has no channel left.                   *)
LEMMA RefCloseRequest ==
    ASSUME TypeInv, RefInv, NEW r \in RxThreads, CloseRequest(r)
    PROVE  RefInv'
<1> USE ThreadsAssumption, NoneAssumption
<1>1. PICK p : p = retained[r] OBVIOUS
<1>2. channels' = channels /\ overlap' = overlap /\ (Dropping' <=> Dropping)
  BY GotoDropping DEF CloseRequest, Threads, flags
<1>3. \A x \in RxThreads : retained'[x] \in {retained[x], None}
  BY DEF CloseRequest, TypeInv, TablesOK
<1>4. pc'["main"] = pc["main"] BY DEF CloseRequest, Goto, TypeInv, SessionOK, Threads
<1>5. CASE p \in Live /\ ~Active(p)
  <2>1. ~overlap => ChannelsOf(p) = {} BY <1>1, <1>5 DEF RefInv, RetainedUnused
  <2>2. requests' = [requests EXCEPT ![p] = None]
    BY <1>1, <1>5 DEF CloseRequest, ClosePortForwardRequest, DeleteRequest
  <2> QED BY <1>2, <1>3, <1>4, <1>5, <2>1, <2>2, RefDeleted
<1>6. CASE p \notin Live \/ Active(p)
  <2>1. requests' = requests BY <1>1, <1>6 DEF CloseRequest, ClosePortForwardRequest
  <2>2. Live' = Live /\ \A x \in Live : x # None BY <2>1 DEF Live
  <2>3. Refs' = Refs /\ ChannelFds' = ChannelFds /\ \A x : ChannelsOf(x)' = ChannelsOf(x)
    BY <1>2, RefsUnchanged
  <2>4. MainDropped' BY <1>4, <2>3 DEF RefInv, MainDropped
  <2>5. DropUnused' BY <1>2, <2>3 DEF RefInv, DropUnused
  <2>6. RetainedUnused' BY <1>2, <1>3, <2>1, <2>2, <2>3 DEF RefInv, RetainedUnused, Active
  <2>7. ChannelsPointToRequests' BY <1>2, <2>2, <2>3 DEF RefInv, ChannelsPointToRequests
  <2> QED BY <2>4, <2>5, <2>6, <2>7 DEF RefInv
<1> QED BY <1>5, <1>6

LEMMA RefListen ==
    ASSUME TypeInv, RefInv, NEW r \in RxThreads, NEW q \in Ports, NEW a \in Addrs,
           TcpForwardListen(r, q, a)
    PROVE  RefInv'
<1> USE ThreadsAssumption
<1>1. PICK p \in FreeRequests, s \in Fds : requests' = [requests EXCEPT ![p] = NewRequest(q, a, s)]
  BY DEF TcpForwardListen
<1> DEFINE n == NewRequest(q, a, s)
<1>2. n \in Request /\ n.status # "NOT_ACTIVE" BY DEF NewRequest, Request, RequestStatus
<1>3. requests' = [requests EXCEPT ![p] = n] BY <1>1
<1> HIDE DEF n
<1>4. Live' = Live \cup {p} /\ p \notin Live /\ requests'[p] = n
      /\ \A x \in Live : requests'[x] = requests[x]
  BY <1>2, <1>3, NoneAssumption DEF Live, FreeRequests, TypeInv, TablesOK
<1>5. UNCHANGED <<channels, retained, overlap>> /\ pc[r] = "forward" /\ r \in Threads
  BY DEF TcpForwardListen, Threads
<1>6. Refs' = Refs /\ ChannelFds' = ChannelFds /\ \A x : ChannelsOf(x)' = ChannelsOf(x)
  BY <1>5, RefsUnchanged
<1>7. Still
  <2>1. CASE SignalUnder("ports", r, "remote", "signalRemote") BY <1>5, <2>1, StillSignal
  <2>2. CASE SignalUnder("ports", r, "receive", "signal") BY <1>5, <2>2, StillSignal
  <2> QED BY <2>1, <2>2 DEF TcpForwardListen
<1>8. Dropping' <=> Dropping BY <1>7, StillDropping
<1>9. MainDropped' BY <1>6, <1>7 DEF RefInv, MainDropped, Still, Threads
<1>10. DropUnused' BY <1>5, <1>6, <1>8 DEF RefInv, DropUnused
<1>11. RetainedUnused' BY <1>2, <1>4, <1>5, <1>6 DEF RefInv, RetainedUnused, Active
<1>12. ChannelsPointToRequests' BY <1>4, <1>5, <1>6 DEF RefInv, ChannelsPointToRequests
<1> QED BY <1>9, <1>10, <1>11, <1>12 DEF RefInv

(* A request that is cancelled while it has channels is retained by no     *)
(* thread: the only thread that could is the one that cancels it.          *)
LEMMA RefCancel ==
    ASSUME TypeInv, CountInv, RetainInv, ControlInv, RefInv,
           NEW r \in RxThreads, NEW q \in Ports, NEW a \in Addrs, TcpForwardCancel(r, q, a)
    PROVE  RefInv'
<1> USE ThreadsAssumption, NoneAssumption
<1>1. UNCHANGED <<channels, retained, overlap>> /\ pc[r] = "forward" /\ Goto(r, "receive")
      /\ r \in Threads
  BY DEF TcpForwardCancel, flags, Threads
<1>2. pc'["main"] = pc["main"] BY <1>1 DEF Goto, TypeInv, SessionOK, Threads
<1>3. Dropping' <=> Dropping BY <1>1, GotoDropping
<1>4. Refs' = Refs /\ ChannelFds' = ChannelFds /\ \A x : ChannelsOf(x)' = ChannelsOf(x)
  BY <1>1, RefsUnchanged
<1>5. MainDropped' BY <1>2, <1>4 DEF RefInv, MainDropped
<1>6. DropUnused' BY <1>1, <1>3, <1>4 DEF RefInv, DropUnused
<1>7. CASE UNCHANGED requests
  <2>1. Live' = Live BY <1>7 DEF Live
  <2>2. RetainedUnused' BY <1>1, <1>4, <1>7, <2>1 DEF RefInv, RetainedUnused, Active
  <2>3. ChannelsPointToRequests' BY <1>1, <1>4, <2>1 DEF RefInv, ChannelsPointToRequests
  <2> QED BY <1>5, <1>6, <2>2, <2>3 DEF RefInv
<1>8. ASSUME NEW p \in Live, requests[p].count = 0, DeleteRequest(p) PROVE RefInv'
  <2>1. Cardinality(ChannelsOf(p)) + requests[p].failed <= 0
    BY <1>8 DEF CountInv, CountCoversChannels
  <2>2. ChannelsOf(p) = {} BY <2>1, CountTyped, FiniteRefs
  <2> QED BY <1>1, <1>2, <1>3, <1>8, <2>2, RefDeleted DEF DeleteRequest
<1>9. ASSUME NEW p \in Live, requests' = [requests EXCEPT ![p].status = "NOT_ACTIVE"]
      PROVE  RefInv'
  <2>1. p \in Requests /\ requests[p] \in Request BY CountTyped
  <2>2. requests'[p] \in Request /\ \A x \in Requests : x # p => requests'[x] = requests[x]
    BY <1>9, <2>1 DEF Request, RequestStatus, TypeInv, TablesOK
  <2>3. Live' = Live BY <2>1, <2>2 DEF Live
  <2>4. ~overlap => \A x \in RxThreads : retained[x] # p
    BY <1>1, <2>1, OnlyReader DEF RetainInv
  <2>5. RetainedUnused'
    <3> SUFFICES ASSUME ~overlap, NEW x \in RxThreads, NEW y \in Live, retained[x] = y, ~Active(y)'
                 PROVE  ChannelsOf(y) = {}
      BY <1>1, <1>4, <2>3 DEF RetainedUnused
    <3>1. y # p BY <2>4
    <3>2. ~Active(y) BY <2>2, <3>1 DEF Active, Live
    <3> QED BY <3>2 DEF RefInv, RetainedUnused
  <2>6. ChannelsPointToRequests' BY <1>1, <1>4, <2>3 DEF RefInv, ChannelsPointToRequests
  <2> QED BY <1>5, <1>6, <2>5, <2>6 DEF RefInv
<1> QED BY <1>7, <1>8, <1>9 DEF TcpForwardCancel, RequestsAt

LEMMA RefOpen ==
    ASSUME TypeInv, FdsOwned, RefInv, NEW r \in RxThreads, NEW soap \in BOOLEAN,
           NEW w \in Grants, ChannelOpen(r, soap, w)
    PROVE  RefInv'
<1> USE NoneAssumption
<1> DEFINE c == [status |-> "OPEN", tx |-> AddBytesTxWindow(0, w), request |-> None,
                 soap |-> soap, credit |-> w]
<1>1. PICK f \in FreeFds : channels' = [channels EXCEPT ![f] = c] BY DEF ChannelOpen
<1>2. c \in Channel /\ c.request = None
  BY BoundsAssumption DEF Channel, ChannelStatus, AddBytesTxWindow
<1>3. c # None BY <1>2
<1> HIDE DEF c
<1>4. /\ ChannelFds' = ChannelFds \cup {f} /\ f \notin ChannelFds
      /\ \A p \in Requests : ChannelsOf(p)' = ChannelsOf(p)
  BY <1>1, <1>2, <1>3, RefsOpened
<1>5. f \in Fds BY DEF FreeFds
<1>6. channels'[f] = c /\ \A g \in ChannelFds : channels'[g] = channels[g]
  BY <1>1, <1>4, <1>5 DEF ChannelFds, TypeInv, TablesOK
<1>7. Refs' = Refs BY <1>2, <1>4, <1>6 DEF Refs
<1>8. UNCHANGED <<requests, retained, overlap>> /\ Live' = Live /\ Live \subseteq Requests
  BY DEF ChannelOpen, Live, flags
<1>9. Still BY StillSignal DEF ChannelOpen, Threads
<1>10. Dropping' <=> Dropping BY <1>9, StillDropping
<1>11. MainDropped' BY <1>7, <1>9 DEF RefInv, MainDropped, Still, Threads
<1>12. DropUnused' BY <1>7, <1>8, <1>10 DEF RefInv, DropUnused
<1>13. RetainedUnused' BY <1>4, <1>8 DEF RefInv, RetainedUnused, Active
<1>14. ChannelsPointToRequests'
  BY <1>2, <1>4, <1>6, <1>8 DEF RefInv, ChannelsPointToRequests
<1> QED BY <1>11, <1>12, <1>13, <1>14 DEF RefInv

(* A channel goes; its request is retained only when it was the last.      *)
LEMMA RefClose ==
    ASSUME TypeInv, CountInv', RefInv, NEW r \in RxThreads, NEW f \in Fds, ChannelClose(r, f)
    PROVE  RefInv'
<1> USE ThreadsAssumption, NoneAssumption
<1>1. pc[r] = "forward" /\ r \in Threads /\ overlap' = overlap BY DEF ChannelClose, Threads, flags
<1>2. Goto(r, "receive") \/ Goto(r, "closeRequest") BY DEF ChannelClose, DecreaseChannelCount
<1>3. Dropping' <=> Dropping BY <1>1, <1>2, GotoDropping
<1>4. pc'["main"] = pc["main"] BY <1>1, <1>2 DEF Goto, TypeInv, SessionOK, Threads
<1>5. CASE f \notin ChannelFds
  <2>1. UNCHANGED <<requests, channels, retained>> BY <1>5 DEF ChannelClose, tables
  <2>2. Refs' = Refs /\ ChannelFds' = ChannelFds /\ \A x : ChannelsOf(x)' = ChannelsOf(x)
    BY <2>1, RefsUnchanged
  <2>3. Live' = Live BY <2>1 DEF Live
  <2> QED BY <1>1, <1>3, <1>4, <2>1, <2>2, <2>3
          DEF RefInv, MainDropped, DropUnused, RetainedUnused, ChannelsPointToRequests, Active
<1>6. CASE f \in ChannelFds
  <2>1. channels' = [channels EXCEPT ![f] = None] BY <1>6 DEF ChannelClose
  <2>2. ChannelFds' = ChannelFds \ {f} /\ \A x : ChannelsOf(x)' = ChannelsOf(x) \ {f}
    BY <1>6, <2>1, RefsClosed
  <2>3. \A g \in ChannelFds' : channels'[g] = channels[g]
    BY <2>1, <2>2 DEF ChannelFds, TypeInv, TablesOK
  <2>4. Refs' \subseteq Refs BY <2>2, <2>3 DEF Refs
  <2>5. Live' = Live /\ \A x \in Live : Active(x)' = Active(x)
    <3>1. \/ requests' = requests
          \/ \E p \in Live, n \in Nat : requests' = [requests EXCEPT ![p].count = n]
      <4>1. CASE channels[f].request \in Live
        <5>1. requests[channels[f].request].count \in Nat BY <4>1, CountTyped
        <5>2. Decreased(requests[channels[f].request].count) \in Nat BY <5>1 DEF Decreased
        <5>3. channels[f].request # None BY <4>1 DEF Live
        <5> QED BY <1>6, <4>1, <5>2, <5>3 DEF ChannelClose, DecreaseChannelCount
      <4>2. CASE channels[f].request \notin Live
        BY <1>6, <4>2 DEF ChannelClose, DecreaseChannelCount
      <4> QED BY <4>1, <4>2
    <3>2. CASE requests' = requests BY <3>2 DEF Live, Active
    <3>3. ASSUME NEW p \in Live, NEW n \in Nat, requests' = [requests EXCEPT ![p].count = n]
          PROVE  Live' = Live /\ \A x \in Live : Active(x)' = Active(x)
      <4>1. p \in Requests /\ requests[p] \in Request BY CountTyped
      <4>2. /\ requests'[p] \in Request /\ requests'[p].status = requests[p].status
            /\ \A x \in Requests : x # p => requests'[x] = requests[x]
        BY <3>3, <4>1 DEF Request, TypeInv, TablesOK
      <4>3. Live' = Live BY <4>1, <4>2 DEF Live
      <4> QED BY <4>2, <4>3 DEF Active, Live
    <3> QED BY <3>1, <3>2, <3>3
  <2>6. \A x \in Live : retained'[r] = x => retained[r] = x \/ ChannelsOf(x)' = {}
    <3> SUFFICES ASSUME NEW x \in Live, retained'[r] = x, retained[r] # x PROVE ChannelsOf(x)' = {}
      OBVIOUS
    <3>1. x = channels[f].request /\ requests' = [requests EXCEPT ![x].count = 0]
      BY <1>6 DEF ChannelClose, DecreaseChannelCount, TypeInv, TablesOK
    <3>2. x \in Requests /\ requests[x] \in Request /\ requests[x].failed \in Nat BY CountTyped
    <3>3. requests'[x].count = 0 /\ requests'[x].failed = requests[x].failed
      BY <3>1, <3>2 DEF Request, TypeInv, TablesOK
    <3>4. requests'[x].count >= Cardinality(ChannelsOf(x)') + requests'[x].failed
      BY <2>5 DEF CountInv, CountCoversChannels
    <3>5. ChannelsOf(x)' \in SUBSET Fds BY DEF ChannelsOf, ChannelFds
    <3>6. IsFiniteSet(ChannelsOf(x)') BY <3>5, BoundsAssumption, FS_Subset
    <3>7. Cardinality(ChannelsOf(x)') \in Nat BY <3>6, FS_CardinalityType
    <3>8. Cardinality(ChannelsOf(x)') = 0 BY <3>2, <3>3, <3>4, <3>7
    <3> QED BY <3>6, <3>8, FS_EmptySet
  <2>7. \A x \in RxThreads : x # r => retained'[x] = retained[x]
    BY <1>6 DEF ChannelClose, DecreaseChannelCount, TypeInv, TablesOK
  <2>8. MainDropped' BY <1>4, <2>4 DEF RefInv, MainDropped
  <2>9. DropUnused' BY <1>1, <1>3, <2>4 DEF RefInv, DropUnused
  <2>10. RetainedUnused'
    <3> SUFFICES ASSUME ~overlap, NEW y \in RxThreads, NEW x \in Live, retained'[y] = x, ~Active(x)
                 PROVE  ChannelsOf(x)' = {}
      BY <1>1, <2>5 DEF RetainedUnused
    <3>1. retained[y] = x \/ ChannelsOf(x)' = {} BY <2>6, <2>7
    <3>2. retained[y] = x => ChannelsOf(x) = {} BY DEF RefInv, RetainedUnused
    <3> QED BY <2>2, <3>1, <3>2
  <2>11. ChannelsPointToRequests'
    BY <1>1, <2>2, <2>3, <2>5 DEF RefInv, ChannelsPointToRequests
  <2> QED BY <2>8, <2>9, <2>10, <2>11 DEF RefInv
<1> QED BY <1>5, <1>6

(* A request that accepts stays, as active as it was.                      *)
LEMMA AcceptKeeps ==
    ASSUME TypeInv, NEW s \in rset, NEW p \in Requests, NEW sent \in BOOLEAN, Accept(s, p, sent)
    PROVE  Live' = Live /\ \A x \in Live : Active(x)' = Active(x)
<1> USE NoneAssumption
<1>0. p \in Live BY DEF Accept, Acceptors
<1>1. requests[p] \in Request /\ requests[p].count \in Nat BY <1>0, CountTyped
<1>2. /\ requests'[p] \in Request /\ requests'[p].status = requests[p].status
      /\ \A x \in Requests : x # p => requests'[x] = requests[x]
  <2>1. CASE sent
    <3>1. requests' = [requests EXCEPT ![p].count = requests[p].count + 1]
          /\ requests[p].count + 1 \in Nat
      BY <1>1, <2>1 DEF Accept
    <3> QED BY <1>1, <3>1 DEF Request, TypeInv, TablesOK
  <2>2. CASE ~sent
    <3> DEFINE c == [requests[p] EXCEPT !.count = requests[p].count + 1,
                                        !.failed = requests[p].failed + 1]
    <3>1. requests' = [requests EXCEPT ![p] = c] BY <2>2 DEF Accept
    <3>2. requests[p].count + 1 \in Nat /\ requests[p].failed + 1 \in Nat BY <1>0, CountTyped
    <3>3. c \in Request /\ c.status = requests[p].status BY <1>1, <3>2 DEF Request
    <3> HIDE DEF c
    <3> QED BY <3>1, <3>3 DEF TypeInv, TablesOK
  <2> QED BY <2>1, <2>2
<1>3. Live' = Live BY <1>0, <1>2 DEF Live
<1> QED BY <1>2, <1>3 DEF Active, Live

(* A channel points to its request only while the connection is up, when   *)
(* no Deinit is half way.                                                  *)
LEMMA RefAccept ==
    ASSUME TypeInv, FdsOwned, ControlInv, RefInv,
           NEW s \in rset, NEW p \in Requests, NEW sent \in BOOLEAN, Accept(s, p, sent)
    PROVE  RefInv'
<1> USE NoneAssumption
<1>1. p \in Live /\ Active(p) /\ pc["main"] = "accept" /\ UNCHANGED <<pc, retained, overlap>>
  BY DEF Accept, Acceptors, Active, flags
<1>2. Live' = Live /\ \A x \in Live : Active(x)' = Active(x) BY AcceptKeeps
<1>3. CASE ~sent
  <2>1. Refs' = Refs /\ ChannelFds' = ChannelFds /\ (\A x : ChannelsOf(x)' = ChannelsOf(x))
        /\ channels' = channels
    BY <1>3, RefsUnchanged DEF Accept
  <2> QED BY <1>1, <1>2, <2>1
          DEF RefInv, MainDropped, DropUnused, RetainedUnused, ChannelsPointToRequests, Dropping
<1>4. CASE sent
  <2> DEFINE c == [status |-> "NOT_OPENED", tx |-> 0, request |-> p, soap |-> FALSE, credit |-> 0]
  <2>1. PICK f \in FreeFds : channels' = [channels EXCEPT ![f] = c] BY <1>4 DEF Accept
  <2>2. c \in Channel /\ c.request = p BY BoundsAssumption DEF Channel, ChannelStatus
  <2>3. c # None /\ f \in Fds BY <2>2 DEF FreeFds
  <2> HIDE DEF c
  <2>4. /\ ChannelFds' = ChannelFds \cup {f} /\ f \notin ChannelFds
        /\ \A x : x # p => ChannelsOf(x)' = ChannelsOf(x)
    BY <2>1, <2>2, <2>3, RefsOpened
  <2>5. channels'[f] = c /\ \A g \in ChannelFds : channels'[g] = channels[g]
    BY <2>1, <2>3, <2>4 DEF ChannelFds, TypeInv, TablesOK
  <2>6. MainDropped' BY <1>1 DEF MainDropped
  <2>7. ~overlap => ~Dropping
    BY <1>4 DEF Accept, ControlInv, DropIsDown, Dropping, DropLabels
  <2>8. DropUnused' BY <1>1, <2>7 DEF DropUnused, Dropping
  <2>9. RetainedUnused' BY <1>1, <1>2, <2>4 DEF RefInv, RetainedUnused
  <2>10. ChannelsPointToRequests'
    BY <1>1, <1>2, <2>2, <2>4, <2>5 DEF RefInv, ChannelsPointToRequests
  <2> QED BY <2>6, <2>8, <2>9, <2>10 DEF RefInv
<1> QED BY <1>3, <1>4

LEMMA RefNext ==
    ASSUME TypeInv, FdsOwned, CountInv, RetainInv, ControlInv, RefInv, [Next]_vars
    PROVE  RefInv'
<1>1. CountInv' BY CountNext
<1>2. CASE SpawnStep
  <2>1. channels' = channels /\ pc["main"] = "iConnect"
    BY <1>2 DEF SpawnStep, InitConnect, InitThreadLate, tables
  <2>2. Refs' = {} BY <2>1, RefsUnchanged DEF RefInv, MainDropped
  <2> QED BY <2>2, RefsEmpty
<1>3. ASSUME NEW r \in RxThreads, RequestStep(r) PROVE RefInv'
  BY <1>1, <1>3, RefCloseRequest, RefListen, RefCancel, RefOpen, RefClose DEF RequestStep
<1> QED BY <1>2, <1>3, StepKinds, RefKept, RefDrop, RefAccept

LEMMA RefInvCorrect == Spec => []RefInv
<1>1. Init => RefInv
  BY DEF Init, RefInv, MainDropped, DropUnused, RetainedUnused, ChannelsPointToRequests, Refs,
         ChannelFds, Live
<1>2. TypeInv /\ FdsOwned /\ (CountInv /\ RetainInv) /\ ControlInv /\ RefInv /\ [Next]_vars => RefInv'
  BY RefNext
<1> QED BY <1>1, <1>2, TypeInvCorrect, Ownership, CountInvCorrect, ControlInvCorrect, PTL DEF Spec

(* Unless a thread was busy when the last one was spawned, no channel      *)
(* points to a request that was freed, for any number of threads.          *)
THEOREM PointersHold == Spec => []ChannelsPointToRequests
<1>1. RefInv => ChannelsPointToRequests BY DEF RefInv
<1> QED BY <1>1, RefInvCorrect, PTL

(* What a step may free: all requests in Deinit, else one that no channel  *)
(* points to and no receive thread is about to close.                      *)
FreesUnused ==
    \A p \in Live : requests'[p] = None =>
        \/ overlap
        \/ \E t \in Deiniters : pc[t] = "dPorts" /\ pc'[t] = "dReset"
        \/ /\ ChannelsOf(p) = {}
           /\ \A r \in RxThreads : retained'[r] # p

LEMMA FreeStep ==
    ASSUME TypeInv, CountInv, RetainInv, ControlInv, RefInv, [Next]_vars
    PROVE  FreesUnused
<1> USE ThreadsAssumption, NoneAssumption
<1> SUFFICES ASSUME NEW p \in Live, requests'[p] = None, ~overlap
             PROVE  \/ \E t \in Deiniters : pc[t] = "dPorts" /\ pc'[t] = "dReset"
                    \/ ChannelsOf(p) = {} /\ \A r \in RxThreads : retained'[r] # p
  BY DEF FreesUnused
<1>0. p \in Requests /\ requests[p] # None /\ requests[p] \in Request BY CountTyped DEF Live
<1>1. CASE QuietStep BY <1>0, <1>1 DEF QuietStep, SameCounts
<1>2. CASE SpawnStep BY <1>0, <1>2 DEF SpawnStep, InitConnect, InitThreadLate, tables
<1>3. ASSUME NEW t \in Deiniters, DropStep(t)
      PROVE  pc[t] = "dPorts" /\ pc'[t] = "dReset"
  <2>1. CASE DeinitChannels(t) BY <1>0, <2>1 DEF DeinitChannels
  <2>2. CASE DeinitPorts(t)
    BY <2>2 DEF DeinitPorts, Goto, TypeInv, SessionOK, Deiniters, Threads
  <2> QED BY <1>3, <2>1, <2>2 DEF DropStep
<1>4. ASSUME NEW s \in rset, NEW x \in Requests, NEW sent \in BOOLEAN, Accept(s, x, sent)
      PROVE  FALSE
  <2>1. Live' = Live BY <1>4, AcceptKeeps
  <2> QED BY <1>0, <2>1 DEF Live
<1>5. ASSUME NEW r \in RxThreads, RequestStep(r)
      PROVE  ChannelsOf(p) = {} /\ \A x \in RxThreads : retained'[x] # p
  <2>1. CASE CloseRequest(r)
    <3>1. p = retained[r] /\ ~Active(p)
      BY <1>0, <2>1 DEF CloseRequest, ClosePortForwardRequest, DeleteRequest, TypeInv, TablesOK
    <3>2. ChannelsOf(p) = {} BY <3>1 DEF RefInv, RetainedUnused
    <3>3. \A x \in RxThreads : x # r => retained[x] # p BY <1>0, <3>1, OnlyReader DEF RetainInv
    <3> QED BY <1>0, <2>1, <3>2, <3>3 DEF CloseRequest, TypeInv, TablesOK
  <2>2. ASSUME NEW q \in Ports, NEW a \in Addrs, TcpForwardCancel(r, q, a)
        PROVE  ChannelsOf(p) = {} /\ \A x \in RxThreads : retained'[x] # p
    <3>1. requests[p].count = 0
      <4>1. PICK x \in Live : IF requests[x].count = 0 THEN DeleteRequest(x)
                              ELSE requests' = [requests EXCEPT ![x].status = "NOT_ACTIVE"]
        BY <1>0, <2>2 DEF TcpForwardCancel, RequestsAt
      <4>2. x \in Requests /\ requests[x] \in Request BY CountTyped
      <4>3. CASE requests[x].count = 0
        BY <1>0, <4>1, <4>2, <4>3 DEF DeleteRequest, TypeInv, TablesOK
      <4>4. CASE requests[x].count # 0
        <5>1. requests'[x] \in Request
          BY <4>1, <4>2, <4>4 DEF Request, RequestStatus, TypeInv, TablesOK
        <5> QED BY <1>0, <4>1, <4>2, <4>4, <5>1 DEF TypeInv, TablesOK
      <4> QED BY <4>3, <4>4
    <3>2. ChannelsOf(p) = {} BY <3>1, CountTyped, FiniteRefs DEF CountInv, CountCoversChannels
    <3>3. \A x \in RxThreads : retained[x] # p
      BY <1>0, <2>2, OnlyReader DEF RetainInv, TcpForwardCancel
    <3> QED BY <2>2, <3>2, <3>3 DEF TcpForwardCancel
  <2>3. ASSUME NEW q \in Ports, NEW a \in Addrs, TcpForwardListen(r, q, a) PROVE FALSE
    <3>1. PICK x \in FreeRequests, s \in Fds : requests' = [requests EXCEPT ![x] = NewRequest(q, a, s)]
      BY <2>3 DEF TcpForwardListen
    <3>2. x # p BY <1>0 DEF FreeRequests
    <3> QED BY <1>0, <3>1, <3>2 DEF TypeInv, TablesOK
  <2>4. ASSUME NEW soap \in BOOLEAN, NEW w \in Grants, ChannelOpen(r, soap, w) PROVE FALSE
    BY <1>0, <2>4 DEF ChannelOpen
  <2>5. ASSUME NEW f \in Fds, ChannelClose(r, f) PROVE FALSE
    <3>1. \/ requests' = requests
          \/ \E x \in Live : requests' = [requests EXCEPT ![x].count = Decreased(requests[x].count)]
      BY <2>5 DEF ChannelClose, DecreaseChannelCount, tables
    <3>2. ASSUME NEW x \in Live, requests' = [requests EXCEPT ![x].count = Decreased(requests[x].count)]
          PROVE  FALSE
      <4>1. x \in Requests /\ requests[x] \in Request /\ requests[x].count \in Nat BY CountTyped
      <4>2. Decreased(requests[x].count) \in Nat BY <4>1 DEF Decreased
      <4>3. requests'[x] \in Request BY <3>2, <4>1, <4>2 DEF Request, TypeInv, TablesOK
      <4> QED BY <1>0, <3>2, <4>3 DEF TypeInv, TablesOK
    <3> QED BY <1>0, <3>1, <3>2
  <2> QED BY <1>5, <2>1, <2>2, <2>3, <2>4, <2>5 DEF RequestStep
<1> QED BY <1>1, <1>2, <1>3, <1>4, <1>5, StepKinds

(* With the same exception, a request is freed by Deinit, or when no       *)
(* channel and no receive thread points to it any more.                    *)
THEOREM FreedUnused == Spec => RequestFreedUnused
<1>1. TypeInv /\ (CountInv /\ RetainInv) /\ ControlInv /\ RefInv /\ [Next]_vars => [FreesUnused]_vars
  BY FreeStep
<1>2. [][FreesUnused]_vars => RequestFreedUnused BY PTL DEF FreesUnused, RequestFreedUnused
<1> QED BY <1>1, <1>2, TypeInvCorrect, CountInvCorrect, ControlInvCorrect, RefInvCorrect, PTL DEF Spec
=============================================================================
