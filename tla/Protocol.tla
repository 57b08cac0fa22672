------------------------------ MODULE Protocol ------------------------------
(***************************************************************************)
(* Port forwarding between local sockets and the LME client of the Intel   *)
(* ME firmware: the tables of UNS/PortForwardingService/Protocol.cpp and   *)
(* the threads that share them.                                            *)
(*                                                                         *)
(*   "main"      LMS_Thread_Impl::svc: Init, then Select in a loop         *)
(*   RxThreads   LMEConnection::_doRX: one receive thread per connection;  *)
(*               an old one may still run when the next one is spawned     *)
(*   SvcThreads  service threads that call Deinit (suspend, HECI removal)  *)
(*   "adapter"   the address change thread of AdapterListInfo              *)
(*                                                                         *)
(* A step is what a thread does while it holds a lock, or between two      *)
(* locks.  _openPorts is the set of live objects in requests: a port maps  *)
(* to the requests whose port field it is (an empty list and no list are   *)
(* treated alike by every reader of the map).  Bytes are counted, not      *)
(* carried.  Descriptor numbers are given out and reused by the kernel.    *)
(***************************************************************************)
EXTENDS Integers, FiniteSets

CONSTANTS
    Ports,          \* TCP ports the firmware asks to forward
    LocalAddrs,     \* bind addresses of local tunnels
    RemoteAddrs,    \* "0.0.0.0" and "::": bind addresses of remote tunnels
    Requests,       \* PortForwardRequest objects
    Fds,            \* socket descriptors, small natural numbers
    RxThreads,      \* receive threads
    SvcThreads,     \* service threads that may call Deinit
    MaxWindow,      \* UINT_MAX: where AddBytesTxWindow saturates
    BufSize,        \* _rxSocketBufferSize while the buffer is allocated
    Grants,         \* window sizes the firmware grants
    MaxCredit,      \* bound of the model: unused window granted to a channel
    MaxFailed,      \* bound of the model: failed channel opens per request
    PipeCap,        \* bytes the signal pipe holds before a send blocks
    None            \* NULL, no thread, no descriptor

Addrs   == LocalAddrs \cup RemoteAddrs
Threads == {"main", "adapter"} \cup RxThreads \cup SvcThreads

ASSUME ThreadsAssumption ==
    /\ RxThreads \cap SvcThreads = {}
    /\ "main" \notin RxThreads \cup SvcThreads
    /\ "adapter" \notin RxThreads \cup SvcThreads

ASSUME BoundsAssumption ==
    /\ MaxWindow \in Nat /\ BufSize \in Nat /\ MaxCredit \in Nat
    /\ MaxFailed \in Nat /\ PipeCap \in Nat \ {0}
    /\ Grants \subseteq Nat /\ Fds \subseteq Nat /\ IsFiniteSet(Fds)

RequestStatus == {"NOT_ACTIVE", "PENDING_REQUEST", "LISTENING"}
ChannelStatus == {"NOT_OPENED", "OPEN", "WAITING_CLOSE"}

(* PortForwardRequest; sock stands for its vector of listening sockets.    *)
(* failed counts the accepted connections whose open request was not sent. *)
Request == [port : Ports, addr : Addrs, sock : Fds, status : RequestStatus,
            count : Nat, failed : Nat]

(* Channel; the key of the map is its socket.  soap tells a SoapChannel    *)
(* from a SocketChannel.  credit is the firmware's view of tx: the window  *)
(* it granted this channel less the bytes it was sent.                     *)
Channel == [status : ChannelStatus, tx : 0 .. MaxWindow, request : Requests \cup {None},
            soap : BOOLEAN, credit : Int]

ASSUME NoneAssumption ==
    /\ None \notin Requests /\ None \notin Fds /\ None \notin Threads
    /\ None \notin Request /\ None \notin Channel

VARIABLES
    lme,             \* LMEConnection::_initState, CONNECTING left out
    rxThread,        \* LMEConnection::_rxThread, the last thread spawned
    cancelled,       \* receive threads marked by aceMgr_->cancel
    handshaking,     \* _handshakingStatus
    pfwdStarted,     \* _pfwdService = STARTED
    requests,        \* the objects of _openPorts, None when not allocated
    channels,        \* _openChannels, None when a key is absent
    openFds,         \* descriptors open in the kernel
    failureReported, \* ports whose _failureReported is true
    pipeOpen, pipe,  \* _signalPipe and the bytes in it
    socketsActive,   \* _sockets_active
    buffer,          \* _rxSocketBuffer is allocated
    portsLock, channelsLock, versionLock,    \* owner of a lock kept between steps
    pc,              \* where each thread is
    retained,        \* closePortForwardRequest of each receive thread
    initing,         \* main is in Init, in no Deinit that leads back to the loop
    rset, fdMin,     \* rset and fdMin of Select()
    current, copyTx, received,   \* s, c->GetTxWindow() and res of _rxFromSocket
    reaped,          \* history: descriptors main works on, closed since it chose them
    overlap          \* history: another thread was busy when rxThread was spawned

tables   == <<requests, channels, openFds, reaped>>
session  == <<lme, rxThread, cancelled>>
protocol == <<handshaking, pfwdStarted>>
wake     == <<pipeOpen, pipe>>
locks    == <<portsLock, channelsLock, versionLock>>
pass     == <<rset, fdMin, current, copyTx, received>>
flags    == <<failureReported, socketsActive, buffer, initing, overlap>>
vars     == <<tables, session, protocol, wake, locks, pass, flags, pc, retained>>

-----------------------------------------------------------------------------
(* The tables *)

Live          == {p \in Requests : requests[p] # None}
RequestsAt(q) == {p \in Live : requests[p].port = q}
Active(p)     == requests[p].status # "NOT_ACTIVE"
ListenFds     == {requests[p].sock : p \in Live}
ChannelFds    == {f \in Fds : channels[f] # None}
ChannelsOf(p) == {f \in ChannelFds : channels[f].request = p}

(* Variant: a channel that is closing, or not open yet, is read as well. *)
EligibleAnyStatus ==
    {f \in ChannelFds : channels[f].tx > 0 /\ ~channels[f].soap}

(* Channels Select() adds to rset: open, with window left, and a socket.   *)
Eligible == {f \in ChannelFds : /\ channels[f].status = "OPEN"
                                /\ channels[f].tx > 0
                                /\ ~channels[f].soap}

(* An object can be allocated at an address nobody still points to; the    *)
(* allocator may also reuse an address that somebody does point to, which  *)
(* the model leaves out so that a dangling pointer stays visible.          *)
FreeRequests == {p \in Requests : /\ requests[p] = None
                                  /\ ChannelsOf(p) = {}
                                  /\ \A r \in RxThreads : retained[r] # p}
FreeFds == Fds \ openFds

AddBytesTxWindow(w, n) == IF n > MaxWindow - w THEN MaxWindow ELSE w + n
(* Variant: without the clamp at zero. *)
RemoveBytesUnchecked(w, n) == w - n

RemoveBytesTxWindow(w, n) == IF w < n THEN 0 ELSE w - n

Goto(t, label) == pc' = [pc EXCEPT ![t] = label]

(* closesocket of a set of descriptors.                                    *)
CloseFds(F) == /\ openFds' = openFds \ F
               /\ reaped' = reaped \cup (F \cap (rset \cup {current}))

(* The end of a step of thread t that calls _signalSelect() under lock:    *)
(* the byte is written, or t blocks in send and keeps the lock.            *)
SignalUnder(lock, t, next, blocked) ==
    IF pipeOpen /\ pipe >= PipeCap
    THEN /\ Goto(t, blocked)
         /\ portsLock' = IF lock = "ports" THEN t ELSE portsLock
         /\ channelsLock' = IF lock = "channels" THEN t ELSE channelsLock
         /\ UNCHANGED <<wake, versionLock>>
    ELSE /\ Goto(t, next)
         /\ pipe' = IF pipeOpen THEN pipe + 1 ELSE pipe
         /\ UNCHANGED <<pipeOpen, locks>>

(* Variant: the sockets close although other requests share them. *)
DeleteRequestAndPort(p) ==
    requests' = [requests EXCEPT ![p] = None] /\ CloseFds({requests[p].sock})

(* _closePortForwardRequest(p), under _portsLock: a request that is not    *)
(* active leaves its list, and the last one closes the listening sockets.  *)
(* A freed object is in no list any more, and the search does not find it. *)
DeleteRequest(p) ==
    /\ requests' = [requests EXCEPT ![p] = None]
    /\ CloseFds(IF RequestsAt(requests[p].port) = {p} THEN {requests[p].sock} ELSE {})

(* Variant: only the last request of a port goes. *)
ClosePortForwardRequestLast(p) ==
    IF p \in Live /\ ~Active(p) /\ RequestsAt(requests[p].port) = {p}
    THEN DeleteRequest(p)
    ELSE UNCHANGED <<requests, openFds, reaped>>

(* Variant: the status is not checked. *)
ClosePortForwardRequestActive(p) ==
    IF p \in Live THEN DeleteRequest(p) ELSE UNCHANGED <<requests, openFds, reaped>>

ClosePortForwardRequest(p) ==
    IF p \in Live /\ ~Active(p)
    THEN DeleteRequest(p)
    ELSE UNCHANGED <<requests, openFds, reaped>>

-----------------------------------------------------------------------------
(* Deinit, by any thread: one step per lock section *)

DeinitLabels == {"dLme", "dPipe", "dChannels", "dPorts", "dReset"}
Deiniters    == {"main"} \cup RxThreads \cup SvcThreads

(* _initLock is kept by a receive thread that blocks in its last signal.   *)
InitLockFree == \A r \in RxThreads : pc[r] # "signalLast"

(* LMEConnection::DeinitInternal, under _initLock.                         *)
LmeDown == /\ lme' = "DISCONNECTED"
           /\ cancelled' = cancelled \cup {r \in RxThreads : r = rxThread /\ pc[r] # "dead"}
           /\ UNCHANGED rxThread

DeinitLme(t) ==
    /\ pc[t] = "dLme"
    /\ InitLockFree
    /\ LmeDown
    /\ Goto(t, "dPipe")
    /\ UNCHANGED <<tables, protocol, wake, locks, pass, flags, retained>>

(* AdapterListInfo::Deinit joins the adapter thread, then the pipe closes. *)
DeinitPipe(t) ==
    /\ pc[t] = "dPipe"
    /\ pc["adapter"] \in {"off", "idle"}
    /\ pc' = [pc EXCEPT ![t] = "dChannels", !["adapter"] = "off"]
    /\ pipeOpen' = FALSE
    /\ pipe' = 0
    /\ UNCHANGED <<tables, session, protocol, locks, pass, flags, retained>>

(* Variant: a channel not open yet, or closing, is forgotten. *)
DeinitOpenChannels(t) ==
    LET F == {f \in ChannelFds : channels[f].status = "OPEN"}
    IN  /\ pc[t] = "dChannels"
        /\ channelsLock = None
        /\ channels' = [f \in Fds |-> IF f \in F THEN None ELSE channels[f]]
        /\ CloseFds(F)
        /\ Goto(t, "dPorts")
        /\ UNCHANGED <<requests, session, protocol, wake, locks, pass, flags, retained>>

DeinitChannels(t) ==
    /\ pc[t] = "dChannels"
    /\ channelsLock = None
    /\ channels' = [f \in Fds |-> None]
    /\ CloseFds(ChannelFds)
    /\ Goto(t, "dPorts")
    /\ UNCHANGED <<requests, session, protocol, wake, locks, pass, flags, retained>>

(* Variant: the listening sockets stay open. *)
DeinitPortsOpen(t) ==
    /\ pc[t] = "dPorts"
    /\ portsLock = None
    /\ requests' = [p \in Requests |-> None]
    /\ Goto(t, "dReset")
    /\ UNCHANGED <<channels, openFds, reaped, session, protocol, wake, locks, pass, flags,
                   retained>>

DeinitPorts(t) ==
    /\ pc[t] = "dPorts"
    /\ portsLock = None
    /\ requests' = [p \in Requests |-> None]
    /\ CloseFds(ListenFds)
    /\ Goto(t, "dReset")
    /\ UNCHANGED <<channels, session, protocol, wake, locks, pass, flags, retained>>

AfterDeinit(t) == IF t \in RxThreads THEN "receive"
                  ELSE IF t \in SvcThreads THEN "idle"
                  ELSE IF initing THEN "iConnect" ELSE "top"

DeinitReset(t) ==
    /\ pc[t] = "dReset"
    /\ buffer' = FALSE
    /\ socketsActive' = FALSE
    /\ handshaking' = "NOT_INITIATED"
    /\ pfwdStarted' = FALSE
    /\ versionLock' = IF versionLock = t THEN None ELSE versionLock
    /\ Goto(t, AfterDeinit(t))
    /\ UNCHANGED <<tables, session, wake, portsLock, channelsLock, pass,
                   failureReported, initing, overlap, retained>>

(* suspend, HECI removal: OnHeciDisable calls Deinit from a service thread *)
SvcDeinit(t) ==
    /\ pc[t] = "idle"
    /\ Goto(t, "dLme")
    /\ UNCHANGED <<tables, session, protocol, wake, locks, pass, flags, retained>>

-----------------------------------------------------------------------------
(* The receive thread: _doRX, _LmeReceive *)

(* _checkProtocolFlow, under _versionLock.  kind is "service" for the two  *)
(* messages that need the version handshake only (SERVICE_REQUEST,         *)
(* USERAUTH_REQUEST), "forward" for all that need the service started too. *)
FlowAllows(kind) ==
    /\ handshaking = "AGREED"
    /\ kind = "service" \/ pfwdStarted

(* A message was read, and testcancel found no mark.  What it is, nothing  *)
(* has looked at yet; the thread may be marked from here on.               *)
ReceiveMessage(r) ==
    /\ pc[r] = "receive"
    /\ r \notin cancelled
    /\ lme = "CONNECTED"
    /\ Goto(r, "check")
    /\ UNCHANGED <<tables, session, protocol, wake, locks, pass, flags, retained>>

(* The message passes the flow check, or the check fails and the thread    *)
(* runs Deinit without letting _versionLock go.                            *)
Receive(r, kind) ==
    /\ pc[r] = "check"
    /\ versionLock = None
    /\ IF FlowAllows(kind)
       THEN Goto(r, kind) /\ UNCHANGED versionLock
       ELSE Goto(r, "dLme") /\ versionLock' = r
    /\ UNCHANGED <<tables, session, protocol, wake, portsLock, channelsLock,
                   pass, flags, retained>>

(* APF_DISCONNECT: Deinit, with no lock held.                              *)
ReceiveDisconnect(r) ==
    /\ pc[r] = "check"
    /\ Goto(r, "dLme")
    /\ UNCHANGED <<tables, session, protocol, wake, locks, pass, flags, retained>>

(* APF_PROTOCOLVERSION, under _versionLock.                                *)
ReceiveProtocolVersion(r, supported) ==
    /\ pc[r] = "check"
    /\ versionLock = None
    /\ IF supported
       THEN /\ handshaking' = "AGREED"
            /\ Goto(r, "receive")
            /\ UNCHANGED versionLock
       ELSE /\ Goto(r, "dLme")
            /\ versionLock' = r
            /\ UNCHANGED handshaking
    /\ UNCHANGED <<tables, session, pfwdStarted, wake, portsLock, channelsLock,
                   pass, flags, retained>>

(* A read that fails, or a message too short to parse: the connection is   *)
(* closed, the thread signals main and ends.  Nothing of Protocol::Deinit  *)
(* runs.  A cancelled thread gets here too when its handle was closed.     *)
ReceiveError(r) ==
    /\ pc[r] \in {"receive", "check"}
    /\ InitLockFree
    /\ lme' = "DISCONNECTED"
    /\ cancelled' = {q \in RxThreads \ {r} : q \in cancelled \/ (q = rxThread /\ pc[q] # "dead")}
    /\ IF socketsActive
       THEN SignalUnder("none", r, "dead", "signalLast")
       ELSE Goto(r, "dead") /\ UNCHANGED <<wake, locks>>
    /\ UNCHANGED <<tables, rxThread, protocol, pass, flags, retained>>

(* testcancel after a message was read: the message is dropped.            *)
ReceiveCancelled(r) ==
    /\ pc[r] = "receive"
    /\ r \in cancelled
    /\ cancelled' = cancelled \ {r}
    /\ Goto(r, "dead")
    /\ UNCHANGED <<tables, lme, rxThread, protocol, wake, locks, pass, flags, retained>>

(* A send into the pipe that had blocked goes through, or fails when the   *)
(* pipe is closed; the lock it was done under is released.                 *)
SignalResumes(t) ==
    /\ pc[t] \in {"signal", "signalRemote", "signalLast"}
    /\ ~pipeOpen \/ pipe < PipeCap
    /\ pipe' = IF pipeOpen THEN pipe + 1 ELSE pipe
    /\ portsLock' = IF portsLock = t THEN None ELSE portsLock
    /\ channelsLock' = IF channelsLock = t THEN None ELSE channelsLock
    /\ Goto(t, CASE pc[t] = "signalLast"   -> "dead"
                 [] pc[t] = "signalRemote" -> "remote"
                 [] t = "adapter"          -> "idle"
                 [] OTHER                  -> "receive")
    /\ UNCHANGED <<tables, session, protocol, pipeOpen, versionLock, pass, flags,
                   retained>>

-----------------------------------------------------------------------------
(* The handlers of _LmeReceive, after the flow check.  Which message it is *)
(* and its fields, which nothing has read so far, are chosen here.         *)

ServiceRequest(r, name) ==
    /\ pc[r] = "service"
    /\ CASE name = "pfwd"  -> versionLock = None /\ pfwdStarted' = TRUE /\ Goto(r, "receive")
         [] name = "auth"  -> Goto(r, "receive") /\ UNCHANGED pfwdStarted
         [] name = "other" -> Goto(r, "dLme") /\ UNCHANGED pfwdStarted
    /\ UNCHANGED <<tables, session, handshaking, wake, locks, pass, flags, retained>>

(* USERAUTH_REQUEST is answered; UDP_SEND_TO uses a socket of its own that *)
(* it closes before it returns; a message of no bytes, or of a type _doRX  *)
(* does not know, is passed over.                                          *)
StatelessRequest(r) ==
    /\ pc[r] \in {"check", "service", "forward"}
    /\ Goto(r, "receive")
    /\ UNCHANGED <<tables, session, protocol, wake, locks, pass, flags, retained>>

(* A message too short for its type, or a type or request that is not      *)
(* known: Disconnect and Deinit, with no lock held.                        *)
MalformedRequest(r) ==
    /\ pc[r] \in {"service", "forward"}
    /\ Goto(r, "dLme")
    /\ UNCHANGED <<tables, session, protocol, wake, locks, pass, flags, retained>>

NewRequest(q, a, s) ==
    [port |-> q, addr |-> a, sock |-> s, count |-> 0, failed |-> 0,
     status |-> IF a \in LocalAddrs THEN "LISTENING" ELSE "PENDING_REQUEST"]

(* The request is refused: its address is already forwarded at this port.  *)
TcpForwardRefused(r, q, a) ==
    /\ pc[r] = "forward"
    /\ portsLock = None
    /\ \E p \in RequestsAt(q) : Active(p) /\ requests[p].addr = a
    /\ Goto(r, "receive")
    /\ UNCHANGED <<tables, session, protocol, wake, locks, pass, flags, retained>>

(* No socket can listen at the port: reply, Disconnect, Deinit.            *)
TcpForwardListenFails(r, q) ==
    /\ pc[r] = "forward"
    /\ portsLock = None
    /\ RequestsAt(q) = {}
    /\ failureReported' = failureReported \cup {q}
    /\ Goto(r, "dLme")
    /\ UNCHANGED <<tables, session, protocol, wake, locks, pass, socketsActive, buffer,
                   initing, overlap, retained>>

(* The port listens, on the sockets it already has or on new ones.  Once   *)
(* no port has a reported failure, a remote tunnel looks for remote access *)
TcpForwardListen(r, q, a) ==
    /\ pc[r] = "forward"
    /\ portsLock = None
    /\ ~ \E p \in RequestsAt(q) : Active(p) /\ requests[p].addr = a
    /\ \E p \in FreeRequests, s \in Fds :
          /\ IF RequestsAt(q) = {} THEN s \in FreeFds
                                   ELSE \E o \in RequestsAt(q) : s = requests[o].sock
          /\ requests' = [requests EXCEPT ![p] = NewRequest(q, a, s)]
          /\ openFds' = openFds \cup {s}
    /\ failureReported' = failureReported \ {q}
    /\ IF a \in RemoteAddrs /\ failureReported \ {q} = {}
       THEN SignalUnder("ports", r, "remote", "signalRemote")
       ELSE SignalUnder("ports", r, "receive", "signal")
    /\ UNCHANGED <<channels, reaped, session, protocol, pass, socketsActive, buffer,
                   initing, overlap, retained>>

TcpForwardCancel(r, q, a) ==
    /\ pc[r] = "forward"
    /\ portsLock = None
    /\ IF \E p \in RequestsAt(q) : Active(p) /\ requests[p].addr = a
       THEN \E p \in RequestsAt(q) :
              /\ Active(p) /\ requests[p].addr = a
              /\ IF requests[p].count = 0
                 THEN DeleteRequest(p)
                 ELSE /\ requests' = [requests EXCEPT ![p].status = "NOT_ACTIVE"]
                      /\ UNCHANGED <<openFds, reaped>>
       ELSE UNCHANGED <<requests, openFds, reaped>>
    /\ Goto(r, "receive")
    /\ UNCHANGED <<channels, session, protocol, wake, locks, pass, flags, retained>>

(* The firmware opens a channel to a local server (soap is FALSE), or one  *)
(* whose other end is the SOAP handler, with a dummy socket as its key.    *)
ChannelOpen(r, soap, w) ==
    /\ pc[r] = "forward"
    /\ channelsLock = None
    /\ \E f \in FreeFds :
          /\ openFds' = openFds \cup {f}
          /\ channels' = [channels EXCEPT ![f] =
                [status |-> "OPEN", tx |-> AddBytesTxWindow(0, w), request |-> None,
                 soap |-> soap, credit |-> w]]
    /\ SignalUnder("channels", r, "receive", "signal")
    /\ UNCHANGED <<requests, reaped, session, protocol, pass, flags, retained>>

ChannelOpenRefused(r) ==
    /\ pc[r] = "forward"
    /\ Goto(r, "receive")
    /\ UNCHANGED <<tables, session, protocol, wake, locks, pass, flags, retained>>

(* The window of f grows by w; the firmware's grants are bounded.          *)
Granted(f, w, status) ==
    /\ channels[f].credit + w <= MaxCredit
    /\ channels' = [channels EXCEPT ![f] =
          [@ EXCEPT !.status = status,
                    !.tx     = AddBytesTxWindow(channels[f].tx, w),
                    !.credit = channels[f].credit + w]]

ChannelOpenConfirmation(r, f, w) ==
    /\ pc[r] = "forward"
    /\ channelsLock = None
    /\ IF f \in ChannelFds THEN Granted(f, w, "OPEN") ELSE UNCHANGED channels
    /\ SignalUnder("channels", r, "receive", "signal")
    /\ UNCHANGED <<requests, openFds, reaped, session, protocol, pass, flags, retained>>

(* Variant: no signal. *)
ChannelWindowAdjustSilent(r, f, w) ==
    /\ pc[r] = "forward"
    /\ channelsLock = None
    /\ IF f \in ChannelFds THEN Granted(f, w, channels[f].status) ELSE UNCHANGED channels
    /\ Goto(r, "receive")
    /\ UNCHANGED <<requests, openFds, reaped, session, protocol, wake, locks, pass, flags,
                   retained>>

ChannelWindowAdjust(r, f, w) ==
    /\ pc[r] = "forward"
    /\ channelsLock = None
    /\ IF f \in ChannelFds
       THEN /\ Granted(f, w, channels[f].status)
            /\ SignalUnder("channels", r, "receive", "signal")
       ELSE Goto(r, "receive") /\ UNCHANGED <<channels, wake, locks>>
    /\ UNCHANGED <<requests, openFds, reaped, session, protocol, pass, flags, retained>>

(* Data for a socket is sent to it; the SOAP handler may ask for a close.  *)
ChannelData(r, f, requestClose) ==
    /\ pc[r] = "forward"
    /\ channelsLock = None
    /\ channels' = IF f \in ChannelFds /\ requestClose /\ channels[f].soap
                                       /\ channels[f].status = "OPEN"
                   THEN [channels EXCEPT ![f].status = "WAITING_CLOSE"]
                   ELSE channels
    /\ Goto(r, "receive")
    /\ UNCHANGED <<requests, openFds, reaped, session, protocol, wake, locks, pass, flags,
                   retained>>

(* Variant: both the handler and the channel give the count back. *)
DecreasedTwice(n) == IF n > 1 THEN n - 2 ELSE 0

Decreased(n) == IF n > 0 THEN n - 1 ELSE 0

(* DecreaseChannelCount of the request of a channel that goes away.  The   *)
(* count of a freed object may read as anything.                           *)
DecreaseChannelCount(r, p) ==
    IF p \in Live
    THEN LET n == Decreased(requests[p].count)
         IN /\ requests' = [requests EXCEPT ![p].count = n]
            /\ IF n = 0
               THEN retained' = [retained EXCEPT ![r] = p] /\ Goto(r, "closeRequest")
               ELSE Goto(r, "receive") /\ UNCHANGED retained
    ELSE /\ \/ retained' = [retained EXCEPT ![r] = p] /\ Goto(r, "closeRequest")
            \/ Goto(r, "receive") /\ UNCHANGED retained
         /\ UNCHANGED requests

(* CHANNEL_CLOSE, CHANNEL_OPEN_FAILURE: the first of two lock sections.    *)
ChannelClose(r, f) ==
    /\ pc[r] = "forward"
    /\ channelsLock = None
    /\ IF f \in ChannelFds
       THEN /\ channels' = [channels EXCEPT ![f] = None]
            /\ CloseFds({f})
            /\ IF channels[f].request # None
               THEN DecreaseChannelCount(r, channels[f].request)
               ELSE Goto(r, "receive") /\ UNCHANGED <<requests, retained>>
       ELSE Goto(r, "receive") /\ UNCHANGED <<tables, retained>>
    /\ UNCHANGED <<session, protocol, wake, locks, pass, flags>>

(* The second: _portsLock is taken after _channelsLock was released.       *)
CloseRequest(r) ==
    /\ pc[r] = "closeRequest"
    /\ portsLock = None
    /\ ClosePortForwardRequest(retained[r])
    /\ retained' = [retained EXCEPT ![r] = None]
    /\ Goto(r, "receive")
    /\ UNCHANGED <<channels, session, protocol, wake, locks, pass, flags>>

(* _updateEnterpriseAccessStatus of thread t: when a suffix is shared, all *)
(* pending requests listen.  Called after a remote TCP_FORWARD_REQUEST, at *)
(* the end of Init, and by the adapter thread.                             *)
UpdateEnterpriseAccess(t, from, to, shared) ==
    /\ pc[t] = from
    /\ IF shared
       THEN /\ portsLock = None
            /\ requests' = [p \in Requests |->
                  IF p \in Live /\ requests[p].status = "PENDING_REQUEST"
                  THEN [requests[p] EXCEPT !.status = "LISTENING"] ELSE requests[p]]
            /\ SignalUnder("ports", t, to, "signal")
       ELSE Goto(t, to) /\ UNCHANGED <<requests, wake, locks>>
    /\ UNCHANGED <<channels, openFds, reaped, session, protocol, pass, flags, retained>>

RxUpdateAccess(r, shared) == UpdateEnterpriseAccess(r, "remote", "receive", shared)

(* _AdapterCallback does nothing when the connection is down.              *)
AdapterUpdateAccess(shared) ==
    /\ lme = "CONNECTED"
    /\ UpdateEnterpriseAccess("adapter", "idle", "idle", shared)

-----------------------------------------------------------------------------
(* The main thread: the loop of LMS_Thread_Impl::svc and Protocol::Init *)

(* IsInitialized() is false: Init, which begins with Deinit.               *)
BeginInit ==
    /\ pc["main"] = "top"
    /\ InitLockFree
    /\ lme # "CONNECTED"
    /\ initing' = TRUE
    /\ Goto("main", "dLme")
    /\ UNCHANGED <<tables, session, protocol, wake, locks, pass, failureReported,
                   socketsActive, buffer, overlap, retained>>

LeaveInit == initing' = FALSE /\ Goto("main", "top")

(* A service thread in Deinit, or a receive thread with a message.         *)
SomeoneBusy == \E t \in RxThreads \cup SvcThreads : pc[t] \notin {"dead", "receive", "idle"}

(* _lme.Init opens the HECI client and spawns a receive thread.            *)
InitConnect ==
    /\ pc["main"] = "iConnect"
    /\ InitLockFree
    /\ \/ /\ \E r \in RxThreads :
                /\ pc[r] = "dead"
                /\ rxThread' = r
                /\ pc' = [pc EXCEPT !["main"] = "iWait", ![r] = "receive"]
          /\ lme' = "CONNECTED"
          /\ UNCHANGED cancelled
          /\ overlap' = SomeoneBusy
          /\ UNCHANGED initing
       \/ /\ LeaveInit
          /\ UNCHANGED <<session, overlap>>
    /\ UNCHANGED <<tables, protocol, wake, locks, pass, failureReported, socketsActive,
                   buffer, retained>>

(* The thread does not start within ten seconds: DeinitInternal marks it,  *)
(* and it runs on until its read fails.                                    *)
InitThreadLate ==
    /\ pc["main"] = "iConnect"
    /\ InitLockFree
    /\ \E r \in RxThreads :
          /\ pc[r] = "dead"
          /\ rxThread' = r
          /\ cancelled' = cancelled \cup {r}
          /\ pc' = [pc EXCEPT !["main"] = "top", ![r] = "receive"]
    /\ lme' = "DISCONNECTED"
    /\ overlap' = SomeoneBusy
    /\ initing' = FALSE
    /\ UNCHANGED <<tables, protocol, wake, locks, pass, failureReported, socketsActive,
                   buffer, retained>>

(* The firmware has five seconds to forward the AMT port.                  *)
InitWait(portIsOk) ==
    /\ pc["main"] = "iWait"
    /\ IF portIsOk THEN Goto("main", "iVersion") /\ UNCHANGED <<session, initing>>
                   ELSE LeaveInit /\ InitLockFree /\ LmeDown
    /\ UNCHANGED <<tables, protocol, wake, locks, pass, failureReported, socketsActive,
                   buffer, overlap, retained>>

InitVersion ==
    /\ pc["main"] = "iVersion"
    /\ versionLock = None
    /\ handshaking' = IF handshaking = "NOT_INITIATED" THEN "INITIATED" ELSE handshaking
    /\ Goto("main", "iBuffer")
    /\ UNCHANGED <<tables, session, pfwdStarted, wake, locks, pass, flags, retained>>

(* AdapterListInfo::Init starts the adapter thread, or the connection is   *)
(* given up.                                                               *)
AdapterStarted(label) == pc' = [pc EXCEPT !["main"] = label,
                                          !["adapter"] = IF @ = "off" THEN "idle" ELSE @]

InitAdapterFails ==
    /\ pc["main"] = "iBuffer"
    /\ InitLockFree
    /\ LeaveInit
    /\ LmeDown
    /\ UNCHANGED <<tables, protocol, wake, locks, pass, failureReported, socketsActive,
                   buffer, overlap, retained>>

(* Then the buffer is allocated, or Deinit runs when its size would not be *)
(* positive, and Init has failed.                                          *)
InitBuffer(sizeOk) ==
    /\ pc["main"] = "iBuffer"
    /\ IF sizeOk THEN AdapterStarted("iRemote") /\ buffer' = TRUE /\ UNCHANGED initing
                 ELSE AdapterStarted("dLme") /\ initing' = FALSE /\ UNCHANGED buffer
    /\ UNCHANGED <<tables, session, protocol, wake, locks, pass, failureReported,
                   socketsActive, overlap, retained>>

InitUpdateAccess(shared) == UpdateEnterpriseAccess("main", "iRemote", "iDone", shared)

InitDone ==
    /\ pc["main"] = "iDone"
    /\ LeaveInit
    /\ UNCHANGED <<tables, session, protocol, wake, locks, pass, failureReported,
                   socketsActive, buffer, overlap, retained>>

(* IsInitialized() is true.                                                *)
BeginSelect ==
    /\ pc["main"] = "top"
    /\ lme = "CONNECTED"
    /\ Goto("main", "sockets")
    /\ UNCHANGED <<tables, session, protocol, wake, locks, pass, flags, retained>>

(* The signal pipe is opened unless it is active; when that fails the loop *)
(* begins again.                                                           *)
CreateSockets(ok) ==
    /\ pc["main"] = "sockets"
    /\ IF socketsActive
       THEN Goto("main", "selPorts") /\ UNCHANGED <<socketsActive, wake>>
       ELSE /\ Goto("main", IF ok THEN "selPorts" ELSE "top")
            /\ socketsActive' = ok
            /\ pipeOpen' = (ok \/ pipeOpen)
            /\ pipe' = IF ok THEN 0 ELSE pipe
    /\ UNCHANGED <<tables, session, protocol, locks, pass, failureReported, buffer, initing,
                   overlap, retained>>

-----------------------------------------------------------------------------
(* Select and _rxFromSocket *)

SelectPorts ==
    /\ pc["main"] = "selPorts"
    /\ portsLock = None
    /\ rset' = ListenFds
    /\ Goto("main", "selChannels")
    /\ UNCHANGED <<tables, session, protocol, wake, locks, fdMin, current, copyTx, received,
                   flags, retained>>

SelectChannels ==
    /\ pc["main"] = "selChannels"
    /\ channelsLock = None
    /\ rset' = rset \cup Eligible
    /\ \/ Eligible = {} /\ fdMin' = None
       \/ fdMin' \in Eligible /\ \A f \in Eligible : fdMin' <= f
    /\ Goto("main", "selCall")
    /\ UNCHANGED <<tables, session, protocol, wake, locks, current, copyTx, received, flags,
                   retained>>

PassOver == /\ rset' = {} /\ fdMin' = None /\ reaped' = {}
            /\ current' = None /\ copyTx' = 0 /\ received' = 0

(* select(): a descriptor that was closed since it was added, the pipe's   *)
(* too, makes it fail with EBADF, and svc calls Deinit.  A pipe that was   *)
(* closed before Select() took its handle is undefined behaviour: FD_SET   *)
(* of -1 does the same, or leaves main to wait without it.                 *)
SelectCall ==
    /\ pc["main"] = "selCall"
    /\ \/ /\ rset \subseteq openFds
          /\ Goto("main", IF pipeOpen THEN "select" ELSE "selectBlind")
          /\ UNCHANGED <<pass, reaped>>
       \/ /\ ~(rset \subseteq openFds /\ pipeOpen)
          /\ Goto("main", "dLme")
          /\ PassOver
    /\ UNCHANGED <<requests, channels, openFds, session, protocol, wake, locks, flags,
                   retained>>

(* select() returns when the pipe can be read (or was closed) or some      *)
(* descriptors are ready; one byte is read from the pipe.                  *)
SelectReturns(R) ==
    /\ \/ pc["main"] = "select" /\ (R # {} \/ pipe > 0 \/ ~pipeOpen)
       \/ pc["main"] = "selectBlind" /\ R # {}
    /\ rset' = R
    /\ reaped' = reaped \cap R
    /\ pipe' = IF pc["main"] = "select" /\ pipe > 0 THEN pipe - 1 ELSE pipe
    /\ Goto("main", "accept")
    /\ UNCHANGED <<requests, channels, openFds, session, protocol, pipeOpen, locks, fdMin,
                   current, copyTx, received, flags, retained>>

Acceptors(s) == {p \in Live : requests[p].sock = s /\ requests[p].status = "LISTENING"}

(* _acceptConnection for an acceptor that is ready, under _portsLock which *)
(* main keeps from one to the next.  The connection is refused when no     *)
(* request permits it; otherwise the channel is opened under _channelsLock *)
AcceptRefused(s) ==
    /\ pc["main"] = "accept"
    /\ portsLock \in {None, "main"}
    /\ s \in rset \cap ListenFds
    /\ rset' = rset \ {s}
    /\ reaped' = reaped \ {s}
    /\ portsLock' = "main"
    /\ UNCHANGED <<requests, channels, openFds, session, protocol, wake, channelsLock, versionLock, fdMin, current, copyTx, received, flags, pc, retained>>

(* accept() waits, with _portsLock held, when the descriptor that select   *)
(* found ready was closed and given to a new acceptor nobody connected to. *)
AcceptBlocks(s) ==
    /\ pc["main"] = "accept"
    /\ portsLock \in {None, "main"}
    /\ s \in rset \cap ListenFds \cap reaped
    /\ portsLock' = "main"
    /\ Goto("main", "acceptWait")
    /\ UNCHANGED <<tables, session, protocol, wake, channelsLock, versionLock, pass, flags,
                   retained>>

AcceptResumes ==
    /\ pc["main"] = "acceptWait"
    /\ reaped' = reaped \ ListenFds
    /\ Goto("main", "accept")
    /\ UNCHANGED <<requests, channels, openFds, session, protocol, wake, locks, pass, flags,
                   retained>>

Accept(s, p, sent) ==
    /\ pc["main"] = "accept"
    /\ portsLock \in {None, "main"}
    /\ channelsLock = None
    /\ InitLockFree
    /\ s \in rset \cap ListenFds
    /\ p \in Acceptors(s)
    /\ IF sent
       THEN /\ lme = "CONNECTED"
            /\ \E f \in FreeFds :
                  /\ openFds' = openFds \cup {f}
                  /\ channels' = [channels EXCEPT ![f] =
                        [status |-> "NOT_OPENED", tx |-> 0, request |-> p,
                         soap |-> FALSE, credit |-> 0]]
            /\ requests' = [requests EXCEPT ![p].count = @ + 1]
       ELSE /\ requests[p].failed < MaxFailed
            /\ requests' = [requests EXCEPT ![p] =
                     [@ EXCEPT !.count = requests[p].count + 1,
                               !.failed = requests[p].failed + 1]]
            /\ UNCHANGED <<openFds, channels>>
    /\ rset' = rset \ {s}
    /\ reaped' = reaped \ {s}
    /\ portsLock' = "main"
    /\ UNCHANGED <<session, protocol, wake, channelsLock, versionLock, fdMin, current, copyTx, received, flags, pc, retained>>

AcceptDone ==
    /\ pc["main"] = "accept"
    /\ portsLock \in {None, "main"}
    /\ rset \cap ListenFds = {}
    /\ portsLock' = None
    /\ Goto("main", "rxLoop")
    /\ UNCHANGED <<tables, session, protocol, wake, channelsLock, versionLock, pass, flags,
                   retained>>

(* The loop over rset starts at the lowest channel that was selected.      *)
ToRead == {f \in rset : fdMin # None /\ f >= fdMin}

(* _rxFromSocket, first lock section: the channel is looked up and copied. *)
RxCopy(f) ==
    /\ pc["main"] = "rxLoop"
    /\ channelsLock = None
    /\ f \in ToRead
    /\ rset' = rset \ {f}
    /\ reaped' = reaped \ {f}
    /\ IF f \in ChannelFds /\ ~channels[f].soap
       THEN /\ current' = f
            /\ copyTx' = channels[f].tx
            /\ Goto("main", "recv")
       ELSE UNCHANGED <<current, copyTx, pc>>
    /\ UNCHANGED <<requests, channels, openFds, session, protocol, wake, locks, fdMin,
                   received, flags, retained>>

(* Variant: the window is not looked at. *)
BytesToReadUnlimited == IF buffer THEN BufSize ELSE 0

BytesToRead == IF ~buffer THEN 0 ELSE IF copyTx < BufSize THEN copyTx ELSE BufSize

(* recv and _lme.ChannelData, with no lock.  n = 0 stands for a connection *)
(* that was closed and for an error.                                       *)
RxReceive(n) ==
    /\ pc["main"] = "recv"
    /\ n <= BytesToRead
    /\ n > 0 => InitLockFree
    /\ received' = n
    /\ channels' = IF current \in reaped THEN channels
                   ELSE [channels EXCEPT ![current].credit = @ - n]
    /\ Goto("main", "apply")
    /\ UNCHANGED <<requests, openFds, reaped, session, protocol, wake, locks, rset,
                   fdMin, current, copyTx, flags, retained>>

(* Second lock section: the channel is looked up again by its descriptor.  *)
RxApply ==
    /\ pc["main"] = "apply"
    /\ channelsLock = None
    /\ received = 0 => InitLockFree
    /\ channels' =
         IF channels[current] = None THEN channels
         ELSE IF received > 0
         THEN [channels EXCEPT ![current].tx = RemoveBytesTxWindow(@, received)]
         ELSE [channels EXCEPT ![current].status = "WAITING_CLOSE"]
    /\ current' = None /\ copyTx' = 0 /\ received' = 0
    /\ reaped' = reaped \ {current}
    /\ Goto("main", "rxLoop")
    /\ UNCHANGED <<requests, openFds, session, protocol, wake, locks, rset,
                   fdMin, flags, retained>>

SelectDone ==
    /\ pc["main"] = "rxLoop"
    /\ ToRead = {}
    /\ PassOver
    /\ Goto("main", "top")
    /\ UNCHANGED <<requests, channels, openFds, session, protocol, wake, locks, flags,
                   retained>>

-----------------------------------------------------------------------------
Init ==
    /\ lme = "DISCONNECTED" /\ rxThread = None /\ cancelled = {}
    /\ handshaking = "NOT_INITIATED" /\ pfwdStarted = FALSE
    /\ requests = [p \in Requests |-> None]
    /\ channels = [f \in Fds |-> None]
    /\ openFds = {} /\ reaped = {}
    /\ failureReported = {}
    /\ pipeOpen = FALSE /\ pipe = 0 /\ socketsActive = FALSE /\ buffer = FALSE
    /\ portsLock = None /\ channelsLock = None /\ versionLock = None
    /\ pc = [t \in Threads |-> IF t = "main" THEN "top" ELSE IF t = "adapter" THEN "off"
                               ELSE IF t \in RxThreads THEN "dead" ELSE "idle"]
    /\ retained = [r \in RxThreads |-> None]
    /\ initing = FALSE /\ overlap = FALSE
    /\ rset = {} /\ fdMin = None
    /\ current = None /\ copyTx = 0 /\ received = 0

DeinitStep(t) == \/ DeinitLme(t) \/ DeinitPipe(t) \/ DeinitChannels(t)
                 \/ DeinitPorts(t) \/ DeinitReset(t)

ReceiveStep(r) ==
    \/ ReceiveMessage(r)
    \/ \E kind \in {"service", "forward"} : Receive(r, kind)
    \/ \E supported \in BOOLEAN : ReceiveProtocolVersion(r, supported)
    \/ ReceiveDisconnect(r) \/ ReceiveError(r) \/ ReceiveCancelled(r)

HandlerStep(r) ==
    \/ \E name \in {"pfwd", "auth", "other"} : ServiceRequest(r, name)
    \/ StatelessRequest(r) \/ MalformedRequest(r)
    \/ \E q \in Ports : TcpForwardListenFails(r, q)
    \/ \E q \in Ports, a \in Addrs : \/ TcpForwardRefused(r, q, a)
                                     \/ TcpForwardListen(r, q, a)
                                     \/ TcpForwardCancel(r, q, a)
    \/ \E soap \in BOOLEAN, w \in Grants : ChannelOpen(r, soap, w)
    \/ ChannelOpenRefused(r)
    \/ \E f \in Fds, w \in Grants : \/ ChannelOpenConfirmation(r, f, w)
                                    \/ ChannelWindowAdjust(r, f, w)
    \/ \E f \in Fds, requestClose \in BOOLEAN : ChannelData(r, f, requestClose)
    \/ \E f \in Fds : ChannelClose(r, f)
    \/ CloseRequest(r)
    \/ \E shared \in BOOLEAN : RxUpdateAccess(r, shared)

InitStep ==
    \/ BeginInit \/ InitConnect \/ InitThreadLate \/ InitVersion \/ InitAdapterFails
    \/ InitDone
    \/ \E ok \in BOOLEAN : InitWait(ok) \/ InitBuffer(ok) \/ InitUpdateAccess(ok)

SelectStep ==
    \/ BeginSelect \/ (\E ok \in BOOLEAN : CreateSockets(ok))
    \/ SelectPorts \/ SelectChannels \/ SelectCall \/ SelectDone
    \/ \E R \in SUBSET rset : SelectReturns(R)
    \/ \E s \in rset : AcceptRefused(s) \/ AcceptBlocks(s)
    \/ \E s \in rset, p \in Requests, sent \in BOOLEAN : Accept(s, p, sent)
    \/ AcceptResumes \/ AcceptDone
    \/ \E f \in rset : RxCopy(f)
    \/ \E n \in 0 .. BufSize : RxReceive(n)
    \/ RxApply

Next ==
    \/ InitStep \/ SelectStep
    \/ \E r \in RxThreads : ReceiveStep(r) \/ HandlerStep(r)
    \/ \E t \in SvcThreads : SvcDeinit(t)
    \/ \E t \in Deiniters : DeinitStep(t)
    \/ \E t \in Threads \ {"main"} : SignalResumes(t)
    \/ \E shared \in BOOLEAN : AdapterUpdateAccess(shared)

Spec == Init /\ [][Next]_vars

-----------------------------------------------------------------------------
(* Properties *)

MainLabels == DeinitLabels \cup {"top", "iConnect", "iWait", "iVersion", "iBuffer", "iRemote",
    "iDone", "sockets", "selPorts", "selChannels", "selCall", "select", "selectBlind",
    "accept", "acceptWait", "rxLoop", "recv", "apply", "signal"}
RxLabels   == DeinitLabels \cup {"dead", "check", "service", "forward", "receive",
    "closeRequest", "remote", "signal", "signalRemote", "signalLast"}
SvcLabels  == DeinitLabels \cup {"idle"}

FlagsOK ==
    /\ pfwdStarted \in BOOLEAN /\ pipeOpen \in BOOLEAN /\ socketsActive \in BOOLEAN
    /\ buffer \in BOOLEAN /\ initing \in BOOLEAN /\ overlap \in BOOLEAN

TablesOK ==
    /\ requests \in [Requests -> Request \cup {None}]
    /\ channels \in [Fds -> Channel \cup {None}]
    /\ openFds \subseteq Fds /\ reaped \subseteq Fds
    /\ retained \in [RxThreads -> Requests \cup {None}]

PassOK ==
    /\ rset \subseteq Fds /\ fdMin \in Fds \cup {None}
    /\ current \in Fds \cup {None} /\ copyTx \in Nat /\ received \in Nat

SessionOK ==
    /\ lme \in {"DISCONNECTED", "CONNECTED"}
    /\ rxThread \in RxThreads \cup {None} /\ cancelled \subseteq RxThreads
    /\ handshaking \in {"NOT_INITIATED", "INITIATED", "AGREED"}
    /\ failureReported \subseteq Ports /\ pipe \in 0 .. PipeCap
    /\ {portsLock, channelsLock, versionLock} \subseteq Threads \cup {None}
    /\ pc \in [Threads -> MainLabels \cup RxLabels \cup SvcLabels \cup {"off"}]

(* Type invariant: every variable keeps the domain its declaration names.  *)
TypeOK == FlagsOK /\ TablesOK /\ PassOK /\ SessionOK

(* No socket is leaked or closed twice: the descriptors that are open are  *)
(* exactly those of the channels and those the port requests listen on,    *)
(* none belongs to both, and requests share sockets only within one port.  *)
FdsOwned ==
    /\ openFds = ChannelFds \cup ListenFds
    /\ ChannelFds \cap ListenFds = {}
    /\ \A p, q \in Live : requests[p].sock = requests[q].sock
                             <=> requests[p].port = requests[q].port

(* DecreaseChannelCount never runs ahead: the count of a request covers    *)
(* its channels, so that a count of zero means that no channel is left     *)
(* that points to it.                                                      *)
CountCoversChannels ==
    \A p \in Live : requests[p].count >= Cardinality(ChannelsOf(p)) + requests[p].failed

(* A request that was cancelled goes away with its last channel.  It stays *)
(* only while a channel points to it, the receive thread is about to close *)
(* it, a Deinit has dropped the channels and not yet the ports, or an open *)
(* request could not be sent: that one is counted and never given back.    *)
CancelledRequestsGoAway ==
    \A p \in Live : \/ Active(p) \/ requests[p].failed > 0 \/ ChannelsOf(p) # {}
                    \/ \E r \in RxThreads : retained[r] = p
                    \/ \E t \in Deiniters : pc[t] = "dPorts"

(* No channel points to a freed request, unless the connection was made    *)
(* while another thread was still in Deinit or in a message of the one     *)
(* before.                                                                 *)
ChannelsPointToRequests ==
    ~overlap => \A f \in ChannelFds : channels[f].request \in Live \cup {None}

(* The bytes sent for a channel never exceed the window the firmware       *)
(* granted it, although window, data and descriptor may change between the *)
(* two lock sections of _rxFromSocket.                                     *)
WindowNotOverdrawn == \A f \in ChannelFds : channels[f].credit >= 0

(* No wake-up is lost: while main waits in select() with no signal in the  *)
(* pipe, it watches every acceptor and every channel that can be read.     *)
SelectWatchesAll ==
    pc["main"] = "select" /\ pipeOpen /\ pipe = 0
       => ListenFds \cup Eligible \subseteq rset \ reaped

(* A request object is freed only by Deinit, or when it has no channel and *)
(* no receive thread is about to close it; the same exception applies.     *)
RequestFreedUnused ==
    [][\A p \in Live : requests'[p] = None =>
          \/ overlap
          \/ \E t \in Deiniters : pc[t] = "dPorts" /\ pc'[t] = "dReset"
          \/ /\ ChannelsOf(p) = {}
             /\ \A r \in RxThreads : retained'[r] # p]_vars

(* Protocol implements FirmwareView.                                       *)
ViewState(status) ==
    CASE status = "NOT_OPENED"    -> "opening"
      [] status = "OPEN"          -> "open"
      [] status = "WAITING_CLOSE" -> "closing"

ViewOf(c) == IF c = None THEN [state |-> "closed", credit |-> 0]
             ELSE [state |-> ViewState(c.status), credit |-> c.credit]

ChannelView == [f \in Fds |-> ViewOf(channels[f])]

Firmware == INSTANCE FirmwareView WITH view <- ChannelView

(* What the firmware sees of the channels keeps the promise: data stays    *)
(* within the window and stops when the close was asked for, although main *)
(* reads from copies and other threads close and reuse descriptors between *)
(* its steps.                                                              *)
ChannelsAsPromised == Firmware!ViewSpec

(* The comment in _rxFromSocket at a SoapChannel: "Should not happen, we   *)
(* can't receive data from unconnected SOAP socket".  No descriptor that   *)
(* main is about to read from is the dummy socket of a SOAP channel.       *)
NoDataFromSoapChannel ==
    pc["main"] = "rxLoop" /\ channelsLock = None
       => \A f \in ToRead \cap ChannelFds : ~channels[f].soap
=============================================================================
