--------------------------- MODULE MTTcpConnection ---------------------------
(***************************************************************************)
(* One MTTcpConnection, from start to closeAndNotify, over plain TCP, over *)
(* a SOCKS5 proxy and over the WebSocket endpoints that are tried one      *)
(* after the other, each with a GCDAsyncSocket of its own.                 *)
(*                                                                         *)
(* Everything here runs on tcpQueue.  A GCDAsyncSocket works on a queue of *)
(* its own and dispatches a callback, to the delegate it has at that time, *)
(* to tcpQueue, where it waits in cq: a socket that has been given up can  *)
(* still be heard of, and most callbacks do not look at who calls.         *)
(*                                                                         *)
(* The bytes inside the server's frames are cells, numbered in the order   *)
(* the server sends them; packet p takes PacketCells(p) of them, and one   *)
(* of a single cell is a quick ack.                                        *)
(***************************************************************************)
EXTENDS Naturals, Sequences

CONSTANTS
    Modes,        \* the kinds of connection checked: "plain", "socks", "websocket"
    Attempts,     \* WebSocket endpoints: the direct ones and the proxy domains
    NumPackets,   \* bound on the packets the server sends in frames
    MaxFrame      \* bound on the cells of a frame

ASSUME ModesAssumption == Modes \subseteq {"plain", "socks", "websocket"} /\ Modes # {}
ASSUME AttemptsAssumption == Attempts \in Nat
ASSUME PacketsAssumption == NumPackets \in Nat /\ MaxFrame \in Nat

\* The socket of attempt a is a + 1; the other modes have the socket 1.
Sockets == 1..(Attempts + 1)

PacketCells(p) == 1 + (p % 3)

EndOf[p \in 0..NumPackets] == IF p = 0 THEN 0 ELSE EndOf[p - 1] + PacketCells(p)
Total == EndOf[NumPackets]

\* What is read next after the data of a tag, outside the WebSocket; "packet" is
\* the length of the next packet, "closed" is data that is not accepted, and
\* "none" a length of zero, for which GCDAsyncSocket queues no read.
AfterRead ==
    [shortLength  |-> {"longLength", "head", "body", "quickAck", "closed"},
     longLength   |-> {"head", "body", "closed"},
     fullLength   |-> {"packet", "head", "body", "none", "closed"},
     head         |-> {"body"},
     body         |-> {"packet"},
     quickAck     |-> {"packet"},
     socksLogin   |-> {"socksAuth", "socksRequest", "closed"},
     socksAuth    |-> {"socksRequest", "closed"},
     socksRequest |-> {"socksDomain", "socksAddress", "closed"},
     socksDomain  |-> {"socksAddress", "none", "closed"},
     socksAddress |-> {"socksPort"},
     socksPort    |-> {"packet"}]

WebSocketTags == {"httpHeader", "frameHeader", "frameLength", "framePayload"}
Tags == DOMAIN AfterRead \cup WebSocketTags

\* A frame by opcode and fin: a whole message, the beginning, middle and end of
\* a fragmented one, the control frames, and a header with reserved bits, a
\* mask or an unknown opcode.
DataFrames == {"whole", "begin", "middle", "end"}
ControlFrames == {"close", "ping", "pong", "malformed"}
Frame == [kind : DataFrames \cup ControlFrames, cells : 0..MaxFrame]

\* Callbacks on tcpQueue; accept tells whether a response header is valid.
Callback == [sock : Sockets, event : {"connected", "secured", "disconnected"}]
            \cup [sock : Sockets, event : {"read"}, tag : Tags, accept : BOOLEAN]

VARIABLES
    mode,        \* _onegramWebSocket, _socksIp
    intermediate,\* _useIntermediateFormat
    begun,       \* start has run
    socket,      \* _socket (0: nil)
    attempt,     \* _onegramWebSocketAttempt
    ready,       \* _onegramWebSocketReady
    key,         \* the socket for which _onegramWebSocketKey was made (0: nil)
    closed,      \* _closed
    reading,     \* the tag of the read queued on _socket, or "none"
    frame,       \* _onegramWebSocketFrameOpcode, FrameFin and FrameLength
    fragmented,  \* _onegramWebSocketFragment is not nil
    fragment,    \* its cells
    buffer,      \* cells of _onegramWebSocketTransportBuffer
    keyed,       \* _incomingAesCtr is not nil
    timer,       \* _responseTimeoutTimer is set
    cq,          \* callbacks dispatched to tcpQueue, oldest first
    net,         \* external: the state of each GCDAsyncSocket
    attached,    \* external: the sockets whose delegate is the connection
    tls,         \* external: startTLS was called on _socket
    opened,      \* history: how often tcpConnectionOpened was called
    notified,    \* history: how often tcpConnectionClosed was called
    packets,     \* history: packets taken out of the buffer
    arrived,     \* history: cells of all frames handled so far
    deaf         \* history: a length of zero was read

frameVars == <<frame, fragmented, fragment, buffer, packets, arrived>>
socketVars == <<net, attached, tls>>
vars == <<mode, intermediate, begun, socket, attempt, ready, key, closed, reading,
          frameVars, keyed, timer, cq, socketVars, opened, notified, deaf>>

TypeOK ==
    /\ mode \in Modes /\ intermediate \in BOOLEAN /\ begun \in BOOLEAN /\ deaf \in BOOLEAN
    /\ socket \in Sockets \cup {0} /\ attempt \in 0..Attempts
    /\ ready \in BOOLEAN /\ key \in Sockets \cup {0} /\ closed \in BOOLEAN
    /\ reading \in Tags \cup {"none"}
    /\ frame \in Frame /\ fragmented \in BOOLEAN /\ fragment \in 0..Total
    /\ buffer \in 0..Total /\ keyed \in BOOLEAN /\ timer \in BOOLEAN
    /\ cq \in Seq(Callback)
    /\ net \in [Sockets -> {"idle", "connecting", "connected", "secure", "dead"}]
    /\ attached \subseteq Sockets /\ tls \in BOOLEAN
    /\ opened \in Nat /\ notified \in Nat
    /\ packets \in 0..NumPackets /\ arrived \in 0..Total

Init ==
    /\ mode \in Modes /\ begun = FALSE /\ deaf = FALSE
    /\ intermediate \in BOOLEAN /\ (mode = "websocket" => ~intermediate)
    /\ socket = 0 /\ attempt = 0 /\ ready = FALSE /\ key = 0 /\ closed = FALSE
    /\ reading = "none" /\ frame = [kind |-> "pong", cells |-> 0]
    /\ fragmented = FALSE /\ fragment = 0 /\ buffer = 0
    /\ keyed = FALSE /\ timer = FALSE /\ cq = <<>>
    /\ net = [s \in Sockets |-> "idle"] /\ attached = {} /\ tls = FALSE
    /\ opened = 0 /\ notified = 0 /\ packets = 0 /\ arrived = 0

WebSocket == mode = "websocket"
PacketLength == IF intermediate THEN "fullLength" ELSE "shortLength"
Active(s) == net[s] \in {"connecting", "connected", "secure"}
Disconnected(s) == [sock |-> s, event |-> "disconnected"]

-----------------------------------------------------------------------------
(* Closing, and trying the next endpoint, with q left of cq.               *)

\* Mutant of CloseAndNotify: _closed is not looked at.
CloseAgain(q) ==
    /\ closed' = TRUE
    /\ socket' = 0 /\ reading' = "none"
    /\ net' = [s \in Sockets |-> IF s = socket THEN "dead" ELSE net[s]]
    /\ attached' = {}
    /\ cq' = IF socket # 0 /\ Active(socket) THEN Append(q, Disconnected(socket)) ELSE q
    /\ notified' = notified + 1

\* closeAndNotify: the socket is disconnected before it loses its delegate, so
\* that its own disconnect callback follows.
CloseAndNotify(q) ==
    IF closed
      THEN cq' = q /\ UNCHANGED <<closed, socket, reading, net, attached, notified>>
      ELSE /\ closed' = TRUE
           /\ socket' = 0 /\ reading' = "none"
           /\ net' = [s \in Sockets |-> IF s = socket THEN "dead" ELSE net[s]]
           /\ attached' = {}
           /\ cq' = IF socket # 0 /\ Active(socket)
                      THEN Append(q, Disconnected(socket)) ELSE q
           /\ notified' = notified + 1

\* Mutant of PrepareSocket: the old socket keeps its delegate and is not closed.
PrepareBeside(a) ==
    /\ socket' = a + 1
    /\ net' = [net EXCEPT ![a + 1] = "connecting"]
    /\ attached' = attached \cup {a + 1}
    /\ tls' = FALSE

\* onegramPrepareSocket and connectToHost, for attempt a: the old socket loses
\* its delegate before it is disconnected.
PrepareSocket(a) ==
    /\ socket' = a + 1
    /\ net' = [s \in Sockets |-> IF s = a + 1 THEN "connecting"
                                 ELSE IF s = socket THEN "dead" ELSE net[s]]
    /\ attached' = {a + 1}
    /\ tls' = FALSE

\* Mutant of StartAttempt: when no endpoint is left nobody is told.
StartSilently(a, q) ==
    /\ attempt' = Attempts
    /\ ready' = FALSE /\ key' = 0 /\ fragmented' = FALSE /\ fragment' = 0 /\ buffer' = 0
    /\ reading' = "none" /\ cq' = q
    /\ UNCHANGED <<closed, notified, socket, net, attached, tls>>

\* onegramStartWebSocketAttempt from attempt a on: connectToHost may refuse
\* some endpoints at once, or all that are left; the socket that was given up
\* before them is not heard of again.
StartAttempt(a, q) ==
    \/ \E b \in a..Attempts :
         /\ b < Attempts
         /\ attempt' = b
         /\ ready' = FALSE /\ key' = 0 /\ fragmented' = FALSE /\ fragment' = 0
         /\ buffer' = 0
         /\ PrepareSocket(b)
         /\ reading' = "none" /\ cq' = q
         /\ UNCHANGED <<closed, notified>>
    \/ /\ a = Attempts
       /\ attempt' = Attempts
       /\ CloseAndNotify(q)
       /\ UNCHANGED <<ready, key, fragmented, fragment, buffer, tls>>
    \/ /\ a < Attempts
       /\ attempt' = Attempts
       /\ ready' = FALSE /\ key' = 0 /\ fragmented' = FALSE /\ fragment' = 0
       /\ buffer' = 0
       /\ socket' = 0 /\ attached' = {} /\ tls' = FALSE
       /\ net' = [s \in Sockets |-> IF s = socket THEN "dead" ELSE net[s]]
       /\ closed' = TRUE /\ notified' = notified + 1
       /\ reading' = "none" /\ cq' = q

\* onegramWebSocketAttemptFailed.
AttemptFailed(q) == StartAttempt(attempt + 1, q)

-----------------------------------------------------------------------------
(* The transport's calls.                                                  *)

Start ==
    /\ ~begun /\ begun' = TRUE
    /\ \/ /\ WebSocket
          /\ StartAttempt(0, cq)
       \/ /\ ~WebSocket
          /\ PrepareSocket(0)
          /\ reading' = IF mode = "socks" THEN "socksLogin" ELSE PacketLength
          /\ UNCHANGED <<attempt, ready, key, closed, fragmented, fragment, buffer, cq,
                         notified>>
       \/ /\ ~WebSocket
          /\ CloseAndNotify(cq)
          /\ UNCHANGED <<attempt, ready, key, fragmented, fragment, buffer, tls>>
    /\ UNCHANGED <<mode, intermediate, deaf, frame, packets, arrived, keyed, timer,
                   opened>>

Stop ==
    /\ begun /\ ~closed
    /\ CloseAndNotify(cq)
    /\ UNCHANGED <<mode, intermediate, deaf, begun, attempt, ready, key, frameVars,
                   keyed, timer, tls, opened>>

\* sendDatas, when it is accepted: the first payload makes the cipher.
SendDatas(expect) ==
    /\ ~closed /\ socket # 0 /\ (WebSocket => ready)
    /\ keyed' = TRUE
    /\ timer' = (timer \/ expect)
    /\ UNCHANGED <<mode, intermediate, deaf, begun, socket, attempt, ready, key,
                   closed, reading, frameVars,
                   cq, socketVars, opened, notified>>

\* responseTimeout; the timer of a closed connection still fires.
ResponseTimeout ==
    /\ timer /\ timer' = FALSE
    /\ CloseAndNotify(cq)
    /\ UNCHANGED <<mode, intermediate, deaf, begun, attempt, ready, key, frameVars,
                   keyed, tls, opened>>

-----------------------------------------------------------------------------
(* GCDAsyncSocket, external: what a socket does while it has its delegate. *)

Emit(s, state, callback) ==
    /\ s \in attached
    /\ net' = [net EXCEPT ![s] = state]
    /\ cq' = Append(cq, callback)
    /\ UNCHANGED <<mode, intermediate, deaf, begun, socket, attempt, ready, key,
                   closed, frameVars, keyed,
                   timer, attached, tls, opened, notified>>

SocketConnects(s) ==
    /\ net[s] = "connecting"
    /\ Emit(s, "connected", [sock |-> s, event |-> "connected"])
    /\ UNCHANGED reading

SocketSecures(s) ==
    /\ net[s] = "connected" /\ s = socket /\ tls
    /\ Emit(s, "secure", [sock |-> s, event |-> "secured"])
    /\ UNCHANGED reading

\* An error, a timeout or the peer's close.
SocketFails(s) ==
    /\ Active(s)
    /\ Emit(s, "dead", Disconnected(s))
    /\ UNCHANGED reading

\* The read that is queued is complete.
SocketReads(s) ==
    /\ s = socket /\ reading # "none"
    /\ net[s] = IF WebSocket THEN "secure" ELSE "connected"
    /\ \E accept \in BOOLEAN :
         Emit(s, net[s], [sock |-> s, event |-> "read", tag |-> reading, accept |-> accept])
    /\ reading' = "none"

-----------------------------------------------------------------------------
(* The callbacks on tcpQueue.                                              *)

Called(event) == cq # <<>> /\ Head(cq).event = event
Caller == Head(cq).sock

\* socket:didConnectToHost:port: looks neither at the socket nor at _closed.
DidConnect ==
    /\ Called("connected")
    /\ cq' = Tail(cq)
    /\ tls' = (tls \/ (WebSocket /\ socket # 0))
    /\ opened' = IF mode = "plain" THEN opened + 1 ELSE opened
    /\ UNCHANGED <<mode, intermediate, deaf, begun, socket, attempt, ready, key,
                   closed, reading, frameVars,
                   keyed, timer, net, attached, notified>>

\* socketDidSecure: the upgrade is requested.
DidSecure ==
    /\ Called("secured")
    /\ cq' = Tail(cq)
    /\ IF Caller = socket /\ ~closed
         THEN key' = socket /\ reading' = "httpHeader"
         ELSE UNCHANGED <<key, reading>>
    /\ UNCHANGED <<mode, intermediate, deaf, begun, socket, attempt, ready, closed,
                   frameVars, keyed, timer,
                   socketVars, opened, notified>>

\* socketDidDisconnect does not look at the socket.
DidDisconnect ==
    /\ Called("disconnected")
    /\ IF WebSocket /\ ~ready /\ ~closed
         THEN AttemptFailed(Tail(cq))
         ELSE /\ CloseAndNotify(Tail(cq))
              /\ UNCHANGED <<attempt, ready, key, fragmented, fragment, buffer, tls>>
    /\ UNCHANGED <<mode, intermediate, deaf, begun, frame, packets, arrived, keyed,
                   timer, opened>>

DidRead(tag) == Called("read") /\ ~closed /\ Head(cq).tag = tag

\* A read that completed before the connection was closed.
DidReadClosed ==
    /\ Called("read") /\ closed
    /\ cq' = Tail(cq)
    /\ UNCHANGED <<mode, intermediate, deaf, begun, socket, attempt, ready, key,
                   closed, reading, frameVars,
                   keyed, timer, socketVars, opened, notified>>

\* Data of a plain or SOCKS connection; the last answer of the proxy opens it,
\* and the body of a packet ends the wait for a response.
DidReadPlain(tag, next) ==
    /\ DidRead(tag) /\ next \in AfterRead[tag]
    /\ IF next = "closed"
         THEN CloseAndNotify(Tail(cq))
         ELSE /\ reading' = IF next = "packet" THEN PacketLength ELSE next
              /\ cq' = Tail(cq)
              /\ UNCHANGED <<closed, socket, net, attached, notified>>
    /\ opened' = IF tag = "socksPort" THEN opened + 1 ELSE opened
    /\ timer' = (timer /\ tag # "body")
    /\ deaf' = (deaf \/ next = "none")
    /\ UNCHANGED <<mode, intermediate, begun, attempt, ready, key, frameVars, keyed,
                   tls>>

\* The answer to the upgrade: valid only for the key of this attempt.
DidReadHeader ==
    /\ DidRead("httpHeader")
    /\ \/ /\ Head(cq).accept /\ key = Caller
          /\ ready' = TRUE /\ opened' = opened + 1
          /\ reading' = "frameHeader"
          /\ cq' = Tail(cq)
          /\ UNCHANGED <<socket, attempt, key, closed, fragmented, fragment, buffer,
                         socketVars, notified>>
       \/ /\ ~(Head(cq).accept /\ key = Caller)
          /\ AttemptFailed(Tail(cq))
          /\ UNCHANGED opened
    /\ UNCHANGED <<mode, intermediate, deaf, begun, frame, packets, arrived, keyed,
                   timer>>

-----------------------------------------------------------------------------
(* WebSocket frames.                                                       *)

\* Mutant of Parsed: a packet needs one cell more than it has.
ParsedLate[s \in (0..NumPackets) \X (0..Total)] ==
    IF s[1] < NumPackets /\ PacketCells(s[1] + 1) < s[2]
      THEN ParsedLate[<<s[1] + 1, s[2] - PacketCells(s[1] + 1)>>]
      ELSE s

\* The loop of onegramProcessTransportFrame: s has the packets taken out so far
\* and the cells that are left.
Parsed[s \in (0..NumPackets) \X (0..Total)] ==
    IF s[1] < NumPackets /\ PacketCells(s[1] + 1) <= s[2]
      THEN Parsed[<<s[1] + 1, s[2] - PacketCells(s[1] + 1)>>]
      ELSE s

\* Mutant of ProcessTransportFrame: a loop that compares lengths strictly.
ProcessLate(n) ==
    /\ packets' = ParsedLate[<<packets, buffer + n>>][1]
    /\ buffer' = ParsedLate[<<packets, buffer + n>>][2]
    /\ timer' = (timer /\ packets' = packets)

\* onegramProcessTransportFrame with n new cells, and onegramDeliverPacketData
\* for every whole packet.
ProcessTransportFrame(n) ==
    /\ packets' = Parsed[<<packets, buffer + n>>][1]
    /\ buffer' = Parsed[<<packets, buffer + n>>][2]
    /\ timer' = (timer /\ \A p \in (packets + 1)..packets' : PacketCells(p) = 1)

\* Mutant of HandleFrame: after a pong nothing is read.
HandleNoReadAfterPong(f) ==
    /\ reading' = IF f.kind = "pong" THEN "none" ELSE "frameHeader"
    /\ cq' = Tail(cq)
    /\ UNCHANGED <<fragmented, fragment, buffer, packets, arrived, timer, closed,
                   socket, net, attached, notified>>

\* onegramHandleWebSocketFramePayload.  A message above the limit, or a packet
\* with a length of zero or above it, closes the connection after the packets
\* before it were delivered; no cell is looked at after that.
HandleFrame(f) ==
    \/ /\ f.kind = "close"
       /\ CloseAndNotify(Tail(cq))
       /\ UNCHANGED <<fragmented, fragment, buffer, packets, arrived, timer>>
    \/ /\ f.kind \in DataFrames /\ f.cells # 0
       /\ CloseAndNotify(Tail(cq))
       /\ timer' \in {timer, FALSE}
       /\ UNCHANGED <<fragmented, fragment, buffer, packets, arrived>>
    \/ /\ f.kind # "close"
       /\ \/ /\ f.kind \in {"ping", "pong"}
             /\ UNCHANGED <<fragmented, fragment, buffer, packets, arrived, timer>>
          \/ /\ f.kind = "whole"
             /\ ProcessTransportFrame(f.cells)
             /\ arrived' = arrived + f.cells
             /\ UNCHANGED <<fragmented, fragment>>
          \/ /\ f.kind \in {"begin", "middle"}
             /\ fragmented' = TRUE
             /\ fragment' = fragment + f.cells
             /\ arrived' = arrived + f.cells
             /\ UNCHANGED <<buffer, packets, timer>>
          \/ /\ f.kind = "end"
             /\ ProcessTransportFrame(fragment + f.cells)
             /\ arrived' = arrived + f.cells
             /\ fragmented' = FALSE /\ fragment' = 0
       /\ reading' = "frameHeader"
       /\ cq' = Tail(cq)
       /\ UNCHANGED <<closed, socket, net, attached, notified>>

\* A header that is well formed and in its place among the fragments; control
\* frames are short.
Legal(f, long) ==
    /\ f.kind # "malformed"
    /\ f.kind \in ControlFrames => ~long
    /\ f.kind \in {"whole", "begin"} => ~fragmented
    /\ f.kind \in {"middle", "end"} => fragmented

\* What the server may send: it can only encrypt after the control header.
Sendable(f) ==
    /\ f.kind \in ControlFrames => f.cells = 0
    /\ f.cells # 0 => keyed /\ arrived + f.cells <= Total

\* A frame header: an empty payload is handled at once, a long one has its
\* length in a field of its own.
DidReadFrameHeader(f, long) ==
    /\ DidRead("frameHeader") /\ Sendable(f)
    /\ frame' = f
    /\ \/ /\ ~Legal(f, long)
          /\ CloseAndNotify(Tail(cq))
          /\ UNCHANGED <<fragmented, fragment, buffer, packets, arrived, timer>>
       \/ /\ Legal(f, long) /\ f.cells = 0 /\ ~long
          /\ HandleFrame(f)
       \/ /\ Legal(f, long) /\ (f.cells # 0 \/ long)
          /\ reading' = IF long THEN "frameLength" ELSE "framePayload"
          /\ cq' = Tail(cq)
          /\ UNCHANGED <<fragmented, fragment, buffer, packets, arrived, timer,
                         closed, socket, net, attached, notified>>
    /\ UNCHANGED <<mode, intermediate, deaf, begun, attempt, ready, key, keyed, tls,
                   opened>>

\* A length of zero, one in range, or one above the limit.
DidReadFrameLength ==
    /\ DidRead("frameLength")
    /\ \/ /\ frame.cells = 0
          /\ HandleFrame(frame)
       \/ /\ frame.cells # 0
          /\ reading' = "framePayload" /\ cq' = Tail(cq)
          /\ UNCHANGED <<fragmented, fragment, buffer, packets, arrived, timer, closed,
                         socket, net, attached, notified>>
       \/ /\ CloseAndNotify(Tail(cq))
          /\ UNCHANGED <<fragmented, fragment, buffer, packets, arrived, timer>>
    /\ UNCHANGED <<mode, intermediate, deaf, begun, attempt, ready, key, frame, keyed,
                   tls, opened>>

DidReadFramePayload ==
    /\ DidRead("framePayload")
    /\ HandleFrame(frame)
    /\ UNCHANGED <<mode, intermediate, deaf, begun, attempt, ready, key, frame,
                   keyed, tls, opened>>

-----------------------------------------------------------------------------
SocketStep(s) == SocketConnects(s) \/ SocketSecures(s) \/ SocketFails(s)

CallbackStep ==
    \/ DidConnect \/ DidSecure \/ DidDisconnect \/ DidReadClosed \/ DidReadHeader
    \/ \E tag \in DOMAIN AfterRead : \E next \in AfterRead[tag] : DidReadPlain(tag, next)
    \/ \E f \in Frame, long \in BOOLEAN : DidReadFrameHeader(f, long)
    \/ DidReadFrameLength \/ DidReadFramePayload

Next ==
    \/ Start \/ Stop \/ ResponseTimeout
    \/ \E expect \in BOOLEAN : SendDatas(expect)
    \/ \E s \in Sockets : SocketStep(s) \/ SocketReads(s)
    \/ CallbackStep

Spec == Init /\ [][Next]_vars

\* tcpQueue is served.  Of GCDAsyncSocket it is assumed that a socket that is
\* connecting, or negotiating TLS, gets there or fails, and that a read that
\* is queued on a usable socket completes or the socket fails: connecting and
\* the upgrade have a timeout of their own, TLS and SOCKS rely on the peer.
Fairness ==
    /\ WF_vars(Start) /\ WF_vars(CallbackStep)
    /\ \A s \in Sockets : WF_vars(SocketStep(s) \/ SocketReads(s))

FairSpec == Spec /\ Fairness

-----------------------------------------------------------------------------
(* Properties.                                                             *)

\* The callbacks that do not look at their socket are safe once a WebSocket is
\* ready: no callback of an endpoint that was given up is left on tcpQueue, so
\* that none can close or read the connection that was opened after it.
ReadyIsClean ==
    WebSocket /\ ready /\ ~closed => \A i \in 1..Len(cq) : cq[i].sock = socket

\* The transport hears of the end once, and of the opening at most once,
\* however stop, timeouts, errors and late callbacks meet.
ToldOnce == notified = (IF closed THEN 1 ELSE 0) /\ opened <= 1

PendingReads == {i \in 1..Len(cq) : cq[i].event = "read"}

\* The reading of a connection never stalls, unless a length of zero was read,
\* and never doubles: a read is queued, or its data waits on tcpQueue, or the
\* end of the socket does; and there is never a second one.
ReadingGoesOn ==
    begun /\ ~closed /\ (WebSocket => ready)
      => /\ \/ reading # "none" \/ PendingReads # {} \/ deaf
            \/ \E i \in 1..Len(cq) : cq[i].event = "disconnected"
         /\ reading # "none" => PendingReads = {}
         /\ \A i, j \in PendingReads : i = j

\* Fragments, control frames and packets that span frames are put together
\* without losing or repeating a cell, and no whole packet is left waiting.
CellsInOrder ==
    ~closed =>
      /\ arrived = EndOf[packets] + buffer + fragment
      /\ packets < NumPackets => buffer < PacketCells(packets + 1)

\* Every start ends in an open connection or in tcpConnectionClosed, through
\* all endpoints if need be.
StartSettles == begun ~> opened > 0 \/ closed

=============================================================================
