----------------------- MODULE MTTcpConnectionProofs -----------------------
(***************************************************************************)
(* Proofs about MTTcpConnection, for any number of endpoints and in all    *)
(* modes: however callbacks of sockets that were given up, closes, stops   *)
(* and timeouts meet on tcpQueue, the transport is told once, a WebSocket  *)
(* that became ready is not disturbed by an older endpoint, and there is   *)
(* always exactly one read under way.                                      *)
(***************************************************************************)
EXTENDS MTTcpConnection, KeepSeqTheorems

-----------------------------------------------------------------------------
(* The inductive invariant.                                                *)

PlainTags == {"shortLength", "longLength", "fullLength", "head", "body", "quickAck"}
SocksTags == {"socksLogin", "socksAuth", "socksRequest", "socksDomain", "socksAddress",
              "socksPort"}

Elements(q) == {q[i] : i \in 1..Len(q)}

\* The order in which one socket calls: no kind of callback twice while the
\* first one waits.
Rank(e) == IF e = "connected" THEN 1 ELSE IF e = "secured" THEN 2
           ELSE IF e = "read" THEN 3 ELSE 4

Before(c, d) == \/ c.sock < d.sock
                \/ (c.sock = d.sock /\ Rank(c.event) < Rank(d.event))

Ordered(q) == \A i, j \in 1..Len(q) : i < j => Before(q[i], q[j])

NoRead(q) == \A c \in Elements(q) : c.event # "read"

NetStates == {"idle", "connecting", "connected", "secure", "dead"}

Types ==
    /\ mode \in Modes /\ intermediate \in BOOLEAN /\ begun \in BOOLEAN /\ deaf \in BOOLEAN
    /\ socket \in Sockets \cup {0} /\ attempt \in 0..Attempts
    /\ ready \in BOOLEAN /\ key \in Sockets \cup {0} /\ closed \in BOOLEAN
    /\ reading \in Tags \cup {"none"}
    /\ timer \in BOOLEAN /\ cq \in Seq(Callback)
    /\ net \in [Sockets -> NetStates]
    /\ tls \in BOOLEAN /\ (tls => WebSocket)
    /\ opened \in {0, 1} /\ notified = (IF closed THEN 1 ELSE 0)

\* What is known before start, while the connection is in use and after it was
\* closed.
Phase ==
    /\ ~begun => /\ ~closed /\ attempt = 0 /\ socket = 0 /\ attached = {} /\ cq = <<>>
                 /\ ~ready /\ key = 0 /\ reading = "none" /\ ~timer /\ opened = 0
    /\ begun /\ ~closed => socket = attempt + 1 /\ attached = {socket}
    /\ closed => socket = 0 /\ attached = {} /\ reading = "none"
    /\ ~WebSocket => attempt = 0 /\ ~ready

\* A callback that waits was made by the socket of this or an earlier attempt,
\* in a state that the socket has at least reached.
Possible(c) ==
    /\ c.sock <= attempt + 1
    /\ c.event = "connected" => net[c.sock] \notin {"idle", "connecting"}
    /\ c.event = "secured" => net[c.sock] \in {"secure", "dead"} /\ WebSocket
    /\ c.event = "read" => net[c.sock] \in {IF WebSocket THEN "secure" ELSE "connected", "dead"}
    /\ c.event = "disconnected" => net[c.sock] = "dead"

QueueGood == Ordered(cq) /\ \A c \in Elements(cq) : Possible(c)

\* A key is made when nothing of an earlier endpoint is left on tcpQueue, and
\* nothing is read before.
Keys ==
    WebSocket /\ ~closed =>
      \/ key = 0 /\ ~ready /\ reading = "none" /\ NoRead(cq)
      \/ /\ key = socket /\ net[socket] \in {"secure", "dead"}
         /\ \A c \in Elements(cq) : c.sock = socket /\ c.event \in {"read", "disconnected"}

OneRead == reading # "none" => NoRead(cq)

\* A tag that may be read in this mode and state.
TagFits(t) ==
    /\ mode = "plain" => t \in PlainTags
    /\ mode = "socks" => t \in PlainTags \/ (t \in SocksTags /\ opened = 0)
    /\ WebSocket => t \in WebSocketTags /\ (t = "httpHeader" <=> ~ready)

TagsFit ==
    ~closed => /\ reading # "none" => TagFits(reading)
               /\ \A c \in Elements(cq) : c.event = "read" => TagFits(c.tag)

\* What has led to tcpConnectionOpened cannot happen again.
OpensOnce ==
    /\ WebSocket => opened = (IF ready THEN 1 ELSE 0)
    /\ mode = "plain" /\ opened = 1 =>
         /\ net[1] \notin {"idle", "connecting"}
         /\ \A c \in Elements(cq) : c.event # "connected"

GoesOn ==
    begun /\ ~closed /\ (WebSocket => ready)
      => reading # "none" \/ deaf \/ ~NoRead(cq)

ConnInv ==
    /\ Types /\ Phase /\ QueueGood /\ Keys /\ OneRead /\ TagsFit /\ OpensOnce /\ GoesOn

-----------------------------------------------------------------------------
(* Lemmas about the queue and the tags.                                    *)

\* The tags of the plain and the SOCKS dialogue are those AfterRead tells of.
LEMMA TagDomain == DOMAIN AfterRead = PlainTags \cup SocksTags
  BY DEF AfterRead, PlainTags, SocksTags

\* Reading stays among the tags of the proxy until its last answer.
LEMMA NextTag ==
    ASSUME NEW tag \in DOMAIN AfterRead, NEW next \in AfterRead[tag]
    PROVE  /\ tag \in PlainTags => next \in PlainTags \cup {"packet", "none", "closed"}
           /\ tag \in SocksTags => next \in SocksTags \cup {"packet", "none", "closed"}
           /\ tag = "socksPort" => next = "packet"
           /\ tag \in SocksTags /\ next = "packet" => tag = "socksPort"
  <1>1. tag \in PlainTags \cup SocksTags
    BY TagDomain
  <1>2. CASE tag \in PlainTags
    BY <1>2 DEF AfterRead, PlainTags, SocksTags
  <1>3. CASE tag \in SocksTags
    BY <1>3 DEF AfterRead, PlainTags, SocksTags
  <1> QED BY <1>1, <1>2, <1>3

\* The three dialogues share no tag, and the marks are none.
LEMMA TagSets ==
    /\ Tags = PlainTags \cup SocksTags \cup WebSocketTags
    /\ PlainTags \cap SocksTags = {}
    /\ (PlainTags \cup SocksTags) \cap WebSocketTags = {}
    /\ "none" \notin Tags /\ "packet" \notin Tags /\ "closed" \notin Tags
  BY TagDomain DEF Tags, PlainTags, SocksTags, WebSocketTags

\* Every attempt has a socket, and 0 is none.
LEMMA SocketNumbers ==
    /\ Attempts \in Nat /\ 0 \notin Sockets /\ 1 \in Sockets
    /\ \A s \in Sockets : s \in Nat
    /\ \A a \in 0..Attempts : a + 1 \in Sockets
  BY AttemptsAssumption DEF Sockets

\* What a callback says.
LEMMA CallbackFields ==
    ASSUME NEW c \in Callback
    PROVE  /\ c.sock \in Sockets
           /\ c.event \in {"connected", "secured", "read", "disconnected"}
           /\ c.event = "read" => c.tag \in Tags
  BY DEF Callback

\* The callbacks that sockets make are callbacks.
LEMMA CallbackKinds ==
    ASSUME NEW s \in Sockets
    PROVE  /\ [sock |-> s, event |-> "connected"] \in Callback
           /\ [sock |-> s, event |-> "secured"] \in Callback
           /\ Disconnected(s) \in Callback
           /\ \A t \in Tags, accept \in BOOLEAN :
                [sock |-> s, event |-> "read", tag |-> t, accept |-> accept] \in Callback
  BY DEF Callback, Disconnected

\* A queue is its head and its rest.
LEMMA ElementsOfTail ==
    ASSUME NEW q \in Seq(Callback), q # <<>>
    PROVE  /\ Tail(q) \in Seq(Callback)
           /\ Head(q) \in Elements(q)
           /\ Elements(q) = {Head(q)} \cup Elements(Tail(q))
  <1>1. /\ Tail(q) \in Seq(Callback) /\ Head(q) = q[1]
        /\ Len(q) \in Nat /\ Len(q) # 0 /\ Len(Tail(q)) = Len(q) - 1
        /\ \A i \in 1..Len(Tail(q)) : Tail(q)[i] = q[i + 1]
    BY HeadTailProperties, LenProperties
  <1>2. Head(q) \in Elements(q)
    BY <1>1 DEF Elements
  <1>3. Elements(Tail(q)) \subseteq Elements(q)
    BY <1>1 DEF Elements
  <1>4. ASSUME NEW c \in Elements(q), c # Head(q)
        PROVE  c \in Elements(Tail(q))
    <2>1. PICK i \in 1..Len(q) : c = q[i]
      BY <1>4 DEF Elements
    <2>2. i - 1 \in 1..Len(Tail(q)) /\ Tail(q)[i - 1] = q[i]
      <3>1. i # 1
        BY <2>1, <1>4, <1>1
      <3>2. i - 1 \in 1..Len(Tail(q))
        BY <3>1, <1>1
      <3>3. Tail(q)[i - 1] = q[(i - 1) + 1]
        BY <3>2, <1>1
      <3> QED BY <3>2, <3>3
    <2> QED BY <2>1, <2>2 DEF Elements
  <1> QED BY <1>1, <1>2, <1>3, <1>4

\* What is appended is the only new element.
LEMMA ElementsOfAppend ==
    ASSUME NEW q \in Seq(Callback), NEW c \in Callback
    PROVE  /\ Append(q, c) \in Seq(Callback)
           /\ Elements(Append(q, c)) = Elements(q) \cup {c}
  <1>1. /\ Append(q, c) \in Seq(Callback)
        /\ Len(q) \in Nat /\ Len(Append(q, c)) = Len(q) + 1
        /\ \A i \in 1..Len(q) : Append(q, c)[i] = q[i]
        /\ Append(q, c)[Len(q) + 1] = c
    BY AppendProperties, LenProperties
  <1>2. \A i \in 1..(Len(q) + 1) : i \in 1..Len(q) \/ i = Len(q) + 1
    BY <1>1
  <1>3. Elements(Append(q, c)) \subseteq Elements(q) \cup {c}
    BY <1>1, <1>2 DEF Elements
  <1>4. Elements(q) \cup {c} \subseteq Elements(Append(q, c))
    <2>1. \A i \in 1..Len(q) : i \in 1..(Len(q) + 1)
      BY <1>1
    <2>2. Len(q) + 1 \in 1..(Len(q) + 1)
      BY <1>1
    <2> QED BY <1>1, <2>1, <2>2 DEF Elements
  <1> QED BY <1>1, <1>3, <1>4

\* A queue holds callbacks.
LEMMA ElementsInCallback ==
    ASSUME NEW q \in Seq(Callback)
    PROVE  Elements(q) \subseteq Callback
  BY ElementOfSeq DEF Elements

\* The head of an ordered queue comes before the rest, which is ordered.
LEMMA OrderedTail ==
    ASSUME NEW q \in Seq(Callback), q # <<>>, Ordered(q)
    PROVE  /\ Ordered(Tail(q))
           /\ \A c \in Elements(Tail(q)) : Before(Head(q), c)
  <1>1. /\ Head(q) = q[1]
        /\ Len(q) \in Nat /\ Len(q) # 0 /\ Len(Tail(q)) = Len(q) - 1
        /\ \A i \in 1..Len(Tail(q)) : Tail(q)[i] = q[i + 1]
    BY HeadTailProperties, LenProperties
  <1>2. \A i \in 1..Len(Tail(q)) : i + 1 \in 1..Len(q)
    BY <1>1
  <1>3. Ordered(Tail(q))
    <2> SUFFICES ASSUME NEW i \in 1..Len(Tail(q)), NEW j \in 1..Len(Tail(q)), i < j
                 PROVE  Before(Tail(q)[i], Tail(q)[j])
      BY DEF Ordered
    <2>1. i + 1 < j + 1
      BY <1>1
    <2>2. Before(q[i + 1], q[j + 1])
      BY <1>2, <2>1 DEF Ordered
    <2> QED BY <2>2, <1>1
  <1>4. ASSUME NEW c \in Elements(Tail(q))
        PROVE  Before(Head(q), c)
    <2>1. PICK i \in 1..Len(Tail(q)) : c = q[i + 1]
      BY <1>1 DEF Elements
    <2>2. 1 \in 1..Len(q) /\ i + 1 \in 1..Len(q) /\ 1 < i + 1
      BY <1>1, <1>2
    <2> QED BY <2>1, <2>2, <1>1 DEF Ordered
  <1> QED BY <1>3, <1>4

\* A queue stays ordered when its last callback comes after all others.
LEMMA OrderedAppend ==
    ASSUME NEW q \in Seq(Callback), NEW c \in Callback, Ordered(q),
           \A d \in Elements(q) : Before(d, c)
    PROVE  Ordered(Append(q, c))
  <1>1. /\ Len(q) \in Nat /\ Len(Append(q, c)) = Len(q) + 1
        /\ \A i \in 1..Len(q) : Append(q, c)[i] = q[i]
        /\ Append(q, c)[Len(q) + 1] = c
    BY AppendProperties, LenProperties
  <1> SUFFICES ASSUME NEW i \in 1..(Len(q) + 1), NEW j \in 1..(Len(q) + 1), i < j
               PROVE  Before(Append(q, c)[i], Append(q, c)[j])
    BY <1>1 DEF Ordered
  <1>2. i \in 1..Len(q)
    BY <1>1
  <1>3. CASE j = Len(q) + 1
    BY <1>1, <1>2, <1>3 DEF Elements
  <1>4. CASE j \in 1..Len(q)
    BY <1>1, <1>2, <1>4 DEF Ordered
  <1> QED BY <1>1, <1>3, <1>4

-----------------------------------------------------------------------------
(* Closing, the next attempt and the next read.                           *)

\* What is left of tcpQueue after a callback, or all of it.
LeftOf(q) == q \in Seq(Callback) /\ Ordered(q) /\ Elements(q) \subseteq Elements(cq)

\* All of tcpQueue, for stop and the timeout, which are no callbacks.
LEMMA LeftNow ==
    ASSUME ConnInv
    PROVE  LeftOf(cq)
  BY DEF ConnInv, Types, QueueGood, LeftOf

\* The rest of tcpQueue, for a callback.
LEMMA LeftTail ==
    ASSUME ConnInv, cq # <<>>
    PROVE  LeftOf(Tail(cq))
  BY ElementsOfTail, OrderedTail DEF ConnInv, Types, QueueGood, LeftOf

\* The disconnect callback of a socket in use comes after all others.
LEMMA DisconnectIsLast ==
    ASSUME ConnInv, socket # 0, Active(socket), NEW q, LeftOf(q)
    PROVE  /\ Append(q, Disconnected(socket)) \in Seq(Callback)
           /\ Ordered(Append(q, Disconnected(socket)))
           /\ Elements(Append(q, Disconnected(socket))) = Elements(q) \cup {Disconnected(socket)}
  <1> DEFINE d == Disconnected(socket)
  <1>1. socket \in Sockets /\ d \in Callback
    BY CallbackKinds DEF ConnInv, Types
  <1>2. d.sock = socket /\ d.event = "disconnected"
    BY DEF Disconnected
  <1>3. ASSUME NEW c \in Elements(q)
        PROVE  Before(c, d)
    <2>1. c \in Elements(cq) /\ c \in Callback
      BY <1>3, ElementsInCallback DEF LeftOf
    <2>2. Possible(c)
      BY <2>1 DEF ConnInv, QueueGood
    <2>3. socket = attempt + 1
      BY <1>1, SocketNumbers DEF ConnInv, Phase, Types
    <2>4. c.sock \in Nat /\ c.sock <= socket /\ socket \in Nat
      BY <2>1, <2>2, <2>3, <1>1, CallbackFields, SocketNumbers DEF Possible
    <2>5. c.sock = socket => c.event # "disconnected"
      BY <2>2 DEF Possible, Active
    <2>6. Rank(c.event) < 4 \/ c.event = "disconnected"
      BY <2>1, CallbackFields DEF Rank
    <2>7. Rank("disconnected") = 4
      BY DEF Rank
    <2> HIDE DEF d
    <2>8. c.sock < socket \/ c.sock = socket
      BY <2>4
    <2> QED BY <2>8, <2>5, <2>6, <2>7, <1>2 DEF Before
  <1> HIDE DEF d
  <1>4. q \in Seq(Callback) /\ Ordered(q)
    BY DEF LeftOf
  <1>5. Ordered(Append(q, d))
    BY <1>1, <1>3, <1>4, OrderedAppend
  <1>6. Append(q, d) \in Seq(Callback) /\ Elements(Append(q, d)) = Elements(q) \cup {d}
    BY <1>1, <1>4, ElementsOfAppend
  <1> QED BY <1>5, <1>6 DEF d

\* Closing keeps the invariant, whatever is left of tcpQueue.
LEMMA Closing ==
    ASSUME ConnInv, NEW q, LeftOf(q), CloseAndNotify(q), begun' = TRUE,
           attempt' \in 0..Attempts, attempt <= attempt', WebSocket \/ attempt' = attempt,
           UNCHANGED <<mode, intermediate, ready, key, tls, opened>>,
           deaf' \in BOOLEAN, timer' \in BOOLEAN
    PROVE  ConnInv'
  <1>0. Types /\ Phase /\ QueueGood /\ OpensOnce
    BY DEF ConnInv
  <1>n. attempt \in Nat /\ attempt' \in Nat /\ attempt + 1 <= attempt' + 1
    <2>1. attempt \in Nat /\ attempt' \in Nat /\ attempt <= attempt'
      BY <1>0, SocketNumbers DEF Types
    <2>2. \A x, y \in Nat : x <= y => x + 1 <= y + 1
      OBVIOUS
    <2> QED BY ONLY <2>1, <2>2
  <1>1. closed' = TRUE
    BY <1>0 DEF CloseAndNotify, Types
  <1>2. /\ socket' = 0 /\ attached' = {} /\ reading' = "none" /\ notified' = 1
        /\ net' \in [Sockets -> NetStates]
        /\ \A s \in Sockets : net'[s] = net[s] \/ net'[s] = "dead"
    <2>1. CASE closed
      BY <2>1, <1>0 DEF CloseAndNotify, Types, Phase
    <2>2. CASE ~closed
      BY <2>2, <1>0 DEF CloseAndNotify, Types, NetStates
    <2> QED BY <2>1, <2>2
  <1>3. /\ cq' \in Seq(Callback) /\ Ordered(cq')
        /\ \A c \in Elements(cq') :
             c \in Elements(cq) \/ (~closed /\ socket # 0 /\ c = Disconnected(socket))
    <2>1. CASE closed \/ ~(socket # 0 /\ Active(socket))
      <3>1. cq' = q
        BY <2>1 DEF CloseAndNotify
      <3> QED BY <3>1 DEF LeftOf
    <2>2. CASE ~closed /\ socket # 0 /\ Active(socket)
      <3>1. cq' = Append(q, Disconnected(socket))
        BY <2>2 DEF CloseAndNotify
      <3> QED BY <3>1, <2>2, DisconnectIsLast DEF LeftOf
    <2> QED BY <2>1, <2>2
  <1>4. ASSUME NEW c \in Elements(cq')
        PROVE  Possible(c)' /\ (c.event = "connected" => c \in Elements(cq))
    <2>1. c \in Callback /\ c.sock \in Sockets /\ c.sock \in Nat
      BY <1>3, <1>4, ElementsInCallback, CallbackFields, SocketNumbers
    <2>2. CASE c \in Elements(cq)
      <3>1. Possible(c)
        BY <2>2, <1>0 DEF QueueGood
      <3>2. c.sock <= attempt' + 1
        BY <3>1, <2>1, <1>n DEF Possible
      <3> QED BY <3>1, <3>2, <2>1, <2>2, <1>2 DEF Possible, WebSocket
    <2>3. CASE ~closed /\ socket # 0 /\ c = Disconnected(socket)
      <3>1. c.sock = socket /\ c.event = "disconnected"
        BY <2>3 DEF Disconnected
      <3>2. net'[socket] = "dead"
        BY <2>3, <2>1, <3>1, <1>0 DEF CloseAndNotify, Types
      <3>3. socket = attempt + 1
        BY <2>3, <1>0 DEF Phase
      <3>4. c.sock <= attempt' + 1
        BY <3>1, <3>3, <1>n
      <3> QED BY <3>1, <3>2, <3>4 DEF Possible
    <2> QED BY <1>3, <2>2, <2>3
  <1>5. Types'
    BY <1>0, <1>1, <1>2, <1>3 DEF Types, WebSocket
  <1>6. Phase'
    BY <1>0, <1>1, <1>2 DEF Phase, WebSocket
  <1>7. QueueGood'
    BY <1>3, <1>4 DEF QueueGood
  <1>8. OpensOnce'
    <2>1. 1 \in Sockets
      BY SocketNumbers
    <2> QED BY <1>0, <1>2, <1>4, <2>1 DEF OpensOnce, WebSocket
  <1>9. Keys' /\ OneRead' /\ TagsFit' /\ GoesOn'
    BY <1>1, <1>2 DEF Keys, OneRead, TagsFit, GoesOn
  <1> QED BY <1>5, <1>6, <1>7, <1>8, <1>9 DEF ConnInv

\* Another endpoint is tried, or none is left: when nothing that was read waits
\* on tcpQueue, everything that waits is of earlier sockets.
LEMMA Attempting ==
    ASSUME ConnInv, NEW q, LeftOf(q), NoRead(q), WebSocket, ~ready, ~closed,
           NEW a \in 0..Attempts, begun => attempt < a, StartAttempt(a, q), begun' = TRUE,
           UNCHANGED <<mode, intermediate, deaf, timer, opened>>
    PROVE  ConnInv'
  <1>0. Types /\ Phase /\ QueueGood /\ OpensOnce
    BY DEF ConnInv
  <1>q. q \in Seq(Callback) /\ Ordered(q) /\ Elements(q) \subseteq Elements(cq)
    BY DEF LeftOf
  <1>e. \A c \in Elements(q) : c.sock \in Sockets /\ c.sock \in Nat /\ Possible(c)
    BY <1>q, <1>0, ElementsInCallback, CallbackFields, SocketNumbers DEF QueueGood
  <1>o. mode # "plain" /\ opened = 0
    BY <1>0 DEF OpensOnce, WebSocket
  <1>n. attempt \in Nat /\ a \in Nat /\ Attempts \in Nat
    BY <1>0, SocketNumbers DEF Types
  <1>f. \A c \in Elements(q) : c.sock < a + 1
    <2> SUFFICES ASSUME NEW c \in Elements(q)
                 PROVE  c.sock < a + 1
      OBVIOUS
    <2>1. begun
      <3>1. SUFFICES ASSUME ~begun PROVE FALSE
        BY <1>0 DEF Types
      <3>2. cq = <<>>
        BY <3>1, <1>0 DEF Phase
      <3>3. Elements(cq) = {}
        BY <3>2 DEF Elements
      <3> QED BY <3>3, <1>q
    <2>2. c.sock \in Nat /\ c.sock <= attempt + 1
      BY <1>e DEF Possible
    <2>3. attempt < a
      BY <2>1
    <2>4. \A x, y, z \in Nat : x <= y + 1 /\ y < z => x < z + 1
      OBVIOUS
    <2> QED BY ONLY <2>2, <2>3, <2>4, <1>n
  <1>1. ASSUME NEW b \in a..Attempts, b < Attempts, attempt' = b, ready' = FALSE, key' = 0,
               PrepareSocket(b), reading' = "none", cq' = q, UNCHANGED <<closed, notified>>
        PROVE  ConnInv'
    <2>1. b \in 0..Attempts /\ b \in Nat /\ a <= b /\ b + 1 \in Sockets /\ b + 1 # 0
      BY <1>1, <1>n, SocketNumbers
    <2>2. /\ socket' = b + 1 /\ attached' = {b + 1} /\ tls' = FALSE
          /\ net' \in [Sockets -> NetStates]
          /\ \A s \in Sockets : s # b + 1 => net'[s] = net[s] \/ net'[s] = "dead"
      BY <1>1, <1>0, <2>1 DEF PrepareSocket, Types, NetStates
    <2>3. Types'
      BY <1>0, <1>1, <1>q, <2>1, <2>2 DEF Types
    <2>4. Phase'
      BY <1>1, <2>1, <2>2 DEF Phase, WebSocket
    <2>5. ASSUME NEW c \in Elements(q)
          PROVE  Possible(c)'
      <3>1. /\ Possible(c) /\ c.sock \in Sockets /\ c.sock \in Nat
            /\ c.sock # b + 1 /\ c.sock <= b + 1
        BY <1>e, <1>f, <1>n, <2>1
      <3> QED BY <3>1, <1>1, <2>2 DEF Possible, WebSocket
    <2>6. QueueGood'
      BY <1>1, <1>q, <2>5 DEF QueueGood
    <2>7. Keys' /\ OneRead' /\ TagsFit' /\ OpensOnce' /\ GoesOn'
      BY <1>1, <1>o DEF Keys, OneRead, TagsFit, OpensOnce, GoesOn, WebSocket, NoRead
    <2> QED BY <2>3, <2>4, <2>6, <2>7 DEF ConnInv
  <1>2. ASSUME attempt' = Attempts, CloseAndNotify(q), UNCHANGED <<ready, key, tls>>
        PROVE  ConnInv'
    <2>1. attempt' \in 0..Attempts /\ attempt <= attempt'
      BY <1>2, <1>n, <1>0 DEF Types
    <2>2. deaf' \in BOOLEAN /\ timer' \in BOOLEAN
      BY <1>0 DEF Types
    <2> QED BY <1>2, <2>1, <2>2, Closing
  <1>3. ASSUME attempt' = Attempts, ready' = FALSE, key' = 0,
               socket' = 0, attached' = {}, tls' = FALSE,
               net' = [s \in Sockets |-> IF s = socket THEN "dead" ELSE net[s]],
               closed' = TRUE, notified' = notified + 1, reading' = "none", cq' = q
        PROVE  ConnInv'
    <2>1. attempt' \in 0..Attempts /\ attempt <= attempt' /\ attempt' \in Nat
      BY <1>3, <1>n, <1>0 DEF Types
    <2>2. /\ net' \in [Sockets -> NetStates]
          /\ \A s \in Sockets : net'[s] = net[s] \/ net'[s] = "dead"
      BY <1>3, <1>0 DEF Types, NetStates
    <2>8. notified' = 1
      BY <1>0, <1>3 DEF Types
    <2>3. Types'
      <3>1. /\ mode' \in Modes /\ intermediate' \in BOOLEAN /\ begun' \in BOOLEAN
            /\ deaf' \in BOOLEAN /\ timer' \in BOOLEAN
        BY <1>0 DEF Types
      <3>2. opened' \in {0, 1}
        BY <1>o
      <3> QED BY <3>1, <3>2, <1>3, <1>q, <2>1, <2>2, <2>8 DEF Types
    <2>4. Phase'
      BY <1>3 DEF Phase, WebSocket
    <2>5. ASSUME NEW c \in Elements(q)
          PROVE  Possible(c)'
      <3>1. Possible(c) /\ c.sock \in Sockets /\ c.sock \in Nat
        BY <1>e
      <3>2. c.sock <= attempt' + 1
        <4>1. c.sock <= attempt + 1
          BY <3>1 DEF Possible
        <4> QED BY <3>1, <4>1, <2>1, <1>n
      <3> QED BY <3>1, <3>2, <2>2 DEF Possible, WebSocket
    <2>6. QueueGood'
      BY <1>3, <1>q, <2>5 DEF QueueGood
    <2>7. Keys' /\ OneRead' /\ TagsFit' /\ OpensOnce' /\ GoesOn'
      BY <1>3, <1>o DEF Keys, OneRead, TagsFit, OpensOnce, GoesOn, WebSocket
    <2> QED BY <2>3, <2>4, <2>6, <2>7 DEF ConnInv
  <1> QED BY <1>1, <1>2, <1>3 DEF StartAttempt

\* When a read was handled nothing else that was read waits.
LEMMA LastRead ==
    ASSUME ConnInv, ~closed, Called("read")
    PROVE  /\ Head(cq) \in Callback /\ Head(cq).event = "read" /\ Head(cq) \in Elements(cq)
           /\ NoRead(Tail(cq)) /\ reading = "none" /\ TagFits(Head(cq).tag)
           /\ LeftOf(Tail(cq)) /\ cq # <<>>
           /\ begun
           /\ WebSocket => key = socket /\ key # 0
  <1>0. Types /\ Phase /\ QueueGood /\ Keys /\ OneRead /\ TagsFit
    BY DEF ConnInv
  <1>1. cq # <<>> /\ Head(cq).event = "read" /\ cq \in Seq(Callback)
    BY <1>0 DEF Called, Types
  <1>2. /\ Head(cq) \in Elements(cq) /\ Elements(Tail(cq)) \subseteq Elements(cq)
        /\ Tail(cq) \in Seq(Callback)
    BY <1>1, ElementsOfTail
  <1>3. Head(cq) \in Callback /\ Head(cq).sock \in Sockets
    BY <1>1, <1>2, ElementsInCallback, CallbackFields
  <1>4. LeftOf(Tail(cq))
    BY <1>1, LeftTail
  <1>5. ~NoRead(cq)
    BY <1>1, <1>2 DEF NoRead
  <1>6. reading = "none"
    BY <1>5, <1>0 DEF OneRead
  <1>7. TagFits(Head(cq).tag)
    BY <1>0, <1>1, <1>2 DEF TagsFit
  <1>8. begun
    BY <1>0, <1>1 DEF Phase, Types
  <1>9. WebSocket => key = socket
    BY <1>0, <1>5 DEF Keys
  <1>10. socket # 0
    BY <1>0, <1>8, SocketNumbers DEF Phase, Types
  <1>11. ASSUME NEW c \in Elements(Tail(cq)), c.event = "read"
         PROVE  FALSE
    <2>1. Before(Head(cq), c)
      BY <1>11, <1>1, <1>0, OrderedTail DEF QueueGood
    <2>2. c \in Elements(cq) /\ c \in Callback /\ c.sock \in Sockets
      BY <1>2, <1>11, ElementsInCallback, CallbackFields
    <2>3. c.sock = Head(cq).sock
      <3>1. CASE WebSocket
        BY <3>1, <1>0, <1>5, <1>2, <2>2 DEF Keys
      <3>2. CASE ~WebSocket
        <4>1. attempt = 0
          BY <3>2, <1>0 DEF Phase
        <4>2. c.sock <= 1 /\ Head(cq).sock <= 1
          BY <4>1, <2>2, <1>2, <1>0 DEF QueueGood, Possible
        <4>3. \A s \in Sockets : s <= 1 => s = 1
          BY AttemptsAssumption DEF Sockets
        <4> QED BY <4>2, <4>3, <2>2, <1>3
      <3> QED BY <3>1, <3>2
    <2>4. c.sock \in Nat
      BY <2>2, SocketNumbers
    <2>5. Rank(c.event) = Rank(Head(cq).event) /\ Rank("read") = 3
      BY <1>11, <1>1 DEF Rank
    <2> QED BY <2>1, <2>3, <2>4, <2>5, <1>1, <1>11 DEF Before
  <1>12. NoRead(Tail(cq))
    BY <1>11 DEF NoRead
  <1> QED BY <1>1, <1>2, <1>3, <1>4, <1>6, <1>7, <1>8, <1>9, <1>10, <1>12

\* The data of a read was handled and the next read is queued.
LEMMA Reading ==
    ASSUME ConnInv, ~closed, Called("read"), cq' = Tail(cq), reading' \in Tags \cup {"none"},
           reading' # "none" => TagFits(reading)', reading' = "none" => deaf',
           UNCHANGED <<mode, intermediate, begun, closed, socket, net, attached, notified,
                       attempt, key, tls>>,
           deaf' \in BOOLEAN, timer' \in BOOLEAN, ready' \in BOOLEAN, opened' \in {0, 1},
           ~WebSocket => ~ready', WebSocket => opened' = (IF ready' THEN 1 ELSE 0),
           mode = "plain" => opened' = opened
    PROVE  ConnInv'
  <1>0. Types /\ Phase /\ QueueGood /\ Keys /\ OpensOnce
    BY DEF ConnInv
  <1>1. /\ NoRead(Tail(cq)) /\ begun /\ LeftOf(Tail(cq)) /\ (WebSocket => key = socket /\ key # 0)
    BY LastRead
  <1>2. Tail(cq) \in Seq(Callback) /\ Ordered(Tail(cq)) /\ Elements(Tail(cq)) \subseteq Elements(cq)
    BY <1>1 DEF LeftOf
  <1>3. Types'
    BY <1>0, <1>2 DEF Types, WebSocket
  <1>4. Phase'
    BY <1>0, <1>1 DEF Phase, WebSocket
  <1>5. QueueGood'
    <2>1. \A c \in Elements(cq') : Possible(c)
      BY <1>0, <1>2 DEF QueueGood
    <2>2. \A c \in Elements(cq') : Possible(c)'
      BY <2>1 DEF Possible, WebSocket
    <2> QED BY <1>2, <2>2 DEF QueueGood
  <1>6. Keys'
    BY <1>0, <1>1, <1>2 DEF Keys, WebSocket
  <1>7. OneRead' /\ GoesOn'
    BY <1>1 DEF OneRead, GoesOn
  <1>8. TagsFit'
    BY <1>1 DEF TagsFit, NoRead
  <1>9. OpensOnce'
    BY <1>0, <1>2 DEF OpensOnce, WebSocket
  <1> QED BY <1>3, <1>4, <1>5, <1>6, <1>7, <1>8, <1>9 DEF ConnInv

\* A connection that was not started has nothing to tell.
LEMMA InitInv == Init => ConnInv
  <1> SUFFICES ASSUME Init PROVE ConnInv
    OBVIOUS
  <1>1. Elements(<<>>) = {} /\ <<>> \in Seq(Callback) /\ Ordered(<<>>)
    <2>1. <<>> \in Seq(Callback) /\ Len(<<>>) = 0
      BY EmptySeq
    <2> QED BY <2>1 DEF Elements, Ordered
  <1>2. Types
    <2>1. /\ mode \in Modes /\ begun = FALSE /\ deaf = FALSE /\ intermediate \in BOOLEAN
          /\ socket = 0 /\ attempt = 0 /\ ready = FALSE /\ key = 0 /\ closed = FALSE
          /\ reading = "none" /\ timer = FALSE /\ cq = <<>> /\ tls = FALSE
          /\ opened = 0 /\ notified = 0
      BY DEF Init
    <2>2. net \in [Sockets -> NetStates]
      BY DEF Init, NetStates
    <2>3. 0 \in 0..Attempts
      BY SocketNumbers
    <2> QED BY <1>1, <2>1, <2>2, <2>3 DEF Types
  <1>3. Phase
    BY DEF Init, Phase
  <1>4. QueueGood
    BY <1>1 DEF Init, QueueGood
  <1>5. Keys /\ OneRead /\ TagsFit /\ OpensOnce /\ GoesOn
    BY <1>1 DEF Init, Keys, OneRead, TagsFit, OpensOnce, GoesOn, NoRead
  <1> QED BY <1>2, <1>3, <1>4, <1>5 DEF ConnInv

\* A packet begins with a tag of the plain dialogue, in both formats.
LEMMA PacketLengthFits ==
    PacketLength \in PlainTags /\ PacketLength \in Tags /\ PacketLength # "none"
  BY TagSets DEF PacketLength, PlainTags

\* start: the first attempt, or the only one.
LEMMA StartKeeps == ConnInv /\ Start => ConnInv'
  <1> SUFFICES ASSUME ConnInv, Start
               PROVE  ConnInv'
    OBVIOUS
  <1>0. Types /\ Phase /\ QueueGood /\ Keys /\ OpensOnce
    BY DEF ConnInv
  <1>1. /\ ~begun /\ begun' = TRUE
        /\ UNCHANGED <<mode, intermediate, deaf, timer, opened>>
    BY DEF Start
  <1>2. /\ ~closed /\ attempt = 0 /\ socket = 0 /\ cq = <<>> /\ ~ready /\ key = 0
        /\ ~timer /\ opened = 0
    BY <1>0, <1>1 DEF Phase
  <1>3. Elements(cq) = {} /\ NoRead(cq)
    BY <1>2 DEF Elements, NoRead
  <1>4. LeftOf(cq)
    BY LeftNow
  <1>5. CASE WebSocket /\ StartAttempt(0, cq)
    <2>1. 0 \in 0..Attempts
      BY SocketNumbers
    <2> QED BY <1>1, <1>2, <1>3, <1>4, <1>5, <2>1, Attempting
  <1>6. CASE /\ ~WebSocket
             /\ PrepareSocket(0)
             /\ reading' = IF mode = "socks" THEN "socksLogin" ELSE PacketLength
             /\ UNCHANGED <<attempt, ready, key, closed, cq, notified>>
    <2>1. 0 + 1 = 1 /\ 1 \in Sockets
      BY SocketNumbers
    <2>2. socket' = 1 /\ attached' = {1} /\ tls' = FALSE /\ net' \in [Sockets -> NetStates]
      BY <1>6, <1>0, <2>1 DEF PrepareSocket, Types, NetStates
    <2>3. /\ reading' \in Tags /\ reading' # "none"
          /\ mode = "plain" => reading' \in PlainTags
          /\ reading' \in PlainTags \cup SocksTags
      BY <1>6, PacketLengthFits, TagSets DEF SocksTags
    <2>4. Types'
      BY <1>0, <1>1, <1>6, <2>1, <2>2, <2>3 DEF Types
    <2>5. Phase'
      BY <1>0, <1>1, <1>2, <1>6, <2>2 DEF Phase, WebSocket
    <2>6. QueueGood'
      BY <1>0, <1>3, <1>6 DEF QueueGood
    <2>7. Keys' /\ OneRead' /\ OpensOnce' /\ GoesOn'
      BY <1>1, <1>2, <1>3, <1>6, <2>3 DEF Keys, OneRead, OpensOnce, GoesOn, WebSocket
    <2>8. TagsFit'
      BY <1>1, <1>2, <1>3, <1>6, <2>3 DEF TagsFit, TagFits, WebSocket
    <2> QED BY <2>4, <2>5, <2>6, <2>7, <2>8 DEF ConnInv
  <1>7. CASE /\ ~WebSocket /\ CloseAndNotify(cq)
             /\ UNCHANGED <<attempt, ready, key, tls>>
    <2>1. attempt' \in 0..Attempts /\ attempt <= attempt'
      BY <1>7, <1>2, SocketNumbers
    <2>2. deaf' \in BOOLEAN /\ timer' \in BOOLEAN
      BY <1>0, <1>1 DEF Types
    <2> QED BY <1>1, <1>4, <1>7, <2>1, <2>2, Closing
  <1> QED BY <1>5, <1>6, <1>7 DEF Start

\* Stop, the timer and the callbacks close in the same way.
LEMMA ClosingWithin ==
    ASSUME ConnInv, begun, NEW q, LeftOf(q), CloseAndNotify(q),
           UNCHANGED <<mode, intermediate, begun, attempt, ready, key, tls, opened>>,
           deaf' \in BOOLEAN, timer' \in BOOLEAN
    PROVE  ConnInv'
  <1>1. attempt' \in 0..Attempts /\ attempt <= attempt'
    BY SocketNumbers DEF ConnInv, Types
  <1>2. begun' = TRUE
    BY DEF ConnInv, Types
  <1> QED BY <1>1, <1>2, Closing

\* stop closes, whatever waits on tcpQueue.
LEMMA StopKeeps == ConnInv /\ Stop => ConnInv'
  <1> SUFFICES ASSUME ConnInv, Stop
               PROVE  ConnInv'
    OBVIOUS
  <1>1. /\ begun /\ CloseAndNotify(cq) /\ LeftOf(cq)
        /\ UNCHANGED <<mode, intermediate, begun, attempt, ready, key, tls, opened, deaf, timer>>
    BY LeftNow DEF Stop
  <1>2. deaf' \in BOOLEAN /\ timer' \in BOOLEAN
    BY <1>1 DEF ConnInv, Types
  <1> QED BY <1>1, <1>2, ClosingWithin

\* The response timeout closes.
LEMMA TimeoutKeeps == ConnInv /\ ResponseTimeout => ConnInv'
  <1> SUFFICES ASSUME ConnInv, ResponseTimeout
               PROVE  ConnInv'
    OBVIOUS
  <1>1. /\ timer /\ timer' = FALSE /\ CloseAndNotify(cq) /\ LeftOf(cq)
        /\ UNCHANGED <<mode, intermediate, begun, attempt, ready, key, tls, opened, deaf>>
    BY LeftNow DEF ResponseTimeout
  <1>2. deaf' \in BOOLEAN /\ timer' \in BOOLEAN /\ begun
    BY <1>1 DEF ConnInv, Types, Phase
  <1> QED BY <1>1, <1>2, ClosingWithin

\* sendDatas, with or without the response timer.
LEMMA SendKeeps == ConnInv /\ (\E expect \in BOOLEAN : SendDatas(expect)) => ConnInv'
  <1> SUFFICES ASSUME ConnInv, NEW expect \in BOOLEAN, SendDatas(expect)
               PROVE  ConnInv'
    OBVIOUS
  <1>0. Types /\ Phase /\ QueueGood /\ Keys /\ OneRead /\ TagsFit /\ OpensOnce /\ GoesOn
    BY DEF ConnInv
  <1>1. /\ ~closed /\ socket # 0 /\ timer' \in BOOLEAN
        /\ UNCHANGED <<mode, intermediate, begun, socket, attempt, ready, key, closed, reading,
                       cq, net, attached, tls, opened, notified, deaf>>
    BY <1>0 DEF SendDatas, socketVars, Types
  <1>2. Types'
    BY <1>0, <1>1 DEF Types, WebSocket
  <1>3. Phase'
    BY <1>0, <1>1 DEF Phase, WebSocket
  <1>4. QueueGood'
    BY <1>0, <1>1 DEF QueueGood, Possible, WebSocket
  <1>5. Keys' /\ OneRead' /\ GoesOn' /\ OpensOnce'
    BY <1>0, <1>1 DEF Keys, OneRead, GoesOn, OpensOnce, WebSocket
  <1>6. TagsFit'
    BY <1>0, <1>1 DEF TagsFit, TagFits, WebSocket
  <1> QED BY <1>2, <1>3, <1>4, <1>5, <1>6 DEF ConnInv

\* Nothing happens.
LEMMA StutterKeeps == ConnInv /\ UNCHANGED vars => ConnInv'
  BY DEF ConnInv, vars, socketVars, Types, Phase, QueueGood, Possible, Keys, OneRead, TagsFit,
         TagFits, OpensOnce, GoesOn, WebSocket

\* Only the socket in use is attached.
LEMMA AttachedIsSocket ==
    ASSUME ConnInv, NEW s \in attached
    PROVE  /\ begun /\ ~closed /\ s = socket /\ socket = attempt + 1 /\ s \in Sockets
           /\ s \in Nat /\ attached = {s}
  <1>1. Types /\ Phase
    BY DEF ConnInv
  <1>2. begun /\ ~closed
    BY <1>1 DEF Phase, Types
  <1>3. s = socket /\ socket = attempt + 1 /\ attached = {s}
    BY <1>1, <1>2 DEF Phase
  <1>4. s \in Sockets
    BY <1>1, <1>3, SocketNumbers DEF Types
  <1> QED BY <1>2, <1>3, <1>4, SocketNumbers

\* A callback of the socket in use joins the queue.
LEMMA Emitting ==
    ASSUME ConnInv, NEW s \in attached, NEW state \in NetStates, NEW c \in Callback,
           c.sock = s, Emit(s, state, c),
           \A d \in Elements(cq) : d.sock = s => Rank(d.event) < Rank(c.event)
    PROVE  /\ cq' \in Seq(Callback) /\ Ordered(cq') /\ Elements(cq') = Elements(cq) \cup {c}
           /\ net' \in [Sockets -> NetStates] /\ net'[s] = state
           /\ \A t \in Sockets : t # s => net'[t] = net[t]
           /\ UNCHANGED <<mode, intermediate, deaf, begun, socket, attempt, ready, key,
                          closed, timer, attached, tls, opened, notified>>
           /\ (reading' \in Tags \cup {"none"} => Types' /\ Phase')
  <1>0. Types /\ Phase /\ QueueGood
    BY DEF ConnInv
  <1>1. /\ begun /\ ~closed /\ s = socket /\ socket = attempt + 1 /\ s \in Sockets /\ s \in Nat
        /\ cq \in Seq(Callback)
    BY <1>0, AttachedIsSocket DEF Types
  <1>2. /\ cq' = Append(cq, c) /\ net' = [net EXCEPT ![s] = state]
        /\ UNCHANGED <<mode, intermediate, deaf, begun, socket, attempt, ready, key,
                       closed, timer, attached, tls, opened, notified>>
    BY DEF Emit
  <1>3. ASSUME NEW d \in Elements(cq)
        PROVE  Before(d, c)
    <2>1. d \in Callback /\ d.sock \in Nat
      BY <1>1, ElementsInCallback, CallbackFields, SocketNumbers
    <2>2. d.sock <= s
      BY <1>0, <1>1 DEF QueueGood, Possible
    <2>3. d.sock < s \/ d.sock = s
      BY <2>1, <2>2, <1>1
    <2> QED BY <2>3 DEF Before
  <1>4. cq' \in Seq(Callback) /\ Ordered(cq') /\ Elements(cq') = Elements(cq) \cup {c}
    BY <1>0, <1>1, <1>2, <1>3, OrderedAppend, ElementsOfAppend DEF QueueGood
  <1>5. /\ net' \in [Sockets -> NetStates] /\ net'[s] = state
        /\ \A t \in Sockets : t # s => net'[t] = net[t]
    BY <1>0, <1>1, <1>2 DEF Types
  <1>6. ASSUME reading' \in Tags \cup {"none"}
        PROVE  Types' /\ Phase'
    <2>1. Types'
      BY <1>0, <1>2, <1>4, <1>5, <1>6 DEF Types, WebSocket
    <2>2. Phase'
      BY <1>0, <1>1, <1>2 DEF Phase, WebSocket
    <2> QED BY <2>1, <2>2
  <1> QED BY <1>2, <1>4, <1>5, <1>6

\* A socket connects.
LEMMA ConnectsKeeps ==
    ASSUME ConnInv, NEW s \in Sockets, SocketConnects(s)
    PROVE  ConnInv'
  <1>0. Types /\ Phase /\ QueueGood /\ Keys /\ OneRead /\ TagsFit /\ OpensOnce /\ GoesOn
    BY DEF ConnInv
  <1> DEFINE c == [sock |-> s, event |-> "connected"]
  <1>1. /\ net[s] = "connecting" /\ s \in attached /\ Emit(s, "connected", c)
        /\ reading' = reading
    BY DEF SocketConnects, Emit
  <1>2. c \in Callback /\ c.sock = s /\ c.event = "connected" /\ "connected" \in NetStates
    BY CallbackKinds DEF NetStates
  <1> HIDE DEF c
  <1>3. begun /\ ~closed /\ s = socket /\ socket = attempt + 1 /\ s \in Nat
    BY <1>1, AttachedIsSocket
  <1>4. \A d \in Elements(cq) : d \in Callback /\ Possible(d) /\ d.sock \in Sockets
    BY <1>0, ElementsInCallback, CallbackFields DEF QueueGood, Types
  <1>5. \A d \in Elements(cq) : d.sock # s
    BY <1>4, <1>1, CallbackFields DEF Possible
  <1>6. /\ cq' \in Seq(Callback) /\ Ordered(cq') /\ Elements(cq') = Elements(cq) \cup {c}
        /\ net' \in [Sockets -> NetStates] /\ net'[s] = "connected"
        /\ \A t \in Sockets : t # s => net'[t] = net[t]
        /\ UNCHANGED <<mode, intermediate, deaf, begun, socket, attempt, ready, key,
                       closed, timer, attached, tls, opened, notified>>
        /\ (reading' \in Tags \cup {"none"} => Types' /\ Phase')
    BY <1>1, <1>2, <1>5, Emitting
  <1>7. Types' /\ Phase'
    BY <1>6, <1>1, <1>0 DEF Types
  <1>8. QueueGood'
    <2>1. \A d \in Elements(cq) : Possible(d)'
      BY <1>4, <1>5, <1>6 DEF Possible, WebSocket
    <2>2. Possible(c)'
      BY <1>2, <1>3, <1>6 DEF Possible
    <2> QED BY <1>6, <2>1, <2>2 DEF QueueGood
  <1>9. Keys' /\ OneRead' /\ GoesOn'
    BY <1>0, <1>1, <1>2, <1>3, <1>6 DEF Keys, OneRead, GoesOn, NoRead, WebSocket
  <1>10. TagsFit'
    BY <1>0, <1>1, <1>2, <1>6 DEF TagsFit, TagFits, WebSocket
  <1>11. OpensOnce'
    <2>1. mode = "plain" => s = 1
      BY <1>0, <1>3 DEF Phase, WebSocket
    <2>2. mode = "plain" => opened # 1
      BY <2>1, <1>0, <1>1 DEF OpensOnce
    <2> QED BY <2>2, <1>0, <1>6 DEF OpensOnce, WebSocket
  <1> QED BY <1>7, <1>8, <1>9, <1>10, <1>11 DEF ConnInv

\* A socket has negotiated TLS.
LEMMA SecuresKeeps ==
    ASSUME ConnInv, NEW s \in Sockets, SocketSecures(s)
    PROVE  ConnInv'
  <1>0. Types /\ Phase /\ QueueGood /\ Keys /\ OneRead /\ TagsFit /\ OpensOnce /\ GoesOn
    BY DEF ConnInv
  <1> DEFINE c == [sock |-> s, event |-> "secured"]
  <1>1. /\ net[s] = "connected" /\ tls /\ s \in attached /\ Emit(s, "secure", c)
        /\ reading' = reading
    BY DEF SocketSecures, Emit
  <1>2. c \in Callback /\ c.sock = s /\ c.event = "secured" /\ "secure" \in NetStates
    BY CallbackKinds DEF NetStates
  <1> HIDE DEF c
  <1>3. begun /\ ~closed /\ s = socket /\ socket = attempt + 1 /\ s \in Nat /\ WebSocket
    BY <1>0, <1>1, AttachedIsSocket DEF Types
  <1>4. \A d \in Elements(cq) : d \in Callback /\ Possible(d) /\ d.sock \in Sockets
    BY <1>0, ElementsInCallback, CallbackFields DEF QueueGood, Types
  <1>5. \A d \in Elements(cq) : d.sock = s => d.event = "connected"
    BY <1>1, <1>3, <1>4, CallbackFields DEF Possible
  <1>6. \A d \in Elements(cq) : d.sock = s => Rank(d.event) < Rank(c.event)
    BY <1>2, <1>5 DEF Rank
  <1>7. /\ cq' \in Seq(Callback) /\ Ordered(cq') /\ Elements(cq') = Elements(cq) \cup {c}
        /\ net' \in [Sockets -> NetStates] /\ net'[s] = "secure"
        /\ \A t \in Sockets : t # s => net'[t] = net[t]
        /\ UNCHANGED <<mode, intermediate, deaf, begun, socket, attempt, ready, key,
                       closed, timer, attached, tls, opened, notified>>
        /\ (reading' \in Tags \cup {"none"} => Types' /\ Phase')
    BY <1>1, <1>2, <1>6, Emitting
  <1>8. Types' /\ Phase'
    BY <1>7, <1>1, <1>0 DEF Types
  <1>9. QueueGood'
    <2>1. \A d \in Elements(cq) : Possible(d)'
      BY <1>4, <1>5, <1>7 DEF Possible, WebSocket
    <2>2. Possible(c)'
      BY <1>2, <1>3, <1>7 DEF Possible, WebSocket
    <2> QED BY <1>7, <2>1, <2>2 DEF QueueGood
  <1>10. Keys' /\ OneRead' /\ GoesOn'
    BY <1>0, <1>1, <1>2, <1>3, <1>7 DEF Keys, OneRead, GoesOn, NoRead, WebSocket
  <1>11. TagsFit'
    BY <1>0, <1>1, <1>2, <1>7 DEF TagsFit, TagFits, WebSocket
  <1>12. OpensOnce'
    BY <1>0, <1>3, <1>7 DEF OpensOnce, WebSocket
  <1> QED BY <1>8, <1>9, <1>10, <1>11, <1>12 DEF ConnInv

\* A socket ends by itself: its disconnect comes last.
LEMMA FailsKeeps ==
    ASSUME ConnInv, NEW s \in Sockets, SocketFails(s)
    PROVE  ConnInv'
  <1>0. Types /\ Phase /\ QueueGood /\ Keys /\ OneRead /\ TagsFit /\ OpensOnce /\ GoesOn
    BY DEF ConnInv
  <1> DEFINE c == Disconnected(s)
  <1>1. Active(s) /\ s \in attached /\ Emit(s, "dead", c) /\ reading' = reading
    BY DEF SocketFails, Emit
  <1>2. c \in Callback /\ c.sock = s /\ c.event = "disconnected" /\ "dead" \in NetStates
    BY CallbackKinds DEF NetStates, Disconnected
  <1> HIDE DEF c
  <1>3. begun /\ ~closed /\ s = socket /\ socket = attempt + 1 /\ s \in Nat
    BY <1>0, <1>1, AttachedIsSocket DEF Types
  <1>4. \A d \in Elements(cq) : d \in Callback /\ Possible(d) /\ d.sock \in Sockets
    BY <1>0, ElementsInCallback, CallbackFields DEF QueueGood, Types
  <1>5. \A d \in Elements(cq) : d.sock = s => d.event \in {"connected", "secured", "read"}
    BY <1>1, <1>4, CallbackFields DEF Possible, Active
  <1>6. \A d \in Elements(cq) : d.sock = s => Rank(d.event) < Rank(c.event)
    BY <1>2, <1>5 DEF Rank
  <1>7. /\ cq' \in Seq(Callback) /\ Ordered(cq') /\ Elements(cq') = Elements(cq) \cup {c}
        /\ net' \in [Sockets -> NetStates] /\ net'[s] = "dead"
        /\ \A t \in Sockets : t # s => net'[t] = net[t]
        /\ UNCHANGED <<mode, intermediate, deaf, begun, socket, attempt, ready, key,
                       closed, timer, attached, tls, opened, notified>>
        /\ (reading' \in Tags \cup {"none"} => Types' /\ Phase')
    BY <1>1, <1>2, <1>6, Emitting
  <1>8. Types' /\ Phase'
    BY <1>7, <1>1, <1>0 DEF Types
  <1>9. QueueGood'
    <2>1. \A d \in Elements(cq) : net'[d.sock] = net[d.sock] \/ net'[d.sock] = "dead"
      BY <1>4, <1>7
    <2>2. \A d \in Elements(cq) : Possible(d)'
      BY <1>4, <1>7, <2>1 DEF Possible, WebSocket
    <2>3. Possible(c)'
      BY <1>2, <1>3, <1>7 DEF Possible, WebSocket
    <2> QED BY <1>7, <2>2, <2>3 DEF QueueGood
  <1>10. Keys' /\ OneRead' /\ GoesOn'
    BY <1>0, <1>1, <1>2, <1>3, <1>7 DEF Keys, OneRead, GoesOn, NoRead, WebSocket
  <1>11. TagsFit'
    BY <1>0, <1>1, <1>2, <1>7 DEF TagsFit, TagFits, WebSocket
  <1>12. OpensOnce'
    <2>1. net'[1] = net[1] \/ net'[1] = "dead"
      BY <1>7, SocketNumbers
    <2> QED BY <1>0, <1>2, <1>7, <2>1 DEF OpensOnce, WebSocket
  <1> QED BY <1>8, <1>9, <1>10, <1>11, <1>12 DEF ConnInv

\* A read completes: its data waits on tcpQueue in its place.
LEMMA ReadsKeeps ==
    ASSUME ConnInv, NEW s \in Sockets, SocketReads(s)
    PROVE  ConnInv'
  <1>0. Types /\ Phase /\ QueueGood /\ Keys /\ OneRead /\ TagsFit /\ OpensOnce /\ GoesOn
    BY DEF ConnInv
  <1>1. PICK accept \in BOOLEAN :
          /\ reading # "none" /\ reading' = "none"
          /\ net[s] = IF WebSocket THEN "secure" ELSE "connected"
          /\ Emit(s, net[s], [sock |-> s, event |-> "read", tag |-> reading, accept |-> accept])
    BY DEF SocketReads
  <1>c. PICK c : c = [sock |-> s, event |-> "read", tag |-> reading, accept |-> accept]
    OBVIOUS
  <1>2. c \in Callback /\ c.sock = s /\ c.event = "read" /\ c.tag = reading /\ net[s] \in NetStates
    BY <1>0, <1>1, <1>c, CallbackKinds DEF Types
  <1>e. Emit(s, net[s], c) /\ s \in attached
    BY <1>1, <1>c DEF Emit
  <1>3. begun /\ ~closed /\ s = socket /\ socket = attempt + 1 /\ s \in Nat
    BY <1>0, <1>e, AttachedIsSocket DEF Types
  <1>4. \A d \in Elements(cq) : d \in Callback /\ Possible(d) /\ d.sock \in Sockets
    BY <1>0, ElementsInCallback, CallbackFields DEF QueueGood, Types
  <1>r. NoRead(cq)
    BY <1>0, <1>1 DEF OneRead
  <1>5. \A d \in Elements(cq) : d.sock = s => d.event \in {"connected", "secured"}
    BY <1>1, <1>4, <1>r, CallbackFields DEF Possible, NoRead
  <1>6. \A d \in Elements(cq) : d.sock = s => Rank(d.event) < Rank(c.event)
    BY <1>2, <1>5 DEF Rank
  <1>7. /\ cq' \in Seq(Callback) /\ Ordered(cq') /\ Elements(cq') = Elements(cq) \cup {c}
        /\ net' \in [Sockets -> NetStates] /\ net'[s] = net[s]
        /\ \A t \in Sockets : t # s => net'[t] = net[t]
        /\ UNCHANGED <<mode, intermediate, deaf, begun, socket, attempt, ready, key,
                       closed, timer, attached, tls, opened, notified>>
        /\ (reading' \in Tags \cup {"none"} => Types' /\ Phase')
    BY <1>e, <1>2, <1>6, Emitting
  <1>n. \A t \in Sockets : net'[t] = net[t]
    BY <1>7
  <1>8. Types' /\ Phase'
    BY <1>7, <1>1, <1>0 DEF Types
  <1>9. QueueGood'
    <2>2. \A d \in Elements(cq) : Possible(d)'
      BY <1>4, <1>7, <1>n DEF Possible, WebSocket
    <2>3. Possible(c)'
      BY <1>1, <1>2, <1>3, <1>7 DEF Possible, WebSocket
    <2> QED BY <1>7, <2>2, <2>3 DEF QueueGood
  <1>10. OneRead' /\ GoesOn'
    BY <1>1, <1>2, <1>7 DEF OneRead, GoesOn, NoRead
  <1>k. Keys'
    BY <1>0, <1>1, <1>2, <1>3, <1>7 DEF Keys, WebSocket
  <1>11. TagsFit'
    <2>1. TagFits(reading)
      BY <1>0, <1>1, <1>3 DEF TagsFit
    <2> QED BY <2>1, <1>0, <1>1, <1>2, <1>3, <1>7, <1>r DEF TagsFit, TagFits, WebSocket, NoRead
  <1>12. OpensOnce'
    BY <1>0, <1>2, <1>7, <1>n, SocketNumbers DEF OpensOnce, WebSocket
  <1> QED BY <1>8, <1>9, <1>10, <1>k, <1>11, <1>12 DEF ConnInv

\* What holds of the rest of the queue when its first callback is handled.
LEMMA FirstOut ==
    ASSUME ConnInv, cq # <<>>
    PROVE  /\ begun /\ Head(cq) \in Callback /\ Head(cq) \in Elements(cq) /\ Possible(Head(cq))
           /\ Tail(cq) \in Seq(Callback) /\ Ordered(Tail(cq)) /\ LeftOf(Tail(cq))
           /\ Elements(cq) = {Head(cq)} \cup Elements(Tail(cq))
           /\ \A d \in Elements(Tail(cq)) : d \in Callback /\ Before(Head(cq), d) /\ Possible(d)
  <1>0. Types /\ Phase /\ QueueGood
    BY DEF ConnInv
  <1>1. begun
    BY <1>0 DEF Phase, Types
  <1>2. /\ Tail(cq) \in Seq(Callback) /\ Head(cq) \in Elements(cq)
        /\ Elements(cq) = {Head(cq)} \cup Elements(Tail(cq))
    BY <1>0, ElementsOfTail DEF Types
  <1>3. Elements(cq) \subseteq Callback
    BY <1>0, ElementsInCallback DEF Types
  <1>4. Ordered(Tail(cq)) /\ \A d \in Elements(Tail(cq)) : Before(Head(cq), d)
    BY <1>0, OrderedTail DEF Types, QueueGood
  <1>5. \A d \in Elements(cq) : Possible(d)
    BY <1>0 DEF QueueGood
  <1> QED BY <1>1, <1>2, <1>3, <1>4, <1>5, LeftTail

\* didConnectToHost.
LEMMA DidConnectKeeps == ConnInv /\ DidConnect => ConnInv'
  <1> SUFFICES ASSUME ConnInv, DidConnect
               PROVE  ConnInv'
    OBVIOUS
  <1>0. Types /\ Phase /\ QueueGood /\ Keys /\ OneRead /\ TagsFit /\ OpensOnce /\ GoesOn
    BY DEF ConnInv
  <1>1. /\ cq # <<>> /\ Head(cq).event = "connected" /\ cq' = Tail(cq)
        /\ tls' = (tls \/ (WebSocket /\ socket # 0))
        /\ opened' = IF mode = "plain" THEN opened + 1 ELSE opened
        /\ UNCHANGED <<mode, intermediate, deaf, begun, socket, attempt, ready, key, closed,
                       reading, timer, net, attached, notified>>
    BY DEF DidConnect, Called
  <1>2. /\ begun /\ Head(cq) \in Callback /\ Head(cq) \in Elements(cq) /\ Possible(Head(cq))
        /\ Tail(cq) \in Seq(Callback) /\ Ordered(Tail(cq))
        /\ Elements(cq) = {Head(cq)} \cup Elements(Tail(cq))
        /\ \A d \in Elements(Tail(cq)) : d \in Callback /\ Before(Head(cq), d) /\ Possible(d)
    BY <1>1, FirstOut
  <1>3. opened' \in {0, 1} /\ (mode = "plain" => opened' = 1)
        /\ (mode # "plain" => opened' = opened)
    BY <1>0, <1>1, <1>2 DEF OpensOnce, Types
  <1>4. NoRead(cq) <=> NoRead(Tail(cq))
    BY <1>1, <1>2 DEF NoRead
  <1>t. tls' \in BOOLEAN /\ (tls' => WebSocket)
    BY <1>0, <1>1 DEF Types, WebSocket
  <1>5. Types'
    BY <1>0, <1>1, <1>2, <1>3, <1>t DEF Types, WebSocket
  <1>6. Phase'
    BY <1>0, <1>1, <1>2 DEF Phase, WebSocket
  <1>7. QueueGood'
    BY <1>1, <1>2 DEF QueueGood, Possible, WebSocket
  <1>8. Keys' /\ OneRead' /\ GoesOn'
    BY <1>0, <1>1, <1>2, <1>4 DEF Keys, OneRead, GoesOn, WebSocket
  <1>9. TagsFit'
    BY <1>0, <1>1, <1>2, <1>3 DEF TagsFit, TagFits, WebSocket
  <1>10. OpensOnce'
    <2>1. CASE mode = "plain"
      <3>1. attempt = 0
        BY <2>1, <1>0 DEF Phase, WebSocket
      <3>2. \A d \in Elements(cq) : d.sock \in Sockets /\ d.sock <= 1
        BY <3>1, <1>0, ElementsInCallback, CallbackFields DEF QueueGood, Possible, Types
      <3>3. \A s \in Sockets : s <= 1 => s = 1
        BY AttemptsAssumption DEF Sockets
      <3>4. \A d \in Elements(cq) : d.sock = 1
        BY <3>2, <3>3
      <3>5. net[1] \notin {"idle", "connecting"}
        BY <3>4, <1>1, <1>2 DEF Possible
      <3>6. \A d \in Elements(Tail(cq)) : d.event # "connected"
        <4> SUFFICES ASSUME NEW d \in Elements(Tail(cq)), d.event = "connected"
                     PROVE  FALSE
          OBVIOUS
        <4>1. d.sock = 1 /\ Head(cq).sock = 1
          BY <3>4, <1>2
        <4>2. Rank("connected") = 1
          BY DEF Rank
        <4>3. Before(Head(cq), d)
          BY <1>2
        <4> QED BY <4>1, <4>2, <4>3, <1>1 DEF Before
      <3> QED BY <2>1, <3>5, <3>6, <1>1 DEF OpensOnce, WebSocket
    <2>2. CASE mode # "plain"
      BY <2>2, <1>0, <1>1, <1>3 DEF OpensOnce, WebSocket
    <2> QED BY <2>1, <2>2
  <1> QED BY <1>5, <1>6, <1>7, <1>8, <1>9, <1>10 DEF ConnInv

\* socketDidSecure: the upgrade is requested, unless another socket called.
LEMMA DidSecureKeeps == ConnInv /\ DidSecure => ConnInv'
  <1> SUFFICES ASSUME ConnInv, DidSecure
               PROVE  ConnInv'
    OBVIOUS
  <1>0. Types /\ Phase /\ QueueGood /\ Keys /\ OneRead /\ TagsFit /\ OpensOnce /\ GoesOn
    BY DEF ConnInv
  <1>1. /\ cq # <<>> /\ Head(cq).event = "secured" /\ cq' = Tail(cq)
        /\ UNCHANGED <<mode, intermediate, deaf, begun, socket, attempt, ready, closed,
                       timer, net, attached, tls, opened, notified>>
    BY DEF DidSecure, Called, socketVars
  <1>2. /\ begun /\ Head(cq) \in Callback /\ Head(cq) \in Elements(cq) /\ Possible(Head(cq))
        /\ Tail(cq) \in Seq(Callback) /\ Ordered(Tail(cq))
        /\ Elements(cq) = {Head(cq)} \cup Elements(Tail(cq))
        /\ \A d \in Elements(Tail(cq)) : d \in Callback /\ Before(Head(cq), d) /\ Possible(d)
    BY <1>1, FirstOut
  <1>4. NoRead(cq) <=> NoRead(Tail(cq))
    BY <1>1, <1>2 DEF NoRead
  <1>5. QueueGood'
    BY <1>1, <1>2 DEF QueueGood, Possible, WebSocket
  <1>6. OpensOnce'
    BY <1>0, <1>1, <1>2 DEF OpensOnce, WebSocket
  <1>7. CASE Caller = socket /\ ~closed
    <2>1. key' = socket /\ reading' = "httpHeader" /\ Head(cq).sock = socket
      BY <1>7 DEF DidSecure, Caller
    <2>2. WebSocket /\ net[socket] \in {"secure", "dead"} /\ socket = attempt + 1
      BY <1>0, <1>1, <1>2, <1>7, <2>1 DEF Possible, Phase
    <2>3. key = 0 /\ ~ready /\ NoRead(cq)
      BY <1>0, <1>1, <1>2, <1>7, <2>2 DEF Keys
    <2>4. ASSUME NEW d \in Elements(Tail(cq))
          PROVE  d.sock = socket /\ d.event = "disconnected"
      <3>1. Before(Head(cq), d) /\ d.sock \in Nat /\ d.sock <= socket /\ socket \in Nat
        BY <1>2, <2>2, CallbackFields, SocketNumbers, <1>0 DEF Possible, Types
      <3>2. d.sock = socket /\ Rank("secured") < Rank(d.event)
        BY <3>1, <2>1, <1>1 DEF Before
      <3>3. d.event \in {"read", "disconnected"}
        BY <3>2, <1>2, CallbackFields DEF Rank
      <3>4. d.event # "read"
        BY <2>3, <1>2 DEF NoRead
      <3> QED BY <3>2, <3>3, <3>4
    <2>5. "httpHeader" \in Tags /\ "httpHeader" \in WebSocketTags
      BY TagSets DEF WebSocketTags
    <2>6. Types'
      BY <1>0, <1>1, <1>2, <2>1, <2>5 DEF Types, WebSocket
    <2>7. Phase'
      BY <1>0, <1>1, <1>2, <1>7 DEF Phase, WebSocket
    <2>8. Keys' /\ OneRead' /\ GoesOn'
      BY <1>1, <1>4, <2>1, <2>2, <2>3, <2>4 DEF Keys, OneRead, GoesOn, WebSocket
    <2>9. TagsFit'
      <3>1. TagFits(reading)'
        BY <1>1, <2>1, <2>2, <2>3, <2>5 DEF TagFits, WebSocket
      <3> QED BY <3>1, <1>1, <2>4 DEF TagsFit
    <2> QED BY <1>5, <1>6, <2>6, <2>7, <2>8, <2>9 DEF ConnInv
  <1>8. CASE ~(Caller = socket /\ ~closed)
    <2>1. UNCHANGED <<key, reading>>
      BY <1>8 DEF DidSecure
    <2>2. Types'
      BY <1>0, <1>1, <1>2, <2>1 DEF Types, WebSocket
    <2>3. Phase'
      BY <1>0, <1>1, <1>2, <2>1 DEF Phase, WebSocket
    <2>4. Keys' /\ OneRead' /\ GoesOn'
      BY <1>0, <1>1, <1>2, <1>4, <2>1 DEF Keys, OneRead, GoesOn, WebSocket
    <2>5. TagsFit'
      BY <1>0, <1>1, <1>2, <2>1 DEF TagsFit, TagFits, WebSocket
    <2> QED BY <1>5, <1>6, <2>2, <2>3, <2>4, <2>5 DEF ConnInv
  <1> QED BY <1>7, <1>8

\* While a WebSocket is being set up, nothing that was read waits behind the end
\* of a socket.
LEMMA NoReadAfterEnd ==
    ASSUME ConnInv, WebSocket, ~closed, cq # <<>>, Head(cq).event = "disconnected"
    PROVE  NoRead(Tail(cq))
  <1>0. Types /\ Keys
    BY DEF ConnInv
  <1>1. /\ Head(cq) \in Elements(cq)
        /\ Elements(cq) = {Head(cq)} \cup Elements(Tail(cq))
        /\ \A d \in Elements(Tail(cq)) : Before(Head(cq), d)
    BY FirstOut
  <1> SUFFICES ASSUME NEW d \in Elements(Tail(cq)), d.event = "read"
               PROVE  FALSE
    BY DEF NoRead
  <1>2. d \in Elements(cq)
    BY <1>1
  <1>3. ~NoRead(cq)
    BY <1>2 DEF NoRead
  <1>4. d.sock = socket /\ Head(cq).sock = socket
    BY <1>0, <1>1, <1>2, <1>3 DEF Keys
  <1>5. Before(Head(cq), d) /\ socket \in Nat
    BY <1>0, <1>1, SocketNumbers DEF Types
  <1>6. Rank("read") = 3 /\ Rank("disconnected") = 4
    BY DEF Rank
  <1> QED BY <1>4, <1>5, <1>6 DEF Before

\* socketDidDisconnect, also of a socket that was given up.
LEMMA DidDisconnectKeeps == ConnInv /\ DidDisconnect => ConnInv'
  <1> SUFFICES ASSUME ConnInv, DidDisconnect
               PROVE  ConnInv'
    OBVIOUS
  <1>0. Types /\ Phase /\ QueueGood /\ Keys
    BY DEF ConnInv
  <1>1. /\ cq # <<>> /\ Head(cq).event = "disconnected"
        /\ UNCHANGED <<mode, intermediate, deaf, begun, timer, opened>>
    BY DEF DidDisconnect, Called
  <1>2. /\ begun /\ Head(cq) \in Callback /\ Head(cq) \in Elements(cq) /\ LeftOf(Tail(cq))
        /\ Elements(cq) = {Head(cq)} \cup Elements(Tail(cq))
        /\ \A d \in Elements(Tail(cq)) : d \in Callback /\ Before(Head(cq), d)
    BY <1>1, FirstOut
  <1>3. deaf' \in BOOLEAN /\ timer' \in BOOLEAN /\ begun' = TRUE
    BY <1>0, <1>1, <1>2 DEF Types
  <1>4. CASE WebSocket /\ ~ready /\ ~closed
    <2>1. StartAttempt(attempt + 1, Tail(cq))
      BY <1>4 DEF DidDisconnect, AttemptFailed
    <2>2. NoRead(Tail(cq))
      BY <1>1, <1>4, NoReadAfterEnd
    <2>3. attempt \in Nat /\ attempt < attempt + 1
      BY <1>0, SocketNumbers DEF Types
    <2>4. attempt + 1 \in 0..Attempts
      BY <2>1, <2>3, <1>0, SocketNumbers DEF StartAttempt, Types
    <2> QED BY <1>1, <1>2, <1>3, <1>4, <2>1, <2>2, <2>3, <2>4, Attempting
  <1>5. CASE ~(WebSocket /\ ~ready /\ ~closed)
    <2>1. CloseAndNotify(Tail(cq)) /\ UNCHANGED <<attempt, ready, key, tls>>
      BY <1>5 DEF DidDisconnect
    <2> QED BY <1>1, <1>2, <1>3, <2>1, ClosingWithin
  <1> QED BY <1>4, <1>5

\* didReadData of a closed connection does nothing.
LEMMA DidReadClosedKeeps == ConnInv /\ DidReadClosed => ConnInv'
  <1> SUFFICES ASSUME ConnInv, DidReadClosed
               PROVE  ConnInv'
    OBVIOUS
  <1>1. /\ cq # <<>> /\ closed /\ cq' = Tail(cq)
        /\ UNCHANGED <<mode, intermediate, deaf, begun, socket, attempt, ready, key, closed,
                       reading, timer, net, attached, tls, opened, notified>>
    BY DEF DidReadClosed, Called, socketVars
  <1>2. CloseAndNotify(Tail(cq))
    BY <1>1 DEF CloseAndNotify
  <1>3. begun /\ LeftOf(Tail(cq))
    BY <1>1, FirstOut
  <1>4. deaf' \in BOOLEAN /\ timer' \in BOOLEAN
    BY <1>1 DEF ConnInv, Types
  <1> QED BY <1>1, <1>2, <1>3, <1>4, ClosingWithin

\* didReadData of the plain and the SOCKS dialogue.
LEMMA DidReadPlainKeeps ==
    ASSUME ConnInv, NEW tag \in DOMAIN AfterRead, NEW next \in AfterRead[tag],
           DidReadPlain(tag, next)
    PROVE  ConnInv'
  <1>0. Types /\ Phase /\ OpensOnce
    BY DEF ConnInv
  <1>1. /\ ~closed /\ Called("read") /\ Head(cq).tag = tag
        /\ opened' = IF tag = "socksPort" THEN opened + 1 ELSE opened
        /\ timer' = (timer /\ tag # "body")
        /\ deaf' = (deaf \/ next = "none")
        /\ UNCHANGED <<mode, intermediate, begun, attempt, ready, key, tls>>
    BY DEF DidReadPlain, DidRead
  <1>2. begun /\ LeftOf(Tail(cq)) /\ TagFits(tag)
    BY <1>1, LastRead
  <1>3. deaf' \in BOOLEAN /\ timer' \in BOOLEAN
    BY <1>0, <1>1 DEF Types
  <1>t. tag \in PlainTags \cup SocksTags
    BY TagDomain
  <1>m. ~WebSocket
    BY <1>t, <1>2, TagSets DEF TagFits
  <1>r. ready' = FALSE
    BY <1>m, <1>0, <1>1 DEF Phase, Types
  <1>o. mode \in {"plain", "socks"}
    BY <1>m, <1>0, ModesAssumption DEF Types, WebSocket
  <1>n. /\ tag \in PlainTags => next \in PlainTags \cup {"packet", "none", "closed"}
        /\ tag \in SocksTags => next \in SocksTags \cup {"packet", "none", "closed"}
        /\ tag = "socksPort" => next = "packet"
        /\ tag \in SocksTags /\ next = "packet" => tag = "socksPort"
    BY NextTag
  <1>4. CASE next = "closed"
    <2>1. CloseAndNotify(Tail(cq)) /\ opened' = opened
      BY <1>1, <1>4, <1>n DEF DidReadPlain
    <2> QED BY <1>1, <1>2, <1>3, <2>1, ClosingWithin
  <1>5. CASE next # "closed"
    <2>1. /\ reading' = IF next = "packet" THEN PacketLength ELSE next
          /\ cq' = Tail(cq)
          /\ UNCHANGED <<closed, socket, net, attached, notified>>
      BY <1>5 DEF DidReadPlain
    <2>2. tag = "socksPort" => mode = "socks" /\ opened = 0
      BY <1>2, <1>o, TagSets DEF TagFits, SocksTags
    <2>3. opened' \in {0, 1} /\ (mode = "plain" => opened' = opened)
      BY <1>0, <1>1, <2>2 DEF Types
    <2>4. reading' \in Tags \cup {"none"}
      BY <1>t, <1>n, <1>5, <2>1, PacketLengthFits, TagSets
    <2>5. reading' = "none" => deaf'
      BY <1>1, <2>1, PacketLengthFits
    <2>6. ASSUME reading' # "none"
          PROVE  TagFits(reading)'
      <3>1. CASE tag \in PlainTags
        <4>1. reading' \in PlainTags
          BY <2>6, <3>1, <1>5, <1>n, <2>1, PacketLengthFits
        <4> QED BY <4>1, <1>m, <1>1 DEF TagFits, WebSocket
      <3>2. CASE tag \in SocksTags
        <4>1. mode = "socks" /\ opened = 0
          BY <3>2, <1>2, <1>o, TagSets DEF TagFits
        <4>2. CASE next = "packet"
          <5>1. reading' \in PlainTags
            BY <4>2, <2>1, PacketLengthFits
          <5> QED BY <4>1, <5>1, <1>1 DEF TagFits, WebSocket
        <4>3. CASE next # "packet"
          <5>1. reading' \in SocksTags /\ opened' = 0
            BY <4>1, <4>3, <3>2, <2>6, <1>5, <1>1, <1>n, <2>1
          <5> QED BY <4>1, <5>1, <1>1 DEF TagFits, WebSocket
        <4> QED BY <4>2, <4>3
      <3> QED BY <1>t, <3>1, <3>2
    <2> QED BY <1>1, <1>3, <1>m, <1>r, <2>1, <2>3, <2>4, <2>5, <2>6, Reading
  <1> QED BY <1>4, <1>5

\* The answer to the upgrade: ready, or the next endpoint.
LEMMA DidReadHeaderKeeps == ConnInv /\ DidReadHeader => ConnInv'
  <1> SUFFICES ASSUME ConnInv, DidReadHeader
               PROVE  ConnInv'
    OBVIOUS
  <1>0. Types /\ Phase /\ OpensOnce
    BY DEF ConnInv
  <1>1. /\ ~closed /\ Called("read") /\ Head(cq).tag = "httpHeader"
        /\ UNCHANGED <<mode, intermediate, deaf, begun, timer>>
    BY DEF DidReadHeader, DidRead
  <1>2. begun /\ LeftOf(Tail(cq)) /\ TagFits("httpHeader") /\ NoRead(Tail(cq))
    BY <1>1, LastRead
  <1>3. deaf' \in BOOLEAN /\ timer' \in BOOLEAN /\ begun' = TRUE
    BY <1>0, <1>1, <1>2 DEF Types
  <1>4. WebSocket /\ ~ready
    <2>1. "httpHeader" \notin PlainTags /\ "httpHeader" \notin SocksTags
      BY DEF PlainTags, SocksTags
    <2>2. mode \in {"plain", "socks", "websocket"}
      BY <1>0, ModesAssumption DEF Types
    <2>3. WebSocket
      BY <2>1, <2>2, <1>2 DEF TagFits, WebSocket
    <2> QED BY <2>3, <1>2 DEF TagFits
  <1>5. opened = 0
    BY <1>0, <1>4 DEF OpensOnce
  <1>6. CASE /\ ready' = TRUE /\ opened' = opened + 1 /\ reading' = "frameHeader"
             /\ cq' = Tail(cq)
             /\ UNCHANGED <<socket, attempt, key, closed, socketVars, notified>>
    <2>1. "frameHeader" \in Tags \cup {"none"} /\ "frameHeader" \in WebSocketTags
      BY TagSets DEF WebSocketTags
    <2>2. opened' = 1 /\ mode # "plain"
      BY <1>4, <1>5, <1>6 DEF WebSocket
    <2>3. TagFits(reading)'
      BY <2>1, <1>1, <1>4, <1>6 DEF TagFits, WebSocket
    <2>4. UNCHANGED <<net, attached, tls>>
      BY <1>6 DEF socketVars
    <2> QED BY <1>1, <1>3, <1>4, <1>6, <2>1, <2>2, <2>3, <2>4, Reading
  <1>7. CASE AttemptFailed(Tail(cq)) /\ UNCHANGED opened
    <2>1. StartAttempt(attempt + 1, Tail(cq))
      BY <1>7 DEF AttemptFailed
    <2>3. attempt \in Nat /\ attempt < attempt + 1
      BY <1>0, SocketNumbers DEF Types
    <2>4. attempt + 1 \in 0..Attempts
      BY <2>1, <2>3, <1>0, SocketNumbers DEF StartAttempt, Types
    <2> QED BY <1>1, <1>2, <1>3, <1>4, <1>7, <2>1, <2>3, <2>4, Attempting
  <1> QED BY <1>6, <1>7 DEF DidReadHeader

\* The handlers of a frame close the connection or queue another read.
LEMMA FrameKeeps ==
    ASSUME ConnInv, ~closed, Called("read"),
           Head(cq).tag \in {"frameHeader", "frameLength", "framePayload"},
           timer' \in BOOLEAN,
           UNCHANGED <<mode, intermediate, deaf, begun, attempt, ready, key, tls, opened>>,
           \/ CloseAndNotify(Tail(cq))
           \/ /\ reading' \in {"frameHeader", "frameLength", "framePayload"}
              /\ cq' = Tail(cq)
              /\ UNCHANGED <<closed, socket, net, attached, notified>>
    PROVE  ConnInv'
  <1>0. Types /\ Phase /\ OpensOnce
    BY DEF ConnInv
  <1>1. begun /\ LeftOf(Tail(cq)) /\ TagFits(Head(cq).tag)
    BY LastRead
  <1>2. deaf' \in BOOLEAN
    BY <1>0 DEF Types
  <1>3. WebSocket /\ ready
    <2>1. /\ Head(cq).tag \notin PlainTags /\ Head(cq).tag \notin SocksTags
          /\ Head(cq).tag # "httpHeader"
      BY DEF PlainTags, SocksTags
    <2>2. mode \in {"plain", "socks", "websocket"}
      BY <1>0, ModesAssumption DEF Types
    <2>3. WebSocket
      BY <2>1, <2>2, <1>1 DEF TagFits, WebSocket
    <2> QED BY <2>1, <2>3, <1>1 DEF TagFits
  <1>4. CASE CloseAndNotify(Tail(cq))
    BY <1>1, <1>2, <1>4, ClosingWithin
  <1>5. CASE /\ reading' \in {"frameHeader", "frameLength", "framePayload"}
             /\ cq' = Tail(cq)
             /\ UNCHANGED <<closed, socket, net, attached, notified>>
    <2>1. /\ reading' \in Tags /\ reading' \in WebSocketTags
          /\ reading' # "httpHeader" /\ reading' # "none"
      BY <1>5, TagSets DEF WebSocketTags
    <2>2. TagFits(reading)'
      BY <2>1, <1>3, <1>5 DEF TagFits, WebSocket
    <2>3. /\ ready' \in BOOLEAN /\ opened' \in {0, 1}
          /\ opened' = (IF ready' THEN 1 ELSE 0)
      BY <1>0, <1>3 DEF Types, OpensOnce
    <2> QED BY <1>2, <1>3, <1>5, <2>1, <2>2, <2>3, Reading
  <1> QED BY <1>4, <1>5

\* What a handled frame does to the connection.
LEMMA HandleFrameShape ==
    ASSUME Types, NEW f, HandleFrame(f)
    PROVE  /\ timer' \in BOOLEAN
           /\ \/ CloseAndNotify(Tail(cq))
              \/ /\ reading' = "frameHeader" /\ cq' = Tail(cq)
                 /\ UNCHANGED <<closed, socket, net, attached, notified>>
  <1>1. timer \in BOOLEAN
    BY DEF Types
  <1> QED BY <1>1 DEF HandleFrame, ProcessTransportFrame

\* The header of a frame.
LEMMA DidReadFrameHeaderKeeps ==
    ASSUME ConnInv, NEW f \in Frame, NEW long \in BOOLEAN, DidReadFrameHeader(f, long)
    PROVE  ConnInv'
  <1>0. Types
    BY DEF ConnInv
  <1>1. /\ ~closed /\ Called("read") /\ Head(cq).tag = "frameHeader"
        /\ UNCHANGED <<mode, intermediate, deaf, begun, attempt, ready, key, tls, opened>>
    BY DEF DidReadFrameHeader, DidRead
  <1>2. CASE CloseAndNotify(Tail(cq)) /\ timer' = timer
    BY <1>0, <1>1, <1>2, FrameKeeps DEF Types
  <1>3. CASE HandleFrame(f)
    BY <1>0, <1>1, <1>3, HandleFrameShape, FrameKeeps
  <1>4. CASE /\ reading' = IF long THEN "frameLength" ELSE "framePayload"
             /\ cq' = Tail(cq)
             /\ UNCHANGED <<timer, closed, socket, net, attached, notified>>
    <2>1. reading' \in {"frameHeader", "frameLength", "framePayload"} /\ timer' \in BOOLEAN
      BY <1>0, <1>4 DEF Types
    <2> QED BY <1>1, <1>4, <2>1, FrameKeeps
  <1> QED BY <1>2, <1>3, <1>4 DEF DidReadFrameHeader

\* The long length of a frame.
LEMMA DidReadFrameLengthKeeps == ConnInv /\ DidReadFrameLength => ConnInv'
  <1> SUFFICES ASSUME ConnInv, DidReadFrameLength
               PROVE  ConnInv'
    OBVIOUS
  <1>0. Types
    BY DEF ConnInv
  <1>1. /\ ~closed /\ Called("read") /\ Head(cq).tag = "frameLength"
        /\ UNCHANGED <<mode, intermediate, deaf, begun, attempt, ready, key, tls, opened>>
    BY DEF DidReadFrameLength, DidRead
  <1>2. CASE CloseAndNotify(Tail(cq)) /\ timer' = timer
    BY <1>0, <1>1, <1>2, FrameKeeps DEF Types
  <1>3. CASE HandleFrame(frame)
    BY <1>0, <1>1, <1>3, HandleFrameShape, FrameKeeps
  <1>4. CASE /\ reading' = "framePayload" /\ cq' = Tail(cq)
             /\ UNCHANGED <<timer, closed, socket, net, attached, notified>>
    <2>1. reading' \in {"frameHeader", "frameLength", "framePayload"} /\ timer' \in BOOLEAN
      BY <1>0, <1>4 DEF Types
    <2> QED BY <1>1, <1>4, <2>1, FrameKeeps
  <1> QED BY <1>2, <1>3, <1>4 DEF DidReadFrameLength

\* The payload of a frame.
LEMMA DidReadFramePayloadKeeps == ConnInv /\ DidReadFramePayload => ConnInv'
  <1> SUFFICES ASSUME ConnInv, DidReadFramePayload
               PROVE  ConnInv'
    OBVIOUS
  <1>0. Types
    BY DEF ConnInv
  <1>1. /\ ~closed /\ Called("read") /\ Head(cq).tag = "framePayload" /\ HandleFrame(frame)
        /\ UNCHANGED <<mode, intermediate, deaf, begun, attempt, ready, key, tls, opened>>
    BY DEF DidReadFramePayload, DidRead
  <1> QED BY <1>0, <1>1, HandleFrameShape, FrameKeeps

\* Every step of the connection, its sockets and its transport keeps the
\* invariant.
LEMMA ConnStep == ConnInv /\ [Next]_vars => ConnInv'
  <1> SUFFICES ASSUME ConnInv, Next \/ UNCHANGED vars
               PROVE  ConnInv'
    OBVIOUS
  <1>1. CASE \E s \in Sockets : SocketStep(s) \/ SocketReads(s)
    BY <1>1, ConnectsKeeps, SecuresKeeps, FailsKeeps, ReadsKeeps DEF SocketStep
  <1>2. CASE CallbackStep
    BY <1>2, DidConnectKeeps, DidSecureKeeps, DidDisconnectKeeps, DidReadClosedKeeps,
       DidReadHeaderKeeps, DidReadPlainKeeps, DidReadFrameHeaderKeeps,
       DidReadFrameLengthKeeps, DidReadFramePayloadKeeps DEF CallbackStep
  <1> QED BY <1>1, <1>2, StartKeeps, StopKeeps, TimeoutKeeps, SendKeeps, StutterKeeps DEF Next

\* The invariant holds in every state of every behaviour.
LEMMA ConnInvariant == Spec => []ConnInv
  BY InitInv, ConnStep, PTL DEF Spec

-----------------------------------------------------------------------------
(* The properties.                                                         *)

\* However stop, timeouts, errors and late callbacks meet, the transport hears
\* once of the end of the connection and at most once of its opening, for any
\* number of endpoints.
THEOREM ToldOnceCorrect == Spec => []ToldOnce
  <1>1. ConnInv => ToldOnce
    BY DEF ConnInv, Types, ToldOnce
  <1> QED BY <1>1, ConnInvariant, PTL

\* Once a WebSocket is ready nothing of an endpoint that was given up is left
\* on tcpQueue, although most callbacks do not look at who calls.
THEOREM ReadyIsCleanCorrect == Spec => []ReadyIsClean
  <1>1. ConnInv => ReadyIsClean
    BY DEF ConnInv, Keys, ReadyIsClean, Elements
  <1> QED BY <1>1, ConnInvariant, PTL

\* While a connection is in use one read is queued or its data waits on
\* tcpQueue, never two, unless a length of zero was read.
THEOREM ReadingGoesOnCorrect == Spec => []ReadingGoesOn
  <1>1. ConnInv => ReadingGoesOn
    <2> SUFFICES ASSUME ConnInv, begun, ~closed, WebSocket => ready
                 PROVE  /\ reading # "none" \/ PendingReads # {} \/ deaf
                        /\ reading # "none" => PendingReads = {}
                        /\ \A i, j \in PendingReads : i = j
      BY DEF ReadingGoesOn
    <2>0. Types /\ Phase /\ QueueGood /\ Keys /\ OneRead /\ GoesOn
      BY DEF ConnInv
    <2>1. NoRead(cq) <=> PendingReads = {}
      BY DEF NoRead, PendingReads, Elements
    <2>2. \A i, j \in PendingReads : i = j
      <3> SUFFICES ASSUME NEW i \in PendingReads, NEW j \in PendingReads, i < j
                   PROVE  FALSE
        <4>1. \A i, j \in PendingReads : i \in Int /\ j \in Int
          BY DEF PendingReads
        <4> QED BY <4>1
      <3>1. /\ i \in 1..Len(cq) /\ j \in 1..Len(cq)
            /\ cq[i].event = "read" /\ cq[j].event = "read"
            /\ cq[i] \in Elements(cq) /\ cq[j] \in Elements(cq)
        BY DEF PendingReads, Elements
      <3>2. Before(cq[i], cq[j])
        BY <2>0, <3>1 DEF QueueGood, Ordered
      <3>3. ~NoRead(cq)
        BY <3>1 DEF NoRead
      <3>4. \A c \in Elements(cq) : c.sock \in Sockets /\ c.sock \in Nat
        BY <2>0, ElementsInCallback, CallbackFields, SocketNumbers DEF Types
      <3>5. cq[i].sock = cq[j].sock
        <4>1. CASE WebSocket
          BY <4>1, <3>1, <3>3, <2>0 DEF Keys
        <4>2. CASE ~WebSocket
          <5>1. cq[i].sock <= 1 /\ cq[j].sock <= 1
            BY <4>2, <2>0, <3>1 DEF QueueGood, Possible, Phase
          <5>2. \A s \in Sockets : s <= 1 => s = 1
            BY AttemptsAssumption DEF Sockets
          <5> QED BY <5>1, <5>2, <3>1, <3>4
        <4> QED BY <4>1, <4>2
      <3>6. Rank("read") = 3
        BY DEF Rank
      <3> QED BY <3>1, <3>2, <3>4, <3>5, <3>6 DEF Before
    <2> QED BY <2>0, <2>1, <2>2 DEF OneRead, GoesOn
  <1> QED BY <1>1, ConnInvariant, PTL

-----------------------------------------------------------------------------
(* The numbers of cells, and the loop over them.  EndOf and Parsed are     *)
(* recursive functions: that they exist, and what they compute, is proved  *)
(* by induction, in the form of a least counterexample.                    *)

\* Every packet has cells.
LEMMA PacketCellsPositive ==
    ASSUME NEW p \in Nat
    PROVE  PacketCells(p) \in Nat /\ PacketCells(p) > 0
  <1>1. p % 3 \in 0..2
    OBVIOUS
  <1> QED BY <1>1 DEF PacketCells

\* f is the function EndOf for the first n packets.
EndFunction(f, n) == f = [p \in 0..n |-> IF p = 0 THEN 0 ELSE f[p - 1] + PacketCells(p)]

\* What such a function computes.
LEMMA EndFunctionValues ==
    ASSUME NEW f, NEW n \in Nat, EndFunction(f, n)
    PROVE  f[0] = 0 /\ \A p \in 1..n : f[p] = f[p - 1] + PacketCells(p)
  <1>1. \A p \in 0..n : f[p] = IF p = 0 THEN 0 ELSE f[p - 1] + PacketCells(p)
    BY Zenon DEF EndFunction
  <1> QED BY <1>1

\* There is one for every number of packets.
LEMMA EndFunctionExists == \A n \in Nat : \E f : EndFunction(f, n)
  <1> DEFINE T == {n \in Nat : ~ \E f : EndFunction(f, n)}
  <1> SUFFICES ASSUME T # {} PROVE FALSE
    OBVIOUS
  <1>1. PICK n \in T : \A m \in T : n <= m
    BY LeastNumber
  <1>2. n # 0
    <2>1. EndFunction([p \in 0..0 |-> 0], 0)
      BY DEF EndFunction
    <2> QED BY <2>1
  <1>3. n \in Nat /\ n - 1 \in Nat /\ n - 1 \notin T
    BY <1>1, <1>2
  <1>4. PICK g : EndFunction(g, n - 1)
    BY <1>3
  <1> DEFINE h == [p \in 0..n |-> IF p = n THEN g[n - 1] + PacketCells(n) ELSE g[p]]
             b == [p \in 0..n |-> IF p = 0 THEN 0 ELSE h[p - 1] + PacketCells(p)]
  <1>5. ASSUME NEW p \in 0..n PROVE h[p] = b[p]
    <2>1. g[0] = 0 /\ \A j \in 1..(n - 1) : g[j] = g[j - 1] + PacketCells(j)
      BY <1>3, <1>4, EndFunctionValues
    <2>2. \A j \in 0..(n - 1) : h[j] = g[j]
      BY <1>3
    <2>3. h[n] = g[n - 1] + PacketCells(n)
      BY <1>3
    <2>4. b[0] = 0 /\ \A j \in 1..n : b[j] = h[j - 1] + PacketCells(j)
      BY <1>3
    <2> HIDE DEF h, b
    <2>5. CASE p = 0
      BY <1>2, <1>3, <2>1, <2>2, <2>4, <2>5
    <2>6. CASE p \in 1..(n - 1)
      <3>1. p \in 0..(n - 1) /\ p - 1 \in 0..(n - 1) /\ p \in 1..n
        BY <1>3, <2>6
      <3> QED BY <2>1, <2>2, <2>4, <2>6, <3>1
    <2>7. CASE p = n
      <3>1. n - 1 \in 0..(n - 1) /\ n \in 1..n
        BY <1>2, <1>3
      <3> QED BY <2>2, <2>3, <2>4, <2>7, <3>1
    <2> QED BY <1>3, <2>5, <2>6, <2>7
  <1>6. h = b
    BY <1>5
  <1>7. EndFunction(h, n)
    BY <1>6 DEF EndFunction
  <1> QED BY <1>7

\* EndOf is such a function.
LEMMA EndOfValues ==
    /\ EndOf[0] = 0
    /\ \A p \in 1..NumPackets : EndOf[p] = EndOf[p - 1] + PacketCells(p)
  <1>1. EndFunction(EndOf, NumPackets)
    <2>1. EndOf = CHOOSE f : EndFunction(f, NumPackets)
      BY DEF EndOf, EndFunction
    <2> QED BY <2>1, EndFunctionExists, PacketsAssumption
  <1> QED BY <1>1, EndFunctionValues, PacketsAssumption

\* The end of a packet is a number of cells.
LEMMA EndOfNat == \A p \in 0..NumPackets : EndOf[p] \in Nat
  <1> DEFINE T == {p \in 0..NumPackets : EndOf[p] \notin Nat}
  <1> SUFFICES ASSUME T # {} PROVE FALSE
    OBVIOUS
  <1>0. NumPackets \in Nat
    BY PacketsAssumption
  <1>t. T \subseteq Nat
    BY <1>0
  <1>1. PICK n \in T : \A m \in T : n <= m
    BY <1>t, LeastNumber
  <1>2. n # 0
    BY EndOfValues
  <1>3. n \in 1..NumPackets /\ n - 1 \in 0..NumPackets /\ n - 1 \notin T /\ n \in Nat
    BY <1>0, <1>1, <1>2
  <1>4. EndOf[n - 1] \in Nat
    BY <1>3
  <1>5. EndOf[n] = EndOf[n - 1] + PacketCells(n)
    BY <1>3, EndOfValues
  <1>6. PacketCells(n) \in Nat
    BY <1>3, PacketCellsPositive
  <1>7. EndOf[n] \in Nat
    BY <1>4, <1>5, <1>6
  <1> QED BY <1>7

\* So is the end of the last one.
LEMMA TotalNat == Total \in Nat
  BY EndOfNat, PacketsAssumption DEF Total

-----------------------------------------------------------------------------
(* The loop that takes packets out of the buffer.                          *)

ParseStep(f, s) ==
    IF s[1] < NumPackets /\ PacketCells(s[1] + 1) <= s[2]
      THEN f[<<s[1] + 1, s[2] - PacketCells(s[1] + 1)>>]
      ELSE s

ParseDomain(n) == ((NumPackets - n)..NumPackets) \X (0..Total)

\* f is the function Parsed where at most n packets are left.
ParseFunction(f, n) == f = [s \in ParseDomain(n) |-> ParseStep(f, s)]

\* What such a function computes.
LEMMA ParseFunctionValues ==
    ASSUME NEW f, NEW n, ParseFunction(f, n)
    PROVE  \A s \in ParseDomain(n) : f[s] = ParseStep(f, s)
  BY Zenon DEF ParseFunction

\* The loop goes on with one packet less to come.
LEMMA ParseGoesOn ==
    ASSUME NEW n \in 0..NumPackets, NEW s \in ParseDomain(n),
           s[1] < NumPackets, PacketCells(s[1] + 1) <= s[2]
    PROVE  /\ n # 0
           /\ <<s[1] + 1, s[2] - PacketCells(s[1] + 1)>> \in ParseDomain(n - 1)
           /\ s[1] \in Nat /\ s[2] \in Nat
  <1>1. /\ NumPackets \in Nat /\ Total \in Nat /\ n \in Nat /\ NumPackets - n \in Nat
    BY PacketsAssumption, TotalNat
  <1>2. s[1] \in (NumPackets - n)..NumPackets /\ s[2] \in 0..Total
    BY DEF ParseDomain
  <1>3. s[1] \in Nat /\ s[2] \in Nat
    BY <1>1, <1>2
  <1>4. PacketCells(s[1] + 1) \in Nat
    BY <1>3, PacketCellsPositive
  <1>5. n # 0
    BY <1>1, <1>2
  <1>6. s[1] + 1 \in (NumPackets - (n - 1))..NumPackets
    BY <1>1, <1>2, <1>3
  <1>7. s[2] - PacketCells(s[1] + 1) \in 0..Total
    BY <1>1, <1>2, <1>4
  <1> QED BY <1>3, <1>5, <1>6, <1>7 DEF ParseDomain

\* There is one for every number of packets left.
LEMMA ParseFunctionExists == \A n \in 0..NumPackets : \E f : ParseFunction(f, n)
  <1> DEFINE T == {n \in 0..NumPackets : ~ \E f : ParseFunction(f, n)}
  <1> SUFFICES ASSUME T # {} PROVE FALSE
    OBVIOUS
  <1>0. NumPackets \in Nat /\ 0 \in 0..NumPackets
    BY PacketsAssumption
  <1>t. T \subseteq Nat
    BY <1>0
  <1>1. PICK n \in T : \A m \in T : n <= m
    BY <1>t, LeastNumber
  <1>n. n \in 0..NumPackets /\ n \in Nat
    BY <1>0, <1>1
  <1>2. n # 0
    <2> SUFFICES ASSUME n = 0 PROVE FALSE
      OBVIOUS
    <2> DEFINE h == [s \in ParseDomain(0) |-> s]
               b == [s \in ParseDomain(0) |-> ParseStep(h, s)]
    <2>1. ASSUME NEW s \in ParseDomain(0) PROVE ParseStep(h, s) = s
      <3>1. ~(s[1] < NumPackets /\ PacketCells(s[1] + 1) <= s[2])
        BY <1>0, ParseGoesOn
      <3> HIDE DEF h
      <3> QED BY <3>1 DEF ParseStep
    <2>2. h = b
      BY <2>1
    <2>3. ParseFunction(h, 0)
      BY <2>2 DEF ParseFunction
    <2> QED BY <2>3, <1>1
  <1>3. n - 1 \in 0..NumPackets /\ n - 1 \notin T
    BY <1>0, <1>n, <1>1, <1>2
  <1>4. PICK g : ParseFunction(g, n - 1)
    BY <1>3
  <1>d. ParseDomain(n - 1) \subseteq ParseDomain(n)
    BY <1>0, <1>n, <1>3 DEF ParseDomain
  <1> DEFINE h == [s \in ParseDomain(n) |-> ParseStep(g, s)]
             b == [s \in ParseDomain(n) |-> ParseStep(h, s)]
  <1>5. ASSUME NEW s \in ParseDomain(n) PROVE h[s] = b[s]
    <2>1. \A t \in ParseDomain(n - 1) : g[t] = ParseStep(g, t)
      BY <1>4, ParseFunctionValues
    <2>2. \A t \in ParseDomain(n) : h[t] = ParseStep(g, t)
      OBVIOUS
    <2>3. b[s] = ParseStep(h, s)
      OBVIOUS
    <2> HIDE DEF h, b
    <2>4. \A t \in ParseDomain(n - 1) : h[t] = g[t]
      BY <2>1, <2>2, <1>d
    <2>5. ParseStep(h, s) = ParseStep(g, s)
      <3>1. CASE s[1] < NumPackets /\ PacketCells(s[1] + 1) <= s[2]
        <4>1. <<s[1] + 1, s[2] - PacketCells(s[1] + 1)>> \in ParseDomain(n - 1)
          BY <1>n, <3>1, ParseGoesOn
        <4> QED BY <3>1, <4>1, <2>4 DEF ParseStep
      <3>2. CASE ~(s[1] < NumPackets /\ PacketCells(s[1] + 1) <= s[2])
        BY <3>2 DEF ParseStep
      <3> QED BY <3>1, <3>2
    <2> QED BY <2>2, <2>3, <2>5
  <1>6. h = b
    BY <1>5
  <1>7. ParseFunction(h, n)
    BY <1>6 DEF ParseFunction
  <1> QED BY <1>7, <1>1

\* Parsed is such a function.
LEMMA ParsedValues ==
    \A s \in (0..NumPackets) \X (0..Total) : Parsed[s] = ParseStep(Parsed, s)
  <1>1. NumPackets \in 0..NumPackets /\ ParseDomain(NumPackets) = (0..NumPackets) \X (0..Total)
    BY PacketsAssumption DEF ParseDomain
  <1>2. Parsed = CHOOSE f : ParseFunction(f, NumPackets)
    BY <1>1 DEF Parsed, ParseFunction, ParseStep
  <1>3. ParseFunction(Parsed, NumPackets)
    BY <1>1, <1>2, ParseFunctionExists
  <1> QED BY <1>1, <1>3, ParseFunctionValues

\* What the loop leaves, r, for packets d and cells b before it: all whole
\* packets are taken out, and nothing else.
ParseResult(d, b, r) ==
    /\ r[1] \in 0..NumPackets /\ r[2] \in Nat
    /\ EndOf[r[1]] + r[2] = EndOf[d] + b
    /\ r[1] < NumPackets => r[2] < PacketCells(r[1] + 1)

\* The parse loop takes whole packets only, and all of them.
LEMMA ParsedTakesPackets ==
    \A d \in 0..NumPackets, b \in 0..Total : ParseResult(d, b, Parsed[<<d, b>>])
  <1> DEFINE T == {n \in 0..NumPackets : \E b \in 0..Total :
                     ~ParseResult(NumPackets - n, b, Parsed[<<NumPackets - n, b>>])}
  <1>0. NumPackets \in Nat /\ Total \in Nat
    BY PacketsAssumption, TotalNat
  <1>1. T = {}
    <2> SUFFICES ASSUME T # {} PROVE FALSE
      OBVIOUS
    <2>t. T \subseteq Nat
      BY <1>0
    <2>1. PICK n \in T : \A m \in T : n <= m
      BY <2>t, LeastNumber
    <2>2. PICK b \in 0..Total : ~ParseResult(NumPackets - n, b, Parsed[<<NumPackets - n, b>>])
      BY <2>1
    <2>3. PICK d : d = NumPackets - n
      OBVIOUS
    <2>4. /\ n \in 0..NumPackets /\ n \in Nat /\ d \in 0..NumPackets /\ d \in Nat
          /\ ~ParseResult(d, b, Parsed[<<d, b>>])
          /\ \A m \in 0..NumPackets : m < n => m \notin T
      BY <1>0, <2>1, <2>2, <2>3
    <2> DEFINE c == PacketCells(d + 1)
    <2>5. c \in Nat /\ b \in Nat /\ EndOf[d] \in Nat
      BY <1>0, <2>4, PacketCellsPositive, EndOfNat
    <2>6. Parsed[<<d, b>>] = ParseStep(Parsed, <<d, b>>)
      BY <2>4, ParsedValues
    <2>7. CASE d < NumPackets /\ c <= b
      <3>1. Parsed[<<d, b>>] = Parsed[<<d + 1, b - c>>]
        BY <2>6, <2>7 DEF ParseStep
      <3>2. d + 1 \in 1..NumPackets /\ b - c \in 0..Total /\ n - 1 \in 0..NumPackets /\ n - 1 < n
            /\ NumPackets - (n - 1) = d + 1
        BY <1>0, <2>3, <2>4, <2>5, <2>7
      <3>3. ParseResult(d + 1, b - c, Parsed[<<d + 1, b - c>>])
        <4>1. n - 1 \notin T
          BY <3>2, <2>4
        <4> QED BY <4>1, <3>2
      <3>4. EndOf[d + 1] = EndOf[d] + c
        <4>1. EndOf[d + 1] = EndOf[(d + 1) - 1] + PacketCells(d + 1)
          BY <3>2, EndOfValues
        <4>2. (d + 1) - 1 = d
          BY <2>4
        <4> QED BY <4>1, <4>2
      <3>5. EndOf[d + 1] + (b - c) = EndOf[d] + b
        BY <3>4, <2>5
      <3>6. ParseResult(d, b, Parsed[<<d, b>>])
        BY <3>1, <3>3, <3>5 DEF ParseResult
      <3> QED BY <3>6, <2>4
    <2>8. CASE ~(d < NumPackets /\ c <= b)
      <3>1. Parsed[<<d, b>>] = <<d, b>>
        BY <2>6, <2>8 DEF ParseStep
      <3>2. d < NumPackets => b < c
        BY <2>8, <2>5
      <3>3. ParseResult(d, b, <<d, b>>)
        BY <3>2, <2>4, <2>5 DEF ParseResult
      <3> QED BY <3>1, <3>3, <2>4
    <2> QED BY <2>7, <2>8
  <1>2. ASSUME NEW d \in 0..NumPackets, NEW b \in 0..Total
        PROVE  ParseResult(d, b, Parsed[<<d, b>>])
    <2>1. NumPackets - d \in 0..NumPackets /\ NumPackets - (NumPackets - d) = d
      BY <1>0
    <2>2. NumPackets - d \notin T
      BY <1>1
    <2> QED BY <2>1, <2>2
  <1> QED BY <1>2

-----------------------------------------------------------------------------
(* The cells of the frames.                                                *)

\* The length of the frame under way is known.
Announcing(t) == t \in {"frameLength", "framePayload"}

Announced ==
    \/ Announcing(reading)
    \/ \E c \in Elements(cq) : c.event = "read" /\ Announcing(c.tag)

NoCells == arrived = 0 /\ packets = 0 /\ buffer = 0 /\ fragment = 0

CellInv ==
    /\ frame \in Frame /\ arrived \in 0..Total /\ packets \in 0..NumPackets
    /\ buffer \in Nat /\ fragment \in Nat
    /\ ~ready /\ ~closed => NoCells
    /\ CellsInOrder
    /\ ~closed /\ Announced => arrived + frame.cells <= Total

\* What a frame says.
LEMMA FrameFields ==
    ASSUME NEW f \in Frame
    PROVE  f.cells \in 0..MaxFrame /\ f.cells \in Nat /\ MaxFrame \in Nat
           /\ f.kind \in DataFrames \cup ControlFrames
  BY PacketsAssumption DEF Frame

\* Nothing has arrived before start.
LEMMA InitCells == Init => CellInv
  <1> SUFFICES ASSUME Init PROVE CellInv
    OBVIOUS
  <1>1. /\ cq = <<>> /\ reading = "none" /\ arrived = 0 /\ packets = 0 /\ buffer = 0
        /\ fragment = 0 /\ frame = [kind |-> "pong", cells |-> 0]
    BY DEF Init
  <1>2. frame \in Frame
    BY <1>1, PacketsAssumption DEF Frame, ControlFrames
  <1>3. 0 \in 0..Total /\ 0 \in 0..NumPackets
    BY TotalNat, PacketsAssumption
  <1>4. ~Announced
    <2>1. Elements(<<>>) = {}
      BY DEF Elements
    <2> QED BY <1>1, <2>1 DEF Announced, Announcing
  <1>5. CellsInOrder
    <2>1. PacketCells(0 + 1) \in Nat /\ PacketCells(0 + 1) > 0
      BY PacketCellsPositive
    <2> QED BY <1>1, <2>1, EndOfValues DEF CellsInOrder
  <1> QED BY <1>1, <1>2, <1>3, <1>4, <1>5 DEF CellInv, NoCells

\* A step that leaves the frames alone keeps the invariant when the connection
\* is closed or nothing new is announced.
LEMMA QuietKeeps ==
    ASSUME CellInv, UNCHANGED <<frame, fragment, buffer, packets, arrived>>,
           closed' \/ (~closed /\ (~ready' => ~ready) /\ (Announced' => Announced))
    PROVE  CellInv'
  BY DEF CellInv, NoCells, CellsInOrder

\* The handling of a frame whose cells fit.
LEMMA HandleFrameCells ==
    ASSUME CellInv, ~closed, ready, ready', NEW f \in Frame, arrived + f.cells <= Total,
           frame' = f, HandleFrame(f), NoRead(Tail(cq))
    PROVE  CellInv'
  <1>0. /\ arrived \in 0..Total /\ packets \in 0..NumPackets /\ buffer \in Nat /\ fragment \in Nat
        /\ arrived = EndOf[packets] + buffer + fragment
        /\ packets < NumPackets => buffer < PacketCells(packets + 1)
    BY DEF CellInv, CellsInOrder
  <1>1. Total \in Nat /\ f.cells \in Nat /\ arrived \in Nat /\ EndOf[packets] \in Nat
    BY <1>0, TotalNat, FrameFields, EndOfNat
  <1>2. CASE CloseAndNotify(Tail(cq)) /\ UNCHANGED <<fragment, buffer, packets, arrived>>
    <2>1. closed'
      BY <1>2 DEF CloseAndNotify
    <2> QED BY <1>2, <2>1 DEF CellInv, NoCells, CellsInOrder
  <1>3. CASE reading' = "frameHeader" /\ cq' = Tail(cq) /\ closed' = closed
             /\ ~(CloseAndNotify(Tail(cq)) /\ UNCHANGED <<fragment, buffer, packets, arrived>>)
    <2>1. ~Announced'
      BY <1>3 DEF Announced, Announcing, NoRead
    <2>2. SUFFICES /\ arrived' \in 0..Total /\ packets' \in 0..NumPackets
                   /\ buffer' \in Nat /\ fragment' \in Nat
                   /\ arrived' = EndOf[packets'] + buffer' + fragment'
                   /\ packets' < NumPackets => buffer' < PacketCells(packets' + 1)
      BY <2>1 DEF CellInv, CellsInOrder
    <2>3. CASE UNCHANGED <<fragment, buffer, packets, arrived>>
      BY <2>3, <1>0
    <2>4. CASE /\ fragment' = fragment + f.cells /\ arrived' = arrived + f.cells
               /\ UNCHANGED <<buffer, packets>>
      BY <2>4, <1>0, <1>1
    <2>5. ASSUME NEW n \in Nat, n + fragment' = fragment + f.cells, fragment' \in Nat,
                 ProcessTransportFrame(n), arrived' = arrived + f.cells
          PROVE  /\ arrived' \in 0..Total /\ packets' \in 0..NumPackets
                 /\ buffer' \in Nat /\ fragment' \in Nat
                 /\ arrived' = EndOf[packets'] + buffer' + fragment'
                 /\ packets' < NumPackets => buffer' < PacketCells(packets' + 1)
      <3>1. arrived' = EndOf[packets] + buffer + n + fragment' /\ arrived' \in 0..Total
        BY <2>5, <1>0, <1>1
      <3>2. buffer + n \in 0..Total
        BY <3>1, <2>5, <1>0, <1>1
      <3>3. ParseResult(packets, buffer + n, Parsed[<<packets, buffer + n>>])
        BY <3>2, <1>0, ParsedTakesPackets
      <3>4. PICK r : r = Parsed[<<packets, buffer + n>>]
        OBVIOUS
      <3>5. packets' = r[1] /\ buffer' = r[2]
        BY <2>5, <3>4 DEF ProcessTransportFrame
      <3>6. /\ packets' \in 0..NumPackets /\ buffer' \in Nat
            /\ EndOf[packets'] + buffer' = EndOf[packets] + (buffer + n)
            /\ packets' < NumPackets => buffer' < PacketCells(packets' + 1)
        BY <3>3, <3>4, <3>5 DEF ParseResult
      <3>7. EndOf[packets'] \in Nat
        BY <3>6, EndOfNat
      <3>8. arrived' = EndOf[packets'] + buffer' + fragment'
        BY <3>1, <3>6, <3>7, <2>5, <1>0, <1>1
      <3> QED BY <3>1, <3>6, <3>8, <2>5
    <2>6. CASE /\ ProcessTransportFrame(f.cells)
               /\ arrived' = arrived + f.cells /\ fragment' = fragment
      <3>1. f.cells + fragment' = fragment + f.cells /\ fragment' \in Nat
        BY <2>6, <1>0, <1>1
      <3> QED BY <2>5, <2>6, <3>1, <1>1
    <2>7. CASE /\ ProcessTransportFrame(fragment + f.cells)
               /\ arrived' = arrived + f.cells /\ fragment' = 0
      <3>1. fragment + f.cells \in Nat /\ (fragment + f.cells) + fragment' = fragment + f.cells
            /\ fragment' \in Nat
        BY <2>7, <1>0, <1>1
      <3> QED BY <2>5, <2>7, <3>1
    <2> QED BY <1>3, <2>3, <2>4, <2>6, <2>7, Zenon DEF HandleFrame
  <1> QED BY <1>2, <1>3 DEF HandleFrame

\* Frames are read when the WebSocket is ready, and nothing else waits then.
LEMMA ReadsWhenReady ==
    ASSUME ConnInv, ~closed, Called("read"),
           Head(cq).tag \in {"frameHeader", "frameLength", "framePayload"}
    PROVE  /\ ready /\ NoRead(Tail(cq)) /\ reading = "none"
           /\ (Announcing(Head(cq).tag) => Announced)
  <1>1. /\ TagFits(Head(cq).tag) /\ NoRead(Tail(cq)) /\ reading = "none"
        /\ Head(cq).event = "read" /\ Head(cq) \in Elements(cq)
    BY LastRead
  <1>2. /\ Head(cq).tag \notin PlainTags /\ Head(cq).tag \notin SocksTags
        /\ Head(cq).tag # "httpHeader"
    BY DEF PlainTags, SocksTags
  <1>3. mode \in {"plain", "socks", "websocket"}
    BY ModesAssumption DEF ConnInv, Types
  <1>4. ready
    BY <1>1, <1>2, <1>3 DEF TagFits, WebSocket
  <1> QED BY <1>1, <1>4 DEF Announced

\* Another endpoint is tried only while no cell has arrived.
LEMMA AttemptCells ==
    ASSUME CellInv, ~ready, ~closed, NEW a, NEW q, NoRead(q), StartAttempt(a, q),
           UNCHANGED <<frame, packets, arrived>>
    PROVE  CellInv'
  <1>0. NoCells
    BY DEF CellInv
  <1>1. CASE closed' /\ fragment' \in {0, fragment} /\ buffer' \in {0, buffer}
    BY <1>1 DEF CellInv, CellsInOrder, NoCells
  <1>2. CASE fragment' = 0 /\ buffer' = 0 /\ reading' = "none" /\ cq' = q /\ closed' = closed
    <2>1. ~Announced'
      BY <1>2 DEF Announced, Announcing, NoRead
    <2>2. UNCHANGED <<fragment, buffer>>
      BY <1>0, <1>2 DEF NoCells
    <2> QED BY <2>1, <2>2, <1>2, <1>0 DEF CellInv, CellsInOrder, NoCells
  <1> QED BY <1>1, <1>2 DEF StartAttempt, CloseAndNotify

\* Every step keeps the count of the cells.
LEMMA CellStep == ConnInv /\ CellInv /\ [Next]_vars => CellInv'
  <1> SUFFICES ASSUME ConnInv, CellInv, Next \/ UNCHANGED vars
               PROVE  CellInv'
    OBVIOUS
  <1> DEFINE quiet == UNCHANGED <<frame, fragment, buffer, packets, arrived>>
  <1>1. CASE Start
    <2>0. ~ready /\ ~closed /\ cq = <<>> /\ NoRead(cq)
      <3>1. ~ready /\ ~closed /\ cq = <<>>
        BY <1>1 DEF Start, ConnInv, Phase
      <3>2. Elements(<<>>) = {}
        BY DEF Elements
      <3> QED BY <3>1, <3>2 DEF NoRead
    <2>1. UNCHANGED <<frame, packets, arrived>>
      BY <1>1 DEF Start
    <2>2. CASE StartAttempt(0, cq)
      BY <2>0, <2>1, <2>2, AttemptCells
    <2>3. CASE /\ reading' = IF mode = "socks" THEN "socksLogin" ELSE PacketLength
               /\ UNCHANGED <<ready, closed, fragment, buffer, cq>>
      <3>1. ~Announcing(reading)'
        BY <2>3 DEF Announcing, PacketLength
      <3>2. ~Announced'
        BY <3>1, <2>0, <2>3 DEF Announced, NoRead
      <3> QED BY <3>2, <2>0, <2>1, <2>3, QuietKeeps
    <2>4. CASE CloseAndNotify(cq) /\ UNCHANGED <<fragment, buffer>>
      <3>1. closed'
        BY <2>0, <2>4 DEF CloseAndNotify
      <3> QED BY <3>1, <2>1, <2>4, QuietKeeps
    <2> QED BY <1>1, <2>2, <2>3, <2>4 DEF Start
  <1>2. CASE Stop \/ ResponseTimeout
    <2>1. CloseAndNotify(cq) /\ quiet
      BY <1>2 DEF Stop, ResponseTimeout, frameVars
    <2>2. closed'
      BY <2>1 DEF CloseAndNotify
    <2> QED BY <2>1, <2>2, QuietKeeps
  <1>3. CASE \E expect \in BOOLEAN : SendDatas(expect)
    <2>1. quiet /\ ~closed /\ UNCHANGED <<ready, reading, cq>>
      BY <1>3 DEF SendDatas, frameVars
    <2> QED BY <2>1, QuietKeeps DEF Announced
  <1>4. ASSUME NEW s \in Sockets, SocketStep(s) \/ SocketReads(s)
        PROVE  CellInv'
    <2>1. PICK c : /\ Emit(s, net'[s], c)
                   /\ c.event = "read" /\ Announcing(c.tag) => Announcing(reading)
                   /\ c \in Callback /\ s \in attached /\ (reading' = reading \/ reading' = "none")
      <3>t. reading \in Tags \cup {"none"} /\ net \in [Sockets -> NetStates]
        BY DEF ConnInv, Types
      <3>1. CASE SocketStep(s)
        BY <1>4, <3>1, <3>t, CallbackKinds
        DEF SocketStep, SocketConnects, SocketSecures, SocketFails, Emit, Disconnected
      <3>2. CASE SocketReads(s)
        <4>1. reading # "none" /\ reading' = "none"
          BY <3>2 DEF SocketReads
        <4>2. PICK accept \in BOOLEAN :
                Emit(s, net[s], [sock |-> s, event |-> "read", tag |-> reading, accept |-> accept])
          BY <3>2 DEF SocketReads
        <4>3. net'[s] = net[s] /\ s \in attached
          BY <4>2, <3>t DEF Emit
        <4>4. [sock |-> s, event |-> "read", tag |-> reading, accept |-> accept] \in Callback
          BY <4>1, <3>t, CallbackKinds
        <4> QED BY <4>1, <4>2, <4>3, <4>4
      <3> QED BY <1>4, <3>1, <3>2
    <2>2. /\ quiet /\ cq' = Append(cq, c) /\ UNCHANGED <<ready, closed>>
      BY <2>1 DEF Emit, frameVars
    <2>3. ~closed
      BY <2>1, AttachedIsSocket
    <2>4. Elements(cq') = Elements(cq) \cup {c}
      BY <2>1, <2>2, ElementsOfAppend DEF ConnInv, Types
    <2>5. Announced' => Announced
      BY <2>1, <2>4 DEF Announced, Announcing
    <2> QED BY <2>2, <2>3, <2>5, QuietKeeps
  <1>5. CASE DidConnect \/ DidSecure \/ DidReadClosed
    <2>1. /\ quiet /\ cq # <<>> /\ cq' = Tail(cq) /\ UNCHANGED <<ready, closed>>
          /\ reading' \in {reading, "httpHeader"}
      BY <1>5 DEF DidConnect, DidSecure, DidReadClosed, Called, frameVars
    <2>2. Elements(cq') \subseteq Elements(cq)
      BY <2>1, FirstOut
    <2>3. Announced' => Announced
      BY <2>1, <2>2 DEF Announced, Announcing
    <2>4. closed \in BOOLEAN
      BY DEF ConnInv, Types
    <2> QED BY <2>1, <2>3, <2>4, QuietKeeps
  <1>6. CASE DidDisconnect
    <2>0. /\ cq # <<>> /\ Head(cq).event = "disconnected" /\ UNCHANGED <<frame, packets, arrived>>
      BY <1>6 DEF DidDisconnect, Called
    <2>1. CASE WebSocket /\ ~ready /\ ~closed
      <3>1. StartAttempt(attempt + 1, Tail(cq))
        BY <1>6, <2>1 DEF DidDisconnect, AttemptFailed
      <3>2. NoRead(Tail(cq))
        BY <2>0, <2>1, NoReadAfterEnd
      <3> QED BY <2>0, <2>1, <3>1, <3>2, AttemptCells
    <2>2. CASE ~(WebSocket /\ ~ready /\ ~closed)
      <3>1. CloseAndNotify(Tail(cq)) /\ UNCHANGED <<fragment, buffer>>
        BY <1>6, <2>2 DEF DidDisconnect
      <3>2. closed'
        BY <3>1 DEF CloseAndNotify
      <3> QED BY <2>0, <3>1, <3>2, QuietKeeps
    <2> QED BY <2>1, <2>2
  <1>7. CASE DidReadHeader
    <2>0. /\ ~closed /\ Called("read") /\ Head(cq).tag = "httpHeader"
          /\ UNCHANGED <<frame, packets, arrived>>
      BY <1>7 DEF DidReadHeader, DidRead
    <2>1. NoRead(Tail(cq)) /\ ~ready
      <3>1. NoRead(Tail(cq)) /\ TagFits("httpHeader")
        BY <2>0, LastRead
      <3>2. "httpHeader" \notin PlainTags /\ "httpHeader" \notin SocksTags
        BY DEF PlainTags, SocksTags
      <3>3. mode \in {"plain", "socks", "websocket"}
        BY ModesAssumption DEF ConnInv, Types
      <3> QED BY <3>1, <3>2, <3>3 DEF TagFits, WebSocket
    <2>2. CASE /\ ready' = TRUE /\ reading' = "frameHeader" /\ cq' = Tail(cq)
               /\ UNCHANGED <<closed, fragment, buffer>>
      <3>1. ~Announced'
        BY <2>1, <2>2 DEF Announced, Announcing, NoRead
      <3> QED BY <3>1, <2>0, <2>2, QuietKeeps
    <2>3. CASE AttemptFailed(Tail(cq))
      BY <2>0, <2>1, <2>3, AttemptCells DEF AttemptFailed
    <2> QED BY <1>7, <2>2, <2>3 DEF DidReadHeader
  <1>8. ASSUME NEW tag \in DOMAIN AfterRead, NEW next \in AfterRead[tag], DidReadPlain(tag, next)
        PROVE  CellInv'
    <2>0. /\ ~closed /\ Called("read") /\ quiet /\ UNCHANGED ready
      BY <1>8 DEF DidReadPlain, DidRead, frameVars
    <2>1. CASE next = "closed"
      <3>1. closed'
        BY <1>8, <2>1 DEF DidReadPlain, CloseAndNotify
      <3> QED BY <2>0, <3>1, QuietKeeps
    <2>2. CASE next # "closed"
      <3>1. /\ reading' = IF next = "packet" THEN PacketLength ELSE next
            /\ cq' = Tail(cq)
        BY <1>8, <2>2 DEF DidReadPlain
      <3>2. NoRead(Tail(cq))
        BY <2>0, LastRead
      <3>3. next \in PlainTags \cup SocksTags \cup {"packet", "none", "closed"}
        BY NextTag, TagDomain
      <3>4. ~Announcing(reading)'
        BY <3>1, <3>3 DEF Announcing, PacketLength, PlainTags, SocksTags
      <3>5. ~Announced'
        BY <3>1, <3>2, <3>4 DEF Announced, NoRead
      <3> QED BY <2>0, <3>5, QuietKeeps
    <2> QED BY <2>1, <2>2
  <1>9. ASSUME NEW f \in Frame, NEW long \in BOOLEAN, DidReadFrameHeader(f, long)
        PROVE  CellInv'
    <2>0. /\ ~closed /\ Called("read") /\ Head(cq).tag = "frameHeader" /\ Sendable(f)
          /\ frame' = f /\ UNCHANGED ready
      BY <1>9 DEF DidReadFrameHeader, DidRead
    <2>1. ready /\ NoRead(Tail(cq)) /\ ready'
      BY <2>0, ReadsWhenReady
    <2>2. arrived + f.cells <= Total
      <3>1. arrived \in 0..Total /\ Total \in Nat
        BY TotalNat DEF CellInv
      <3>2. f.cells = 0 \/ arrived + f.cells <= Total
        BY <2>0 DEF Sendable
      <3> QED BY <3>1, <3>2
    <2>3. CASE CloseAndNotify(Tail(cq)) /\ UNCHANGED <<fragment, buffer, packets, arrived>>
      <3>1. closed'
        BY <2>3 DEF CloseAndNotify
      <3> QED BY <2>0, <2>3, <3>1 DEF CellInv, NoCells, CellsInOrder
    <2>4. CASE HandleFrame(f)
      BY <2>0, <2>1, <2>2, <2>4, HandleFrameCells
    <2>5. CASE UNCHANGED <<fragment, buffer, packets, arrived, closed>>
      BY <2>0, <2>1, <2>2, <2>5 DEF CellInv, NoCells, CellsInOrder
    <2> QED BY <1>9, <2>3, <2>4, <2>5 DEF DidReadFrameHeader
  <1>10. CASE DidReadFrameLength \/ DidReadFramePayload
    <2>0. /\ ~closed /\ Called("read") /\ Announcing(Head(cq).tag)
          /\ Head(cq).tag \in {"frameHeader", "frameLength", "framePayload"}
          /\ UNCHANGED <<ready, frame>>
      BY <1>10 DEF DidReadFrameLength, DidReadFramePayload, DidRead, Announcing
    <2>1. ready /\ NoRead(Tail(cq)) /\ Announced /\ ready'
      BY <2>0, ReadsWhenReady
    <2>2. frame \in Frame /\ arrived + frame.cells <= Total
      BY <2>0, <2>1 DEF CellInv
    <2>3. CASE CloseAndNotify(Tail(cq)) /\ UNCHANGED <<fragment, buffer, packets, arrived>>
      <3>1. closed'
        BY <2>3 DEF CloseAndNotify
      <3> QED BY <2>0, <2>3, <3>1, QuietKeeps
    <2>4. CASE HandleFrame(frame)
      <3>1. PICK f \in Frame : f = frame
        BY <2>2
      <3>2. HandleFrame(f) /\ frame' = f /\ arrived + f.cells <= Total
        BY <2>0, <2>2, <2>4, <3>1
      <3> QED BY <2>0, <2>1, <3>2, HandleFrameCells
    <2>5. CASE UNCHANGED <<fragment, buffer, packets, arrived, closed>>
      BY <2>0, <2>1, <2>5, QuietKeeps
    <2> QED BY <1>10, <2>3, <2>4, <2>5 DEF DidReadFrameLength, DidReadFramePayload
  <1>11. CASE UNCHANGED vars
    BY <1>11 DEF vars, frameVars, CellInv, NoCells, CellsInOrder, Announced
  <1> QED BY <1>1, <1>2, <1>3, <1>4, <1>5, <1>6, <1>7, <1>8, <1>9, <1>10, <1>11
          DEF Next, CallbackStep

\* Fragments, control frames and packets that span frames are put together
\* without losing or repeating a cell, and the loop leaves no whole packet, for
\* any number and size of frames.
THEOREM CellsInOrderCorrect == Spec => []CellsInOrder
  <1>1. Init => ConnInv /\ CellInv
    BY InitInv, InitCells
  <1>2. (ConnInv /\ CellInv) /\ [Next]_vars => (ConnInv /\ CellInv)'
    BY ConnStep, CellStep
  <1>3. ConnInv /\ CellInv => CellsInOrder
    BY DEF CellInv
  <1> QED BY <1>1, <1>2, <1>3, PTL DEF Spec

=============================================================================
