------------------------ MODULE MTTcpTransportProofs ------------------------
(***************************************************************************)
(* Proofs about MTTcpTransport, for every number of connections and pings, *)
(* any queue bounds and any set of disturbances: reconnection, stopping,   *)
(* the watchdog, the transaction lock and the wakeups.                     *)
(***************************************************************************)
EXTENDS MTTcpTransport, SequenceTheorems, TLAPS

-----------------------------------------------------------------------------
(* The inductive invariant.                                                *)

\* The blocks of tcpTransportQueue; an opened or closed block names a
\* connection, so that it never matches the transport's nil.
TransportBlocks ==
    {b \in Blocks(TransportKind) : b.kind \in {"opened", "closed"} => b.conn \in Connection}

ManagerBlocks == Blocks(ManagerKind)

QueuesOK == mq \in Seq(ManagerBlocks) /\ tq \in Seq(TransportBlocks)

FlagsOK ==
    /\ connection \in 0..MaxConnection /\ backoffCount \in 0..2
    /\ stopped \in BOOLEAN /\ started \in BOOLEAN /\ needsReconnection \in BOOLEAN
    /\ backoffTimer \in BOOLEAN /\ connected \in BOOLEAN /\ valid \in BOOLEAN
    /\ watchdog \in BOOLEAN /\ excused \in BOOLEAN

\* Only stop ends the wish to reconnect; before the first start no timer runs;
\* and a valid connection has had its watchdog stopped.
LifeOK ==
    /\ stopped <=> ~needsReconnection
    /\ ~started => connection = 0 /\ ~backoffTimer
    /\ valid => excused /\ connection # 0

ConnectionInv ==
    /\ FlagsOK
    /\ LifeOK
    /\ ReconnectionIsComing
    /\ StoppedIsClosed
    /\ AttemptIsWatched

TransportInv == QueuesOK /\ ConnectionInv

-----------------------------------------------------------------------------
(* The queues.                                                             *)

\* Taking the head off a queue and appending blocks keep its type.
LEMMA SequenceStep ==
    ASSUME NEW S, NEW s \in Seq(S)
    PROVE  /\ \A b \in S : Append(s, b) \in Seq(S)
           /\ \A t \in Seq(S) : s \o t \in Seq(S)
           /\ s # <<>> => Head(s) \in S /\ Tail(s) \in Seq(S)
<1>1. \A b \in S : Append(s, b) \in Seq(S)
  OBVIOUS
<1>2. \A t \in Seq(S) : s \o t \in Seq(S)
  BY ConcatProperties
<1>3. s # <<>> => Head(s) \in S /\ Tail(s) \in Seq(S)
  BY HeadTailProperties
<1> QED
  BY <1>1, <1>2, <1>3

\* The blocks the handlers make.
LEMMA BlockTypes ==
    /\ \A k \in ManagerKind : Plain(k) \in ManagerBlocks
    /\ \A m \in 0..MaxPing : Block("sent", 0, m) \in ManagerBlocks
    /\ \A k \in TransportKind \ {"opened", "closed"} :
         /\ Plain(k) \in TransportBlocks
         /\ \A c \in 0..MaxConnection, m \in 0..MaxPing : Block(k, c, m) \in TransportBlocks
    /\ \A k \in TransportKind : \A c \in Connection : Block(k, c, 0) \in TransportBlocks
BY ConnectionAssumption, PingAssumption
DEF Plain, Block, ManagerBlocks, TransportBlocks, Blocks, ManagerKind, TransportKind, Connection

\* What goes from one queue to the other is a block there too.
LEMMA HeadTypes ==
    ASSUME QueuesOK
    PROVE  /\ mq # <<>> => /\ Head(mq) \in ManagerBlocks /\ Tail(mq) \in Seq(ManagerBlocks)
                           /\ Head(mq).conn \in 0..MaxConnection
                           /\ Head(mq).mid \in 0..MaxPing
           /\ tq # <<>> => /\ Head(tq) \in TransportBlocks /\ Tail(tq) \in Seq(TransportBlocks)
                           /\ Head(tq).mid \in 0..MaxPing
                           /\ Head(tq).kind \in {"opened", "closed"}
                                => Head(tq).conn \in Connection
                           /\ Head(tq).kind = "data" => Head(tq) \in ManagerBlocks
<1>1. mq # <<>> => Head(mq) \in ManagerBlocks /\ Tail(mq) \in Seq(ManagerBlocks)
  BY SequenceStep DEF QueuesOK
<1>2. tq # <<>> => Head(tq) \in TransportBlocks /\ Tail(tq) \in Seq(TransportBlocks)
  BY SequenceStep DEF QueuesOK
<1>3. \A b \in ManagerBlocks : b.conn \in 0..MaxConnection /\ b.mid \in 0..MaxPing
  BY DEF ManagerBlocks, Blocks
<1>4. \A b \in TransportBlocks :
        /\ b.mid \in 0..MaxPing
        /\ b.kind \in {"opened", "closed"} => b.conn \in Connection
        /\ b.kind = "data" => b \in ManagerBlocks
  BY DEF TransportBlocks, ManagerBlocks, Blocks, ManagerKind
<1> QED
  BY <1>1, <1>2, <1>3, <1>4

\* The ways a handler continues on the manager queue.
LEMMA ManagerContinues ==
    ASSUME NEW q \in Seq(ManagerBlocks), NEW w, NEW d, NEW a
    PROVE  /\ AskForTransaction(q) => mq' \in Seq(ManagerBlocks)
           /\ ServicesMayAskAgain(q) => mq' \in Seq(ManagerBlocks)
           /\ RequestTransactionFromDelegate(w, d, a, q) => mq' \in Seq(ManagerBlocks)
           /\ Release(q) => mq' \in Seq(ManagerBlocks)
<1> {"pass", "build", "buildPing"} \subseteq ManagerKind
  BY DEF ManagerKind
<1>1. \A k \in {"pass", "build", "buildPing"} : Append(q, Plain(k)) \in Seq(ManagerBlocks)
  BY BlockTypes, SequenceStep
<1>2. AskForTransaction(q) => mq' \in Seq(ManagerBlocks)
  BY <1>1 DEF AskForTransaction
<1>3. ServicesMayAskAgain(q) => mq' \in Seq(ManagerBlocks)
  BY <1>2 DEF ServicesMayAskAgain
<1>4. \A x, y, z : RequestTransactionFromDelegate(x, y, z, q) => mq' \in Seq(ManagerBlocks)
  BY <1>1 DEF RequestTransactionFromDelegate
<1>5. Release(q) => mq' \in Seq(ManagerBlocks)
  BY <1>4 DEF Release
<1> QED
  BY <1>2, <1>3, <1>4, <1>5

-----------------------------------------------------------------------------
(* The connection.                                                         *)

\* RequestsReconnection, called without a connection, starts one unless the
\* transport is stopped; the timer is off in any case.
LEMMA Reconnects ==
    ASSUME RequestsReconnection(0), NEW s \in BOOLEAN, stopped = s
    PROVE  /\ backoffTimer' = FALSE
           /\ s => /\ connection' = 0
                   /\ UNCHANGED <<watchdog, started, excused>>
           /\ ~s => /\ connection' \in 0..MaxConnection /\ connection' # 0
                    /\ watchdog' = TRUE /\ started' = TRUE /\ excused' = FALSE
<1>1. CASE s
  BY <1>1 DEF RequestsReconnection
<1>2. CASE ~s
  <2>1. UnusedConnections # {} /\ StartConnection(CHOOSE c \in UnusedConnections : TRUE)
    BY <1>2 DEF RequestsReconnection
  <2>2. (CHOOSE c \in UnusedConnections : TRUE) \in UnusedConnections
    BY <2>1
  <2>3. UnusedConnections \subseteq 0..MaxConnection /\ 0 \notin UnusedConnections
    BY ConnectionAssumption DEF UnusedConnections, Connection
  <2> QED
    BY <1>2, <2>1, <2>2, <2>3 DEF StartConnection, RequestsReconnection
<1> QED
  BY <1>1, <1>2

connectionState == <<connection, backoffCount, stopped, started, needsReconnection,
                     backoffTimer, connected, valid, watchdog, excused>>

\* A step that leaves the connection and the behaviour alone.
LEMMA ConnectionStutters ==
    ASSUME ConnectionInv, UNCHANGED connectionState
    PROVE  ConnectionInv'
BY DEF ConnectionInv, FlagsOK, LifeOK, ReconnectionIsComing, StoppedIsClosed,
       AttemptIsWatched, connectionState

\* A step that reconnects, from a transport without a connection.
LEMMA StartedOrStopped ==
    ASSUME ConnectionInv, connection = 0, backoffTimer' = FALSE,
           UNCHANGED <<backoffCount, stopped, needsReconnection, connected, valid>>,
           stopped => connection' = 0 /\ UNCHANGED <<watchdog, started, excused>>,
           ~stopped => /\ connection' \in 0..MaxConnection /\ connection' # 0
                       /\ watchdog' = TRUE /\ started' = TRUE /\ excused' = FALSE
    PROVE  ConnectionInv'
<1> USE DEF ConnectionInv, FlagsOK, LifeOK, ReconnectionIsComing, StoppedIsClosed,
        AttemptIsWatched
<1>1. CASE stopped
  <2>1. connection' = connection /\ UNCHANGED <<watchdog, started, excused>>
    BY <1>1, Zenon
  <2> QED
    BY <1>1, <2>1, Zenon
<1>2. CASE ~stopped
  <2>1. /\ connection' \in 0..MaxConnection /\ connection' # 0
        /\ watchdog' = TRUE /\ started' = TRUE /\ excused' = FALSE
    BY <1>2
  <2> QED
    BY <1>2, <2>1, Zenon
<1> QED
  BY <1>1, <1>2

\* The next pass may start the first connection.
LEMMA TransportPassConnection ==
    ASSUME ConnectionInv, TransportPass
    PROVE  ConnectionInv'
<1>1. CASE /\ connection = 0 /\ ~backoffTimer
           /\ RequestsReconnection(0)
           /\ UNCHANGED <<mq, lockVars, backoffCount, needsReconnection, connected, valid>>
  <2>1. stopped' = stopped /\ stopped \in BOOLEAN
    BY DEF TransportPass, ConnectionInv, FlagsOK
  <2>2. /\ backoffTimer' = FALSE
        /\ stopped => connection' = 0 /\ UNCHANGED <<watchdog, started, excused>>
        /\ ~stopped => /\ connection' \in 0..MaxConnection /\ connection' # 0
                       /\ watchdog' = TRUE /\ started' = TRUE /\ excused' = FALSE
    BY <1>1, <2>1, Reconnects
  <2> QED
    BY <1>1, <2>1, <2>2, StartedOrStopped DEF ConnectionInv, FlagsOK
<1>2. CASE UNCHANGED <<behaviourVars, connectionVars>>
  <2>1. UNCHANGED connectionState
    BY <1>2 DEF TransportPass, behaviourVars, connectionVars, connectionState
  <2> QED
    BY <2>1, ConnectionStutters
<1> QED
  BY <1>1, <1>2 DEF TransportPass

\* The close of the connection: at once a new one, or the timer.
LEMMA ConnectionClosedConnection ==
    ASSUME ConnectionInv, QueuesOK, ConnectionClosed
    PROVE  ConnectionInv'
<1>1. CASE Head(tq).conn = connection
  <2>1. connection # 0
    BY <1>1, HeadTypes, ConnectionAssumption DEF ConnectionClosed, TransportHead, Connection
  <2>2. /\ stopped' = stopped /\ needsReconnection' = needsReconnection
        /\ connected' = FALSE /\ valid' = FALSE /\ BehaviourClosed
    BY <1>1 DEF ConnectionClosed
  <2>3. ~stopped /\ needsReconnection /\ started
    BY <2>1, Zenon DEF ConnectionInv, FlagsOK, LifeOK, StoppedIsClosed
  <2>4. CASE backoffCount = 0 /\ backoffCount' = 1 /\ RequestsReconnection(0)
    <3>1. /\ backoffTimer' = FALSE /\ connection' \in 0..MaxConnection /\ connection' # 0
          /\ watchdog' = TRUE /\ started' = TRUE /\ excused' = FALSE
      BY <2>3, <2>4, Reconnects DEF ConnectionInv, FlagsOK
    <3>2. backoffCount' \in 0..2
      BY <2>4
    <3> QED
      BY <2>2, <2>3, <3>1, <3>2, Zenon
      DEF ConnectionInv, FlagsOK, LifeOK, ReconnectionIsComing, StoppedIsClosed,
          AttemptIsWatched
  <2>5. CASE /\ backoffCount' = 2 /\ backoffTimer' = TRUE /\ connection' = 0
             /\ UNCHANGED <<watchdog, socket, stopping, pongs, started, excused>>
    <3>1. connection' \in 0..MaxConnection /\ backoffCount' \in 0..2
      BY <2>5, ConnectionAssumption
    <3> QED
      BY <2>2, <2>3, <2>5, <3>1, Zenon
      DEF ConnectionInv, FlagsOK, LifeOK, ReconnectionIsComing, StoppedIsClosed,
          AttemptIsWatched
  <2> QED
    BY <2>2, <2>3, <2>4, <2>5 DEF BehaviourClosed
<1>2. CASE Head(tq).conn # connection
  <2>1. UNCHANGED connectionState
    BY <1>2 DEF ConnectionClosed, connectionVars, connectionState
  <2> QED
    BY <2>1, ConnectionStutters
<1> QED
  BY <1>1, <1>2

\* Opened, valid, stop and the two timers.
LEMMA OtherConnectionSteps ==
    ASSUME ConnectionInv, QueuesOK,
           \/ ConnectionOpened \/ ConnectionIsValid \/ TransportStop
           \/ BackoffTimerEvent \/ WatchdogTimeout \/ NetworkOrReset
    PROVE  ConnectionInv'
<1> USE DEF ConnectionInv, FlagsOK, LifeOK, ReconnectionIsComing,
        StoppedIsClosed, AttemptIsWatched
<1>1. CASE ConnectionOpened
  <2>1. CASE Head(tq).conn = connection
    <3>1. connection # 0
      BY <1>1, <2>1, HeadTypes, ConnectionAssumption
      DEF ConnectionOpened, TransportHead, Connection
    <3>2. /\ connected' = TRUE /\ valid' = FALSE
          /\ UNCHANGED <<connection, backoffCount, stopped, started, needsReconnection,
                         backoffTimer, watchdog, excused>>
      BY <1>1, <2>1 DEF ConnectionOpened, behaviourVars
    <3> QED
      BY <3>1, <3>2, Zenon
  <2>2. CASE Head(tq).conn # connection
    BY <1>1, <2>2, ConnectionStutters DEF ConnectionOpened, behaviourVars, connectionState
  <2> QED
    BY <2>1, <2>2
<1>2. CASE ConnectionIsValid
  <2>1. /\ watchdog' = FALSE /\ excused' = TRUE
        /\ UNCHANGED <<connection, stopped, started, needsReconnection, connected>>
    BY <1>2 DEF ConnectionIsValid
  <2>2. CASE UNCHANGED <<valid, backoffCount, backoffTimer>>
    BY <2>1, <2>2, Zenon
  <2>3. CASE /\ connection # 0
             /\ valid' = TRUE /\ backoffCount' = 0 /\ backoffTimer' = FALSE
    <3>1. backoffCount' \in 0..2
      BY <2>3
    <3> QED
      BY <2>1, <2>3, <3>1, Zenon
  <2> QED
    BY <1>2, <2>2, <2>3 DEF ConnectionIsValid
<1>3. CASE TransportStop
  <2>1. connection' \in 0..MaxConnection
    BY <1>3, ConnectionAssumption DEF TransportStop
  <2> QED
    BY <1>3, <2>1, Zenon DEF TransportStop
<1>4. CASE BackoffTimerEvent
  <2>1. CASE connection = 0
    <3>1. stopped' = stopped /\ stopped \in BOOLEAN /\ RequestsReconnection(0)
      BY <1>4, <2>1 DEF BackoffTimerEvent
    <3>2. /\ backoffTimer' = FALSE
          /\ stopped => connection' = 0 /\ UNCHANGED <<watchdog, started, excused>>
          /\ ~stopped => /\ connection' \in 0..MaxConnection /\ connection' # 0
                         /\ watchdog' = TRUE /\ started' = TRUE /\ excused' = FALSE
      BY <3>1, Reconnects
    <3> QED
      BY <1>4, <2>1, <3>1, <3>2, StartedOrStopped DEF BackoffTimerEvent
  <2>2. CASE connection # 0
    BY <1>4, <2>2 DEF BackoffTimerEvent, RequestsReconnection
  <2> QED
    BY <2>1, <2>2
<1>5. CASE WatchdogTimeout
  BY <1>5 DEF WatchdogTimeout, behaviourVars
<1>6. CASE NetworkOrReset
  BY <1>6 DEF NetworkOrReset
<1> QED
  BY <1>1, <1>2, <1>3, <1>4, <1>5, <1>6

-----------------------------------------------------------------------------
(* Every step keeps the queues' types.                                     *)

\* The calls from outside, and the sockets.
LEMMA CallsKeepQueues ==
    ASSUME QueuesOK, ConnectionInv,
           \/ RequestTransportTransaction \/ Suspend \/ Resume
           \/ RequestSecureTransportReset
           \/ \E clear, session \in BOOLEAN : StopTransport(clear, session)
           \/ SocketOpens \/ SocketCloses
           \/ \E m \in 0..MaxPing : SocketReads(m)
           \/ \E kind \in {"available", "reset"} : NetworkChanges(kind)
    PROVE  QueuesOK'
<1> USE DEF QueuesOK
<1>a. connection \in 0..MaxConnection /\ (connection # 0 => connection \in Connection)
  BY ConnectionAssumption DEF ConnectionInv, FlagsOK, Connection
<1>b. \A k \in {"reset", "session", "stop", "available"} :
        Plain(k) \in TransportBlocks /\ Append(tq, Plain(k)) \in Seq(TransportBlocks)
  BY BlockTypes, SequenceStep DEF TransportKind
<1>1. CASE RequestTransportTransaction \/ Resume
  BY <1>1, ManagerContinues DEF RequestTransportTransaction, Resume
<1>2. CASE Suspend
  BY <1>2 DEF Suspend
<1>3. CASE RequestSecureTransportReset
  BY <1>3, <1>b DEF RequestSecureTransportReset, managerVars
<1>4. CASE \E clear, session \in BOOLEAN : StopTransport(clear, session)
  <2>1. PICK clear \in BOOLEAN, session \in BOOLEAN : StopTransport(clear, session)
    BY <1>4
  <2>2. /\ mq' = mq
        /\ tq' = tq \o (IF session THEN <<Plain("session")>> ELSE <<>>) \o <<Plain("stop")>>
    BY <2>1 DEF StopTransport
  <2>3. /\ (IF session THEN <<Plain("session")>> ELSE <<>>) \in Seq(TransportBlocks)
        /\ <<Plain("stop")>> \in Seq(TransportBlocks)
    BY <1>b
  <2>4. tq \o (IF session THEN <<Plain("session")>> ELSE <<>>) \in Seq(TransportBlocks)
    BY <2>3, SequenceStep
  <2> QED
    BY <2>2, <2>3, <2>4, SequenceStep
<1>5. CASE SocketOpens \/ SocketCloses
  <2>1. /\ Block("opened", connection, 0) \in TransportBlocks
        /\ Block("closed", connection, 0) \in TransportBlocks
        /\ mq' = mq
    BY <1>5, <1>a, BlockTypes DEF SocketOpens, SocketCloses, TransportKind, managerVars
  <2> QED
    BY <1>5, <2>1, SequenceStep DEF SocketOpens, SocketCloses
<1>6. CASE \E m \in 0..MaxPing : SocketReads(m)
  <2>1. PICK m \in 0..MaxPing : SocketReads(m)
    BY <1>6
  <2>2. Block("data", connection, m) \in TransportBlocks
    BY <1>a, BlockTypes DEF TransportKind
  <2> QED
    BY <2>1, <2>2, SequenceStep DEF SocketReads, managerVars
<1>7. CASE \E kind \in {"available", "reset"} : NetworkChanges(kind)
  BY <1>7, <1>b DEF NetworkChanges, managerVars
<1> QED
  BY <1>1, <1>2, <1>3, <1>4, <1>5, <1>6, <1>7

\* The blocks of the manager queue.
LEMMA ManagerKeepsQueues ==
    ASSUME QueuesOK, ManagerStep
    PROVE  QueuesOK'
<1> USE DEF QueuesOK
<1>a. mq # <<>> => /\ Tail(mq) \in Seq(ManagerBlocks)
                   /\ Head(mq).conn \in 0..MaxConnection /\ Head(mq).mid \in 0..MaxPing
  BY HeadTypes
<1>b. \A k \in {"needs", "ready", "readyNil", "session", "stop", "reset"} :
        Plain(k) \in TransportBlocks /\ Append(tq, Plain(k)) \in Seq(TransportBlocks)
  BY BlockTypes, SequenceStep DEF TransportKind
<1>1. CASE ManagerPass
  BY <1>1, <1>a, <1>b DEF ManagerPass, ManagerHead
<1>2. CASE ReadyForTransaction
  <2>1. mq' \in Seq(ManagerBlocks)
    BY <1>2, <1>a DEF ReadyForTransaction, ManagerHead
  <2>2. CASE \E k \in {"ready", "readyNil"} : tq' = Append(tq, Plain(k))
    BY <2>1, <2>2, <1>b
  <2>3. CASE tq' = Append(tq, Block("ready", 0, NewPing))
    <3>1. NewPing \in 0..MaxPing
      BY PingAssumption DEF NewPing, UnusedPings, Ping
    <3>2. Block("ready", 0, NewPing) \in TransportBlocks
      BY <3>1, BlockTypes, ConnectionAssumption DEF TransportKind
    <3> QED
      BY <2>1, <2>3, <3>2, SequenceStep
  <2>4. CASE tq' = tq \o <<Plain("readyNil"), Plain("session"), Plain("stop")>>
    <3>1. <<Plain("readyNil"), Plain("session"), Plain("stop")>> \in Seq(TransportBlocks)
      BY <1>b
    <3> QED
      BY <2>1, <2>4, <3>1, SequenceStep
  <2> QED
    BY <1>2, <2>2, <2>3, <2>4 DEF ReadyForTransaction
<1>3. CASE IncomingData
  <2> DEFINE d == Head(mq)
  <2>1. d.conn \in 0..MaxConnection /\ d.mid \in 0..MaxPing /\ Tail(mq) \in Seq(ManagerBlocks)
    BY <1>3, <1>a DEF IncomingData, ManagerHead
  <2>2. mq' \in Seq(ManagerBlocks)
    BY <1>3, <2>1, ManagerContinues DEF IncomingData
  <2>3. /\ Append(tq, Block("valid", d.conn, 0)) \in Seq(TransportBlocks)
        /\ (IF d.mid = 0 THEN <<>> ELSE <<Block("settled", 0, d.mid)>>) \in Seq(TransportBlocks)
    <3>1. Block("valid", d.conn, 0) \in TransportBlocks
      BY <2>1, BlockTypes, PingAssumption DEF TransportKind
    <3>2. Block("settled", 0, d.mid) \in TransportBlocks
      BY <2>1, BlockTypes, ConnectionAssumption DEF TransportKind
    <3> QED
      BY <3>1, <3>2, SequenceStep
  <2>4. Append(tq, Block("valid", d.conn, 0)) \o
          (IF d.mid = 0 THEN <<>> ELSE <<Block("settled", 0, d.mid)>>) \in Seq(TransportBlocks)
    BY <2>3, SequenceStep
  <2> QED
    BY <1>3, <1>b, <2>2, <2>4 DEF IncomingData
<1>4. CASE PayloadSent
  <2>1. Block("pingSent", 0, Head(mq).mid) \in TransportBlocks
    BY <1>4, <1>a, BlockTypes, ConnectionAssumption DEF TransportKind, PayloadSent, ManagerHead
  <2> QED
    BY <1>4, <1>a, <2>1, SequenceStep DEF PayloadSent, ManagerHead
<1>5. CASE PayloadFailed
  BY <1>5, <1>a, ManagerContinues DEF PayloadFailed, ManagerHead
<1> QED
  BY <1>1, <1>2, <1>3, <1>4, <1>5 DEF ManagerStep

\* The blocks of tcpTransportQueue and the timers.
LEMMA TransportKeepsQueues ==
    ASSUME QueuesOK, TransportStep \/ TimerStep
    PROVE  QueuesOK'
<1> USE DEF QueuesOK
<1>a. tq # <<>> => /\ Tail(tq) \in Seq(TransportBlocks)
                   /\ Head(tq).mid \in 0..MaxPing
                   /\ Head(tq).kind = "data" => Head(tq) \in ManagerBlocks
  BY HeadTypes
<1>b. Plain("failed") \in ManagerBlocks /\ Append(mq, Plain("failed")) \in Seq(ManagerBlocks)
  BY BlockTypes, SequenceStep DEF ManagerKind
<1>1. CASE NeedsTransaction
  <2>1. tq # <<>> => Append(Tail(tq), Plain("pass")) \in Seq(TransportBlocks)
    BY <1>a, BlockTypes, SequenceStep DEF TransportKind
  <2> QED
    BY <1>1, <1>a, <2>1 DEF NeedsTransaction, TransportHead, managerVars
<1>2. CASE TransportPass
  BY <1>2, <1>a, ManagerContinues DEF TransportPass, TransportHead
<1>3. CASE TransactionReady
  <2>1. Append(mq, Block("sent", 0, Head(tq).mid)) \in Seq(ManagerBlocks)
    BY <1>3, <1>a, BlockTypes, SequenceStep DEF TransactionReady, TransportHead
  <2> QED
    BY <1>3, <1>a, <1>b, <2>1, ManagerContinues DEF TransactionReady, TransportHead
<1>4. CASE NothingReady
  BY <1>4, <1>a, ManagerContinues DEF NothingReady, TransportHead
<1>5. CASE ConnectionOpened
  BY <1>5, <1>a, ManagerContinues DEF ConnectionOpened, TransportHead
<1>6. CASE ConnectionClosed
  BY <1>6, <1>a, <1>b DEF ConnectionClosed, TransportHead
<1>7. CASE ReceivedData
  <2>1. Append(mq, Head(tq)) \in Seq(ManagerBlocks)
    BY <1>7, <1>a, SequenceStep DEF ReceivedData, TransportHead
  <2> QED
    BY <1>7, <1>a, <2>1 DEF ReceivedData, TransportHead
<1>8. CASE ConnectionIsValid \/ PingSettled \/ PingSent \/ NetworkOrReset
  BY <1>8, <1>a
  DEF ConnectionIsValid, PingSettled, PingSent, NetworkOrReset, TransportHead, managerVars
<1>9. CASE TransportStop
  BY <1>9, <1>a, <1>b DEF TransportStop, TransportHead
<1>10. CASE ResendActualizationPing
  BY <1>10, ManagerContinues DEF ResendActualizationPing
<1>11. CASE BackoffTimerEvent \/ WatchdogTimeout
  BY <1>11 DEF BackoffTimerEvent, WatchdogTimeout, managerVars
<1> QED
  BY <1>1, <1>2, <1>3, <1>4, <1>5, <1>6, <1>7, <1>8, <1>9, <1>10, <1>11
  DEF TransportStep, TimerStep

-----------------------------------------------------------------------------
(* The invariant.                                                          *)

\* A new transport has nothing to watch.
LEMMA InitEstablishes == Init => TransportInv
<1> SUFFICES ASSUME Init PROVE TransportInv
  OBVIOUS
<1>1. QueuesOK
  BY DEF Init, QueuesOK
<1>2. connection \in 0..MaxConnection /\ backoffCount \in 0..2
  BY ConnectionAssumption DEF Init
<1> QED
  BY <1>1, <1>2, Zenon
  DEF Init, TransportInv, ConnectionInv, FlagsOK, LifeOK, ReconnectionIsComing,
      StoppedIsClosed, AttemptIsWatched

\* Every step keeps the invariant.
LEMMA StepKeeps == TransportInv /\ [Next]_vars => TransportInv'
<1> SUFFICES ASSUME TransportInv, [Next]_vars PROVE TransportInv'
  OBVIOUS
<1> QueuesOK /\ ConnectionInv
  BY DEF TransportInv
<1>1. QueuesOK'
  <2>1. CASE UNCHANGED vars
    BY <2>1 DEF vars, managerVars, QueuesOK
  <2> QED
    BY <2>1, CallsKeepQueues, ManagerKeepsQueues, TransportKeepsQueues DEF Next
<1>2. ConnectionInv'
  <2>1. CASE \/ TransportPass \/ ConnectionClosed \/ ConnectionOpened \/ ConnectionIsValid
             \/ TransportStop \/ BackoffTimerEvent \/ WatchdogTimeout \/ NetworkOrReset
    BY <2>1, TransportPassConnection, ConnectionClosedConnection, OtherConnectionSteps
  <2>2. CASE \/ RequestTransportTransaction \/ Suspend \/ Resume
             \/ RequestSecureTransportReset \/ ManagerStep
             \/ \E clear, session \in BOOLEAN : StopTransport(clear, session)
             \/ NeedsTransaction \/ NothingReady \/ ReceivedData \/ PingSettled \/ PingSent
             \/ ResendActualizationPing
             \/ \E kind \in {"available", "reset"} : NetworkChanges(kind)
             \/ UNCHANGED vars
    <3>1. UNCHANGED <<stopped, behaviourVars, connectionVars>>
      BY <2>2
      DEF RequestTransportTransaction, Suspend, Resume, RequestSecureTransportReset,
          ManagerStep, ManagerPass, ReadyForTransaction, IncomingData, PayloadSent,
          PayloadFailed, StopTransport, NeedsTransaction, NothingReady, ReceivedData,
          PingSettled, PingSent, ResendActualizationPing, NetworkChanges, vars
    <3>2. UNCHANGED connectionState
      BY <3>1 DEF behaviourVars, connectionVars, connectionState
    <3> QED
      BY <3>2, ConnectionStutters
  <2>3. CASE \/ TransactionReady \/ SocketOpens \/ SocketCloses
             \/ \E m \in 0..MaxPing : SocketReads(m)
    <3>1. UNCHANGED connectionState
      BY <2>3 DEF TransactionReady, SocketOpens, SocketCloses, SocketReads, behaviourVars,
                  connectionState
    <3> QED
      BY <3>1, ConnectionStutters
  <2> QED
    BY <2>1, <2>2, <2>3 DEF Next, TransportStep, TimerStep
<1> QED
  BY <1>1, <1>2 DEF TransportInv

\* The invariant holds in every state of every behaviour.
LEMMA InvariantHolds == Spec => []TransportInv
BY InitEstablishes, StepKeeps, PTL DEF Spec

\* From the first start to stop, the transport has a connection or a backoff
\* timer that will give it one, and never both: tcpConnectionClosed and the
\* behaviour's connectionClosed and timerEvent lose no reconnection.
THEOREM ReconnectionIsComingCorrect == Spec => []ReconnectionIsComing
<1>1. TransportInv => ReconnectionIsComing
  BY DEF TransportInv, ConnectionInv
<1> QED
  BY <1>1, InvariantHolds, PTL

\* No block or timer that outlives stop connects again.
THEOREM StoppedIsClosedCorrect == Spec => []StoppedIsClosed
<1>1. TransportInv => StoppedIsClosed
  BY DEF TransportInv, ConnectionInv
<1> QED
  BY <1>1, InvariantHolds, PTL

\* Every connection attempt is covered by the connection watchdog until it has
\* reported it or data was decoded.
THEOREM AttemptIsWatchedCorrect == Spec => []AttemptIsWatched
<1>1. TransportInv => AttemptIsWatched
  BY DEF TransportInv, ConnectionInv
<1> QED
  BY <1>1, InvariantHolds, PTL

-----------------------------------------------------------------------------
(* The transaction lock does not leak.                                     *)

Builds == {"build", "buildPing"}
Answers == {"ready", "readyNil"}

\* A transport that MTProto uses has its delegate.
LockInv ==
    /\ isWaiting \in BOOLEAN /\ requestAnother \in BOOLEAN /\ didSendPing \in BOOLEAN
    /\ current \in BOOLEAN /\ delegate \in BOOLEAN
    /\ current => delegate
    /\ LockIsReleased

\* What is on a queue stays there until it is the head that is taken.
LEMMA OnSteps ==
    ASSUME NEW S, NEW q \in Seq(S), NEW K
    PROVE  /\ \A b \in S : On(q, K) => On(Append(q, b), K)
           /\ \A b \in S : b.kind \in K => On(Append(q, b), K)
           /\ \A t \in Seq(S) : On(q, K) => On(q \o t, K)
           /\ q # <<>> /\ On(q, K) /\ Head(q).kind \notin K => On(Tail(q), K)
<1>1. ASSUME NEW b \in S
      PROVE  /\ On(q, K) => On(Append(q, b), K)
             /\ b.kind \in K => On(Append(q, b), K)
  <2>1. /\ Len(Append(q, b)) = Len(q) + 1 /\ Append(q, b)[Len(q) + 1] = b
        /\ \A i \in 1..Len(q) : Append(q, b)[i] = q[i]
    BY AppendProperties
  <2>2. Len(q) \in Nat
    BY LenProperties
  <2> QED
    BY <2>1, <2>2 DEF On
<1>2. ASSUME NEW t \in Seq(S), On(q, K)
      PROVE  On(q \o t, K)
  <2>1. /\ Len(q \o t) = Len(q) + Len(t)
        /\ \A i \in 1..Len(q) : (q \o t)[i] = q[i]
    BY ConcatProperties
  <2>2. Len(q) \in Nat /\ Len(t) \in Nat
    BY LenProperties
  <2> QED
    BY <1>2, <2>1, <2>2 DEF On
<1>3. ASSUME q # <<>>, On(q, K), Head(q).kind \notin K
      PROVE  On(Tail(q), K)
  <2>1. PICK i \in 1..Len(q) : q[i].kind \in K
    BY <1>3 DEF On
  <2>2. /\ Len(Tail(q)) = Len(q) - 1 /\ Head(q) = q[1] /\ Len(q) \in Nat
        /\ \A j \in 1..Len(Tail(q)) : Tail(q)[j] = q[j + 1]
    BY <1>3, HeadTailProperties, LenProperties
  <2>3. i # 1
    BY <1>3, <2>1, <2>2
  <2>4. i - 1 \in 1..Len(Tail(q)) /\ Tail(q)[i - 1] = q[i]
    BY <2>1, <2>2, <2>3
  <2> QED
    BY <2>1, <2>4 DEF On
<1> QED
  BY <1>1, <1>2, <1>3

\* The same for the two queues and the blocks that matter.
LEMMA OnQueues ==
    ASSUME QueuesOK
    PROVE  /\ \A b \in ManagerBlocks : On(mq, Builds) => On(Append(mq, b), Builds)
           /\ \A b \in TransportBlocks : On(tq, Answers) => On(Append(tq, b), Answers)
           /\ \A t \in Seq(TransportBlocks) : On(tq, Answers) => On(tq \o t, Answers)
           /\ mq # <<>> /\ On(mq, Builds) /\ Head(mq).kind \notin Builds
                => On(Tail(mq), Builds)
           /\ tq # <<>> /\ On(tq, Answers) /\ Head(tq).kind \notin Answers
                => On(Tail(tq), Answers)
BY OnSteps DEF QueuesOK

\* A manager queue that is continued keeps its builds.
LEMMA OnContinues ==
    ASSUME NEW q \in Seq(ManagerBlocks), On(q, Builds)
    PROVE  /\ AskForTransaction(q) => On(mq', Builds)
           /\ ServicesMayAskAgain(q) => On(mq', Builds)
<1>1. Plain("pass") \in ManagerBlocks
  BY BlockTypes DEF ManagerKind
<1>2. On(Append(q, Plain("pass")), Builds)
  BY <1>1, OnSteps
<1>3. AskForTransaction(q) => On(mq', Builds)
  BY <1>2 DEF AskForTransaction
<1> QED
  BY <1>3 DEF ServicesMayAskAgain

\* _requestTransactionFromDelegate keeps, takes or gives up the lock, and notes
\* a skipped request only while it is held.
LEMMA RequestKeepsLock ==
    ASSUME NEW q \in Seq(ManagerBlocks), NEW w \in BOOLEAN, NEW d \in BOOLEAN,
           NEW a \in BOOLEAN, delegate \in BOOLEAN,
           RequestTransactionFromDelegate(w, d, a, q),
           w => On(q, Builds) \/ On(tq', Answers),
           a /\ delegate => w
    PROVE  /\ isWaiting' \in BOOLEAN /\ requestAnother' \in BOOLEAN /\ didSendPing' \in BOOLEAN
           /\ isWaiting' => On(mq', Builds) \/ On(tq', Answers)
           /\ requestAnother' /\ delegate => isWaiting'
<1>1. CASE /\ w /\ d
           /\ isWaiting' = w /\ didSendPing' = d /\ requestAnother' = TRUE /\ mq' = q
  BY <1>1
<1>2. CASE /\ isWaiting' = delegate /\ didSendPing' = (d \/ delegate)
           /\ requestAnother' = a
           /\ mq' = IF delegate
                      THEN Append(q, Plain(IF d THEN "build" ELSE "buildPing")) ELSE q
  <2>1. /\ Plain("build") \in ManagerBlocks /\ Plain("build").kind \in Builds
        /\ Plain("buildPing") \in ManagerBlocks /\ Plain("buildPing").kind \in Builds
    BY BlockTypes DEF ManagerKind, Builds, Plain, Block
  <2>2. delegate => On(mq', Builds)
    BY <1>2, <2>1, OnSteps
  <2>3. isWaiting' \in BOOLEAN /\ requestAnother' \in BOOLEAN /\ didSendPing' \in BOOLEAN
    BY <1>2, Zenon
  <2> QED
    BY <1>2, <2>2, <2>3, Zenon
<1> QED
  BY <1>1, <1>2 DEF RequestTransactionFromDelegate

\* The lock is let alone and the queues keep what would release it.
LEMMA LockStutters ==
    ASSUME LockInv, UNCHANGED <<lockVars, current, delegate>>,
           On(mq, Builds) => On(mq', Builds), On(tq, Answers) => On(tq', Answers)
    PROVE  LockInv'
BY Zenon DEF LockInv, LockIsReleased, lockVars, Builds, Answers

\* The same when the lock was let go of in RequestTransactionFromDelegate.
LEMMA LockFromRequest ==
    ASSUME LockInv, UNCHANGED <<current, delegate>>,
           /\ isWaiting' \in BOOLEAN /\ requestAnother' \in BOOLEAN /\ didSendPing' \in BOOLEAN
           /\ isWaiting' => On(mq', Builds) \/ On(tq', Answers)
           /\ requestAnother' /\ delegate => isWaiting'
    PROVE  LockInv'
BY Zenon DEF LockInv, LockIsReleased, Builds, Answers

\* Releasing the lock, with q left of the manager queue.
LEMMA ReleaseKeepsLock ==
    ASSUME LockInv, UNCHANGED <<current, delegate>>, NEW q \in Seq(ManagerBlocks), Release(q)
    PROVE  LockInv'
<1>1. CASE requestAnother
  <2>1. RequestTransactionFromDelegate(FALSE, didSendPing, FALSE, q)
    BY <1>1 DEF Release
  <2>2. didSendPing \in BOOLEAN /\ delegate \in BOOLEAN
    BY DEF LockInv
  <2> QED
    BY <2>1, <2>2, RequestKeepsLock, LockFromRequest
<1>2. CASE ~requestAnother
  <2>1. isWaiting' = FALSE /\ UNCHANGED <<didSendPing, requestAnother>>
    BY <1>2 DEF Release
  <2> QED
    BY <1>2, <2>1, LockFromRequest DEF LockInv
<1> QED
  BY <1>1, <1>2

\* The calls from outside, and the sockets.
LEMMA CallsKeepLock ==
    ASSUME QueuesOK, ConnectionInv, LockInv,
           \/ RequestTransportTransaction \/ Suspend \/ Resume
           \/ RequestSecureTransportReset
           \/ \E clear, session \in BOOLEAN : StopTransport(clear, session)
           \/ SocketOpens \/ SocketCloses
           \/ \E m \in 0..MaxPing : SocketReads(m)
           \/ \E kind \in {"available", "reset"} : NetworkChanges(kind)
    PROVE  LockInv'
<1>a. connection \in 0..MaxConnection /\ (connection # 0 => connection \in Connection)
  BY ConnectionAssumption DEF ConnectionInv, FlagsOK, Connection
<1>b. \A k \in {"reset", "session", "stop", "available"} : Plain(k) \in TransportBlocks
  BY BlockTypes DEF TransportKind
<1>1. CASE RequestTransportTransaction \/ Resume
  <2>1. UNCHANGED <<lockVars, current, delegate, tq>> /\ AskForTransaction(mq)
    BY <1>1 DEF RequestTransportTransaction, Resume
  <2>2. On(mq, Builds) => On(mq', Builds)
    BY <2>1, OnContinues DEF QueuesOK
  <2> QED
    BY <2>1, <2>2, LockStutters
<1>2. CASE Suspend
  BY <1>2, LockStutters DEF Suspend
<1>3. CASE \/ RequestSecureTransportReset
           \/ \E kind \in {"available", "reset"} : NetworkChanges(kind)
  <2>1. /\ UNCHANGED <<lockVars, current, delegate, mq>>
        /\ \E k \in {"reset", "available"} : tq' = Append(tq, Plain(k))
    BY <1>3 DEF RequestSecureTransportReset, NetworkChanges, managerVars
  <2>2. On(tq, Answers) => On(tq', Answers)
    BY <1>b, <2>1, OnQueues
  <2> QED
    BY <2>1, <2>2, LockStutters
<1>4. CASE \E clear, session \in BOOLEAN : StopTransport(clear, session)
  <2>1. PICK clear \in BOOLEAN, session \in BOOLEAN : StopTransport(clear, session)
    BY <1>4
  <2> DEFINE told == IF session THEN <<Plain("session")>> ELSE <<>>
  <2>2. /\ UNCHANGED <<lockVars, mq>> /\ current /\ current' = FALSE /\ delegate' = ~clear
        /\ tq' = tq \o told \o <<Plain("stop")>>
    BY <2>1 DEF StopTransport
  <2>3. told \in Seq(TransportBlocks) /\ <<Plain("stop")>> \in Seq(TransportBlocks)
    BY <1>b
  <2>4. tq \o told \in Seq(TransportBlocks)
    BY <2>3, SequenceStep DEF QueuesOK
  <2>5. On(tq, Answers) => On(tq', Answers)
    BY <2>2, <2>3, <2>4, OnSteps DEF QueuesOK
  <2>6. current' \in BOOLEAN /\ delegate' \in BOOLEAN /\ delegate
    BY <2>2, Zenon DEF LockInv
  <2> QED
    BY <2>2, <2>5, <2>6, Zenon DEF LockInv, LockIsReleased, lockVars, Builds, Answers
<1>5. CASE SocketOpens \/ SocketCloses
  <2>1. /\ UNCHANGED <<lockVars, current, delegate, mq>>
        /\ \E k \in {"opened", "closed"} : tq' = Append(tq, Block(k, connection, 0))
        /\ connection # 0
    BY <1>5 DEF SocketOpens, SocketCloses, managerVars
  <2>2. On(tq, Answers) => On(tq', Answers)
    BY <1>a, <2>1, OnQueues, BlockTypes DEF TransportKind
  <2> QED
    BY <2>1, <2>2, LockStutters
<1>6. CASE \E m \in 0..MaxPing : SocketReads(m)
  <2>1. PICK m \in 0..MaxPing : SocketReads(m)
    BY <1>6
  <2>2. /\ UNCHANGED <<lockVars, current, delegate, mq>>
        /\ tq' = Append(tq, Block("data", connection, m))
    BY <2>1 DEF SocketReads, managerVars
  <2>3. On(tq, Answers) => On(tq', Answers)
    BY <1>a, <2>2, OnQueues, BlockTypes DEF TransportKind
  <2> QED
    BY <2>2, <2>3, LockStutters
<1> QED
  BY <1>1, <1>2, <1>3, <1>4, <1>5, <1>6

\* The manager queue: every path of transportReadyForTransaction answers.
LEMMA ManagerKeepsLock ==
    ASSUME QueuesOK, LockInv, ManagerStep
    PROVE  LockInv'
<1>a. mq # <<>> => Tail(mq) \in Seq(ManagerBlocks) /\ Head(mq).conn \in 0..MaxConnection
                   /\ Head(mq).mid \in 0..MaxPing
  BY HeadTypes
<1>b. \A k \in {"needs", "ready", "readyNil", "session", "stop", "reset"} :
        Plain(k) \in TransportBlocks
  BY BlockTypes DEF TransportKind
<1>c. mq # <<>> /\ Head(mq).kind \notin Builds => (On(mq, Builds) => On(Tail(mq), Builds))
  BY OnQueues
<1>1. CASE ManagerPass
  <2>1. /\ UNCHANGED <<lockVars, current, delegate>> /\ mq # <<>> /\ Head(mq).kind = "pass"
        /\ mq' = Tail(mq) /\ (tq' = tq \/ tq' = Append(tq, Plain("needs")))
    BY <1>1 DEF ManagerPass, ManagerHead
  <2>2. On(mq, Builds) => On(mq', Builds)
    BY <1>c, <2>1 DEF Builds
  <2>3. On(tq, Answers) => On(tq', Answers)
    BY <1>b, <2>1, OnQueues
  <2> QED
    BY <2>1, <2>2, <2>3, LockStutters
<1>2. CASE ReadyForTransaction
  <2>1. UNCHANGED lockVars
    BY <1>2 DEF ReadyForTransaction
  <2>2. CASE /\ \E k \in Answers : tq' = Append(tq, Plain(k))
             /\ UNCHANGED <<current, delegate>>
    <3>a. \A k \in Answers : Plain(k) \in TransportBlocks /\ Plain(k).kind \in Answers
      BY <1>b DEF Answers, Plain, Block
    <3>b. \A b \in TransportBlocks : b.kind \in Answers => On(Append(tq, b), Answers)
      BY OnSteps DEF QueuesOK
    <3>1. On(tq', Answers)
      BY <2>2, <3>a, <3>b
    <3> QED
      BY <2>1, <2>2, <3>1, Zenon DEF LockInv, LockIsReleased, lockVars, Answers
  <2>3. CASE /\ UNCHANGED <<current, delegate>>
             /\ tq' = Append(tq, Block("ready", 0, NewPing))
    <3>1. NewPing \in 0..MaxPing
      BY PingAssumption DEF NewPing, UnusedPings, Ping
    <3>2. Block("ready", 0, NewPing) \in TransportBlocks
      BY <3>1, BlockTypes, ConnectionAssumption DEF TransportKind
    <3>a. Block("ready", 0, NewPing).kind \in Answers
      BY DEF Answers, Block
    <3>3. On(tq', Answers)
      BY <2>3, <3>2, <3>a, OnSteps DEF QueuesOK
    <3> QED
      BY <2>1, <2>3, <3>3, Zenon DEF LockInv, LockIsReleased, lockVars, Answers
  <2>4. CASE /\ current' = FALSE /\ delegate' = FALSE
             /\ tq' = tq \o <<Plain("readyNil"), Plain("session"), Plain("stop")>>
    <3> DEFINE t == <<Plain("readyNil"), Plain("session"), Plain("stop")>>
    <3>1. t \in Seq(TransportBlocks)
      BY <1>b
    <3>2. /\ Len(tq \o t) = Len(tq) + Len(t) /\ Len(tq) \in Nat /\ Len(t) = 3
          /\ (tq \o t)[Len(tq) + 1] = t[1]
      BY <3>1, ConcatProperties, LenProperties DEF QueuesOK
    <3>3. t[1].kind \in Answers
      BY DEF Answers, Plain, Block
    <3>4. On(tq', Answers)
      BY <2>4, <3>2, <3>3 DEF On
    <3> QED
      BY <2>1, <2>4, <3>4, Zenon DEF LockInv, LockIsReleased, lockVars, Answers
  <2> QED
    BY <1>2, <2>2, <2>3, <2>4 DEF ReadyForTransaction, Answers
<1>3. CASE IncomingData
  <2> DEFINE d == Head(mq)
             valid1 == Append(tq, Block("valid", d.conn, 0))
             settled == IF d.mid = 0 THEN <<>> ELSE <<Block("settled", 0, d.mid)>>
  <2>1. /\ UNCHANGED <<lockVars, current, delegate>> /\ mq # <<>> /\ d.kind = "data"
        /\ mq' = Tail(mq) \/ ServicesMayAskAgain(Tail(mq))
        /\ tq' = tq \/ tq' = Append(tq, Plain("reset")) \/ tq' = valid1 \o settled
    BY <1>3 DEF IncomingData, ManagerHead
  <2>2. On(mq, Builds) => On(mq', Builds)
    <3>1. On(mq, Builds) => On(Tail(mq), Builds)
      BY <1>c, <2>1 DEF Builds
    <3> QED
      BY <1>a, <2>1, <3>1, OnContinues
  <2>3. Block("valid", d.conn, 0) \in TransportBlocks
    BY <1>a, <2>1, BlockTypes, PingAssumption DEF TransportKind
  <2>4. Block("settled", 0, d.mid) \in TransportBlocks
    BY <1>a, <2>1, BlockTypes, ConnectionAssumption DEF TransportKind
  <2>5. valid1 \in Seq(TransportBlocks) /\ settled \in Seq(TransportBlocks)
    BY <2>3, <2>4, SequenceStep DEF QueuesOK
  <2>6. On(tq, Answers) => On(valid1 \o settled, Answers)
    <3>1. On(tq, Answers) => On(valid1, Answers)
      BY <2>3, OnQueues
    <3>2. \A t \in Seq(TransportBlocks) : On(valid1, Answers) => On(valid1 \o t, Answers)
      BY <2>5, OnSteps
    <3> HIDE DEF valid1, settled
    <3> QED
      BY <2>5, <3>1, <3>2
  <2>7. On(tq, Answers) => On(tq', Answers)
    BY <1>b, <2>1, <2>6, OnQueues
  <2> QED
    BY <2>1, <2>2, <2>7, LockStutters
<1>4. CASE PayloadSent
  <2>1. /\ UNCHANGED <<lockVars, current, delegate>> /\ mq # <<>> /\ Head(mq).kind = "sent"
        /\ mq' = Tail(mq)
        /\ tq' = tq \/ tq' = Append(tq, Block("pingSent", 0, Head(mq).mid))
    BY <1>4 DEF PayloadSent, ManagerHead
  <2>2. On(mq, Builds) => On(mq', Builds)
    BY <1>c, <2>1 DEF Builds
  <2>3. Block("pingSent", 0, Head(mq).mid) \in TransportBlocks
    BY <1>a, <2>1, BlockTypes, ConnectionAssumption DEF TransportKind
  <2>4. On(tq, Answers) => On(tq', Answers)
    BY <2>1, <2>3, OnQueues
  <2> QED
    BY <2>1, <2>2, <2>4, LockStutters
<1>5. CASE PayloadFailed
  <2>1. /\ UNCHANGED <<lockVars, current, delegate, tq>>
        /\ mq # <<>> /\ Head(mq).kind = "failed"
        /\ ServicesMayAskAgain(Tail(mq))
    BY <1>5 DEF PayloadFailed, ManagerHead
  <2>2. On(mq, Builds) => On(mq', Builds)
    <3>1. On(mq, Builds) => On(Tail(mq), Builds)
      BY <1>c, <2>1 DEF Builds
    <3> QED
      BY <1>a, <2>1, <3>1, OnContinues
  <2> QED
    BY <2>1, <2>2, LockStutters
<1> QED
  BY <1>1, <1>2, <1>3, <1>4, <1>5 DEF ManagerStep

\* The transport queue and the timers.
LEMMA TransportKeepsLock ==
    ASSUME QueuesOK, LockInv, TransportStep \/ TimerStep
    PROVE  LockInv'
<1> DEFINE Calm == UNCHANGED <<lockVars, current, delegate>>
<1>a. tq # <<>> => /\ Tail(tq) \in Seq(TransportBlocks) /\ Head(tq).mid \in 0..MaxPing
                   /\ Head(tq).kind = "data" => Head(tq) \in ManagerBlocks
  BY HeadTypes
<1>b. /\ Plain("failed") \in ManagerBlocks /\ Plain("pass") \in TransportBlocks
      /\ Append(mq, Plain("failed")) \in Seq(ManagerBlocks)
  BY BlockTypes, SequenceStep DEF ManagerKind, TransportKind, QueuesOK
<1>c. tq # <<>> /\ Head(tq).kind \notin Answers => (On(tq, Answers) => On(Tail(tq), Answers))
  BY OnQueues
<1>d. isWaiting => On(mq, Builds) \/ On(tq, Answers)
  BY DEF LockInv, LockIsReleased, Builds, Answers
<1>e. /\ isWaiting \in BOOLEAN /\ didSendPing \in BOOLEAN /\ requestAnother \in BOOLEAN
      /\ delegate \in BOOLEAN /\ (requestAnother /\ delegate => isWaiting)
  BY DEF LockInv, LockIsReleased
<1>1. CASE NeedsTransaction
  <2>1. Calm /\ mq' = mq /\ tq # <<>> /\ Head(tq).kind = "needs"
        /\ (tq' = Tail(tq) \/ tq' = Append(Tail(tq), Plain("pass")))
    BY <1>1 DEF NeedsTransaction, TransportHead, managerVars
  <2>2. On(tq, Answers) => On(Tail(tq), Answers)
    BY <1>c, <2>1 DEF Answers
  <2>3. On(tq, Answers) => On(tq', Answers)
    <3>1. \A b \in TransportBlocks : On(Tail(tq), Answers) => On(Append(Tail(tq), b), Answers)
      BY <1>a, <2>1, OnSteps
    <3> QED
      BY <1>b, <2>1, <2>2, <3>1
  <2> QED
    BY <2>1, <2>3, LockStutters
<1>2. CASE TransportPass
  <2>1. /\ UNCHANGED <<current, delegate>>
        /\ tq # <<>> /\ Head(tq).kind = "pass" /\ tq' = Tail(tq)
        /\ \/ UNCHANGED <<lockVars, mq>>
           \/ RequestTransactionFromDelegate(isWaiting, didSendPing, requestAnother, mq)
    BY <1>2 DEF TransportPass, TransportHead
  <2>2. On(tq, Answers) => On(tq', Answers)
    BY <1>c, <2>1 DEF Answers
  <2>3. CASE UNCHANGED <<lockVars, mq>>
    BY <2>1, <2>2, <2>3, LockStutters
  <2>4. CASE RequestTransactionFromDelegate(isWaiting, didSendPing, requestAnother, mq)
    BY <1>d, <1>e, <2>1, <2>2, <2>4, RequestKeepsLock, LockFromRequest DEF QueuesOK
  <2> QED
    BY <2>1, <2>3, <2>4
<1>3. CASE TransactionReady
  <2>1. /\ UNCHANGED <<current, delegate>> /\ tq # <<>>
        /\ \/ Release(Append(mq, Block("sent", 0, Head(tq).mid)))
           \/ Release(Append(mq, Plain("failed")))
    BY <1>3 DEF TransactionReady, TransportHead
  <2>2. Append(mq, Block("sent", 0, Head(tq).mid)) \in Seq(ManagerBlocks)
    BY <1>a, <2>1, BlockTypes, SequenceStep DEF QueuesOK
  <2> QED
    BY <1>b, <2>1, <2>2, ReleaseKeepsLock
<1>4. CASE NothingReady
  <2>1. UNCHANGED <<current, delegate>> /\ Release(mq)
    BY <1>4 DEF NothingReady
  <2> QED
    BY <2>1, ReleaseKeepsLock DEF QueuesOK
<1>5. CASE ConnectionOpened
  <2>1. /\ UNCHANGED <<current, delegate>> /\ tq # <<>> /\ Head(tq).kind = "opened"
        /\ tq' = Tail(tq)
        /\ \/ UNCHANGED <<lockVars, mq>>
           \/ RequestTransactionFromDelegate(isWaiting, FALSE, requestAnother, mq)
    BY <1>5 DEF ConnectionOpened, TransportHead
  <2>2. On(tq, Answers) => On(tq', Answers)
    BY <1>c, <2>1 DEF Answers
  <2>3. CASE UNCHANGED <<lockVars, mq>>
    BY <2>1, <2>2, <2>3, LockStutters
  <2>4. CASE RequestTransactionFromDelegate(isWaiting, FALSE, requestAnother, mq)
    BY <1>d, <1>e, <2>1, <2>2, <2>4, RequestKeepsLock, LockFromRequest DEF QueuesOK
  <2> QED
    BY <2>1, <2>3, <2>4
<1>6. CASE ConnectionClosed
  <2>1. /\ UNCHANGED <<isWaiting, requestAnother, current, delegate>>
        /\ tq # <<>> /\ Head(tq).kind = "closed" /\ tq' = Tail(tq)
        /\ mq' = mq \/ mq' = Append(mq, Plain("failed"))
        /\ didSendPing' = FALSE \/ didSendPing' = didSendPing
    BY <1>6 DEF ConnectionClosed, TransportHead
  <2>2. On(tq, Answers) => On(tq', Answers)
    BY <1>c, <2>1 DEF Answers
  <2>3. On(mq, Builds) => On(mq', Builds)
    BY <1>b, <2>1, OnQueues
  <2>4. didSendPing' \in BOOLEAN
    BY <1>e, <2>1
  <2> QED
    BY <2>1, <2>2, <2>3, <2>4, Zenon DEF LockInv, LockIsReleased, Builds, Answers
<1>7. CASE ReceivedData
  <2>1. /\ Calm /\ tq # <<>> /\ Head(tq).kind = "data" /\ tq' = Tail(tq)
        /\ mq' = mq \/ mq' = Append(mq, Head(tq))
    BY <1>7 DEF ReceivedData, TransportHead
  <2>2. On(tq, Answers) => On(tq', Answers)
    BY <1>c, <2>1 DEF Answers
  <2>3. On(mq, Builds) => On(mq', Builds)
    BY <1>a, <2>1, OnQueues
  <2> QED
    BY <2>1, <2>2, <2>3, LockStutters
<1>8. CASE ConnectionIsValid \/ PingSettled \/ PingSent \/ NetworkOrReset
  <2>1. /\ Calm /\ mq' = mq /\ tq # <<>> /\ tq' = Tail(tq)
        /\ Head(tq).kind \in {"valid", "session", "settled", "pingSent", "available", "reset"}
    BY <1>8
    DEF ConnectionIsValid, PingSettled, PingSent, NetworkOrReset, TransportHead, managerVars
  <2>2. On(tq, Answers) => On(tq', Answers)
    BY <1>c, <2>1 DEF Answers
  <2> QED
    BY <2>1, <2>2, LockStutters
<1>9. CASE TransportStop
  <2>1. /\ Calm /\ tq # <<>> /\ Head(tq).kind = "stop" /\ tq' = Tail(tq)
        /\ mq' = mq \/ mq' = Append(mq, Plain("failed"))
    BY <1>9 DEF TransportStop, TransportHead
  <2>2. On(tq, Answers) => On(tq', Answers)
    BY <1>c, <2>1 DEF Answers
  <2>3. On(mq, Builds) => On(mq', Builds)
    BY <1>b, <2>1, OnQueues
  <2> QED
    BY <2>1, <2>2, <2>3, LockStutters
<1>10. CASE ResendActualizationPing
  <2>1. /\ UNCHANGED <<current, delegate, tq>>
        /\ \/ UNCHANGED <<lockVars, mq>>
           \/ RequestTransactionFromDelegate(isWaiting, FALSE, requestAnother, mq)
    BY <1>10 DEF ResendActualizationPing
  <2>2. CASE UNCHANGED <<lockVars, mq>>
    BY <2>1, <2>2, LockStutters
  <2>3. CASE RequestTransactionFromDelegate(isWaiting, FALSE, requestAnother, mq)
    BY <1>d, <1>e, <2>1, <2>3, RequestKeepsLock, LockFromRequest DEF QueuesOK
  <2> QED
    BY <2>1, <2>2, <2>3
<1>11. CASE BackoffTimerEvent \/ WatchdogTimeout
  <2>1. Calm /\ mq' = mq /\ tq' = tq
    BY <1>11 DEF BackoffTimerEvent, WatchdogTimeout, managerVars
  <2> QED
    BY <2>1, LockStutters
<1> QED
  BY <1>1, <1>2, <1>3, <1>4, <1>5, <1>6, <1>7, <1>8, <1>9, <1>10, <1>11
  DEF TransportStep, TimerStep

\* Every step keeps the lock.
LEMMA LockHolds == Spec => []LockInv
<1>1. Init => LockInv
  BY Zenon DEF Init, LockInv, LockIsReleased
<1>2. TransportInv /\ LockInv /\ [Next]_vars => LockInv'
  <2> SUFFICES ASSUME TransportInv, LockInv, [Next]_vars PROVE LockInv'
    OBVIOUS
  <2> QueuesOK /\ ConnectionInv
    BY DEF TransportInv
  <2>1. CASE UNCHANGED vars
    BY <2>1, LockStutters DEF vars, managerVars
  <2> QED
    BY <2>1, CallsKeepLock, ManagerKeepsLock, TransportKeepsLock DEF Next
<1> QED
  BY <1>1, <1>2, InvariantHolds, PTL DEF Spec

\* isWaitingForTransactionToBecomeReady never blocks the transport: while it
\* is set, a block that clears it is on its way through the two queues, over
\* every path of transportReadyForTransaction, a replaced transport included;
\* and a request that found it set is not forgotten.
THEOREM LockIsReleasedCorrect == Spec => []LockIsReleased
<1>1. LockInv => LockIsReleased
  BY DEF LockInv
<1> QED
  BY <1>1, LockHolds, PTL

-----------------------------------------------------------------------------
(* The rest of the types.                                                  *)

\* What the other invariants say nothing of: the flags of the two next passes,
\* the ping, the socket and the answers under way.
WishTypes ==
    need \in BOOLEAN /\ able \in BOOLEAN /\ managerWill \in BOOLEAN /\ transportWill \in BOOLEAN

PingTypes == ping \in 0..MaxPing /\ pingTimer \in BOOLEAN

SocketTypes ==
    socket \in {"connecting", "open", "closed"} /\ stopping \in BOOLEAN /\ pongs \subseteq Ping

\* Only the handlers that ask, build or pass touch the flags of the requests.
LEMMA WishTypesStep ==
    ASSUME WishTypes, [Next]_vars
    PROVE  WishTypes'
<1> USE DEF WishTypes
<1>a. \A q : AskForTransaction(q) => managerWill' = TRUE
  BY DEF AskForTransaction
<1>b. \A q : ServicesMayAskAgain(q) => need' \in BOOLEAN /\ managerWill' \in BOOLEAN
  BY <1>a DEF ServicesMayAskAgain
<1>1. CASE \/ RequestTransportTransaction \/ Suspend \/ Resume
           \/ RequestSecureTransportReset
           \/ \E clear, session \in BOOLEAN : StopTransport(clear, session)
  BY <1>1, <1>a
  DEF RequestTransportTransaction, Suspend, Resume, RequestSecureTransportReset,
      StopTransport, managerVars
<1>2. CASE ManagerStep
  <2>1. CASE ManagerPass \/ PayloadSent \/ PayloadFailed
    BY <2>1, <1>b DEF ManagerPass, PayloadSent, PayloadFailed
  <2>2. CASE ReadyForTransaction
    BY <2>2 DEF ReadyForTransaction
  <2>3. CASE IncomingData
    BY <2>3, <1>b DEF IncomingData
  <2> QED
    BY <1>2, <2>1, <2>2, <2>3 DEF ManagerStep
<1>3. CASE TransportStep
  <2>1. UNCHANGED <<need, able, managerWill>> /\ transportWill' \in BOOLEAN
    BY <1>3
    DEF TransportStep, NeedsTransaction, TransportPass, TransactionReady, NothingReady,
        ConnectionOpened, ConnectionClosed, ReceivedData, ConnectionIsValid, PingSettled,
        PingSent, NetworkOrReset, TransportStop, managerVars
  <2> QED
    BY <2>1
<1>4. CASE TimerStep
  BY <1>4
  DEF TimerStep, BackoffTimerEvent, ResendActualizationPing, WatchdogTimeout, managerVars
<1>5. CASE \/ SocketOpens \/ SocketCloses \/ (\E m \in 0..MaxPing : SocketReads(m))
           \/ \E kind \in {"available", "reset"} : NetworkChanges(kind)
  BY <1>5 DEF SocketOpens, SocketCloses, SocketReads, NetworkChanges, managerVars
<1>6. CASE UNCHANGED vars
  BY <1>6 DEF vars, managerVars
<1> QED
  BY <1>1, <1>2, <1>3, <1>4, <1>5, <1>6 DEF Next

\* The ping that is followed is one that was given to a transaction.
LEMMA PingTypesStep ==
    ASSUME QueuesOK, PingTypes, [Next]_vars
    PROVE  PingTypes'
<1> USE DEF PingTypes
<1>a. 0 \in 0..MaxPing
  BY PingAssumption
<1>1. CASE \/ RequestTransportTransaction \/ Suspend \/ Resume
           \/ RequestSecureTransportReset
           \/ \E clear, session \in BOOLEAN : StopTransport(clear, session)
           \/ ManagerStep \/ SocketOpens \/ SocketCloses
           \/ \E m \in 0..MaxPing : SocketReads(m)
           \/ \E kind \in {"available", "reset"} : NetworkChanges(kind)
           \/ BackoffTimerEvent \/ WatchdogTimeout \/ UNCHANGED vars
  <2>1. UNCHANGED pingVars
    BY <1>1
    DEF RequestTransportTransaction, Suspend, Resume, RequestSecureTransportReset,
        StopTransport, ManagerStep, ManagerPass, ReadyForTransaction, IncomingData,
        PayloadSent, PayloadFailed, SocketOpens, SocketCloses, SocketReads, NetworkChanges,
        BackoffTimerEvent, WatchdogTimeout, vars
  <2> QED
    BY <2>1 DEF pingVars
<1>2. CASE PingSent
  BY <1>2, HeadTypes DEF PingSent, TransportHead
<1>3. CASE \/ NeedsTransaction \/ TransportPass \/ TransactionReady \/ NothingReady
           \/ ConnectionIsValid \/ NetworkOrReset
  BY <1>3 DEF NeedsTransaction, TransportPass, TransactionReady, NothingReady,
              ConnectionIsValid, NetworkOrReset, pingVars
<1>4. CASE ConnectionOpened \/ ConnectionClosed \/ TransportStop
  BY <1>4, <1>a DEF ConnectionOpened, ConnectionClosed, TransportStop
<1>5. CASE ReceivedData
  BY <1>5 DEF ReceivedData
<1>6. CASE PingSettled
  BY <1>6, <1>a DEF PingSettled, pingVars
<1>7. CASE ResendActualizationPing
  BY <1>7, <1>a DEF ResendActualizationPing
<1> QED
  BY <1>1, <1>2, <1>3, <1>4, <1>5, <1>6, <1>7 DEF Next, TransportStep, TimerStep

\* The socket, and the pings whose answer it may bring.
LEMMA SocketTypesStep ==
    ASSUME QueuesOK, SocketTypes, [Next]_vars
    PROVE  SocketTypes'
<1> USE DEF SocketTypes
<1>a. \A c : RequestsReconnection(c) => SocketTypes'
  BY DEF RequestsReconnection, StartConnection
<1>1. CASE \/ RequestTransportTransaction \/ Suspend \/ Resume
           \/ RequestSecureTransportReset
           \/ \E clear, session \in BOOLEAN : StopTransport(clear, session)
           \/ ManagerStep
           \/ \E kind \in {"available", "reset"} : NetworkChanges(kind)
           \/ NeedsTransaction \/ NothingReady \/ ReceivedData \/ PingSettled \/ PingSent
           \/ ResendActualizationPing \/ UNCHANGED vars
  <2>1. UNCHANGED connectionVars
    BY <1>1
    DEF RequestTransportTransaction, Suspend, Resume, RequestSecureTransportReset,
        StopTransport, ManagerStep, ManagerPass, ReadyForTransaction, IncomingData,
        PayloadSent, PayloadFailed, NetworkChanges, NeedsTransaction, NothingReady,
        ReceivedData, PingSettled, PingSent, ResendActualizationPing, vars
  <2> QED
    BY <2>1 DEF connectionVars
<1>2. CASE ConnectionOpened \/ ConnectionIsValid \/ WatchdogTimeout \/ TransportStop
  BY <1>2 DEF ConnectionOpened, ConnectionIsValid, WatchdogTimeout, TransportStop
<1>3. CASE TransportPass
  BY <1>3, <1>a DEF TransportPass, connectionVars
<1>4. CASE ConnectionClosed
  <2>1. BehaviourClosed => SocketTypes'
    BY <1>a DEF BehaviourClosed
  <2> QED
    BY <1>4, <2>1 DEF ConnectionClosed, connectionVars
<1>5. CASE BackoffTimerEvent
  BY <1>5, <1>a DEF BackoffTimerEvent
<1>6. CASE TransactionReady
  <2>1. Head(tq).mid \in 0..MaxPing
    BY <1>6, HeadTypes DEF TransactionReady, TransportHead
  <2>2. UNCHANGED <<socket, stopping>>
    BY <1>6 DEF TransactionReady
  <2>3. pongs' \subseteq pongs \cup ({Head(tq).mid} \ {0})
    BY <1>6 DEF TransactionReady
  <2>4. {Head(tq).mid} \ {0} \subseteq Ping
    BY <2>1, PingAssumption DEF Ping
  <2> QED
    BY <2>2, <2>3, <2>4
<1>7. CASE NetworkOrReset
  BY <1>7 DEF NetworkOrReset, StopConnection
<1>8. CASE SocketOpens \/ SocketCloses \/ \E m \in 0..MaxPing : SocketReads(m)
  BY <1>8 DEF SocketOpens, SocketCloses, SocketReads
<1> QED
  BY <1>1, <1>2, <1>3, <1>4, <1>5, <1>6, <1>7, <1>8 DEF Next, TransportStep, TimerStep

\* Every handler of the two queues keeps the types, for any number of
\* connections and pings and any queue bounds.
THEOREM TypeCorrect == Spec => []TypeOK
<1> DEFINE Rest == WishTypes /\ PingTypes /\ SocketTypes
<1>1. Init => Rest
  <2> SUFFICES ASSUME Init PROVE Rest
    OBVIOUS
  <2>1. WishTypes
    BY Zenon DEF Init, WishTypes
  <2>2. ping \in 0..MaxPing
    BY PingAssumption DEF Init
  <2>3. PingTypes /\ SocketTypes
    BY <2>2, Zenon DEF Init, PingTypes, SocketTypes
  <2> QED
    BY <2>1, <2>3
<1>2. TransportInv /\ Rest /\ [Next]_vars => Rest'
  BY WishTypesStep, PingTypesStep, SocketTypesStep DEF TransportInv
<1>3. TransportInv /\ LockInv /\ Rest => TypeOK
  <2> SUFFICES ASSUME TransportInv, LockInv, Rest PROVE TypeOK
    OBVIOUS
  <2>1. TransportBlocks \subseteq Blocks(TransportKind)
    BY DEF TransportBlocks
  <2>2. mq \in Seq(Blocks(ManagerKind)) /\ tq \in Seq(Blocks(TransportKind))
    BY <2>1 DEF TransportInv, QueuesOK, ManagerBlocks
  <2> QED
    BY <2>2, Zenon
    DEF TypeOK, TransportInv, ConnectionInv, FlagsOK, LockInv, WishTypes, PingTypes,
        SocketTypes
<1> HIDE DEF Rest
<1> QED
  BY <1>1, <1>2, <1>3, InvariantHolds, LockHolds, PTL DEF Spec

-----------------------------------------------------------------------------
(* No lost wakeup.                                                         *)

Passes == {"pass"}
Asks == {"pass", "build", "buildPing"}
Wakes == {"needs", "pass"}
Stops == {"stop"}

\* A next-pass flag is set only while its block is queued.
PassIsQueued ==
    /\ managerWill => On(mq, Passes)
    /\ transportWill => On(tq, Passes)

\* A transport that is stopped, or will be, is not MTProto's any more.
StopIsFinal == stopped \/ On(tq, Stops) => ~current

\* Only a connection there is can be connected.
ConnectedExists == connected => connection # 0

WakeInv == PassIsQueued /\ StopIsFinal /\ ConnectedExists /\ NoLostWakeup

\* What is on a queue was there before, or was appended.
LEMMA OnComesFrom ==
    ASSUME NEW S, NEW q \in Seq(S), NEW K
    PROVE  /\ \A b \in S : On(Append(q, b), K) => On(q, K) \/ b.kind \in K
           /\ \A t \in Seq(S) : On(q \o t, K) => On(q, K) \/ On(t, K)
           /\ q # <<>> => (On(Tail(q), K) => On(q, K))
<1>0. Len(q) \in Nat
  BY LenProperties
<1>1. ASSUME NEW b \in S, On(Append(q, b), K)
      PROVE  On(q, K) \/ b.kind \in K
  <2>1. /\ Len(Append(q, b)) = Len(q) + 1 /\ Append(q, b)[Len(q) + 1] = b
        /\ \A i \in 1..Len(q) : Append(q, b)[i] = q[i]
    BY AppendProperties
  <2>2. PICK i \in 1..Len(Append(q, b)) : Append(q, b)[i].kind \in K
    BY <1>1 DEF On
  <2>3. CASE i = Len(q) + 1
    BY <2>1, <2>2, <2>3
  <2>4. CASE i # Len(q) + 1
    <3>1. i \in 1..Len(q)
      BY <1>0, <2>1, <2>4
    <3> QED
      BY <2>1, <2>2, <3>1 DEF On
  <2> QED
    BY <2>3, <2>4
<1>2. ASSUME NEW t \in Seq(S), On(q \o t, K)
      PROVE  On(q, K) \/ On(t, K)
  <2>1. /\ Len(q \o t) = Len(q) + Len(t) /\ Len(t) \in Nat
        /\ \A i \in 1..Len(q) : (q \o t)[i] = q[i]
        /\ \A i \in 1..Len(t) : (q \o t)[Len(q) + i] = t[i]
    BY ConcatProperties, LenProperties
  <2>2. PICK i \in 1..Len(q \o t) : (q \o t)[i].kind \in K
    BY <1>2 DEF On
  <2>3. CASE i \in 1..Len(q)
    BY <2>1, <2>2, <2>3 DEF On
  <2>4. CASE i \notin 1..Len(q)
    <3>1. PICK j \in 1..Len(t) : i = Len(q) + j
      <4>1. i - Len(q) \in 1..Len(t) /\ i = Len(q) + (i - Len(q))
        BY <1>0, <2>1, <2>4
      <4> QED
        BY <4>1
    <3> QED
      BY <2>1, <2>2, <3>1 DEF On
  <2> QED
    BY <2>3, <2>4
<1>3. ASSUME q # <<>>, On(Tail(q), K)
      PROVE  On(q, K)
  <2>1. /\ Len(Tail(q)) = Len(q) - 1
        /\ \A j \in 1..Len(Tail(q)) : Tail(q)[j] = q[j + 1]
    BY <1>3, HeadTailProperties
  <2>2. PICK j \in 1..Len(Tail(q)) : Tail(q)[j].kind \in K
    BY <1>3 DEF On
  <2>3. j + 1 \in 1..Len(q)
    BY <1>0, <2>1
  <2> QED
    BY <2>1, <2>2, <2>3 DEF On
<1> QED
  BY <1>1, <1>2, <1>3

\* A block after a block, and a kind after a larger set of kinds.
LEMMA OnPasses ==
    ASSUME NEW q
    PROVE  /\ On(q, Passes) => On(q, Asks) /\ On(q, Wakes)
           /\ On(q, Builds) => On(q, Asks)
BY DEF On, Passes, Asks, Wakes, Builds

\* AskForTransaction leaves a next pass on the manager queue.
LEMMA AskingQueuesPass ==
    ASSUME NEW q \in Seq(ManagerBlocks), managerWill => On(q, Passes)
    PROVE  /\ AskForTransaction(q) => On(mq', Passes)
           /\ ServicesMayAskAgain(q) =>
                \/ On(mq', Passes)
                \/ mq' = q /\ UNCHANGED <<need, managerWill>>
<1>1. Plain("pass") \in ManagerBlocks /\ Plain("pass").kind \in Passes
  BY BlockTypes DEF ManagerKind, Passes, Plain, Block
<1>2. On(Append(q, Plain("pass")), Passes)
  BY <1>1, OnSteps
<1>3. AskForTransaction(q) => On(mq', Passes)
  BY <1>2 DEF AskForTransaction
<1> QED
  BY <1>3 DEF ServicesMayAskAgain

\* _requestTransactionFromDelegate, with a delegate, asks or notes that it has
\* to be asked again, keeps a note there was, and takes nothing off the queue.
LEMMA RequestWakes ==
    ASSUME NEW q \in Seq(ManagerBlocks), NEW w, NEW d, NEW a \in BOOLEAN,
           RequestTransactionFromDelegate(w, d, a, q)
    PROVE  /\ On(q, Passes) => On(mq', Passes)
           /\ delegate => requestAnother' \/ On(mq', Asks)
<1>1. CASE requestAnother' = TRUE /\ mq' = q
  BY <1>1
<1>2. CASE mq' = IF delegate
                   THEN Append(q, Plain(IF d THEN "build" ELSE "buildPing")) ELSE q
  <2>1. \A k \in Builds : Plain(k) \in ManagerBlocks /\ Plain(k).kind \in Asks
    BY BlockTypes DEF ManagerKind, Builds, Asks, Plain, Block
  <2>2. \A k \in Builds : /\ On(Append(q, Plain(k)), Asks)
                          /\ On(q, Passes) => On(Append(q, Plain(k)), Passes)
    BY <2>1, OnSteps
  <2> QED
    BY <1>2, <2>2 DEF Builds
<1> QED
  BY <1>1, <1>2 DEF RequestTransactionFromDelegate

wakeState == <<need, able, managerWill, transportWill, stopped, connection, connected,
               backoffTimer, requestAnother>>

\* What a step may do to a queue without waking or forgetting anybody.
KeepsManager ==
    (On(mq, Passes) => On(mq', Passes)) /\ (On(mq, Asks) => On(mq', Asks))
KeepsTransport ==
    /\ (On(tq, Passes) => On(tq', Passes)) /\ (On(tq, Wakes) => On(tq', Wakes))
    /\ On(tq', Stops) => On(tq, Stops)

\* The queues keep what asks and wakes, and the rest is let alone.
LEMMA WakeStutters ==
    ASSUME WakeInv, UNCHANGED <<wakeState, current>>, KeepsManager, KeepsTransport
    PROVE  WakeInv'
BY Zenon
DEF WakeInv, PassIsQueued, StopIsFinal, ConnectedExists, NoLostWakeup, Awake, wakeState,
    KeepsManager, KeepsTransport, Asks, Wakes

\* Blocks that are appended, and heads that are taken, one by one.
LEMMA QueueKeeps ==
    ASSUME QueuesOK
    PROVE  /\ mq' = mq => KeepsManager
           /\ \A b \in ManagerBlocks : mq' = Append(mq, b) => KeepsManager
           /\ mq # <<>> /\ Head(mq).kind \notin Asks /\ mq' = Tail(mq) => KeepsManager
           /\ tq' = tq => KeepsTransport
           /\ \A b \in TransportBlocks :
                b.kind \notin Stops /\ tq' = Append(tq, b) => KeepsTransport
           /\ tq # <<>> /\ Head(tq).kind \notin Wakes /\ tq' = Tail(tq) => KeepsTransport
<1> USE DEF KeepsManager, KeepsTransport
<1>1. \A b \in ManagerBlocks : mq' = Append(mq, b) => KeepsManager
  BY OnSteps DEF QueuesOK
<1>2. mq # <<>> /\ Head(mq).kind \notin Asks /\ mq' = Tail(mq) => KeepsManager
  <2>1. Head(mq).kind \notin Asks => Head(mq).kind \notin Passes
    BY DEF Asks, Passes
  <2> QED
    BY <2>1, OnSteps DEF QueuesOK
<1>3. \A b \in TransportBlocks :
        b.kind \notin Stops /\ tq' = Append(tq, b) => KeepsTransport
  BY OnSteps, OnComesFrom DEF QueuesOK
<1>4. tq # <<>> /\ Head(tq).kind \notin Wakes /\ tq' = Tail(tq) => KeepsTransport
  <2>1. Head(tq).kind \notin Wakes => Head(tq).kind \notin Passes
    BY DEF Wakes, Passes
  <2> QED
    BY <2>1, OnSteps, OnComesFrom DEF QueuesOK
<1> QED
  BY <1>1, <1>2, <1>3, <1>4

\* The calls from outside, and the sockets.
LEMMA CallsKeepWake ==
    ASSUME QueuesOK, ConnectionInv, WakeInv,
           \/ RequestTransportTransaction \/ Suspend \/ Resume
           \/ RequestSecureTransportReset
           \/ \E clear, session \in BOOLEAN : StopTransport(clear, session)
           \/ SocketOpens \/ SocketCloses
           \/ \E m \in 0..MaxPing : SocketReads(m)
           \/ \E kind \in {"available", "reset"} : NetworkChanges(kind)
    PROVE  WakeInv'
<1>a. connection \in 0..MaxConnection /\ (connection # 0 => connection \in Connection)
  BY ConnectionAssumption DEF ConnectionInv, FlagsOK, Connection
<1>b. \A k \in {"reset", "available", "session", "stop"} : Plain(k) \in TransportBlocks
  BY BlockTypes DEF TransportKind
<1>1. CASE RequestTransportTransaction \/ Resume
  <2>1. /\ UNCHANGED <<current, tq, transportWill, stopped, connection, connected>>
        /\ AskForTransaction(mq)
    BY <1>1 DEF RequestTransportTransaction, Resume, connectionVars
  <2>2. On(mq', Passes)
    BY <2>1, AskingQueuesPass DEF WakeInv, PassIsQueued, QueuesOK
  <2>3. On(mq', Asks)
    BY <2>2, OnPasses
  <2> QED
    BY <2>1, <2>2, <2>3, Zenon
    DEF WakeInv, PassIsQueued, StopIsFinal, ConnectedExists, NoLostWakeup, Awake, Asks
<1>2. CASE Suspend
  <2>1. /\ UNCHANGED <<current, managerWill, mq, tq, transportWill, stopped, connection,
                       connected>>
        /\ able' = FALSE
    BY <1>2 DEF Suspend, connectionVars
  <2> QED
    BY <2>1, Zenon DEF WakeInv, PassIsQueued, StopIsFinal, ConnectedExists, NoLostWakeup
<1>3. CASE \/ RequestSecureTransportReset
           \/ \E kind \in {"available", "reset"} : NetworkChanges(kind)
  <2>1. /\ UNCHANGED <<wakeState, current, mq>>
        /\ \E k \in {"reset", "available"} : tq' = Append(tq, Plain(k))
    BY <1>3 DEF RequestSecureTransportReset, NetworkChanges, managerVars, connectionVars,
                behaviourVars, lockVars, wakeState
  <2>2. \A k \in {"reset", "available"} : Plain(k).kind \notin Stops
    BY DEF Plain, Block, Stops
  <2> QED
    BY <1>b, <2>1, <2>2, QueueKeeps, WakeStutters
<1>4. CASE \E clear, session \in BOOLEAN : StopTransport(clear, session)
  <2>1. PICK clear \in BOOLEAN, session \in BOOLEAN : StopTransport(clear, session)
    BY <1>4
  <2> DEFINE told == IF session THEN <<Plain("session")>> ELSE <<>>
  <2>2. /\ UNCHANGED <<managerWill, mq, transportWill, connection, connected>>
        /\ current' = FALSE
        /\ tq' = tq \o told \o <<Plain("stop")>>
    BY <2>1 DEF StopTransport, connectionVars
  <2>3. told \in Seq(TransportBlocks) /\ <<Plain("stop")>> \in Seq(TransportBlocks)
    BY <1>b
  <2>4. tq \o told \in Seq(TransportBlocks)
    BY <2>3, SequenceStep DEF QueuesOK
  <2>5. On(tq, Passes) => On(tq', Passes)
    BY <2>2, <2>3, <2>4, OnSteps DEF QueuesOK
  <2> QED
    BY <2>2, <2>5, Zenon
    DEF WakeInv, PassIsQueued, StopIsFinal, ConnectedExists, NoLostWakeup
<1>5. CASE SocketOpens \/ SocketCloses
  <2>1. /\ UNCHANGED <<wakeState, current, mq>>
        /\ \E k \in {"opened", "closed"} : tq' = Append(tq, Block(k, connection, 0))
        /\ connection # 0
    BY <1>5 DEF SocketOpens, SocketCloses, managerVars, behaviourVars, lockVars, wakeState
  <2>2. \A k \in {"opened", "closed"} : /\ Block(k, connection, 0).kind \notin Stops
                                        /\ Block(k, connection, 0) \in TransportBlocks
    BY <1>a, <2>1, BlockTypes DEF Block, Stops, TransportKind
  <2> QED
    BY <2>1, <2>2, QueueKeeps, WakeStutters
<1>6. CASE \E m \in 0..MaxPing : SocketReads(m)
  <2>1. PICK m \in 0..MaxPing : SocketReads(m)
    BY <1>6
  <2>2. /\ UNCHANGED <<wakeState, current, mq>>
        /\ tq' = Append(tq, Block("data", connection, m))
    BY <2>1 DEF SocketReads, managerVars, behaviourVars, lockVars, wakeState
  <2>3. /\ Block("data", connection, m).kind \notin Stops
        /\ Block("data", connection, m) \in TransportBlocks
    BY <1>a, BlockTypes DEF Block, Stops, TransportKind
  <2> QED
    BY <2>2, <2>3, QueueKeeps, WakeStutters
<1> QED
  BY <1>1, <1>2, <1>3, <1>4, <1>5, <1>6

\* The manager queue: a pass goes on to the transport it finds, and a build
\* takes what is asked for, or services are suspended, or the transport goes.
LEMMA ManagerKeepsWake ==
    ASSUME QueuesOK, WakeInv, ManagerStep
    PROVE  WakeInv'
<1>a. mq # <<>> => Tail(mq) \in Seq(ManagerBlocks) /\ Head(mq).conn \in 0..MaxConnection
                   /\ Head(mq).mid \in 0..MaxPing
  BY HeadTypes
<1>b. \A k \in {"needs", "ready", "readyNil", "session", "stop", "reset"} :
        Plain(k) \in TransportBlocks
  BY BlockTypes DEF TransportKind
<1>c. \A b \in TransportBlocks :
        /\ On(tq, Passes) => On(Append(tq, b), Passes)
        /\ On(tq, Wakes) => On(Append(tq, b), Wakes)
        /\ b.kind \in Wakes => On(Append(tq, b), Wakes)
        /\ b.kind \notin Stops => (On(Append(tq, b), Stops) => On(tq, Stops))
  BY OnSteps, OnComesFrom DEF QueuesOK
<1>d. mq # <<>> /\ Head(mq).kind \notin Passes => (On(mq, Passes) => On(Tail(mq), Passes))
  BY OnSteps DEF QueuesOK
<1>1. CASE ManagerPass
  <2>1. /\ UNCHANGED <<need, able, current, transportWill, stopped, connection, connected>>
        /\ managerWill' = FALSE
        /\ tq' = IF current THEN Append(tq, Plain("needs")) ELSE tq
    BY <1>1 DEF ManagerPass, connectionVars
  <2>2. Plain("needs").kind \in Wakes /\ Plain("needs").kind \notin Stops
    BY DEF Plain, Block, Wakes, Stops
  <2>3. /\ current => On(tq', Wakes)
        /\ On(tq, Passes) => On(tq', Passes)
        /\ On(tq', Stops) => On(tq, Stops)
    BY <1>b, <1>c, <2>1, <2>2
  <2> QED
    BY <2>1, <2>3, Zenon
    DEF WakeInv, PassIsQueued, StopIsFinal, ConnectedExists, NoLostWakeup, Awake, Wakes
<1>2. CASE ReadyForTransaction
  <2>1. /\ UNCHANGED <<managerWill, transportWill, stopped, connection, connected>>
        /\ mq # <<>> /\ Head(mq).kind \in Builds /\ mq' = Tail(mq)
    BY <1>2 DEF ReadyForTransaction, ManagerHead, Builds, connectionVars
  <2>2. On(mq, Passes) => On(mq', Passes)
    BY <1>d, <2>1 DEF Builds, Passes
  <2>3. CASE /\ current' = FALSE
             /\ tq' = tq \o <<Plain("readyNil"), Plain("session"), Plain("stop")>>
    <3>1. <<Plain("readyNil"), Plain("session"), Plain("stop")>> \in Seq(TransportBlocks)
      BY <1>b
    <3>2. On(tq, Passes) => On(tq', Passes)
      BY <2>3, <3>1, OnSteps DEF QueuesOK
    <3> QED
      BY <2>1, <2>2, <2>3, <3>2, Zenon
      DEF WakeInv, PassIsQueued, StopIsFinal, ConnectedExists, NoLostWakeup
  <2>4. CASE /\ current' = current
             /\ ~current \/ need' = FALSE \/ able' = FALSE \/ (~able /\ able' = able)
             /\ \/ \E k \in Answers : tq' = Append(tq, Plain(k))
                \/ tq' = Append(tq, Block("ready", 0, NewPing))
    <3>1. NewPing \in 0..MaxPing
      BY PingAssumption DEF NewPing, UnusedPings, Ping
    <3>2. /\ Block("ready", 0, NewPing) \in TransportBlocks
          /\ Block("ready", 0, NewPing).kind \notin Stops
          /\ \A k \in Answers : Plain(k) \in TransportBlocks /\ Plain(k).kind \notin Stops
      BY <1>b, <3>1, BlockTypes, ConnectionAssumption
      DEF TransportKind, Answers, Stops, Plain, Block
    <3>3. (On(tq, Passes) => On(tq', Passes)) /\ (On(tq', Stops) => On(tq, Stops))
      BY <1>c, <2>4, <3>2
    <3>4. ~(need' /\ able' /\ current')
      BY <2>4
    <3> QED
      BY <2>1, <2>2, <2>4, <3>3, <3>4, Zenon
      DEF WakeInv, PassIsQueued, StopIsFinal, ConnectedExists, NoLostWakeup
  <2> QED
    BY <1>2, <2>3, <2>4 DEF ReadyForTransaction, Answers
<1>e. ASSUME UNCHANGED <<able, current, transportWill, stopped, connection, connected,
                         backoffTimer, requestAnother>>,
             mq # <<>>, Head(mq).kind \notin Asks,
             \/ mq' = Tail(mq) /\ UNCHANGED <<need, managerWill>>
             \/ ServicesMayAskAgain(Tail(mq)),
             KeepsTransport
      PROVE  WakeInv'
  <2>1. Head(mq).kind \notin Passes
    BY <1>e DEF Asks, Passes
  <2>2. managerWill => On(Tail(mq), Passes)
    BY <1>d, <1>e, <2>1 DEF WakeInv, PassIsQueued
  <2>3. \/ On(mq', Passes)
        \/ mq' = Tail(mq) /\ UNCHANGED <<need, managerWill>>
    BY <1>a, <1>e, <2>2, AskingQueuesPass
  <2>4. CASE mq' = Tail(mq) /\ UNCHANGED <<need, managerWill>>
    BY <1>e, <2>4, QueueKeeps, WakeStutters DEF wakeState
  <2>5. CASE On(mq', Passes)
    <3>1. On(mq', Asks)
      BY <2>5, OnPasses
    <3> QED
      BY <1>e, <2>5, <3>1, Zenon
      DEF WakeInv, PassIsQueued, StopIsFinal, ConnectedExists, NoLostWakeup, Awake, Asks,
          KeepsTransport
  <2> QED
    BY <2>3, <2>4, <2>5
<1>3. CASE IncomingData
  <2> DEFINE d == Head(mq)
             valid1 == Append(tq, Block("valid", d.conn, 0))
             settled == IF d.mid = 0 THEN <<>> ELSE <<Block("settled", 0, d.mid)>>
  <2>1. /\ UNCHANGED <<able, current, transportWill, stopped, connection, connected,
                       backoffTimer, requestAnother>>
        /\ mq # <<>> /\ d.kind = "data"
        /\ \/ mq' = Tail(mq) /\ UNCHANGED <<need, managerWill>>
           \/ ServicesMayAskAgain(Tail(mq))
        /\ tq' = tq \/ tq' = Append(tq, Plain("reset")) \/ tq' = valid1 \o settled
    BY <1>3 DEF IncomingData, ManagerHead, connectionVars, behaviourVars, lockVars
  <2>2. Block("valid", d.conn, 0) \in TransportBlocks
    BY <1>a, <2>1, BlockTypes, PingAssumption DEF TransportKind
  <2>3. Block("settled", 0, d.mid) \in TransportBlocks
    BY <1>a, <2>1, BlockTypes, ConnectionAssumption DEF TransportKind
  <2>4. /\ Plain("reset").kind \notin Stops /\ Block("valid", d.conn, 0).kind \notin Stops
        /\ Block("settled", 0, d.mid).kind \notin Stops
    BY DEF Plain, Block, Stops
  <2>5. valid1 \in Seq(TransportBlocks)
    BY <2>2, SequenceStep DEF QueuesOK
  <2>6. tq' \in {tq, Append(tq, Plain("reset")), valid1, Append(valid1, Block("settled", 0, d.mid))}
    <3>1. valid1 \o <<>> = valid1
      BY <2>5, ConcatEmptySeq
    <3>2. valid1 \o <<Block("settled", 0, d.mid)>> = Append(valid1, Block("settled", 0, d.mid))
      BY <2>3, <2>5, AppendIsConcat
    <3> QED
      BY <2>1, <3>1, <3>2
  <2>7. KeepsTransport
    <3>1. \A v \in Seq(TransportBlocks) : \A b \in TransportBlocks :
            /\ On(v, Passes) => On(Append(v, b), Passes)
            /\ On(v, Wakes) => On(Append(v, b), Wakes)
            /\ b.kind \notin Stops => (On(Append(v, b), Stops) => On(v, Stops))
      BY OnSteps, OnComesFrom
    <3>2. /\ On(tq, Passes) => On(valid1, Passes)
          /\ On(tq, Wakes) => On(valid1, Wakes)
          /\ On(valid1, Stops) => On(tq, Stops)
      BY <1>c, <2>2, <2>4
    <3> DEFINE both == Append(valid1, Block("settled", 0, d.mid))
    <3> HIDE DEF valid1
    <3>3. /\ On(valid1, Passes) => On(both, Passes)
          /\ On(valid1, Wakes) => On(both, Wakes)
          /\ On(both, Stops) => On(valid1, Stops)
      BY <2>3, <2>4, <2>5, <3>1
    <3>4. CASE tq' = tq \/ tq' = Append(tq, Plain("reset"))
      BY <1>b, <2>4, <3>4, QueueKeeps
    <3> HIDE DEF both
    <3>5. CASE tq' = valid1 \/ tq' = both
      BY <3>2, <3>3, <3>5, Zenon DEF KeepsTransport
    <3> QED
      BY <2>6, <3>4, <3>5 DEF both
  <2>8. d.kind \notin Asks
    BY <2>1 DEF Asks
  <2> QED
    BY <1>e, <2>1, <2>7, <2>8
<1>4. CASE PayloadSent
  <2>1. /\ UNCHANGED <<wakeState, current>> /\ mq # <<>> /\ Head(mq).kind = "sent"
        /\ mq' = Tail(mq)
        /\ tq' = tq \/ tq' = Append(tq, Block("pingSent", 0, Head(mq).mid))
    BY <1>4 DEF PayloadSent, ManagerHead, connectionVars, behaviourVars, lockVars, wakeState
  <2>2. /\ Block("pingSent", 0, Head(mq).mid) \in TransportBlocks
        /\ Block("pingSent", 0, Head(mq).mid).kind \notin Stops
    BY <1>a, <2>1, BlockTypes, ConnectionAssumption DEF TransportKind, Stops, Block
  <2>3. KeepsTransport
    BY <2>1, <2>2, QueueKeeps
  <2>4. KeepsManager
    BY <2>1, QueueKeeps DEF Asks
  <2> QED
    BY <2>1, <2>3, <2>4, WakeStutters
<1>5. CASE PayloadFailed
  <2>1. /\ UNCHANGED <<able, current, tq, transportWill, stopped, connection, connected,
                       backoffTimer, requestAnother>>
        /\ mq # <<>> /\ Head(mq).kind = "failed"
        /\ ServicesMayAskAgain(Tail(mq))
    BY <1>5 DEF PayloadFailed, ManagerHead, connectionVars, behaviourVars, lockVars
  <2>2. KeepsTransport /\ Head(mq).kind \notin Asks
    BY <2>1, QueueKeeps DEF Asks
  <2> QED
    BY <1>e, <2>1, <2>2
<1> QED
  BY <1>1, <1>2, <1>3, <1>4, <1>5 DEF ManagerStep

\* The transport queue: a pass connects, asks, or waits for the connection or
\* the timer; whatever ends a connection leaves one of these behind.
LEMMA TransportKeepsWake ==
    ASSUME QueuesOK, ConnectionInv, LockInv, WishTypes, WakeInv, TransportStep
    PROVE  WakeInv'
<1>a. tq # <<>> => /\ Tail(tq) \in Seq(TransportBlocks) /\ Head(tq).mid \in 0..MaxPing
                   /\ Head(tq).kind = "data" => Head(tq) \in ManagerBlocks
                   /\ Head(tq).kind \in {"opened", "closed"} => Head(tq).conn \in Connection
  BY HeadTypes
<1>b. /\ Plain("failed") \in ManagerBlocks /\ Plain("pass") \in TransportBlocks
      /\ Append(mq, Plain("failed")) \in Seq(ManagerBlocks)
  BY BlockTypes, SequenceStep DEF ManagerKind, TransportKind, QueuesOK
<1>c. tq # <<>> => /\ On(Tail(tq), Stops) => On(tq, Stops)
                   /\ Head(tq).kind \notin Passes => (On(tq, Passes) => On(Tail(tq), Passes))
  BY OnSteps, OnComesFrom DEF QueuesOK
<1>d. 0 \notin Connection
  BY DEF Connection
<1>e. /\ current \in BOOLEAN /\ delegate \in BOOLEAN /\ (current => delegate)
      /\ isWaiting \in BOOLEAN /\ requestAnother \in BOOLEAN /\ didSendPing \in BOOLEAN
  BY DEF LockInv
<1>f. ASSUME UNCHANGED <<need, able, current, delegate, managerWill, transportWill, stopped>>,
             tq # <<>>, Head(tq).kind \notin Wakes, tq' = Tail(tq),
             On(mq, Passes) => On(mq', Passes),
             delegate => requestAnother' \/ On(mq', Asks),
             connected' => connection' # 0
      PROVE  WakeInv'
  <2>1. KeepsTransport
    BY <1>f, QueueKeeps
  <2> QED
    BY <1>e, <1>f, <2>1, Zenon
    DEF WakeInv, PassIsQueued, StopIsFinal, ConnectedExists, NoLostWakeup, Awake, Asks,
        KeepsTransport
<1>g. ASSUME UNCHANGED <<wakeState, current>>, KeepsManager,
             tq # <<>>, Head(tq).kind \notin Wakes, tq' = Tail(tq)
      PROVE  WakeInv'
  BY <1>g, QueueKeeps, WakeStutters
<1>1. CASE NeedsTransaction
  <2>1. /\ UNCHANGED <<need, able, current, managerWill, mq, stopped, connection, connected>>
        /\ tq # <<>> /\ Head(tq).kind = "needs"
        /\ tq' = IF transportWill THEN Tail(tq) ELSE Append(Tail(tq), Plain("pass"))
    BY <1>1 DEF NeedsTransaction, TransportHead, managerVars, connectionVars
  <2>2. On(tq, Passes) => On(Tail(tq), Passes)
    BY <1>c, <2>1 DEF Passes
  <2>3. /\ \A b \in TransportBlocks : b.kind \in Passes => On(Append(Tail(tq), b), Passes)
        /\ \A b \in TransportBlocks : b.kind \notin Stops =>
             (On(Append(Tail(tq), b), Stops) => On(Tail(tq), Stops))
    BY <1>a, <2>1, OnSteps, OnComesFrom
  <2>4. Plain("pass").kind \in Passes /\ Plain("pass").kind \notin Stops
    BY DEF Plain, Block, Passes, Stops
  <2>5. transportWill => On(tq, Passes)
    BY DEF WakeInv, PassIsQueued
  <2>6. On(tq', Passes) /\ (On(tq', Stops) => On(tq, Stops))
    BY <1>b, <1>c, <2>1, <2>2, <2>3, <2>4, <2>5
  <2>7. On(tq', Wakes)
    BY <2>6, OnPasses
  <2> QED
    BY <2>1, <2>6, <2>7, Zenon
    DEF WakeInv, PassIsQueued, StopIsFinal, ConnectedExists, NoLostWakeup, Awake, Wakes
<1>2. CASE TransportPass
  <2>1. /\ UNCHANGED <<need, able, current, delegate, managerWill, stopped>>
        /\ transportWill' = FALSE
        /\ tq # <<>> /\ Head(tq).kind = "pass" /\ tq' = Tail(tq)
    BY <1>2 DEF TransportPass, TransportHead
  <2>2. On(tq', Stops) => On(tq, Stops)
    BY <1>c, <2>1
  <2>3. ASSUME On(mq, Passes) => On(mq', Passes),
               connected' => connection' # 0,
               current /\ ~stopped => \/ requestAnother' \/ On(mq', Asks)
                                      \/ ~connected' /\ (connection' # 0 \/ backoffTimer')
        PROVE  WakeInv'
    BY <2>1, <2>2, <2>3, Zenon
    DEF WakeInv, PassIsQueued, StopIsFinal, ConnectedExists, NoLostWakeup, Awake, Asks
  <2>4. ConnectedExists
    BY DEF WakeInv
  <2>5. CASE /\ connection = 0 /\ ~backoffTimer /\ RequestsReconnection(0)
             /\ UNCHANGED <<mq, connected>>
    <3>1. stopped \in BOOLEAN
      BY DEF ConnectionInv, FlagsOK
    <3>2. ~stopped => connection' # 0
      BY <2>5, <3>1, Reconnects
    <3>3. ~connected
      BY <2>4, <2>5 DEF ConnectedExists
    <3> QED
      BY <2>3, <2>5, <3>2, <3>3, Zenon
  <2>6. CASE /\ connection # 0
             /\ RequestTransactionFromDelegate(isWaiting, didSendPing, requestAnother, mq)
             /\ UNCHANGED <<connection, connected>>
    <3>1. /\ On(mq, Passes) => On(mq', Passes)
          /\ delegate => requestAnother' \/ On(mq', Asks)
      BY <1>e, <2>6, RequestWakes DEF QueuesOK
    <3> QED
      BY <1>e, <2>3, <2>6, <3>1, Zenon
  <2>7. CASE /\ (connection = 0 /\ backoffTimer) \/ (connection # 0 /\ ~connected)
             /\ UNCHANGED <<mq, connection, connected, backoffTimer>>
    <3>1. ~connected
      BY <2>4, <2>7 DEF ConnectedExists
    <3> QED
      BY <2>3, <2>7, <3>1, Zenon
  <2> QED
    BY <1>2, <2>5, <2>6, <2>7 DEF TransportPass, behaviourVars, connectionVars
<1>h. ASSUME NEW q \in Seq(ManagerBlocks), Release(q), On(mq, Passes) => On(q, Passes),
             On(mq, Asks) => On(q, Asks),
             UNCHANGED <<need, able, current, delegate, managerWill, transportWill, stopped,
                         connection, connected, backoffTimer>>,
             tq # <<>>, Head(tq).kind \notin Wakes, tq' = Tail(tq)
      PROVE  WakeInv'
  <2>1. CASE requestAnother
    <3>1. RequestTransactionFromDelegate(FALSE, didSendPing, FALSE, q)
      BY <1>h, <2>1 DEF Release
    <3>2. /\ On(q, Passes) => On(mq', Passes)
          /\ delegate => requestAnother' \/ On(mq', Asks)
      BY <3>1, RequestWakes
    <3>3. connected' => connection' # 0
      BY <1>h, Zenon DEF WakeInv, ConnectedExists
    <3> QED
      BY <1>f, <1>h, <3>2, <3>3
  <2>2. CASE ~requestAnother
    <3>1. mq' = q /\ requestAnother' = requestAnother
      BY <1>h, <2>2 DEF Release
    <3>2. KeepsManager
      BY <1>h, <3>1 DEF KeepsManager
    <3> QED
      BY <1>g, <1>h, <3>1, <3>2 DEF wakeState
  <2> QED
    BY <2>1, <2>2
<1>i. /\ \A b \in ManagerBlocks : /\ On(mq, Passes) => On(Append(mq, b), Passes)
                                  /\ On(mq, Asks) => On(Append(mq, b), Asks)
      /\ \A b \in ManagerBlocks : Append(mq, b) \in Seq(ManagerBlocks)
  BY OnSteps, SequenceStep DEF QueuesOK
<1>3. CASE TransactionReady
  <2>1. /\ UNCHANGED <<need, able, current, delegate, managerWill, transportWill, stopped,
                       connection, connected, backoffTimer>>
        /\ tq # <<>> /\ Head(tq).kind = "ready" /\ tq' = Tail(tq)
        /\ \/ Release(Append(mq, Block("sent", 0, Head(tq).mid)))
           \/ Release(Append(mq, Plain("failed")))
    BY <1>3 DEF TransactionReady, TransportHead, behaviourVars
  <2>2. Block("sent", 0, Head(tq).mid) \in ManagerBlocks
    BY <1>a, <2>1, BlockTypes
  <2>3. PICK b \in ManagerBlocks : Release(Append(mq, b))
    BY <1>b, <2>1, <2>2
  <2>4. Head(tq).kind \notin Wakes
    BY <2>1 DEF Wakes
  <2> QED
    BY <1>h, <1>i, <2>1, <2>3, <2>4
<1>4. CASE NothingReady
  <2>1. /\ UNCHANGED <<need, able, current, delegate, managerWill, transportWill, stopped,
                       connection, connected, backoffTimer>>
        /\ tq # <<>> /\ Head(tq).kind = "readyNil" /\ tq' = Tail(tq) /\ Release(mq)
    BY <1>4 DEF NothingReady, TransportHead, behaviourVars, connectionVars
  <2>2. Head(tq).kind \notin Wakes
    BY <2>1 DEF Wakes
  <2> QED
    BY <1>h, <2>1, <2>2 DEF QueuesOK
<1>5. CASE ConnectionOpened
  <2>1. /\ UNCHANGED <<need, able, current, delegate, managerWill, transportWill, stopped,
                       connection, backoffTimer>>
        /\ tq # <<>> /\ Head(tq).kind = "opened" /\ tq' = Tail(tq)
    BY <1>5 DEF ConnectionOpened, TransportHead, behaviourVars
  <2>2. Head(tq).kind \notin Wakes
    BY <2>1 DEF Wakes
  <2>3. CASE Head(tq).conn = connection
    <3>1. connection # 0
      BY <1>a, <1>d, <2>1, <2>3
    <3>2. RequestTransactionFromDelegate(isWaiting, FALSE, requestAnother, mq)
      BY <1>5, <2>3 DEF ConnectionOpened
    <3>3. /\ On(mq, Passes) => On(mq', Passes)
          /\ delegate => requestAnother' \/ On(mq', Asks)
      BY <1>e, <3>2, RequestWakes DEF QueuesOK
    <3> QED
      BY <1>f, <2>1, <2>2, <3>1, <3>3
  <2>4. CASE Head(tq).conn # connection
    <3>1. UNCHANGED <<connected, requestAnother, mq>>
      BY <1>5, <2>4 DEF ConnectionOpened, lockVars
    <3>2. KeepsManager
      BY <3>1, QueueKeeps
    <3> QED
      BY <1>g, <2>1, <2>2, <3>1, <3>2 DEF wakeState
  <2> QED
    BY <2>3, <2>4
<1>6. CASE ConnectionClosed
  <2>1. /\ UNCHANGED <<need, able, current, delegate, managerWill, transportWill, stopped,
                       requestAnother>>
        /\ tq # <<>> /\ Head(tq).kind = "closed" /\ tq' = Tail(tq)
    BY <1>6 DEF ConnectionClosed, TransportHead
  <2>2. Head(tq).kind \notin Wakes
    BY <2>1 DEF Wakes
  <2>3. CASE Head(tq).conn = connection
    <3>1. connection # 0
      BY <1>a, <1>d, <2>1, <2>3
    <3>2. ~stopped /\ needsReconnection
      BY <3>1, Zenon DEF ConnectionInv, FlagsOK, LifeOK, StoppedIsClosed
    <3>3. connected' = FALSE /\ BehaviourClosed
          /\ mq' = IF delegate THEN Append(mq, Plain("failed")) ELSE mq
      BY <1>6, <2>3 DEF ConnectionClosed
    <3>4. stopped \in BOOLEAN
      BY DEF ConnectionInv, FlagsOK
    <3>5. RequestsReconnection(0) => connection' # 0
      BY <3>2, <3>4, Reconnects
    <3>6. connection' # 0 \/ backoffTimer'
      BY <3>2, <3>3, <3>5 DEF BehaviourClosed
    <3>7. On(mq, Passes) => On(mq', Passes)
      BY <1>b, <1>i, <3>3
    <3>8. KeepsTransport
      BY <2>1, <2>2, QueueKeeps
    <3> QED
      BY <2>1, <3>3, <3>6, <3>7, <3>8, Zenon
      DEF WakeInv, PassIsQueued, StopIsFinal, ConnectedExists, NoLostWakeup, Awake,
          KeepsTransport
  <2>4. CASE Head(tq).conn # connection
    <3>1. UNCHANGED <<connected, connection, backoffTimer, mq>>
      BY <1>6, <2>4 DEF ConnectionClosed, connectionVars
    <3>2. KeepsManager
      BY <3>1, QueueKeeps
    <3> QED
      BY <1>g, <2>1, <2>2, <3>1, <3>2 DEF wakeState
  <2> QED
    BY <2>3, <2>4
<1>7. CASE ReceivedData
  <2>1. /\ UNCHANGED <<wakeState, current>>
        /\ tq # <<>> /\ Head(tq).kind = "data" /\ tq' = Tail(tq)
        /\ mq' = mq \/ mq' = Append(mq, Head(tq))
    BY <1>7 DEF ReceivedData, TransportHead, connectionVars, behaviourVars, lockVars, wakeState
  <2>2. KeepsManager
    BY <1>a, <2>1, QueueKeeps
  <2> QED
    BY <1>g, <2>1, <2>2 DEF Wakes
<1>8. CASE ConnectionIsValid
  <2>1. /\ UNCHANGED <<need, able, current, managerWill, mq, transportWill, stopped,
                       requestAnother, connection, connected>>
        /\ tq # <<>> /\ Head(tq).kind = "valid" /\ tq' = Tail(tq)
        /\ connection = 0 => backoffTimer' = backoffTimer
    BY <1>8 DEF ConnectionIsValid, TransportHead, managerVars, lockVars
  <2>2. KeepsTransport
    BY <2>1, QueueKeeps DEF Wakes
  <2>3. (connection # 0 \/ backoffTimer) => (connection' # 0 \/ backoffTimer')
    BY <2>1
  <2> QED
    BY <2>1, <2>2, <2>3, Zenon
    DEF WakeInv, PassIsQueued, StopIsFinal, ConnectedExists, NoLostWakeup, Awake, Wakes,
        KeepsTransport
<1>9. CASE PingSettled \/ PingSent \/ NetworkOrReset
  <2>1. /\ UNCHANGED <<wakeState, current, mq>> /\ tq # <<>> /\ tq' = Tail(tq)
        /\ Head(tq).kind \in {"session", "settled", "pingSent", "available", "reset"}
    BY <1>9
    DEF PingSettled, PingSent, NetworkOrReset, TransportHead, managerVars, connectionVars,
        behaviourVars, lockVars, wakeState
  <2>2. KeepsManager
    BY <2>1, QueueKeeps
  <2> QED
    BY <1>g, <2>1, <2>2 DEF Wakes
<1>10. CASE TransportStop
  <2>1. /\ UNCHANGED <<current, managerWill, transportWill>>
        /\ connected' = FALSE
        /\ tq # <<>> /\ Head(tq).kind = "stop" /\ tq' = Tail(tq)
        /\ mq' = mq \/ mq' = Append(mq, Plain("failed"))
    BY <1>10 DEF TransportStop, TransportHead
  <2>2. On(tq, Stops)
    <3>1. Head(tq) = tq[1] /\ 1 \in 1..Len(tq)
      BY <2>1, HeadTailProperties, LenProperties, EmptySeq DEF QueuesOK
    <3> QED
      BY <2>1, <3>1 DEF On, Stops
  <2>3. ~current
    BY <2>2 DEF WakeInv, StopIsFinal
  <2>4. On(mq, Passes) => On(mq', Passes)
    BY <1>b, <1>i, <2>1
  <2>5. On(tq, Passes) => On(tq', Passes)
    BY <1>c, <2>1 DEF Passes
  <2> QED
    BY <2>1, <2>3, <2>4, <2>5, Zenon
    DEF WakeInv, PassIsQueued, StopIsFinal, ConnectedExists, NoLostWakeup
<1> QED
  BY <1>1, <1>2, <1>3, <1>4, <1>5, <1>6, <1>7, <1>8, <1>9, <1>10 DEF TransportStep

\* The timers: the backoff timer ends in a connection, and a ping that is sent
\* again asks for a transaction.
LEMMA TimersKeepWake ==
    ASSUME QueuesOK, ConnectionInv, LockInv, WakeInv, TimerStep
    PROVE  WakeInv'
<1>1. CASE BackoffTimerEvent
  <2>1. /\ UNCHANGED <<need, able, current, managerWill, mq, tq, transportWill, stopped,
                       requestAnother, connected>>
        /\ backoffTimer /\ RequestsReconnection(connection)
    BY <1>1 DEF BackoffTimerEvent, managerVars, lockVars
  <2>2. stopped \in BOOLEAN
    BY DEF ConnectionInv, FlagsOK
  <2>3. ~stopped => connection' # 0
    <3>1. CASE connection = 0
      BY <2>1, <2>2, <3>1, Reconnects
    <3>2. CASE connection # 0
      BY <2>1, <3>2 DEF RequestsReconnection
    <3> QED
      BY <3>1, <3>2
  <2>4. stopped => connection' = connection
    BY <2>1 DEF RequestsReconnection
  <2> QED
    BY <2>1, <2>2, <2>3, <2>4, Zenon
    DEF WakeInv, PassIsQueued, StopIsFinal, ConnectedExists, NoLostWakeup, Awake
<1>2. CASE WatchdogTimeout
  <2>1. UNCHANGED <<wakeState, current, mq, tq>>
    BY <1>2 DEF WatchdogTimeout, managerVars, behaviourVars, lockVars, wakeState
  <2> QED
    BY <2>1, QueueKeeps, WakeStutters
<1>3. CASE ResendActualizationPing
  <2>1. /\ UNCHANGED <<need, able, current, delegate, managerWill, tq, transportWill,
                       stopped, connection, connected, backoffTimer>>
        /\ \/ UNCHANGED <<lockVars, mq>>
           \/ RequestTransactionFromDelegate(isWaiting, FALSE, requestAnother, mq)
    BY <1>3 DEF ResendActualizationPing, connectionVars, behaviourVars
  <2>2. CASE UNCHANGED <<lockVars, mq>>
    BY <2>1, <2>2, QueueKeeps, WakeStutters DEF wakeState, lockVars
  <2>3. CASE RequestTransactionFromDelegate(isWaiting, FALSE, requestAnother, mq)
    <3>1. /\ On(mq, Passes) => On(mq', Passes)
          /\ delegate => requestAnother' \/ On(mq', Asks)
      BY <2>3, RequestWakes DEF QueuesOK, LockInv
    <3> QED
      BY <2>1, <3>1, Zenon
      DEF WakeInv, PassIsQueued, StopIsFinal, ConnectedExists, NoLostWakeup, Awake, Asks,
          LockInv
  <2> QED
    BY <2>1, <2>2, <2>3
<1> QED
  BY <1>1, <1>2, <1>3 DEF TimerStep

\* No lost wakeup: while the transport is MTProto's and services may send, a
\* wish to send is at every moment on its way, as the next pass of
\* requestTransportTransaction or setDelegateNeedsTransaction, as a transaction
\* being asked for, as requestAnotherTransactionWhenReady, or as a connection
\* that is being made and will ask when it opens.
THEOREM NoLostWakeupCorrect == Spec => []NoLostWakeup
<1>1. Init => WakeInv
  <2> SUFFICES ASSUME Init PROVE WakeInv
    OBVIOUS
  <2>1. tq = <<>> /\ ~stopped /\ ~managerWill /\ ~transportWill /\ ~connected /\ ~need
    BY DEF Init
  <2>2. ~On(tq, Stops)
    BY <2>1 DEF On
  <2> QED
    BY <2>1, <2>2, Zenon DEF WakeInv, PassIsQueued, StopIsFinal, ConnectedExists, NoLostWakeup
<1>2. TransportInv /\ LockInv /\ WishTypes /\ WakeInv /\ [Next]_vars => WakeInv'
  <2> SUFFICES ASSUME TransportInv, LockInv, WishTypes, WakeInv, [Next]_vars PROVE WakeInv'
    OBVIOUS
  <2> QueuesOK /\ ConnectionInv
    BY DEF TransportInv
  <2>1. CASE UNCHANGED vars
    <3>1. UNCHANGED <<wakeState, current, mq, tq>>
      BY <2>1 DEF vars, managerVars, lockVars, behaviourVars, connectionVars, wakeState
    <3> QED
      BY <3>1, QueueKeeps, WakeStutters
  <2> QED
    BY <2>1, CallsKeepWake, ManagerKeepsWake, TransportKeepsWake, TimersKeepWake DEF Next
<1>3. TypeOK => WishTypes
  BY DEF TypeOK, WishTypes
<1>4. WakeInv => NoLostWakeup
  BY DEF WakeInv
<1> QED
  BY <1>1, <1>2, <1>3, <1>4, InvariantHolds, LockHolds, TypeCorrect, PTL DEF Spec

=============================================================================
