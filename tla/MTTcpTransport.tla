--------------------------- MODULE MTTcpTransport ---------------------------
(***************************************************************************)
(* One MTTcpTransport, its MTTcpConnectionBehaviour (reconnection with     *)
(* backoff) and the way MTProto asks it for transactions: who wakes whom   *)
(* so that what a message service wants to send is built, and a lost       *)
(* connection is replaced.                                                 *)
(*                                                                         *)
(* The two serial queues are explicit.  mq holds the blocks dispatched to  *)
(* the manager queue, tq those dispatched to tcpTransportQueue; the head   *)
(* of either may run next.  tcpQueue, on which MTTcpConnection works, is   *)
(* the source of Opened, Closed and Data blocks.  A timer is a flag: its   *)
(* block may run while it is set, and invalidating it clears it.           *)
(*                                                                         *)
(* Ids of connections and of ping messages are only compared for equality, *)
(* so a new one is any that nothing refers to any more; the model has no   *)
(* bound on how often the transport reconnects.                            *)
(***************************************************************************)
EXTENDS Naturals, Sequences

CONSTANTS
    MaxConnection,  \* connections that can be referred to at one time
    MaxPing,        \* ping messages followed at one time
    MaxQueue,       \* blocks in both queues when a call or data comes in
    MaxEvent,       \* blocks in both queues when a socket opens or closes
    Faults          \* what may disturb the transport in this instance

ASSUME ConnectionAssumption == MaxConnection \in Nat \ {0}
ASSUME PingAssumption == MaxPing \in Nat \ {0}
ASSUME QueueAssumption == MaxQueue \in Nat \ {0} /\ MaxEvent \in Nat \ {0}
ASSUME FaultsAssumption == 
    Faults \subseteq {"network", "reset", "suspend", "stop", "invalid", "slow"}

Connection == 1..MaxConnection
Ping == 1..MaxPing

VARIABLES
    need,               \* a message service has asked for a transaction not yet built
    able,               \* canAskForTransactions
    current,            \* MTProto's _transport is this transport
    delegate,           \* the transport's delegate is set
    managerWill,        \* MTProto's _willRequestTransactionOnNextQueuePass
    mq,                 \* blocks on the manager queue
    tq,                 \* blocks on tcpTransportQueue
    transportWill,      \* willRequestTransactionOnNextQueuePass
    connection,         \* transportContext.connection (0: nil)
    connected,          \* connectionConnected
    valid,              \* connectionIsValid
    stopped,            \* stopped
    isWaiting,          \* isWaitingForTransactionToBecomeReady
    requestAnother,     \* requestAnotherTransactionWhenReady
    didSendPing,        \* didSendActualizationPingAfterConnection
    ping,               \* currentActualizationPingMessageId
    pingTimer,          \* actualizationPingResendTimer is set
    watchdog,           \* connectionWatchdogTimer is set
    backoffCount,       \* _backoffCount; 2 stands for every larger count
    backoffTimer,       \* _backoffTimer is set
    needsReconnection,  \* connectionBehaviour.needsReconnection
    socket,             \* the connection's socket: "connecting", "open" or "closed"
    stopping,           \* the connection's stop is dispatched to tcpQueue
    pongs,              \* pings on the socket whose answer would be told from other data
    started,            \* history: a connection has been started
    excused             \* history: the watchdog of this connection has done its work

managerVars == <<need, able, current, delegate, managerWill, mq>>
lockVars == <<isWaiting, requestAnother, didSendPing>>
pingVars == <<ping, pingTimer>>
behaviourVars == <<backoffCount, backoffTimer, needsReconnection>>
connectionVars == <<connection, connected, valid, watchdog, socket, stopping, pongs,
                    started, excused>>
vars == <<managerVars, tq, transportWill, stopped, lockVars, pingVars, behaviourVars,
          connectionVars>>

Block(kind, conn, mid) == [kind |-> kind, conn |-> conn, mid |-> mid]
Plain(kind) == Block(kind, 0, 0)

\* Blocks of the manager queue: the next pass of requestTransportTransaction;
\* transportReadyForTransaction without and with the transport's own ping;
\* data of connection conn that answers the ping mid (0: none); the completion
\* of a payload that carried the ping mid; a failed payload or connection.
ManagerKind == {"pass", "build", "buildPing", "data", "sent", "failed"}

\* Blocks of tcpTransportQueue: setDelegateNeedsTransaction and its next pass;
\* transactionReady with a payload (mid: its ping) and with nothing; events of
\* a connection; the success of decoding its data; an answer to, or a rejection
\* of, the ping mid; the ping mid was sent; a new session; the network became
\* available; reset and stop.
TransportKind == {"needs", "pass", "ready", "readyNil", "opened", "closed", "data",
                  "valid", "settled", "pingSent", "session", "available", "reset",
                  "stop"}

Blocks(kinds) == [kind : kinds, conn : 0..MaxConnection, mid : 0..MaxPing]

On(q, kinds) == \E i \in 1..Len(q) : q[i].kind \in kinds

\* Room for one more call or event from outside.
Room(bound) == Len(mq) + Len(tq) < bound

UnusedConnections ==
    {c \in Connection : /\ c # connection
                        /\ \A i \in 1..Len(mq) : mq[i].conn # c
                        /\ \A i \in 1..Len(tq) : tq[i].conn # c}

\* The client can still tell an answer to the ping m from other data.
Awaited(m) ==
    \/ m = ping
    \/ \E i \in 1..Len(mq) : mq[i].mid = m
    \/ \E i \in 1..Len(tq) : tq[i].mid = m

UnusedPings == {m \in Ping : m \notin pongs /\ ~Awaited(m)}

\* A fresh id; 0, when all are in use, is a ping the model does not follow.
NewPing == IF UnusedPings = {} THEN 0 ELSE CHOOSE m \in UnusedPings : TRUE

TypeOK ==
    /\ need \in BOOLEAN /\ able \in BOOLEAN /\ current \in BOOLEAN
    /\ delegate \in BOOLEAN /\ managerWill \in BOOLEAN
    /\ mq \in Seq(Blocks(ManagerKind)) /\ tq \in Seq(Blocks(TransportKind))
    /\ transportWill \in BOOLEAN /\ stopped \in BOOLEAN
    /\ connection \in 0..MaxConnection /\ connected \in BOOLEAN /\ valid \in BOOLEAN
    /\ isWaiting \in BOOLEAN /\ requestAnother \in BOOLEAN /\ didSendPing \in BOOLEAN
    /\ ping \in 0..MaxPing /\ pingTimer \in BOOLEAN /\ watchdog \in BOOLEAN
    /\ backoffCount \in 0..2 /\ backoffTimer \in BOOLEAN /\ needsReconnection \in BOOLEAN
    /\ socket \in {"connecting", "open", "closed"} /\ stopping \in BOOLEAN
    /\ pongs \subseteq Ping /\ started \in BOOLEAN /\ excused \in BOOLEAN

Init ==
    /\ need = FALSE /\ able = TRUE /\ current = TRUE /\ delegate = TRUE
    /\ managerWill = FALSE /\ mq = <<>> /\ tq = <<>>
    /\ transportWill = FALSE /\ stopped = FALSE
    /\ isWaiting = FALSE /\ requestAnother = FALSE /\ didSendPing = FALSE
    /\ ping = 0 /\ pingTimer = FALSE
    /\ backoffCount = 0 /\ backoffTimer = FALSE /\ needsReconnection = TRUE
    /\ connection = 0 /\ connected = FALSE /\ valid = FALSE /\ watchdog = FALSE
    /\ socket = "closed" /\ stopping = FALSE /\ pongs = {}
    /\ started = FALSE /\ excused = FALSE

-----------------------------------------------------------------------------
(* The manager queue.                                                      *)

\* requestTransportTransaction, when q is left of the manager queue.
AskForTransaction(q) ==
    /\ managerWill' = TRUE
    /\ mq' = IF managerWill THEN q ELSE Append(q, Plain("pass"))

\* transportTransactionsMayHaveFailed, or the completion of a payload that was
\* not accepted: a service that had a message in it sends it again.
ServicesMayAskAgain(q) ==
    \/ need' = TRUE /\ AskForTransaction(q)
    \/ mq' = q /\ UNCHANGED <<need, managerWill>>

\* A message service has something to send.
RequestTransportTransaction ==
    /\ Room(MaxQueue)
    /\ need' = TRUE
    /\ AskForTransaction(mq)
    /\ UNCHANGED <<able, current, delegate, tq, transportWill, stopped, lockVars,
                   pingVars, behaviourVars, connectionVars>>

\* initiateTimeSync, a missing key or its binding: services have to wait.
Suspend ==
    /\ Room(MaxQueue)
    /\ able /\ "suspend" \in Faults
    /\ able' = FALSE
    /\ UNCHANGED <<need, current, delegate, managerWill, mq, tq, transportWill, stopped,
                   lockVars, pingVars, behaviourVars, connectionVars>>

\* The flag is cleared again, and a transaction asked for.
Resume ==
    /\ Room(MaxQueue)
    /\ ~able
    /\ able' = TRUE
    /\ AskForTransaction(mq)
    /\ UNCHANGED <<need, current, delegate, tq, transportWill, stopped, lockVars,
                   pingVars, behaviourVars, connectionVars>>

\* requestSecureTransportReset.
RequestSecureTransportReset ==
    /\ Room(MaxQueue) /\ current /\ "reset" \in Faults
    /\ tq' = Append(tq, Plain("reset"))
    /\ UNCHANGED <<managerVars, transportWill, stopped, lockVars, pingVars,
                   behaviourVars, connectionVars>>

\* The transport is given up: resetTransport and stop clear its delegate,
\* pause does not; resetSessionInfo tells it of the new session first.
StopTransport(clear, session) ==
    /\ current /\ "stop" \in Faults
    /\ current' = FALSE
    /\ delegate' = ~clear
    /\ tq' = tq \o (IF session THEN <<Plain("session")>> ELSE <<>>) \o <<Plain("stop")>>
    /\ UNCHANGED <<need, able, managerWill, mq, transportWill, stopped, lockVars,
                   pingVars, behaviourVars, connectionVars>>

ManagerHead(kinds) == mq # <<>> /\ Head(mq).kind \in kinds

\* Mutant of ManagerPass: the flag is not reset.
ManagerPassOnce ==
    /\ ManagerHead({"pass"})
    /\ mq' = Tail(mq)
    /\ tq' = IF current THEN Append(tq, Plain("needs")) ELSE tq
    /\ UNCHANGED <<need, able, current, delegate, managerWill, transportWill, stopped,
                   lockVars, pingVars, behaviourVars, connectionVars>>

\* The next pass of requestTransportTransaction.
ManagerPass ==
    /\ ManagerHead({"pass"})
    /\ managerWill' = FALSE
    /\ mq' = Tail(mq)
    /\ tq' = IF current THEN Append(tq, Plain("needs")) ELSE tq
    /\ UNCHANGED <<need, able, current, delegate, transportWill, stopped, lockVars,
                   pingVars, behaviourVars, connectionVars>>

\* Mutant of ReadyForTransaction: a call of a replaced transport is not answered.
StaleBuildUnanswered ==
    /\ ManagerHead({"build", "buildPing"})
    /\ mq' = Tail(mq)
    /\ IF current
         THEN need' = FALSE /\ tq' = Append(tq, Plain("ready"))
         ELSE UNCHANGED <<need, tq>>
    /\ UNCHANGED <<able, current, delegate, managerWill, transportWill, stopped,
                   lockVars, pingVars, behaviourVars, connectionVars>>

\* transportReadyForTransaction.  While services have to wait, a transaction
\* carries a time fix or a key binding, or nothing, and never the transport's
\* ping.  Without a valid salt nothing is sent and a time sync begins; when the
\* clock has moved back, resetSessionInfo replaces session and transport.
ReadyForTransaction ==
    /\ ManagerHead({"build", "buildPing"})
    /\ mq' = Tail(mq)
    /\ LET withPing == Head(mq).kind = "buildPing" IN
       \/ /\ ~current
          /\ tq' = Append(tq, Plain("readyNil"))
          /\ UNCHANGED <<need, able, current, delegate>>
       \/ /\ current /\ able /\ withPing
          /\ need' = FALSE
          /\ tq' = Append(tq, Block("ready", 0, NewPing))
          /\ UNCHANGED <<able, current, delegate>>
       \/ /\ current /\ able /\ ~withPing
          /\ need' = FALSE
          /\ tq' = Append(tq, Plain(IF need THEN "ready" ELSE "readyNil"))
          /\ UNCHANGED <<able, current, delegate>>
       \/ /\ current /\ able /\ "suspend" \in Faults
          /\ able' = FALSE
          /\ tq' = Append(tq, Plain("readyNil"))
          /\ UNCHANGED <<need, current, delegate>>
       \/ /\ current /\ able /\ "stop" \in Faults
          /\ current' = FALSE /\ delegate' = FALSE
          /\ tq' = tq \o <<Plain("readyNil"), Plain("session"), Plain("stop")>>
          /\ UNCHANGED <<need, able>>
       \/ /\ current /\ ~able
          /\ \E kind \in {"ready", "readyNil"} : tq' = Append(tq, Plain(kind))
          /\ UNCHANGED <<need, able, current, delegate>>
    /\ UNCHANGED <<managerWill, transportWill, stopped, lockVars, pingVars,
                   behaviourVars, connectionVars>>

\* transportHasIncomingData: the decode result goes back first.  A failure is
\* only passed on (connectionIsInvalid) and then resets the connection.
IncomingData ==
    /\ ManagerHead({"data"})
    /\ LET d == Head(mq) IN
       \/ /\ current
          /\ tq' = Append(tq, Block("valid", d.conn, 0)) \o
                     (IF d.mid = 0 THEN <<>> ELSE <<Block("settled", 0, d.mid)>>)
          /\ mq' = Tail(mq) /\ UNCHANGED <<need, managerWill>>
       \/ /\ current /\ "invalid" \in Faults
          /\ tq' = Append(tq, Plain("reset"))
          /\ ServicesMayAskAgain(Tail(mq))
       \/ /\ ~current
          /\ mq' = Tail(mq) /\ UNCHANGED <<need, managerWill, tq>>
    /\ UNCHANGED <<able, current, delegate, transportWill, stopped, lockVars, pingVars,
                   behaviourVars, connectionVars>>

\* The completion of a payload that was written: the ping's own completion.
PayloadSent ==
    /\ ManagerHead({"sent"})
    /\ mq' = Tail(mq)
    /\ tq' = IF Head(mq).mid = 0 THEN tq
             ELSE Append(tq, Block("pingSent", 0, Head(mq).mid))
    /\ UNCHANGED <<need, able, current, delegate, managerWill, transportWill, stopped,
                   lockVars, pingVars, behaviourVars, connectionVars>>

PayloadFailed ==
    /\ ManagerHead({"failed"})
    /\ ServicesMayAskAgain(Tail(mq))
    /\ UNCHANGED <<able, current, delegate, tq, transportWill, stopped, lockVars,
                   pingVars, behaviourVars, connectionVars>>

-----------------------------------------------------------------------------
(* _requestTransactionFromDelegate and the behaviour, used by the blocks   *)
(* of tcpTransportQueue.                                                   *)

\* With the lock w, the ping sent d, another request noted a, and the manager
\* queue q.  A held lock is kept while the ping is sent and the last second
\* has not passed; otherwise it is taken (again) and a transaction asked for.
RequestTransactionFromDelegate(w, d, a, q) ==
    \/ /\ w /\ d
       /\ isWaiting' = w /\ didSendPing' = d /\ requestAnother' = TRUE /\ mq' = q
    \/ /\ w /\ d => "slow" \in Faults
       /\ isWaiting' = delegate /\ didSendPing' = (d \/ delegate)
       /\ requestAnother' = a
       /\ mq' = IF delegate
                  THEN Append(q, Plain(IF d THEN "build" ELSE "buildPing")) ELSE q

\* Mutant of StartConnection: the watchdog is not started.
StartUnwatched(c) ==
    /\ connection' = c /\ socket' = "connecting"
    /\ stopping' = FALSE /\ pongs' = {}
    /\ started' = TRUE /\ excused' = FALSE
    /\ UNCHANGED watchdog

\* startIfNeeded, when there is no connection.
StartConnection(c) ==
    /\ connection' = c /\ socket' = "connecting"
    /\ stopping' = FALSE /\ pongs' = {}
    /\ watchdog' = TRUE
    /\ started' = TRUE /\ excused' = FALSE

\* Mutant of RequestsReconnection: stopped is not looked at.
ReconnectEvenStopped(conn) ==
    /\ backoffTimer' = FALSE
    /\ IF conn # 0
         THEN /\ connection' = conn
              /\ UNCHANGED <<watchdog, socket, stopping, pongs, started, excused>>
         ELSE /\ UnusedConnections # {}
              /\ StartConnection(CHOOSE c \in UnusedConnections : TRUE)

\* timerEvent and tcpConnectionBehaviourRequestsReconnection, with the
\* connection conn.
RequestsReconnection(conn) ==
    /\ backoffTimer' = FALSE
    /\ IF stopped \/ conn # 0
         THEN /\ connection' = conn
              /\ UNCHANGED <<watchdog, socket, stopping, pongs, started, excused>>
         ELSE /\ UnusedConnections # {}
              /\ StartConnection(CHOOSE c \in UnusedConnections : TRUE)

\* Mutant of BehaviourClosed: the first failure only counts.
ClosedAndForgotten ==
    /\ backoffCount' = IF backoffCount = 2 THEN 2 ELSE backoffCount + 1
    /\ backoffTimer' = (backoffCount' # 1)
    /\ connection' = 0
    /\ UNCHANGED <<watchdog, socket, stopping, pongs, started, excused>>

\* connectionClosed: the first failure in a row reconnects at once, a later
\* one after a delay.
BehaviourClosed ==
    \/ /\ needsReconnection /\ backoffCount = 0
       /\ backoffCount' = 1
       /\ RequestsReconnection(0)
    \/ /\ needsReconnection /\ backoffCount > 0
       /\ backoffCount' = 2
       /\ backoffTimer' = TRUE
       /\ connection' = 0
       /\ UNCHANGED <<watchdog, socket, stopping, pongs, started, excused>>
    \/ /\ ~needsReconnection
       /\ connection' = 0
       /\ UNCHANGED <<backoffCount, backoffTimer, watchdog, socket, stopping, pongs,
                      started, excused>>

-----------------------------------------------------------------------------
(* The blocks of tcpTransportQueue.                                        *)

TransportHead(kind) == tq # <<>> /\ Head(tq).kind = kind

\* setDelegateNeedsTransaction.
NeedsTransaction ==
    /\ TransportHead("needs")
    /\ transportWill' = TRUE
    /\ tq' = IF transportWill THEN Tail(tq) ELSE Append(Tail(tq), Plain("pass"))
    /\ UNCHANGED <<managerVars, stopped, lockVars, pingVars, behaviourVars, connectionVars>>

\* Mutant of TransportPass: a nil connection waits for somebody else.
PassWithoutConnecting ==
    /\ TransportHead("pass")
    /\ transportWill' = FALSE
    /\ tq' = Tail(tq)
    /\ IF connected
         THEN RequestTransactionFromDelegate(isWaiting, didSendPing, requestAnother, mq)
         ELSE UNCHANGED <<mq, lockVars>>
    /\ UNCHANGED <<need, able, current, delegate, managerWill, stopped, pingVars,
                   behaviourVars, connectionVars>>

\* The next pass: connect, or ask for a transaction, or wait for Opened.
TransportPass ==
    /\ TransportHead("pass")
    /\ transportWill' = FALSE
    /\ tq' = Tail(tq)
    /\ \/ /\ connection = 0 /\ ~backoffTimer
          /\ RequestsReconnection(0)
          /\ UNCHANGED <<mq, lockVars, backoffCount, needsReconnection, connected, valid>>
       \/ /\ connection # 0 /\ connected
          /\ RequestTransactionFromDelegate(isWaiting, didSendPing, requestAnother, mq)
          /\ UNCHANGED <<behaviourVars, connectionVars>>
       \/ /\ \/ connection = 0 /\ backoffTimer
             \/ connection # 0 /\ ~connected
          /\ UNCHANGED <<mq, lockVars, behaviourVars, connectionVars>>
    /\ UNCHANGED <<need, able, current, delegate, managerWill, stopped, pingVars>>

\* What MTTcpConnection makes of a payload: written when the socket is open,
\* refused when it is closed or about to be; before Opened a TCP socket keeps
\* the data and a WebSocket refuses it.
Accepted == socket = "open" /\ ~stopping
Refused == connection = 0 \/ socket = "closed" \/ stopping

\* The end of the transactionReady block, with the manager queue q.
Release(q) ==
    IF requestAnother
      THEN RequestTransactionFromDelegate(FALSE, didSendPing, FALSE, q)
      ELSE /\ isWaiting' = FALSE /\ mq' = q
           /\ UNCHANGED <<didSendPing, requestAnother>>

\* transactionReady with a payload.
TransactionReady ==
    /\ TransportHead("ready")
    /\ LET m == Head(tq).mid IN
       \/ /\ ~Refused
          /\ pongs' = {p \in pongs : Awaited(p)} \cup ({m} \ {0})
          /\ Release(Append(mq, Block("sent", 0, m)))
       \/ /\ ~Accepted
          /\ Release(Append(mq, Plain("failed")))
          /\ UNCHANGED pongs
    /\ tq' = Tail(tq)
    /\ UNCHANGED <<need, able, current, delegate, managerWill, transportWill, stopped,
                   pingVars, behaviourVars, connection, connected, valid, watchdog,
                   socket, stopping, started, excused>>

\* transactionReady with nothing to send.
NothingReady ==
    /\ TransportHead("readyNil")
    /\ Release(mq)
    /\ tq' = Tail(tq)
    /\ UNCHANGED <<need, able, current, delegate, managerWill, transportWill, stopped,
                   pingVars, behaviourVars, connectionVars>>

\* tcpConnectionOpened.
ConnectionOpened ==
    /\ TransportHead("opened")
    /\ IF Head(tq).conn = connection
         THEN /\ connected' = TRUE /\ valid' = FALSE
              /\ ping' = 0
              /\ RequestTransactionFromDelegate(isWaiting, FALSE, requestAnother, mq)
         ELSE UNCHANGED <<connected, valid, ping, lockVars, mq>>
    /\ tq' = Tail(tq)
    /\ UNCHANGED <<need, able, current, delegate, managerWill, transportWill, stopped,
                   pingTimer, behaviourVars, connection, watchdog, socket, stopping,
                   pongs, started, excused>>

\* tcpConnectionClosed.
ConnectionClosed ==
    /\ TransportHead("closed")
    /\ IF Head(tq).conn = connection
         THEN /\ connected' = FALSE /\ valid' = FALSE
              /\ BehaviourClosed
              /\ didSendPing' = FALSE /\ ping' = 0
              /\ mq' = IF delegate THEN Append(mq, Plain("failed")) ELSE mq
         ELSE UNCHANGED <<connectionVars, backoffCount, backoffTimer, didSendPing,
                          ping, mq>>
    /\ tq' = Tail(tq)
    /\ UNCHANGED <<need, able, current, delegate, managerWill, transportWill, stopped,
                   isWaiting, requestAnother, pingTimer, needsReconnection>>

\* Mutant of ReceivedData: the resend timer is not started.
ReceivedDataQuietly ==
    /\ TransportHead("data")
    /\ mq' = IF Head(tq).conn = connection /\ delegate THEN Append(mq, Head(tq)) ELSE mq
    /\ tq' = Tail(tq)
    /\ UNCHANGED <<need, able, current, delegate, managerWill, transportWill, stopped,
                   lockVars, pingVars, behaviourVars, connectionVars>>

\* tcpConnectionReceivedData.
ReceivedData ==
    /\ TransportHead("data")
    /\ IF Head(tq).conn = connection
         THEN /\ pingTimer' = (pingTimer \/ ping # 0)
              /\ mq' = IF delegate THEN Append(mq, Head(tq)) ELSE mq
         ELSE UNCHANGED <<pingTimer, mq>>
    /\ tq' = Tail(tq)
    /\ UNCHANGED <<need, able, current, delegate, managerWill, transportWill, stopped,
                   lockVars, ping, behaviourVars, connectionVars>>

\* connectionIsValid: the watchdog is stopped whichever connection it was.
ConnectionIsValid ==
    /\ TransportHead("valid")
    /\ IF connection # 0 /\ Head(tq).conn = connection
         THEN /\ valid' = TRUE
              /\ backoffCount' = 0 /\ backoffTimer' = FALSE
         ELSE UNCHANGED <<valid, backoffCount, backoffTimer>>
    /\ watchdog' = FALSE
    /\ excused' = TRUE
    /\ tq' = Tail(tq)
    /\ UNCHANGED <<managerVars, transportWill, stopped, lockVars, pingVars,
                   needsReconnection, connection, connected, socket, stopping, pongs,
                   started>>

\* A pong, messageDeliveryFailed or mtProtoServerDidChangeSession for the ping
\* mid, and mtProtoDidChangeSession for any.
PingSettled ==
    /\ \/ TransportHead("session")
       \/ TransportHead("settled")
    /\ IF Head(tq).kind = "session" \/ (ping # 0 /\ Head(tq).mid = ping)
         THEN pingTimer' = FALSE /\ ping' = 0
         ELSE UNCHANGED pingVars
    /\ tq' = Tail(tq)
    /\ UNCHANGED <<managerVars, transportWill, stopped, lockVars, behaviourVars,
                   connectionVars>>

\* The completion of the ping's transaction.
PingSent ==
    /\ TransportHead("pingSent")
    /\ ping' = Head(tq).mid
    /\ tq' = Tail(tq)
    /\ UNCHANGED <<managerVars, transportWill, stopped, lockVars, pingTimer,
                   behaviourVars, connectionVars>>

\* [connection stop], dispatched to tcpQueue.
StopConnection == stopping' = (stopping \/ (connection # 0 /\ socket # "closed"))

\* _networkAvailabilityChanged and reset; the network's loss is like a reset.
NetworkOrReset ==
    /\ \/ TransportHead("available") /\ backoffCount' = 0
       \/ TransportHead("reset") /\ UNCHANGED backoffCount
    /\ StopConnection
    /\ tq' = Tail(tq)
    /\ UNCHANGED <<managerVars, transportWill, stopped, lockVars, pingVars,
                   backoffTimer, needsReconnection, connection, connected, valid,
                   watchdog, socket, pongs, started, excused>>

\* stop: the connection loses its delegate before it is stopped.
TransportStop ==
    /\ TransportHead("stop")
    /\ stopped' = TRUE
    /\ mq' = IF delegate /\ connection # 0 THEN Append(mq, Plain("failed")) ELSE mq
    /\ connection' = 0 /\ connected' = FALSE /\ valid' = FALSE
    /\ needsReconnection' = FALSE
    /\ watchdog' = FALSE /\ pingTimer' = FALSE
    /\ socket' = "closed" /\ stopping' = FALSE /\ pongs' = {}
    /\ tq' = Tail(tq)
    /\ UNCHANGED <<need, able, current, delegate, managerWill, transportWill, lockVars,
                   ping, backoffCount, backoffTimer, started, excused>>

-----------------------------------------------------------------------------
(* Timers of tcpTransportQueue.                                            *)

\* The behaviour's timerEvent.
BackoffTimerEvent ==
    /\ backoffTimer
    /\ RequestsReconnection(connection)
    /\ UNCHANGED <<managerVars, tq, transportWill, stopped, lockVars, pingVars,
                   backoffCount, needsReconnection, connected, valid>>

\* resendActualizationPing.
ResendActualizationPing ==
    /\ pingTimer
    /\ pingTimer' = FALSE
    /\ IF ping # 0
         THEN /\ ping' = 0
              /\ RequestTransactionFromDelegate(isWaiting, FALSE, requestAnother, mq)
         ELSE UNCHANGED <<ping, lockVars, mq>>
    /\ UNCHANGED <<need, able, current, delegate, managerWill, tq, transportWill,
                   stopped, behaviourVars, connectionVars>>

\* connectionWatchdogTimeout: problems are reported to MTProto.
WatchdogTimeout ==
    /\ watchdog /\ "slow" \in Faults
    /\ watchdog' = FALSE
    /\ excused' = TRUE
    /\ UNCHANGED <<managerVars, tq, transportWill, stopped, lockVars, pingVars,
                   behaviourVars, connection, connected, valid, socket, stopping,
                   pongs, started>>

-----------------------------------------------------------------------------
(* tcpQueue and the network.                                               *)

SocketOpens ==
    /\ Room(MaxEvent)
    /\ connection # 0 /\ socket = "connecting" /\ ~stopping
    /\ socket' = "open"
    /\ tq' = Append(tq, Block("opened", connection, 0))
    /\ UNCHANGED <<managerVars, transportWill, stopped, lockVars, pingVars,
                   behaviourVars, connection, connected, valid, watchdog, stopping,
                   pongs, started, excused>>

\* closeAndNotify: an error, a timeout or the connection's stop.
SocketCloses ==
    /\ Room(MaxEvent)
    /\ connection # 0 /\ socket # "closed"
    /\ socket' = "closed" /\ stopping' = FALSE /\ pongs' = {}
    /\ tq' = Append(tq, Block("closed", connection, 0))
    /\ UNCHANGED <<managerVars, transportWill, stopped, lockVars, pingVars,
                   behaviourVars, connection, connected, valid, watchdog, started, excused>>

\* A packet: the answer to the ping m, or anything else.
SocketReads(m) ==
    /\ Room(MaxQueue)
    /\ socket = "open" /\ m \in pongs \cup {0}
    /\ pongs' = pongs \ {m}
    /\ tq' = Append(tq, Block("data", connection, m))
    /\ UNCHANGED <<managerVars, transportWill, stopped, lockVars, pingVars,
                   behaviourVars, connection, connected, valid, watchdog, socket,
                   stopping, started, excused>>

\* MTNetworkAvailability reports a change.
NetworkChanges(kind) ==
    /\ Room(MaxQueue) /\ "network" \in Faults
    /\ tq' = Append(tq, Plain(kind))
    /\ UNCHANGED <<managerVars, transportWill, stopped, lockVars, pingVars,
                   behaviourVars, connectionVars>>

-----------------------------------------------------------------------------
ManagerStep == \/ ManagerPass \/ ReadyForTransaction \/ IncomingData
               \/ PayloadSent \/ PayloadFailed

TransportStep == \/ NeedsTransaction \/ TransportPass \/ TransactionReady \/ NothingReady
                 \/ ConnectionOpened \/ ConnectionClosed \/ ReceivedData
                 \/ ConnectionIsValid \/ PingSettled \/ PingSent
                 \/ NetworkOrReset \/ TransportStop

TimerStep == BackoffTimerEvent \/ ResendActualizationPing \/ WatchdogTimeout

Next ==
    \/ RequestTransportTransaction \/ Suspend \/ Resume \/ RequestSecureTransportReset
    \/ \E clear, session \in BOOLEAN : StopTransport(clear, session)
    \/ ManagerStep \/ TransportStep \/ TimerStep
    \/ SocketOpens \/ SocketCloses
    \/ \E m \in 0..MaxPing : SocketReads(m)
    \/ \E kind \in {"available", "reset"} : NetworkChanges(kind)

Spec == Init /\ [][Next]_vars

\* The queues are served, timers fire, and a connection that was told to stop
\* closes.  Of the network it is assumed that an attempt to connect succeeds
\* now and then and that an open connection brings some data now and then; of
\* the services that what suspends them ends.
Fairness ==
    /\ WF_vars(ManagerStep) /\ WF_vars(TransportStep)
    /\ WF_vars(BackoffTimerEvent) /\ WF_vars(ResendActualizationPing)
    /\ SF_vars(Resume)
    /\ SF_vars(SocketOpens) /\ SF_vars(stopping /\ SocketCloses)
    /\ SF_vars(\E m \in 0..MaxPing : SocketReads(m))

FairSpec == Spec /\ Fairness

-----------------------------------------------------------------------------
(* Safety.                                                                 *)

\* The lock of _requestTransactionFromDelegate is never leaked: while it is
\* held, a block that ends in releasing it is on one of the two queues; and as
\* long as there is a delegate, a skipped request is noted only while it is held.
LockIsReleased ==
    /\ isWaiting => On(mq, {"build", "buildPing"}) \/ On(tq, {"ready", "readyNil"})
    /\ requestAnother /\ delegate => isWaiting

\* Something will ask the manager for a transaction, or has.
Awake ==
    \/ On(mq, {"pass", "build", "buildPing"})
    \/ On(tq, {"needs", "pass"})
    \/ requestAnother
    \/ ~connected /\ (connection # 0 \/ backoffTimer)

\* No lost wakeup: as long as the transport is in use and services may send,
\* what a service asked to send is not forgotten between the two queues, the
\* lock, a reconnection and the backoff.
NoLostWakeup == need /\ able /\ current => Awake

\* From the first start to stop there is either a connection or a running
\* backoff timer, never both and never neither.
ReconnectionIsComing ==
    started /\ ~stopped => (backoffTimer <=> connection = 0)

\* A stopped transport has no connection, whatever timers and blocks outlive it.
StoppedIsClosed == stopped => connection = 0 /\ ~connected /\ ~watchdog

\* A connection that has shown nothing valid is watched, unless the watchdog
\* has reported it or data of some connection was decoded in its time.
AttemptIsWatched == connection # 0 /\ ~valid => watchdog \/ excused

-----------------------------------------------------------------------------
(* Liveness.                                                               *)

\* What a service asks to send is built into a transaction, across any number
\* of reconnections, unless services are suspended or the transport is given up
\* meanwhile.
NeedIsBuilt == need ~> ~need \/ ~able \/ ~current

\* The state "updating" that an unanswered ping stands for does not last: the
\* ping is answered, sent again, or given up with its connection or transport.
UpdatingEnds == ping # 0 ~> ping = 0 \/ ~current

=============================================================================
