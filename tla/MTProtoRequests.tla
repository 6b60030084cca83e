--------------------------- MODULE MTProtoRequests ---------------------------
(***************************************************************************)
(* The life of an RPC request in MTProtoKit: MTRequestMessageService (the  *)
(* list of requests and of dropped answers), the parts of MTProto that     *)
(* build transactions and dispatch incoming messages, the message ids and  *)
(* containers of MTSessionInfo, and MTTcpTransport as these three see it.  *)
(*                                                                         *)
(* Three serial dispatch queues take part.  Every handler on the manager   *)
(* queue is one action.  tcpTransportQueue runs concurrently with it and   *)
(* is modelled as the sequence tq: the payloads of a transaction, the data *)
(* and the close of a connection (dispatched from tcpQueue) and the stop   *)
(* of a replaced transport wait in it for their turn, and any manager      *)
(* handler may run meanwhile.  What an item of tq sends on to the manager  *)
(* queue is handled there in that order, so the action that takes the item *)
(* from tq includes the manager's handler.                                 *)
(*                                                                         *)
(* A request context with mid = 0 is the code's requestContext == nil, and *)
(* a transaction id is the internal id of a connection (0 is nil).         *)
(***************************************************************************)
EXTENDS Naturals, Sequences, FiniteSets

CONSTANTS
    NumRequests,    \* requests 1..NumRequests, numbered in the order they are added
    MaxMessageId,   \* bound on the message ids the clock hands out
    MaxConnection,  \* bound on the TCP connections opened
    MaxReplacement, \* bound on the transports resetTransport replaces
    MaxFailure,     \* bound on the messages and sessions the server rejects
    MaxRestart,     \* bound on the errors that restart a request
    MaxQueue        \* bound on the items of tq when data comes in

ASSUME RequestsAssumption == NumRequests \in Nat \ {0}
ASSUME MessageIdAssumption == MaxMessageId \in Nat \ {0}
ASSUME ConnectionAssumption == MaxConnection \in Nat \ {0}
ASSUME BoundsAssumption ==
    /\ MaxReplacement \in Nat /\ MaxQueue \in Nat
    /\ MaxFailure \in Nat /\ MaxRestart \in Nat

Requests == 1..NumRequests
MessageId == 1..MaxMessageId
Connection == 1..MaxConnection

VARIABLES
    status,       \* where each request is: "new", in _requests ("live"), "completed" or "removed"
    context,      \* request.requestContext
    held,         \* request.errorContext forbids execution for now
    dropping,     \* dropMessageId of every MTDropResponseContext
    dropId,       \* messageId of the drop context for an id (0: not sent)
    session,      \* number of the current MTSessionInfo
    lastId,       \* the last message id generated
    containers,   \* containerMessagesMappingDict: children of a container id
    processed,    \* processedMessageIdsSet, by the message that is answered
    suspended,    \* canAskForTransactions is false: time fix and salts awaited
    wanted,       \* a transaction has been requested and not yet built
    tq,           \* what is dispatched to tcpTransportQueue, oldest first
    replaced,     \* transports replaced so far
    base,         \* the last connection that belongs to a replaced transport
    conn,         \* transportContext.connection (0: nil)
    connected,    \* transportContext.connectionConnected
    alive,        \* the connection's socket is not closed
    lastConn,     \* the last connection created
    sent,         \* messages written to a connection, by session and id
    executed,     \* messages the server executed, and whether the result is final
    failures,     \* messages and sessions the server rejected so far
    owner,        \* history: the request each message id was issued for
    retired,      \* history: ids the client gave up or lost track of
    answer        \* history: the id whose result was passed to the completed block

requestVars == <<status, context, held, dropping, dropId>>
sessionVars == <<session, lastId, containers, processed>>
managerVars == <<suspended, wanted>>
transportVars == <<replaced, base, conn, connected, alive, lastConn>>
serverVars == <<sent, executed, failures>>
historyVars == <<owner, retired, answer>>
vars == <<requestVars, sessionVars, managerVars, tq, transportVars, serverVars,
          historyVars>>

Nil == [mid |-> 0, waiting |-> FALSE, delivered |-> FALSE, trans |-> 0]

Context == [mid : 0..MaxMessageId, waiting : BOOLEAN, delivered : BOOLEAN,
            trans : 0..MaxConnection]

\* One MTTransportTransaction: the requests of the whole transaction (the
\* completion block runs over all of them), and the ids it carries itself.
Payload == [kind : {"payload"}, session : Nat, all : SUBSET Requests,
            ids : [Requests -> 0..MaxMessageId],
            drops : [MessageId -> 0..MaxMessageId]]

\* A message of the server: the result of mid, an error for mid that restarts
\* the request, an acknowledgement of mid, a notification that mid was not
\* accepted (one that starts a time sync, one that also replaces the session,
\* one that does neither), new_session_created with first id mid, the answer
\* to the rpc_drop_answer mid, data that cannot be parsed or is of another
\* session, and data that cannot be decrypted or is a protocol error.
Answer == {"result", "restart", "ack", "dropAnswer"}
Rejection == {"badSalt", "badSequence", "badOther"}
Loss == {"newSession", "unparsable", "undecryptable"}
MessageType == Answer \cup Rejection \cup Loss

Data == [kind : {"data"}, type : MessageType, mid : MessageId]
Closed == [kind : {"closed"}, conn : 0..MaxConnection]
Stop == [kind |-> "stop"]
Reset == [kind |-> "reset"]
Item == Payload \cup Data \cup Closed \cup {Stop, Reset}

-----------------------------------------------------------------------------
Live(r) == status[r] = "live"

\* Mutant of Eligible: a request with a context is never sent again.
EligibleOnce(r) == Live(r) /\ ~held[r] /\ context[r].mid = 0

\* mtProtoMessageTransaction: the requests that a transaction takes up.
Eligible(r) ==
    /\ Live(r) /\ ~held[r]
    /\ \/ context[r].mid = 0
       \/ ~context[r].waiting /\ ~context[r].delivered /\ context[r].trans = 0

\* Mutant of ForgetTransaction: the wrong field is cleared.
ForgetDelivery(c) == [c EXCEPT !.delivered = FALSE]

\* mtProtoAllTransactionsMayHaveFailed, on one context.
ForgetTransaction(c) == [c EXCEPT !.trans = 0]

\* A replaced transport's stop is still to be executed.
Stopping == \E i \in 1..Len(tq) : tq[i].kind = "stop"

Init ==
    /\ status = [r \in Requests |-> "new"]
    /\ context = [r \in Requests |-> Nil]
    /\ held = [r \in Requests |-> FALSE]
    /\ dropping = {}
    /\ dropId = [m \in MessageId |-> 0]
    /\ session = 1 /\ lastId = 0
    /\ containers = [m \in MessageId |-> {}]
    /\ processed = {}
    /\ suspended = FALSE /\ wanted = FALSE
    /\ tq = <<>>
    /\ replaced = 0 /\ base = 0
    /\ conn = 0 /\ connected = FALSE /\ alive = FALSE /\ lastConn = 0
    /\ sent = {} /\ executed = {} /\ failures = 0
    /\ owner = [m \in MessageId |-> 0]
    /\ retired = {}
    /\ answer = [r \in Requests |-> 0]

-----------------------------------------------------------------------------
(* The application's calls, and the end of a request's waiting time.       *)

AddRequest(r) ==
    /\ status[r] = "new"
    /\ \A q \in Requests : q < r => status[q] # "new"
    /\ status' = [status EXCEPT ![r] = "live"]
    /\ wanted' = TRUE
    /\ UNCHANGED <<context, held, dropping, dropId, sessionVars, suspended, tq,
                   transportVars, serverVars, historyVars>>

\* ask is askForReconnectionOnDrop: the transport's reset is dispatched.
RemoveRequest(r, ask) ==
    /\ Live(r)
    /\ status' = [status EXCEPT ![r] = "removed"]
    /\ context' = [context EXCEPT ![r] = Nil]
    /\ IF context[r].mid # 0
         THEN /\ dropping' = dropping \cup {context[r].mid}
              /\ dropId' = [dropId EXCEPT ![context[r].mid] = 0]
              /\ retired' = retired \cup {context[r].mid}
              /\ wanted' = TRUE
              /\ tq' = IF ask THEN Append(tq, Reset) ELSE tq
         ELSE UNCHANGED <<dropping, dropId, retired, wanted, tq>>
    /\ UNCHANGED <<held, sessionVars, suspended, transportVars, serverVars, owner, answer>>

\* requestTimerEvent when minimalExecuteTime has passed, and
\* mtProtoAuthTokenUpdated when the exported token has come.
ReleaseRequest(r) ==
    /\ held[r]
    /\ held' = [held EXCEPT ![r] = FALSE]
    /\ wanted' = TRUE
    /\ UNCHANGED <<status, context, dropping, dropId, sessionVars, suspended, tq,
                   transportVars, serverVars, historyVars>>

-----------------------------------------------------------------------------
(* Replacing the transport and the session.                                *)

\* resetTransport, with q left in tcpTransportQueue: the old transport loses
\* its delegate and its stop is dispatched behind q.
ReplaceTransport(q) ==
    /\ replaced' = replaced + 1
    /\ base' = lastConn
    /\ tq' = Append(q, Stop)
    /\ wanted' = TRUE
    /\ UNCHANGED <<conn, connected, alive, lastConn>>

\* resetSessionInfo: mtProtoDidChangeSession, then resetTransport.
NewSession(q) ==
    /\ session' = session + 1
    /\ containers' = [m \in MessageId |-> {}]
    /\ processed' = {}
    /\ context' = [r \in Requests |-> Nil]
    /\ dropping' = {}
    /\ dropId' = [m \in MessageId |-> 0]
    /\ retired' = retired \cup ({context[r].mid : r \in Requests} \ {0})
    /\ ReplaceTransport(q)
    /\ UNCHANGED <<status, held, lastId, owner, answer>>

\* The transport scheme, the proxy or the API environment changed.  setTransport
\* reports every transaction the services know of as failed.
ResetTransport ==
    /\ replaced < MaxReplacement
    /\ context' = [r \in Requests |-> ForgetTransaction(context[r])]
    /\ ReplaceTransport(tq)
    /\ UNCHANGED <<status, held, dropping, dropId, sessionVars, suspended, serverVars,
                   historyVars>>

-----------------------------------------------------------------------------
(* transportReadyForTransaction: building a transaction.                   *)

EligibleRequests == {r \in Requests : Eligible(r)}

\* Mutant of NewRequests: what is sent again gets a new id.
EveryEligible == EligibleRequests

NewRequests == {r \in EligibleRequests : context[r].mid = 0}
NewDrops == {m \in dropping : dropId[m] = 0}

\* Mutant of Rank: an id is skipped that lastId does not account for.
RankFromTwo(x, S) == Cardinality({y \in S : y <= x}) + 1

\* generateClientMessageId, for the i-th message without an id of a
\* transaction: requests in list order, then drop contexts.
Rank(x, S) == Cardinality({y \in S : y <= x})

RequestId(r) ==
    IF r \in NewRequests THEN lastId + Rank(r, NewRequests) ELSE context[r].mid

DropMessageId(m) ==
    IF m \in NewDrops THEN lastId + Cardinality(NewRequests) + Rank(m, NewDrops)
    ELSE dropId[m]

PreparedId == lastId + Cardinality(NewRequests) + Cardinality(NewDrops)

\* The payload that carries the requests A and the drop contexts B.
PayloadOf(A, B) ==
    [kind |-> "payload",
     session |-> session,
     all |-> EligibleRequests,
     ids |-> [r \in Requests |-> IF r \in A THEN RequestId(r) ELSE 0],
     drops |-> [m \in MessageId |-> IF m \in B THEN DropMessageId(m) ELSE 0]]

\* The children recorded for a container: those that require confirmation,
\* which an rpc_drop_answer does not.
ChildIds(A) == {RequestId(r) : r \in A}

\* Two or more messages travel in a container, which takes an id of its own.
Containers(A, B) == IF Cardinality(A) + Cardinality(B) > 1 THEN 1 ELSE 0

\* The contexts after the prepared block: waiting is waitingForMessageId.
PreparedContext(waiting) ==
    [r \in Requests |->
       IF Eligible(r)
         THEN [mid |-> RequestId(r), waiting |-> waiting, delivered |-> FALSE, trans |-> 0]
         ELSE context[r]]

PreparedOwner ==
    [m \in MessageId |->
       IF \E r \in NewRequests : RequestId(r) = m
         THEN CHOOSE r \in NewRequests : RequestId(r) = m
         ELSE owner[m]]

CanBuild == wanted /\ connected /\ ~suspended /\ ~Stopping

\* The messages are split by size and priority into at most two payloads:
\* (A, B) and the rest, each of which may be empty.
BuildTransaction(A, B) ==
    LET A2 == EligibleRequests \ A
        B2 == dropping \ B
        C1 == PreparedId + Containers(A, B)
        C2 == C1 + Containers(A2, B2)
    IN  /\ CanBuild
        /\ A \cup B = {} => A2 \cup B2 = {}
        /\ C2 <= MaxMessageId
        /\ wanted' = FALSE
        /\ lastId' = C2
        /\ context' = PreparedContext(TRUE)
        /\ owner' = PreparedOwner
        /\ containers' = [m \in MessageId |->
                            IF m = C1 /\ C1 > PreparedId THEN ChildIds(A)
                            ELSE IF m = C2 /\ C2 > C1 THEN ChildIds(A2)
                            ELSE containers[m]]
        /\ tq' = tq \o (IF A \cup B = {} THEN <<>> ELSE <<PayloadOf(A, B)>>)
                    \o (IF A2 \cup B2 = {} THEN <<>> ELSE <<PayloadOf(A2, B2)>>)
        /\ UNCHANGED <<status, held, dropping, dropId, session, processed, suspended,
                       transportVars, serverVars, retired, answer>>

\* No salt is valid: the prepared messages keep their ids, nothing is sent,
\* and the time is synchronised first.
BuildWithoutSalt ==
    /\ CanBuild
    /\ PreparedId <= MaxMessageId
    /\ suspended' = TRUE
    /\ wanted' = FALSE
    /\ lastId' = PreparedId
    /\ context' = PreparedContext(FALSE)
    /\ owner' = PreparedOwner
    /\ UNCHANGED <<status, held, dropping, dropId, session, containers, processed, tq,
                   transportVars, serverVars, retired, answer>>

\* The clock went back: the session is replaced, nothing is sent.
BuildMonotonityViolated ==
    /\ CanBuild /\ replaced < MaxReplacement
    /\ NewRequests \cup NewDrops # {}
    /\ NewSession(tq)
    /\ UNCHANGED <<suspended, serverVars>>

\* While the time fix is awaited a transaction carries only its ping.
BuildTimeFix ==
    /\ wanted /\ connected /\ suspended /\ ~Stopping
    /\ wanted' = FALSE
    /\ UNCHANGED <<requestVars, sessionVars, suspended, tq, transportVars, serverVars,
                   historyVars>>

\* completeTimeSync and timeSyncInfoChanged.
CompleteTimeSync ==
    /\ suspended
    /\ suspended' = FALSE
    /\ wanted' = TRUE
    /\ UNCHANGED <<requestVars, sessionVars, tq, transportVars, serverVars, historyVars>>

-----------------------------------------------------------------------------
(* tcpTransportQueue: handing payloads over, and the life of a connection. *)

NextItem(kind) == tq # <<>> /\ Head(tq).kind = kind

\* Mutant of Completed: waitingForMessageId is cleared only for what was sent.
CompletedIfSent(c, i, t) ==
    IF i # 0 THEN [mid |-> i, waiting |-> FALSE, delivered |-> FALSE, trans |-> t] ELSE c

\* The completion block of a transaction, for one of its requests: i is the
\* id the payload carries for it (0: another payload does, or none was
\* accepted), t the connection that took it.
Completed(c, i, t) ==
    IF i # 0 THEN [mid |-> i, waiting |-> FALSE, delivered |-> FALSE, trans |-> t]
    ELSE [c EXCEPT !.waiting = FALSE]

\* The ids that the completion block of the payload p overwrites: the request
\* got another id after p was built, and the block puts the old one back.
Displaced(p) ==
    {context[r].mid : r \in {q \in Requests :
        Live(q) /\ q \in p.all /\ p.ids[q] \notin {0, context[q].mid}}} \ {0}

SendPayload ==
    /\ NextItem("payload") /\ alive
    /\ LET p == Head(tq)
       IN  /\ context' = [r \in Requests |->
                            IF Live(r) /\ r \in p.all
                              THEN Completed(context[r], p.ids[r], conn)
                              ELSE context[r]]
           /\ dropId' = [m \in MessageId |->
                           IF m \in dropping /\ p.drops[m] # 0 THEN p.drops[m] ELSE dropId[m]]
           /\ sent' = sent \cup {[c |-> conn, s |-> p.session, mid |-> p.ids[r]] :
                                   r \in {q \in Requests : p.ids[q] # 0}}
           /\ retired' = retired \cup Displaced(p)
    /\ tq' = Tail(tq)
    /\ UNCHANGED <<status, held, dropping, sessionVars, managerVars, transportVars,
                   executed, failures, owner, answer>>

\* No connection, or one whose socket is closed: completion(false, ...).
RefusePayload ==
    /\ NextItem("payload") /\ ~alive
    /\ context' = [r \in Requests |->
                     IF Live(r) /\ r \in Head(tq).all
                       THEN Completed(context[r], 0, 0)
                       ELSE context[r]]
    /\ tq' = Tail(tq)
    /\ UNCHANGED <<status, held, dropping, dropId, sessionVars, managerVars, transportVars,
                   serverVars, historyVars>>

\* stop of a replaced transport.
StopTransport ==
    /\ NextItem("stop")
    /\ tq' = Tail(tq)
    /\ conn' = 0 /\ connected' = FALSE /\ alive' = FALSE
    /\ UNCHANGED <<requestVars, sessionVars, managerVars, replaced, base, lastConn,
                   serverVars, historyVars>>

\* requestConnection for a transport that never had a connection, the
\* connection behaviour's reconnection for one that had.
StartConnection ==
    /\ conn = 0 /\ ~Stopping
    /\ wanted \/ lastConn > base
    /\ lastConn < MaxConnection
    /\ lastConn' = lastConn + 1
    /\ conn' = lastConn + 1
    /\ alive' = TRUE
    /\ UNCHANGED <<requestVars, sessionVars, managerVars, tq, replaced, base, connected,
                   serverVars, historyVars>>

\* tcpConnectionOpened, behind whatever was dispatched before.
OpenConnection ==
    /\ conn # 0 /\ alive /\ ~connected
    /\ tq = <<>>
    /\ connected' = TRUE
    /\ wanted' = TRUE
    /\ UNCHANGED <<requestVars, sessionVars, suspended, tq, replaced, base, conn, alive,
                   lastConn, serverVars, historyVars>>

\* closeAndNotify on tcpQueue, with q left in tcpTransportQueue.
CloseAndNotify(q) ==
    /\ alive' = FALSE
    /\ tq' = Append(q, [kind |-> "closed", conn |-> conn])

\* The peer, the network or a response timeout closes the socket.  The last
\* connection of the bound stays up.
CloseSocket ==
    /\ alive /\ lastConn < MaxConnection
    /\ CloseAndNotify(tq)
    /\ UNCHANGED <<requestVars, sessionVars, managerVars, replaced, base, conn, connected,
                   lastConn, serverVars, historyVars>>

\* reset of the transport stops the connection it has now, if any.
ResetConnection ==
    /\ NextItem("reset")
    /\ IF alive /\ lastConn < MaxConnection
         THEN CloseAndNotify(Tail(tq))
         ELSE alive' = alive /\ tq' = Tail(tq)
    /\ UNCHANGED <<requestVars, sessionVars, managerVars, replaced, base, conn, connected,
                   lastConn, serverVars, historyVars>>

\* transactionsMayHaveFailed for the connection c.
TransactionsMayHaveFailed(c) ==
    /\ context' = [r \in Requests |->
                     IF context[r].trans = c THEN ForgetTransaction(context[r])
                     ELSE context[r]]
    /\ wanted' = (wanted \/ \E r \in Requests : context[r].trans = c)

\* tcpConnectionClosed and transactionsMayHaveFailed.  A replaced transport
\* has no delegate any more, and a stopped one no connection.
CloseConnection ==
    /\ NextItem("closed")
    /\ tq' = Tail(tq)
    /\ IF Head(tq).conn = conn
         THEN conn' = 0 /\ connected' = FALSE
         ELSE UNCHANGED <<conn, connected>>
    /\ IF Head(tq).conn = conn /\ ~Stopping
         THEN TransactionsMayHaveFailed(conn)
         ELSE UNCHANGED <<context, wanted>>
    /\ UNCHANGED <<status, held, dropping, dropId, sessionVars, suspended, replaced, base,
                   alive, lastConn, serverVars, historyVars>>

-----------------------------------------------------------------------------
(* The server, as the client's code takes it to behave.                    *)

\* The ids of this session that reached a connection.
SentIds == {x.mid : x \in {y \in sent : y.s = session}}

\* The result of the message m, sent in this session.
Result(m, final) == [s |-> session, mid |-> m, final |-> final]

\* A message id is executed once in a session.
ServerExecute(x, final) ==
    /\ x \in sent
    /\ \A e \in executed : e.s = x.s => e.mid # x.mid
    /\ final \/ Cardinality({e \in executed : ~e.final}) < MaxRestart
    /\ executed' = executed \cup {[s |-> x.s, mid |-> x.mid, final |-> final]}
    /\ UNCHANGED <<requestVars, sessionVars, managerVars, tq, transportVars, sent,
                   failures, historyVars>>

\* The ids that a notification about m is about.
FailedIds(m) == {m} \cup containers[m]

\* Data arrives on tcpQueue and is dispatched to tcpTransportQueue.
CanDeliver == connected /\ alive /\ ~Stopping /\ Len(tq) < MaxQueue

Deliver(type, m) == tq' = Append(tq, [kind |-> "data", type |-> type, mid |-> m])

Answerable(type, m) ==
    CASE type = "result" -> Result(m, TRUE) \in executed
      [] type = "restart" -> Result(m, FALSE) \in executed
      [] type = "ack" -> Result(m, TRUE) \in executed \/ Result(m, FALSE) \in executed
      [] type = "dropAnswer" -> \E d \in dropping : dropId[d] = m

\* An answer may come again.
ServerAnswer(type, m) ==
    /\ CanDeliver
    /\ Answerable(type, m)
    /\ Deliver(type, m)
    /\ UNCHANGED <<requestVars, sessionVars, managerVars, transportVars, serverVars,
                   historyVars>>

\* bad_msg_notification or bad_server_salt for the message or container m: the
\* copies that have come so far are not executed.
ServerReject(type, m) ==
    LET Copies == {x \in sent : x.s = session /\ x.mid \in FailedIds(m)}
    IN  /\ CanDeliver
        /\ Copies # {} \/ \E d \in dropping : dropId[d] = m
        /\ failures < MaxFailure
        /\ \A e \in executed : e.s = session => e.mid \notin FailedIds(m)
        /\ type = "badSequence" => replaced < MaxReplacement
        /\ Deliver(type, m)
        /\ sent' = sent \ Copies
        /\ failures' = failures + 1
        /\ UNCHANGED <<requestVars, sessionVars, managerVars, transportVars, executed,
                       historyVars>>

\* new_session_created, and data that does not fit the session or the key.
ServerLoses(type, m) ==
    /\ CanDeliver
    /\ failures < MaxFailure
    /\ \/ type = "newSession" /\ m \in SentIds
       \/ type = "unparsable" /\ m = 1 /\ replaced < MaxReplacement
       \/ type = "undecryptable" /\ m = 1
    /\ Deliver(type, m)
    /\ failures' = failures + 1
    /\ UNCHANGED <<requestVars, sessionVars, managerVars, transportVars, sent, executed,
                   historyVars>>

-----------------------------------------------------------------------------
(* transportHasIncomingData and _processIncomingMessage.                   *)

\* _transport != transport: the data is dropped.
IgnoreData ==
    /\ NextItem("data") /\ Stopping
    /\ tq' = Tail(tq)
    /\ UNCHANGED <<requestVars, sessionVars, managerVars, transportVars, serverVars,
                   historyVars>>

Receive(type) ==
    /\ NextItem("data") /\ ~Stopping
    /\ Head(tq).type = type

\* Mutant of Matches: the id is not compared.
MatchesAny(r, m) == Live(r) /\ context[r].mid # 0 /\ m # 0

Matches(r, m) == Live(r) /\ context[r].mid = m

\* A duplicate changes nothing; it is only acknowledged again.
ReceiveDuplicate ==
    /\ Receive("result") \/ Receive("restart")
    /\ Head(tq).mid \in processed
    /\ tq' = Tail(tq)
    /\ UNCHANGED <<requestVars, sessionVars, managerVars, transportVars, serverVars,
                   historyVars>>

\* receivedMessage: a result, or an error that ends the request.
ReceiveResult ==
    LET m == Head(tq).mid
    IN  /\ Receive("result") /\ m \notin processed
        /\ processed' = processed \cup {m}
        /\ status' = [r \in Requests |-> IF Matches(r, m) THEN "completed" ELSE status[r]]
        /\ context' = [r \in Requests |-> IF Matches(r, m) THEN Nil ELSE context[r]]
        /\ answer' = [r \in Requests |-> IF Matches(r, m) THEN m ELSE answer[r]]
        /\ tq' = Tail(tq)
        /\ UNCHANGED <<held, dropping, dropId, session, lastId, containers, managerVars,
                       transportVars, serverVars, owner, retired>>

\* receivedMessage: an error after which the request is executed again (500,
\* FLOOD_WAIT, a revoked authorization), once its error context allows it.
ReceiveRestart ==
    LET m == Head(tq).mid
    IN  /\ Receive("restart") /\ m \notin processed
        /\ processed' = processed \cup {m}
        /\ held' = [r \in Requests |-> held[r] \/ Matches(r, m)]
        /\ context' = [r \in Requests |-> IF Matches(r, m) THEN Nil ELSE context[r]]
        /\ retired' = retired \cup {m}
        /\ tq' = Tail(tq)
        /\ UNCHANGED <<status, dropping, dropId, session, lastId, containers, managerVars,
                       transportVars, serverVars, owner, answer>>

\* messageDeliveryConfirmed.
ReceiveAck ==
    /\ Receive("ack")
    /\ context' = [r \in Requests |->
                     IF Matches(r, Head(tq).mid) THEN [context[r] EXCEPT !.delivered = TRUE]
                     ELSE context[r]]
    /\ tq' = Tail(tq)
    /\ UNCHANGED <<status, held, dropping, dropId, sessionVars, managerVars, transportVars,
                   serverVars, historyVars>>

\* messageDeliveryFailed for the id and, if it is a container's, for its
\* children.  A wrong salt, a wrong time and code 48 also start the time sync.
ReceiveBadMessage ==
    LET F == FailedIds(Head(tq).mid)
    IN  /\ Receive("badSalt") \/ Receive("badOther")
        /\ context' = [r \in Requests |->
                         IF context[r].mid \in F THEN Nil ELSE context[r]]
        /\ dropId' = [d \in MessageId |-> IF dropId[d] \in F THEN 0 ELSE dropId[d]]
        /\ retired' = retired \cup F
        /\ suspended' = (suspended \/ Head(tq).type = "badSalt")
        /\ wanted' = TRUE
        /\ tq' = Tail(tq)
        /\ UNCHANGED <<status, held, dropping, sessionVars, transportVars, serverVars,
                       owner, answer>>

\* Codes 32 and 33: the session is replaced, then the time sync starts.
ReceiveBadSequence ==
    /\ Receive("badSequence")
    /\ NewSession(Tail(tq))
    /\ suspended' = TRUE
    /\ UNCHANGED serverVars

\* Data that cannot be parsed, or is of another session.
ReceiveUnparsable ==
    /\ Receive("unparsable")
    /\ NewSession(Tail(tq))
    /\ UNCHANGED <<suspended, serverVars>>

\* Data that cannot be decrypted, or a protocol error: what was sent on the
\* connection may be lost, and the transport is reset.
ReceiveUndecryptable ==
    /\ Receive("undecryptable")
    /\ TransactionsMayHaveFailed(conn)
    /\ tq' = Append(Tail(tq), Reset)
    /\ UNCHANGED <<status, held, dropping, dropId, sessionVars, suspended, transportVars,
                   serverVars, historyVars>>

\* messageIdsInContainersAfterMessageId.
OtherValidIds(first) ==
    UNION {{i \in containers[m] : m >= first \/ i >= first} : m \in MessageId}

\* mtProtoServerDidChangeSession: the server knows nothing sent before first.
ReceiveNewSession ==
    LET first == Head(tq).mid
        Lost(r) == /\ context[r].mid # 0 /\ context[r].mid < first
                   /\ context[r].mid \notin OtherValidIds(first)
    IN  /\ Receive("newSession")
        /\ context' = [r \in Requests |-> IF Lost(r) THEN Nil ELSE context[r]]
        /\ retired' = retired \cup {context[r].mid : r \in {q \in Requests : Lost(q)}}
        /\ wanted' = (wanted \/ \E r \in Requests : Lost(r))
        /\ tq' = Tail(tq)
        /\ UNCHANGED <<status, held, dropping, dropId, sessionVars, suspended,
                       transportVars, serverVars, owner, answer>>

\* receivedMessage: the answer to an rpc_drop_answer.
ReceiveDropAnswer ==
    /\ Receive("dropAnswer")
    /\ dropping' = {d \in dropping : dropId[d] # Head(tq).mid}
    /\ tq' = Tail(tq)
    /\ UNCHANGED <<status, context, held, dropId, sessionVars, managerVars, transportVars,
                   serverVars, historyVars>>

-----------------------------------------------------------------------------
RequestStep ==
    \E r \in Requests :
        \/ AddRequest(r) \/ ReleaseRequest(r)
        \/ \E ask \in BOOLEAN : RemoveRequest(r, ask)

BuildStep ==
    \/ \E A \in SUBSET EligibleRequests, B \in SUBSET dropping : BuildTransaction(A, B)
    \/ BuildWithoutSalt \/ BuildMonotonityViolated
    \/ BuildTimeFix \/ CompleteTimeSync

TransportStep ==
    \/ SendPayload \/ RefusePayload \/ StopTransport \/ ResetConnection
    \/ StartConnection \/ OpenConnection \/ CloseSocket \/ CloseConnection
    \/ ResetTransport

ServerStep ==
    \/ \E x \in sent, final \in BOOLEAN : ServerExecute(x, final)
    \/ \E type \in Answer, m \in MessageId : ServerAnswer(type, m)
    \/ \E type \in Rejection, m \in MessageId : ServerReject(type, m)
    \/ \E type \in Loss, m \in MessageId : ServerLoses(type, m)

ReceiveStep ==
    \/ IgnoreData \/ ReceiveDuplicate \/ ReceiveResult \/ ReceiveRestart \/ ReceiveAck
    \/ ReceiveBadMessage \/ ReceiveBadSequence \/ ReceiveUnparsable
    \/ ReceiveUndecryptable \/ ReceiveNewSession \/ ReceiveDropAnswer

Next == RequestStep \/ BuildStep \/ TransportStep \/ ServerStep \/ ReceiveStep

Spec == Init /\ [][Next]_vars

\* The dispatch queues are served; a live connection is opened, and a lost one
\* made again; salts are valid after a time sync.  The server executes what
\* reaches it on the present connection, and sends a result until it is taken
\* (strongly fair: tq may be full of repeated data).
Fairness ==
    /\ WF_vars(SendPayload \/ RefusePayload \/ StopTransport \/ ResetConnection
                 \/ CloseConnection \/ ReceiveStep)
    /\ WF_vars(StartConnection) /\ WF_vars(OpenConnection)
    /\ WF_vars(CompleteTimeSync)
    /\ SF_vars(\E A \in SUBSET EligibleRequests, B \in SUBSET dropping :
                  BuildTransaction(A, B))
    /\ \A m \in MessageId :
          /\ WF_vars(\E x \in sent : x.mid = m /\ x.c = conn /\ ServerExecute(x, TRUE))
          /\ SF_vars(ServerAnswer("result", m))

FairSpec == Spec /\ Fairness

-----------------------------------------------------------------------------
RequestsOK ==
    /\ status \in [Requests -> {"new", "live", "completed", "removed"}]
    /\ context \in [Requests -> Context]
    /\ held \in [Requests -> BOOLEAN]
    /\ dropping \in SUBSET MessageId
    /\ dropId \in [MessageId -> 0..MaxMessageId]

SessionOK ==
    /\ session \in Nat /\ lastId \in 0..MaxMessageId
    /\ containers \in [MessageId -> SUBSET MessageId]
    /\ processed \in SUBSET MessageId

TransportOK ==
    /\ replaced \in Nat /\ base \in 0..MaxConnection
    /\ conn \in 0..MaxConnection /\ connected \in BOOLEAN /\ alive \in BOOLEAN
    /\ lastConn \in 0..MaxConnection

ServerOK ==
    /\ sent \in SUBSET [c : 0..MaxConnection, s : Nat, mid : MessageId]
    /\ executed \in SUBSET [s : Nat, mid : MessageId, final : BOOLEAN]
    /\ failures \in Nat

HistoryOK ==
    /\ owner \in [MessageId -> 0..NumRequests]
    /\ retired \in SUBSET MessageId
    /\ answer \in [Requests -> 0..MaxMessageId]

\* Every variable has the type of the state it models.
TypeOK ==
    /\ RequestsOK /\ SessionOK /\ TransportOK /\ ServerOK /\ HistoryOK
    /\ suspended \in BOOLEAN /\ wanted \in BOOLEAN
    /\ tq \in Seq(Item)

\* A request that waits for its message id is one of the requests of a
\* payload that is still to be completed, so that some completion block will
\* clear waitingForMessageId: no request is left waiting for good, whatever
\* the other handlers do to it or to its siblings meanwhile.
WaitingIsTemporary ==
    \A r \in Requests :
        context[r].waiting => \E i \in 1..Len(tq) :
                                   tq[i].kind = "payload" /\ r \in tq[i].all

\* A request that counts as sent on a connection of the present transport
\* was sent on the connection this transport has now: the close of a
\* connection leaves no request behind that nobody will send again.
SentIsWatched ==
    \A r \in Requests :
        context[r].trans > base => context[r].trans = conn

\* The result passed to a request's completed block is that of a message the
\* server executed, issued for this very request.
AnswerIsOwn ==
    \A r \in Requests :
        answer[r] # 0 => /\ owner[answer[r]] = r
                         /\ \E e \in executed : e.mid = answer[r]

\* The server executes a request under a second message id only after one of
\* the two was given up (rejected, lost with the session, answered with an
\* error that restarts the request) or displaced by the completion block of an
\* older payload, and under the same id in a second session only after the
\* first session was given up: a resend after a closed connection or a refused
\* payload keeps the id, so that the server recognises it.
NoSilentReissue ==
    \A e, f \in executed :
        (e # f /\ owner[e.mid] = owner[f.mid])
            => (e.mid \in retired \/ f.mid \in retired)

\* The calls of RpcCalls: the results are the messages executed for a request,
\* and the attempts are message ids.
Calls == INSTANCE RpcCalls WITH
    Call <- Requests, Attempt <- MessageId, state <- status, abandoned <- retired,
    results <- {[call |-> owner[e.mid], attempt |-> e.mid] : e \in executed}

\* What is seen of a request from outside is a call of RpcCalls.
ImplementsCalls == Calls!Spec

\* An error made the client run a request again.
Restarted == \E e \in executed : ~e.final

\* A request in the list is answered or removed in the end, whatever
\* connections are lost and payloads refused on the way, as long as no error
\* restarts one.
EveryRequestEnds ==
    \A r \in Requests : Live(r) ~> status[r] \in {"completed", "removed"} \/ Restarted
=============================================================================
