------------------------ MODULE MTProtoRequestsProofs ------------------------
(***************************************************************************)
(* Proofs about MTProtoRequests, for every number of requests, message     *)
(* ids, connections, replacements, failures and restarts.                  *)
(***************************************************************************)
EXTENDS MTProtoRequests, FiniteSetTheorems, SequenceTheorems, TLAPS

-----------------------------------------------------------------------------
(* Facts about the message ids of a transaction.                           *)

\* Of a set of numbers up to n, the rank of a member is one of 1..Cardinality.
LEMMA RankBounds ==
    ASSUME NEW n \in Nat, NEW S \in SUBSET (1..n), NEW x \in S
    PROVE  /\ IsFiniteSet(S)
           /\ Rank(x, S) \in 1..Cardinality(S)
<1> DEFINE T == {y \in S : y <= x}
<1>1. IsFiniteSet(S)
  <2>1. IsFiniteSet(1..n)
    BY FS_Interval
  <2> QED
    BY <2>1, FS_Subset
<1>2. T \in SUBSET S /\ x \in T
  OBVIOUS
<1>3. IsFiniteSet(T) /\ Cardinality(T) <= Cardinality(S)
  BY <1>1, <1>2, FS_Subset
<1>4. Cardinality(T) \in Nat /\ Cardinality(S) \in Nat
  BY <1>1, <1>3, FS_CardinalityType
<1>5. Cardinality(T) # 0
  BY <1>2, <1>3, FS_EmptySet
<1> QED
  BY <1>1, <1>3, <1>4, <1>5 DEF Rank

\* A set of numbers up to n is finite, and its cardinality a natural number.
LEMMA CardinalityIsNat ==
    ASSUME NEW n \in Nat, NEW S \in SUBSET (1..n)
    PROVE  IsFiniteSet(S) /\ Cardinality(S) \in Nat
<1>1. IsFiniteSet(1..n)
  BY FS_Interval
<1>2. IsFiniteSet(S)
  BY <1>1, FS_Subset
<1> QED
  BY <1>2, FS_CardinalityType

\* The ids a transaction gives out lie above lastId and up to PreparedId; an
\* id that is kept is one that was given out before.
LEMMA PreparedIds ==
    ASSUME TypeOK, PreparedId <= MaxMessageId
    PROVE  /\ PreparedId \in lastId..MaxMessageId
           /\ \A r \in NewRequests : RequestId(r) \in (lastId + 1)..PreparedId
           /\ \A r \in EligibleRequests : RequestId(r) \in MessageId
           /\ \A m \in dropping : DropMessageId(m) \in MessageId
<1> USE RequestsAssumption, MessageIdAssumption
<1>1. NewRequests \in SUBSET (1..NumRequests)
  BY DEF NewRequests, EligibleRequests, Requests
<1>2. NewDrops \in SUBSET (1..MaxMessageId)
  BY DEF NewDrops, TypeOK, RequestsOK, MessageId
<1>3. Cardinality(NewRequests) \in Nat /\ Cardinality(NewDrops) \in Nat
  BY <1>1, <1>2, CardinalityIsNat
<1>4. lastId \in Nat
  BY DEF TypeOK, SessionOK
<1>5. \A r \in NewRequests : Rank(r, NewRequests) \in 1..Cardinality(NewRequests)
  BY <1>1, RankBounds
<1>6. \A m \in NewDrops : Rank(m, NewDrops) \in 1..Cardinality(NewDrops)
  BY <1>2, RankBounds
<1>7. PreparedId \in lastId..MaxMessageId
  BY <1>3, <1>4 DEF PreparedId
<1>8. \A r \in NewRequests : RequestId(r) \in (lastId + 1)..PreparedId
  BY <1>3, <1>4, <1>5 DEF RequestId, PreparedId
<1>9. \A r \in EligibleRequests \ NewRequests :
          RequestId(r) = context[r].mid /\ RequestId(r) \in MessageId
  BY DEF RequestId, NewRequests, EligibleRequests, TypeOK, RequestsOK, Context, MessageId
<1>10. \A m \in NewDrops : DropMessageId(m) \in 1..PreparedId
  BY <1>3, <1>4, <1>6 DEF DropMessageId, PreparedId
<1>11. \A m \in dropping \ NewDrops : DropMessageId(m) \in MessageId
  BY DEF DropMessageId, NewDrops, TypeOK, RequestsOK, MessageId
<1> QED
  BY <1>4, <1>7, <1>8, <1>9, <1>10, <1>11 DEF MessageId

\* PreparedId is a message id or 0, and a transaction that is built does not
\* pass the bound.
LEMMA BuiltIds ==
    ASSUME TypeOK
    PROVE  /\ PreparedId \in Nat
           /\ \A A, B : BuildTransaction(A, B) => /\ PreparedId <= lastId'
                                                /\ PreparedId <= MaxMessageId
<1>1. PreparedId \in Nat
  <2>1. NewRequests \in SUBSET (1..NumRequests) /\ NewDrops \in SUBSET (1..MaxMessageId)
    BY DEF NewRequests, EligibleRequests, Requests, NewDrops, TypeOK, RequestsOK, MessageId
  <2>2. Cardinality(NewRequests) \in Nat /\ Cardinality(NewDrops) \in Nat
    BY <2>1, CardinalityIsNat, RequestsAssumption, MessageIdAssumption
  <2>3. lastId \in Nat
    BY DEF TypeOK, SessionOK
  <2> QED
    BY <2>2, <2>3 DEF PreparedId
<1>2. ASSUME NEW A, NEW B, BuildTransaction(A, B)
      PROVE  PreparedId <= lastId' /\ PreparedId <= MaxMessageId
  <2> DEFINE A2 == EligibleRequests \ A
             B2 == dropping \ B
  <2>1. Containers(A, B) \in 0..1 /\ Containers(A2, B2) \in 0..1
    BY DEF Containers
  <2>2. /\ lastId' = PreparedId + Containers(A, B) + Containers(A2, B2)
        /\ lastId' <= MaxMessageId
    BY <1>2 DEF BuildTransaction
  <2> QED
    BY <1>1, <2>1, <2>2, MessageIdAssumption
<1> QED
  BY <1>1, <1>2

-----------------------------------------------------------------------------
(* Facts about tcpTransportQueue.                                          *)

\* The kind of an item tells which set it belongs to.
LEMMA ItemKinds ==
    ASSUME NEW x \in Item
    PROVE  /\ x.kind = "payload" => x \in Payload
           /\ x.kind = "data" => x \in Data
           /\ x.kind = "closed" => x \in Closed
  BY DEF Item, Payload, Data, Closed, Stop, Reset

\* What the actions append to tq are items.
LEMMA NewItems ==
    /\ Stop \in Item
    /\ Reset \in Item
    /\ \A c \in 0..MaxConnection : [kind |-> "closed", conn |-> c] \in Item
    /\ \A t \in MessageType, m \in MessageId :
          [kind |-> "data", type |-> t, mid |-> m] \in Item
<1>1. \A c \in 0..MaxConnection : [kind |-> "closed", conn |-> c] \in Closed
  BY DEF Closed
<1>2. \A t \in MessageType, m \in MessageId :
          [kind |-> "data", type |-> t, mid |-> m] \in Data
  BY DEF Data
<1> QED
  BY <1>1, <1>2 DEF Item

\* Taking the first item from tq.
LEMMA TakeItem ==
    ASSUME tq \in Seq(Item), NEW k, NextItem(k)
    PROVE  /\ Head(tq) \in Item /\ Head(tq).kind = k /\ Head(tq) = tq[1]
           /\ Tail(tq) \in Seq(Item)
           /\ Len(tq) \in Nat \ {0}
           /\ Len(Tail(tq)) = Len(tq) - 1
           /\ \A i \in 1..Len(Tail(tq)) : Tail(tq)[i] = tq[i + 1]
  BY HeadTailProperties, LenProperties, EmptySeq DEF NextItem

\* The payload of a transaction is an item.
LEMMA PayloadType ==
    ASSUME TypeOK, PreparedId <= MaxMessageId,
           NEW A \in SUBSET EligibleRequests, NEW B \in SUBSET dropping
    PROVE  PayloadOf(A, B) \in Item
<1>1. \A r \in A : RequestId(r) \in 0..MaxMessageId
  BY PreparedIds DEF MessageId
<1>2. \A m \in B : DropMessageId(m) \in 0..MaxMessageId
  BY PreparedIds DEF MessageId
<1>3. session \in Nat
  BY DEF TypeOK, SessionOK
<1>4. EligibleRequests \in SUBSET Requests
  BY DEF EligibleRequests
<1>5. 0 \in 0..MaxMessageId
  BY MessageIdAssumption
<1>6. [r \in Requests |-> IF r \in A THEN RequestId(r) ELSE 0]
         \in [Requests -> 0..MaxMessageId]
  BY <1>1, <1>5
<1>7. [m \in MessageId |-> IF m \in B THEN DropMessageId(m) ELSE 0]
         \in [MessageId -> 0..MaxMessageId]
  BY <1>2, <1>5
<1>8. PayloadOf(A, B) \in Payload
  BY <1>3, <1>4, <1>6, <1>7 DEF PayloadOf, Payload
<1> QED
  BY <1>8 DEF Item

-----------------------------------------------------------------------------
(* Type correctness, group of actions by group of actions.                 *)

\* Adding, releasing and removing requests.
LEMMA RequestStepType ==
    ASSUME TypeOK, RequestStep
    PROVE  TypeOK'
<1>1. ASSUME NEW r \in Requests, AddRequest(r) PROVE TypeOK'
  BY <1>1 DEF AddRequest, TypeOK, RequestsOK, SessionOK, TransportOK, ServerOK, HistoryOK,
     sessionVars, transportVars, serverVars, historyVars
<1>2. ASSUME NEW r \in Requests, ReleaseRequest(r) PROVE TypeOK'
  BY <1>2 DEF ReleaseRequest, TypeOK, RequestsOK, SessionOK, TransportOK, ServerOK,
     HistoryOK, sessionVars, transportVars, serverVars, historyVars
<1>3. ASSUME NEW r \in Requests, NEW ask \in BOOLEAN, RemoveRequest(r, ask) PROVE TypeOK'
  <2>1. Nil \in Context
    BY MessageIdAssumption, ConnectionAssumption DEF Nil, Context
  <2>2. status' \in [Requests -> {"new", "live", "completed", "removed"}]
        /\ context' \in [Requests -> Context] /\ held' \in [Requests -> BOOLEAN]
    BY <1>3, <2>1 DEF RemoveRequest, TypeOK, RequestsOK
  <2>3. context[r].mid # 0 => context[r].mid \in MessageId
    BY DEF TypeOK, RequestsOK, Context, MessageId
  <2>4. dropping' \in SUBSET MessageId /\ retired' \in SUBSET MessageId
        /\ dropId' \in [MessageId -> 0..MaxMessageId]
    BY <1>3, <2>3, MessageIdAssumption DEF RemoveRequest, TypeOK, RequestsOK, HistoryOK
  <2>6. wanted' \in BOOLEAN
    BY <1>3, Zenon DEF RemoveRequest, TypeOK
  <2>5. tq' \in Seq(Item)
    BY <1>3, NewItems, AppendProperties, SMTT(30) DEF RemoveRequest, TypeOK
  <2> QED
    BY <1>3, <2>2, <2>4, <2>5, <2>6 DEF RemoveRequest, TypeOK, RequestsOK, SessionOK, TransportOK,
       ServerOK, HistoryOK, sessionVars, transportVars, serverVars
<1> QED
  BY <1>1, <1>2, <1>3 DEF RequestStep

\* The contexts that the handlers make out of contexts.
LEMMA ContextType ==
    /\ Nil \in Context
    /\ \A c \in Context : ForgetTransaction(c) \in Context
    /\ \A c \in Context, i \in 0..MaxMessageId, t \in 0..MaxConnection :
          Completed(c, i, t) \in Context
<1>1. Nil \in Context
  BY MessageIdAssumption, ConnectionAssumption DEF Nil, Context
<1>2. \A c \in Context : ForgetTransaction(c) \in Context
  BY ConnectionAssumption DEF Context, ForgetTransaction
<1>3. ASSUME NEW c \in Context, NEW i \in 0..MaxMessageId, NEW t \in 0..MaxConnection
      PROVE  Completed(c, i, t) \in Context
  BY DEF Context, Completed
<1> QED
  BY <1>1, <1>2, <1>3

\* What a transaction makes of the requests has the right types.
LEMMA PreparedType ==
    ASSUME TypeOK, PreparedId <= MaxMessageId, NEW w \in BOOLEAN
    PROVE  /\ PreparedContext(w) \in [Requests -> Context]
           /\ PreparedOwner \in [MessageId -> 0..NumRequests]
<1>1. \A r \in Requests : Eligible(r) => RequestId(r) \in 0..MaxMessageId
  BY PreparedIds DEF EligibleRequests, MessageId
<1>2. \A r \in Requests :
        Eligible(r) => [mid |-> RequestId(r), waiting |-> w, delivered |-> FALSE, trans |-> 0]
                         \in Context
  BY <1>1, ConnectionAssumption DEF Context
<1>3. PreparedContext(w) \in [Requests -> Context]
  BY <1>2 DEF PreparedContext, TypeOK, RequestsOK
<1>4. NewRequests \in SUBSET (0..NumRequests)
  BY DEF NewRequests, EligibleRequests, Requests
<1>5. \A m \in MessageId :
        (\E r \in NewRequests : RequestId(r) = m)
          => (CHOOSE r \in NewRequests : RequestId(r) = m) \in NewRequests
  OBVIOUS
<1>6. PreparedOwner \in [MessageId -> 0..NumRequests]
  BY <1>4, <1>5 DEF PreparedOwner, TypeOK, HistoryOK
<1> QED
  BY <1>3, <1>6

\* The handlers that replace the transport, and those that replace the session.
LEMMA ReplacementType ==
    ASSUME TypeOK, NEW q \in Seq(Item)
    PROVE  /\ ReplaceTransport(q) => /\ TransportOK' /\ wanted' \in BOOLEAN
                                     /\ tq' \in Seq(Item)
           /\ NewSession(q) => /\ RequestsOK' /\ SessionOK' /\ TransportOK' /\ HistoryOK'
                               /\ wanted' \in BOOLEAN /\ tq' \in Seq(Item)
<1>1. ReplaceTransport(q) => /\ TransportOK' /\ wanted' \in BOOLEAN /\ tq' \in Seq(Item)
  BY NewItems, AppendProperties DEF ReplaceTransport, TypeOK, TransportOK
<1>2. {context[r].mid : r \in Requests} \ {0} \in SUBSET MessageId
  BY DEF TypeOK, RequestsOK, Context, MessageId
<1>3. NewSession(q) => RequestsOK' /\ SessionOK' /\ HistoryOK'
  BY <1>2, ContextType, MessageIdAssumption
  DEF NewSession, TypeOK, RequestsOK, SessionOK, HistoryOK
<1>4. NewSession(q) => ReplaceTransport(q)
  BY DEF NewSession
<1> QED
  BY <1>1, <1>3, <1>4

\* A transaction that is built.
LEMMA BuildTransactionType ==
    ASSUME TypeOK, NEW A \in SUBSET EligibleRequests, NEW B \in SUBSET dropping,
           BuildTransaction(A, B)
    PROVE  TypeOK'
<1> DEFINE A2 == EligibleRequests \ A
           B2 == dropping \ B
           C1 == PreparedId + Containers(A, B)
           C2 == C1 + Containers(A2, B2)
           p1 == IF A \cup B = {} THEN <<>> ELSE <<PayloadOf(A, B)>>
           p2 == IF A2 \cup B2 = {} THEN <<>> ELSE <<PayloadOf(A2, B2)>>
<1>1. /\ Containers(A, B) \in 0..1 /\ Containers(A2, B2) \in 0..1
  BY DEF Containers
<1>3. PreparedId \in Nat /\ C1 \in Nat /\ C2 \in Nat
  BY <1>1, BuiltIds
<1>4. C2 <= MaxMessageId
  BY DEF BuildTransaction
<1>5. PreparedId <= MaxMessageId
  BY <1>1, <1>3, <1>4, MessageIdAssumption
<1>6. context' \in [Requests -> Context] /\ owner' \in [MessageId -> 0..NumRequests]
  BY <1>5, PreparedType DEF BuildTransaction
<1>7. /\ ChildIds(A) \in SUBSET MessageId /\ ChildIds(A2) \in SUBSET MessageId
  BY <1>5, PreparedIds DEF ChildIds
<1>8. containers' = [m \in MessageId |->
                       IF m = C1 /\ C1 > PreparedId THEN ChildIds(A)
                       ELSE IF m = C2 /\ C2 > C1 THEN ChildIds(A2)
                       ELSE containers[m]]
  BY DEF BuildTransaction
<1>9. containers' \in [MessageId -> SUBSET MessageId]
  BY <1>7, <1>8 DEF TypeOK, SessionOK
<1>10. lastId' \in 0..MaxMessageId
  BY <1>3, <1>4 DEF BuildTransaction
<1>11. PayloadOf(A, B) \in Item /\ PayloadOf(A2, B2) \in Item
  BY <1>5, PayloadType
<1>12. p1 \in Seq(Item) /\ p2 \in Seq(Item)
  BY <1>11
<1>13. tq' = tq \o p1 \o p2
  BY DEF BuildTransaction
<1>14. tq' \in Seq(Item)
  BY <1>12, <1>13, ConcatProperties DEF TypeOK
<1> QED
  BY <1>6, <1>9, <1>10, <1>14
  DEF BuildTransaction, TypeOK, RequestsOK, SessionOK, TransportOK, ServerOK, HistoryOK,
      transportVars, serverVars

\* Transactions that are built or cannot be, and the time sync.
LEMMA BuildStepType ==
    ASSUME TypeOK, BuildStep
    PROVE  TypeOK'
<1>1. ASSUME NEW A \in SUBSET EligibleRequests, NEW B \in SUBSET dropping,
             BuildTransaction(A, B)
      PROVE  TypeOK'
  BY <1>1, BuildTransactionType
<1>2. CASE BuildWithoutSalt
  <2>1. PreparedId <= MaxMessageId
    BY <1>2 DEF BuildWithoutSalt
  <2>2. context' \in [Requests -> Context] /\ owner' \in [MessageId -> 0..NumRequests]
    BY <1>2, <2>1, PreparedType DEF BuildWithoutSalt
  <2>3. lastId' \in 0..MaxMessageId
    BY <1>2, <2>1, PreparedIds DEF BuildWithoutSalt, TypeOK, SessionOK
  <2> QED
    BY <1>2, <2>2, <2>3 DEF BuildWithoutSalt, TypeOK, RequestsOK, SessionOK, TransportOK,
       ServerOK, HistoryOK, transportVars, serverVars
<1>3. CASE BuildMonotonityViolated
  <2>1. NewSession(tq) /\ tq \in Seq(Item)
    BY <1>3 DEF BuildMonotonityViolated, TypeOK
  <2> QED
    BY <1>3, <2>1, ReplacementType DEF BuildMonotonityViolated, TypeOK, ServerOK, serverVars
<1>4. CASE BuildTimeFix
  BY <1>4 DEF BuildTimeFix, TypeOK, RequestsOK, SessionOK, TransportOK, ServerOK, HistoryOK,
     requestVars, sessionVars, transportVars, serverVars, historyVars
<1>5. CASE CompleteTimeSync
  BY <1>5 DEF CompleteTimeSync, TypeOK, RequestsOK, SessionOK, TransportOK, ServerOK,
     HistoryOK, requestVars, sessionVars, transportVars, serverVars, historyVars
<1> QED
  BY <1>1, <1>2, <1>3, <1>4, <1>5 DEF BuildStep

\* What the transport does with its queue, its connections and its answers.
LEMMA TransportStepType ==
    ASSUME TypeOK, TransportStep
    PROVE  TypeOK'
<1> USE DEF TypeOK
<1>1. CASE SendPayload
  <2> DEFINE p == Head(tq)
  <2>1. p \in Payload /\ Tail(tq) \in Seq(Item)
    BY <1>1, TakeItem, ItemKinds DEF SendPayload
  <2>2. context' \in [Requests -> Context]
    <3>1. \A r \in Requests : Completed(context[r], p.ids[r], conn) \in Context
      BY <2>1, ContextType DEF Payload, RequestsOK, TransportOK
    <3> QED
      BY <1>1, <3>1 DEF SendPayload, RequestsOK
  <2>3. dropId' \in [MessageId -> 0..MaxMessageId]
    BY <1>1, <2>1 DEF SendPayload, Payload, RequestsOK
  <2>4. sent' \in SUBSET [c : 0..MaxConnection, s : Nat, mid : MessageId]
    <3>1. \A r \in Requests : p.ids[r] # 0 => p.ids[r] \in MessageId
      BY <2>1 DEF Payload, MessageId
    <3>2. \A r \in Requests : p.ids[r] # 0 =>
              [c |-> conn, s |-> p.session, mid |-> p.ids[r]]
                 \in [c : 0..MaxConnection, s : Nat, mid : MessageId]
      BY <2>1, <3>1 DEF Payload, TransportOK
    <3> QED
      BY <1>1, <3>2 DEF SendPayload, ServerOK
  <2>5. retired' \in SUBSET MessageId
    <3>1. \A r \in Requests : context[r].mid # 0 => context[r].mid \in MessageId
      BY DEF RequestsOK, Context, MessageId
    <3>2. Displaced(p) \in SUBSET MessageId
      BY <3>1 DEF Displaced
    <3> QED
      BY <1>1, <3>2 DEF SendPayload, HistoryOK
  <2> QED
    BY <1>1, <2>1, <2>2, <2>3, <2>4, <2>5 DEF SendPayload, RequestsOK, SessionOK,
       TransportOK, ServerOK, HistoryOK, sessionVars, managerVars, transportVars
<1>2. CASE RefusePayload
  <2>1. Tail(tq) \in Seq(Item)
    BY <1>2, TakeItem DEF RefusePayload
  <2>2. \A r \in Requests : Completed(context[r], 0, 0) \in Context
    BY ContextType, MessageIdAssumption, ConnectionAssumption DEF RequestsOK
  <2>3. context' \in [Requests -> Context]
    BY <1>2, <2>2 DEF RefusePayload, RequestsOK
  <2> QED
    BY <1>2, <2>1, <2>3 DEF RefusePayload, RequestsOK, SessionOK, TransportOK, ServerOK,
       HistoryOK, sessionVars, managerVars, transportVars, serverVars, historyVars
<1>3. CASE StopTransport
  <2>1. Tail(tq) \in Seq(Item)
    BY <1>3, TakeItem DEF StopTransport
  <2>2. connected' \in BOOLEAN /\ alive' \in BOOLEAN
    BY <1>3, Zenon DEF StopTransport
  <2>3. 0 \in 0..MaxConnection
    BY ConnectionAssumption
  <2>4. TransportOK'
    BY <1>3, <2>2, <2>3 DEF StopTransport, TransportOK
  <2> QED
    BY <1>3, <2>1, <2>4 DEF StopTransport, RequestsOK, SessionOK, ServerOK, HistoryOK,
       requestVars, sessionVars, managerVars, serverVars, historyVars
<1>4. CASE ResetConnection
  <2>1. Tail(tq) \in Seq(Item)
    BY <1>4, TakeItem DEF ResetConnection
  <2>2. [kind |-> "closed", conn |-> conn] \in Item
    BY NewItems DEF TransportOK
  <2>3. tq' \in Seq(Item)
    BY <1>4, <2>1, <2>2, AppendProperties DEF ResetConnection, CloseAndNotify
  <2>4. alive' \in BOOLEAN
    BY <1>4, Zenon DEF ResetConnection, CloseAndNotify, TransportOK
  <2> QED
    BY <1>4, <2>3, <2>4 DEF ResetConnection, RequestsOK, SessionOK, TransportOK,
       ServerOK, HistoryOK, requestVars, sessionVars, managerVars, serverVars, historyVars
<1>5. CASE StartConnection
  BY <1>5, ConnectionAssumption DEF StartConnection, RequestsOK, SessionOK, TransportOK,
     ServerOK, HistoryOK, requestVars, sessionVars, managerVars, serverVars, historyVars
<1>6. CASE OpenConnection
  BY <1>6 DEF OpenConnection, RequestsOK, SessionOK, TransportOK, ServerOK, HistoryOK,
     requestVars, sessionVars, serverVars, historyVars
<1>7. CASE CloseSocket
  <2>1. [kind |-> "closed", conn |-> conn] \in Item
    BY NewItems DEF TransportOK
  <2>2. tq' \in Seq(Item)
    BY <1>7, <2>1, AppendProperties DEF CloseSocket, CloseAndNotify
  <2> QED
    BY <1>7, <2>2 DEF CloseSocket, CloseAndNotify, RequestsOK, SessionOK, TransportOK,
       ServerOK, HistoryOK, requestVars, sessionVars, managerVars, serverVars, historyVars
<1>8. CASE CloseConnection
  <2>1. Tail(tq) \in Seq(Item)
    BY <1>8, TakeItem DEF CloseConnection
  <2>2. context' \in [Requests -> Context]
    BY <1>8, ContextType DEF CloseConnection, TransactionsMayHaveFailed, RequestsOK
  <2>3. wanted' \in BOOLEAN
    BY <1>8, Zenon DEF CloseConnection, TransactionsMayHaveFailed
  <2>4. conn' \in 0..MaxConnection
    BY <1>8, ConnectionAssumption DEF CloseConnection, TransportOK
  <2>5. connected' \in BOOLEAN
    BY <1>8, Zenon DEF CloseConnection, TransportOK
  <2> QED
    BY <1>8, <2>1, <2>2, <2>3, <2>4, <2>5 DEF CloseConnection, RequestsOK, SessionOK,
       TransportOK, ServerOK, HistoryOK, sessionVars, serverVars, historyVars
<1>9. CASE ResetTransport
  <2>1. context' \in [Requests -> Context]
    BY <1>9, ContextType DEF ResetTransport, RequestsOK
  <2>2. TransportOK' /\ wanted' \in BOOLEAN /\ tq' \in Seq(Item)
    BY <1>9, ReplacementType DEF ResetTransport
  <2> QED
    BY <1>9, <2>1, <2>2 DEF ResetTransport, RequestsOK, SessionOK, ServerOK, HistoryOK,
       sessionVars, serverVars, historyVars
<1> QED
  BY <1>1, <1>2, <1>3, <1>4, <1>5, <1>6, <1>7, <1>8, <1>9 DEF TransportStep

\* The server.
LEMMA ServerStepType ==
    ASSUME TypeOK, ServerStep
    PROVE  TypeOK'
<1> USE DEF TypeOK
<1>1. ASSUME NEW x \in sent, NEW final \in BOOLEAN, ServerExecute(x, final) PROVE TypeOK'
  <2>1. [s |-> x.s, mid |-> x.mid, final |-> final]
           \in [s : Nat, mid : MessageId, final : BOOLEAN]
    BY DEF ServerOK
  <2>2. ServerOK'
    BY <1>1, <2>1 DEF ServerExecute, ServerOK
  <2> QED
    BY <1>1, <2>2 DEF ServerExecute, RequestsOK, SessionOK, TransportOK, HistoryOK,
       requestVars, sessionVars, managerVars, transportVars, historyVars
<1>2. ASSUME NEW t \in MessageType, NEW m \in MessageId, Deliver(t, m)
      PROVE  tq' \in Seq(Item)
  BY <1>2, NewItems, AppendProperties DEF Deliver
<1>3. ASSUME NEW t \in Answer, NEW m \in MessageId, ServerAnswer(t, m) PROVE TypeOK'
  <2>1. tq' \in Seq(Item)
    BY <1>2, <1>3 DEF ServerAnswer, MessageType
  <2> QED
    BY <1>3, <2>1 DEF ServerAnswer, RequestsOK, SessionOK, TransportOK, ServerOK, HistoryOK,
       requestVars, sessionVars, managerVars, transportVars, serverVars, historyVars
<1>4. ASSUME NEW t \in Rejection, NEW m \in MessageId, ServerReject(t, m) PROVE TypeOK'
  <2>1. tq' \in Seq(Item)
    BY <1>2, <1>4 DEF ServerReject, MessageType
  <2>2. ServerOK'
    BY <1>4 DEF ServerReject, ServerOK
  <2> QED
    BY <1>4, <2>1, <2>2 DEF ServerReject, RequestsOK, SessionOK, TransportOK, HistoryOK,
       requestVars, sessionVars, managerVars, transportVars, historyVars
<1>5. ASSUME NEW t \in Loss, NEW m \in MessageId, ServerLoses(t, m) PROVE TypeOK'
  <2>1. tq' \in Seq(Item)
    BY <1>2, <1>5 DEF ServerLoses, MessageType
  <2>2. ServerOK'
    BY <1>5 DEF ServerLoses, ServerOK
  <2> QED
    BY <1>5, <2>1, <2>2 DEF ServerLoses, RequestsOK, SessionOK, TransportOK, HistoryOK,
       requestVars, sessionVars, managerVars, transportVars, historyVars
<1> QED
  BY <1>1, <1>3, <1>4, <1>5 DEF ServerStep

\* What a handler of incoming data starts from.
LEMMA ReceivedData ==
    ASSUME TypeOK, NEW t, Receive(t)
    PROVE  /\ Tail(tq) \in Seq(Item)
           /\ Head(tq).mid \in MessageId
           /\ Head(tq).type = t
<1>1. Head(tq) \in Data /\ Tail(tq) \in Seq(Item)
  BY TakeItem, ItemKinds DEF Receive, TypeOK
<1> QED
  BY <1>1 DEF Data, Receive

\* What arrives from the server.
LEMMA ReceiveStepType ==
    ASSUME TypeOK, ReceiveStep
    PROVE  TypeOK'
<1> USE DEF TypeOK
<1>1. CASE IgnoreData
  <2>1. Tail(tq) \in Seq(Item)
    BY <1>1, TakeItem DEF IgnoreData
  <2> QED
    BY <1>1, <2>1 DEF IgnoreData, RequestsOK, SessionOK, TransportOK, ServerOK, HistoryOK,
       requestVars, sessionVars, managerVars, transportVars, serverVars, historyVars
<1>2. CASE ReceiveDuplicate
  <2>1. Tail(tq) \in Seq(Item)
    BY <1>2, ReceivedData DEF ReceiveDuplicate
  <2> QED
    BY <1>2, <2>1 DEF ReceiveDuplicate, RequestsOK, SessionOK, TransportOK, ServerOK,
       HistoryOK, requestVars, sessionVars, managerVars, transportVars, serverVars, historyVars
<1>3. CASE ReceiveResult
  <2>1. Tail(tq) \in Seq(Item) /\ Head(tq).mid \in MessageId
    BY <1>3, ReceivedData DEF ReceiveResult
  <2>2. Head(tq).mid \in 0..MaxMessageId
    BY <2>1 DEF MessageId
  <2>3. RequestsOK'
    BY <1>3, ContextType DEF ReceiveResult, RequestsOK
  <2>4. SessionOK'
    BY <1>3, <2>1 DEF ReceiveResult, SessionOK
  <2>5. HistoryOK'
    BY <1>3, <2>2 DEF ReceiveResult, HistoryOK
  <2> QED
    BY <1>3, <2>1, <2>3, <2>4, <2>5 DEF ReceiveResult, TransportOK, ServerOK, managerVars,
       transportVars, serverVars
<1>4. CASE ReceiveRestart
  <2>1. Tail(tq) \in Seq(Item) /\ Head(tq).mid \in MessageId
    BY <1>4, ReceivedData DEF ReceiveRestart
  <2>2. context' \in [Requests -> Context] /\ processed' \in SUBSET MessageId
        /\ retired' \in SUBSET MessageId
    BY <1>4, <2>1, ContextType DEF ReceiveRestart, RequestsOK, SessionOK, HistoryOK
  <2>3. held' \in [Requests -> BOOLEAN]
    BY <1>4 DEF ReceiveRestart, RequestsOK
  <2> QED
    BY <1>4, <2>1, <2>2, <2>3 DEF ReceiveRestart, RequestsOK, SessionOK, TransportOK,
       ServerOK, HistoryOK, managerVars, transportVars, serverVars
<1>5. CASE ReceiveAck
  <2>1. Tail(tq) \in Seq(Item)
    BY <1>5, ReceivedData DEF ReceiveAck
  <2>2. \A r \in Requests : [context[r] EXCEPT !.delivered = TRUE] \in Context
    BY DEF RequestsOK, Context
  <2>3. context' \in [Requests -> Context]
    BY <1>5, <2>2 DEF ReceiveAck, RequestsOK
  <2> QED
    BY <1>5, <2>1, <2>3 DEF ReceiveAck, RequestsOK, SessionOK, TransportOK, ServerOK,
       HistoryOK, sessionVars, managerVars, transportVars, serverVars, historyVars
<1>6. CASE ReceiveBadMessage
  <2>1. Tail(tq) \in Seq(Item) /\ Head(tq).mid \in MessageId
    BY <1>6, ReceivedData DEF ReceiveBadMessage
  <2>2. FailedIds(Head(tq).mid) \in SUBSET MessageId
    BY <2>1 DEF FailedIds, SessionOK
  <2>3. context' \in [Requests -> Context]
    BY <1>6, ContextType DEF ReceiveBadMessage, RequestsOK
  <2>4. dropId' \in [MessageId -> 0..MaxMessageId]
    BY <1>6, MessageIdAssumption DEF ReceiveBadMessage, RequestsOK
  <2>5. retired' \in SUBSET MessageId
    BY <1>6, <2>2 DEF ReceiveBadMessage, HistoryOK
  <2>6. suspended' \in BOOLEAN /\ wanted' \in BOOLEAN
    BY <1>6, Zenon DEF ReceiveBadMessage
  <2> QED
    BY <1>6, <2>1, <2>3, <2>4, <2>5, <2>6 DEF ReceiveBadMessage, RequestsOK, SessionOK,
       TransportOK, ServerOK, HistoryOK, sessionVars, transportVars, serverVars
<1>7. CASE ReceiveBadSequence
  <2>1. Tail(tq) \in Seq(Item)
    BY <1>7, ReceivedData DEF ReceiveBadSequence
  <2> QED
    BY <1>7, <2>1, ReplacementType DEF ReceiveBadSequence, ServerOK, serverVars
<1>8. CASE ReceiveUnparsable
  <2>1. Tail(tq) \in Seq(Item)
    BY <1>8, ReceivedData DEF ReceiveUnparsable
  <2> QED
    BY <1>8, <2>1, ReplacementType DEF ReceiveUnparsable, ServerOK, serverVars
<1>9. CASE ReceiveUndecryptable
  <2>1. Tail(tq) \in Seq(Item)
    BY <1>9, ReceivedData DEF ReceiveUndecryptable
  <2>2. tq' \in Seq(Item)
    BY <1>9, <2>1, NewItems, AppendProperties DEF ReceiveUndecryptable
  <2>3. context' \in [Requests -> Context]
    BY <1>9, ContextType DEF ReceiveUndecryptable, TransactionsMayHaveFailed, RequestsOK
  <2>4. wanted' \in BOOLEAN
    BY <1>9, Zenon DEF ReceiveUndecryptable, TransactionsMayHaveFailed
  <2> QED
    BY <1>9, <2>2, <2>3, <2>4 DEF ReceiveUndecryptable, RequestsOK, SessionOK, TransportOK,
       ServerOK, HistoryOK, sessionVars, transportVars, serverVars, historyVars
<1>10. CASE ReceiveNewSession
  <2>1. Tail(tq) \in Seq(Item)
    BY <1>10, ReceivedData DEF ReceiveNewSession
  <2>2. context' \in [Requests -> Context]
    BY <1>10, ContextType DEF ReceiveNewSession, RequestsOK
  <2>3. \A r \in Requests : context[r].mid # 0 => context[r].mid \in MessageId
    BY DEF RequestsOK, Context, MessageId
  <2>4. retired' \in SUBSET MessageId
    BY <1>10, <2>3 DEF ReceiveNewSession, HistoryOK
  <2>5. wanted' \in BOOLEAN
    BY <1>10, Zenon DEF ReceiveNewSession
  <2> QED
    BY <1>10, <2>1, <2>2, <2>4, <2>5 DEF ReceiveNewSession, RequestsOK, SessionOK,
       TransportOK, ServerOK, HistoryOK, sessionVars, transportVars, serverVars
<1>11. CASE ReceiveDropAnswer
  <2>1. Tail(tq) \in Seq(Item)
    BY <1>11, ReceivedData DEF ReceiveDropAnswer
  <2> QED
    BY <1>11, <2>1 DEF ReceiveDropAnswer, RequestsOK, SessionOK, TransportOK, ServerOK,
       HistoryOK, sessionVars, managerVars, transportVars, serverVars, historyVars
<1> QED
  BY <1>1, <1>2, <1>3, <1>4, <1>5, <1>6, <1>7, <1>8, <1>9, <1>10, <1>11 DEF ReceiveStep

\* The first state.
LEMMA InitType ==
    ASSUME Init
    PROVE  TypeOK
<1>1. RequestsOK
  BY ContextType, MessageIdAssumption DEF Init, RequestsOK
<1>2. SessionOK /\ ServerOK
  BY MessageIdAssumption DEF Init, SessionOK, ServerOK
<1>3. HistoryOK
  BY RequestsAssumption, MessageIdAssumption DEF Init, HistoryOK
<1>4. tq \in Seq(Item)
  BY DEF Init
<1>5. 0 \in 0..MaxConnection
  BY ConnectionAssumption
<1>6. connected \in BOOLEAN /\ alive \in BOOLEAN /\ suspended \in BOOLEAN
      /\ wanted \in BOOLEAN
  BY Zenon DEF Init
<1>7. TransportOK
  BY <1>5, <1>6 DEF Init, TransportOK
<1> QED
  BY <1>1, <1>2, <1>3, <1>4, <1>6, <1>7 DEF TypeOK

\* A step that changes nothing.
LEMMA StutterType ==
    ASSUME TypeOK, UNCHANGED vars
    PROVE  TypeOK'
  BY DEF vars, requestVars, sessionVars, managerVars, transportVars, serverVars,
     historyVars, TypeOK, RequestsOK, SessionOK, TransportOK, ServerOK, HistoryOK

-----------------------------------------------------------------------------
\* The state of the three classes keeps its types: no handler of
\* MTRequestMessageService, MTProto and MTTcpTransport gives a request an id
\* that was not generated, or a transaction id that is no connection's.
THEOREM TypeCorrect == Spec => []TypeOK
<1>1. Init => TypeOK
  BY InitType
<1>2. TypeOK /\ [Next]_vars => TypeOK'
  BY RequestStepType, BuildStepType, TransportStepType, ServerStepType, ReceiveStepType,
     StutterType
  DEF Next
<1> QED
  BY <1>1, <1>2, PTL DEF Spec

-----------------------------------------------------------------------------
(* No request is left waiting for its message id, or counted as sent on a  *)
(* connection that nobody watches.                                         *)

\* A payload in q will run its completion block for r.
Pending(q, r) == \E i \in 1..Len(q) : q[i].kind = "payload" /\ r \in q[i].all

\* The stop of a replaced transport is in q.
HasStop(q) == \E i \in 1..Len(q) : q[i].kind = "stop"

\* The inductive strengthening of WaitingIsTemporary: only a request in the
\* list waits, so that the completion block finds it.
WaitInv ==
    \A r \in Requests : context[r].waiting => status[r] = "live" /\ Pending(tq, r)

\* The inductive strengthening of SentIsWatched: connections are numbered in
\* the order they are made, and until a replaced transport is stopped no
\* connection of the new one exists.
SentInv ==
    /\ base <= lastConn /\ conn <= lastConn
    /\ \A r \in Requests : context[r].trans <= lastConn
    /\ HasStop(tq) => base = lastConn
    /\ SentIsWatched

SafetyInv == TypeOK /\ WaitInv /\ SentInv

-----------------------------------------------------------------------------
(* What happens to the items of a queue.                                   *)

\* q has the payloads that p has, and a stop only if p has one.
KeepsItems(p, q) ==
    /\ \A r \in Requests : Pending(p, r) => Pending(q, r)
    /\ HasStop(q) => HasStop(p)

\* Another item on the queue keeps what was pending.
LEMMA KeepsAppend ==
    ASSUME NEW q \in Seq(Item), NEW x \in Item
    PROVE  /\ \A r \in Requests : Pending(q, r) => Pending(Append(q, x), r)
           /\ x.kind # "stop" => KeepsItems(q, Append(q, x))
<1> DEFINE p == Append(q, x)
<1>1. /\ Len(q) \in Nat /\ Len(p) = Len(q) + 1
      /\ \A i \in 1..Len(q) : p[i] = q[i]
      /\ p[Len(q) + 1] = x
  BY AppendProperties, LenProperties
<1> HIDE DEF p
<1>2. \A r \in Requests : Pending(q, r) => Pending(p, r)
  BY <1>1 DEF Pending
<1>3. x.kind # "stop" /\ HasStop(p) => HasStop(q)
  BY <1>1 DEF HasStop
<1> QED
  BY <1>2, <1>3 DEF KeepsItems, p

\* Taking the first item leaves every payload but that one in its place.
LEMMA KeepsTail ==
    ASSUME tq \in Seq(Item), NEW k, NextItem(k)
    PROVE  /\ HasStop(Tail(tq)) => HasStop(tq)
           /\ k = "stop" => HasStop(tq)
           /\ k # "payload" => KeepsItems(tq, Tail(tq))
           /\ \A r \in Requests : Pending(tq, r) /\ r \notin Head(tq).all
                                    => Pending(Tail(tq), r)
<1> DEFINE t == Tail(tq)
<1>1. /\ Len(tq) \in Nat \ {0} /\ Len(t) = Len(tq) - 1
      /\ \A i \in 1..Len(t) : t[i] = tq[i + 1]
      /\ Head(tq) = tq[1] /\ Head(tq).kind = k
  BY TakeItem
<1> HIDE DEF t
<1>2. HasStop(t) => HasStop(tq)
  BY <1>1 DEF HasStop
<1>3. k = "stop" => HasStop(tq)
  BY <1>1 DEF HasStop
<1>4. ASSUME NEW r \in Requests, Pending(tq, r),
             k # "payload" \/ r \notin Head(tq).all
      PROVE  Pending(t, r)
  <2>1. PICK i \in 1..Len(tq) : tq[i].kind = "payload" /\ r \in tq[i].all
    BY <1>4 DEF Pending
  <2>2. i # 1
    BY <1>1, <1>4, <2>1
  <2>3. i - 1 \in 1..Len(t) /\ t[i - 1] = tq[i]
    BY <1>1, <2>2
  <2> QED
    BY <2>1, <2>3 DEF Pending
<1> QED
  BY <1>2, <1>3, <1>4 DEF KeepsItems, t

\* Concatenation keeps the payloads of both parts.
LEMMA KeepsConcat ==
    ASSUME NEW p \in Seq(Item), NEW q \in Seq(Item), NEW r \in Requests
    PROVE  /\ p \o q \in Seq(Item)
           /\ Pending(p, r) \/ Pending(q, r) => Pending(p \o q, r)
           /\ HasStop(p \o q) => HasStop(p) \/ HasStop(q)
<1> DEFINE c == p \o q
<1>1. /\ c \in Seq(Item) /\ Len(p) \in Nat /\ Len(q) \in Nat /\ Len(c) = Len(p) + Len(q)
      /\ \A i \in 1..Len(p) + Len(q) : c[i] = IF i <= Len(p) THEN p[i] ELSE q[i - Len(p)]
  BY ConcatProperties, LenProperties
<1> HIDE DEF c
<1>2. Pending(p, r) => Pending(c, r)
  BY <1>1 DEF Pending
<1>3. ASSUME Pending(q, r) PROVE Pending(c, r)
  <2>1. PICK i \in 1..Len(q) : q[i].kind = "payload" /\ r \in q[i].all
    BY <1>3 DEF Pending
  <2>2. PICK j \in Nat : j = Len(p) + i
    BY <1>1
  <2>3. j \in 1..Len(p) + Len(q) /\ ~(j <= Len(p)) /\ j - Len(p) = i
    BY <1>1, <2>2
  <2>4. j \in 1..Len(c) /\ c[j] = q[i]
    BY <1>1, <2>3
  <2> QED
    BY <2>1, <2>4 DEF Pending
<1>4. ASSUME HasStop(c) PROVE HasStop(p) \/ HasStop(q)
  <2>1. PICK i \in 1..Len(c) : c[i].kind = "stop"
    BY <1>4 DEF HasStop
  <2>2. CASE i <= Len(p)
    BY <1>1, <2>1, <2>2 DEF HasStop
  <2>3. CASE ~(i <= Len(p))
    <3>1. i - Len(p) \in 1..Len(q) /\ c[i] = q[i - Len(p)]
      BY <1>1, <2>3
    <3> QED
      BY <2>1, <3>1 DEF HasStop
  <2> QED
    BY <2>2, <2>3
<1> QED
  BY <1>1, <1>2, <1>3, <1>4 DEF c

-----------------------------------------------------------------------------
(* Steps that disturb neither invariant.                                   *)

\* No request begins to wait, none that waits leaves the list, none is marked
\* as sent, the connection stays, and the queue keeps what matters.
Quiet ==
    /\ \A r \in Requests :
          context'[r].waiting => /\ context[r].waiting
                                 /\ status[r] = "live" => status'[r] = "live"
    /\ \A r \in Requests : context'[r].trans = context[r].trans \/ context'[r].trans = 0
    /\ base' = base /\ conn' = conn /\ lastConn' = lastConn
    /\ KeepsItems(tq, tq')

\* A step that touches neither flags, ids, connections nor the queue.
LEMMA QuietStep ==
    ASSUME SafetyInv, TypeOK', Quiet
    PROVE  SafetyInv'
<1>1. WaitInv'
  BY DEF SafetyInv, WaitInv, Quiet, KeepsItems
<1>2. base \in Nat /\ conn \in Nat /\ lastConn \in Nat
  BY ConnectionAssumption DEF SafetyInv, TypeOK, TransportOK
<1>3. SentInv'
  BY <1>2 DEF SafetyInv, SentInv, SentIsWatched, Quiet, KeepsItems
<1> QED
  BY <1>1, <1>3 DEF SafetyInv

\* A queue keeps its items when it stays as it is, loses an item that is no
\* payload, or gets one that is no stop.
LEMMA QueueKept ==
    ASSUME tq \in Seq(Item)
    PROVE  /\ KeepsItems(tq, tq)
           /\ \A k : NextItem(k) /\ k # "payload" => KeepsItems(tq, Tail(tq))
           /\ \A x \in Item : x.kind # "stop" => KeepsItems(tq, Append(tq, x))
           /\ \A k, x : NextItem(k) /\ k # "payload" /\ x \in Item /\ x.kind # "stop"
                          => KeepsItems(tq, Append(Tail(tq), x))
<1>1. KeepsItems(tq, tq)
  BY DEF KeepsItems
<1>2. ASSUME NEW k, NextItem(k), k # "payload" PROVE KeepsItems(tq, Tail(tq))
  BY <1>2, KeepsTail
<1>3. \A x \in Item : x.kind # "stop" => KeepsItems(tq, Append(tq, x))
  BY KeepsAppend
<1>4. ASSUME NEW k, NEW x \in Item, NextItem(k), k # "payload", x.kind # "stop"
      PROVE  KeepsItems(tq, Append(Tail(tq), x))
  <2>1. KeepsItems(tq, Tail(tq)) /\ Tail(tq) \in Seq(Item)
    BY <1>4, <1>2, TakeItem
  <2>2. KeepsItems(Tail(tq), Append(Tail(tq), x))
    BY <1>4, <2>1, KeepsAppend
  <2> QED
    BY <2>1, <2>2 DEF KeepsItems
<1> QED
  BY <1>1, <1>2, <1>3, <1>4

\* The contexts that handlers make out of contexts.
LEMMA ContextMarks ==
    /\ Nil.waiting = FALSE /\ Nil.trans = 0
    /\ \A c \in Context : /\ ForgetTransaction(c).waiting = c.waiting
                          /\ ForgetTransaction(c).trans = 0
    /\ \A c \in Context : /\ [c EXCEPT !.delivered = TRUE].waiting = c.waiting
                          /\ [c EXCEPT !.delivered = TRUE].trans = c.trans
    /\ \A c \in Context, i \in 0..MaxMessageId, t \in 0..MaxConnection :
          /\ Completed(c, i, t).waiting = FALSE
          /\ Completed(c, i, t).trans = IF i # 0 THEN t ELSE c.trans
  BY DEF Nil, Context, ForgetTransaction, Completed

\* The transport is replaced and no request counts as sent any more.
LEMMA ReplacementSafe ==
    ASSUME SafetyInv, TypeOK', NEW q \in Seq(Item), ReplaceTransport(q),
           \A r \in Requests : context'[r].trans = 0,
           \A r \in Requests : context'[r].waiting =>
               context[r].waiting /\ status'[r] = status[r] /\ Pending(q, r)
    PROVE  SafetyInv'
<1>1. tq' = Append(q, Stop) /\ base' = lastConn /\ lastConn' = lastConn /\ conn' = conn
  BY DEF ReplaceTransport
<1>2. \A r \in Requests : Pending(q, r) => Pending(tq', r)
  BY <1>1, KeepsAppend, NewItems
<1>3. WaitInv'
  BY <1>2 DEF SafetyInv, WaitInv
<1>4. lastConn \in Nat /\ conn \in Nat
  BY ConnectionAssumption DEF SafetyInv, TypeOK, TransportOK
<1>5. SentInv'
  BY <1>1, <1>4 DEF SafetyInv, SentInv, SentIsWatched
<1> QED
  BY <1>3, <1>5 DEF SafetyInv

-----------------------------------------------------------------------------
(* Both invariants, group of actions by group of actions.                  *)

\* Adding, releasing and removing requests.
LEMMA RequestStepSafe ==
    ASSUME SafetyInv, RequestStep
    PROVE  SafetyInv'
<1> USE DEF SafetyInv
<1>0. TypeOK'
  BY RequestStepType
<1>1. ASSUME NEW r \in Requests, AddRequest(r) PROVE SafetyInv'
  <2>1. Quiet
    BY <1>1, QueueKept DEF AddRequest, Quiet, TypeOK, RequestsOK, transportVars
  <2> QED
    BY <1>0, <2>1, QuietStep
<1>2. ASSUME NEW r \in Requests, ReleaseRequest(r) PROVE SafetyInv'
  <2>1. Quiet
    BY <1>2, QueueKept DEF ReleaseRequest, Quiet, TypeOK, RequestsOK, transportVars
  <2> QED
    BY <1>0, <2>1, QuietStep
<1>3. ASSUME NEW r \in Requests, NEW ask \in BOOLEAN, RemoveRequest(r, ask)
      PROVE  SafetyInv'
  <2>1. tq' = tq \/ tq' = Append(tq, Reset)
    BY <1>3 DEF RemoveRequest
  <2>2. Reset \in Item /\ Reset.kind # "stop"
    BY NewItems DEF Reset
  <2>3. KeepsItems(tq, tq')
    BY <2>1, <2>2, QueueKept DEF TypeOK
  <2>4. \A q \in Requests : context'[q].waiting =>
            context[q].waiting /\ status'[q] = status[q]
    BY <1>3, ContextMarks DEF RemoveRequest, TypeOK, RequestsOK
  <2>5. \A q \in Requests : context'[q].trans = context[q].trans \/ context'[q].trans = 0
    BY <1>3, ContextMarks DEF RemoveRequest, TypeOK, RequestsOK
  <2>6. Quiet
    BY <1>3, <2>3, <2>4, <2>5 DEF RemoveRequest, Quiet, transportVars
  <2> QED
    BY <1>0, <2>6, QuietStep
<1> QED
  BY <1>1, <1>2, <1>3 DEF RequestStep

\* The prepared block: a request of a transaction is not marked as sent, and
\* the others keep their contexts.
LEMMA PreparedMarks ==
    ASSUME NEW w, NEW r \in Requests
    PROVE  /\ Eligible(r) => /\ PreparedContext(w)[r].waiting = w
                             /\ PreparedContext(w)[r].trans = 0
           /\ ~Eligible(r) => PreparedContext(w)[r] = context[r]
  BY DEF PreparedContext

\* A transaction sets the waiting flags together with the payload that clears them.
LEMMA BuildTransactionSafe ==
    ASSUME SafetyInv, NEW A \in SUBSET EligibleRequests, NEW B \in SUBSET dropping,
           BuildTransaction(A, B)
    PROVE  SafetyInv'
<1> DEFINE A2 == EligibleRequests \ A
           B2 == dropping \ B
           p1 == IF A \cup B = {} THEN <<>> ELSE <<PayloadOf(A, B)>>
           p2 == IF A2 \cup B2 = {} THEN <<>> ELSE <<PayloadOf(A2, B2)>>
<1>1. TypeOK /\ TypeOK'
  BY BuildTransactionType DEF SafetyInv
<1>2. PreparedId <= MaxMessageId
  BY <1>1, BuiltIds
<1>3. PayloadOf(A, B) \in Item /\ PayloadOf(A2, B2) \in Item
  BY <1>1, <1>2, PayloadType
<1>4. p1 \in Seq(Item) /\ p2 \in Seq(Item) /\ tq \in Seq(Item)
  BY <1>1, <1>3 DEF TypeOK
<1>5. tq' = tq \o p1 \o p2
  BY DEF BuildTransaction
<1>6. \A r \in EligibleRequests : Pending(p1, r)
  <2> SUFFICES ASSUME NEW r \in EligibleRequests PROVE Pending(p1, r)
    OBVIOUS
  <2>1. A \cup B # {}
    BY DEF BuildTransaction
  <2>2. Len(p1) = 1 /\ p1[1] = PayloadOf(A, B)
    BY <2>1
  <2>3. PayloadOf(A, B).kind = "payload" /\ PayloadOf(A, B).all = EligibleRequests
    BY DEF PayloadOf
  <2> QED
    BY <2>2, <2>3 DEF Pending
<1>7. ~HasStop(p1) /\ ~HasStop(p2)
  <2>1. PayloadOf(A, B).kind = "payload" /\ PayloadOf(A2, B2).kind = "payload"
    BY DEF PayloadOf
  <2>2. ~HasStop(<<>>) /\ ~HasStop(<<PayloadOf(A, B)>>) /\ ~HasStop(<<PayloadOf(A2, B2)>>)
    BY <2>1 DEF HasStop
  <2> QED
    BY <2>2
<1> HIDE DEF p1, p2
<1>8. \A r \in Requests : Pending(tq, r) \/ Pending(p1, r) => Pending(tq', r)
  BY <1>4, <1>5, KeepsConcat
<1>9. ~HasStop(tq')
  <2>1. ~HasStop(tq)
    BY DEF BuildTransaction, CanBuild, Stopping, HasStop
  <2>2. 1 \in Requests
    BY RequestsAssumption DEF Requests
  <2> QED
    BY <1>4, <1>5, <1>7, <2>1, <2>2, KeepsConcat
<1>10. context' = PreparedContext(TRUE) /\ status' = status
       /\ base' = base /\ conn' = conn /\ lastConn' = lastConn
  BY DEF BuildTransaction, transportVars
<1>11. WaitInv'
  <2> SUFFICES ASSUME NEW r \in Requests, context'[r].waiting
               PROVE  status'[r] = "live" /\ Pending(tq', r)
    BY DEF WaitInv
  <2>1. CASE Eligible(r)
    BY <1>6, <1>8, <1>10, <2>1 DEF EligibleRequests, Eligible, Live
  <2>2. CASE ~Eligible(r)
    BY <1>8, <1>10, <2>2, PreparedMarks DEF SafetyInv, WaitInv
  <2> QED
    BY <2>1, <2>2
<1>12. ASSUME NEW r \in Requests
       PROVE  context'[r].trans = context[r].trans \/ context'[r].trans = 0
  <2>1. CASE Eligible(r)
    BY <1>10, <2>1, PreparedMarks
  <2>2. CASE ~Eligible(r)
    BY <1>10, <2>2, PreparedMarks
  <2> QED
    BY <2>1, <2>2
<1>13. /\ base \in Nat /\ conn \in Nat /\ lastConn \in Nat
       /\ \A r \in Requests : context[r].trans \in Nat
  BY <1>1, ConnectionAssumption DEF TypeOK, TransportOK, RequestsOK, Context
<1>14. base' = base /\ conn' = conn /\ lastConn' = lastConn
  BY <1>10
<1>15. SentInv'
  BY <1>9, <1>12, <1>13, <1>14 DEF SafetyInv, SentInv, SentIsWatched
<1> QED
  BY <1>1, <1>11, <1>15 DEF SafetyInv

\* resetSessionInfo leaves no request waiting, and none that counts as sent.
LEMMA NewSessionSafe ==
    ASSUME SafetyInv, TypeOK', NEW q \in Seq(Item), NewSession(q)
    PROVE  SafetyInv'
<1>1. \A r \in Requests : context'[r].trans = 0 /\ context'[r].waiting = FALSE
  BY ContextMarks DEF NewSession
<1>2. ReplaceTransport(q)
  BY DEF NewSession
<1> QED
  BY <1>1, <1>2, ReplacementSafe

\* Transactions that are built or cannot be, and the time sync.
LEMMA BuildStepSafe ==
    ASSUME SafetyInv, BuildStep
    PROVE  SafetyInv'
<1>0. TypeOK /\ TypeOK' /\ tq \in Seq(Item)
  BY BuildStepType DEF SafetyInv, TypeOK
<1>1. ASSUME NEW A \in SUBSET EligibleRequests, NEW B \in SUBSET dropping,
             BuildTransaction(A, B)
      PROVE  SafetyInv'
  BY <1>1, BuildTransactionSafe
<1>2. CASE BuildWithoutSalt
  <2>1. Quiet
    BY <1>0, <1>2, QueueKept, PreparedMarks DEF BuildWithoutSalt, Quiet, transportVars
  <2> QED
    BY <1>0, <2>1, QuietStep
<1>3. CASE BuildMonotonityViolated
  BY <1>0, <1>3, NewSessionSafe DEF BuildMonotonityViolated
<1>4. CASE BuildTimeFix
  <2>1. Quiet
    BY <1>0, <1>4, QueueKept DEF BuildTimeFix, Quiet, requestVars, transportVars
  <2> QED
    BY <1>0, <2>1, QuietStep
<1>5. CASE CompleteTimeSync
  <2>1. Quiet
    BY <1>0, <1>5, QueueKept DEF CompleteTimeSync, Quiet, requestVars, transportVars
  <2> QED
    BY <1>0, <2>1, QuietStep
<1> QED
  BY <1>1, <1>2, <1>3, <1>4, <1>5 DEF BuildStep

\* What the transport does with its queue, its connections and its answers.
LEMMA TransportStepSafe ==
    ASSUME SafetyInv, TransportStep
    PROVE  SafetyInv'
<1>0. TypeOK /\ TypeOK' /\ tq \in Seq(Item)
  BY TransportStepType DEF SafetyInv, TypeOK
<1>10. /\ base \in Nat /\ conn \in Nat /\ lastConn \in Nat
      /\ \A r \in Requests : context[r] \in Context /\ context[r].trans \in Nat
  BY <1>0, ConnectionAssumption DEF TypeOK, TransportOK, RequestsOK, Context
<1>1. CASE SendPayload
  <2> DEFINE p == Head(tq)
  <2>1. p \in Payload /\ NextItem("payload")
    BY <1>0, <1>1, TakeItem, ItemKinds DEF SendPayload
  <2>2. \A r \in Requests :
          context'[r] = IF Live(r) /\ r \in p.all THEN Completed(context[r], p.ids[r], conn)
                        ELSE context[r]
    BY <1>1 DEF SendPayload
  <2>3. \A r \in Requests : p.ids[r] \in 0..MaxMessageId
    BY <2>1 DEF Payload
  <2>4. conn \in 0..MaxConnection
    BY <1>0 DEF TypeOK, TransportOK
  <2>5. ASSUME NEW r \in Requests
        PROVE  /\ Live(r) /\ r \in p.all => context'[r].waiting = FALSE
               /\ ~(Live(r) /\ r \in p.all) => context'[r] = context[r]
               /\ context'[r].trans = context[r].trans \/ context'[r].trans = conn
    BY <1>10, <2>2, <2>3, <2>4, ContextMarks
  <2>6. tq' = Tail(tq) /\ status' = status
        /\ base' = base /\ conn' = conn /\ lastConn' = lastConn
    BY <1>1 DEF SendPayload, transportVars
  <2>7. WaitInv'
    <3> SUFFICES ASSUME NEW r \in Requests, context'[r].waiting
                 PROVE  status'[r] = "live" /\ Pending(tq', r)
      BY DEF WaitInv
    <3>1. ~(Live(r) /\ r \in p.all) /\ context[r].waiting
      BY <2>5
    <3>2. status[r] = "live" /\ Pending(tq, r)
      BY <3>1 DEF SafetyInv, WaitInv
    <3> QED
      BY <1>0, <2>1, <2>6, <3>1, <3>2, KeepsTail DEF Live
  <2>8. HasStop(tq') => HasStop(tq)
    BY <1>0, <2>1, <2>6, KeepsTail
  <2>9. SentInv'
    BY <1>10, <2>5, <2>6, <2>8 DEF SafetyInv, SentInv, SentIsWatched
  <2> QED
    BY <1>0, <2>7, <2>9 DEF SafetyInv
<1>2. CASE RefusePayload
  <2> DEFINE p == Head(tq)
  <2>1. NextItem("payload")
    BY <1>2 DEF RefusePayload
  <2>2. 0 \in 0..MaxMessageId /\ 0 \in 0..MaxConnection
    BY MessageIdAssumption, ConnectionAssumption
  <2>3. \A r \in Requests :
          context'[r] = IF Live(r) /\ r \in p.all THEN Completed(context[r], 0, 0)
                        ELSE context[r]
    BY <1>2 DEF RefusePayload
  <2>4. ASSUME NEW r \in Requests
        PROVE  /\ Live(r) /\ r \in p.all => context'[r].waiting = FALSE
               /\ ~(Live(r) /\ r \in p.all) => context'[r] = context[r]
               /\ context'[r].trans = context[r].trans
    BY <1>10, <2>2, <2>3, ContextMarks
  <2>5. tq' = Tail(tq) /\ status' = status
        /\ base' = base /\ conn' = conn /\ lastConn' = lastConn
    BY <1>2 DEF RefusePayload, transportVars
  <2>6. WaitInv'
    <3> SUFFICES ASSUME NEW r \in Requests, context'[r].waiting
                 PROVE  status'[r] = "live" /\ Pending(tq', r)
      BY DEF WaitInv
    <3>1. ~(Live(r) /\ r \in p.all) /\ context[r].waiting
      BY <2>4
    <3>2. status[r] = "live" /\ Pending(tq, r)
      BY <3>1 DEF SafetyInv, WaitInv
    <3> QED
      BY <1>0, <2>1, <2>5, <3>1, <3>2, KeepsTail DEF Live
  <2>7. HasStop(tq') => HasStop(tq)
    BY <1>0, <2>1, <2>5, KeepsTail
  <2>8. SentInv'
    BY <1>10, <2>4, <2>5, <2>7 DEF SafetyInv, SentInv, SentIsWatched
  <2> QED
    BY <1>0, <2>6, <2>8 DEF SafetyInv
<1>3. CASE StopTransport
  <2>1. NextItem("stop") /\ tq' = Tail(tq)
    BY <1>3 DEF StopTransport
  <2>2. KeepsItems(tq, tq') /\ HasStop(tq)
    BY <1>0, <2>1, KeepsTail
  <2>3. context' = context /\ status' = status
        /\ base' = base /\ conn' = 0 /\ lastConn' = lastConn
    BY <1>3 DEF StopTransport, requestVars
  <2>4. WaitInv'
    BY <2>2, <2>3 DEF SafetyInv, WaitInv, KeepsItems
  <2>5. base = lastConn /\ \A r \in Requests : context[r].trans <= base
    BY <2>2 DEF SafetyInv, SentInv
  <2>6. SentInv'
    BY <1>10, <2>2, <2>3, <2>5 DEF SafetyInv, SentInv, SentIsWatched, KeepsItems
  <2> QED
    BY <1>0, <2>4, <2>6 DEF SafetyInv
<1>4. CASE ResetConnection
  <2>1. [kind |-> "closed", conn |-> conn] \in Item
    BY <1>0, NewItems DEF TypeOK, TransportOK
  <2>2. KeepsItems(tq, tq')
    BY <1>0, <1>4, <2>1, QueueKept DEF ResetConnection, CloseAndNotify
  <2>3. Quiet
    BY <1>4, <2>2 DEF ResetConnection, Quiet, requestVars
  <2> QED
    BY <1>0, <2>3, QuietStep
<1>5. CASE StartConnection
  <2>1. /\ context' = context /\ status' = status /\ tq' = tq /\ base' = base
        /\ conn = 0 /\ ~HasStop(tq) /\ conn' = lastConn + 1 /\ lastConn' = lastConn + 1
    BY <1>5 DEF StartConnection, requestVars, Stopping, HasStop
  <2>2. WaitInv'
    BY <2>1 DEF SafetyInv, WaitInv
  <2>3. \A r \in Requests : context[r].trans <= base
    BY <1>10, <2>1 DEF SafetyInv, SentInv, SentIsWatched
  <2>4. SentInv'
    BY <1>10, <2>1, <2>3 DEF SafetyInv, SentInv, SentIsWatched
  <2> QED
    BY <1>0, <2>2, <2>4 DEF SafetyInv
<1>6. CASE OpenConnection
  <2>1. Quiet
    BY <1>0, <1>6, QueueKept DEF OpenConnection, Quiet, requestVars
  <2> QED
    BY <1>0, <2>1, QuietStep
<1>7. CASE CloseSocket
  <2>1. [kind |-> "closed", conn |-> conn] \in Item
    BY <1>0, NewItems DEF TypeOK, TransportOK
  <2>2. KeepsItems(tq, tq')
    BY <1>0, <1>7, <2>1, QueueKept DEF CloseSocket, CloseAndNotify
  <2>3. Quiet
    BY <1>7, <2>2 DEF CloseSocket, Quiet, requestVars
  <2> QED
    BY <1>0, <2>3, QuietStep
<1>8. CASE CloseConnection
  <2>1. NextItem("closed") /\ tq' = Tail(tq) /\ status' = status
        /\ base' = base /\ lastConn' = lastConn
    BY <1>8 DEF CloseConnection
  <2>2. KeepsItems(tq, tq')
    BY <1>0, <2>1, QueueKept
  <2>3. \A r \in Requests :
            \/ context'[r] = context[r]
            \/ context'[r] = ForgetTransaction(context[r])
    BY <1>8 DEF CloseConnection, TransactionsMayHaveFailed
  <2>4. \A r \in Requests :
            /\ context'[r].waiting = context[r].waiting
            /\ context'[r].trans = context[r].trans \/ context'[r].trans = 0
    BY <1>10, <2>3, ContextMarks
  <2>5. WaitInv'
    BY <2>1, <2>2, <2>4 DEF SafetyInv, WaitInv, KeepsItems
  <2>6. CASE Head(tq).conn = conn /\ ~Stopping
    <3>1. \A r \in Requests : context'[r].trans # conn \/ context'[r].trans = 0
      BY <1>10, <1>8, <2>6, ContextMarks DEF CloseConnection, TransactionsMayHaveFailed
    <3>2. conn' = 0
      BY <1>8, <2>6 DEF CloseConnection
    <3>3. \A r \in Requests : context'[r].trans <= base
      BY <1>10, <2>4, <3>1 DEF SafetyInv, SentInv, SentIsWatched
    <3>4. SentInv'
      BY <1>10, <2>1, <2>2, <2>4, <3>2, <3>3
      DEF SafetyInv, SentInv, SentIsWatched, KeepsItems
    <3> QED
      BY <1>0, <2>5, <3>4 DEF SafetyInv
  <2>7. CASE Head(tq).conn = conn /\ Stopping
    <3>1. HasStop(tq) /\ conn' = 0
      BY <1>8, <2>7 DEF CloseConnection, Stopping, HasStop
    <3>2. \A r \in Requests : context'[r].trans <= base
      BY <1>10, <2>4, <3>1 DEF SafetyInv, SentInv
    <3>3. SentInv'
      BY <1>10, <2>1, <2>2, <2>4, <3>1, <3>2
      DEF SafetyInv, SentInv, SentIsWatched, KeepsItems
    <3> QED
      BY <1>0, <2>5, <3>3 DEF SafetyInv
  <2>8. CASE Head(tq).conn # conn
    <3>1. Quiet
      BY <1>8, <2>1, <2>2, <2>4, <2>8 DEF CloseConnection, Quiet
    <3> QED
      BY <1>0, <3>1, QuietStep
  <2> QED
    BY <2>6, <2>7, <2>8
<1>9. CASE ResetTransport
  <2>1. ReplaceTransport(tq) /\ status' = status
    BY <1>9 DEF ResetTransport
  <2>2. \A r \in Requests : context'[r].waiting = context[r].waiting /\ context'[r].trans = 0
    BY <1>10, <1>9, ContextMarks DEF ResetTransport
  <2>3. \A r \in Requests : context[r].waiting => Pending(tq, r)
    BY DEF SafetyInv, WaitInv
  <2> QED
    BY <1>0, <2>1, <2>2, <2>3, ReplacementSafe
<1> QED
  BY <1>1, <1>2, <1>3, <1>4, <1>5, <1>6, <1>7, <1>8, <1>9 DEF TransportStep

\* The server.
LEMMA ServerStepSafe ==
    ASSUME SafetyInv, ServerStep
    PROVE  SafetyInv'
<1>0. TypeOK /\ TypeOK' /\ tq \in Seq(Item)
  BY ServerStepType DEF SafetyInv, TypeOK
<1>1. ASSUME NEW x \in sent, NEW final \in BOOLEAN, ServerExecute(x, final) PROVE Quiet
  BY <1>0, <1>1, QueueKept DEF ServerExecute, Quiet, requestVars, transportVars
<1>2. ASSUME NEW t \in MessageType, NEW m \in MessageId, Deliver(t, m)
      PROVE  KeepsItems(tq, tq')
  <2> DEFINE x == [kind |-> "data", type |-> t, mid |-> m]
  <2>1. x \in Item /\ x.kind # "stop" /\ tq' = Append(tq, x)
    BY <1>2, NewItems DEF Deliver
  <2> QED
    BY <1>0, <2>1, QueueKept
<1>3. ASSUME NEW t \in Answer, NEW m \in MessageId, ServerAnswer(t, m) PROVE Quiet
  <2>1. KeepsItems(tq, tq')
    BY <1>2, <1>3 DEF ServerAnswer, MessageType
  <2> QED
    BY <1>3, <2>1 DEF ServerAnswer, Quiet, requestVars, transportVars
<1>4. ASSUME NEW t \in Rejection, NEW m \in MessageId, ServerReject(t, m) PROVE Quiet
  <2>1. KeepsItems(tq, tq')
    BY <1>2, <1>4 DEF ServerReject, MessageType
  <2> QED
    BY <1>4, <2>1 DEF ServerReject, Quiet, requestVars, transportVars
<1>5. ASSUME NEW t \in Loss, NEW m \in MessageId, ServerLoses(t, m) PROVE Quiet
  <2>1. KeepsItems(tq, tq')
    BY <1>2, <1>5 DEF ServerLoses, MessageType
  <2> QED
    BY <1>5, <2>1 DEF ServerLoses, Quiet, requestVars, transportVars
<1> QED
  BY <1>0, <1>1, <1>3, <1>4, <1>5, QuietStep DEF ServerStep

\* What arrives from the server.
LEMMA ReceiveStepSafe ==
    ASSUME SafetyInv, ReceiveStep
    PROVE  SafetyInv'
<1>0. TypeOK /\ TypeOK' /\ tq \in Seq(Item)
  BY ReceiveStepType DEF SafetyInv, TypeOK
<1>1. \A r \in Requests : context[r] \in Context
  BY <1>0 DEF TypeOK, RequestsOK
\* Data taken from the queue, with contexts dropped, acknowledged or forgotten.
<1>2. ASSUME NextItem("data"),
             tq' = Tail(tq) \/ tq' = Append(Tail(tq), Reset),
             transportVars' = transportVars,
             \A r \in Requests :
               \/ context'[r] = Nil
               \/ /\ status'[r] = status[r]
                  /\ \/ context'[r] = context[r]
                     \/ context'[r] = [context[r] EXCEPT !.delivered = TRUE]
                     \/ context'[r] = ForgetTransaction(context[r])
      PROVE  SafetyInv'
  <2>1. Reset \in Item /\ Reset.kind # "stop"
    BY NewItems DEF Reset
  <2>2. KeepsItems(tq, tq')
    BY <1>0, <1>2, <2>1, QueueKept
  <2>3. \A r \in Requests : context'[r].waiting =>
            context[r].waiting /\ status'[r] = status[r]
    BY <1>1, <1>2, ContextMarks, ZenonT(30)
  <2>4. \A r \in Requests : context'[r].trans = context[r].trans \/ context'[r].trans = 0
    BY <1>1, <1>2, ContextMarks
  <2>5. Quiet
    BY <1>2, <2>2, <2>3, <2>4 DEF Quiet, transportVars
  <2> QED
    BY <1>0, <2>5, QuietStep
<1>3. CASE IgnoreData
  BY <1>2, <1>3 DEF IgnoreData, requestVars
<1>4. CASE ReceiveDuplicate
  BY <1>2, <1>4 DEF ReceiveDuplicate, Receive, requestVars
<1>5. CASE ReceiveResult
  BY <1>2, <1>5 DEF ReceiveResult, Receive
<1>6. CASE ReceiveRestart
  BY <1>2, <1>6 DEF ReceiveRestart, Receive
<1>7. CASE ReceiveAck
  BY <1>2, <1>7 DEF ReceiveAck, Receive
<1>8. CASE ReceiveBadMessage
  BY <1>2, <1>8 DEF ReceiveBadMessage, Receive
<1>9. CASE ReceiveBadSequence \/ ReceiveUnparsable
  <2>1. NextItem("data") /\ NewSession(Tail(tq))
    BY <1>9 DEF ReceiveBadSequence, ReceiveUnparsable, Receive
  <2>2. Tail(tq) \in Seq(Item)
    BY <1>0, <2>1, TakeItem
  <2> QED
    BY <1>0, <2>1, <2>2, NewSessionSafe
<1>10. CASE ReceiveUndecryptable
  BY <1>2, <1>10 DEF ReceiveUndecryptable, Receive, TransactionsMayHaveFailed
<1>11. CASE ReceiveNewSession
  BY <1>2, <1>11 DEF ReceiveNewSession, Receive
<1>12. CASE ReceiveDropAnswer
  BY <1>2, <1>12 DEF ReceiveDropAnswer, Receive
<1> QED
  BY <1>3, <1>4, <1>5, <1>6, <1>7, <1>8, <1>9, <1>10, <1>11, <1>12 DEF ReceiveStep

-----------------------------------------------------------------------------
\* SafetyInv is inductive.
LEMMA SafetyInvariant == Spec => []SafetyInv
<1>1. Init => SafetyInv
  <2> SUFFICES ASSUME Init PROVE SafetyInv
    OBVIOUS
  <2>1. TypeOK
    BY InitType
  <2>2. \A r \in Requests : context[r] = Nil
    BY DEF Init
  <2>3. WaitInv
    BY <2>2, ContextMarks DEF WaitInv
  <2>4. base = 0 /\ conn = 0 /\ lastConn = 0 /\ ~HasStop(tq)
    BY DEF Init, HasStop
  <2>5. SentInv
    BY <2>2, <2>4, ContextMarks DEF SentInv, SentIsWatched
  <2> QED
    BY <2>1, <2>3, <2>5 DEF SafetyInv
<1>2. SafetyInv /\ [Next]_vars => SafetyInv'
  <2>1. SafetyInv /\ Next => SafetyInv'
    BY RequestStepSafe, BuildStepSafe, TransportStepSafe, ServerStepSafe, ReceiveStepSafe
    DEF Next
  <2>2. ASSUME SafetyInv, UNCHANGED vars PROVE SafetyInv'
    <3>1. TypeOK'
      BY <2>2, StutterType DEF SafetyInv
    <3>2. Quiet
      BY <2>2, QueueKept DEF SafetyInv, TypeOK, Quiet, vars, requestVars, transportVars
    <3> QED
      BY <2>2, <3>1, <3>2, QuietStep
  <2> QED
    BY <2>1, <2>2
<1> QED
  BY <1>1, <1>2, PTL DEF Spec

\* No request waits for good for a completion block: waitingForMessageId is
\* set only while a payload that will clear it is in the transport's queue.
THEOREM WaitingIsTemporaryCorrect == Spec => []WaitingIsTemporary
<1>1. SafetyInv => WaitingIsTemporary
  BY DEF SafetyInv, WaitInv, WaitingIsTemporary, Pending
<1> QED
  BY <1>1, SafetyInvariant, PTL

\* No request of the present transport counts as sent on a connection whose
\* close was already reported, or will be reported to nobody.
THEOREM SentIsWatchedCorrect == Spec => []SentIsWatched
<1>1. SafetyInv => SentIsWatched
  BY DEF SafetyInv, SentInv
<1> QED
  BY <1>1, SafetyInvariant, PTL

-----------------------------------------------------------------------------
(* Which request a message id stands for, and which ids the server may     *)
(* execute.                                                                *)

\* The id m was handed to the transport, sent or executed in the session s.
Used(s, m) ==
    \/ \E i \in 1..Len(tq) : /\ tq[i].kind = "payload" /\ tq[i].session = s
                             /\ \E r \in Requests : tq[i].ids[r] = m
    \/ \E x \in sent : x.s = s /\ x.mid = m
    \/ \E e \in executed : e.s = s /\ e.mid = m

\* The id in a request's context was issued for it, and it is in the list.
ContextOwned ==
    \A r \in Requests : context[r].mid # 0 => Live(r) /\ owner[context[r].mid] = r

\* Ids are issued in order, to requests that were added.
IdsIssued ==
    \A m \in MessageId : owner[m] # 0 => m <= lastId /\ status[owner[m]] # "new"

\* A payload carries for a request an id of that request.
PayloadsOwned ==
    \A i \in 1..Len(tq) : tq[i].kind = "payload" =>
        \A r \in Requests : tq[i].ids[r] # 0 => owner[tq[i].ids[r]] = r /\ r \in tq[i].all

\* Whatever is used was issued.
UsedIsIssued ==
    \A s \in Nat, m \in MessageId : Used(s, m) => owner[m] # 0

\* The only id of a request in the list that was not given up is its context's.
CurrentOnly ==
    \A m \in MessageId :
        owner[m] # 0 /\ Live(owner[m]) => m \in retired \/ context[owner[m]].mid = m

\* Of two ids of a request one was given up.
OneKept ==
    \A m, n \in MessageId :
        owner[m] # 0 /\ owner[m] = owner[n] => m = n \/ m \in retired \/ n \in retired

\* An id of a request in the list that was not given up is of this session.
ThisSession ==
    \A s \in Nat, m \in MessageId :
        Used(s, m) /\ m \notin retired /\ Live(owner[m]) => s = session

\* An id that was not given up is used in one session.
OneSession ==
    \A s, t \in Nat, m \in MessageId :
        Used(s, m) /\ Used(t, m) /\ m \notin retired => s = t

\* An id is executed once in a session.
ExecutedOnce ==
    \A e, f \in executed : e.s = f.s /\ e.mid = f.mid => e = f

\* A result on its way is that of an executed message.
ResultsExecuted ==
    \A i \in 1..Len(tq) : tq[i].kind = "data" /\ tq[i].type = "result" =>
        \E e \in executed : e.mid = tq[i].mid

\* The inductive strengthening of AnswerIsOwn and NoSilentReissue.
IdInv ==
    /\ TypeOK
    /\ ContextOwned /\ IdsIssued /\ PayloadsOwned /\ UsedIsIssued
    /\ CurrentOnly /\ OneKept /\ ThisSession /\ OneSession
    /\ ExecutedOnce /\ ResultsExecuted /\ AnswerIsOwn

\* Every payload of q is one of p.
PayloadsFrom(q, p) ==
    \A i \in 1..Len(q) : q[i].kind = "payload" => \E j \in 1..Len(p) : p[j] = q[i]

\* A request keeps its id; or it leaves the list; or its id is given up for
\* none, or for another id of the same request.
Keeps(r) ==
    \/ /\ context'[r].mid = context[r].mid
       /\ status'[r] = status[r] \/ (status[r] = "new" /\ status'[r] = "live")
    \/ context'[r].mid = 0 /\ status'[r] \notin {"new", "live"}
    \/ /\ status'[r] = status[r] /\ context[r].mid \in retired' \cup {0}
       /\ \/ context'[r].mid = 0
          \/ Live(r) /\ owner[context'[r].mid] = r

\* A step that issues no ids.
Calm ==
    /\ owner' = owner /\ lastId' = lastId
    /\ retired \subseteq retired'
    /\ \A r \in Requests : Keeps(r)
    /\ session' = session \/ \A r \in Requests : context'[r].mid = 0
    /\ PayloadsFrom(tq', tq)
    /\ \A s \in Nat, m \in MessageId : Used(s, m)' => Used(s, m)

\* What a request owns, in the terms the provers need.
LEMMA OwnerType ==
    ASSUME TypeOK
    PROVE  /\ \A m \in MessageId : owner[m] # 0 => owner[m] \in Requests
           /\ \A r \in Requests : r # 0
           /\ \A m \in MessageId : m # 0
           /\ \A r \in Requests : context[r].mid # 0 => context[r].mid \in MessageId
<1>1. \A m \in MessageId : owner[m] # 0 => owner[m] \in Requests
  BY RequestsAssumption DEF TypeOK, HistoryOK, Requests
<1>2. (\A r \in Requests : r # 0) /\ (\A m \in MessageId : m # 0)
  BY DEF Requests, MessageId
<1>3. \A r \in Requests : context[r].mid # 0 => context[r].mid \in MessageId
  BY DEF TypeOK, RequestsOK, Context, MessageId
<1> QED
  BY <1>1, <1>2, <1>3

\* A step that issues no ids keeps the bookkeeping of ids.
LEMMA CalmStep ==
    ASSUME IdInv, TypeOK', Calm, ExecutedOnce', ResultsExecuted', AnswerIsOwn'
    PROVE  IdInv'
<1>0. TypeOK
  BY DEF IdInv
<1>1. ContextOwned'
  <2> SUFFICES ASSUME NEW r \in Requests, context'[r].mid # 0
               PROVE  status'[r] = "live" /\ owner'[context'[r].mid] = r
    BY DEF ContextOwned, Live
  <2>1. Keeps(r) /\ owner' = owner
    BY DEF Calm
  <2>2. context[r].mid # 0 => status[r] = "live" /\ owner[context[r].mid] = r
    BY DEF IdInv, ContextOwned, Live
  <2> QED
    BY <2>1, <2>2 DEF Keeps, Live
<1>2. IdsIssued'
  <2> SUFFICES ASSUME NEW m \in MessageId, owner'[m] # 0
               PROVE  m <= lastId' /\ status'[owner'[m]] # "new"
    BY DEF IdsIssued
  <2>1. owner'[m] = owner[m] /\ lastId' = lastId
    BY DEF Calm
  <2>2. m <= lastId /\ status[owner[m]] # "new" /\ owner[m] \in Requests
    BY <1>0, <2>1, OwnerType DEF IdInv, IdsIssued
  <2>3. Keeps(owner[m])
    BY <2>2 DEF Calm
  <2> QED
    BY <2>1, <2>2, <2>3 DEF Keeps
<1>3. PayloadsOwned'
  <2> SUFFICES ASSUME NEW i \in 1..Len(tq'), tq'[i].kind = "payload",
                      NEW r \in Requests, tq'[i].ids[r] # 0
               PROVE  owner'[tq'[i].ids[r]] = r /\ r \in tq'[i].all
    BY DEF PayloadsOwned
  <2>1. PICK j \in 1..Len(tq) : tq[j] = tq'[i]
    BY DEF Calm, PayloadsFrom
  <2> QED
    BY <2>1 DEF Calm, IdInv, PayloadsOwned
<1>4. UsedIsIssued'
  BY DEF Calm, IdInv, UsedIsIssued
<1>5. \A m \in MessageId :
        owner[m] # 0 /\ status'[owner[m]] = "live" => status[owner[m]] = "live"
  <2> SUFFICES ASSUME NEW m \in MessageId, owner[m] # 0, status'[owner[m]] = "live"
               PROVE  status[owner[m]] = "live"
    OBVIOUS
  <2>1. status[owner[m]] # "new" /\ owner[m] \in Requests
    BY <1>0, OwnerType DEF IdInv, IdsIssued
  <2>2. Keeps(owner[m])
    BY <2>1 DEF Calm
  <2> QED
    BY <2>1, <2>2 DEF Keeps
<1>6. CurrentOnly'
  <2> SUFFICES ASSUME NEW m \in MessageId, owner'[m] # 0, status'[owner'[m]] = "live",
                      m \notin retired'
               PROVE  context'[owner'[m]].mid = m
    BY DEF CurrentOnly, Live
  <2>1. owner'[m] = owner[m] /\ retired \subseteq retired'
    BY DEF Calm
  <2>2. status[owner[m]] = "live" /\ owner[m] \in Requests
    BY <1>0, <1>5, <2>1, OwnerType
  <2>3. context[owner[m]].mid = m /\ m # 0
    BY <1>0, <2>1, <2>2, OwnerType DEF IdInv, CurrentOnly, Live
  <2>4. Keeps(owner[m])
    BY <2>2 DEF Calm
  <2> QED
    BY <2>1, <2>2, <2>3, <2>4 DEF Keeps
<1>7. OneKept'
  BY DEF Calm, IdInv, OneKept
<1>8. ThisSession'
  <2> SUFFICES ASSUME NEW s \in Nat, NEW m \in MessageId, Used(s, m)', m \notin retired',
                      status'[owner'[m]] = "live"
               PROVE  s = session'
    BY DEF ThisSession, Live
  <2>1. owner'[m] = owner[m] /\ retired \subseteq retired' /\ Used(s, m)
    BY DEF Calm
  <2>2. owner[m] # 0 /\ owner[m] \in Requests
    BY <1>0, <2>1, OwnerType DEF IdInv, UsedIsIssued
  <2>3. s = session
    BY <1>5, <2>1, <2>2 DEF IdInv, ThisSession, Live
  <2>4. context'[owner[m]].mid = m /\ m # 0
    BY <1>0, <1>6, <2>1, <2>2, OwnerType DEF CurrentOnly, Live
  <2> QED
    BY <2>2, <2>3, <2>4 DEF Calm
<1>9. OneSession'
  BY DEF Calm, IdInv, OneSession
<1> QED
  BY <1>1, <1>2, <1>3, <1>4, <1>6, <1>7, <1>8, <1>9 DEF IdInv

\* q holds no payload and no result that p does not hold.
NothingNew(q, p) ==
    \A i \in 1..Len(q) :
        q[i].kind = "payload" \/ (q[i].kind = "data" /\ q[i].type = "result")
            => \E j \in 1..Len(p) : p[j] = q[i]

\* A queue that loses its first item, or gets an item that is neither payload
\* nor result, holds nothing new.
LEMMA QueueNothingNew ==
    ASSUME NEW q \in Seq(Item)
    PROVE  /\ NothingNew(q, q)
           /\ q # <<>> => Tail(q) \in Seq(Item) /\ NothingNew(Tail(q), q)
           /\ \A x \in Item : x.kind \notin {"payload", "data"}
                                 \/ (x.kind = "data" /\ x.type # "result")
                                 => NothingNew(Append(q, x), q)
<1>1. NothingNew(q, q)
  BY DEF NothingNew
<1>2. ASSUME q # <<>> PROVE Tail(q) \in Seq(Item) /\ NothingNew(Tail(q), q)
  <2> DEFINE t == Tail(q)
  <2>1. /\ t \in Seq(Item) /\ Len(q) \in Nat /\ Len(t) = Len(q) - 1
        /\ \A i \in 1..Len(t) : t[i] = q[i + 1]
    BY <1>2, HeadTailProperties, LenProperties, EmptySeq
  <2> HIDE DEF t
  <2>2. \A i \in 1..Len(t) : i + 1 \in 1..Len(q)
    BY <2>1
  <2>3. NothingNew(t, q)
    BY <2>1, <2>2 DEF NothingNew
  <2> QED
    BY <2>1, <2>3 DEF t
<1>3. ASSUME NEW x \in Item,
             x.kind \notin {"payload", "data"} \/ (x.kind = "data" /\ x.type # "result")
      PROVE  NothingNew(Append(q, x), q)
  <2> DEFINE p == Append(q, x)
  <2>1. /\ Len(q) \in Nat /\ Len(p) = Len(q) + 1
        /\ \A i \in 1..Len(q) : p[i] = q[i]
        /\ p[Len(q) + 1] = x
    BY AppendProperties, LenProperties
  <2> HIDE DEF p
  <2>2. NothingNew(p, q)
    BY <1>3, <2>1 DEF NothingNew
  <2> QED
    BY <2>2 DEF p
<1> QED
  BY <1>1, <1>2, <1>3

\* Both kinds of steps together.
LEMMA NothingNewTrans ==
    ASSUME NEW p, NEW q, NEW u, NothingNew(q, p), NothingNew(u, q)
    PROVE  NothingNew(u, p)
  BY DEF NothingNew

\* What a queue that holds nothing new does for the invariant.
LEMMA NothingNewUsed ==
    ASSUME NothingNew(tq', tq), sent' \subseteq sent, executed' = executed, ResultsExecuted
    PROVE  /\ PayloadsFrom(tq', tq)
           /\ \A s \in Nat, m \in MessageId : Used(s, m)' => Used(s, m)
           /\ ResultsExecuted'
<1>1. PayloadsFrom(tq', tq)
  BY DEF NothingNew, PayloadsFrom
<1>2. ASSUME NEW s \in Nat, NEW m \in MessageId, Used(s, m)' PROVE Used(s, m)
  <2>1. CASE \E i \in 1..Len(tq') : /\ tq'[i].kind = "payload" /\ tq'[i].session = s
                                   /\ \E r \in Requests : tq'[i].ids[r] = m
    BY <1>1, <2>1 DEF PayloadsFrom, Used
  <2>2. CASE \E x \in sent' : x.s = s /\ x.mid = m
    BY <2>2 DEF Used
  <2>3. CASE \E e \in executed' : e.s = s /\ e.mid = m
    BY <2>3 DEF Used
  <2> QED
    BY <1>2, <2>1, <2>2, <2>3 DEF Used
<1>3. ResultsExecuted'
  BY DEF NothingNew, ResultsExecuted
<1> QED
  BY <1>1, <1>2, <1>3

\* A step that issues no ids, passes no result on and executes nothing.
LEMMA PlainStep ==
    ASSUME IdInv, TypeOK', owner' = owner, lastId' = lastId, answer' = answer,
           executed' = executed, sent' \subseteq sent, retired \subseteq retired',
           \A r \in Requests : Keeps(r),
           session' = session \/ \A r \in Requests : context'[r].mid = 0,
           NothingNew(tq', tq)
    PROVE  IdInv'
<1>1. ResultsExecuted /\ ExecutedOnce /\ AnswerIsOwn
  BY DEF IdInv
<1>2. Calm /\ ResultsExecuted'
  BY <1>1, NothingNewUsed DEF Calm
<1>3. ExecutedOnce' /\ AnswerIsOwn'
  BY <1>1 DEF ExecutedOnce, AnswerIsOwn
<1> QED
  BY <1>2, <1>3, CalmStep

\* The ids in the contexts that handlers make out of contexts.
LEMMA ContextIds ==
    /\ Nil.mid = 0
    /\ \A c \in Context : /\ ForgetTransaction(c).mid = c.mid
                          /\ [c EXCEPT !.delivered = TRUE].mid = c.mid
    /\ \A c \in Context, i \in 0..MaxMessageId, t \in 0..MaxConnection :
          Completed(c, i, t).mid = IF i # 0 THEN i ELSE c.mid
  BY DEF Nil, Context, ForgetTransaction, Completed

-----------------------------------------------------------------------------
(* The bookkeeping of ids, group of actions by group of actions.           *)

\* Adding, releasing and removing requests.
LEMMA RequestStepIds ==
    ASSUME IdInv, RequestStep
    PROVE  IdInv'
<1>0. TypeOK /\ TypeOK' /\ tq \in Seq(Item)
  BY RequestStepType DEF IdInv, TypeOK
<1>1. ASSUME NEW r \in Requests, AddRequest(r) PROVE IdInv'
  <2>1. \A q \in Requests : Keeps(q)
    BY <1>0, <1>1 DEF AddRequest, Keeps, TypeOK, RequestsOK
  <2>2. NothingNew(tq', tq)
    BY <1>0, <1>1, QueueNothingNew DEF AddRequest
  <2> QED
    BY <1>0, <1>1, <2>1, <2>2, PlainStep
    DEF AddRequest, sessionVars, serverVars, historyVars
<1>2. ASSUME NEW r \in Requests, ReleaseRequest(r) PROVE IdInv'
  <2>1. \A q \in Requests : Keeps(q)
    BY <1>2 DEF ReleaseRequest, Keeps
  <2>2. NothingNew(tq', tq)
    BY <1>0, <1>2, QueueNothingNew DEF ReleaseRequest
  <2> QED
    BY <1>0, <1>2, <2>1, <2>2, PlainStep
    DEF ReleaseRequest, sessionVars, serverVars, historyVars
<1>3. ASSUME NEW r \in Requests, NEW ask \in BOOLEAN, RemoveRequest(r, ask)
      PROVE  IdInv'
  <2>1. \A q \in Requests : Keeps(q)
    BY <1>0, <1>3, ContextIds DEF RemoveRequest, Keeps, TypeOK, RequestsOK
  <2>2. Reset \in Item /\ Reset.kind \notin {"payload", "data"}
    BY NewItems DEF Reset
  <2>3. tq' = tq \/ tq' = Append(tq, Reset)
    BY <1>3 DEF RemoveRequest
  <2>4. NothingNew(tq', tq)
    BY <1>0, <2>2, <2>3, QueueNothingNew
  <2>5. retired \subseteq retired'
    BY <1>3 DEF RemoveRequest
  <2> QED
    BY <1>0, <1>3, <2>1, <2>4, <2>5, PlainStep DEF RemoveRequest, sessionVars, serverVars
<1> QED
  BY <1>1, <1>2, <1>3 DEF RequestStep

\* resetSessionInfo gives up every id that a context holds.
LEMMA NewSessionIds ==
    ASSUME IdInv, TypeOK', NEW q \in Seq(Item), NothingNew(q, tq), NewSession(q),
           serverVars' = serverVars
    PROVE  IdInv'
<1>1. \A r \in Requests : context'[r].mid = 0
  BY ContextIds DEF NewSession
<1>2. \A r \in Requests : Keeps(r)
  BY <1>1 DEF NewSession, Keeps
<1>3. Stop \in Item /\ Stop.kind \notin {"payload", "data"}
  BY NewItems DEF Stop
<1>4. NothingNew(Append(q, Stop), q)
  BY <1>3, QueueNothingNew
<1>5. NothingNew(tq', tq)
  BY <1>4, NothingNewTrans DEF NewSession, ReplaceTransport
<1> QED
  BY <1>1, <1>2, <1>5, PlainStep DEF NewSession, serverVars

\* What arrives from the server, but for a result.
LEMMA ReceiveStepIds ==
    ASSUME IdInv, ReceiveStep
    PROVE  IdInv'
<1>0. TypeOK /\ TypeOK' /\ tq \in Seq(Item)
  BY ReceiveStepType DEF IdInv, TypeOK
<1>1. \A r \in Requests : context[r] \in Context
  BY <1>0 DEF TypeOK, RequestsOK
<1>2. Reset \in Item /\ Reset.kind \notin {"payload", "data"}
  BY NewItems DEF Reset
\* Data taken from the queue, with contexts dropped, acknowledged or forgotten.
<1>3. ASSUME tq # <<>>,
             tq' = Tail(tq) \/ tq' = Append(Tail(tq), Reset),
             owner' = owner, lastId' = lastId, answer' = answer, serverVars' = serverVars,
             status' = status, session' = session, retired \subseteq retired',
             \A r \in Requests :
               \/ context'[r] = context[r]
               \/ context'[r] = [context[r] EXCEPT !.delivered = TRUE]
               \/ context'[r] = ForgetTransaction(context[r])
               \/ context'[r] = Nil /\ context[r].mid \in retired' \cup {0}
      PROVE  IdInv'
  <2>1. \A r \in Requests : Keeps(r)
    BY <1>1, <1>3, ContextIds DEF Keeps
  <2>2. Tail(tq) \in Seq(Item) /\ NothingNew(Tail(tq), tq)
    BY <1>0, <1>3, QueueNothingNew
  <2>3. NothingNew(Append(Tail(tq), Reset), Tail(tq))
    BY <1>2, <2>2, QueueNothingNew
  <2>4. NothingNew(Append(Tail(tq), Reset), tq)
    BY <2>2, <2>3, NothingNewTrans
  <2>5. NothingNew(tq', tq)
    BY <1>3, <2>2, <2>4
  <2> QED
    BY <1>0, <1>3, <2>1, <2>5, PlainStep DEF serverVars
<1>4. CASE IgnoreData
  BY <1>3, <1>4 DEF IgnoreData, NextItem, requestVars, sessionVars, historyVars
<1>5. CASE ReceiveDuplicate
  BY <1>3, <1>5
  DEF ReceiveDuplicate, Receive, NextItem, requestVars, sessionVars, historyVars
<1>6. CASE ReceiveResult
  <2> DEFINE m == Head(tq).mid
  <2>1. tq # <<>> /\ tq' = Tail(tq) /\ Head(tq).kind = "data" /\ Head(tq).type = "result"
    BY <1>6 DEF ReceiveResult, Receive, NextItem
  <2>2. m \in MessageId /\ Head(tq) = tq[1] /\ Len(tq) \in Nat \ {0}
    BY <1>0, <1>6, ReceivedData, TakeItem DEF ReceiveResult, Receive
  <2>3. \E e \in executed : e.mid = m
    BY <2>1, <2>2 DEF IdInv, ResultsExecuted
  <2>4. NothingNew(tq', tq)
    BY <1>0, <2>1, QueueNothingNew
  <2>5. owner' = owner /\ lastId' = lastId /\ retired' = retired /\ sent' = sent
        /\ executed' = executed /\ session' = session
    BY <1>6 DEF ReceiveResult, serverVars
  <2>6. \A r \in Requests : Keeps(r)
    BY <1>6, <2>5, ContextIds DEF ReceiveResult, Keeps
  <2>7. Calm /\ ResultsExecuted'
    BY <2>4, <2>5, <2>6, NothingNewUsed DEF Calm, IdInv
  <2>8. ExecutedOnce'
    BY <2>5 DEF IdInv, ExecutedOnce
  <2>9. AnswerIsOwn'
    <3> SUFFICES ASSUME NEW r \in Requests, answer'[r] # 0
                 PROVE  /\ owner'[answer'[r]] = r
                        /\ \E e \in executed' : e.mid = answer'[r]
      BY DEF AnswerIsOwn
    <3>1. CASE Matches(r, m)
      <4>1. answer'[r] = m /\ context[r].mid = m /\ m # 0
        BY <1>0, <1>6, <2>2, <3>1, OwnerType DEF ReceiveResult, Matches
      <4>2. owner[m] = r
        BY <4>1 DEF IdInv, ContextOwned
      <4> QED
        BY <2>3, <2>5, <4>1, <4>2
    <3>2. CASE ~Matches(r, m)
      <4>1. answer'[r] = answer[r]
        BY <1>6, <3>2 DEF ReceiveResult
      <4> QED
        BY <2>5, <4>1 DEF IdInv, AnswerIsOwn
    <3> QED
      BY <3>1, <3>2
  <2> QED
    BY <1>0, <2>7, <2>8, <2>9, CalmStep
<1>7. CASE ReceiveRestart
  <2>1. \A r \in Requests : context'[r] = context[r]
            \/ (context'[r] = Nil /\ context[r].mid \in retired')
    BY <1>7 DEF ReceiveRestart, Matches
  <2> QED
    BY <1>3, <1>7, <2>1 DEF ReceiveRestart, Receive, NextItem, serverVars
<1>8. CASE ReceiveAck
  BY <1>3, <1>8 DEF ReceiveAck, Receive, NextItem, sessionVars, historyVars
<1>9. CASE ReceiveBadMessage
  <2>1. \A r \in Requests : context'[r] = context[r]
            \/ (context'[r] = Nil /\ context[r].mid \in retired')
    BY <1>9 DEF ReceiveBadMessage
  <2> QED
    BY <1>3, <1>9, <2>1 DEF ReceiveBadMessage, Receive, NextItem, sessionVars
<1>10. CASE ReceiveBadSequence \/ ReceiveUnparsable
  <2>1. tq # <<>> /\ NewSession(Tail(tq)) /\ serverVars' = serverVars
    BY <1>10 DEF ReceiveBadSequence, ReceiveUnparsable, Receive, NextItem
  <2>2. Tail(tq) \in Seq(Item) /\ NothingNew(Tail(tq), tq)
    BY <1>0, <2>1, QueueNothingNew
  <2> QED
    BY <1>0, <2>1, <2>2, NewSessionIds
<1>11. CASE ReceiveUndecryptable
  BY <1>3, <1>11 DEF ReceiveUndecryptable, Receive, NextItem, TransactionsMayHaveFailed,
     sessionVars, historyVars
<1>12. CASE ReceiveNewSession
  <2>1. \A r \in Requests : context'[r] = context[r]
            \/ (context'[r] = Nil /\ context[r].mid \in retired')
    BY <1>12 DEF ReceiveNewSession
  <2> QED
    BY <1>3, <1>12, <2>1 DEF ReceiveNewSession, Receive, NextItem, sessionVars
<1>13. CASE ReceiveDropAnswer
  BY <1>3, <1>13 DEF ReceiveDropAnswer, Receive, NextItem, sessionVars, historyVars
<1> QED
  BY <1>4, <1>5, <1>6, <1>7, <1>8, <1>9, <1>10, <1>11, <1>12, <1>13 DEF ReceiveStep

\* The payload at the head of the queue puts the ids it carries into contexts.
LEMMA SendPayloadIds ==
    ASSUME IdInv, TypeOK', SendPayload
    PROVE  IdInv'
<1>0. TypeOK /\ tq \in Seq(Item)
  BY DEF IdInv, TypeOK
<1> DEFINE p == Head(tq)
<1>1. /\ p \in Payload /\ p = tq[1] /\ p.kind = "payload" /\ tq # <<>>
      /\ Len(tq) \in Nat \ {0}
  BY <1>0, TakeItem, ItemKinds DEF SendPayload, NextItem
<1>2. 1 \in 1..Len(tq)
  BY <1>1
<1>3. /\ \A r \in Requests :
          context'[r] = IF Live(r) /\ r \in p.all THEN Completed(context[r], p.ids[r], conn)
                        ELSE context[r]
      /\ sent' = sent \cup {[c |-> conn, s |-> p.session, mid |-> p.ids[r]] :
                                   r \in {q \in Requests : p.ids[q] # 0}}
      /\ retired' = retired \cup Displaced(p)
      /\ tq' = Tail(tq) /\ status' = status /\ session' = session /\ lastId' = lastId
      /\ owner' = owner /\ answer' = answer /\ executed' = executed
  BY DEF SendPayload, sessionVars
<1>4. \A r \in Requests : p.ids[r] # 0 => owner[p.ids[r]] = r
  BY <1>1, <1>2 DEF IdInv, PayloadsOwned
<1>5. ASSUME NEW r \in Requests PROVE Keeps(r)
  <2>1. context[r] \in Context /\ p.ids[r] \in 0..MaxMessageId /\ conn \in 0..MaxConnection
    BY <1>0, <1>1 DEF TypeOK, RequestsOK, TransportOK, Payload
  <2>2. CASE Live(r) /\ r \in p.all /\ p.ids[r] \notin {0, context[r].mid}
    <3>1. context'[r].mid = p.ids[r]
      BY <1>3, <2>1, <2>2, ContextIds
    <3>2. context[r].mid \in Displaced(p) \cup {0}
      BY <2>2 DEF Displaced
    <3> QED
      BY <1>3, <1>4, <2>2, <3>1, <3>2 DEF Keeps
  <2>3. CASE ~(Live(r) /\ r \in p.all /\ p.ids[r] \notin {0, context[r].mid})
    <3>1. context'[r].mid = context[r].mid
      BY <1>3, <2>1, <2>3, ContextIds
    <3> QED
      BY <1>3, <3>1 DEF Keeps
  <2> QED
    BY <2>2, <2>3
<1>6. NothingNew(tq', tq)
  BY <1>0, <1>1, <1>3, QueueNothingNew
<1>7. PayloadsFrom(tq', tq)
  BY <1>6 DEF NothingNew, PayloadsFrom
<1>8. ASSUME NEW s \in Nat, NEW m \in MessageId, Used(s, m)' PROVE Used(s, m)
  <2>1. CASE \E i \in 1..Len(tq') : /\ tq'[i].kind = "payload" /\ tq'[i].session = s
                                   /\ \E r \in Requests : tq'[i].ids[r] = m
    BY <1>7, <2>1 DEF PayloadsFrom, Used
  <2>2. CASE \E x \in sent' : x.s = s /\ x.mid = m
    <3>1. PICK x \in sent' : x.s = s /\ x.mid = m
      BY <2>2
    <3>2. CASE x \in sent
      BY <3>1, <3>2 DEF Used
    <3>3. CASE x \notin sent
      <4>1. PICK r \in Requests :
                 p.ids[r] # 0 /\ x = [c |-> conn, s |-> p.session, mid |-> p.ids[r]]
        BY <1>3, <3>3
      <4>2. p.session = s /\ p.ids[r] = m
        BY <3>1, <4>1
      <4> QED
        BY <1>1, <1>2, <4>2 DEF Used
    <3> QED
      BY <3>2, <3>3
  <2>3. CASE \E e \in executed' : e.s = s /\ e.mid = m
    BY <1>3, <2>3 DEF Used
  <2> QED
    BY <1>8, <2>1, <2>2, <2>3 DEF Used
<1>9. Calm
  BY <1>3, <1>5, <1>7, <1>8 DEF Calm
<1>10. ExecutedOnce' /\ AnswerIsOwn'
  BY <1>3 DEF IdInv, ExecutedOnce, AnswerIsOwn
<1>11. ResultsExecuted'
  BY <1>3, <1>6 DEF IdInv, NothingNew, ResultsExecuted
<1> QED
  BY <1>9, <1>10, <1>11, CalmStep

\* What the transport does with its queue, its connections and its answers.
LEMMA TransportStepIds ==
    ASSUME IdInv, TransportStep
    PROVE  IdInv'
<1>0. TypeOK /\ TypeOK' /\ tq \in Seq(Item)
  BY TransportStepType DEF IdInv, TypeOK
<1>1. \A r \in Requests : context[r] \in Context
  BY <1>0 DEF TypeOK, RequestsOK
<1>2. [kind |-> "closed", conn |-> conn] \in Item
  BY <1>0, NewItems DEF TypeOK, TransportOK
<1>3. /\ NothingNew(tq, tq)
      /\ NothingNew(Append(tq, [kind |-> "closed", conn |-> conn]), tq)
  <2> DEFINE x == [kind |-> "closed", conn |-> conn]
  <2>1. x \in Item /\ x.kind \notin {"payload", "data"}
    BY <1>2
  <2> HIDE DEF x
  <2>2. NothingNew(Append(tq, x), tq)
    BY <1>0, <2>1, QueueNothingNew
  <2> QED
    BY <1>0, <2>2, QueueNothingNew DEF x
<1>4. \A k : NextItem(k) =>
        /\ NothingNew(Tail(tq), tq)
        /\ NothingNew(Append(Tail(tq), [kind |-> "closed", conn |-> conn]), tq)
  <2> SUFFICES ASSUME tq # <<>>
               PROVE  /\ NothingNew(Tail(tq), tq)
                      /\ NothingNew(Append(Tail(tq), [kind |-> "closed", conn |-> conn]), tq)
    BY DEF NextItem
  <2> DEFINE x == [kind |-> "closed", conn |-> conn]
  <2>1. x \in Item /\ x.kind \notin {"payload", "data"}
    BY <1>2
  <2> HIDE DEF x
  <2>2. Tail(tq) \in Seq(Item) /\ NothingNew(Tail(tq), tq)
    BY <1>0, QueueNothingNew
  <2>3. NothingNew(Append(Tail(tq), x), Tail(tq))
    BY <2>1, <2>2, QueueNothingNew
  <2>4. NothingNew(Append(Tail(tq), x), tq)
    BY <2>2, <2>3, NothingNewTrans
  <2> QED
    BY <2>2, <2>4 DEF x
\* Contexts that keep their ids, and a queue with nothing new.
<1>5. ASSUME \A r \in Requests : context'[r].mid = context[r].mid,
             NothingNew(tq', tq), status' = status,
             UNCHANGED <<sessionVars, serverVars, historyVars>>
      PROVE  IdInv'
  <2>1. \A r \in Requests : Keeps(r)
    BY <1>5 DEF Keeps
  <2> QED
    BY <1>0, <1>5, <2>1, PlainStep DEF sessionVars, serverVars, historyVars
<1>6. CASE SendPayload
  BY <1>0, <1>6, SendPayloadIds
<1>7. CASE RefusePayload
  <2>1. 0 \in 0..MaxMessageId /\ 0 \in 0..MaxConnection
    BY MessageIdAssumption, ConnectionAssumption
  <2>2. \A r \in Requests : context'[r] = context[r] \/ context'[r] = Completed(context[r], 0, 0)
    BY <1>7 DEF RefusePayload
  <2>3. \A r \in Requests : context'[r].mid = context[r].mid
    BY <1>1, <2>1, <2>2, ContextIds
  <2> QED
    BY <1>4, <1>5, <1>7, <2>3 DEF RefusePayload
<1>8. CASE StopTransport
  BY <1>4, <1>5, <1>8 DEF StopTransport, requestVars
<1>9. CASE ResetConnection
  <2>1. NothingNew(tq', tq)
    BY <1>4, <1>9 DEF ResetConnection, CloseAndNotify
  <2> QED
    BY <1>5, <1>9, <2>1 DEF ResetConnection, requestVars
<1>10. CASE StartConnection
  BY <1>3, <1>5, <1>10 DEF StartConnection, requestVars
<1>11. CASE OpenConnection
  BY <1>3, <1>5, <1>11 DEF OpenConnection, requestVars
<1>12. CASE CloseSocket
  BY <1>3, <1>5, <1>12 DEF CloseSocket, CloseAndNotify, requestVars
<1>13. CASE CloseConnection
  <2>1. \A r \in Requests :
            context'[r] = context[r] \/ context'[r] = ForgetTransaction(context[r])
    BY <1>13 DEF CloseConnection, TransactionsMayHaveFailed
  <2>2. \A r \in Requests : context'[r].mid = context[r].mid
    BY <1>1, <2>1, ContextIds
  <2> QED
    BY <1>4, <1>5, <1>13, <2>2 DEF CloseConnection
<1>14. CASE ResetTransport
  <2>1. \A r \in Requests : context'[r].mid = context[r].mid
    BY <1>1, <1>14, ContextIds DEF ResetTransport
  <2>2. Stop \in Item /\ Stop.kind \notin {"payload", "data"}
    BY NewItems DEF Stop
  <2>3. NothingNew(tq', tq)
    BY <1>0, <1>14, <2>2, QueueNothingNew DEF ResetTransport, ReplaceTransport
  <2> QED
    BY <1>5, <1>14, <2>1, <2>3 DEF ResetTransport
<1> QED
  BY <1>6, <1>7, <1>8, <1>9, <1>10, <1>11, <1>12, <1>13, <1>14 DEF TransportStep

\* The server executes an id once in a session, and answers what it executed.
LEMMA ServerStepIds ==
    ASSUME IdInv, ServerStep
    PROVE  IdInv'
<1>0. TypeOK /\ TypeOK' /\ tq \in Seq(Item)
  BY ServerStepType DEF IdInv, TypeOK
<1>1. ASSUME NEW x \in sent, NEW final \in BOOLEAN, ServerExecute(x, final) PROVE IdInv'
  <2> DEFINE y == [s |-> x.s, mid |-> x.mid, final |-> final]
  <2>1. /\ executed' = executed \cup {y} /\ y.s = x.s /\ y.mid = x.mid
        /\ \A e \in executed : e.s = x.s => e.mid # x.mid
    BY <1>1 DEF ServerExecute
  <2> HIDE DEF y
  <2>2. /\ tq' = tq /\ sent' = sent /\ owner' = owner /\ lastId' = lastId
        /\ retired' = retired /\ answer' = answer /\ session' = session
        /\ status' = status /\ context' = context
    BY <1>1 DEF ServerExecute, requestVars, sessionVars, historyVars
  <2>3. \A r \in Requests : Keeps(r)
    BY <2>2 DEF Keeps
  <2>4. PayloadsFrom(tq', tq)
    BY <2>2 DEF PayloadsFrom
  <2>5. ASSUME NEW s \in Nat, NEW m \in MessageId, Used(s, m)' PROVE Used(s, m)
    <3>1. CASE \E e \in executed' : e.s = s /\ e.mid = m
      BY <2>1, <3>1 DEF Used
    <3> QED
      BY <2>2, <2>5, <3>1 DEF Used
  <2>6. Calm
    BY <2>2, <2>3, <2>4, <2>5 DEF Calm
  <2>7. ExecutedOnce'
    BY <2>1 DEF IdInv, ExecutedOnce
  <2>8. ResultsExecuted' /\ AnswerIsOwn'
    BY <2>1, <2>2 DEF IdInv, ResultsExecuted, AnswerIsOwn
  <2> QED
    BY <1>0, <2>6, <2>7, <2>8, CalmStep
\* The server delivers something, and may forget what it was sent.
<1>2. ASSUME NEW t \in MessageType, NEW m \in MessageId, Deliver(t, m),
             t = "result" => \E e \in executed : e.mid = m,
             executed' = executed, sent' \subseteq sent,
             UNCHANGED <<requestVars, sessionVars, historyVars>>
      PROVE  IdInv'
  <2> DEFINE x == [kind |-> "data", type |-> t, mid |-> m]
  <2>1. tq' = Append(tq, x) /\ x \in Item /\ x.kind = "data" /\ x.type = t /\ x.mid = m
    BY <1>2, NewItems DEF Deliver
  <2> HIDE DEF x
  <2>2. /\ Len(tq) \in Nat /\ Len(tq') = Len(tq) + 1 /\ tq'[Len(tq) + 1] = x
        /\ \A i \in 1..Len(tq) : tq'[i] = tq[i]
    BY <1>0, <2>1, AppendProperties, LenProperties
  <2>3. \A i \in 1..Len(tq') : (i \in 1..Len(tq) /\ tq'[i] = tq[i]) \/ tq'[i] = x
    BY <2>2
  <2>4. PayloadsFrom(tq', tq)
    BY <2>1, <2>3 DEF PayloadsFrom
  <2>5. ResultsExecuted'
    BY <1>2, <2>1, <2>3 DEF IdInv, ResultsExecuted
  <2>6. ASSUME NEW s \in Nat, NEW n \in MessageId, Used(s, n)' PROVE Used(s, n)
    <3>1. CASE \E i \in 1..Len(tq') : /\ tq'[i].kind = "payload" /\ tq'[i].session = s
                                     /\ \E r \in Requests : tq'[i].ids[r] = n
      BY <2>4, <3>1 DEF PayloadsFrom, Used
    <3>2. CASE \E y \in sent' : y.s = s /\ y.mid = n
      BY <1>2, <3>2 DEF Used
    <3>3. CASE \E e \in executed' : e.s = s /\ e.mid = n
      BY <1>2, <3>3 DEF Used
    <3> QED
      BY <2>6, <3>1, <3>2, <3>3 DEF Used
  <2>7. \A r \in Requests : Keeps(r)
    BY <1>2 DEF Keeps, requestVars
  <2>8. Calm
    BY <1>2, <2>4, <2>6, <2>7 DEF Calm, sessionVars, historyVars
  <2>9. ExecutedOnce' /\ AnswerIsOwn'
    BY <1>2 DEF IdInv, ExecutedOnce, AnswerIsOwn, historyVars
  <2> QED
    BY <1>0, <2>5, <2>8, <2>9, CalmStep
<1>3. ASSUME NEW t \in Answer, NEW m \in MessageId, ServerAnswer(t, m) PROVE IdInv'
  <2>1. t = "result" => Result(m, TRUE) \in executed
    BY <1>3 DEF ServerAnswer, Answerable
  <2>2. Result(m, TRUE).mid = m
    BY DEF Result
  <2>3. t = "result" => \E e \in executed : e.mid = m
    BY <2>1, <2>2
  <2> QED
    BY <1>2, <1>3, <2>3 DEF ServerAnswer, MessageType, serverVars
<1>4. ASSUME NEW t \in Rejection, NEW m \in MessageId, ServerReject(t, m) PROVE IdInv'
  <2>1. t # "result" /\ t \in MessageType
    BY DEF Rejection, MessageType
  <2>2. sent' \subseteq sent
    BY <1>4 DEF ServerReject
  <2> QED
    BY <1>2, <1>4, <2>1, <2>2 DEF ServerReject
<1>5. ASSUME NEW t \in Loss, NEW m \in MessageId, ServerLoses(t, m) PROVE IdInv'
  <2>1. t # "result" /\ t \in MessageType
    BY DEF Loss, MessageType
  <2> QED
    BY <1>2, <1>5, <2>1 DEF ServerLoses
<1> QED
  BY <1>1, <1>3, <1>4, <1>5 DEF ServerStep

-----------------------------------------------------------------------------
(* Issuing ids.                                                            *)

\* Two members of a set of numbers have different ranks.
LEMMA RankInjective ==
    ASSUME NEW n \in Nat, NEW S \in SUBSET (1..n), NEW x \in S, NEW y \in S, x < y
    PROVE  Rank(x, S) < Rank(y, S)
<1> DEFINE T == {z \in S : z <= x}
           U == {z \in S : z <= y}
<1>1. IsFiniteSet(S)
  BY CardinalityIsNat
<1>2. T \in SUBSET S /\ U \in SUBSET S /\ T \subseteq U /\ y \in U /\ y \notin T
  <2>1. x \in Nat /\ y \in Nat /\ \A z \in S : z \in Nat
    OBVIOUS
  <2>2. \A z \in S : z <= x => z <= y
    BY <2>1
  <2>3. ~(y <= x)
    BY <2>1
  <2>4. T \subseteq U
    BY <2>2
  <2>5. y \in U /\ y \notin T
    BY <2>1, <2>3
  <2> QED
    BY <2>4, <2>5
<1>3. IsFiniteSet(U)
  BY <1>1, <1>2, FS_Subset
<1>4. IsFiniteSet(T) /\ Cardinality(T) <= Cardinality(U)
      /\ (Cardinality(T) = Cardinality(U) => T = U)
  BY <1>2, <1>3, FS_Subset
<1>5. Cardinality(T) \in Nat /\ Cardinality(U) \in Nat
  BY <1>3, <1>4, FS_CardinalityType
<1>6. Cardinality(T) # Cardinality(U)
  BY <1>2, <1>4
<1>7. Cardinality(T) < Cardinality(U)
  BY <1>4, <1>5, <1>6
<1> QED
  BY <1>7 DEF Rank

\* What the prepared block does to contexts and to the history of ids.
LEMMA PreparedOwners ==
    ASSUME IdInv, PreparedId <= MaxMessageId, NEW w
    PROVE  /\ \A m \in MessageId : owner[m] # 0 => PreparedOwner[m] = owner[m]
           /\ \A r \in NewRequests :
                 /\ RequestId(r) \in MessageId /\ RequestId(r) <= PreparedId
                 /\ owner[RequestId(r)] = 0 /\ PreparedOwner[RequestId(r)] = r
                 /\ PreparedContext(w)[r].mid = RequestId(r) /\ context[r].mid = 0
                 /\ Live(r) /\ r \in Requests
           /\ \A m \in MessageId :
                 PreparedOwner[m] = owner[m] \/ \E r \in NewRequests : m = RequestId(r)
           /\ \A r \in Requests \ NewRequests : PreparedContext(w)[r].mid = context[r].mid
           /\ \A r \in EligibleRequests : /\ RequestId(r) \in MessageId
                                          /\ PreparedOwner[RequestId(r)] = r
                                          /\ r \in Requests /\ Live(r)
                                          /\ RequestId(r) = PreparedContext(w)[r].mid
<1>0. TypeOK
  BY DEF IdInv
<1>1. lastId \in Nat
  BY <1>0 DEF TypeOK, SessionOK
<1>2. /\ \A r \in NewRequests : RequestId(r) \in (lastId + 1)..PreparedId
      /\ \A r \in EligibleRequests : RequestId(r) \in MessageId
      /\ PreparedId \in Nat
  BY <1>0, <1>1, PreparedIds
<1>3. \A m \in MessageId : owner[m] # 0 => m <= lastId
  BY DEF IdInv, IdsIssued
<1>4. MessageId \subseteq Nat
  BY DEF MessageId
<1>5. \A r \in NewRequests : RequestId(r) \in MessageId /\ RequestId(r) <= PreparedId
                             /\ ~(RequestId(r) <= lastId)
  BY <1>1, <1>2 DEF NewRequests
<1>6. \A r \in NewRequests : owner[RequestId(r)] = 0
  BY <1>3, <1>5
<1>7. \A m \in MessageId : owner[m] # 0 => PreparedOwner[m] = owner[m]
  BY <1>6 DEF PreparedOwner
<1>8. ASSUME NEW q \in NewRequests, NEW r \in NewRequests, RequestId(q) = RequestId(r)
      PROVE  q = r
  <2>1. NewRequests \in SUBSET (1..NumRequests) /\ NumRequests \in Nat
    BY RequestsAssumption DEF NewRequests, EligibleRequests, Requests
  <2>2. /\ RequestId(q) = lastId + Rank(q, NewRequests)
        /\ RequestId(r) = lastId + Rank(r, NewRequests)
    BY DEF RequestId
  <2>3. Rank(q, NewRequests) \in Nat /\ Rank(r, NewRequests) \in Nat
    <3>1. /\ Rank(q, NewRequests) \in 1..Cardinality(NewRequests)
          /\ Rank(r, NewRequests) \in 1..Cardinality(NewRequests)
      BY <2>1, RankBounds
    <3> QED
      BY <3>1
  <2>4. Rank(q, NewRequests) = Rank(r, NewRequests)
    <3>1. PICK a \in Nat : a = Rank(q, NewRequests)
      BY <2>3
    <3>2. PICK b \in Nat : b = Rank(r, NewRequests)
      BY <2>3
    <3>3. lastId + a = lastId + b
      BY <1>8, <2>2, <3>1, <3>2
    <3>4. a = b
      BY <1>1, <3>3
    <3> QED
      BY <3>1, <3>2, <3>4
  <2>5. q \in Nat /\ r \in Nat
    BY <2>1
  <2>6. ~(q < r) /\ ~(r < q)
    <3>1. q < r => Rank(q, NewRequests) < Rank(r, NewRequests)
      BY <2>1, RankInjective
    <3>2. r < q => Rank(r, NewRequests) < Rank(q, NewRequests)
      BY <2>1, RankInjective
    <3> QED
      BY <2>3, <2>4, <3>1, <3>2
  <2> QED
    BY <2>5, <2>6
<1>9. ASSUME NEW r \in NewRequests PROVE PreparedOwner[RequestId(r)] = r
  <2> DEFINE m == RequestId(r)
  <2>1. PreparedOwner[m] = CHOOSE q \in NewRequests : RequestId(q) = m
    BY <1>5 DEF PreparedOwner
  <2>2. (CHOOSE q \in NewRequests : RequestId(q) = m) \in NewRequests
        /\ RequestId(CHOOSE q \in NewRequests : RequestId(q) = m) = m
    OBVIOUS
  <2> HIDE DEF m
  <2>3. PreparedOwner[m] \in NewRequests /\ RequestId(PreparedOwner[m]) = RequestId(r)
    BY <2>1, <2>2 DEF m
  <2> QED
    BY <1>8, <2>3 DEF m
<1>10. \A m \in MessageId :
          PreparedOwner[m] = owner[m] \/ \E r \in NewRequests : m = RequestId(r)
  BY DEF PreparedOwner
<1>11. \A r \in Requests : Eligible(r) => PreparedContext(w)[r].mid = RequestId(r)
  BY DEF PreparedContext
<1>12. \A r \in Requests : ~Eligible(r) => PreparedContext(w)[r] = context[r]
  BY DEF PreparedContext
<1>13. \A r \in NewRequests :
          r \in Requests /\ Eligible(r) /\ Live(r) /\ context[r].mid = 0
  BY DEF NewRequests, EligibleRequests, Eligible
<1>14. \A r \in EligibleRequests \ NewRequests :
          /\ RequestId(r) = context[r].mid /\ context[r].mid # 0
          /\ r \in Requests /\ Eligible(r) /\ Live(r)
  BY DEF NewRequests, EligibleRequests, RequestId, Eligible
<1>15. \A r \in Requests \ NewRequests : PreparedContext(w)[r].mid = context[r].mid
  BY <1>11, <1>12, <1>14 DEF EligibleRequests
<1>16. \A r \in EligibleRequests \ NewRequests : PreparedOwner[RequestId(r)] = r
  <2> SUFFICES ASSUME NEW r \in EligibleRequests \ NewRequests
               PROVE  PreparedOwner[RequestId(r)] = r
    OBVIOUS
  <2>1. owner[context[r].mid] = r /\ r # 0
    BY <1>0, <1>14, OwnerType DEF IdInv, ContextOwned
  <2> QED
    BY <1>2, <1>7, <1>14, <2>1
<1> QED
  BY <1>2, <1>5, <1>6, <1>7, <1>9, <1>10, <1>11, <1>13, <1>14, <1>15, <1>16

\* q holds the payloads of p, and payloads of the present session that carry
\* the ids of this transaction.
PayloadsPrepared(q, p) ==
    \A i \in 1..Len(q) : q[i].kind = "payload" =>
        \/ \E j \in 1..Len(p) : p[j] = q[i]
        \/ /\ q[i].session = session /\ q[i].all = EligibleRequests
           /\ \A r \in Requests : q[i].ids[r] # 0 =>
                  r \in EligibleRequests /\ q[i].ids[r] = RequestId(r)

\* A step that issues ids keeps the bookkeeping of ids.
LEMMA PreparedStep ==
    ASSUME IdInv, TypeOK', PreparedId <= MaxMessageId, NEW w,
           owner' = PreparedOwner, context' = PreparedContext(w),
           PreparedId <= lastId', status' = status, session' = session,
           retired' = retired, answer' = answer, sent' = sent, executed' = executed,
           PayloadsPrepared(tq', tq), ResultsExecuted'
    PROVE  IdInv'
<1>0. TypeOK /\ lastId \in Nat /\ lastId' \in Nat /\ PreparedId \in Nat /\ lastId <= PreparedId
  BY PreparedIds DEF IdInv, TypeOK, SessionOK
<1>1. \A m \in MessageId : owner[m] # 0 => owner'[m] = owner[m]
  BY PreparedOwners
<1>2. \A r \in NewRequests :
          /\ RequestId(r) \in MessageId /\ RequestId(r) <= PreparedId
          /\ owner[RequestId(r)] = 0 /\ owner'[RequestId(r)] = r
          /\ context'[r].mid = RequestId(r) /\ context[r].mid = 0
          /\ Live(r) /\ r \in Requests
  BY PreparedOwners
<1>3. \A m \in MessageId : owner'[m] = owner[m] \/ \E r \in NewRequests : m = RequestId(r)
  BY PreparedOwners
<1>4. \A r \in Requests \ NewRequests : context'[r].mid = context[r].mid
  BY PreparedOwners
<1>5. \A r \in EligibleRequests : /\ RequestId(r) \in MessageId /\ owner'[RequestId(r)] = r
                                 /\ r \in Requests /\ Live(r)
                                 /\ RequestId(r) = context'[r].mid
  BY PreparedOwners
<1>6. \A m \in MessageId : m # 0 /\ m \in Nat
  BY DEF MessageId
<1>7. \A r \in Requests : r # 0
  BY <1>0, OwnerType
<1>8. ASSUME NEW s \in Nat, NEW m \in MessageId, Used(s, m)'
      PROVE  Used(s, m) \/ (s = session /\ \E r \in EligibleRequests : m = RequestId(r))
  <2>1. CASE \E i \in 1..Len(tq') : /\ tq'[i].kind = "payload" /\ tq'[i].session = s
                                   /\ \E r \in Requests : tq'[i].ids[r] = m
    <3>1. PICK i \in 1..Len(tq') : /\ tq'[i].kind = "payload" /\ tq'[i].session = s
                                   /\ \E r \in Requests : tq'[i].ids[r] = m
      BY <2>1
    <3>2. CASE \E j \in 1..Len(tq) : tq[j] = tq'[i]
      BY <3>1, <3>2 DEF Used
    <3>3. CASE /\ tq'[i].session = session
               /\ \A r \in Requests : tq'[i].ids[r] # 0 =>
                      r \in EligibleRequests /\ tq'[i].ids[r] = RequestId(r)
      BY <1>6, <3>1, <3>3
    <3> QED
      BY <3>1, <3>2, <3>3 DEF PayloadsPrepared
  <2>2. CASE \E x \in sent' : x.s = s /\ x.mid = m
    BY <2>2 DEF Used
  <2>3. CASE \E e \in executed' : e.s = s /\ e.mid = m
    BY <2>3 DEF Used
  <2> QED
    BY <1>8, <2>1, <2>2, <2>3 DEF Used
<1>9. \A s \in Nat, m \in MessageId : Used(s, m) => owner[m] # 0 /\ owner'[m] = owner[m]
  BY <1>1 DEF IdInv, UsedIsIssued
<1>10. ContextOwned'
  <2> SUFFICES ASSUME NEW r \in Requests, context'[r].mid # 0
               PROVE  status'[r] = "live" /\ owner'[context'[r].mid] = r
    BY DEF ContextOwned, Live
  <2>1. CASE r \in NewRequests
    BY <1>2, <2>1 DEF Live
  <2>2. CASE r \notin NewRequests
    <3>1. context'[r].mid = context[r].mid /\ context[r].mid \in MessageId
      BY <1>0, <1>4, <2>2, OwnerType
    <3>2. Live(r) /\ owner[context[r].mid] = r
      BY <3>1 DEF IdInv, ContextOwned
    <3> QED
      BY <1>1, <1>7, <3>1, <3>2 DEF Live
  <2> QED
    BY <2>1, <2>2
<1>11. IdsIssued'
  <2> SUFFICES ASSUME NEW m \in MessageId, owner'[m] # 0
               PROVE  m <= lastId' /\ status'[owner'[m]] # "new"
    BY DEF IdsIssued
  <2>1. CASE \E r \in NewRequests : m = RequestId(r)
    <3>1. PICK r \in NewRequests : m = RequestId(r)
      BY <2>1
    <3>2. m <= PreparedId /\ owner'[m] = r /\ status[r] = "live"
      BY <1>2, <3>1 DEF Live
    <3> QED
      BY <1>0, <1>6, <3>2
  <2>2. CASE owner'[m] = owner[m]
    <3>1. m <= lastId /\ status[owner[m]] # "new"
      BY <2>2 DEF IdInv, IdsIssued
    <3> QED
      BY <1>0, <1>6, <2>2, <3>1
  <2> QED
    BY <1>3, <2>1, <2>2
<1>12. PayloadsOwned'
  <2> SUFFICES ASSUME NEW i \in 1..Len(tq'), tq'[i].kind = "payload",
                      NEW r \in Requests, tq'[i].ids[r] # 0
               PROVE  owner'[tq'[i].ids[r]] = r /\ r \in tq'[i].all
    BY DEF PayloadsOwned
  <2>1. CASE \E j \in 1..Len(tq) : tq[j] = tq'[i]
    <3>1. PICK j \in 1..Len(tq) : tq[j] = tq'[i]
      BY <2>1
    <3>2. owner[tq[j].ids[r]] = r /\ r \in tq[j].all
      BY <3>1 DEF IdInv, PayloadsOwned
    <3>3. tq[j].ids[r] \in MessageId
      <4>1. tq[j] \in Item
        BY <1>0, ElementOfSeq DEF TypeOK
      <4>2. tq[j] \in Payload
        BY <3>1, <4>1, ItemKinds
      <4> QED
        BY <3>1, <4>2 DEF Payload, MessageId
    <3> QED
      BY <1>1, <1>7, <3>1, <3>2, <3>3
  <2>2. CASE /\ tq'[i].all = EligibleRequests
             /\ r \in EligibleRequests /\ tq'[i].ids[r] = RequestId(r)
    BY <1>5, <2>2
  <2> QED
    BY <2>1, <2>2 DEF PayloadsPrepared
<1>13. UsedIsIssued'
  <2> SUFFICES ASSUME NEW s \in Nat, NEW m \in MessageId, Used(s, m)'
               PROVE  owner'[m] # 0
    BY DEF UsedIsIssued
  <2> QED
    BY <1>5, <1>7, <1>8, <1>9
<1>14. CurrentOnly'
  <2> SUFFICES ASSUME NEW m \in MessageId, owner'[m] # 0, status'[owner'[m]] = "live",
                      m \notin retired'
               PROVE  context'[owner'[m]].mid = m
    BY DEF CurrentOnly, Live
  <2>1. CASE \E r \in NewRequests : m = RequestId(r)
    BY <1>2, <2>1
  <2>2. CASE owner'[m] = owner[m]
    <3>1. context[owner[m]].mid = m /\ owner[m] \in Requests
      BY <1>0, <2>2, OwnerType DEF IdInv, CurrentOnly, Live
    <3>2. owner[m] \notin NewRequests
      BY <1>2, <1>6, <3>1
    <3> QED
      BY <1>4, <2>2, <3>1, <3>2
  <2> QED
    BY <1>3, <2>1, <2>2
<1>15. OneKept'
  <2>1. ASSUME NEW m \in MessageId, NEW n \in MessageId, owner'[m] = owner'[n],
               NEW r \in NewRequests, m = RequestId(r), owner'[n] = owner[n]
        PROVE  n \in retired
    <3>1. owner[n] = r /\ r # 0 /\ Live(r) /\ context[r].mid = 0
      BY <1>2, <1>7, <2>1
    <3> QED
      BY <1>6, <3>1 DEF IdInv, CurrentOnly
  <2> SUFFICES ASSUME NEW m \in MessageId, NEW n \in MessageId,
                      owner'[m] # 0, owner'[m] = owner'[n]
               PROVE  m = n \/ m \in retired \/ n \in retired
    BY DEF OneKept
  <2>2. CASE owner'[m] = owner[m] /\ owner'[n] = owner[n]
    BY <2>2 DEF IdInv, OneKept
  <2>3. CASE (\E r \in NewRequests : m = RequestId(r)) /\ owner'[n] = owner[n]
    BY <2>1, <2>3
  <2>4. CASE (\E r \in NewRequests : n = RequestId(r)) /\ owner'[m] = owner[m]
    BY <2>1, <2>4
  <2>5. CASE (\E r \in NewRequests : m = RequestId(r)) /\ \E r \in NewRequests : n = RequestId(r)
    BY <1>2, <2>5
  <2> QED
    BY <1>3, <2>2, <2>3, <2>4, <2>5
<1>16. ThisSession'
  <2> SUFFICES ASSUME NEW s \in Nat, NEW m \in MessageId, Used(s, m)', m \notin retired,
                      status[owner'[m]] = "live"
               PROVE  s = session
    BY DEF ThisSession, Live
  <2>1. CASE Used(s, m)
    BY <1>9, <2>1 DEF IdInv, ThisSession, Live
  <2> QED
    BY <1>8, <2>1
<1>17. ASSUME NEW s \in Nat, NEW m \in MessageId, m \notin retired, Used(s, m),
              NEW r \in EligibleRequests, m = RequestId(r)
       PROVE  s = session
  <2>1. owner[m] = r /\ Live(r)
    BY <1>5, <1>9, <1>17
  <2> QED
    BY <1>17, <2>1 DEF IdInv, ThisSession
<1>18. OneSession'
  <2> SUFFICES ASSUME NEW s \in Nat, NEW t \in Nat, NEW m \in MessageId,
                      Used(s, m)', Used(t, m)', m \notin retired
               PROVE  s = t
    BY DEF OneSession
  <2>1. CASE Used(s, m) /\ Used(t, m)
    BY <2>1 DEF IdInv, OneSession
  <2> QED
    BY <1>8, <1>17, <2>1
<1>19. ExecutedOnce'
  BY DEF IdInv, ExecutedOnce
<1>20. AnswerIsOwn'
  <2> SUFFICES ASSUME NEW r \in Requests, answer[r] # 0
               PROVE  owner'[answer[r]] = r /\ \E e \in executed : e.mid = answer[r]
    BY DEF AnswerIsOwn
  <2>1. owner[answer[r]] = r /\ \E e \in executed : e.mid = answer[r]
    BY DEF IdInv, AnswerIsOwn
  <2>2. answer[r] \in MessageId
    BY <1>0 DEF TypeOK, HistoryOK, MessageId
  <2> QED
    BY <1>1, <1>7, <2>1, <2>2
<1> QED
  BY <1>10, <1>11, <1>12, <1>13, <1>14, <1>15, <1>16, <1>18, <1>19, <1>20 DEF IdInv

\* A transaction that is built: its payloads join the queue.
LEMMA BuildTransactionIds ==
    ASSUME IdInv, NEW A \in SUBSET EligibleRequests, NEW B \in SUBSET dropping,
           BuildTransaction(A, B)
    PROVE  IdInv'
<1> DEFINE A2 == EligibleRequests \ A
           B2 == dropping \ B
           p1 == IF A \cup B = {} THEN <<>> ELSE <<PayloadOf(A, B)>>
           p2 == IF A2 \cup B2 = {} THEN <<>> ELSE <<PayloadOf(A2, B2)>>
           c == tq \o p1
<1>1. TypeOK /\ TypeOK' /\ tq \in Seq(Item)
  BY BuildTransactionType DEF IdInv, TypeOK
<1>2. PreparedId \in Nat /\ PreparedId <= lastId' /\ PreparedId <= MaxMessageId
  BY <1>1, BuiltIds
<1>3. PayloadOf(A, B) \in Item /\ PayloadOf(A2, B2) \in Item
  BY <1>1, <1>2, PayloadType
<1>4. p1 \in Seq(Item) /\ p2 \in Seq(Item)
  BY <1>3
<1>5. /\ \A i \in 1..Len(p1) : p1[i] = PayloadOf(A, B)
      /\ \A i \in 1..Len(p2) : p2[i] = PayloadOf(A2, B2)
  <2>1. \A x : Len(<<x>>) = 1 /\ <<x>>[1] = x
    OBVIOUS
  <2>2. \A x : \A i \in 1..Len(<<x>>) : <<x>>[i] = x
    BY <2>1
  <2>3. Len(<<>>) = 0
    OBVIOUS
  <2>4. \A i \in 1..Len(p1) : p1[i] = PayloadOf(A, B)
    <3>1. CASE A \cup B = {}
      BY <2>3, <3>1
    <3>2. CASE A \cup B # {}
      <4>1. p1 = <<PayloadOf(A, B)>>
        BY <3>2
      <4> HIDE DEF p1
      <4> QED
        BY <2>2, <4>1
    <3> QED
      BY <3>1, <3>2
  <2>5. \A i \in 1..Len(p2) : p2[i] = PayloadOf(A2, B2)
    <3>1. CASE A2 \cup B2 = {}
      BY <2>3, <3>1
    <3>2. CASE A2 \cup B2 # {}
      <4>1. p2 = <<PayloadOf(A2, B2)>>
        BY <3>2
      <4> HIDE DEF p2
      <4> QED
        BY <2>2, <4>1
    <3> QED
      BY <3>1, <3>2
  <2> QED
    BY <2>4, <2>5
<1>6. tq' = c \o p2
  BY DEF BuildTransaction
<1> HIDE DEF p1, p2
<1>7. /\ c \in Seq(Item) /\ Len(tq) \in Nat /\ Len(p1) \in Nat /\ Len(c) = Len(tq) + Len(p1)
      /\ \A i \in 1..Len(tq) + Len(p1) : c[i] = IF i <= Len(tq) THEN tq[i] ELSE p1[i - Len(tq)]
  BY <1>1, <1>4, ConcatProperties, LenProperties
<1> HIDE DEF c
<1>8. /\ Len(c) \in Nat /\ Len(p2) \in Nat /\ Len(tq') = Len(c) + Len(p2)
      /\ \A i \in 1..Len(c) + Len(p2) : tq'[i] = IF i <= Len(c) THEN c[i] ELSE p2[i - Len(c)]
  <2>1. Len(c) \in Nat /\ Len(p2) \in Nat
    BY <1>4, <1>7, LenProperties
  <2>2. c \in Seq(Item) /\ p2 \in Seq(Item)
    BY <1>4, <1>7
  <2> QED
    BY <1>6, <2>1, <2>2, ConcatProperties
<1>9. ASSUME NEW i \in 1..Len(tq')
      PROVE  \/ i \in 1..Len(tq) /\ tq'[i] = tq[i]
             \/ tq'[i] = PayloadOf(A, B) \/ tq'[i] = PayloadOf(A2, B2)
  <2>1. CASE i <= Len(tq)
    BY <1>7, <1>8, <2>1
  <2>2. CASE i > Len(tq) /\ i <= Len(c)
    <3>1. i - Len(tq) \in 1..Len(p1) /\ tq'[i] = p1[i - Len(tq)]
      BY <1>7, <1>8, <2>2
    <3> QED
      BY <1>5, <3>1
  <2>3. CASE i > Len(c)
    <3>1. i - Len(c) \in 1..Len(p2) /\ tq'[i] = p2[i - Len(c)]
      BY <1>7, <1>8, <2>3
    <3> QED
      BY <1>5, <3>1
  <2> QED
    BY <1>7, <1>8, <2>1, <2>2, <2>3
<1>10. ASSUME NEW X \in SUBSET EligibleRequests, NEW Y
       PROVE  /\ PayloadOf(X, Y).kind = "payload" /\ PayloadOf(X, Y).session = session
              /\ PayloadOf(X, Y).all = EligibleRequests
              /\ \A r \in Requests : PayloadOf(X, Y).ids[r] # 0 =>
                     r \in EligibleRequests /\ PayloadOf(X, Y).ids[r] = RequestId(r)
  BY DEF PayloadOf
<1>11. A2 \in SUBSET EligibleRequests
  OBVIOUS
<1> HIDE DEF A2, B2
<1>12. PayloadsPrepared(tq', tq)
  <2> SUFFICES ASSUME NEW i \in 1..Len(tq'), tq'[i].kind = "payload"
               PROVE  \/ \E j \in 1..Len(tq) : tq[j] = tq'[i]
                      \/ /\ tq'[i].session = session /\ tq'[i].all = EligibleRequests
                         /\ \A r \in Requests : tq'[i].ids[r] # 0 =>
                                r \in EligibleRequests /\ tq'[i].ids[r] = RequestId(r)
    BY DEF PayloadsPrepared
  <2>1. CASE i \in 1..Len(tq) /\ tq'[i] = tq[i]
    BY <2>1
  <2>2. CASE tq'[i] = PayloadOf(A, B)
    BY <1>10, <2>2
  <2>3. CASE tq'[i] = PayloadOf(A2, B2)
    BY <1>10, <1>11, <2>3
  <2> QED
    BY <1>9, <2>1, <2>2, <2>3
<1>13. executed' = executed /\ sent' = sent /\ owner' = PreparedOwner
       /\ context' = PreparedContext(TRUE) /\ status' = status /\ session' = session
       /\ retired' = retired /\ answer' = answer
  BY DEF BuildTransaction, serverVars
<1>14. ResultsExecuted'
  <2> SUFFICES ASSUME NEW i \in 1..Len(tq'), tq'[i].kind = "data", tq'[i].type = "result"
               PROVE  \E e \in executed : e.mid = tq'[i].mid
    BY <1>13 DEF ResultsExecuted
  <2>1. i \in 1..Len(tq) /\ tq'[i] = tq[i]
    BY <1>9, <1>10, <1>11
  <2> QED
    BY <2>1 DEF IdInv, ResultsExecuted
<1> QED
  BY <1>1, <1>2, <1>12, <1>13, <1>14, PreparedStep

\* Transactions that are built or cannot be, and the time sync.
LEMMA BuildStepIds ==
    ASSUME IdInv, BuildStep
    PROVE  IdInv'
<1>0. TypeOK /\ TypeOK' /\ tq \in Seq(Item)
  BY BuildStepType DEF IdInv, TypeOK
<1>1. ASSUME NEW A \in SUBSET EligibleRequests, NEW B \in SUBSET dropping,
             BuildTransaction(A, B)
      PROVE  IdInv'
  BY <1>1, BuildTransactionIds
<1>2. CASE BuildWithoutSalt
  <2>1. /\ executed' = executed /\ sent' = sent /\ owner' = PreparedOwner
        /\ context' = PreparedContext(FALSE) /\ status' = status /\ session' = session
        /\ retired' = retired /\ answer' = answer /\ tq' = tq
        /\ lastId' = PreparedId /\ PreparedId <= MaxMessageId
    BY <1>2 DEF BuildWithoutSalt, serverVars
  <2>2. PreparedId \in Nat /\ PreparedId <= lastId'
    BY <1>0, <2>1 DEF TypeOK, SessionOK
  <2>3. PayloadsPrepared(tq', tq)
    BY <2>1 DEF PayloadsPrepared
  <2>4. ResultsExecuted'
    BY <2>1 DEF IdInv, ResultsExecuted
  <2> QED
    BY <1>0, <2>1, <2>2, <2>3, <2>4, PreparedStep
<1>3. CASE BuildMonotonityViolated
  <2>1. NothingNew(tq, tq)
    BY <1>0, QueueNothingNew
  <2> QED
    BY <1>0, <1>3, <2>1, NewSessionIds DEF BuildMonotonityViolated
<1>4. CASE BuildTimeFix \/ CompleteTimeSync
  <2>1. NothingNew(tq, tq)
    BY <1>0, QueueNothingNew
  <2>2. UNCHANGED <<requestVars, sessionVars, tq, serverVars, historyVars>>
    BY <1>4 DEF BuildTimeFix, CompleteTimeSync
  <2>3. \A r \in Requests : Keeps(r)
    BY <2>2 DEF Keeps, requestVars
  <2> QED
    BY <1>0, <2>1, <2>2, <2>3, PlainStep DEF sessionVars, serverVars, historyVars
<1> QED
  BY <1>1, <1>2, <1>3, <1>4 DEF BuildStep

-----------------------------------------------------------------------------
\* IdInv is inductive.
LEMMA IdInvariant == Spec => []IdInv
<1>1. Init => IdInv
  <2> SUFFICES ASSUME Init PROVE IdInv
    OBVIOUS
  <2>1. TypeOK
    BY InitType
  <2>2. /\ \A r \in Requests : context[r].mid = 0
        /\ \A m \in MessageId : owner[m] = 0
        /\ \A r \in Requests : answer[r] = 0
        /\ tq = <<>> /\ sent = {} /\ executed = {}
    BY ContextIds DEF Init
  <2>3. Len(tq) = 0
    BY <2>2
  <2>4. \A s \in Nat, m \in MessageId : ~Used(s, m)
    BY <2>2, <2>3 DEF Used
  <2>5. ContextOwned /\ IdsIssued /\ UsedIsIssued /\ CurrentOnly /\ OneKept
        /\ ThisSession /\ OneSession /\ ExecutedOnce /\ AnswerIsOwn
    BY <2>2, <2>4 DEF ContextOwned, IdsIssued, UsedIsIssued, CurrentOnly, OneKept,
       ThisSession, OneSession, ExecutedOnce, AnswerIsOwn
  <2>6. PayloadsOwned /\ ResultsExecuted
    BY <2>3 DEF PayloadsOwned, ResultsExecuted
  <2> QED
    BY <2>1, <2>5, <2>6 DEF IdInv
<1>2. IdInv /\ [Next]_vars => IdInv'
  <2>1. IdInv /\ Next => IdInv'
    BY RequestStepIds, BuildStepIds, TransportStepIds, ServerStepIds, ReceiveStepIds
    DEF Next
  <2>2. ASSUME IdInv, UNCHANGED vars PROVE IdInv'
    <3>1. TypeOK'
      BY <2>2, StutterType DEF IdInv
    <3>2. NothingNew(tq', tq)
      BY <2>2, QueueNothingNew DEF IdInv, TypeOK, vars
    <3>3. \A r \in Requests : Keeps(r)
      BY <2>2 DEF Keeps, vars, requestVars
    <3> QED
      BY <2>2, <3>1, <3>2, <3>3, PlainStep
      DEF vars, sessionVars, serverVars, historyVars
  <2> QED
    BY <2>1, <2>2
<1> QED
  BY <1>1, <1>2, PTL DEF Spec

\* The completed block of a request gets the result of a message the server
\* executed, and the message was issued for this request.
THEOREM AnswerIsOwnCorrect == Spec => []AnswerIsOwn
<1>1. IdInv => AnswerIsOwn
  BY DEF IdInv
<1> QED
  BY <1>1, IdInvariant, PTL

\* Two executions of one request share a message id in one session, or one of
\* their ids was given up or displaced.
LEMMA KeptExecutions ==
    ASSUME IdInv
    PROVE  /\ NoSilentReissue
           /\ \A e \in executed : /\ e.mid \in MessageId /\ e.s \in Nat
                                  /\ Used(e.s, e.mid) /\ owner[e.mid] \in Requests
<1>1. \A e \in executed : e.mid \in MessageId /\ e.s \in Nat /\ Used(e.s, e.mid)
  BY DEF IdInv, TypeOK, ServerOK, Used
<1>2. \A e \in executed : owner[e.mid] # 0 /\ owner[e.mid] \in Requests
  BY <1>1, OwnerType DEF IdInv, UsedIsIssued
<1>3. ASSUME NEW e \in executed, NEW f \in executed, e # f, owner[e.mid] = owner[f.mid]
      PROVE  e.mid \in retired \/ f.mid \in retired
  <2>1. CASE e.mid # f.mid
    BY <1>1, <1>2, <1>3, <2>1 DEF IdInv, OneKept
  <2>2. CASE e.mid = f.mid
    <3>1. e.s # f.s
      BY <1>3, <2>2 DEF IdInv, ExecutedOnce
    <3> QED
      BY <1>1, <2>2, <3>1 DEF IdInv, OneSession
  <2> QED
    BY <2>1, <2>2
<1> QED
  BY <1>1, <1>2, <1>3 DEF NoSilentReissue

\* The server executes a request under two ids, or in two sessions, only if an
\* id was given up or displaced: a resend keeps its id.
THEOREM NoSilentReissueCorrect == Spec => []NoSilentReissue
<1>1. IdInv => NoSilentReissue
  BY KeptExecutions
<1> QED
  BY <1>1, IdInvariant, PTL

-----------------------------------------------------------------------------
(* The requests implement the calls of RpcCalls.                           *)

\* The results of RpcCalls.
Results == {[call |-> owner[e.mid], attempt |-> e.mid] : e \in executed}

\* A step after which at most more ids are given up is one of RpcCalls.
LEMMA GivingUp ==
    ASSUME TypeOK', status' = status, answer' = answer, executed' = executed,
           \A e \in executed : owner'[e.mid] = owner[e.mid],
           retired \subseteq retired'
    PROVE  Calls!Next
<1>1. Results' = Results
  BY DEF Results
<1>2. retired' = retired \cup (retired' \ retired)
  OBVIOUS
<1>3. retired' \ retired \in SUBSET MessageId
  BY DEF TypeOK, HistoryOK
<1>4. Calls!Abandon(retired' \ retired)
  BY <1>1, <1>2 DEF Calls!Abandon, Results
<1> QED
  BY <1>3, <1>4 DEF Calls!Next

\* Every step is a step of RpcCalls or changes nothing there.
LEMMA StepImplements ==
    ASSUME IdInv, Next
    PROVE  Calls!Next \/ UNCHANGED Calls!vars
<1>0. TypeOK /\ TypeOK'
  BY RequestStepType, BuildStepType, TransportStepType, ServerStepType, ReceiveStepType
  DEF IdInv, Next
<1>1. CASE RequestStep
  <2>1. ASSUME NEW r \in Requests, AddRequest(r) PROVE Calls!Next
    <3>1. Calls!Begin(r)
      BY <2>1 DEF AddRequest, Calls!Begin, serverVars, historyVars
    <3> QED
      BY <3>1 DEF Calls!Next
  <2>2. ASSUME NEW r \in Requests, ReleaseRequest(r) PROVE Calls!Next
    BY <1>0, <2>2, GivingUp DEF ReleaseRequest, serverVars, historyVars
  <2>3. ASSUME NEW r \in Requests, NEW ask \in BOOLEAN, RemoveRequest(r, ask)
        PROVE  Calls!Next
    <3>1. retired' = retired \cup (retired' \ retired)
      BY <2>3 DEF RemoveRequest
    <3>2. retired' \ retired \in SUBSET MessageId
      BY <1>0 DEF TypeOK, HistoryOK
    <3>3. Calls!Remove(r, retired' \ retired)
      BY <2>3, <3>1 DEF RemoveRequest, Live, Calls!Remove, serverVars
    <3> QED
      BY <3>2, <3>3 DEF Calls!Next
  <2> QED
    BY <1>1, <2>1, <2>2, <2>3 DEF RequestStep
<1>2. CASE BuildStep
  <2>1. status' = status /\ answer' = answer /\ executed' = executed /\ retired \subseteq retired'
    BY <1>2 DEF BuildStep, BuildTransaction, BuildWithoutSalt, BuildMonotonityViolated,
       NewSession, BuildTimeFix, CompleteTimeSync, requestVars, serverVars, historyVars
  <2>2. ASSUME NEW e \in executed PROVE owner'[e.mid] = owner[e.mid]
    <3>1. owner' = owner \/ (owner' = PreparedOwner /\ PreparedId <= lastId')
      <4>1. ASSUME NEW A \in SUBSET EligibleRequests, NEW B \in SUBSET dropping,
                   BuildTransaction(A, B)
            PROVE  owner' = PreparedOwner /\ PreparedId <= lastId'
        BY <1>0, <4>1, BuiltIds DEF BuildTransaction
      <4>2. BuildWithoutSalt => owner' = PreparedOwner /\ PreparedId <= lastId'
        BY <1>0 DEF BuildWithoutSalt, TypeOK, SessionOK
      <4>3. BuildMonotonityViolated \/ BuildTimeFix \/ CompleteTimeSync => owner' = owner
        BY DEF BuildMonotonityViolated, NewSession, BuildTimeFix, CompleteTimeSync, historyVars
      <4> QED
        BY <1>2, <4>1, <4>2, <4>3 DEF BuildStep
    <3>2. e.mid \in MessageId /\ owner[e.mid] # 0
      BY <1>0, KeptExecutions, OwnerType
    <3>3. CASE owner' = PreparedOwner /\ PreparedId <= lastId'
      <4>1. PreparedId <= MaxMessageId
        <5>1. lastId' \in Nat /\ lastId' <= MaxMessageId
          BY <1>0 DEF TypeOK, SessionOK
        <5>2. PreparedId \in Nat
          BY <1>0, BuiltIds
        <5> QED
          BY <3>3, <5>1, <5>2, MessageIdAssumption
      <4> QED
        BY <3>2, <3>3, <4>1, PreparedOwners
    <3> QED
      BY <3>1, <3>3
  <2> QED
    BY <1>0, <2>1, <2>2, GivingUp
<1>3. CASE TransportStep
  <2>1. /\ status' = status /\ answer' = answer /\ executed' = executed
        /\ owner' = owner /\ retired \subseteq retired'
    BY <1>3 DEF TransportStep, SendPayload, RefusePayload, StopTransport, ResetConnection,
       StartConnection, OpenConnection, CloseSocket, CloseConnection, ResetTransport,
       requestVars, serverVars, historyVars
  <2> QED
    BY <1>0, <2>1, GivingUp
<1>4. CASE ServerStep
  <2>1. ASSUME NEW x \in sent, NEW final \in BOOLEAN, ServerExecute(x, final)
        PROVE  Calls!Next
    <3>1. /\ x.mid \in MessageId /\ x.s \in Nat /\ Used(x.s, x.mid)
      BY <1>0 DEF TypeOK, ServerOK, Used
    <3>2. owner[x.mid] \in Requests /\ owner[x.mid] # 0
      BY <1>0, <3>1, OwnerType DEF IdInv, UsedIsIssued
    <3>3. status[owner[x.mid]] # "new"
      BY <3>1, <3>2 DEF IdInv, IdsIssued
    <3> DEFINE y == [s |-> x.s, mid |-> x.mid, final |-> final]
    <3>4. executed' = executed \cup {y} /\ y.mid = x.mid
      BY <2>1 DEF ServerExecute
    <3>5. /\ status' = status /\ answer' = answer /\ retired' = retired /\ owner' = owner
      BY <2>1 DEF ServerExecute, requestVars, historyVars
    <3> HIDE DEF y
    <3>6. Results' = Results \cup {[call |-> owner[x.mid], attempt |-> x.mid]}
      BY <3>4, <3>5 DEF Results
    <3>7. \A z \in Results :
            \E e \in executed : z.call = owner[e.mid] /\ z.attempt = e.mid
      BY DEF Results
    <3>8. ASSUME NEW z \in Results, z.call = owner[x.mid], z.attempt # x.mid
          PROVE  z.attempt \in retired \/ x.mid \in retired
      <4>1. PICK e \in executed : z.call = owner[e.mid] /\ z.attempt = e.mid
        BY <3>7
      <4>2. e.mid \in MessageId
        BY KeptExecutions
      <4> QED
        BY <3>1, <3>2, <3>8, <4>1, <4>2 DEF IdInv, OneKept
    <3>9. \A z \in Results : z.attempt = x.mid => z.call = owner[x.mid]
      BY <3>7
    <3>10. Calls!Execute(owner[x.mid], x.mid)
      BY <3>3, <3>5, <3>6, <3>8, <3>9 DEF Calls!Execute, Results
    <3> QED
      BY <3>1, <3>2, <3>10 DEF Calls!Next
  <2>2. CASE \/ \E t \in Answer, m \in MessageId : ServerAnswer(t, m)
             \/ \E t \in Rejection, m \in MessageId : ServerReject(t, m)
             \/ \E t \in Loss, m \in MessageId : ServerLoses(t, m)
    <3>1. /\ status' = status /\ answer' = answer /\ executed' = executed
          /\ owner' = owner /\ retired' = retired
      BY <2>2 DEF ServerAnswer, ServerReject, ServerLoses, requestVars, serverVars,
         historyVars
    <3> QED
      BY <1>0, <3>1, GivingUp
  <2> QED
    BY <1>4, <2>1, <2>2 DEF ServerStep
<1>5. CASE ReceiveStep
  <2>1. CASE ReceiveResult
    <3> DEFINE m == Head(tq).mid
    <3>1. m \in MessageId /\ m # 0
      BY <1>0, <2>1, ReceivedData, OwnerType DEF ReceiveResult
    <3>2. /\ executed' = executed /\ retired' = retired /\ owner' = owner
          /\ status' = [r \in Requests |-> IF Matches(r, m) THEN "completed" ELSE status[r]]
          /\ answer' = [r \in Requests |-> IF Matches(r, m) THEN m ELSE answer[r]]
      BY <2>1 DEF ReceiveResult, serverVars
    <3>3. \E e \in executed : e.mid = m
      <4>1. /\ Head(tq) = tq[1] /\ Len(tq) \in Nat \ {0}
            /\ Head(tq).kind = "data" /\ Head(tq).type = "result"
        BY <1>0, <2>1, TakeItem DEF ReceiveResult, Receive, TypeOK
      <4>2. 1 \in 1..Len(tq)
        BY <4>1
      <4> QED
        BY <4>1, <4>2 DEF IdInv, ResultsExecuted
    <3> HIDE DEF m
    <3>4. \A r \in Requests : Matches(r, m) => owner[m] = r /\ Live(r)
      BY <3>1 DEF Matches, IdInv, ContextOwned
    <3>5. status \in [Requests -> {"new", "live", "completed", "removed"}]
          /\ answer \in [Requests -> 0..MaxMessageId]
      BY <1>0 DEF TypeOK, RequestsOK, HistoryOK
    <3>6. CASE \E r \in Requests : Matches(r, m)
      <4>1. PICK r \in Requests : Matches(r, m)
        BY <3>6
      <4>2. \A q \in Requests : Matches(q, m) <=> q = r
        BY <3>4, <4>1
      <4>3. status' = [status EXCEPT ![r] = "completed"]
            /\ answer' = [answer EXCEPT ![r] = m]
        BY <3>2, <3>5, <4>2
      <4>4. [call |-> r, attempt |-> m] \in Results
        BY <3>3, <3>4, <4>1 DEF Results
      <4>5. Results' = Results
        BY <3>2 DEF Results
      <4>6. Calls!Return(r, m)
        BY <3>2, <3>4, <4>1, <4>3, <4>4, <4>5 DEF Calls!Return, Results, Live
      <4> QED
        BY <3>1, <4>6 DEF Calls!Next
    <3>7. CASE ~\E r \in Requests : Matches(r, m)
      <4>1. status' = status /\ answer' = answer
        BY <3>2, <3>5, <3>7
      <4> QED
        BY <1>0, <3>2, <4>1, GivingUp
    <3> QED
      BY <3>6, <3>7
  <2>2. CASE ~ReceiveResult
    <3>1. /\ status' = status /\ answer' = answer /\ executed' = executed
          /\ owner' = owner /\ retired \subseteq retired'
      BY <1>5, <2>2 DEF ReceiveStep, IgnoreData, ReceiveDuplicate, ReceiveRestart, ReceiveAck,
         ReceiveBadMessage, ReceiveBadSequence, ReceiveUnparsable, ReceiveUndecryptable,
         ReceiveNewSession, ReceiveDropAnswer, NewSession, requestVars, serverVars,
         historyVars
    <3> QED
      BY <1>0, <3>1, GivingUp
  <2> QED
    BY <2>1, <2>2
<1> QED
  BY <1>1, <1>2, <1>3, <1>4, <1>5 DEF Next

\* MTRequestMessageService, as seen by its callers, behaves like RpcCalls: a
\* request is answered at most once, with its own result, never after it was
\* removed, and is executed again only when an attempt was given up.
THEOREM RequestsImplementCalls == Spec => ImplementsCalls
<1>1. Init => Calls!Init
  BY DEF Init, Calls!Init
<1>2. IdInv /\ [Next]_vars => [Calls!Next]_(Calls!vars)
  <2>1. IdInv /\ Next => [Calls!Next]_(Calls!vars)
    BY StepImplements
  <2>2. UNCHANGED vars => UNCHANGED Calls!vars
    BY DEF vars, requestVars, serverVars, historyVars, Calls!vars
  <2> QED
    BY <2>1, <2>2
<1> QED
  BY <1>1, <1>2, IdInvariant, PTL DEF Spec, ImplementsCalls, Calls!Spec
=============================================================================
