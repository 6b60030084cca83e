--------------------- MODULE EncryptedConnectionProofs ---------------------
(***************************************************************************)
(* Proofs about EncryptedConnection: whatever the server loses, repeats or *)
(* reorders, and for every size of the window, the queue and the packets,  *)
(* messages are handed to the application at most once while it matters,   *)
(* without gaps, and none leaves its queue before it was handed over.      *)
(***************************************************************************)
EXTENDS EncryptedConnection, KeepSeqTheorems, FiniteSetTheorems

-----------------------------------------------------------------------------
(* The inductive invariant.                                                *)

\* Message c of the other end has reached the application of p.
Got(p, c) == handed[p][c] >= 1

\* Counters are given out in order: nothing that was accepted or handed over
\* has a counter that its sender has not reached.
WithinCounter ==
    \A p \in Peers :
        /\ \A c \in accepted[p] : c <= counter[p]
        /\ \A c \in Counters : c > counter[p] => handed[Peer(p)][c] = 0

\* A queue holds accepted messages, the oldest first.
QueueInOrder ==
    \A p \in Peers :
        /\ \A i \in DOMAIN queue[p] : queue[p][i].counter \in accepted[p]
        /\ \A i, j \in DOMAIN queue[p] : i < j => queue[p][i].counter < queue[p][j].counter

\* What is in a packet: accepted messages, or one that needs no
\* acknowledgement; what it acknowledges has been handed over by its sender.
PacketContents(m) ==
    /\ m.counter <= counter[m.from]
    /\ \A i \in DOMAIN m.messages : m.messages[i] \in accepted[m.from]
    /\ m.main = "data" => m.counter \notin accepted[m.from]
    /\ \A i \in DOMAIN m.acks : Got(m.from, m.acks[i])

\* No message that is still queued is older than the first one of a packet.
PacketFirst(m) ==
    m.messages # <<>> =>
        \A i \in DOMAIN queue[m.from] : m.messages[1] <= queue[m.from][i].counter

\* Every message before one that a packet carries is in the packet too or has
\* been handed over.
PacketWithoutGaps(m) ==
    \A i \in DOMAIN m.messages : \A c \in accepted[m.from] :
        c < m.messages[i] =>
            \/ \E j \in DOMAIN m.messages : m.messages[j] = c
            \/ Got(Peer(m.from), c)

PacketGood(m) == PacketContents(m) /\ PacketFirst(m) /\ PacketWithoutGaps(m)
PacketsGood == \A m \in network : PacketGood(m)

\* A message that needs no acknowledgement and was handed over is refused.
HandedDataRefused ==
    \A p \in Peers : \A c \in Counters \ accepted[p] :
        Got(Peer(p), c) => ~RegisterAccepts(largestIncoming[Peer(p)], c)

\* What is acknowledged, or was, has been handed over.
AcksAreHanded ==
    \A p \in Peers :
        /\ \A i \in DOMAIN acksToSend[p] : Got(p, acksToSend[p][i])
        /\ \A c \in acksSent[p] : Got(p, c)

\* A message that was handed over while its sender keeps it is remembered.
QueuedIsRemembered ==
    \A p \in Peers : \A i \in DOMAIN queue[p] :
        Got(Peer(p), queue[p][i].counter) => queue[p][i].counter \in acksSent[Peer(p)]

\* The inductive invariant.
ConnectionInv ==
    /\ TypeOK /\ WithinCounter /\ QueueInOrder /\ PacketsGood
    /\ HandedDataRefused /\ AcksAreHanded /\ QueuedIsRemembered
    /\ DataHandedOnce /\ QueuedHandedOnce /\ AckedIsHanded /\ HandedWithoutGaps

-----------------------------------------------------------------------------
(* The two ends and the operators.                                         *)

\* There are two ends, each the peer of the other.
LEMMA PeerIsOther ==
    ASSUME NEW p \in Peers
    PROVE  /\ Peer(p) \in Peers /\ Peer(p) # p /\ Peer(Peer(p)) = p
           /\ \A q \in Peers : q # p => q = Peer(p)
<1>1. IsFiniteSet(Peers \ {p}) /\ Cardinality(Peers \ {p}) = 1
  BY PeersAssumption, FS_RemoveElement
<1>2. PICK q : Peers \ {p} = {q}
  BY <1>1, FS_Singleton
<1>3. Peers = {p, q} /\ p # q
  BY <1>2
<1>4. \E r \in Peers : r # p
  BY <1>3
<1>5. Peer(p) = q
  BY <1>3 DEF Peer
<1>6. Peer(q) = p
  BY <1>3 DEF Peer
<1> QED
  BY <1>3, <1>5, <1>6

\* A function on 1..n is a sequence.
LEMMA FunctionIsSeq ==
    ASSUME NEW S, NEW n \in Nat, NEW f \in [1..n -> S]
    PROVE  f \in Seq(S) /\ Len(f) = n /\ DOMAIN f = 1..n
BY SeqDef

\* A counter that registerIncomingCounter refuses is refused ever after, and
\* the one that was registered is refused from now on.
LEMMA RefusedStays ==
    ASSUME NEW list \in SUBSET Counters, NEW c \in Counters, NEW d \in Counters
    PROVE  /\ ~RegisterAccepts(list, c) => ~RegisterAccepts(RegisteredCounters(list, d), c)
           /\ ~RegisterAccepts(RegisteredCounters(list, d), d)
           /\ RegisteredCounters(list, d) \in SUBSET Counters
<1>1. KeepCounters \in Nat /\ c \in Nat /\ d \in Nat /\ list \subseteq Nat
  BY LimitsAssumption DEF Counters
<1>2. d \in RegisteredCounters(list, d)
  BY DEF RegisteredCounters
<1>3. \A x \in list : x + KeepCounters > d => x \in RegisteredCounters(list, d)
  BY DEF RegisteredCounters
<1>4. ASSUME ~RegisterAccepts(list, c) PROVE ~RegisterAccepts(RegisteredCounters(list, d), c)
  <2>1. CASE c \in list
    BY <1>1, <1>2, <1>3, <2>1 DEF RegisterAccepts
  <2>2. CASE \E x \in list : ~(c + KeepCounters > x)
    <3>1. PICK x \in list : ~(c + KeepCounters > x)
      BY <2>2
    <3>2. CASE x + KeepCounters > d
      BY <1>3, <3>1, <3>2 DEF RegisterAccepts
    <3>3. CASE ~(x + KeepCounters > d)
      <4>1. ~(c + KeepCounters > d)
        BY <1>1, <3>1, <3>3
      <4> QED
        BY <1>2, <4>1 DEF RegisterAccepts
    <3> QED
      BY <3>2, <3>3
  <2> QED
    BY <1>4, <2>1, <2>2 DEF RegisterAccepts
<1> QED
  BY <1>2, <1>4 DEF RegisterAccepts, RegisteredCounters

\* If the first element is kept, it comes first.
LEMMA KeepInFirst ==
    ASSUME NEW V, NEW s \in Seq(V), NEW S, s # <<>>, s[1] \in S
    PROVE  KeepIn(s, S) # <<>> /\ KeepIn(s, S)[1] = s[1]
<1>1. PICK e : Places(e, KeepIn(s, S), s, S, Len(s))
  BY KeepInPlaces
<1> DEFINE k == KeepIn(s, S)
<1>2. k \in Seq(V)
  BY KeepInPlaces
<1>3. Len(s) \in Nat /\ Len(s) >= 1 /\ Len(k) \in Nat
  BY <1>2
<1>4. PICK a \in 1..Len(k) : e[a] = 1
  BY <1>1, <1>3 DEF Places
<1>5. a = 1
  <2>1. 1 \in 1..Len(k) /\ (1 < a => e[1] < e[a]) /\ e[1] \in 1..Len(s)
    BY <1>1, <1>3, <1>4 DEF Places
  <2> QED
    BY <1>3, <1>4, <2>1
<1>6. k[1] = s[1]
  BY <1>1, <1>4, <1>5 DEF Places
<1> QED
  BY <1>2, <1>3, <1>4, <1>6

-----------------------------------------------------------------------------
(* What one end sends.                                                     *)

\* A packet that was good stays so while its sender goes on: the messages it
\* accepts are newer than the ones in the packet.
LEMMA GoodStays ==
    ASSUME ConnectionInv, NEW p \in Peers, NEW new,
           \A q \in Peers \ {p} : queue'[q] = queue[q],
           \A q \in Peers \ {p} : accepted'[q] = accepted[q],
           \A q \in Peers \ {p} : counter'[q] = counter[q],
           counter[p] <= counter'[p], counter'[p] \in Nat,
           \A c \in new : c \in Nat /\ counter[p] < c,
           accepted'[p] = accepted[p] \cup new,
           \A i \in DOMAIN queue'[p] : queue'[p][i].counter \in new \cup QueuedCounters(p),
           handed' = handed,
           NEW m \in network
    PROVE  PacketGood(m)'
<1>1. PacketGood(m) /\ m.from \in Peers /\ m.counter \in Nat /\ counter[p] \in Nat
      /\ counter[m.from] \in Nat
  BY LimitsAssumption DEF ConnectionInv, PacketsGood, TypeOK, Packets, Counters
<1>2. CASE m.from # p
  BY <1>1, <1>2 DEF PacketGood, PacketContents, PacketFirst, PacketWithoutGaps, Got
<1>3. CASE m.from = p
  <2>1. \A i \in DOMAIN m.messages : /\ m.messages[i] \in accepted[p]
                                     /\ m.messages[i] \in Nat
                                     /\ m.messages[i] <= counter[p]
    BY <1>1, <1>3 DEF PacketGood, PacketContents, ConnectionInv, WithinCounter, TypeOK, Counters
  <2>2. PacketContents(m)'
    <3>1. m.counter <= counter'[p]
      BY <1>1, <1>3 DEF PacketGood, PacketContents
    <3>2. m.main = "data" => m.counter \notin accepted'[p]
      BY <1>1, <1>3 DEF PacketGood, PacketContents
    <3>3. \A i \in DOMAIN m.acks : Got(m.from, m.acks[i])'
      BY <1>1 DEF PacketGood, PacketContents, Got
    <3> QED
      BY <1>3, <2>1, <3>1, <3>2, <3>3 DEF PacketContents
  <2>3. PacketFirst(m)'
    <3> SUFFICES ASSUME m.messages # <<>>, NEW i \in DOMAIN queue'[p]
                 PROVE  m.messages[1] <= queue'[p][i].counter
      BY <1>3 DEF PacketFirst
    <3>1. m.messages \in Seq(Counters)
      BY DEF ConnectionInv, TypeOK, Packets
    <3>2. 1 \in DOMAIN m.messages
      BY <3>1
    <3>3. CASE queue'[p][i].counter \in new
      BY <1>1, <2>1, <3>2, <3>3
    <3>4. CASE queue'[p][i].counter \in QueuedCounters(p)
      BY <1>1, <1>3, <3>4 DEF PacketGood, PacketFirst, QueuedCounters
    <3> QED
      BY <3>3, <3>4
  <2>4. PacketWithoutGaps(m)'
    <3> SUFFICES ASSUME NEW i \in DOMAIN m.messages, NEW c \in accepted'[p],
                        c < m.messages[i]
                 PROVE  \/ \E j \in DOMAIN m.messages : m.messages[j] = c
                        \/ Got(Peer(p), c)'
      BY <1>3 DEF PacketWithoutGaps
    <3>1. c \notin new
      BY <1>1, <2>1
    <3>2. c \in accepted[p]
      BY <3>1
    <3> QED
      BY <1>1, <1>3, <3>2 DEF PacketGood, PacketWithoutGaps, Got
  <2> QED
    BY <2>2, <2>3, <2>4 DEF PacketGood
<1> QED
  BY <1>2, <1>3

\* Each message of a queue is newer than the one before it.
Increasing(q) == \A i, j \in DOMAIN q : i < j => q[i].counter < q[j].counter

\* A step that sends: one end may accept messages with new counters, takes
\* them into its queue, and adds good packets to the network.
SendStep(p, new, packets) ==
    /\ \A q \in Peers \ {p} : /\ queue'[q] = queue[q]
                              /\ accepted'[q] = accepted[q]
                              /\ counter'[q] = counter[q]
                              /\ acksToSend'[q] = acksToSend[q]
    /\ counter[p] <= counter'[p]
    /\ \A c \in new : c \in Nat /\ counter[p] < c /\ c <= counter'[p]
    /\ accepted'[p] = accepted[p] \cup new
    /\ QueuedCounters(p)' = QueuedCounters(p) \cup new
    /\ Increasing(queue'[p])
    /\ \A i \in DOMAIN acksToSend'[p] : Got(p, acksToSend'[p][i])
    /\ network' \subseteq network \cup packets
    /\ \A m \in packets : PacketGood(m)'

\* Such a step keeps the invariant.
LEMMA SendKeeps ==
    ASSUME ConnectionInv, TypeOK', NEW p \in Peers, NEW new, NEW packets,
           UNCHANGED incoming, SendStep(p, new, packets)
    PROVE  ConnectionInv'
<1> SUFFICES ASSUME
           \A q \in Peers \ {p} : queue'[q] = queue[q],
           \A q \in Peers \ {p} : accepted'[q] = accepted[q],
           \A q \in Peers \ {p} : counter'[q] = counter[q],
           \A q \in Peers \ {p} : acksToSend'[q] = acksToSend[q],
           counter[p] <= counter'[p],
           \A c \in new : c \in Nat /\ counter[p] < c /\ c <= counter'[p],
           accepted'[p] = accepted[p] \cup new,
           QueuedCounters(p)' = QueuedCounters(p) \cup new,
           \A i, j \in DOMAIN queue'[p] :
                i < j => queue'[p][i].counter < queue'[p][j].counter,
           \A i \in DOMAIN acksToSend'[p] : Got(p, acksToSend'[p][i]),
           network' \subseteq network \cup packets,
           \A m \in packets : PacketGood(m)'
    PROVE  ConnectionInv'
  BY DEF SendStep, Increasing
<1>0. handed' = handed /\ largestIncoming' = largestIncoming /\ acksSent' = acksSent
  BY DEF incoming
<1>1. counter[p] \in Nat /\ counter'[p] \in Nat
  BY LimitsAssumption DEF ConnectionInv, TypeOK
<1>2. \A i \in DOMAIN queue'[p] : queue'[p][i].counter \in new \cup QueuedCounters(p)
  BY DEF QueuedCounters
<1>3. \A i \in DOMAIN queue[p] : queue[p][i].counter \in accepted[p]
  BY DEF ConnectionInv, QueueInOrder
<1>4. \A c \in new : c \in Counters /\ handed[Peer(p)][c] = 0
  <2>1. new \subseteq Counters
    BY DEF TypeOK
  <2> QED
    BY <2>1 DEF ConnectionInv, WithinCounter
<1>5. WithinCounter'
  <2> SUFFICES ASSUME NEW q \in Peers
               PROVE  /\ \A c \in accepted'[q] : c <= counter'[q]
                      /\ \A c \in Counters : c > counter'[q] => handed[Peer(q)][c] = 0
    BY <1>0 DEF WithinCounter
  <2>1. CASE q # p
    BY <2>1 DEF ConnectionInv, WithinCounter
  <2>2. CASE q = p
    <3>1. \A c \in accepted[p] : c <= counter[p] /\ c \in Nat
      BY DEF ConnectionInv, WithinCounter, TypeOK, Counters
    <3>2. \A c \in Counters : c \in Nat /\ (c > counter[p] => handed[Peer(p)][c] = 0)
      BY DEF ConnectionInv, WithinCounter, Counters
    <3> QED
      BY <1>1, <2>2, <3>1, <3>2
  <2> QED
    BY <2>1, <2>2
<1>6. QueueInOrder'
  <2> SUFFICES ASSUME NEW q \in Peers
               PROVE  /\ \A i \in DOMAIN queue'[q] : queue'[q][i].counter \in accepted'[q]
                      /\ \A i, j \in DOMAIN queue'[q] :
                            i < j => queue'[q][i].counter < queue'[q][j].counter
    BY DEF QueueInOrder
  <2>1. CASE q # p
    BY <2>1 DEF ConnectionInv, QueueInOrder
  <2>2. CASE q = p
    BY <1>2, <1>3, <2>2 DEF QueuedCounters
  <2> QED
    BY <2>1, <2>2
<1>7. PacketsGood'
  <2>1. \A m \in network : PacketGood(m)'
    BY <1>0, <1>1, <1>2, GoodStays
  <2> HIDE DEF PacketGood
  <2> QED
    BY <2>1 DEF PacketsGood
<1>8. HandedDataRefused'
  BY <1>0 DEF ConnectionInv, HandedDataRefused, Got
<1>9. AcksAreHanded'
  BY <1>0 DEF ConnectionInv, AcksAreHanded, Got
<1>10. QueuedIsRemembered' /\ QueuedHandedOnce'
  <2> SUFFICES ASSUME NEW q \in Peers, NEW c \in QueuedCounters(q)'
               PROVE  /\ Got(Peer(q), c) => c \in acksSent[Peer(q)]
                      /\ handed[Peer(q)][c] <= 1
    BY <1>0 DEF QueuedIsRemembered, QueuedHandedOnce, QueuedCounters, Got
  <2>1. CASE c \in QueuedCounters(q)
    BY <2>1 DEF ConnectionInv, QueuedIsRemembered, QueuedHandedOnce, QueuedCounters, Got
  <2>2. CASE c \notin QueuedCounters(q)
    <3>1. q = p /\ c \in new
      BY <2>2 DEF QueuedCounters
    <3> QED
      BY <1>4, <3>1 DEF Got
  <2> QED
    BY <2>1, <2>2
<1>11. DataHandedOnce'
  <2> SUFFICES ASSUME NEW q \in Peers, NEW c \in Counters, c \notin accepted'[Peer(q)]
               PROVE  handed[q][c] <= 1
    BY <1>0 DEF DataHandedOnce
  <2>1. c \notin accepted[Peer(q)]
    BY PeerIsOther
  <2> QED
    BY <2>1 DEF ConnectionInv, DataHandedOnce
<1>12. AckedIsHanded'
  <2> SUFFICES ASSUME NEW q \in Peers, NEW c \in accepted'[q], c \notin QueuedCounters(q)'
               PROVE  handed[Peer(q)][c] >= 1
    BY <1>0 DEF AckedIsHanded
  <2>1. c \in accepted[q] /\ c \notin QueuedCounters(q)
    <3>1. CASE q = p
      BY <3>1
    <3>2. CASE q # p
      BY <3>2 DEF QueuedCounters
    <3> QED
      BY <3>1, <3>2
  <2> QED
    BY <2>1 DEF ConnectionInv, AckedIsHanded
<1>13. HandedWithoutGaps'
  <2> SUFFICES ASSUME NEW q \in Peers, NEW c \in accepted'[q], NEW d \in accepted'[q],
                      c < d, handed[Peer(q)][d] >= 1
               PROVE  handed[Peer(q)][c] >= 1
    BY <1>0 DEF HandedWithoutGaps
  <2>1. d \in accepted[q]
    BY <1>4
  <2>2. d \in Nat /\ counter[q] \in Nat /\ d <= counter[q]
    BY <2>1, LimitsAssumption DEF ConnectionInv, WithinCounter, TypeOK, Counters
  <2>3. c \in accepted[q]
    BY <2>2
  <2> QED
    BY <2>1, <2>3 DEF ConnectionInv, HandedWithoutGaps
<1> QED
  BY <1>5, <1>6, <1>7, <1>8, <1>9, <1>10, <1>11, <1>12, <1>13 DEF ConnectionInv

\* What is acknowledged in s has been handed over.
AllGot(p, s) == \A i \in DOMAIN s : Got(p, s[i])

\* The acknowledgements that a packet with acks leaves for the next one.
LaterAcks(p, acks) == SubSeq(acksToSend[p], Len(acks) + 1, Len(acksToSend[p]))

\* The acknowledgements that fit and the ones that are left are pending ones.
LEMMA AcksSplit ==
    ASSUME TypeOK, AcksAreHanded, NEW p \in Peers, NEW size \in Nat, size <= PacketLimit,
           NEW acks, acks = AcksThatFit(p, size),
           NEW rest, rest = LaterAcks(p, acks)
    PROVE  /\ acks \in Seq(Counters) /\ rest \in Seq(Counters)
           /\ Len(acks) \in Nat /\ size + Len(acks) <= PacketLimit
           /\ AllGot(p, acks) /\ AllGot(p, rest)
<1> DEFINE a == acksToSend[p]
           n == IF Len(a) <= PacketLimit - size THEN Len(a) ELSE PacketLimit - size
<1>1. a \in Seq(Counters) /\ Len(a) \in Nat /\ DOMAIN a = 1..Len(a)
  BY DEF TypeOK
<1>2. n \in Nat /\ n <= Len(a) /\ size + n <= PacketLimit
  BY <1>1, LimitsAssumption
<1>3. acks = SubSeq(a, 1, n)
  BY DEF AcksThatFit
<1> HIDE DEF n
<1>4. /\ acks \in Seq(Counters) /\ Len(acks) = n /\ DOMAIN acks = 1..n
      /\ \A i \in 1..n : i \in 1..Len(a) /\ acks[i] = a[i]
  BY <1>1, <1>2, <1>3
<1>5. rest = SubSeq(a, n + 1, Len(a))
  BY <1>4 DEF LaterAcks
<1> HIDE DEF a
<1>6. /\ rest \in Seq(Counters) /\ DOMAIN rest = 1..(Len(a) - n)
      /\ \A i \in 1..(Len(a) - n) : rest[i] = a[n + i]
  <2> DEFINE t == SubSeq(a, n + 1, Len(a))
  <2>1. /\ t \in Seq(Counters) /\ DOMAIN t = 1..(Len(a) - n)
        /\ \A i \in 1..(Len(a) - n) : t[i] = a[n + i]
    BY <1>1, <1>2, SMTT(30)
  <2> HIDE DEF t
  <2> QED
    BY <1>5, <2>1 DEF t
<1>7. \A i \in 1..(Len(a) - n) : n + i \in 1..Len(a)
  BY <1>1, <1>2
<1>8. \A i \in DOMAIN rest : \E j \in DOMAIN a : rest[i] = a[j]
  BY <1>1, <1>6, <1>7
<1>9. \A i \in DOMAIN acks : \E j \in DOMAIN a : acks[i] = a[j]
  BY <1>1, <1>4
<1>10. Len(acks) \in Nat /\ size + Len(acks) <= PacketLimit
  BY <1>2, <1>4
<1>11. \A j \in DOMAIN a : Got(p, a[j])
  BY DEF AcksAreHanded, a
<1> QED
  BY <1>4, <1>6, <1>8, <1>9, <1>10, <1>11 DEF AllGot

\* A queue, as a sequence that tlapm's backends can take apart.
QueueType == Seq([counter : Counters, due : BOOLEAN])

\* The messages of a service packet: the first ones of the queue.
LEMMA ServiceMessages ==
    ASSUME NEW q \in QueueType, NEW size \in Nat
    PROVE  LET again == Resend(q, size)
               messages == KeepIn([i \in DOMAIN q |-> q[i].counter],
                                  {q[i].counter : i \in again})
           IN  /\ messages \in Seq(Counters)
               /\ \A k \in DOMAIN messages : \E i \in again : messages[k] = q[i].counter
               /\ \A i \in again : \E k \in DOMAIN messages : messages[k] = q[i].counter
               /\ messages # <<>> => 1 \in DOMAIN q /\ messages[1] = q[1].counter
               /\ \A i \in again : i \in DOMAIN q /\ \A j \in 1..i : j \in again
<1> DEFINE s == [i \in DOMAIN q |-> q[i].counter]
           again == Resend(q, size)
           S == {q[i].counter : i \in again}
           messages == KeepIn(s, S)
<1>1. Len(q) \in Nat /\ DOMAIN q = 1..Len(q)
      /\ \A i \in DOMAIN q : q[i] \in [counter : Counters, due : BOOLEAN]
  <2> DEFINE E == [counter : Counters, due : BOOLEAN]
  <2>1. q \in Seq(E)
    BY DEF QueueType
  <2> HIDE DEF E
  <2>2. Len(q) \in Nat /\ DOMAIN q = 1..Len(q) /\ \A i \in 1..Len(q) : q[i] \in E
    BY <2>1, ElementOfSeq, LenProperties
  <2> QED
    BY <2>2 DEF E
<1>2. s \in Seq(Counters) /\ Len(s) = Len(q) /\ DOMAIN s = 1..Len(q)
  <2>1. s \in [1..Len(q) -> Counters]
    BY <1>1
  <2> QED
    BY <1>1, <2>1, FunctionIsSeq
<1>3. \A i \in again : i \in DOMAIN q /\ \A j \in 1..i : j \in again
  <2> SUFFICES ASSUME NEW i \in again, NEW j \in 1..i PROVE i \in DOMAIN q /\ j \in again
    BY DEF Resend
  <2>1. i \in 1..Len(q) /\ j \in 1..Len(q) /\ \A k \in 1..j : k \in 1..i
    BY <1>1 DEF Resend
  <2> QED
    BY <1>1, <2>1 DEF Resend
<1>4. again \subseteq 1..Len(q)
  BY <1>1, <1>3
<1> HIDE DEF again
<1>5. \A i \in 1..Len(q) : s[i] = q[i].counter
  BY <1>1
<1>6. \A i \in again : s[i] \in S
  BY <1>4, <1>5
<1> HIDE DEF s
<1>7. messages \in Seq(Counters) /\ DOMAIN messages = 1..Len(messages)
  BY <1>2, KeepInElements
<1>8. \A k \in 1..Len(messages) : messages[k] \in S
  BY <1>2, KeepInElements
<1>9. \A i \in again : \E k \in 1..Len(messages) : messages[k] = s[i]
  <2> HIDE DEF S
  <2>1. \A j \in 1..Len(s) : s[j] \in S => \E k \in 1..Len(messages) : messages[k] = s[j]
    BY <1>2, KeepInElements, SMTT(30)
  <2> HIDE DEF messages
  <2> QED
    BY <1>2, <1>4, <1>6, <2>1
<1>10. ASSUME messages # <<>> PROVE 1 \in DOMAIN q /\ messages[1] = q[1].counter
  <2>1. 1 \in 1..Len(messages)
    BY <1>7, <1>10
  <2>2. PICK i \in again : TRUE
    BY <1>8, <2>1
  <2>3. 1 \in again /\ 1 \in 1..Len(q)
    BY <1>3, <1>4, <2>2
  <2>4. s # <<>> /\ s[1] \in S
    BY <1>2, <1>6, <2>3
  <2>5. messages[1] = s[1]
    BY <1>2, <2>4, KeepInFirst
  <2> QED
    BY <1>1, <1>5, <2>3, <2>5
<1>11. \A k \in DOMAIN messages : \E i \in again : messages[k] = q[i].counter
  BY <1>7, <1>8
<1>12. \A i \in again : \E k \in DOMAIN messages : messages[k] = q[i].counter
  BY <1>4, <1>5, <1>7, <1>9
<1> HIDE DEF messages
<1> QED
  BY <1>3, <1>7, <1>10, <1>11, <1>12 DEF messages, s, S, again

\* The queue after a service packet: some messages are not due any more.
NotDue(q, again) ==
    [i \in DOMAIN q |-> IF i \in again THEN [q[i] EXCEPT !.due = FALSE] ELSE q[i]]

\* It holds the same messages in the same order.
LEMMA ServiceQueue ==
    ASSUME NEW q \in QueueType, NEW again
    PROVE  /\ NotDue(q, again) \in QueueType /\ DOMAIN NotDue(q, again) = DOMAIN q
           /\ \A i \in DOMAIN q : NotDue(q, again)[i].counter = q[i].counter
<1> DEFINE E == [counter : Counters, due : BOOLEAN]
           q2 == [i \in DOMAIN q |-> IF i \in again THEN [q[i] EXCEPT !.due = FALSE]
                                                    ELSE q[i]]
<1>1. Len(q) \in Nat /\ DOMAIN q = 1..Len(q) /\ \A i \in 1..Len(q) : q[i] \in E
  <2>1. q \in Seq(E)
    BY DEF QueueType
  <2> HIDE DEF E
  <2> QED
    BY <2>1, ElementOfSeq, LenProperties
<1>2. \A i \in 1..Len(q) : [q[i] EXCEPT !.due = FALSE] \in E
  BY <1>1
<1>3. \A i \in 1..Len(q) : [q[i] EXCEPT !.due = FALSE].counter = q[i].counter
  BY <1>1
<1>4. \A i \in DOMAIN q : q2[i].counter = q[i].counter
  BY <1>1, <1>3
<1>5. q2 \in Seq(E)
  <2> HIDE DEF E
  <2>1. q2 \in [1..Len(q) -> E]
    BY <1>1, <1>2
  <2> HIDE DEF q2
  <2> QED
    BY <1>1, <2>1, FunctionIsSeq
<1>6. DOMAIN q2 = DOMAIN q
  OBVIOUS
<1> QED
  BY <1>4, <1>5, <1>6 DEF QueueType, NotDue

\* The counters of a queue.
CountersOf(q) == {q[i].counter : i \in DOMAIN q}

\* The messages of a service packet leave no gap: what is before one of them
\* is among them, or not queued any more and so handed over.
LEMMA ServiceWithoutGaps ==
    ASSUME ConnectionInv, NEW p \in Peers, NEW q \in QueueType, NEW size \in Nat, NEW new,
           Increasing(q), CountersOf(q) = QueuedCounters(p) \cup new,
           NEW i \in Resend(q, size), NEW c \in accepted[p] \cup new,
           c < q[i].counter
    PROVE  (\E j \in Resend(q, size) : c = q[j].counter) \/ Got(Peer(p), c)
<1>1. i \in DOMAIN q /\ \A j \in 1..i : j \in Resend(q, size)
  BY ServiceMessages
<1>2. /\ Len(q) \in Nat /\ DOMAIN q = 1..Len(q)
      /\ \A j \in DOMAIN q : q[j].counter \in Nat
  <2> DEFINE E == [counter : Counters, due : BOOLEAN]
  <2>1. q \in Seq(E)
    BY DEF QueueType
  <2>2. \A e \in E : e.counter \in Nat
    BY DEF Counters
  <2> HIDE DEF E
  <2>3. Len(q) \in Nat /\ DOMAIN q = 1..Len(q) /\ \A j \in 1..Len(q) : q[j] \in E
    BY <2>1, ElementOfSeq, LenProperties
  <2> QED
    BY <2>2, <2>3
<1>3. CASE c \in CountersOf(q)
  <2>1. PICK j \in DOMAIN q : c = q[j].counter
    BY <1>3 DEF CountersOf
  <2>2. ~(i < j) /\ i # j
    BY <1>1, <1>2, <2>1 DEF Increasing
  <2>3. j \in 1..i
    BY <1>1, <1>2, <2>1, <2>2
  <2> QED
    BY <1>1, <2>1, <2>3
<1>4. CASE c \notin CountersOf(q)
  <2>1. c \in accepted[p] \ QueuedCounters(p)
    BY <1>4
  <2> QED
    BY <2>1 DEF ConnectionInv, AckedIsHanded, Got
<1> QED
  BY <1>3, <1>4

\* The counters that p gives out on its way to c.
Fresh(p, new, c) ==
    /\ new \subseteq Counters /\ counter[p] <= c
    /\ \A x \in new : counter[p] < x /\ x <= c

\* prepareForSendingService keeps the invariant, for a queue q that holds what
\* was queued and what was just accepted.
LEMMA ServiceKeeps ==
    ASSUME ConnectionInv, NEW p \in Peers, NEW q \in QueueType, NEW c \in 0..MaxCounter,
           NEW new,
           SendService(p, q, c), UNCHANGED incoming,
           resendTimerActive' \in [Peers -> BOOLEAN],
           sendAcksTimerActive' \in [Peers -> BOOLEAN],
           accepted' = [accepted EXCEPT ![p] = @ \cup new],
           Fresh(p, new, c), Increasing(q), CountersOf(q) = QueuedCounters(p) \cup new
    PROVE  ConnectionInv'
<1>1. TypeOK /\ MaxCounter \in Nat /\ c \in Nat /\ counter[p] \in Nat
  <2>1. TypeOK /\ MaxCounter \in Nat
    BY LimitsAssumption DEF ConnectionInv
  <2>2. counter[p] \in 0..MaxCounter
    BY <2>1 DEF TypeOK
  <2> QED
    BY <2>1, <2>2
<1>h. counter[p] <= c /\ \A x \in new : x \in Nat /\ counter[p] < x /\ x <= c
  BY DEF Fresh, Counters
<1>a. PICK acks : acks = AcksThatFit(p, EmptySize)
  OBVIOUS
<1>b. PICK rest : rest = LaterAcks(p, acks)
  OBVIOUS
<1>c. PICK size : size = EmptySize + Len(acks)
  OBVIOUS
<1>d. PICK again : again = Resend(q, size)
  OBVIOUS
<1>e. PICK messages : messages = KeepIn([i \in DOMAIN q |-> q[i].counter],
                                        {q[i].counter : i \in again})
  OBVIOUS
<1>f. PICK q2 : q2 = NotDue(q, again)
  OBVIOUS
<1>g. PICK m : m = [from |-> p, counter |-> c + 1, main |-> "empty",
                    acks |-> acks, messages |-> messages]
  OBVIOUS
<1> DEFINE sent == c < MaxCounter /\ (q # <<>> \/ acksToSend[p] # <<>>)
<1>2. EmptySize \in Nat /\ EmptySize <= PacketLimit
  BY LimitsAssumption DEF EmptySize
<1>3. /\ acks \in Seq(Counters) /\ rest \in Seq(Counters) /\ size \in Nat
      /\ AllGot(p, acks) /\ AllGot(p, rest)
  <2>1. /\ acks \in Seq(Counters) /\ rest \in Seq(Counters) /\ Len(acks) \in Nat
        /\ AllGot(p, acks) /\ AllGot(p, rest)
    <3>1. TypeOK /\ AcksAreHanded
      BY DEF ConnectionInv
    <3> QED
      BY <3>1, <1>2, <1>a, <1>b, AcksSplit
  <2>2. size \in Nat
    BY <1>2, <1>c, <2>1
  <2> QED
    BY <2>1, <2>2, Zenon
<1>4. \A i \in DOMAIN acksToSend[p] : Got(p, acksToSend[p][i])
  BY DEF ConnectionInv, AcksAreHanded
<1>5. (\A i \in DOMAIN acks : Got(p, acks[i])) /\ (\A i \in DOMAIN rest : Got(p, rest[i]))
  BY <1>3 DEF AllGot
<1>6. \/ /\ sent
         /\ counter' = [counter EXCEPT ![p] = c + 1]
         /\ acksToSend' = [acksToSend EXCEPT ![p] = rest]
         /\ queue' = [queue EXCEPT ![p] = q2]
         /\ network' = network \cup {m}
      \/ /\ counter' = [counter EXCEPT ![p] = c]
         /\ queue' = [queue EXCEPT ![p] = q]
         /\ UNCHANGED <<acksToSend, network>>
  BY <1>a, <1>b, <1>c, <1>d, <1>e, <1>f, <1>g DEF SendService, LaterAcks, NotDue
<1>7. /\ messages \in Seq(Counters)
      /\ \A k \in DOMAIN messages : \E i \in again : messages[k] = q[i].counter
      /\ \A i \in again : \E k \in DOMAIN messages : messages[k] = q[i].counter
      /\ messages # <<>> => 1 \in DOMAIN q /\ messages[1] = q[1].counter
      /\ \A i \in again : i \in DOMAIN q
  BY <1>3, <1>d, <1>e, ServiceMessages
<1>8. /\ q2 \in QueueType /\ DOMAIN q2 = DOMAIN q
      /\ \A i \in DOMAIN q : q2[i].counter = q[i].counter
  BY <1>f, ServiceQueue
<1>9. /\ Len(q) \in Nat /\ DOMAIN q = 1..Len(q)
      /\ \A j \in DOMAIN q : q[j].counter \in Nat
  <2> DEFINE E == [counter : Counters, due : BOOLEAN]
  <2>1. q \in Seq(E)
    BY DEF QueueType
  <2>2. \A e \in E : e.counter \in Nat
    BY DEF Counters
  <2> HIDE DEF E
  <2>3. Len(q) \in Nat /\ DOMAIN q = 1..Len(q) /\ \A j \in 1..Len(q) : q[j] \in E
    BY <2>1, ElementOfSeq, LenProperties
  <2> QED
    BY <2>2, <2>3
<1>10. \A x \in CountersOf(q) : x \in accepted[p] \cup new
  BY DEF ConnectionInv, QueueInOrder, QueuedCounters
<1>11. \A i \in again, x \in accepted[p] \cup new : x < q[i].counter =>
            (\E j \in again : x = q[j].counter) \/ Got(Peer(p), x)
  <2> SUFFICES ASSUME NEW i \in again, NEW x \in accepted[p] \cup new, x < q[i].counter
               PROVE  (\E j \in again : x = q[j].counter) \/ Got(Peer(p), x)
    OBVIOUS
  <2>1. size \in Nat
    BY <1>3
  <2> QED
    BY <1>d, <2>1, ServiceWithoutGaps, SMTT(30)
<1>12. accepted' \in [Peers -> SUBSET Counters] /\ accepted'[p] = accepted[p] \cup new
       /\ \A r \in Peers \ {p} : accepted'[r] = accepted[r]
  BY <1>1 DEF TypeOK, Fresh
<1>13. CASE /\ sent
            /\ counter' = [counter EXCEPT ![p] = c + 1]
            /\ acksToSend' = [acksToSend EXCEPT ![p] = rest]
            /\ queue' = [queue EXCEPT ![p] = q2]
            /\ network' = network \cup {m}
  <2>1. c + 1 \in Counters /\ c + 1 \in 0..MaxCounter
    BY <1>1, <1>13 DEF Counters
  <2>2. /\ counter'[p] = c + 1 /\ queue'[p] = q2 /\ acksToSend'[p] = rest
        /\ \A r \in Peers \ {p} : /\ counter'[r] = counter[r]
                                  /\ queue'[r] = queue[r]
                                  /\ acksToSend'[r] = acksToSend[r]
    BY <1>1, <1>13 DEF TypeOK
  <2>3. TypeOK'
    <3>1. counter' \in [Peers -> 0..MaxCounter]
      BY <1>1, <1>13, <2>1 DEF TypeOK
    <3>2. queue' \in [Peers -> Seq([counter : Counters, due : BOOLEAN])]
      <4>1. queue \in [Peers -> QueueType]
        BY <1>1 DEF TypeOK, QueueType
      <4>2. queue' \in [Peers -> QueueType]
        BY <1>8, <1>13, <4>1
      <4> QED
        BY <4>2 DEF QueueType
    <3>3. acksToSend' \in [Peers -> Seq(Counters)]
      BY <1>1, <1>3, <1>13 DEF TypeOK
    <3>4. network' \subseteq Packets
      <4>1. m \in Packets
        BY <1>3, <1>7, <1>g, <2>1 DEF Packets
      <4> QED
        BY <1>1, <1>13, <4>1 DEF TypeOK
    <3> QED
      BY <1>1, <1>12, <3>1, <3>2, <3>3, <3>4 DEF TypeOK, incoming
  <2>4. QueuedCounters(p)' = QueuedCounters(p) \cup new
    <3>1. CountersOf(q2) = CountersOf(q)
      BY <1>8 DEF CountersOf
    <3>2. QueuedCounters(p)' = CountersOf(q2)
      BY <2>2 DEF QueuedCounters, CountersOf
    <3> QED
      BY <3>1, <3>2
  <2>5. PacketGood(m)'
    <3>0. m.from = p /\ m.counter = c + 1 /\ m.main = "empty" /\ m.acks = acks
          /\ m.messages = messages
      BY <1>g
    <3>1. PacketContents(m)'
      <4>1. m.counter <= counter'[p]
        BY <1>1, <2>2, <3>0
      <4>2. \A i \in DOMAIN messages : messages[i] \in accepted'[p]
        BY <1>7, <1>10, <1>12 DEF CountersOf
      <4>3. \A i \in DOMAIN acks : Got(p, acks[i])'
        BY <1>5 DEF Got, incoming
      <4> QED
        BY <3>0, <4>1, <4>2, <4>3 DEF PacketContents
    <3>2. PacketFirst(m)'
      <4> SUFFICES ASSUME messages # <<>>, NEW i \in DOMAIN q2
                   PROVE  messages[1] <= q2[i].counter
        BY <2>2, <3>0 DEF PacketFirst
      <4>1. 1 \in DOMAIN q /\ i \in DOMAIN q /\ messages[1] = q[1].counter
            /\ q2[i].counter = q[i].counter
        BY <1>7, <1>8
      <4>2. i = 1 \/ 1 < i
        BY <1>9, <4>1
      <4> QED
        BY <1>9, <4>1, <4>2 DEF Increasing
    <3>3. PacketWithoutGaps(m)'
      <4> SUFFICES ASSUME NEW k \in DOMAIN messages, NEW x \in accepted'[p], x < messages[k]
                   PROVE  \/ \E j \in DOMAIN messages : messages[j] = x
                          \/ Got(Peer(p), x)
        BY <3>0 DEF PacketWithoutGaps, Got, incoming
      <4>1. PICK i \in again : messages[k] = q[i].counter
        BY <1>7
      <4>2. (\E j \in again : x = q[j].counter) \/ Got(Peer(p), x)
        BY <1>11, <1>12, <4>1
      <4> QED
        BY <1>7, <4>2
    <3> QED
      BY <3>1, <3>2, <3>3 DEF PacketGood
  <2>6. Increasing(queue'[p])
    BY <1>8, <2>2 DEF Increasing
  <2>7. counter[p] <= counter'[p] /\ \A x \in new : x \in Nat /\ counter[p] < x /\ x <= counter'[p]
    BY <1>1, <1>h, <2>2
  <2>8. \A i \in DOMAIN acksToSend'[p] : Got(p, acksToSend'[p][i])
    BY <1>5, <2>2
  <2>9. network' \subseteq network \cup {m} /\ \A x \in {m} : PacketGood(x)'
    BY <1>13, <2>5
  <2>10. SendStep(p, new, {m})
    BY <1>12, <2>2, <2>4, <2>6, <2>7, <2>8, <2>9 DEF SendStep
  <2> QED
    BY <2>3, <2>10, SendKeeps
<1>14. CASE /\ counter' = [counter EXCEPT ![p] = c]
            /\ queue' = [queue EXCEPT ![p] = q]
            /\ UNCHANGED <<acksToSend, network>>
  <2>1. counter'[p] = c /\ queue'[p] = q /\ acksToSend' = acksToSend
        /\ \A r \in Peers \ {p} : counter'[r] = counter[r] /\ queue'[r] = queue[r]
    BY <1>1, <1>14 DEF TypeOK
  <2>2. TypeOK'
    <3>1. counter' \in [Peers -> 0..MaxCounter]
      BY <1>1, <1>14 DEF TypeOK
    <3>2. queue' \in [Peers -> Seq([counter : Counters, due : BOOLEAN])]
      <4>1. queue \in [Peers -> QueueType]
        BY <1>1 DEF TypeOK, QueueType
      <4>2. queue' \in [Peers -> QueueType]
        BY <1>14, <4>1
      <4> QED
        BY <4>2 DEF QueueType
    <3> QED
      BY <1>1, <1>12, <1>14, <3>1, <3>2 DEF TypeOK, incoming
  <2>3. QueuedCounters(p)' = QueuedCounters(p) \cup new
    BY <2>1 DEF QueuedCounters, CountersOf
  <2>4. counter[p] <= counter'[p] /\ \A x \in new : x \in Nat /\ counter[p] < x /\ x <= counter'[p]
    BY <1>h, <2>1
  <2>5. network' \subseteq network \cup {} /\ \A x \in {} : PacketGood(x)'
    BY <1>14
  <2>6. SendStep(p, new, {})
    BY <1>4, <1>12, <2>1, <2>3, <2>4, <2>5 DEF SendStep
  <2> QED
    BY <2>2, <2>6, SendKeeps
<1> QED
  BY <1>6, <1>13, <1>14

-----------------------------------------------------------------------------
(* The steps of one end.                                                   *)

\* The queue of a state, and its counters.
LEMMA QueueFacts ==
    ASSUME ConnectionInv, NEW p \in Peers
    PROVE  /\ queue[p] \in QueueType /\ Increasing(queue[p])
           /\ CountersOf(queue[p]) = QueuedCounters(p)
           /\ Len(queue[p]) \in Nat /\ DOMAIN queue[p] = 1..Len(queue[p])
           /\ \A i \in DOMAIN queue[p] : /\ queue[p][i].counter \in Counters
                                         /\ queue[p][i].counter <= counter[p]
           /\ counter[p] \in Nat /\ counter[p] <= MaxCounter
<1>1. queue[p] \in Seq([counter : Counters, due : BOOLEAN])
  BY DEF ConnectionInv, TypeOK
<1>2. Increasing(queue[p])
  BY DEF ConnectionInv, QueueInOrder, Increasing
<1>3. CountersOf(queue[p]) = QueuedCounters(p)
  BY DEF CountersOf, QueuedCounters
<1>4. Len(queue[p]) \in Nat /\ DOMAIN queue[p] = 1..Len(queue[p])
  BY <1>1, LenProperties
<1>5. \A i \in DOMAIN queue[p] : /\ queue[p][i].counter \in Counters
                                 /\ queue[p][i].counter <= counter[p]
  BY DEF ConnectionInv, TypeOK, QueueInOrder, WithinCounter
<1>6. counter[p] \in Nat /\ counter[p] <= MaxCounter
  <2>1. counter[p] \in 0..MaxCounter
    BY DEF ConnectionInv, TypeOK
  <2> QED
    BY <2>1, LimitsAssumption
<1> QED
  BY <1>1, <1>2, <1>3, <1>4, <1>5, <1>6 DEF QueueType

\* The timers: a service packet from the queue as it is.
LEMMA TimerStep ==
    ASSUME ConnectionInv, NEW p \in Peers, ResendTimer(p) \/ SendAcksTimer(p)
    PROVE  ConnectionInv'
<1>1. SendService(p, queue[p], counter[p]) /\ UNCHANGED incoming /\ accepted' = accepted
  BY DEF ResendTimer, SendAcksTimer
<1>2. resendTimerActive' \in [Peers -> BOOLEAN] /\ sendAcksTimerActive' \in [Peers -> BOOLEAN]
  <2>1. /\ resendTimerActive \in [Peers -> BOOLEAN]
        /\ sendAcksTimerActive \in [Peers -> BOOLEAN]
    BY DEF ConnectionInv, TypeOK
  <2>2. CASE ResendTimer(p)
    BY <2>1, <2>2 DEF ResendTimer, ArmResend
  <2>3. CASE SendAcksTimer(p)
    BY <2>1, <2>3 DEF SendAcksTimer, ArmResend
  <2> QED
    BY <2>2, <2>3
<1>3. accepted' = [accepted EXCEPT ![p] = @ \cup {}]
  BY <1>1 DEF ConnectionInv, TypeOK
<1>4. Fresh(p, {}, counter[p])
  BY QueueFacts DEF Fresh
<1>5. CountersOf(queue[p]) = QueuedCounters(p) \cup {} /\ counter[p] \in 0..MaxCounter
      /\ queue[p] \in QueueType /\ Increasing(queue[p])
  BY QueueFacts
<1> QED
  BY <1>1, <1>2, <1>3, <1>4, <1>5, ServiceKeeps

\* A message without acknowledgement, or one that is too large.
LEMMA DataStep ==
    ASSUME ConnectionInv, NEW p \in Peers, SendData(p) \/ SendTooLarge(p)
    PROVE  ConnectionInv'
<1>0. PICK m : m = [from |-> p, counter |-> counter[p] + 1, main |-> "data",
                    acks |-> <<>>, messages |-> <<>>]
  OBVIOUS
<1>1. /\ counter[p] < MaxCounter /\ counter' = [counter EXCEPT ![p] = @ + 1]
      /\ UNCHANGED <<queue, timers, incoming, acksToSend, accepted>>
      /\ network' \subseteq network \cup {m}
  BY <1>0 DEF SendData, SendTooLarge
<1>2. counter[p] \in Nat /\ MaxCounter \in Nat /\ TypeOK
  BY QueueFacts, LimitsAssumption DEF ConnectionInv
<1>3. counter'[p] = counter[p] + 1 /\ \A q \in Peers \ {p} : counter'[q] = counter[q]
  BY <1>1, <1>2 DEF TypeOK
<1>4. m.from = p /\ m.counter = counter[p] + 1 /\ m.messages = <<>> /\ m.acks = <<>>
      /\ m \in Packets
  <2>1. counter[p] + 1 \in Counters
    BY <1>1, <1>2 DEF Counters
  <2> QED
    BY <1>0, <2>1 DEF Packets
<1>5. PacketGood(m)'
  <2>1. counter[p] + 1 \notin accepted[p]
    BY <1>2 DEF ConnectionInv, WithinCounter
  <2>2. PacketContents(m)'
    BY <1>1, <1>2, <1>3, <1>4, <2>1 DEF PacketContents
  <2> QED
    BY <1>4, <2>2 DEF PacketGood, PacketFirst, PacketWithoutGaps
<1>6. TypeOK'
  <2>1. counter' \in [Peers -> 0..MaxCounter]
    BY <1>1, <1>2 DEF TypeOK
  <2> QED
    BY <1>1, <1>2, <1>4, <2>1 DEF TypeOK, timers, incoming
<1>7. SendStep(p, {}, {m})
  <2>1. Increasing(queue'[p]) /\ QueuedCounters(p)' = QueuedCounters(p) \cup {}
    BY <1>1, QueueFacts DEF QueuedCounters
  <2>2. \A i \in DOMAIN acksToSend'[p] : Got(p, acksToSend'[p][i])
    BY <1>1 DEF ConnectionInv, AcksAreHanded
  <2> QED
    BY <1>1, <1>2, <1>3, <1>5, <2>1, <2>2 DEF SendStep
<1> QED
  BY <1>1, <1>6, <1>7, SendKeeps

\* Time passes: only whether messages are due changes.
LEMMA ElapseStep ==
    ASSUME ConnectionInv, NEW p \in Peers, Elapse(p)
    PROVE  ConnectionInv'
<1>0. PICK q2 : q2 = [i \in DOMAIN queue[p] |-> [queue[p][i] EXCEPT !.due = TRUE]]
  OBVIOUS
<1>1. queue' = [queue EXCEPT ![p] = q2]
      /\ UNCHANGED <<counter, timers, incoming, acksToSend, network, accepted>>
  BY <1>0 DEF Elapse
<1>2. /\ q2 \in QueueType /\ DOMAIN q2 = DOMAIN queue[p]
      /\ \A i \in DOMAIN queue[p] : q2[i].counter = queue[p][i].counter
  <2> DEFINE E == [counter : Counters, due : BOOLEAN]
  <2>1. Len(queue[p]) \in Nat /\ DOMAIN queue[p] = 1..Len(queue[p])
    BY QueueFacts
  <2>2. \A i \in DOMAIN queue[p] : queue[p][i] \in E
    <3>1. queue[p] \in Seq(E)
      BY DEF ConnectionInv, TypeOK
    <3> HIDE DEF E
    <3> QED
      BY <2>1, <3>1, ElementOfSeq
  <2>3. \A i \in DOMAIN queue[p] :
          /\ [queue[p][i] EXCEPT !.due = TRUE] \in E
          /\ [queue[p][i] EXCEPT !.due = TRUE].counter = queue[p][i].counter
    BY <2>2
  <2> HIDE DEF E
  <2>4. q2 \in [1..Len(queue[p]) -> E]
    BY <1>0, <2>1, <2>3
  <2>5. q2 \in Seq(E) /\ DOMAIN q2 = 1..Len(queue[p])
    BY <2>1, <2>4, FunctionIsSeq
  <2>6. \A i \in DOMAIN queue[p] : q2[i].counter = queue[p][i].counter
    BY <1>0, <2>3
  <2> QED
    BY <2>1, <2>5, <2>6 DEF QueueType, E
<1>3. TypeOK
  BY DEF ConnectionInv
<1>4. queue'[p] = q2 /\ \A q \in Peers \ {p} : queue'[q] = queue[q]
  BY <1>1, <1>3 DEF TypeOK
<1>5. TypeOK'
  <2>1. queue' \in [Peers -> QueueType]
    <3>1. queue \in [Peers -> QueueType]
      BY <1>3 DEF TypeOK, QueueType
    <3> QED
      BY <1>1, <1>2, <3>1
  <2> QED
    BY <1>1, <1>3, <2>1 DEF TypeOK, timers, incoming, QueueType
<1>6. SendStep(p, {}, {})
  <2>1. Increasing(q2)
    BY <1>2, QueueFacts DEF Increasing
  <2>2. QueuedCounters(p)' = QueuedCounters(p) \cup {}
    BY <1>2, <1>4 DEF QueuedCounters
  <2>3. \A i \in DOMAIN acksToSend'[p] : Got(p, acksToSend'[p][i])
    BY <1>1 DEF ConnectionInv, AcksAreHanded
  <2>4. counter[p] <= counter'[p]
    BY <1>1, QueueFacts
  <2> QED
    BY <1>1, <1>4, <2>1, <2>2, <2>3, <2>4 DEF SendStep
<1> QED
  BY <1>1, <1>5, <1>6, SendKeeps

\* A lost packet.
LEMMA LoseStep ==
    ASSUME ConnectionInv, NEW m \in network, Lose(m)
    PROVE  ConnectionInv'
<1>1. network' \subseteq network
      /\ UNCHANGED <<counter, queue, timers, incoming, acksToSend, accepted>>
  BY DEF Lose
<1>2. m.from \in Peers /\ TypeOK
  BY DEF ConnectionInv, TypeOK, Packets
<1>3. PICK p \in Peers : TRUE
  BY <1>2
<1>4. TypeOK'
  BY <1>1, <1>2 DEF TypeOK, timers, incoming
<1>5. SendStep(p, {}, {})
  <2>1. Increasing(queue'[p]) /\ QueuedCounters(p)' = QueuedCounters(p) \cup {}
    BY <1>1, QueueFacts DEF QueuedCounters
  <2>2. \A i \in DOMAIN acksToSend'[p] : Got(p, acksToSend'[p][i])
    BY <1>1 DEF ConnectionInv, AcksAreHanded
  <2>3. counter[p] <= counter'[p]
    BY <1>1, QueueFacts
  <2> QED
    BY <1>1, <2>1, <2>2, <2>3 DEF SendStep
<1> QED
  BY <1>1, <1>4, <1>5, SendKeeps

\* A message that finds the queue empty goes out at once.
LEMMA SendAtOnceStep ==
    ASSUME ConnectionInv, NEW p \in Peers, SendMessage(p), queue[p] = <<>>
    PROVE  ConnectionInv'
<1>a. PICK c : c = counter[p] + 1
  OBVIOUS
<1>b. PICK acks : acks = AcksThatFit(p, MessageSize)
  OBVIOUS
<1>c. PICK rest : rest = LaterAcks(p, acks)
  OBVIOUS
<1>d. PICK m : m = [from |-> p, counter |-> c, main |-> "message",
                    acks |-> acks, messages |-> <<c>>]
  OBVIOUS
<1>e. PICK q2 : q2 = <<[counter |-> c, due |-> FALSE]>>
  OBVIOUS
<1>1. /\ counter[p] < MaxCounter
      /\ accepted' = [accepted EXCEPT ![p] = @ \cup {c}]
      /\ counter' = [counter EXCEPT ![p] = c]
      /\ queue' = [queue EXCEPT ![p] = q2]
      /\ acksToSend' = [acksToSend EXCEPT ![p] = rest]
      /\ network' = network \cup {m}
      /\ UNCHANGED <<resendTimerActive, sendAcksTimerActive, incoming>>
  BY <1>a, <1>b, <1>c, <1>d, <1>e DEF SendMessage, LaterAcks
<1>2. /\ counter[p] \in Nat /\ MaxCounter \in Nat /\ TypeOK /\ AcksAreHanded
      /\ MessageSize \in Nat /\ MessageSize <= PacketLimit
  BY QueueFacts, LimitsAssumption DEF ConnectionInv
<1>3. acks \in Seq(Counters) /\ rest \in Seq(Counters) /\ AllGot(p, acks) /\ AllGot(p, rest)
  BY <1>2, <1>b, <1>c, AcksSplit
<1>4. c \in Nat /\ c \in Counters /\ c \in 0..MaxCounter /\ counter[p] < c
  BY <1>1, <1>2, <1>a DEF Counters
<1>5. /\ counter'[p] = c /\ queue'[p] = q2 /\ acksToSend'[p] = rest
      /\ accepted'[p] = accepted[p] \cup {c}
      /\ \A r \in Peers \ {p} : /\ counter'[r] = counter[r]
                                /\ queue'[r] = queue[r]
                                /\ acksToSend'[r] = acksToSend[r]
                                /\ accepted'[r] = accepted[r]
  BY <1>1, <1>2 DEF TypeOK
<1>6. q2 \in QueueType /\ DOMAIN q2 = {1} /\ q2[1].counter = c
  BY <1>4, <1>e DEF QueueType
<1>7. <<c>> \in Seq(Counters) /\ DOMAIN <<c>> = {1} /\ <<c>>[1] = c /\ <<c>> # <<>>
  BY <1>4
<1>8. m.from = p /\ m.counter = c /\ m.main = "message" /\ m.acks = acks
      /\ m.messages = <<c>> /\ m \in Packets
  BY <1>3, <1>4, <1>7, <1>d DEF Packets
<1>9. TypeOK'
  <2>1. queue' \in [Peers -> QueueType]
    <3>1. queue \in [Peers -> QueueType]
      BY <1>2 DEF TypeOK, QueueType
    <3> QED
      BY <1>1, <1>6, <3>1
  <2>2. counter' \in [Peers -> 0..MaxCounter] /\ accepted' \in [Peers -> SUBSET Counters]
    BY <1>1, <1>2, <1>4 DEF TypeOK
  <2>3. acksToSend' \in [Peers -> Seq(Counters)]
    BY <1>1, <1>2, <1>3 DEF TypeOK
  <2>4. network' \subseteq Packets
    BY <1>1, <1>2, <1>8 DEF TypeOK
  <2> QED
    BY <1>1, <1>2, <2>1, <2>2, <2>3, <2>4 DEF TypeOK, incoming, QueueType
<1>10. QueuedCounters(p) = {} /\ QueuedCounters(p)' = {c}
  <2>1. QueuedCounters(p) = {}
    BY DEF QueuedCounters
  <2>2. QueuedCounters(p)' = {c}
    BY <1>5, <1>6 DEF QueuedCounters
  <2> QED
    BY <2>1, <2>2
<1>11. PacketGood(m)'
  <2>1. PacketContents(m)'
    <3>1. \A i \in DOMAIN acks : Got(p, acks[i])'
      BY <1>1, <1>3 DEF AllGot, Got, incoming
    <3> QED
      BY <1>4, <1>5, <1>7, <1>8, <3>1 DEF PacketContents
  <2>2. PacketFirst(m)'
    BY <1>4, <1>5, <1>6, <1>7, <1>8 DEF PacketFirst
  <2>3. PacketWithoutGaps(m)'
    <3> SUFFICES ASSUME NEW x \in accepted[p] PROVE Got(Peer(p), x)'
      BY <1>4, <1>5, <1>7, <1>8 DEF PacketWithoutGaps
    <3> QED
      BY <1>1, <1>10 DEF ConnectionInv, AckedIsHanded, Got, incoming
  <2> QED
    BY <2>1, <2>2, <2>3 DEF PacketGood
<1>12. SendStep(p, {c}, {m})
  <2>1. Increasing(q2)
    BY <1>6 DEF Increasing
  <2>2. \A i \in DOMAIN acksToSend'[p] : Got(p, acksToSend'[p][i])
    BY <1>3, <1>5 DEF AllGot
  <2> QED
    BY <1>1, <1>2, <1>4, <1>5, <1>10, <1>11, <2>1, <2>2 DEF SendStep
<1> QED
  BY <1>1, <1>9, <1>12, SendKeeps

\* Otherwise it joins the queue and a service packet carries what fits.
LEMMA SendQueuedStep ==
    ASSUME ConnectionInv, NEW p \in Peers, SendMessage(p), queue[p] # <<>>
    PROVE  ConnectionInv'
<1>a. PICK c : c = counter[p] + 1
  OBVIOUS
<1>b. PICK n : n = Len(queue[p])
  OBVIOUS
<1>c. PICK q : q = [i \in 1..n + 1 |->
                      [counter |-> IF i <= n THEN queue[p][i].counter ELSE c, due |-> TRUE]]
  OBVIOUS
<1>1. /\ counter[p] < MaxCounter
      /\ accepted' = [accepted EXCEPT ![p] = @ \cup {c}]
      /\ SendService(p, q, c)
      /\ ArmResend(p, q, c, resendTimerActive[p])
      /\ UNCHANGED <<sendAcksTimerActive, incoming>>
  BY <1>a, <1>b, <1>c DEF SendMessage
<1>2. /\ counter[p] \in Nat /\ MaxCounter \in Nat /\ TypeOK
      /\ n \in Nat /\ DOMAIN queue[p] = 1..n
      /\ \A i \in 1..n : /\ queue[p][i].counter \in Counters
                         /\ queue[p][i].counter <= counter[p]
  BY <1>b, QueueFacts, LimitsAssumption DEF ConnectionInv
<1>3. c \in Nat /\ c \in Counters /\ c \in 0..MaxCounter /\ counter[p] < c
  BY <1>1, <1>2, <1>a DEF Counters
<1>4. /\ DOMAIN q = 1..n + 1 /\ q[n + 1].counter = c
      /\ \A i \in 1..n : i \in 1..n + 1 /\ q[i].counter = queue[p][i].counter
      /\ \A i \in 1..n + 1 : i \in 1..n \/ i = n + 1
  BY <1>2, <1>c
<1>5. q \in QueueType
  <2> DEFINE E == [counter : Counters, due : BOOLEAN]
  <2>1. \A i \in 1..n + 1 : (IF i <= n THEN queue[p][i].counter ELSE c) \in Counters
    BY <1>2, <1>3
  <2>2. q \in [1..n + 1 -> E]
    BY <1>c, <2>1
  <2>3. n + 1 \in Nat
    BY <1>2
  <2> HIDE DEF E
  <2>4. q \in Seq(E)
    BY <2>2, <2>3, FunctionIsSeq
  <2> QED
    BY <2>4 DEF QueueType, E
<1>6. Increasing(q)
  <2> SUFFICES ASSUME NEW i \in 1..n + 1, NEW j \in 1..n + 1, i < j
               PROVE  q[i].counter < q[j].counter
    BY <1>4 DEF Increasing
  <2>1. i \in 1..n
    BY <1>2
  <2>2. CASE j \in 1..n
    <3>1. Increasing(queue[p])
      BY QueueFacts
    <3>2. queue[p][i].counter < queue[p][j].counter
      BY <1>2, <2>1, <2>2, <3>1 DEF Increasing
    <3> QED
      BY <1>4, <2>1, <2>2, <3>2
  <2>3. CASE j = n + 1
    <3>1. q[i].counter = queue[p][i].counter /\ q[j].counter = c
      BY <1>4, <2>1, <2>3
    <3>2. queue[p][i].counter \in Nat /\ queue[p][i].counter <= counter[p]
      BY <1>2, <2>1 DEF Counters
    <3> QED
      BY <1>2, <1>3, <3>1, <3>2
  <2> QED
    BY <1>4, <2>2, <2>3
<1>7. CountersOf(q) = QueuedCounters(p) \cup {c}
  <2>1. ASSUME NEW x \in CountersOf(q) PROVE x \in QueuedCounters(p) \cup {c}
    <3>1. PICK i \in 1..n + 1 : x = q[i].counter
      BY <1>4 DEF CountersOf
    <3> QED
      BY <1>2, <1>4, <3>1 DEF QueuedCounters
  <2>2. n + 1 \in 1..n + 1
    BY <1>2
  <2>3. ASSUME NEW x \in QueuedCounters(p) \cup {c} PROVE x \in CountersOf(q)
    <3>1. CASE x = c
      BY <1>4, <2>2, <3>1 DEF CountersOf
    <3>2. CASE x \in QueuedCounters(p)
      <4>1. PICK i \in 1..n : x = queue[p][i].counter
        BY <1>2, <3>2 DEF QueuedCounters
      <4> QED
        BY <1>4, <4>1 DEF CountersOf
    <3> QED
      BY <3>1, <3>2, <2>3
  <2> QED
    BY <2>1, <2>3
<1>8. Fresh(p, {c}, c)
  BY <1>2, <1>3 DEF Fresh
<1>9. resendTimerActive' \in [Peers -> BOOLEAN] /\ sendAcksTimerActive' \in [Peers -> BOOLEAN]
  BY <1>1, <1>2 DEF TypeOK, ArmResend
<1> QED
  BY <1>1, <1>3, <1>5, <1>6, <1>7, <1>8, <1>9, ServiceKeeps

-----------------------------------------------------------------------------
(* What arrives.                                                           *)

\* The messages of a packet that p hands to the application.
HandedUp(p, m) == (ToSet(m.messages) \ acksSent[p]) \cup {c \in {m.counter} : m.main = "data"}

\* handed grows by what a packet hands over.
LEMMA HandOver ==
    ASSUME ConnectionInv, NEW p \in Peers, NEW m \in network, Receive(p, m)
    PROVE  /\ handed' \in [Peers -> [Counters -> 0..2]]
           /\ \A r \in Peers, c \in Counters : Got(r, c) => Got(r, c)'
           /\ \A r \in Peers \ {p} : handed'[r] = handed[r]
           /\ \A c \in Counters \ HandedUp(p, m) : handed'[p][c] = handed[p][c]
           /\ \A c \in Counters \cap HandedUp(p, m) : Got(p, c)'
           /\ \A c \in Counters : handed[p][c] = 0 => handed'[p][c] <= 1
           /\ \A c \in Counters \cap HandedUp(p, m) : Got(p, c) => handed'[p][c] >= 2
<1>0. PICK up : up = HandedUp(p, m)
  OBVIOUS
<1>1. handed' = [handed EXCEPT ![p] =
                    [c \in Counters |-> IF c \in up /\ @[c] < 2 THEN @[c] + 1 ELSE @[c]]]
  BY <1>0 DEF Receive, HandedUp
<1>2. handed \in [Peers -> [Counters -> 0..2]]
  BY DEF ConnectionInv, TypeOK
<1>3. \A r \in Peers, c \in Counters : handed[r][c] \in 0..2
  BY <1>2
<1>4. /\ \A r \in Peers \ {p} : handed'[r] = handed[r]
      /\ handed'[p] = [c \in Counters |->
            IF c \in up /\ handed[p][c] < 2 THEN handed[p][c] + 1 ELSE handed[p][c]]
      /\ DOMAIN handed' = Peers
  BY <1>1, <1>2
<1>5. \A c \in Counters :
        handed'[p][c] = IF c \in up /\ handed[p][c] < 2 THEN handed[p][c] + 1
                                                        ELSE handed[p][c]
  BY <1>4
<1>6. \A c \in Counters : handed'[p][c] \in 0..2
  BY <1>3, <1>5
<1>7. handed' \in [Peers -> [Counters -> 0..2]]
  <2>1. handed'[p] \in [Counters -> 0..2]
    BY <1>4, <1>6
  <2> QED
    BY <1>1, <1>2, <1>4, <2>1
<1>8. \A r \in Peers, c \in Counters : Got(r, c) => Got(r, c)'
  <2> SUFFICES ASSUME NEW r \in Peers, NEW c \in Counters, handed[r][c] >= 1
               PROVE  handed'[r][c] >= 1
    BY DEF Got
  <2>1. CASE r = p
    BY <1>3, <1>5, <2>1
  <2>2. CASE r # p
    BY <1>4, <2>2
  <2> QED
    BY <2>1, <2>2
<1>9. \A c \in Counters \cap up : Got(p, c)'
  <2> SUFFICES ASSUME NEW c \in Counters, c \in up PROVE handed'[p][c] >= 1
    BY DEF Got
  <2> QED
    BY <1>3, <1>5
<1>10. \A c \in Counters : handed[p][c] = 0 => handed'[p][c] <= 1
  BY <1>3, <1>5
<1>11. \A c \in Counters \cap up : Got(p, c) => handed'[p][c] >= 2
  BY <1>3, <1>5 DEF Got
<1> QED
  BY <1>0, <1>4, <1>5, <1>7, <1>8, <1>9, <1>10, <1>11

\* What the acknowledgements of a packet leave of the queue.
LEMMA AckedQueue ==
    ASSUME ConnectionInv, NEW p \in Peers, NEW acks \in Seq(Counters),
           NEW q2, q2 = AckMyMessages(queue[p], acks)
    PROVE  /\ q2 \in QueueType /\ Increasing(q2)
           /\ CountersOf(q2) = QueuedCounters(p) \ ToSet(acks)
<1> DEFINE q == queue[p]
           E == [counter : Counters, due : BOOLEAN]
           S == {e \in ToSet(q) : e.counter \notin ToSet(acks)}
<1>1. q2 = KeepIn(q, S)
  BY DEF AckMyMessages
<1>2. q \in Seq(E) /\ Len(q) \in Nat /\ DOMAIN q = 1..Len(q) /\ Increasing(q)
  BY QueueFacts DEF QueueType
<1>3. \A i \in 1..Len(q) : q[i] \in S <=> q[i].counter \notin ToSet(acks)
  BY <1>2 DEF ToSet
<1> HIDE DEF E, S
<1>4. q2 \in Seq(E) /\ DOMAIN q2 = 1..Len(q2)
  BY <1>1, <1>2, KeepInPlaces
<1>5. PICK e : Places(e, q2, q, S, Len(q))
  BY <1>1, <1>2, KeepInPlaces
<1> HIDE DEF q
<1>6. /\ e \in [1..Len(q2) -> 1..Len(q)]
      /\ \A a, b \in 1..Len(q2) : a < b => e[a] < e[b]
      /\ \A a \in 1..Len(q2) : q2[a] = q[e[a]] /\ q[e[a]] \in S
      /\ \A j \in 1..Len(q) : q[j] \in S => \E a \in 1..Len(q2) : e[a] = j
  BY <1>5 DEF Places
<1>7. Increasing(q2)
  <2> SUFFICES ASSUME NEW a \in 1..Len(q2), NEW b \in 1..Len(q2), a < b
               PROVE  q2[a].counter < q2[b].counter
    BY <1>4 DEF Increasing
  <2>1. e[a] < e[b] /\ e[a] \in 1..Len(q) /\ e[b] \in 1..Len(q)
    BY <1>6
  <2>2. q[e[a]].counter < q[e[b]].counter
    BY <1>2, <2>1 DEF Increasing
  <2> QED
    BY <1>6, <2>2
<1>8. ASSUME NEW x \in CountersOf(q2) PROVE x \in CountersOf(q) \ ToSet(acks)
  <2>1. PICK a \in 1..Len(q2) : x = q2[a].counter
    BY <1>4 DEF CountersOf
  <2>2. e[a] \in 1..Len(q) /\ x = q[e[a]].counter /\ q[e[a]] \in S
    BY <1>6, <2>1
  <2> QED
    BY <1>2, <1>3, <2>2 DEF CountersOf
<1>9. ASSUME NEW x \in CountersOf(q) \ ToSet(acks) PROVE x \in CountersOf(q2)
  <2>1. PICK j \in 1..Len(q) : x = q[j].counter
    BY <1>2 DEF CountersOf
  <2>2. q[j] \in S
    BY <1>3, <2>1
  <2>3. PICK a \in 1..Len(q2) : e[a] = j
    BY <1>6, <2>2
  <2>4. x = q2[a].counter
    BY <1>6, <2>1, <2>3
  <2> QED
    BY <1>4, <2>4 DEF CountersOf
<1>10. CountersOf(q) = QueuedCounters(p)
  BY QueueFacts DEF q
<1>11. CountersOf(q2) = QueuedCounters(p) \ ToSet(acks)
  BY <1>8, <1>9, <1>10
<1> QED
  BY <1>4, <1>7, <1>11 DEF QueueType, E

\* What one end remembers of a packet's messages.
LEMMA RegisteredFacts ==
    ASSUME NEW list \in SUBSET Counters, NEW messages \in Seq(Counters)
    PROVE  /\ RegisteredAcks(list, messages) \in SUBSET Counters
           /\ RegisteredAcks(list, messages) \subseteq list \cup ToSet(messages)
           /\ ToSet(messages) \subseteq RegisteredAcks(list, messages)
           /\ messages = <<>> => RegisteredAcks(list, messages) = list
           /\ messages # <<>> => \A x \in list : x >= messages[1] =>
                    x \in RegisteredAcks(list, messages)
<1>1. ToSet(messages) \subseteq Counters
  BY DEF ToSet
<1>2. CASE messages = <<>>
  BY <1>2 DEF RegisteredAcks, ToSet
<1>3. CASE messages # <<>>
  BY <1>1, <1>3 DEF RegisteredAcks
<1> QED
  BY <1>2, <1>3

\* A packet that arrives and is not refused.
LEMMA ReceiveStep ==
    ASSUME ConnectionInv, NEW p \in Peers, NEW m \in network, Receive(p, m)
    PROVE  ConnectionInv'
<1>a. PICK s : s = m.from
  OBVIOUS
<1>b. PICK up : up = HandedUp(p, m)
  OBVIOUS
<1>c. PICK q2 : q2 = AckMyMessages(queue[p], m.acks)
  OBVIOUS
<1>d. PICK more : more = KeepIn(m.messages, Counters \ ToSet(acksToSend[p]))
  OBVIOUS
<1>e. PICK sent : sent = RegisteredAcks(acksSent[p], m.messages)
  OBVIOUS
<1>1. /\ s # p
      /\ RegisterAccepts(largestIncoming[p], m.counter)
      /\ largestIncoming' = [largestIncoming EXCEPT
                ![p] = RegisteredCounters(@, m.counter)]
      /\ queue' = [queue EXCEPT ![p] = q2]
      /\ acksSent' = [acksSent EXCEPT ![p] = sent]
      /\ acksToSend' = [acksToSend EXCEPT ![p] = acksToSend[p] \o more]
      /\ UNCHANGED <<counter, resendTimerActive, network, accepted>>
  BY <1>a, <1>c, <1>d, <1>e DEF Receive
<1>2. TypeOK /\ MaxCounter \in Nat
  BY LimitsAssumption DEF ConnectionInv
<1>f. \A r \in Peers, c \in Counters : ~Got(r, c) => handed[r][c] = 0
  <2>1. \A r \in Peers, c \in Counters : handed[r][c] \in 0..2
    BY <1>2 DEF TypeOK
  <2> QED
    BY <2>1 DEF Got
<1>3. /\ m.from \in Peers /\ m.counter \in Counters
      /\ m.messages \in Seq(Counters) /\ m.acks \in Seq(Counters)
  BY <1>2 DEF TypeOK, Packets
<1>4. s \in Peers /\ s = Peer(p) /\ p = Peer(s) /\ \A q \in Peers : q = p \/ q = s
  BY <1>1, <1>3, <1>a, PeerIsOther
<1>5. PacketGood(m)
  BY DEF ConnectionInv, PacketsGood
<1>6. \A c \in ToSet(m.messages) : c \in accepted[s] /\ c \in Counters
  BY <1>3, <1>5, <1>a DEF ToSet, PacketGood, PacketContents
<1>7. \A c \in up : \/ c \in ToSet(m.messages) /\ c \in accepted[s] /\ c \notin acksSent[p]
                    \/ c = m.counter /\ c \notin accepted[s]
  BY <1>5, <1>6, <1>a, <1>b DEF HandedUp, PacketGood, PacketContents
<1>8. /\ handed' \in [Peers -> [Counters -> 0..2]]
      /\ \A r \in Peers, c \in Counters : Got(r, c) => Got(r, c)'
      /\ handed'[s] = handed[s]
      /\ \A c \in Counters : c \notin up => handed'[p][c] = handed[p][c]
      /\ \A c \in Counters : c \in up => Got(p, c)'
      /\ \A c \in Counters : handed[p][c] = 0 => handed'[p][c] <= 1
  BY <1>1, <1>4, <1>b, HandOver
<1>9. /\ q2 \in QueueType /\ Increasing(q2)
      /\ CountersOf(q2) = QueuedCounters(p) \ ToSet(m.acks)
  BY <1>3, <1>c, AckedQueue
<1>10. /\ queue'[p] = q2 /\ queue'[s] = queue[s]
       /\ acksSent'[p] = sent /\ acksSent'[s] = acksSent[s]
       /\ acksToSend'[p] = acksToSend[p] \o more /\ acksToSend'[s] = acksToSend[s]
       /\ largestIncoming'[p] = RegisteredCounters(largestIncoming[p], m.counter)
       /\ largestIncoming'[s] = largestIncoming[s]
  BY <1>1, <1>2, <1>4 DEF TypeOK
<1>11. /\ sent \in SUBSET Counters
       /\ sent \subseteq acksSent[p] \cup ToSet(m.messages)
       /\ ToSet(m.messages) \subseteq sent
       /\ m.messages = <<>> => sent = acksSent[p]
       /\ m.messages # <<>> => \A x \in acksSent[p] : x >= m.messages[1] => x \in sent
  <2>1. acksSent[p] \in SUBSET Counters
    BY <1>2 DEF TypeOK
  <2> QED
    BY <1>3, <1>e, <2>1, RegisteredFacts
<1>12. /\ more \in Seq(Counters) /\ Len(more) \in Nat
       /\ \A i \in 1..Len(more) : more[i] \in ToSet(m.messages)
  <2>1. /\ more \in Seq(Counters)
        /\ \A i \in 1..Len(more) : \E j \in 1..Len(m.messages) : m.messages[j] = more[i]
    <3>1. PICK S : S = Counters \ ToSet(acksToSend[p])
      OBVIOUS
    <3>2. more = KeepIn(m.messages, S)
      BY <1>d, <3>1
    <3> QED
      BY <1>3, <3>2, KeepInElements
  <2> QED
    BY <1>3, <2>1 DEF ToSet
\* Every message of the packet has now been handed over.
<1>13. \A c \in ToSet(m.messages) : Got(p, c)'
  <2> SUFFICES ASSUME NEW c \in ToSet(m.messages) PROVE Got(p, c)'
    OBVIOUS
  <2>1. CASE c \in acksSent[p]
    <3>1. Got(p, c)
      BY <2>1 DEF ConnectionInv, AcksAreHanded
    <3> QED
      BY <1>6, <1>8, <3>1
  <2>2. CASE c \notin acksSent[p]
    BY <1>6, <1>8, <1>b, <2>2 DEF HandedUp
  <2> QED
    BY <2>1, <2>2
\* What is counted as handed over is what was, and what the packet brings.
<1>14. \A c \in Counters : Got(p, c)' => Got(p, c) \/ c \in up
  BY <1>8 DEF Got
<1>15. \A c \in Counters : Got(s, c)' => Got(s, c)
  BY <1>8 DEF Got
<1>16. TypeOK'
  <2>1. queue' \in [Peers -> QueueType]
    <3>1. queue \in [Peers -> QueueType]
      BY <1>2 DEF TypeOK, QueueType
    <3> QED
      BY <1>1, <1>9, <3>1
  <2>2. largestIncoming' \in [Peers -> SUBSET Counters]
    <3>1. largestIncoming[p] \in SUBSET Counters
      BY <1>2 DEF TypeOK
    <3>2. RegisteredCounters(largestIncoming[p], m.counter) \in SUBSET Counters
      BY <1>3, <3>1, RefusedStays
    <3> QED
      BY <1>1, <1>2, <3>2 DEF TypeOK
  <2>3. acksSent' \in [Peers -> SUBSET Counters]
    BY <1>1, <1>2, <1>11 DEF TypeOK
  <2>4. acksToSend' \in [Peers -> Seq(Counters)]
    <3>1. acksToSend[p] \in Seq(Counters)
      BY <1>2 DEF TypeOK
    <3>2. acksToSend[p] \o more \in Seq(Counters)
      BY <1>12, <3>1
    <3> QED
      BY <1>1, <1>2, <3>2 DEF TypeOK
  <2>5. sendAcksTimerActive' \in [Peers -> BOOLEAN]
    BY <1>2 DEF TypeOK, Receive
  <2> QED
    BY <1>1, <1>2, <1>8, <2>1, <2>2, <2>3, <2>4, <2>5 DEF TypeOK, QueueType
<1>17. WithinCounter'
  <2> SUFFICES ASSUME NEW q \in Peers
               PROVE  /\ \A c \in accepted[q] : c <= counter[q]
                      /\ \A c \in Counters : c > counter[q] => handed'[Peer(q)][c] = 0
    BY <1>1 DEF WithinCounter
  <2>1. /\ \A c \in accepted[q] : c <= counter[q]
        /\ \A c \in Counters : c > counter[q] => handed[Peer(q)][c] = 0
    BY DEF ConnectionInv, WithinCounter
  <2>2. CASE q = p
    BY <1>4, <1>8, <2>1, <2>2
  <2>3. CASE q = s
    <3> SUFFICES ASSUME NEW c \in Counters, c > counter[s] PROVE handed'[p][c] = 0
      BY <1>4, <2>1, <2>3
    <3>1. handed[p][c] = 0
      BY <1>4, <2>1, <2>3
    <3>2. c \in Nat /\ counter[s] \in Nat /\ m.counter <= counter[s]
      BY <1>4, <1>5, <1>a, QueueFacts DEF Counters, PacketGood, PacketContents
    <3>3. c \notin up
      BY <1>7, <2>1, <2>3, <3>2
    <3> QED
      BY <1>8, <3>1, <3>3
  <2> QED
    BY <1>4, <2>2, <2>3
<1>18. QueueInOrder'
  <2> SUFFICES ASSUME NEW q \in Peers
               PROVE  /\ \A i \in DOMAIN queue'[q] : queue'[q][i].counter \in accepted[q]
                      /\ Increasing(queue'[q])
    BY <1>1 DEF QueueInOrder, Increasing
  <2>1. CASE q = p
    <3>1. \A c \in QueuedCounters(p) : c \in accepted[p]
      BY DEF ConnectionInv, QueueInOrder, QueuedCounters
    <3>2. \A i \in DOMAIN q2 : q2[i].counter \in QueuedCounters(p)
      BY <1>9 DEF CountersOf
    <3> QED
      BY <1>9, <1>10, <2>1, <3>1, <3>2
  <2>2. CASE q = s
    BY <1>10, <2>2 DEF ConnectionInv, QueueInOrder, Increasing
  <2> QED
    BY <1>4, <2>1, <2>2
<1>19. PacketsGood'
  <2> SUFFICES ASSUME NEW n \in network PROVE PacketGood(n)'
    BY <1>1 DEF PacketsGood
  <2>1. PacketGood(n) /\ n.from \in Peers /\ n.acks \in Seq(Counters)
    BY <1>2 DEF ConnectionInv, PacketsGood, TypeOK, Packets
  <2>2. PacketContents(n)'
    <3>1. \A i \in DOMAIN n.acks : Got(n.from, n.acks[i])'
      <4> SUFFICES ASSUME NEW i \in DOMAIN n.acks PROVE Got(n.from, n.acks[i])'
        OBVIOUS
      <4>1. Got(n.from, n.acks[i]) /\ n.acks[i] \in Counters
        BY <2>1 DEF PacketGood, PacketContents
      <4> QED
        BY <1>8, <2>1, <4>1
    <3> QED
      BY <1>1, <2>1, <3>1 DEF PacketGood, PacketContents
  <2>3. PacketFirst(n)'
    <3> SUFFICES ASSUME n.messages # <<>>, NEW i \in DOMAIN queue'[n.from]
                 PROVE  n.messages[1] <= queue'[n.from][i].counter
      BY DEF PacketFirst
    <3>1. CASE n.from = s
      BY <1>10, <2>1, <3>1 DEF PacketGood, PacketFirst
    <3>2. CASE n.from = p
      <4>1. q2[i].counter \in QueuedCounters(p)
        BY <1>9, <1>10, <3>2 DEF CountersOf
      <4> QED
        BY <1>10, <2>1, <3>2, <4>1 DEF PacketGood, PacketFirst, QueuedCounters
    <3> QED
      BY <1>4, <2>1, <3>1, <3>2
  <2>4. PacketWithoutGaps(n)'
    <3> SUFFICES ASSUME NEW i \in DOMAIN n.messages, NEW c \in accepted[n.from],
                        c < n.messages[i]
                 PROVE  \/ \E j \in DOMAIN n.messages : n.messages[j] = c
                        \/ Got(Peer(n.from), c)'
      BY <1>1 DEF PacketWithoutGaps
    <3>1. c \in Counters /\ Peer(n.from) \in Peers
      BY <1>2, <2>1, PeerIsOther DEF TypeOK
    <3>2. (\E j \in DOMAIN n.messages : n.messages[j] = c) \/ Got(Peer(n.from), c)
      BY <2>1 DEF PacketGood, PacketWithoutGaps
    <3> QED
      BY <1>8, <3>1, <3>2
  <2> QED
    BY <2>2, <2>3, <2>4 DEF PacketGood
<1>20. HandedDataRefused'
  <2> SUFFICES ASSUME NEW q \in Peers, NEW c \in Counters, c \notin accepted[q],
                      Got(Peer(q), c)'
               PROVE  ~RegisterAccepts(largestIncoming'[Peer(q)], c)
    BY <1>1 DEF HandedDataRefused
  <2>1. CASE q = p
    <3>1. Got(s, c)
      BY <1>4, <1>15, <2>1
    <3> QED
      BY <1>4, <1>10, <2>1, <3>1 DEF ConnectionInv, HandedDataRefused
  <2>2. CASE q = s
    <3>1. largestIncoming[p] \in SUBSET Counters
      BY <1>2 DEF TypeOK
    <3>2. CASE Got(p, c)
      <4>1. ~RegisterAccepts(largestIncoming[p], c)
        BY <1>4, <2>2, <3>2 DEF ConnectionInv, HandedDataRefused
      <4>2. ~RegisterAccepts(RegisteredCounters(largestIncoming[p], m.counter), c)
        BY <1>3, <3>1, <4>1, RefusedStays
      <4> QED
        BY <1>4, <1>10, <2>2, <4>2
    <3>3. CASE c \in up
      <4>1. c = m.counter
        BY <1>7, <2>2, <3>3
      <4>2. ~RegisterAccepts(RegisteredCounters(largestIncoming[p], m.counter), c)
        BY <1>3, <3>1, <4>1, RefusedStays
      <4> QED
        BY <1>4, <1>10, <2>2, <4>2
    <3> QED
      BY <1>4, <1>14, <2>2, <3>2, <3>3
  <2> QED
    BY <1>4, <2>1, <2>2
<1>21. AcksAreHanded'
  <2>1. ASSUME NEW r \in Peers
        PROVE  /\ \A i \in DOMAIN acksToSend[r] : handed'[r][acksToSend[r][i]] >= 1
               /\ \A c \in acksSent[r] : handed'[r][c] >= 1
    <3>1. \A c \in acksSent[r] : c \in Counters /\ Got(r, c)
      BY <1>2 DEF ConnectionInv, AcksAreHanded, TypeOK
    <3>2. \A i \in DOMAIN acksToSend[r] : acksToSend[r][i] \in Counters /\ Got(r, acksToSend[r][i])
      BY <1>2 DEF ConnectionInv, AcksAreHanded, TypeOK
    <3> QED
      BY <1>8, <3>1, <3>2 DEF Got
  <2>2. \A c \in sent : handed'[p][c] >= 1
    BY <1>11, <1>13, <2>1 DEF Got
  <2>3. \A i \in DOMAIN acksToSend'[p] : handed'[p][acksToSend'[p][i]] >= 1
    <3>1. acksToSend[p] \in Seq(Counters)
      BY <1>2 DEF TypeOK
    <3>2. \A i \in 1..Len(more) : handed'[p][more[i]] >= 1
      BY <1>12, <1>13 DEF Got
    <3>3. \A i \in DOMAIN acksToSend'[p] :
            \/ i \in DOMAIN acksToSend[p] /\ acksToSend'[p][i] = acksToSend[p][i]
            \/ \E j \in 1..Len(more) : acksToSend'[p][i] = more[j]
      BY <1>10, <1>12, <3>1
    <3> QED
      BY <2>1, <3>2, <3>3
  <2>4. ASSUME NEW r \in Peers
        PROVE  /\ \A i \in DOMAIN acksToSend'[r] : handed'[r][acksToSend'[r][i]] >= 1
               /\ \A c \in acksSent'[r] : handed'[r][c] >= 1
    <3>1. CASE r = p
      BY <1>10, <2>2, <2>3, <3>1
    <3>2. CASE r = s
      BY <1>10, <2>1, <3>2
    <3> QED
      BY <1>4, <3>1, <3>2
  <2> QED
    BY <2>4 DEF AcksAreHanded, Got
<1>22. \A c \in QueuedCounters(s) : c \in accepted[s] /\ c \in Counters
  BY <1>2, <1>4 DEF ConnectionInv, QueueInOrder, QueuedCounters, TypeOK
<1>23. QueuedIsRemembered' /\ QueuedHandedOnce'
  <2> SUFFICES ASSUME NEW q \in Peers, NEW c \in QueuedCounters(q)'
               PROVE  /\ handed'[Peer(q)][c] >= 1 => c \in acksSent'[Peer(q)]
                      /\ handed'[Peer(q)][c] <= 1
    BY DEF QueuedIsRemembered, QueuedHandedOnce, QueuedCounters, Got
  <2>1. ASSUME NEW r \in Peers, NEW x \in QueuedCounters(r)
        PROVE  /\ Got(Peer(r), x) => x \in acksSent[Peer(r)]
               /\ handed[Peer(r)][x] <= 1
    BY DEF ConnectionInv, QueuedIsRemembered, QueuedHandedOnce, QueuedCounters
  <2>2. CASE q = p
    <3>1. c \in QueuedCounters(p)
      BY <1>9, <1>10, <2>2 DEF QueuedCounters, CountersOf
    <3> QED
      BY <1>4, <1>8, <1>10, <2>1, <2>2, <3>1 DEF Got
  <2>3. CASE q = s
    <3>1. c \in QueuedCounters(s)
      BY <1>10, <2>3 DEF QueuedCounters
    <3>2. c \in accepted[s] /\ c \in Counters
      BY <1>22, <3>1
    <3>3. CASE c \in up
      <4>1. c \in ToSet(m.messages) /\ c \notin acksSent[p]
        BY <1>7, <3>2, <3>3
      <4>2. ~Got(p, c)
        BY <1>4, <2>1, <3>1, <4>1
      <4>3. handed[p][c] = 0
        BY <1>f, <3>2, <4>2
      <4> QED
        BY <1>4, <1>8, <1>10, <1>11, <2>3, <3>2, <4>1, <4>3
    <3>4. CASE c \notin up
      <4>1. handed'[p][c] = handed[p][c]
        BY <1>8, <3>2, <3>4
      <4>2. ASSUME Got(p, c) PROVE c \in sent
        <5>1. c \in acksSent[p]
          BY <1>4, <2>1, <3>1, <4>2
        <5>2. CASE m.messages = <<>>
          BY <1>11, <5>1, <5>2
        <5>3. CASE m.messages # <<>>
          <6>1. m.messages[1] <= c
            BY <1>5, <1>a, <3>1, <5>3 DEF PacketGood, PacketFirst, QueuedCounters
          <6>2. m.messages[1] \in Nat /\ c \in Nat
            <7>1. 1 \in 1..Len(m.messages)
              BY <1>3, <5>3
            <7>2. m.messages[1] \in Counters
              BY <1>3, <7>1, ElementOfSeq
            <7> QED
              BY <3>2, <7>2 DEF Counters
          <6> QED
            BY <1>11, <5>1, <5>3, <6>1, <6>2
        <5> QED
          BY <5>2, <5>3
      <4> QED
        BY <1>4, <1>10, <2>1, <2>3, <3>1, <4>1, <4>2 DEF Got
    <3> QED
      BY <3>3, <3>4
  <2> QED
    BY <1>4, <2>2, <2>3
<1>24. DataHandedOnce'
  <2> SUFFICES ASSUME NEW q \in Peers, NEW c \in Counters, c \notin accepted[Peer(q)]
               PROVE  handed'[q][c] <= 1
    BY <1>1 DEF DataHandedOnce
  <2>1. handed[q][c] <= 1
    BY DEF ConnectionInv, DataHandedOnce
  <2>2. CASE q = s
    BY <1>8, <2>1, <2>2
  <2>3. CASE q = p
    <3>1. CASE c \in up
      <4>1. c = m.counter
        BY <1>4, <1>7, <2>3, <3>1
      <4>2. ~Got(p, c)
        BY <1>1, <1>4, <2>3, <4>1 DEF ConnectionInv, HandedDataRefused
      <4>3. handed[p][c] = 0
        BY <1>f, <4>2
      <4> QED
        BY <1>8, <2>3, <4>3
    <3>2. CASE c \notin up
      BY <1>8, <2>1, <2>3, <3>2
    <3> QED
      BY <3>1, <3>2
  <2> QED
    BY <1>4, <2>2, <2>3
<1>25. AckedIsHanded'
  <2> SUFFICES ASSUME NEW q \in Peers, NEW c \in accepted[q], c \notin QueuedCounters(q)'
               PROVE  handed'[Peer(q)][c] >= 1
    BY <1>1 DEF AckedIsHanded
  <2>1. c \in Counters
    BY <1>2 DEF TypeOK
  <2>2. CASE c \notin QueuedCounters(q)
    <3>1. Got(Peer(q), c)
      BY <2>2 DEF ConnectionInv, AckedIsHanded, Got
    <3> QED
      BY <1>4, <1>8, <2>1, <3>1 DEF Got
  <2>3. CASE c \in QueuedCounters(q)
    <3>1. q = p
      BY <1>4, <1>10, <2>3 DEF QueuedCounters
    <3>2. c \in ToSet(m.acks)
      BY <1>9, <1>10, <2>3, <3>1 DEF QueuedCounters, CountersOf
    <3>3. Got(s, c)
      BY <1>5, <1>a, <3>2 DEF ToSet, PacketGood, PacketContents
    <3> QED
      BY <1>4, <1>8, <3>1, <3>3 DEF Got
  <2> QED
    BY <2>2, <2>3
<1>26. HandedWithoutGaps'
  <2> SUFFICES ASSUME NEW q \in Peers, NEW c \in accepted[q], NEW d \in accepted[q],
                      c < d, handed'[Peer(q)][d] >= 1
               PROVE  handed'[Peer(q)][c] >= 1
    BY <1>1 DEF HandedWithoutGaps
  <2>1. c \in Counters /\ d \in Counters
    BY <1>2 DEF TypeOK
  <2>2. CASE Got(Peer(q), d)
    <3>1. Got(Peer(q), c)
      BY <2>2 DEF ConnectionInv, HandedWithoutGaps, Got
    <3> QED
      BY <1>4, <1>8, <2>1, <3>1 DEF Got
  <2>3. CASE ~Got(Peer(q), d)
    <3>1. q = s /\ d \in up
      BY <1>4, <1>14, <1>15, <2>1, <2>3 DEF Got
    <3>2. d \in ToSet(m.messages)
      BY <1>7, <3>1
    <3>3. PICK i \in DOMAIN m.messages : d = m.messages[i]
      BY <3>2 DEF ToSet
    <3>4. (\E j \in DOMAIN m.messages : m.messages[j] = c) \/ Got(Peer(m.from), c)
      BY <1>5, <1>a, <3>1, <3>3 DEF PacketGood, PacketWithoutGaps
    <3>5. CASE \E j \in DOMAIN m.messages : m.messages[j] = c
      BY <1>4, <1>13, <3>1, <3>5 DEF ToSet, Got
    <3>6. CASE Got(Peer(m.from), c)
      BY <1>4, <1>8, <1>a, <2>1, <3>1, <3>6 DEF Got
    <3> QED
      BY <3>4, <3>5, <3>6
  <2> QED
    BY <2>2, <2>3
<1> QED
  BY <1>16, <1>17, <1>18, <1>19, <1>20, <1>21, <1>23, <1>24, <1>25, <1>26 DEF ConnectionInv

-----------------------------------------------------------------------------
(* The invariant and the results.                                          *)

\* Nothing has been sent, queued or handed over at the start.
LEMMA InitInvariant == Init => ConnectionInv
<1> SUFFICES ASSUME Init PROVE ConnectionInv
  OBVIOUS
<1>1. \A p \in Peers : /\ counter[p] = 0 /\ queue[p] = <<>> /\ acksToSend[p] = <<>>
                       /\ largestIncoming[p] = {} /\ acksSent[p] = {} /\ accepted[p] = {}
                       /\ \A c \in Counters : handed[p][c] = 0
  BY DEF Init
<1>2. network = {}
  BY DEF Init
<1>3. TypeOK
  BY LimitsAssumption DEF Init, TypeOK
<1>4. WithinCounter /\ QueueInOrder /\ AcksAreHanded
  BY <1>1, PeerIsOther DEF WithinCounter, QueueInOrder, AcksAreHanded
<1>5. PacketsGood
  BY <1>2 DEF PacketsGood
<1>6. HandedDataRefused /\ DataHandedOnce
  BY <1>1, PeerIsOther DEF HandedDataRefused, DataHandedOnce, Got
<1>7. QueuedIsRemembered /\ QueuedHandedOnce
  BY <1>1 DEF QueuedIsRemembered, QueuedHandedOnce, QueuedCounters
<1>8. AckedIsHanded /\ HandedWithoutGaps
  BY <1>1 DEF AckedIsHanded, HandedWithoutGaps
<1> QED
  BY <1>3, <1>4, <1>5, <1>6, <1>7, <1>8 DEF ConnectionInv

\* Every step keeps the invariant.
LEMMA NextInvariant == ConnectionInv /\ [Next]_vars => ConnectionInv'
<1> SUFFICES ASSUME ConnectionInv, [Next]_vars PROVE ConnectionInv'
  OBVIOUS
<1>1. ASSUME NEW p \in Callers, SendMessage(p) \/ SendData(p) \/ SendTooLarge(p)
      PROVE  ConnectionInv'
  <2>1. p \in Peers
    BY CallersAssumption
  <2> QED
    BY <1>1, <2>1, SendAtOnceStep, SendQueuedStep, DataStep
<1>2. ASSUME NEW p \in Peers, ResendTimer(p) \/ SendAcksTimer(p) \/ Elapse(p)
      PROVE  ConnectionInv'
  BY <1>2, TimerStep, ElapseStep
<1>3. ASSUME NEW m \in network, Lose(m) \/ \E p \in Peers : Receive(p, m)
      PROVE  ConnectionInv'
  BY <1>3, LoseStep, ReceiveStep
<1>4. CASE UNCHANGED vars
  <2>1. /\ counter' = counter /\ queue' = queue /\ acksToSend' = acksToSend
        /\ network' = network /\ accepted' = accepted
        /\ resendTimerActive' = resendTimerActive /\ sendAcksTimerActive' = sendAcksTimerActive
        /\ largestIncoming' = largestIncoming /\ acksSent' = acksSent /\ handed' = handed
    BY <1>4 DEF vars, timers, incoming
  <2>2. TypeOK' /\ WithinCounter' /\ QueueInOrder'
    BY <2>1 DEF ConnectionInv, TypeOK, WithinCounter, QueueInOrder
  <2>3. PacketsGood'
    BY <2>1 DEF ConnectionInv, PacketsGood, PacketGood, PacketContents, PacketFirst,
                PacketWithoutGaps, Got
  <2>4. HandedDataRefused' /\ AcksAreHanded' /\ QueuedIsRemembered'
    BY <2>1 DEF ConnectionInv, HandedDataRefused, AcksAreHanded, QueuedIsRemembered, Got
  <2>5. DataHandedOnce' /\ QueuedHandedOnce' /\ AckedIsHanded' /\ HandedWithoutGaps'
    BY <2>1 DEF ConnectionInv, DataHandedOnce, QueuedHandedOnce, AckedIsHanded,
                HandedWithoutGaps, QueuedCounters
  <2> QED
    BY <2>2, <2>3, <2>4, <2>5 DEF ConnectionInv
<1> QED
  BY <1>1, <1>2, <1>3, <1>4 DEF Next

\* The invariant holds in every state of every behaviour.
LEMMA InvariantHolds == Spec => []ConnectionInv
BY InitInvariant, NextInvariant, PTL DEF Spec

\* registerIncomingCounter lets a message that needs no acknowledgement
\* through at most once, for every window.
THEOREM DataIsHandedOnce == Spec => []DataHandedOnce
<1>1. ConnectionInv => DataHandedOnce
  BY DEF ConnectionInv
<1> QED
  BY <1>1, InvariantHolds, PTL

\* registerSentAck never forgets a message that its sender may still repeat.
THEOREM QueuedIsHandedOnce == Spec => []QueuedHandedOnce
<1>1. ConnectionInv => QueuedHandedOnce
  BY DEF ConnectionInv
<1> QED
  BY <1>1, InvariantHolds, PTL

\* ackMyMessage takes from the queue only what the other end handed over.
THEOREM AckedWasHanded == Spec => []AckedIsHanded
<1>1. ConnectionInv => AckedIsHanded
  BY DEF ConnectionInv
<1> QED
  BY <1>1, InvariantHolds, PTL

\* Messages that require an acknowledgement are handed over without gaps.
THEOREM NoGaps == Spec => []HandedWithoutGaps
<1>1. ConnectionInv => HandedWithoutGaps
  BY DEF ConnectionInv
<1> QED
  BY <1>1, InvariantHolds, PTL
-----------------------------------------------------------------------------
(* The connection implements SignalingChannel.                             *)

\* A step that neither accepts nor hands over a message nor changes which ones
\* are queued changes nothing in the channel.
LEMMA ChannelStill ==
    ASSUME accepted' = accepted, handed' = handed,
           \A p \in Peers : QueuedCounters(p)' = QueuedCounters(p)
    PROVE  UNCHANGED Channel!vars
<1>1. \A p \in Peers : \A t \in {1, 2} : GotFrom(p, t)' = GotFrom(p, t)
  BY DEF GotFrom
<1>2. [p \in Peers |-> QueuedCounters(p)]' = [p \in Peers |-> QueuedCounters(p)]
  OBVIOUS
<1>3. [p \in Peers |-> GotFrom(p, 1)]' = [p \in Peers |-> GotFrom(p, 1)]
  BY <1>1
<1>4. [p \in Peers |-> GotFrom(p, 2)]' = [p \in Peers |-> GotFrom(p, 2)]
  BY <1>1
<1> QED
  BY <1>2, <1>3, <1>4 DEF Channel!vars

\* prepareForSendingService leaves the messages of the queue it starts from.
LEMMA ServiceQueued ==
    ASSUME ConnectionInv, NEW p \in Peers, NEW q \in QueueType, NEW c, SendService(p, q, c)
    PROVE  /\ QueuedCounters(p)' = CountersOf(q)
           /\ \A r \in Peers \ {p} : QueuedCounters(r)' = QueuedCounters(r)
<1>1. PICK again : again = Resend(q, EmptySize + Len(AcksThatFit(p, EmptySize)))
  OBVIOUS
<1>2. \/ queue' = [queue EXCEPT ![p] = NotDue(q, again)]
      \/ queue' = [queue EXCEPT ![p] = q]
  BY <1>1 DEF SendService, NotDue
<1>3. /\ queue'[p] = NotDue(q, again) \/ queue'[p] = q
      /\ \A r \in Peers \ {p} : queue'[r] = queue[r]
  BY <1>2 DEF ConnectionInv, TypeOK
<1>4. /\ DOMAIN NotDue(q, again) = DOMAIN q
      /\ \A i \in DOMAIN q : NotDue(q, again)[i].counter = q[i].counter
  BY ServiceQueue
<1> HIDE DEF NotDue
<1>5. DOMAIN queue'[p] = DOMAIN q /\ \A i \in DOMAIN q : queue'[p][i].counter = q[i].counter
  BY <1>3, <1>4
<1>6. QueuedCounters(p)' = CountersOf(q)
  BY <1>5 DEF QueuedCounters, CountersOf
<1>7. \A r \in Peers \ {p} : QueuedCounters(r)' = QueuedCounters(r)
  BY <1>3 DEF QueuedCounters
<1> QED
  BY <1>6, <1>7

\* The steps that send no new message that requires an acknowledgement.
LEMMA QuietStep ==
    ASSUME ConnectionInv,
           \/ \E p \in Peers : \/ SendData(p) \/ SendTooLarge(p)
                               \/ ResendTimer(p) \/ SendAcksTimer(p) \/ Elapse(p)
           \/ \E m \in network : Lose(m)
           \/ UNCHANGED vars
    PROVE  UNCHANGED Channel!vars
<1>1. ASSUME queue' = queue PROVE \A r \in Peers : QueuedCounters(r)' = QueuedCounters(r)
  BY <1>1 DEF QueuedCounters
<1>2. ASSUME NEW p \in Peers, SendData(p) \/ SendTooLarge(p) PROVE UNCHANGED Channel!vars
  <2>1. queue' = queue /\ accepted' = accepted /\ handed' = handed
    BY <1>2 DEF SendData, SendTooLarge, incoming
  <2> QED
    BY <1>1, <2>1, ChannelStill
<1>3. ASSUME NEW p \in Peers, ResendTimer(p) \/ SendAcksTimer(p) PROVE UNCHANGED Channel!vars
  <2>1. SendService(p, queue[p], counter[p]) /\ accepted' = accepted /\ handed' = handed
    BY <1>3 DEF ResendTimer, SendAcksTimer, incoming
  <2>2. queue[p] \in QueueType /\ CountersOf(queue[p]) = QueuedCounters(p)
    BY QueueFacts
  <2>3. \A r \in Peers : QueuedCounters(r)' = QueuedCounters(r)
    BY <2>1, <2>2, ServiceQueued
  <2> QED
    BY <2>1, <2>3, ChannelStill
<1>4. ASSUME NEW p \in Peers, Elapse(p) PROVE UNCHANGED Channel!vars
  <2>1. PICK q2 : q2 = [i \in DOMAIN queue[p] |-> [queue[p][i] EXCEPT !.due = TRUE]]
    OBVIOUS
  <2>2. queue' = [queue EXCEPT ![p] = q2] /\ accepted' = accepted /\ handed' = handed
    BY <1>4, <2>1 DEF Elapse, incoming
  <2>3. queue'[p] = q2 /\ \A r \in Peers \ {p} : queue'[r] = queue[r]
    BY <2>2 DEF ConnectionInv, TypeOK
  <2>4. /\ DOMAIN q2 = DOMAIN queue[p]
        /\ \A i \in DOMAIN queue[p] : q2[i].counter = queue[p][i].counter
    BY <2>1 DEF ConnectionInv, TypeOK
  <2>5. \A r \in Peers : QueuedCounters(r)' = QueuedCounters(r)
    BY <2>3, <2>4 DEF QueuedCounters
  <2> QED
    BY <2>2, <2>5, ChannelStill
<1>5. ASSUME NEW m \in network, Lose(m) PROVE UNCHANGED Channel!vars
  <2>1. queue' = queue /\ accepted' = accepted /\ handed' = handed
    BY <1>5 DEF Lose, incoming
  <2> QED
    BY <1>1, <2>1, ChannelStill
<1>6. CASE UNCHANGED vars
  <2>1. queue' = queue /\ accepted' = accepted /\ handed' = handed
    BY <1>6 DEF vars, incoming
  <2> QED
    BY <1>1, <2>1, ChannelStill
<1> QED
  BY <1>2, <1>3, <1>4, <1>5, <1>6

\* The queue of the sender after a message was accepted.
LEMMA MessageQueued ==
    ASSUME ConnectionInv, NEW p \in Peers, SendMessage(p)
    PROVE  /\ QueuedCounters(p)' = QueuedCounters(p) \cup {counter[p] + 1}
           /\ \A r \in Peers \ {p} : QueuedCounters(r)' = QueuedCounters(r)
<1>a. PICK c : c = counter[p] + 1
  OBVIOUS
<1>b. PICK n : n = Len(queue[p])
  OBVIOUS
<1>c. PICK q : q = [i \in 1..n + 1 |->
                      [counter |-> IF i <= n THEN queue[p][i].counter ELSE c, due |-> TRUE]]
  OBVIOUS
<1>1. CASE queue[p] = <<>>
  <2>1. queue' = [queue EXCEPT ![p] = <<[counter |-> c, due |-> FALSE]>>]
    BY <1>a, <1>1 DEF SendMessage
  <2>2. /\ queue'[p] = <<[counter |-> c, due |-> FALSE]>>
        /\ \A r \in Peers \ {p} : queue'[r] = queue[r]
    BY <2>1 DEF ConnectionInv, TypeOK
  <2>3. DOMAIN queue'[p] = {1} /\ queue'[p][1].counter = c
    BY <2>2
  <2>4. QueuedCounters(p)' = {c} /\ QueuedCounters(p) = {}
    BY <1>1, <2>3 DEF QueuedCounters
  <2> QED
    BY <1>a, <2>2, <2>4 DEF QueuedCounters
<1>2. CASE queue[p] # <<>>
  <2>1. SendService(p, q, c)
    BY <1>a, <1>b, <1>c, <1>2 DEF SendMessage
  <2>2. /\ counter[p] \in Nat /\ n \in Nat /\ DOMAIN queue[p] = 1..n /\ c \in Counters
        /\ \A i \in 1..n : queue[p][i].counter \in Counters
    <3>1. counter[p] < MaxCounter
      BY DEF SendMessage
    <3> QED
      BY <1>a, <1>b, <3>1, QueueFacts, LimitsAssumption DEF Counters
  <2>3. q \in QueueType
    <3> DEFINE E == [counter : Counters, due : BOOLEAN]
    <3>1. \A i \in 1..n + 1 : (IF i <= n THEN queue[p][i].counter ELSE c) \in Counters
      BY <2>2
    <3>2. q \in [1..n + 1 -> E] /\ n + 1 \in Nat
      BY <1>c, <2>2, <3>1
    <3> HIDE DEF E
    <3>3. q \in Seq(E)
      BY <3>2, FunctionIsSeq
    <3> QED
      BY <3>3 DEF QueueType, E
  <2>4. /\ DOMAIN q = 1..n + 1 /\ n + 1 \in 1..n + 1 /\ q[n + 1].counter = c
        /\ \A i \in 1..n : i \in 1..n + 1 /\ q[i].counter = queue[p][i].counter
        /\ \A i \in 1..n + 1 : i \in 1..n \/ i = n + 1
    BY <1>c, <2>2
  <2>5. CountersOf(q) = QueuedCounters(p) \cup {c}
    <3>1. ASSUME NEW x \in CountersOf(q) PROVE x \in QueuedCounters(p) \cup {c}
      <4>1. PICK i \in 1..n + 1 : x = q[i].counter
        BY <2>4 DEF CountersOf
      <4> QED
        BY <2>2, <2>4, <4>1 DEF QueuedCounters
    <3>2. ASSUME NEW x \in QueuedCounters(p) PROVE x \in CountersOf(q)
      <4>1. PICK i \in 1..n : x = queue[p][i].counter
        BY <2>2 DEF QueuedCounters
      <4> QED
        BY <2>4, <4>1 DEF CountersOf
    <3>3. c \in CountersOf(q)
      BY <2>4 DEF CountersOf
    <3> QED
      BY <3>1, <3>2, <3>3
  <2> QED
    BY <1>a, <2>1, <2>3, <2>5, ServiceQueued
<1> QED
  BY <1>1, <1>2

\* A message that is accepted is a new one of the channel.
LEMMA AcceptStep ==
    ASSUME ConnectionInv, NEW p \in Peers, SendMessage(p)
    PROVE  Channel!Next
<1>a. PICK c : c = counter[p] + 1
  OBVIOUS
<1>1. counter[p] < MaxCounter /\ accepted' = [accepted EXCEPT ![p] = @ \cup {c}]
      /\ handed' = handed
  BY <1>a DEF SendMessage, incoming
<1>2. counter[p] \in Nat /\ MaxCounter \in Nat /\ c \in Nat /\ c \in Counters /\ counter[p] < c
  BY <1>1, <1>a, QueueFacts, LimitsAssumption DEF Counters
<1>3. accepted'[p] = accepted[p] \cup {c} /\ \A r \in Peers \ {p} : accepted'[r] = accepted[r]
  BY <1>1 DEF ConnectionInv, TypeOK
<1>4. \A x \in accepted[p] : x < c
  <2>1. \A x \in accepted[p] : x \in Nat /\ x <= counter[p]
    BY DEF ConnectionInv, WithinCounter, TypeOK, Counters
  <2> QED
    BY <1>2, <2>1
<1>5. [r \in Peers |-> QueuedCounters(r)]' =
      [[r \in Peers |-> QueuedCounters(r)] EXCEPT ![p] = @ \cup {c}]
  <2>1. QueuedCounters(p)' = QueuedCounters(p) \cup {c}
    BY <1>a, MessageQueued
  <2>2. \A r \in Peers \ {p} : QueuedCounters(r)' = QueuedCounters(r)
    BY MessageQueued
  <2> QED
    BY <2>1, <2>2
<1>6. ASSUME NEW r \in Peers, NEW t \in {1, 2} PROVE GotFrom(r, t)' = GotFrom(r, t)
  <2>1. handed[Peer(p)][c] = 0
    BY <1>2 DEF ConnectionInv, WithinCounter
  <2>2. Peer(r) \in Peers /\ Peer(Peer(r)) = r
    BY PeerIsOther
  <2>3. CASE Peer(r) = p
    <3>1. handed[r][c] = 0 /\ accepted'[Peer(r)] = accepted[Peer(r)] \cup {c}
      BY <1>3, <2>1, <2>2, <2>3
    <3> QED
      BY <1>1, <3>1 DEF GotFrom
  <2>4. CASE Peer(r) # p
    <3>1. accepted'[Peer(r)] = accepted[Peer(r)]
      BY <1>3, <2>2, <2>4
    <3> QED
      BY <1>1, <3>1 DEF GotFrom
  <2> QED
    BY <2>3, <2>4
<1>7. [r \in Peers |-> GotFrom(r, 1)]' = [r \in Peers |-> GotFrom(r, 1)]
  BY <1>6
<1>8. [r \in Peers |-> GotFrom(r, 2)]' = [r \in Peers |-> GotFrom(r, 2)]
  BY <1>6
<1>9. Channel!Accept(p, c)
  BY <1>1, <1>4, <1>5, <1>7, <1>8 DEF Channel!Accept
<1> QED
  BY <1>2, <1>9 DEF Channel!Next

\* What an end has got, and got again, after a packet that brings bring.
LEMMA DeliveredGot ==
    ASSUME ConnectionInv, NEW p \in Peers, NEW m \in network, Receive(p, m),
           NEW bring, bring = ToSet(m.messages) \ acksSent[p]
    PROVE  /\ GotFrom(p, 1)' = GotFrom(p, 1) \cup bring
           /\ GotFrom(p, 2)' = GotFrom(p, 2) \cup (bring \cap GotFrom(p, 1))
           /\ \A r \in Peers \ {p}, t \in {1, 2} : GotFrom(r, t)' = GotFrom(r, t)
<1>a. PICK up : up = HandedUp(p, m)
  OBVIOUS
<1>b. PICK s : s = Peer(p)
  OBVIOUS
<1>1. accepted' = accepted /\ m.from # p
  BY DEF Receive
<1>2. m.from = s /\ s \in Peers /\ s # p /\ m.messages \in Seq(Counters)
  <2>1. m.from \in Peers /\ m.messages \in Seq(Counters)
    BY DEF ConnectionInv, TypeOK, Packets
  <2> QED
    BY <1>1, <1>b, <2>1, PeerIsOther
<1>3. PacketContents(m)
  BY DEF ConnectionInv, PacketsGood, PacketGood
<1>4. bring \subseteq accepted[s] /\ accepted[s] \subseteq Counters
  <2>1. accepted[s] \subseteq Counters
    BY <1>2 DEF ConnectionInv, TypeOK
  <2> QED
    BY <1>2, <1>3, <2>1 DEF ToSet, PacketContents
<1>5. \A c \in accepted[s] : c \in up <=> c \in bring
  BY <1>2, <1>3, <1>a DEF HandedUp, PacketContents
<1>6. /\ \A r \in Peers \ {p} : handed'[r] = handed[r]
      /\ \A c \in Counters : c \notin up => handed'[p][c] = handed[p][c]
      /\ \A c \in Counters : c \in up => handed'[p][c] >= 1
      /\ \A c \in Counters : handed[p][c] = 0 => handed'[p][c] <= 1
      /\ \A c \in Counters : c \in up /\ handed[p][c] >= 1 => handed'[p][c] >= 2
  BY <1>a, HandOver DEF Got
<1>7. \A c \in Counters : handed[p][c] \in 0..2 /\ handed'[p][c] \in 0..2
  <2>1. handed' \in [Peers -> [Counters -> 0..2]]
    BY HandOver
  <2> QED
    BY <2>1 DEF ConnectionInv, TypeOK
<1>8. ASSUME NEW c \in accepted[s]
      PROVE  /\ handed'[p][c] >= 1 <=> handed[p][c] >= 1 \/ c \in bring
             /\ handed'[p][c] >= 2 <=> handed[p][c] >= 2 \/ (c \in bring /\ handed[p][c] >= 1)
  <2>1. c \in Counters
    BY <1>4
  <2>2. CASE c \notin bring
    BY <1>5, <1>6, <1>7, <2>1, <2>2
  <2>3. CASE c \in bring /\ handed[p][c] = 0
    BY <1>5, <1>6, <1>7, <2>1, <2>3
  <2>4. CASE c \in bring /\ handed[p][c] >= 1
    BY <1>5, <1>6, <1>7, <2>1, <2>4
  <2> QED
    BY <1>7, <2>1, <2>2, <2>3, <2>4
<1>9. GotFrom(p, 1)' = GotFrom(p, 1) \cup bring
  BY <1>1, <1>4, <1>8, <1>b DEF GotFrom
<1>10. GotFrom(p, 2)' = GotFrom(p, 2) \cup (bring \cap GotFrom(p, 1))
  BY <1>1, <1>4, <1>8, <1>b DEF GotFrom
<1>11. \A r \in Peers \ {p}, t \in {1, 2} : GotFrom(r, t)' = GotFrom(r, t)
  BY <1>1, <1>6 DEF GotFrom
<1> QED
  BY <1>9, <1>10, <1>11

\* A packet that is taken is one of the channel's.
LEMMA DeliverStep ==
    ASSUME ConnectionInv, NEW p \in Peers, NEW m \in network, Receive(p, m)
    PROVE  Channel!Next
<1>a. PICK bring : bring = ToSet(m.messages) \ acksSent[p]
  OBVIOUS
<1>b. PICK free : free = ToSet(m.acks) \cap QueuedCounters(p)
  OBVIOUS
<1>c. PICK s : s = Peer(p)
  OBVIOUS
<1>d. PICK q2 : q2 = AckMyMessages(queue[p], m.acks)
  OBVIOUS
<1>1. accepted' = accepted /\ m.from # p /\ queue' = [queue EXCEPT ![p] = q2]
  BY <1>d DEF Receive
<1>2. /\ m.from = s /\ s \in Peers /\ s # p /\ Peer(s) = p
      /\ m.messages \in Seq(Counters) /\ m.acks \in Seq(Counters)
  <2>1. m.from \in Peers /\ m.messages \in Seq(Counters) /\ m.acks \in Seq(Counters)
    BY DEF ConnectionInv, TypeOK, Packets
  <2> QED
    BY <1>1, <1>c, <2>1, PeerIsOther
<1>3. PacketContents(m) /\ PacketWithoutGaps(m)
  BY DEF ConnectionInv, PacketsGood, PacketGood
<1>4. Channel!Other(p) = s
  BY <1>c DEF Channel!Other, Peer
<1>5. bring \subseteq accepted[s]
  BY <1>2, <1>3, <1>a DEF ToSet, PacketContents
<1>6. \A n \in bring : \A x \in accepted[s] : x < n => x \in bring \cup GotFrom(p, 1)
  <2> SUFFICES ASSUME NEW n \in bring, NEW x \in accepted[s], x < n, x \notin bring
               PROVE  handed[p][x] >= 1
    BY <1>c DEF GotFrom
  <2>1. PICK i \in DOMAIN m.messages : n = m.messages[i]
    BY <1>a DEF ToSet
  <2>2. (\E j \in DOMAIN m.messages : m.messages[j] = x) \/ Got(Peer(m.from), x)
    BY <1>2, <1>3, <2>1 DEF PacketWithoutGaps
  <2>3. CASE \E j \in DOMAIN m.messages : m.messages[j] = x
    <3>1. x \in acksSent[p]
      BY <1>a, <2>3 DEF ToSet
    <3> QED
      BY <3>1 DEF ConnectionInv, AcksAreHanded, Got
  <2>4. CASE Got(Peer(m.from), x)
    BY <1>2, <2>4 DEF Got
  <2> QED
    BY <2>2, <2>3, <2>4
<1>7. bring \cap GotFrom(p, 1) \cap QueuedCounters(s) = {}
  <2> SUFFICES ASSUME NEW x \in bring, handed[p][x] >= 1, x \in QueuedCounters(s) PROVE FALSE
    BY DEF GotFrom
  <2>1. x \in acksSent[p]
    BY <1>2 DEF ConnectionInv, QueuedIsRemembered, QueuedCounters, Got
  <2> QED
    BY <1>a, <2>1
<1>8. free \subseteq GotFrom(s, 1)
  <2> SUFFICES ASSUME NEW x \in free PROVE x \in accepted[p] /\ handed[s][x] >= 1
    BY <1>2 DEF GotFrom
  <2>1. x \in accepted[p]
    BY <1>b DEF ConnectionInv, QueueInOrder, QueuedCounters
  <2>2. Got(s, x)
    BY <1>2, <1>3, <1>b DEF ToSet, PacketContents
  <2> QED
    BY <2>1, <2>2 DEF Got
<1>9. [r \in Peers |-> QueuedCounters(r)]' =
      [[r \in Peers |-> QueuedCounters(r)] EXCEPT ![p] = @ \ free]
  <2>1. queue'[p] = q2 /\ \A r \in Peers \ {p} : queue'[r] = queue[r]
    BY <1>1 DEF ConnectionInv, TypeOK
  <2>2. CountersOf(q2) = QueuedCounters(p) \ ToSet(m.acks)
    BY <1>2, <1>d, AckedQueue
  <2>3. QueuedCounters(p)' = QueuedCounters(p) \ free
    BY <1>b, <2>1, <2>2 DEF QueuedCounters, CountersOf
  <2>4. \A r \in Peers \ {p} : QueuedCounters(r)' = QueuedCounters(r)
    BY <2>1 DEF QueuedCounters
  <2> QED
    BY <2>3, <2>4
<1>e. /\ GotFrom(p, 1)' = GotFrom(p, 1) \cup bring
      /\ GotFrom(p, 2)' = GotFrom(p, 2) \cup (bring \cap GotFrom(p, 1))
      /\ \A r \in Peers \ {p} : GotFrom(r, 1)' = GotFrom(r, 1)
      /\ \A r \in Peers \ {p} : GotFrom(r, 2)' = GotFrom(r, 2)
  <2>1. \A r \in Peers \ {p}, t \in {1, 2} : GotFrom(r, t)' = GotFrom(r, t)
    BY <1>a, DeliveredGot
  <2>2. /\ GotFrom(p, 1)' = GotFrom(p, 1) \cup bring
        /\ GotFrom(p, 2)' = GotFrom(p, 2) \cup (bring \cap GotFrom(p, 1))
    BY <1>a, DeliveredGot
  <2> QED
    BY <2>1, <2>2
<1>10. [r \in Peers |-> GotFrom(r, 1)]' =
       [[r \in Peers |-> GotFrom(r, 1)] EXCEPT ![p] = @ \cup bring]
  BY <1>e
<1>11. [r \in Peers |-> GotFrom(r, 2)]' =
       [[r \in Peers |-> GotFrom(r, 2)] EXCEPT
            ![p] = @ \cup (bring \cap [r \in Peers |-> GotFrom(r, 1)][p])]
  BY <1>e
<1>12. Channel!Deliver(p, bring, free)
  BY <1>1, <1>2, <1>4, <1>6, <1>7, <1>8, <1>9, <1>10, <1>11 DEF Channel!Deliver
<1>13. bring \in SUBSET accepted[Channel!Other(p)] /\ free \in SUBSET QueuedCounters(p)
  BY <1>4, <1>5, <1>b
<1> QED
  BY <1>12, <1>13 DEF Channel!Next

\* EncryptedConnection behaves like SignalingChannel: messages that require
\* an acknowledgement reach the application without gaps, none twice while it
\* is repeated, and none is given up before it has been handed over.
THEOREM ConnectionImplementsChannel == Spec => ImplementsChannel
<1>1. Init => Channel!Init
  <2> SUFFICES ASSUME Init PROVE Channel!Init
    OBVIOUS
  <2>1. accepted = [p \in Peers |-> {}] /\ \A p \in Peers : queue[p] = <<>>
    BY DEF Init
  <2>2. \A p \in Peers : QueuedCounters(p) = {}
    BY <2>1 DEF QueuedCounters
  <2>3. \A p \in Peers : GotFrom(p, 1) = {} /\ GotFrom(p, 2) = {}
    BY <2>1, PeerIsOther DEF GotFrom
  <2> QED
    BY <2>1, <2>2, <2>3 DEF Channel!Init
<1>2. ConnectionInv /\ [Next]_vars => [Channel!Next]_(Channel!vars)
  <2> SUFFICES ASSUME ConnectionInv, [Next]_vars PROVE Channel!Next \/ UNCHANGED Channel!vars
    OBVIOUS
  <2>1. ASSUME NEW p \in Callers, SendMessage(p) \/ SendData(p) \/ SendTooLarge(p)
        PROVE  Channel!Next \/ UNCHANGED Channel!vars
    BY <2>1, CallersAssumption, AcceptStep, QuietStep
  <2>2. ASSUME NEW p \in Peers, ResendTimer(p) \/ SendAcksTimer(p) \/ Elapse(p)
        PROVE  UNCHANGED Channel!vars
    BY <2>2, QuietStep
  <2>3. ASSUME NEW m \in network, Lose(m) \/ \E p \in Peers : Receive(p, m)
        PROVE  Channel!Next \/ UNCHANGED Channel!vars
    BY <2>3, DeliverStep, QuietStep
  <2>4. CASE UNCHANGED vars
    BY <2>4, QuietStep
  <2> QED
    BY <2>1, <2>2, <2>3, <2>4 DEF Next
<1> QED
  BY <1>1, <1>2, InvariantHolds, PTL DEF Spec, ImplementsChannel, Channel!Spec
=============================================================================
