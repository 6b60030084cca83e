----------------------- MODULE EncryptedConnection -----------------------
(***************************************************************************)
(* The signaling channel of a call: two ends, each an EncryptedConnection  *)
(* of thirdparty/TgVoipWebrtcIOS6, exchanging encrypted packets through a  *)
(* server that loses, repeats and reorders them.                           *)
(*                                                                         *)
(* A packet starts with one message, its main one, and may carry           *)
(* acknowledgements and repeated messages after it.  Every message has a   *)
(* counter of its sender; the counter of the main message is the packet's. *)
(* A message that requires an acknowledgement stays in its sender's queue  *)
(* until the acknowledgement comes, and is sent again by a timer.          *)
(*                                                                         *)
(* The raw interface (prepareForSendingRawMessage, handleIncomingRawPacket)*)
(* is modelled, as built for iOS with TGCALLS_IOS6_AUDIO_ONLY.  The        *)
(* encryption is not: a packet is what it decrypts to.                     *)
(***************************************************************************)
EXTENDS Naturals, Sequences, FiniteSets, SequencesExt, KeepSeq

CONSTANTS Peers,            \* the two ends
          Callers,          \* the ends whose application sends messages
          MaxCounter,       \* kMaxAllowedCounter
          NotAckedLimit,    \* kNotAckedMessagesLimit
          KeepCounters,     \* kKeepIncomingCountersCount
          PacketLimit,      \* room in a packet, in units of an acknowledgement
          MessageSize       \* size of an application's message in that unit

ASSUME PeersAssumption == IsFiniteSet(Peers) /\ Cardinality(Peers) = 2
ASSUME CallersAssumption == Callers \subseteq Peers
ASSUME LimitsAssumption ==
    /\ MaxCounter \in Nat /\ NotAckedLimit \in Nat \ {0}
    /\ KeepCounters \in Nat \ {0}
    /\ MessageSize \in Nat \ {0} /\ PacketLimit \in Nat
    /\ MessageSize < PacketLimit

VARIABLES
    counter,            \* _counter
    queue,              \* _myNotYetAckedMessages, each with its counter and
                        \* whether minDelayBeforeMessageResend has passed
    resendTimerActive,  \* _resendTimerActive: a task with cause Resend is posted
    sendAcksTimerActive,\* _sendAcksTimerActive: a task with cause Acks is posted
    largestIncoming,    \* _largestIncomingCounters
    acksToSend,         \* _acksToSendSeqs
    acksSent,           \* _acksSentCounters
    network,            \* packets that may still arrive
    accepted,           \* history: messages that require an acknowledgement
    handed              \* history: how often a message was handed to the
                        \* application (2 stands for more than once)

timers == <<resendTimerActive, sendAcksTimerActive>>
incoming == <<largestIncoming, acksSent, handed>>
vars == <<counter, queue, timers, incoming, acksToSend, network, accepted>>

Counters == 1..MaxCounter
EmptySize == 1      \* a seq and a type byte, like an acknowledgement

Peer(p) == CHOOSE q \in Peers : q # p
QueuedCounters(p) == {queue[p][i].counter : i \in DOMAIN queue[p]}

Packets == [from : Peers, counter : Counters, main : {"empty", "data", "message"},
            acks : Seq(Counters), messages : Seq(Counters)]

TypeOK ==
    /\ counter \in [Peers -> 0..MaxCounter]
    /\ queue \in [Peers -> Seq([counter : Counters, due : BOOLEAN])]
    /\ resendTimerActive \in [Peers -> BOOLEAN]
    /\ sendAcksTimerActive \in [Peers -> BOOLEAN]
    /\ largestIncoming \in [Peers -> SUBSET Counters]
    /\ acksToSend \in [Peers -> Seq(Counters)]
    /\ acksSent \in [Peers -> SUBSET Counters]
    /\ network \subseteq Packets
    /\ accepted \in [Peers -> SUBSET Counters]
    /\ handed \in [Peers -> [Counters -> 0..2]]

Init ==
    /\ counter = [p \in Peers |-> 0]
    /\ queue = [p \in Peers |-> <<>>]
    /\ resendTimerActive = [p \in Peers |-> FALSE]
    /\ sendAcksTimerActive = [p \in Peers |-> FALSE]
    /\ largestIncoming = [p \in Peers |-> {}]
    /\ acksToSend = [p \in Peers |-> <<>>]
    /\ acksSent = [p \in Peers |-> {}]
    /\ network = {}
    /\ accepted = [p \in Peers |-> {}]
    /\ handed = [p \in Peers |-> [c \in Counters |-> 0]]

(***************************************************************************)
(* appendAcksToSend: the acknowledgements that fit after what the packet   *)
(* holds already.                                                          *)
(***************************************************************************)
AcksThatFit(p, size) ==
    LET room == PacketLimit - size
        n == IF Len(acksToSend[p]) <= room THEN Len(acksToSend[p]) ELSE room
    IN  SubSeq(acksToSend[p], 1, n)

(***************************************************************************)
(* The loop of appendAdditionalMessages: the places of the queued messages *)
(* that are repeated, in order up to the first that is not due or does not *)
(* fit.                                                                    *)
(***************************************************************************)
\* Mutant of Resend: continue where the loop breaks.
ResendPastNotDue(q, size) ==
    {i \in DOMAIN q : /\ q[i].due
                      /\ size + Cardinality({j \in 1..i : q[j].due}) * MessageSize
                            <= PacketLimit}
Resend(q, size) ==
    {i \in DOMAIN q : \A j \in 1..i : q[j].due /\ size + j * MessageSize <= PacketLimit}

(***************************************************************************)
(* prepareForSendingService after the timer flag is cleared: an empty      *)
(* message with whatever is to be added.  q is the queue it starts from,   *)
(* c the last counter that was used.                                       *)
(***************************************************************************)
SendService(p, q, c) ==
    LET acks == AcksThatFit(p, EmptySize)
        again == Resend(q, EmptySize + Len(acks))
        sent == c < MaxCounter /\ (q # <<>> \/ acksToSend[p] # <<>>)
    IN  /\ IF sent
           THEN /\ counter' = [counter EXCEPT ![p] = c + 1]
                /\ acksToSend' = [acksToSend EXCEPT
                        ![p] = SubSeq(@, Len(acks) + 1, Len(@))]
                /\ queue' = [queue EXCEPT ![p] =
                        [i \in DOMAIN q |-> IF i \in again THEN [q[i] EXCEPT !.due = FALSE]
                                                          ELSE q[i]]]
                /\ network' = network \cup {
                        [from |-> p, counter |-> c + 1, main |-> "empty",
                         acks |-> acks,
                         messages |-> KeepIn([i \in DOMAIN q |-> q[i].counter],
                                             {q[i].counter : i \in again})]}
           ELSE /\ counter' = [counter EXCEPT ![p] = c]
                /\ queue' = [queue EXCEPT ![p] = q]
                /\ UNCHANGED <<acksToSend, network>>

(***************************************************************************)
(* appendAdditionalMessages posts the resend task when messages are queued *)
(* and none is posted; active is the flag when it is called.               *)
(***************************************************************************)
ArmResend(p, q, c, active) ==
    resendTimerActive' = [resendTimerActive EXCEPT
        ![p] = active \/ (c < MaxCounter /\ q # <<>>)]

-----------------------------------------------------------------------------
(***************************************************************************)
(* prepareForSendingRawMessage(message, true).  With an empty queue the    *)
(* message goes out at once with the pending acknowledgements; it joins    *)
(* the queue only after appendAdditionalMessages has looked at it.         *)
(* Otherwise it is queued, the whole queue becomes due, and a service      *)
(* packet carries what fits.                                               *)
(***************************************************************************)
SendMessage(p) ==
    LET c == counter[p] + 1
        acks == AcksThatFit(p, MessageSize)
        q == [i \in 1..Len(queue[p]) + 1 |->
                [counter |-> IF i <= Len(queue[p]) THEN queue[p][i].counter ELSE c,
                 due |-> TRUE]]
    IN  /\ Len(queue[p]) < NotAckedLimit
        /\ counter[p] < MaxCounter
        /\ accepted' = [accepted EXCEPT ![p] = @ \cup {c}]
        /\ IF queue[p] = <<>>
           THEN /\ counter' = [counter EXCEPT ![p] = c]
                /\ queue' = [queue EXCEPT ![p] = <<[counter |-> c, due |-> FALSE]>>]
                /\ acksToSend' = [acksToSend EXCEPT
                        ![p] = SubSeq(@, Len(acks) + 1, Len(@))]
                /\ network' = network \cup {
                        [from |-> p, counter |-> c, main |-> "message",
                         acks |-> acks, messages |-> <<c>>]}
                /\ UNCHANGED resendTimerActive
           ELSE /\ SendService(p, q, c)
                /\ ArmResend(p, q, c, resendTimerActive[p])
        /\ UNCHANGED <<sendAcksTimerActive, incoming>>

(***************************************************************************)
(* prepareForSendingRawMessage(message, false): the message alone, without *)
(* acknowledgements or repeated messages.                                  *)
(***************************************************************************)
SendData(p) ==
    /\ counter[p] < MaxCounter
    /\ counter' = [counter EXCEPT ![p] = @ + 1]
    /\ network' = network \cup {
            [from |-> p, counter |-> counter[p] + 1, main |-> "data",
             acks |-> <<>>, messages |-> <<>>]}
    /\ UNCHANGED <<queue, timers, incoming, acksToSend, accepted>>

\* A message larger than a packet uses a counter and is dropped.
SendTooLarge(p) ==
    /\ counter[p] < MaxCounter
    /\ counter' = [counter EXCEPT ![p] = @ + 1]
    /\ UNCHANGED <<queue, timers, incoming, acksToSend, network, accepted>>

\* The task posted with kServiceCauseResend runs.
\* Mutant of ResendTimer: waits until the first message is due.
ResendTimerIfDue(p) ==
    /\ resendTimerActive[p] /\ queue[p] # <<>> /\ queue[p][1].due
    /\ SendService(p, queue[p], counter[p])
    /\ ArmResend(p, queue[p], counter[p], FALSE)
    /\ UNCHANGED <<sendAcksTimerActive, incoming, accepted>>
ResendTimer(p) ==
    /\ resendTimerActive[p]
    /\ SendService(p, queue[p], counter[p])
    /\ ArmResend(p, queue[p], counter[p], FALSE)
    /\ UNCHANGED <<sendAcksTimerActive, incoming, accepted>>

\* The task posted with kServiceCauseAcks runs.
SendAcksTimer(p) ==
    /\ sendAcksTimerActive[p]
    /\ sendAcksTimerActive' = [sendAcksTimerActive EXCEPT ![p] = FALSE]
    /\ SendService(p, queue[p], counter[p])
    /\ ArmResend(p, queue[p], counter[p], resendTimerActive[p])
    /\ UNCHANGED <<incoming, accepted>>

(***************************************************************************)
(* registerIncomingCounter: a packet is refused when its counter is known  *)
(* or KeepCounters behind the largest one.                                 *)
(***************************************************************************)
\* Mutant of RegisterAccepts: without the check of the age.
AcceptsUnknown(list, c) == c \notin list
RegisterAccepts(list, c) ==
    /\ c \notin list
    /\ \A x \in list : c + KeepCounters > x

RegisteredCounters(list, c) == {x \in list : x + KeepCounters > c} \cup {c}

(***************************************************************************)
(* registerSentAck for the messages of one packet: the first of them tells *)
(* which counters need not be remembered any more.                         *)
(***************************************************************************)
\* Mutant of RegisteredAcks: remembers the last packet only.
RegisteredLast(list, messages) ==
    IF messages = <<>> THEN list ELSE ToSet(messages)
RegisteredAcks(list, messages) ==
    IF messages = <<>> THEN list
    ELSE {x \in list : x >= messages[1]} \cup ToSet(messages)

\* ackMyMessage for the acknowledgements of one packet.
\* Mutant of AckMyMessages: takes the front for the acknowledged message.
AckPopsFront(q, acks) ==
    SubSeq(q, IF Len(acks) <= Len(q) THEN Len(acks) + 1 ELSE Len(q) + 1, Len(q))
AckMyMessages(q, acks) == KeepIn(q, {e \in ToSet(q) : e.counter \notin ToSet(acks)})

(***************************************************************************)
(* handleIncomingRawPacket and processRawPacket.  The packet may arrive    *)
(* again later: it stays in the network.                                   *)
(***************************************************************************)
Receive(p, m) ==
    LET up == (ToSet(m.messages) \ acksSent[p])
                    \cup {c \in {m.counter} : m.main = "data"}
        acks == acksToSend[p] \o KeepIn(m.messages, Counters \ ToSet(acksToSend[p]))
    IN  /\ m.from # p
        /\ RegisterAccepts(largestIncoming[p], m.counter)
        /\ largestIncoming' = [largestIncoming EXCEPT
                ![p] = RegisteredCounters(@, m.counter)]
        /\ queue' = [queue EXCEPT ![p] = AckMyMessages(@, m.acks)]
        /\ acksSent' = [acksSent EXCEPT ![p] = RegisteredAcks(@, m.messages)]
        /\ acksToSend' = [acksToSend EXCEPT ![p] = acks]
        /\ sendAcksTimerActive' = [sendAcksTimerActive EXCEPT ![p] = @ \/ acks # <<>>]
        /\ handed' = [handed EXCEPT ![p] =
                [c \in Counters |-> IF c \in up /\ @[c] < 2 THEN @[c] + 1 ELSE @[c]]]
        /\ UNCHANGED <<counter, resendTimerActive, network, accepted>>

-----------------------------------------------------------------------------
\* External: minDelayBeforeMessageResend passes since the last resending.
Elapse(p) ==
    /\ \E i \in DOMAIN queue[p] : ~queue[p][i].due
    /\ queue' = [queue EXCEPT ![p] = [i \in DOMAIN @ |-> [@[i] EXCEPT !.due = TRUE]]]
    /\ UNCHANGED <<counter, timers, incoming, acksToSend, network, accepted>>

\* External: a packet is lost, or will not be repeated any more.
Lose(m) ==
    /\ network' = network \ {m}
    /\ UNCHANGED <<counter, queue, timers, incoming, acksToSend, accepted>>

Next ==
    \/ \E p \in Callers : SendMessage(p) \/ SendData(p) \/ SendTooLarge(p)
    \/ \E p \in Peers : ResendTimer(p) \/ SendAcksTimer(p) \/ Elapse(p)
    \/ \E m \in network : Lose(m) \/ \E p \in Peers : Receive(p, m)

Spec == Init /\ [][Next]_vars

\* Tasks posted to the thread run, and time passes.
FairSpec ==
    /\ Spec
    /\ \A p \in Peers : WF_vars(ResendTimer(p)) /\ WF_vars(SendAcksTimer(p))

-----------------------------------------------------------------------------
(***************************************************************************)
(* A message that needs no acknowledgement (channel negotiation,           *)
(* candidates) is handed to the application at most once, however the      *)
(* server repeats and reorders packets around the window of counters.      *)
(***************************************************************************)
DataHandedOnce ==
    \A p \in Peers : \A c \in Counters \ accepted[Peer(p)] : handed[p][c] <= 1

(***************************************************************************)
(* While its sender still repeats a message, the other end has handed it   *)
(* to the application at most once: registerSentAck forgets a counter only *)
(* when its acknowledgement has arrived.                                   *)
(***************************************************************************)
QueuedHandedOnce ==
    \A p \in Peers : \A c \in QueuedCounters(p) : handed[Peer(p)][c] <= 1

(***************************************************************************)
(* A message leaves the queue of its sender only after the other end has   *)
(* handed it to the application.                                           *)
(***************************************************************************)
AckedIsHanded ==
    \A p \in Peers : \A c \in accepted[p] \ QueuedCounters(p) : handed[Peer(p)][c] >= 1

(***************************************************************************)
(* Messages that require an acknowledgement are handed over without gaps:  *)
(* when one has been, all earlier ones of the same sender have been.       *)
(***************************************************************************)
HandedWithoutGaps ==
    \A p \in Peers : \A c, d \in accepted[p] :
        c < d /\ handed[Peer(p)][d] >= 1 => handed[Peer(p)][c] >= 1

(***************************************************************************)
(* The end goes on sending until the queue has been acknowledged down to a *)
(* single message or the counters are used up.                             *)
(***************************************************************************)
KeepsTrying ==
    \A p \in Peers : Len(queue[p]) >= 2 ~> (Len(queue[p]) < 2 \/ counter[p] = MaxCounter)

(***************************************************************************)
(* The connection implements the channel its users rely on: every packet   *)
(* that is taken hands over messages without a gap, none that its sender   *)
(* may still repeat a second time, and takes from the queue only messages  *)
(* that were handed over.                                                  *)
(***************************************************************************)
GotFrom(p, times) == {c \in accepted[Peer(p)] : handed[p][c] >= times}
Channel == INSTANCE SignalingChannel WITH
    End <- Peers, Number <- Counters, sent <- accepted,
    kept <- [p \in Peers |-> QueuedCounters(p)],
    given <- [p \in Peers |-> GotFrom(p, 1)],
    again <- [p \in Peers |-> GotFrom(p, 2)]
ImplementsChannel == Channel!Spec
=============================================================================
