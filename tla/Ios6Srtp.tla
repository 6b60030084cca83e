----------------------------- MODULE Ios6Srtp -----------------------------
(***************************************************************************)
(* The SRTP half of Ios6DtlsTransport: protectRtp at one end and           *)
(* unprotectRtp at the other.  An RTP packet carries 16 bits of its index; *)
(* the rest, the roll-over counter, is counted by the sender and guessed   *)
(* by the receiver, and a packet authenticates only under the counter it   *)
(* was protected with.  The network delays, repeats, loses and reorders    *)
(* packets, and the sender may start a new stream.                         *)
(*                                                                         *)
(* The true index of a packet is the pair of its cycle and its sequence    *)
(* number.  The code's 32768 is Half, its 65536 is 2 * Half.               *)
(***************************************************************************)
EXTENDS Integers, FiniteSets

CONSTANTS Half,         \* 32768 in the code
          MaxPackets,   \* bound: RTP packets the encoder makes
          MaxStreams,   \* bound: streams (SSRCs) the sender goes through
          MaxGap        \* packets in a row that never reach protectRtp

ASSUME HalfAssumption == Half \in Nat \ {0}
ASSUME BoundsAssumption == MaxPackets \in Nat /\ MaxStreams \in Nat \ {0}
ASSUME GapAssumption == MaxGap \in Nat /\ MaxGap + 1 < Half

Sequences16 == 0..(2 * Half - 1)

VARIABLES
    ssrc, cycle, seq,   \* the next packet of the encoder
    made,               \* packets made so far
    gap,                \* packets made since the last protected one
    sendInitialized,    \* _srtpSendInitialized
    sendSsrc, sendRoc, sendLast,    \* _srtpSend...
    recvInitialized,    \* _srtpRecvInitialized
    recvSsrc, recvRoc, recvLast,    \* _srtpRecv...
    wire                \* every packet ever protected: it may arrive at any
                        \* time, again and again, or never

encoder == <<ssrc, cycle, seq, made, gap>>
sender == <<sendInitialized, sendSsrc, sendRoc, sendLast>>
receiver == <<recvInitialized, recvSsrc, recvRoc, recvLast>>
vars == <<encoder, sender, receiver, wire>>

Streams == 1..MaxStreams
Packets == [ssrc : Streams, cycle : Nat, seq : Sequences16, roc : Nat]

TypeOK ==
    /\ ssrc \in Streams /\ cycle \in Nat /\ seq \in Sequences16
    /\ made \in Nat /\ gap \in 0..MaxGap
    /\ sendInitialized \in BOOLEAN /\ recvInitialized \in BOOLEAN
    /\ sendSsrc \in Streams \cup {0} /\ sendRoc \in Nat /\ sendLast \in Sequences16
    /\ recvSsrc \in Streams \cup {0} /\ recvRoc \in Nat /\ recvLast \in Sequences16
    /\ wire \subseteq Packets

\* External: WebRTC starts a stream in the lower half of the sequence numbers.
Init ==
    /\ ssrc = 1 /\ cycle = 0 /\ seq \in 0..(Half - 1)
    /\ made = 0 /\ gap = 0
    /\ sendInitialized = FALSE /\ sendSsrc = 0 /\ sendRoc = 0 /\ sendLast = 0
    /\ recvInitialized = FALSE /\ recvSsrc = 0 /\ recvRoc = 0 /\ recvLast = 0
    /\ wire = {}

\* External: the encoder counts sequence numbers one by one.
Advance ==
    /\ made < MaxPackets
    /\ made' = made + 1
    /\ seq' = IF seq = 2 * Half - 1 THEN 0 ELSE seq + 1
    /\ cycle' = IF seq = 2 * Half - 1 THEN cycle + 1 ELSE cycle
    /\ UNCHANGED ssrc

(***************************************************************************)
(* The roll-over counter that protectRtp uses for a packet, and the last   *)
(* sequence number it remembers.                                           *)
(***************************************************************************)
NewSendStream == ~sendInitialized \/ sendSsrc # ssrc

\* Mutant of SendRoc: sees a wrap only in the packet that is numbered zero.
SendRocAtZero ==
    IF NewSendStream THEN 0 ELSE IF seq = 0 THEN sendRoc + 1 ELSE sendRoc
SendRoc ==
    IF NewSendStream THEN 0
    ELSE IF seq - sendLast < -Half THEN sendRoc + 1 ELSE sendRoc

SendLast ==
    IF NewSendStream \/ seq - sendLast < -Half \/ seq - sendLast \in 1..(Half - 1)
    THEN seq ELSE sendLast

\* protectRtp of the packet the encoder just made.
ProtectRtp ==
    /\ Advance
    /\ wire' = wire \cup {[ssrc |-> ssrc, cycle |-> cycle, seq |-> seq, roc |-> SendRoc]}
    /\ sendRoc' = SendRoc
    /\ sendLast' = SendLast
    /\ sendSsrc' = ssrc
    /\ sendInitialized' = TRUE
    /\ gap' = 0
    /\ UNCHANGED receiver

\* A packet that does not reach protectRtp.
SkipRtp ==
    /\ gap < MaxGap
    /\ Advance
    /\ gap' = gap + 1
    /\ UNCHANGED <<sender, receiver, wire>>

\* External: a new stream with a new SSRC.
NewStream ==
    /\ ssrc < MaxStreams
    /\ ssrc' = ssrc + 1
    /\ cycle' = 0 /\ seq' \in 0..(Half - 1) /\ gap' = 0
    /\ UNCHANGED <<made, sender, receiver, wire>>

-----------------------------------------------------------------------------
NewRecvStream(p) == ~recvInitialized \/ recvSsrc # p.ssrc

(***************************************************************************)
(* The counter that unprotectRtp guesses for a packet; -1 stands for the   *)
(* underflow to 2^32 - 1, a counter no packet has.                         *)
(***************************************************************************)
\* Mutant of GuessedRoc: no guess at all.
GuessedSame(p) == IF NewRecvStream(p) THEN 0 ELSE recvRoc
GuessedRoc(p) ==
    IF NewRecvStream(p) THEN 0
    ELSE IF recvLast < Half
         THEN IF p.seq - recvLast > Half THEN recvRoc - 1 ELSE recvRoc
         ELSE IF recvLast - Half > p.seq THEN recvRoc + 1 ELSE recvRoc

\* The tag was made with the sender's counter.
Authenticates(p) == GuessedRoc(p) = p.roc

Remember(p) ==
    IF \/ NewRecvStream(p)
       \/ GuessedRoc(p) = recvRoc + 1
       \/ GuessedRoc(p) = recvRoc /\ p.seq > recvLast
    THEN recvRoc' = GuessedRoc(p) /\ recvLast' = p.seq
    ELSE UNCHANGED <<recvRoc, recvLast>>

\* Mutant of UnprotectRtp: moves the counter whether or not the tag is right.
UnprotectUnchecked(p) ==
    /\ Remember(p)
    /\ recvSsrc' = p.ssrc
    /\ recvInitialized' = TRUE
    /\ UNCHANGED <<encoder, sender, wire>>
UnprotectRtp(p) ==
    /\ Authenticates(p)
    /\ Remember(p)
    /\ recvSsrc' = p.ssrc
    /\ recvInitialized' = TRUE
    /\ UNCHANGED <<encoder, sender, wire>>

Next ==
    \/ ProtectRtp \/ SkipRtp \/ NewStream
    \/ \E p \in wire : UnprotectRtp(p)

Spec == Init /\ [][Next]_vars

-----------------------------------------------------------------------------
(***************************************************************************)
(* No two packets are protected with the same counter and sequence number: *)
(* the key stream of a stream is never used twice.                         *)
(***************************************************************************)
KeyStreamOnce ==
    \A p, q \in wire :
        p.ssrc = q.ssrc /\ p.roc = q.roc /\ p.seq = q.seq => p = q

\* Fewer than Half packets lie between the packet and the receiver's last one.
Near(p) ==
    \/ p.cycle = recvRoc /\ p.seq - recvLast < Half /\ recvLast - p.seq < Half
    \/ p.cycle = recvRoc + 1 /\ p.seq + 2 * Half - recvLast < Half
    \/ p.cycle + 1 = recvRoc /\ recvLast + 2 * Half - p.seq < Half

(***************************************************************************)
(* A packet of the current stream that is near the last one, in either     *)
(* direction and across a wrap, authenticates; so does a packet of a       *)
(* stream that is new to the receiver while it is in its first cycle.      *)
(***************************************************************************)
NearAuthenticates ==
    \A p \in wire :
        (IF NewRecvStream(p) THEN p.cycle = 0 ELSE Near(p)) => Authenticates(p)

(***************************************************************************)
(* What the receiver remembers is a packet that was really sent: a wrong   *)
(* guess never moves its counter.                                          *)
(***************************************************************************)
RemembersSent ==
    recvInitialized =>
        \E p \in wire : p.ssrc = recvSsrc /\ p.cycle = recvRoc /\ p.seq = recvLast

=============================================================================
