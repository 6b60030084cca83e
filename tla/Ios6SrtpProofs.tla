--------------------------- MODULE Ios6SrtpProofs ---------------------------
(***************************************************************************)
(* Proofs about Ios6Srtp, for every size of the sequence number (Half),    *)
(* every number of packets and streams and every gap that the code's wrap  *)
(* test tolerates: the sender's counter is the true cycle of the packet,   *)
(* so no key stream is used twice, and the receiver's guess is right for   *)
(* every packet that is near the last one.                                 *)
(***************************************************************************)
EXTENDS Ios6Srtp, TLAPS

-----------------------------------------------------------------------------
(* The inductive invariant.                                                *)

\* A packet is protected with the counter that is its true cycle.
TrueCounter == \A p \in wire : p.roc = p.cycle

\* The packets of a stream that were protected lie before the encoder's next
\* one, and no stream is ahead of the encoder's.
WireBehind ==
    /\ sendSsrc <= ssrc
    /\ \A p \in wire :
        /\ p.ssrc <= ssrc
        /\ p.ssrc = ssrc => p.cycle < cycle \/ (p.cycle = cycle /\ p.seq < seq)

\* Of a stream that protectRtp has not seen, at most gap packets were made, so
\* that it is still in its first cycle; in a stream that it has seen, the next
\* packet lies gap + 1 behind the one it remembers, in this cycle or the next.
SenderInStep ==
    /\ NewSendStream => cycle = 0 /\ seq < Half + gap
    /\ ~NewSendStream =>
         \/ cycle = sendRoc /\ seq = sendLast + gap + 1
         \/ cycle = sendRoc + 1 /\ seq + 2 * Half = sendLast + gap + 1

SrtpInv ==
    /\ TypeOK
    /\ TrueCounter
    /\ WireBehind
    /\ SenderInStep
    /\ RemembersSent

-----------------------------------------------------------------------------
(* The counters.                                                           *)

\* protectRtp counts a wrap exactly when the sequence number wrapped.
LEMMA SendCounter ==
    ASSUME TypeOK, SenderInStep
    PROVE  SendRoc = cycle /\ SendLast = seq
BY HalfAssumption, GapAssumption
   DEF TypeOK, SenderInStep, SendRoc, SendLast, NewSendStream, Sequences16

\* The encoder's next packet has a sequence number and a cycle, and it is
\* later than the one it just made.
LEMMA AdvanceStep ==
    ASSUME TypeOK, Advance
    PROVE  /\ ssrc' = ssrc /\ cycle' \in Nat /\ seq' \in Sequences16 /\ made' \in Nat
           /\ \/ cycle' = cycle /\ seq' = seq + 1
              \/ cycle' = cycle + 1 /\ seq' = 0 /\ seq = 2 * Half - 1
BY HalfAssumption DEF TypeOK, Advance, Sequences16

\* What lay before the encoder's packet, and that packet, lie before the next.
LEMMA AdvanceOvertakes ==
    ASSUME TypeOK, Advance, NEW c \in Nat, NEW s \in Sequences16,
           c < cycle \/ (c = cycle /\ s <= seq)
    PROVE  c < cycle' \/ (c = cycle' /\ s < seq')
BY AdvanceStep, HalfAssumption DEF TypeOK, Sequences16

-----------------------------------------------------------------------------
(* The steps.                                                              *)

\* The encoder starts in the lower half and nothing is on the wire.
LEMMA InitInvariant == Init => SrtpInv
<1> SUFFICES ASSUME Init PROVE SrtpInv
  OBVIOUS
<1>1. TypeOK
  <2>1. ssrc \in Streams
    BY BoundsAssumption DEF Init, Streams
  <2>2. seq \in Sequences16 /\ 0 \in Sequences16
    BY HalfAssumption DEF Init, Sequences16
  <2>3. gap \in 0..MaxGap
    BY GapAssumption DEF Init
  <2> QED
    BY <2>1, <2>2, <2>3 DEF Init, TypeOK
<1>2. SenderInStep
  BY HalfAssumption DEF Init, SenderInStep, NewSendStream
<1>3. TrueCounter /\ WireBehind /\ RemembersSent
  BY DEF Init, TrueCounter, WireBehind, RemembersSent
<1> QED
  BY <1>1, <1>2, <1>3 DEF SrtpInv

\* A packet is protected under its true cycle, and the encoder moves past it.
LEMMA ProtectStep == SrtpInv /\ ProtectRtp => SrtpInv'
<1> SUFFICES ASSUME SrtpInv, ProtectRtp PROVE SrtpInv'
  OBVIOUS
<1> DEFINE sent == [ssrc |-> ssrc, cycle |-> cycle, seq |-> seq, roc |-> SendRoc]
<1>1. SendRoc = cycle /\ SendLast = seq
  BY SendCounter DEF SrtpInv
<1>2. /\ ssrc' = ssrc /\ cycle' \in Nat /\ seq' \in Sequences16 /\ made' \in Nat
      /\ \/ cycle' = cycle /\ seq' = seq + 1
         \/ cycle' = cycle + 1 /\ seq' = 0 /\ seq = 2 * Half - 1
  BY AdvanceStep DEF SrtpInv, ProtectRtp
<1>3. sent \in Packets /\ sent.roc = sent.cycle
  BY <1>1 DEF SrtpInv, TypeOK, Packets
<1>4. wire' = wire \cup {sent}
  BY DEF ProtectRtp
<1>5. /\ sendRoc' = cycle /\ sendLast' = seq /\ sendSsrc' = ssrc
      /\ sendInitialized' = TRUE /\ gap' = 0
  BY <1>1 DEF ProtectRtp
<1>6. TypeOK'
  <2>1. wire' \subseteq Packets
    BY <1>3, <1>4 DEF SrtpInv, TypeOK
  <2>2. gap' \in 0..MaxGap
    BY <1>5, GapAssumption
  <2> QED
    BY <1>2, <1>5, <2>1, <2>2 DEF SrtpInv, TypeOK, ProtectRtp, receiver
<1>7. TrueCounter'
  BY <1>3, <1>4 DEF SrtpInv, TrueCounter
<1>8. WireBehind'
  <2>1. ASSUME NEW p \in wire', p.ssrc = ssrc
        PROVE  p.cycle < cycle' \/ (p.cycle = cycle' /\ p.seq < seq')
    <3>1. p \in Packets /\ (p.cycle < cycle \/ (p.cycle = cycle /\ p.seq <= seq))
      BY <1>3, <1>4, <2>1 DEF SrtpInv, TypeOK, WireBehind, Packets, Sequences16
    <3> QED
      BY <3>1, AdvanceOvertakes DEF SrtpInv, ProtectRtp, Packets
  <2>2. \A p \in wire' : p.ssrc <= ssrc
    BY <1>4 DEF SrtpInv, TypeOK, WireBehind, Streams
  <2> QED
    BY <1>2, <1>5, <2>1, <2>2 DEF WireBehind, SrtpInv, TypeOK, Streams
<1>9. SenderInStep'
  <2>1. ~NewSendStream'
    BY <1>2, <1>5 DEF NewSendStream
  <2>2. \/ cycle' = sendRoc' /\ seq' = sendLast' + gap' + 1
        \/ cycle' = sendRoc' + 1 /\ seq' + 2 * Half = sendLast' + gap' + 1
    <3>1. cycle \in Nat /\ seq \in Int /\ Half \in Int
      BY HalfAssumption DEF SrtpInv, TypeOK, Sequences16
    <3>2. CASE cycle' = cycle /\ seq' = seq + 1
      BY <1>5, <3>1, <3>2
    <3>3. CASE cycle' = cycle + 1 /\ seq' = 0 /\ seq = 2 * Half - 1
      BY <1>5, <3>1, <3>3
    <3> QED
      BY <1>2, <3>2, <3>3
  <2> QED
    BY <2>1, <2>2 DEF SenderInStep
<1>10. RemembersSent'
  BY <1>4 DEF SrtpInv, RemembersSent, ProtectRtp, receiver
<1> QED
  BY <1>6, <1>7, <1>8, <1>9, <1>10 DEF SrtpInv

\* A packet that is not protected widens the gap by one.
LEMMA SkipStep == SrtpInv /\ SkipRtp => SrtpInv'
<1> SUFFICES ASSUME SrtpInv, SkipRtp PROVE SrtpInv'
  OBVIOUS
<1>1. /\ ssrc' = ssrc /\ cycle' \in Nat /\ seq' \in Sequences16 /\ made' \in Nat
      /\ \/ cycle' = cycle /\ seq' = seq + 1
         \/ cycle' = cycle + 1 /\ seq' = 0 /\ seq = 2 * Half - 1
  BY AdvanceStep DEF SrtpInv, SkipRtp
<1>2. gap' = gap + 1 /\ gap' \in 0..MaxGap
  BY GapAssumption DEF SrtpInv, TypeOK, SkipRtp
<1>3. TypeOK'
  BY <1>1, <1>2 DEF SrtpInv, TypeOK, SkipRtp, sender, receiver
<1>4. WireBehind'
  <2>1. ASSUME NEW p \in wire, p.ssrc = ssrc
        PROVE  p.cycle < cycle' \/ (p.cycle = cycle' /\ p.seq < seq')
    <3>1. p \in Packets /\ (p.cycle < cycle \/ (p.cycle = cycle /\ p.seq <= seq))
      BY <2>1 DEF SrtpInv, TypeOK, WireBehind, Packets, Sequences16
    <3> QED
      BY <3>1, AdvanceOvertakes DEF SrtpInv, SkipRtp, Packets
  <2> QED
    BY <1>1, <2>1 DEF WireBehind, SrtpInv, SkipRtp, sender
<1>5. SenderInStep'
  <2>1. NewSendStream' <=> NewSendStream
    BY <1>1 DEF NewSendStream, SkipRtp, sender
  <2>2. sendRoc' = sendRoc /\ sendLast' = sendLast
    BY DEF SkipRtp, sender
  <2>3. CASE NewSendStream
    BY <1>1, <1>2, <2>1, <2>3, HalfAssumption, GapAssumption
       DEF SenderInStep, SrtpInv, TypeOK, Sequences16
  <2>4. CASE ~NewSendStream
    <3>1. \/ cycle' = sendRoc' /\ seq' = sendLast' + gap' + 1
          \/ cycle' = sendRoc' + 1 /\ seq' + 2 * Half = sendLast' + gap' + 1
      <4>1. /\ \/ cycle = sendRoc /\ seq = sendLast + gap + 1
               \/ cycle = sendRoc + 1 /\ seq + 2 * Half = sendLast + gap + 1
            /\ cycle \in Nat /\ seq \in Int /\ sendRoc \in Nat
            /\ sendLast \in 0..(2 * Half - 1) /\ gap \in 0..MaxGap
        BY <2>4 DEF SenderInStep, SrtpInv, TypeOK, Sequences16
      <4>2. CASE cycle' = cycle /\ seq' = seq + 1
        BY <1>2, <2>2, <4>1, <4>2, HalfAssumption, GapAssumption
      <4>3. CASE cycle' = cycle + 1 /\ seq' = 0 /\ seq = 2 * Half - 1
        BY <1>2, <2>2, <4>1, <4>3, HalfAssumption, GapAssumption
      <4> QED
        BY <1>1, <4>2, <4>3
    <3> QED
      BY <2>1, <2>4, <3>1 DEF SenderInStep
  <2> QED
    BY <2>3, <2>4
<1>6. TrueCounter' /\ RemembersSent'
  BY DEF SrtpInv, TrueCounter, RemembersSent, SkipRtp, receiver
<1> QED
  BY <1>3, <1>4, <1>5, <1>6 DEF SrtpInv

\* No packet of a new stream is on the wire.
LEMMA StreamStep == SrtpInv /\ NewStream => SrtpInv'
<1> SUFFICES ASSUME SrtpInv, NewStream PROVE SrtpInv'
  OBVIOUS
<1>1. ssrc' = ssrc + 1 /\ ssrc' \in Streams /\ cycle' = 0 /\ gap' = 0
  BY BoundsAssumption DEF NewStream, SrtpInv, TypeOK, Streams
<1>2. seq' \in Sequences16 /\ seq' < Half
  BY HalfAssumption DEF NewStream, Sequences16
<1>3. TypeOK'
  BY <1>1, <1>2, GapAssumption DEF SrtpInv, TypeOK, NewStream, sender, receiver
<1>4. sendSsrc' < ssrc' /\ \A p \in wire' : p.ssrc < ssrc'
  BY <1>1 DEF SrtpInv, TypeOK, WireBehind, NewStream, sender, Streams, Packets
<1>5. WireBehind'
  BY <1>3, <1>4 DEF WireBehind, TypeOK, Streams, Packets
<1>6. SenderInStep'
  <2>1. NewSendStream'
    BY <1>3, <1>4 DEF NewSendStream, TypeOK, Streams
  <2> QED
    BY <1>1, <1>2, <2>1, HalfAssumption DEF SenderInStep, Sequences16
<1>7. TrueCounter' /\ RemembersSent'
  BY DEF SrtpInv, TrueCounter, RemembersSent, NewStream, receiver
<1> QED
  BY <1>3, <1>5, <1>6, <1>7 DEF SrtpInv

\* The receiver moves only to a packet that is on the wire.
LEMMA UnprotectStep ==
    ASSUME SrtpInv, NEW p \in wire, UnprotectRtp(p)
    PROVE  SrtpInv'
<1>1. p \in Packets /\ GuessedRoc(p) = p.cycle
  BY DEF SrtpInv, TypeOK, TrueCounter, UnprotectRtp, Authenticates
<1>2. \/ recvRoc' = p.cycle /\ recvLast' = p.seq
      \/ recvRoc' = recvRoc /\ recvLast' = recvLast /\ ~NewRecvStream(p)
  BY <1>1 DEF UnprotectRtp, Remember
<1>3. recvSsrc' = p.ssrc /\ recvInitialized' = TRUE /\ wire' = wire
  BY DEF UnprotectRtp
<1>4. TypeOK'
  BY <1>1, <1>2, <1>3 DEF SrtpInv, TypeOK, UnprotectRtp, encoder, sender, Packets
<1>5. RemembersSent'
  BY <1>2, <1>3 DEF SrtpInv, RemembersSent, NewRecvStream
<1>6. TrueCounter' /\ WireBehind' /\ SenderInStep'
  BY DEF SrtpInv, TrueCounter, WireBehind, SenderInStep, NewSendStream,
         UnprotectRtp, encoder, sender
<1> QED
  BY <1>4, <1>5, <1>6 DEF SrtpInv

\* Every step keeps the invariant.
LEMMA NextInvariant == SrtpInv /\ [Next]_vars => SrtpInv'
<1> SUFFICES ASSUME SrtpInv, [Next]_vars PROVE SrtpInv'
  OBVIOUS
<1>1. CASE ProtectRtp
  BY <1>1, ProtectStep
<1>2. CASE SkipRtp
  BY <1>2, SkipStep
<1>3. CASE NewStream
  BY <1>3, StreamStep
<1>4. CASE \E p \in wire : UnprotectRtp(p)
  BY <1>4, UnprotectStep
<1>5. CASE UNCHANGED vars
  BY <1>5 DEF SrtpInv, TypeOK, TrueCounter, WireBehind, SenderInStep, RemembersSent,
              NewSendStream, vars, encoder, sender, receiver
<1> QED
  BY <1>1, <1>2, <1>3, <1>4, <1>5 DEF Next

\* The invariant holds in every state of every behaviour.
LEMMA InvariantHolds == Spec => []SrtpInv
BY InitInvariant, NextInvariant, PTL DEF Spec

-----------------------------------------------------------------------------
(* The results.                                                            *)

\* The counters and the last sequence numbers keep their types: in particular
\* the receiver's counter, which the code lets underflow, never goes below 0.
THEOREM TypesHold == Spec => []TypeOK
<1>1. SrtpInv => TypeOK
  BY DEF SrtpInv
<1> QED
  BY <1>1, InvariantHolds, PTL

\* protectRtp never uses the key stream of a stream twice.
THEOREM KeyStreamIsUsedOnce == Spec => []KeyStreamOnce
<1>1. SrtpInv => KeyStreamOnce
  <2> SUFFICES ASSUME SrtpInv, NEW p \in wire, NEW q \in wire,
                      p.ssrc = q.ssrc, p.roc = q.roc, p.seq = q.seq
               PROVE  p = q
    BY DEF KeyStreamOnce
  <2>1. p \in Packets /\ q \in Packets /\ p.cycle = q.cycle
    BY DEF SrtpInv, TypeOK, TrueCounter
  <2> QED
    BY <2>1 DEF Packets
<1> QED
  BY <1>1, InvariantHolds, PTL

\* No packet on the wire has the key stream that protectRtp is about to use.
KeyStreamIsFresh ==
    ~ \E q \in wire : q.ssrc = ssrc /\ q.roc = SendRoc /\ q.seq = seq

\* The packet that protectRtp makes differs from every packet it ever made in
\* its stream, its counter or its sequence number.
THEOREM KeyStreamFresh == Spec => []KeyStreamIsFresh
<1>1. SrtpInv => KeyStreamIsFresh
  <2> SUFFICES ASSUME SrtpInv, NEW q \in wire,
                      q.ssrc = ssrc, q.roc = SendRoc, q.seq = seq
               PROVE  FALSE
    BY DEF KeyStreamIsFresh
  <2>1. q \in Packets /\ q.cycle = cycle
    BY SendCounter DEF SrtpInv, TypeOK, TrueCounter
  <2> QED
    BY <2>1 DEF SrtpInv, TypeOK, WireBehind, Packets, Sequences16
<1> QED
  BY <1>1, InvariantHolds, PTL

\* What unprotectRtp remembers is a packet that was really sent.
THEOREM ReceiverRemembersSent == Spec => []RemembersSent
<1>1. SrtpInv => RemembersSent
  BY DEF SrtpInv
<1> QED
  BY <1>1, InvariantHolds, PTL

\* unprotectRtp guesses the counter of every packet that is near the last one.
THEOREM NearPacketsAuthenticate == Spec => []NearAuthenticates
<1>1. SrtpInv => NearAuthenticates
  <2> SUFFICES ASSUME SrtpInv, NEW p \in wire,
                      IF NewRecvStream(p) THEN p.cycle = 0 ELSE Near(p)
               PROVE  Authenticates(p)
    BY DEF NearAuthenticates
  <2>1. p \in Packets /\ p.roc = p.cycle
    BY DEF SrtpInv, TypeOK, TrueCounter
  <2>2. CASE NewRecvStream(p)
    BY <2>1, <2>2 DEF Authenticates, GuessedRoc
  <2>3. CASE ~NewRecvStream(p)
    <3>1. p.cycle \in Nat /\ p.seq \in 0..(2 * Half - 1)
      BY <2>1 DEF Packets, Sequences16
    <3>2. recvRoc \in Nat /\ recvLast \in 0..(2 * Half - 1)
      BY DEF SrtpInv, TypeOK, Sequences16
    <3>3. GuessedRoc(p) = p.cycle
      BY <2>3, <3>1, <3>2, HalfAssumption DEF GuessedRoc, Near
    <3> QED
      BY <2>1, <3>3 DEF Authenticates
  <2> QED
    BY <2>2, <2>3
<1> QED
  BY <1>1, InvariantHolds, PTL

=============================================================================
