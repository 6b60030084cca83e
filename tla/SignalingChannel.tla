------------------------- MODULE SignalingChannel -------------------------
(***************************************************************************)
(* What EncryptedConnection promises for the messages that require an      *)
(* acknowledgement, with no packets, counters to remember or timers: an    *)
(* application gets the other's messages without gaps, gets one again only *)
(* when its sender has stopped repeating it, and an end stops repeating    *)
(* only what the other application has got.                                *)
(***************************************************************************)
EXTENDS Naturals

CONSTANTS
    End,        \* the two ends
    Number      \* the numbers of messages

VARIABLES
    sent,       \* the messages an end was given to send
    kept,       \* those of them it still repeats
    given,      \* the other end's messages the application has got
    again       \* those it has got more than once

vars == <<sent, kept, given, again>>

Other(e) == CHOOSE f \in End : f # e

Init ==
    /\ sent = [e \in End |-> {}] /\ kept = [e \in End |-> {}]
    /\ given = [e \in End |-> {}] /\ again = [e \in End |-> {}]

Accept(e, n) ==
    /\ \A x \in sent[e] : x < n
    /\ sent' = [sent EXCEPT ![e] = @ \cup {n}]
    /\ kept' = [kept EXCEPT ![e] = @ \cup {n}]
    /\ UNCHANGED <<given, again>>

\* One packet reaches e: it brings the messages S and acknowledges F.
Deliver(e, S, F) ==
    /\ \A n \in S : \A x \in sent[Other(e)] : x < n => x \in S \cup given[e]
    /\ S \cap given[e] \cap kept[Other(e)] = {}
    /\ F \subseteq given[Other(e)]
    /\ given' = [given EXCEPT ![e] = @ \cup S]
    /\ again' = [again EXCEPT ![e] = @ \cup (S \cap given[e])]
    /\ kept' = [kept EXCEPT ![e] = @ \ F]
    /\ UNCHANGED sent

Next ==
    \E e \in End :
        \/ \E n \in Number : Accept(e, n)
        \/ \E S \in SUBSET sent[Other(e)], F \in SUBSET kept[e] : Deliver(e, S, F)

Spec == Init /\ [][Next]_vars
=============================================================================
