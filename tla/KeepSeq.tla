------------------------------ MODULE KeepSeq ------------------------------
(***************************************************************************)
(* The elements of a sequence that are in a set, in their order: what the  *)
(* loops leave that take elements out of an array or a queue.  It is       *)
(* SelectSeq for a test that is a set, written as a recursive function, so *)
(* that it can be reasoned about.                                          *)
(***************************************************************************)
EXTENDS Naturals, Sequences

KeepIn(s, S) ==
    LET kept[i \in 0..Len(s)] ==
            IF i = 0 THEN <<>>
            ELSE IF s[i] \in S THEN Append(kept[i - 1], s[i]) ELSE kept[i - 1]
    IN  kept[Len(s)]
=============================================================================
