------------------------------ MODULE RpcCalls ------------------------------
(***************************************************************************)
(* What MTRequestMessageService promises to its callers, with no sessions, *)
(* transports or message ids to be lost: a call is answered at most once,  *)
(* with a result the server computed for this very call, and never after   *)
(* it was removed; and the server works on a call a second time only if    *)
(* the client gave up one of the two attempts.                             *)
(***************************************************************************)
EXTENDS Naturals

CONSTANTS
    Call,       \* the calls an application makes
    Attempt     \* names of the attempts made for them, none of them 0

VARIABLES
    state,      \* "new", "live", "completed" or "removed"
    results,    \* the attempts the server executed: [call, attempt]
    abandoned,  \* the attempts the client gave up
    answer      \* the attempt whose result the caller was given (0: none)

vars == <<state, results, abandoned, answer>>

Init ==
    /\ state = [c \in Call |-> "new"]
    /\ results = {}
    /\ abandoned = {}
    /\ answer = [c \in Call |-> 0]

Begin(c) ==
    /\ state[c] = "new"
    /\ state' = [state EXCEPT ![c] = "live"]
    /\ UNCHANGED <<results, abandoned, answer>>

\* The server executes an attempt at c, even one whose caller is gone.
Execute(c, a) ==
    /\ state[c] # "new"
    /\ \A x \in results : (x.call = c /\ x.attempt # a)
                              => (x.attempt \in abandoned \/ a \in abandoned)
    /\ \A x \in results : x.attempt = a => x.call = c
    /\ results' = results \cup {[call |-> c, attempt |-> a]}
    /\ UNCHANGED <<state, abandoned, answer>>

Return(c, a) ==
    /\ state[c] = "live"
    /\ [call |-> c, attempt |-> a] \in results
    /\ state' = [state EXCEPT ![c] = "completed"]
    /\ answer' = [answer EXCEPT ![c] = a]
    /\ UNCHANGED <<results, abandoned>>

Abandon(S) ==
    /\ abandoned' = abandoned \cup S
    /\ UNCHANGED <<state, results, answer>>

\* The caller drops the call: its attempts, if any, are abandoned.
Remove(c, S) ==
    /\ state[c] = "live"
    /\ state' = [state EXCEPT ![c] = "removed"]
    /\ abandoned' = abandoned \cup S
    /\ UNCHANGED <<results, answer>>

Next ==
    \/ \E c \in Call : Begin(c)
    \/ \E c \in Call, a \in Attempt : Execute(c, a) \/ Return(c, a)
    \/ \E c \in Call, S \in SUBSET Attempt : Remove(c, S)
    \/ \E S \in SUBSET Attempt : Abandon(S)

Spec == Init /\ [][Next]_vars
=============================================================================
