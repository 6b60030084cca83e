---------------------------- MODULE WarpSession ----------------------------
(***************************************************************************)
(* The WireGuard session of the tunnel helper: the first handshake of      *)
(* cmd_warp_tunnel, then run_tunnel_loop with its keepalive, stall check,  *)
(* key renewal and the two drains, over the handshake of wg.c.             *)
(*                                                                         *)
(* A handshake is named by the ephemeral key of its initiation, and so are *)
(* the transport keys it yields: a response can be consumed only with the  *)
(* ephemeral private key, chaining key and hash of that initiation.  The   *)
(* peer is external; it follows WireGuard: it refuses an initiation older  *)
(* than one it took, and sends with a new key once it has received with it.*)
(* A datagram that sendto refuses is one that is lost.                     *)
(* Time passes in seconds.  One pass of the loop takes none, and nothing   *)
(* else happens during it.                                                 *)
(***************************************************************************)
EXTENDS Naturals

CONSTANTS
    Ids,            \* the ephemeral keys, more than are ever in use at once
    HandshakeWait,  \* 8 s for one initiation of the first handshake
    RecvTimeout,    \* SO_RCVTIMEO, 2 s
    RekeyResend,    \* 5 s
    MaxAttempts,    \* max_attempts and kRekeyMaxAttempts, 6 both
    KeyLife,        \* 110 s
    Keepalive,      \* 25 s
    StallSeconds,   \* kStallSeconds, 40 s
    Latency,        \* the longest way of a datagram, in one direction
    MaxLost,        \* bound on lost datagrams
    MaxErrors,      \* bound on errors of recvfrom
    AppSendsData    \* the app sends packets, at most one in a second

ASSUME IdsAssumption == Ids \subseteq Nat \ {0} /\ Ids # {}
ASSUME TimesAssumption ==
    /\ {HandshakeWait, RecvTimeout, RekeyResend, KeyLife, Keepalive, StallSeconds,
        MaxAttempts} \subseteq Nat \ {0}
    /\ Latency \in Nat /\ MaxLost \in Nat /\ MaxErrors \in Nat
    /\ AppSendsData \in BOOLEAN
(* A keepalive is there before the key it is sent with is renewed.  How    *)
(* long a round trip takes, against the times the code waits for one, is   *)
(* left open.                                                              *)
ASSUME LatencyAssumption == Keepalive + Latency < KeyLife

NoKey == 0

VARIABLES
    stage,          \* "attempt", "wait": the first handshake; "select",
                    \* "stall", "rekey", "tun", "udp": the loop; "exited"
    reason,         \* what nw_note_exit_reason was told
    hs,             \* the initiation nw_handshake holds the state of
    key,            \* nw_transport
    attempts, sinceSent,  \* initiations sent and the time since the last
    late,           \* history: those of them that were given up while they, or
                    \* the answer to them, were still under way
    inProgress,     \* rekey_in_progress
    sinceKey, sinceKa, sinceProgress,
    tunIn,          \* c_tun_in > tun_in_at_progress
    udpIn,          \* c_udp_in > udp_in_at_progress
    ticked,         \* a second has passed since select was called
    tunQueue,       \* there is a packet to read from the device
    appSent,        \* the app has sent a packet in this second
    inbox,          \* datagrams to read from the socket
    net,            \* datagrams under way, with the time they have been
    peer,           \* the keys the peer receives with, and whether it answers
    lost,           \* history: datagrams the network lost
    errors,         \* history: errors of recvfrom
    unanswered      \* history: time since the app's first packet after which
                    \* nothing has arrived

loop == <<inProgress, sinceKey, sinceKa, sinceProgress, tunIn, udpIn>>
env == <<ticked, tunQueue, appSent, inbox, peer, lost, errors, unanswered>>
sessionVars == <<stage, reason, hs, key, attempts, late, sinceSent, loop, net, env>>

Looping == stage \in {"select", "stall", "rekey", "tun", "udp"}
Longest == HandshakeWait + RecvTimeout + RekeyResend
Reasons == {"none", "handshakeFailed", "stalled", "rekeyFailed", "clean"}
Datagrams == [type : {"init", "response", "keepalive", "data", "reply"}, id : Ids,
              age : 0..Latency]
ToPeer == {"init", "keepalive", "data"}

SessionTypeOK ==
    /\ stage \in {"attempt", "wait", "select", "stall", "rekey", "tun", "udp", "exited"}
    /\ reason \in Reasons
    /\ hs \in Ids \cup {NoKey} /\ key \in Ids \cup {NoKey}
    /\ attempts \in 0..MaxAttempts /\ late \in Nat /\ sinceSent \in 0..Longest
    /\ inProgress \in BOOLEAN /\ tunIn \in BOOLEAN /\ udpIn \in BOOLEAN
    /\ sinceKey \in 0..KeyLife /\ sinceKa \in 0..Keepalive
    /\ sinceProgress \in 0..StallSeconds /\ unanswered \in 0..StallSeconds
    /\ ticked \in BOOLEAN /\ tunQueue \in BOOLEAN /\ appSent \in BOOLEAN
    /\ inbox \subseteq [type : {"response", "reply"}, id : Ids]
    /\ net \subseteq Datagrams
    /\ peer \in [next : Ids \cup {NoKey}, cur : Ids \cup {NoKey}, alive : BOOLEAN]
    /\ lost \in 0..MaxLost /\ errors \in 0..MaxErrors

SessionInit ==
    /\ stage = "attempt" /\ reason = "none" /\ hs = NoKey /\ key = NoKey
    /\ attempts = 0 /\ late = 0 /\ sinceSent = 0 /\ inProgress = FALSE
    /\ sinceKey = 0 /\ sinceKa = 0 /\ sinceProgress = 0
    /\ tunIn = FALSE /\ udpIn = FALSE /\ ticked = FALSE /\ tunQueue = FALSE
    /\ appSent = FALSE
    /\ inbox = {} /\ net = {} /\ lost = 0 /\ errors = 0 /\ unanswered = 0
    /\ peer = [next |-> NoKey, cur |-> NoKey, alive |-> TRUE]

Send(type, id) == net' = net \cup {[type |-> type, id |-> id, age |-> 0]}

Exit(why) ==
    /\ stage' = "exited" /\ reason' = why
    /\ UNCHANGED <<hs, key, attempts, late, sinceSent, loop, net, env>>

-----------------------------------------------------------------------------
(* The handshake.                                                          *)

(* What is under way of the last handshake can still make it succeed.      *)
Pending ==
    \/ \E m \in net : m.type \in {"init", "response"} /\ m.id = hs
    \/ \E m \in inbox : m.type = "response" /\ m.id = hs

GiveUpLast == late' = IF Pending THEN late + 1 ELSE late

InUse == {hs, key, peer.next, peer.cur} \cup {m.id : m \in net \cup inbox}

(* nw_wg_create_initiation draws a new ephemeral key and overwrites the    *)
(* state of the initiation before it.                                      *)
CreateInitiation ==
    LET id == CHOOSE i \in Ids \ InUse : \A j \in Ids \ InUse : i <= j
    IN  Ids \ InUse # {} /\ hs' = id /\ Send("init", id)

Attempt ==
    /\ stage = "attempt" /\ attempts < MaxAttempts
    /\ CreateInitiation
    /\ stage' = "wait" /\ attempts' = attempts + 1 /\ sinceSent' = 0
    /\ UNCHANGED <<reason, key, late, loop, env>>

AttemptsOver ==
    /\ stage = "attempt" /\ attempts = MaxAttempts
    /\ Exit("handshakeFailed")

(* time(NULL) is compared with the deadline after each recvfrom.           *)
Deadline ==
    /\ stage = "wait" /\ sinceSent >= HandshakeWait /\ inbox = {}
    /\ stage' = "attempt" /\ GiveUpLast
    /\ UNCHANGED <<reason, hs, key, attempts, sinceSent, loop, net, env>>

(* Any other error of recvfrom ends the attempt at once.                   *)
ReceiveError ==
    /\ stage = "wait" /\ errors < MaxErrors
    /\ stage' = "attempt" /\ errors' = errors + 1
    /\ UNCHANGED <<reason, hs, key, attempts, late, sinceSent, loop, net, ticked, tunQueue,
                   appSent, inbox, peer, lost, unanswered>>

Consumes(box) == [type |-> "response", id |-> hs] \in box

WaitReceives ==
    /\ stage = "wait" /\ inbox # {} /\ inbox' = {}
    /\ IF Consumes(inbox)
       THEN /\ key' = hs /\ stage' = "select" /\ attempts' = 0 /\ late' = 0 /\ sinceKey' = 0
            /\ sinceKa' = 0 /\ sinceProgress' = 0 /\ ticked' = FALSE
       ELSE UNCHANGED <<stage, key, attempts, late, sinceKey, sinceKa, sinceProgress,
                        ticked>>
    /\ UNCHANGED <<reason, hs, sinceSent, inProgress, tunIn, udpIn, net, tunQueue, appSent,
                   peer, lost, errors, unanswered>>

-----------------------------------------------------------------------------
(* One pass of run_tunnel_loop.                                            *)

\* Mutant of Wake: without the keepalive.
WakeIfReady ==
    /\ stage = "select" /\ (tunQueue \/ inbox # {} \/ ticked) /\ stage' = "stall"
    /\ UNCHANGED <<reason, hs, key, attempts, late, sinceSent, loop, net, env>>

(* select returns; the keepalive.                                          *)
Wake ==
    /\ stage = "select" /\ (tunQueue \/ inbox # {} \/ ticked) /\ stage' = "stall"
    /\ IF sinceKa >= Keepalive THEN Send("keepalive", key) /\ sinceKa' = 0
       ELSE UNCHANGED <<net, sinceKa>>
    /\ UNCHANGED <<reason, hs, key, attempts, late, sinceSent, inProgress, sinceKey,
                   sinceProgress, tunIn, udpIn, env>>

StallCheck ==
    /\ stage = "stall"
    /\ \/ /\ udpIn
          /\ udpIn' = FALSE /\ tunIn' = FALSE /\ sinceProgress' = 0 /\ stage' = "rekey"
          /\ unanswered' = 0
          /\ UNCHANGED <<reason, hs, key, attempts, late, sinceSent, inProgress, sinceKey,
                         sinceKa, net, ticked, tunQueue, appSent, inbox, peer, lost,
                         errors>>
       \/ ~udpIn /\ tunIn /\ sinceProgress >= StallSeconds /\ Exit("stalled")
       \/ /\ ~udpIn /\ ~(tunIn /\ sinceProgress >= StallSeconds) /\ stage' = "rekey"
          /\ UNCHANGED <<reason, hs, key, attempts, late, sinceSent, loop, net, env>>

\* Mutant of RekeyCheck: the key is never renewed.
RekeyNever ==
    /\ stage = "rekey" /\ stage' = "tun"
    /\ UNCHANGED <<reason, hs, key, attempts, late, sinceSent, loop, net, env>>

\* Mutant of RekeyGivesUp: one attempt too few.
GivesUpEarly == attempts >= MaxAttempts - 1
RekeyGivesUp == inProgress /\ attempts >= MaxAttempts

RekeyCheck ==
    /\ stage = "rekey"
    /\ \/ sinceKey >= KeyLife /\ RekeyGivesUp /\ Exit("rekeyFailed")
       \/ /\ sinceKey >= KeyLife /\ ~RekeyGivesUp
          /\ ~inProgress \/ sinceSent >= RekeyResend
          /\ CreateInitiation
          /\ stage' = "tun" /\ sinceSent' = 0 /\ inProgress' = TRUE
          /\ attempts' = attempts + 1 /\ GiveUpLast
          /\ UNCHANGED <<reason, key, sinceKey, sinceKa, sinceProgress, tunIn, udpIn, env>>
       \/ /\ \/ sinceKey < KeyLife
             \/ ~RekeyGivesUp /\ inProgress /\ sinceSent < RekeyResend
          /\ stage' = "tun"
          /\ UNCHANGED <<reason, hs, key, attempts, late, sinceSent, loop, net, env>>

ReadTun ==
    /\ stage = "tun" /\ stage' = "udp" /\ tunQueue' = FALSE
    /\ IF tunQueue THEN Send("data", key) /\ tunIn' = TRUE ELSE UNCHANGED <<net, tunIn>>
    /\ UNCHANGED <<reason, hs, key, attempts, late, sinceSent, inProgress, sinceKey, sinceKa,
                   sinceProgress, udpIn, ticked, appSent, inbox, peer, lost, errors,
                   unanswered>>

(* Any datagram counts as progress; a response to the last initiation      *)
(* replaces the transport, and what the peer still sends with the key      *)
(* before it can no longer be read.                                        *)
ReadUdp ==
    /\ stage = "udp" /\ stage' = "select" /\ ticked' = FALSE
    /\ inbox' = {} /\ udpIn' = (udpIn \/ inbox # {})
    /\ IF Consumes(inbox)
       THEN key' = hs /\ sinceKey' = 0 /\ inProgress' = FALSE /\ attempts' = 0 /\ late' = 0
       ELSE UNCHANGED <<key, sinceKey, inProgress, attempts, late>>
    /\ UNCHANGED <<reason, hs, sinceSent, sinceKa, sinceProgress, tunIn, net, tunQueue, appSent,
                   peer, lost, errors, unanswered>>

(* An error of recvfrom ends the drain; the next pass goes on with it.     *)
ReadUdpError ==
    /\ stage = "udp" /\ inbox # {} /\ errors < MaxErrors
    /\ stage' = "select" /\ ticked' = FALSE /\ errors' = errors + 1
    /\ UNCHANGED <<reason, hs, key, attempts, late, sinceSent, loop, net, tunQueue, appSent,
                   inbox, peer, lost, unanswered>>

(* SIGINT: clean_exit_requested.                                           *)
CleanExit == stage = "select" /\ Exit("clean")

-----------------------------------------------------------------------------
(* The app, time, the network and the peer.                                *)

AppSends ==
    /\ AppSendsData /\ stage = "select" /\ ~appSent
    /\ tunQueue' = TRUE /\ appSent' = TRUE
    /\ UNCHANGED <<stage, reason, hs, key, attempts, late, sinceSent, loop, net, ticked, inbox,
                   peer, lost, errors, unanswered>>

Idle == stage \in {"wait", "select"}

Later(t, limit) == IF t < limit THEN t + 1 ELSE t

(* The process runs before the next second, and no datagram takes longer   *)
(* than Latency.                                                           *)
Tick ==
    /\ \/ stage = "wait" /\ inbox = {} /\ sinceSent < HandshakeWait + RecvTimeout
       \/ stage = "select" /\ ~ticked /\ ~tunQueue /\ inbox = {}
    /\ \A m \in net : m.age < Latency
    /\ net' = {[m EXCEPT !.age = @ + 1] : m \in net}
    /\ ticked' = TRUE /\ appSent' = FALSE
    /\ sinceSent' = Later(sinceSent, Longest)
    /\ sinceKey' = Later(sinceKey, KeyLife)
    /\ sinceKa' = Later(sinceKa, Keepalive)
    /\ sinceProgress' = Later(sinceProgress, StallSeconds)
    /\ unanswered' = IF tunIn /\ ~udpIn THEN Later(unanswered, StallSeconds) ELSE 0
    /\ UNCHANGED <<stage, reason, hs, key, attempts, late, inProgress, tunIn, udpIn, tunQueue,
                   inbox, peer, lost, errors>>

Arrive(m) ==
    /\ Idle /\ m.type \in {"response", "reply"}
    /\ net' = net \ {m}
    /\ inbox' = inbox \cup {[type |-> m.type, id |-> m.id]}
    /\ UNCHANGED <<stage, reason, hs, key, attempts, late, sinceSent, loop, ticked, tunQueue,
                   appSent, peer, lost, errors, unanswered>>

(* The timestamps tell the peer which of two initiations is the newer one; *)
(* of two of the same second that are not the last either may come first.  *)
Newer(n, m) == n # m /\ m.id # hs /\ (n.id = hs \/ n.age <= m.age)

PeerTakes(m) ==
    /\ Idle /\ m.type \in ToPeer
    /\ IF ~peer.alive \/ (m.type # "init" /\ m.id \notin {peer.next, peer.cur})
       THEN net' = net \ {m} /\ UNCHANGED peer
       ELSE IF m.type = "init"
       THEN /\ peer' = [peer EXCEPT !.next = m.id]
            /\ net' = {n \in net : n.type = "init" => Newer(n, m)}
                      \cup {[type |-> "response", id |-> m.id, age |-> 0]}
       ELSE /\ peer' = [peer EXCEPT !.cur = m.id,
                                    !.next = IF m.id = @ THEN NoKey ELSE @]
            /\ net' = (net \ {m}) \cup
                      (IF m.type = "data"
                       THEN {[type |-> "reply", id |-> m.id, age |-> 0]} ELSE {})
    /\ UNCHANGED <<stage, reason, hs, key, attempts, late, sinceSent, loop, ticked, tunQueue,
                   appSent, inbox, lost, errors, unanswered>>

Lose(m) ==
    /\ Idle /\ lost < MaxLost /\ lost' = lost + 1 /\ net' = net \ {m}
    /\ UNCHANGED <<stage, reason, hs, key, attempts, late, sinceSent, loop, ticked, tunQueue,
                   appSent, inbox, peer, errors, unanswered>>

PeerDies ==
    /\ Idle /\ peer.alive /\ peer' = [peer EXCEPT !.alive = FALSE]
    /\ UNCHANGED <<stage, reason, hs, key, attempts, late, sinceSent, loop, net, ticked,
                   tunQueue, appSent, inbox, lost, errors, unanswered>>

Exited == stage = "exited" /\ UNCHANGED sessionVars

Handshake == Attempt \/ AttemptsOver \/ Deadline \/ WaitReceives
Pass == Wake \/ StallCheck \/ RekeyCheck \/ ReadTun \/ ReadUdp
Deliver == \E m \in net : Arrive(m) \/ PeerTakes(m)

SessionNext ==
    \/ Handshake \/ Pass \/ ReceiveError \/ ReadUdpError \/ CleanExit \/ Exited
    \/ AppSends \/ Tick \/ Deliver \/ PeerDies
    \/ \E m \in net : Lose(m)

SessionSpec == SessionInit /\ [][SessionNext]_sessionVars

(* The process runs, time passes and datagrams that are not lost arrive.   *)
FairSpec ==
    /\ SessionSpec
    /\ WF_sessionVars(Handshake) /\ WF_sessionVars(Pass)
    /\ WF_sessionVars(Tick) /\ WF_sessionVars(Deliver)

-----------------------------------------------------------------------------
(* Properties.                                                             *)

(* As long as nothing was lost, the key the loop sends with is one the     *)
(* peer receives with: the keepalive confirms a key before the next        *)
(* initiation replaces it at the peer.                                     *)
KeyIsKnown == Looping /\ lost = 0 /\ peer.alive => key \in {peer.next, peer.cur}

RoundTrip == Latency + Latency

(* A live peer is given up in the first handshake only when a loss, an     *)
(* error of recvfrom or a late answer spoilt every initiation, and in a    *)
(* renewal only when a loss or a late answer spoilt each but the last,     *)
(* which is not waited for: no answer that is there is passed over, and    *)
(* none is taken for that of another initiation.  No answer is late if a   *)
(* round trip is shorter than what the code waits for one: 8 s in the      *)
(* first handshake, 5 s in a renewal.                                      *)
GivesUpAfterLosses ==
    /\ peer.alive /\ reason = "handshakeFailed" => lost + errors + late >= MaxAttempts
    /\ peer.alive /\ reason = "rekeyFailed" => lost + late >= MaxAttempts - 1
    /\ reason = "handshakeFailed" /\ RoundTrip < HandshakeWait => late = 0
    /\ reason = "rekeyFailed" /\ RoundTrip < RekeyResend => late = 0

(* "outbound growing while nothing comes back is what a dead ingress looks *)
(* like": a session that is given up as stalled had a packet out for       *)
(* StallSeconds without an answer.                                         *)
StalledWasUnanswered == reason = "stalled" => unanswered >= StallSeconds

(* A peer that no longer answers is noticed, with or without traffic.      *)
DeadPeerNoticed == ~peer.alive ~> stage = "exited"

=============================================================================
