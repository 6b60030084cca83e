------------------------------ MODULE NwScope ------------------------------
(***************************************************************************)
(* nw_scope.c: what the tunnel helper writes to configd's dynamic store to *)
(* make its device the primary service and its name servers the system's,  *)
(* and how it takes this back.  The operations run in the order of         *)
(* cmd_warp_tunnel without split=1: nw_scope_set_dns, nw_scope_set_primary *)
(* in setup_routing, the loop, and in cleanup() nw_scope_restore_dns and   *)
(* nw_scope_restore.  The process may die at any step and start again.     *)
(* There is a variable for each key they write.  configd may refuse any    *)
(* write or removal, and all of an operation's if the store cannot be      *)
(* opened; ok is the set of those it accepts.                              *)
(*                                                                         *)
(* configd elects the primary service in its own time (Elect); services    *)
(* come, go and renew their name servers meanwhile.  A service's name      *)
(* stands for its name servers.                                            *)
(***************************************************************************)
EXTENDS Naturals, Sequences, SequencesExt, KeepSeq

CONSTANTS Services,     \* Wi-Fi and the like
          Ours,         \* NW_SERVICE_ID
          Legacy,       \* NW_LEGACY_ID, the id of an earlier build
          SystemOrder,  \* ServiceOrder as the user set it
          MaxRefusals   \* bound on operations that configd refuses a part of

ASSUME ServicesAssumption == Ours \notin Services /\ Legacy \notin Services
                             /\ Ours # Legacy
ASSUME OrderAssumption == SystemOrder \in Seq(Services) /\ Len(SystemOrder) > 0

ASSUME RefusalsAssumption == MaxRefusals \in Nat
ASSUME NamesAssumption == (Services \cup {Ours}) \cap {"none", "warp", "empty"} = {}

None == "none"
Warp == "warp"      \* the tunnel's name servers
Empty == "empty"    \* the empty dictionary: there was no entry

VARIABLES
    pc,         \* where the process is: "off", "dns", "primary", "loop",
                \* "cleanDns", "cleanScope"
    scopePrimarySet, \* scope_primary_set
    state,      \* State:/Network/Service/<Ours>/IPv4 is there
    setup,      \* Setup:/Network/Service/<Ours>/IPv4 is there
    interface,  \* State:/Network/Interface/<device>/IPv4 is there
    legacy,     \* State:/Network/Service/<Legacy>/IPv4 is there
    order,      \* ServiceOrder in Setup:/Network/Global/IPv4
    primary,    \* PrimaryService in State:/Network/Global/IPv4
    dns,        \* State:/Network/Service/<id>/DNS
    globalDns,  \* State:/Network/Global/DNS
    backup,     \* DNS_Backup
    backupGlobal, \* DNS_Backup_Global
    up,         \* services with an address
    ended,      \* history: how the last process ended
    refusals,   \* operations that configd refused a part of
    setFor,     \* history: the primary service when set_dns ran
    tainted     \* history: set_dns ran over the tunnel's own name servers,
                \* restore_dns ran under another primary service than set_dns,
                \* or configd refused some of what they wrote

published == <<state, setup, interface, legacy, order>>
names == <<dns, globalDns, backup, backupGlobal>>
history == <<ended, refusals, setFor, tainted>>
vars == <<pc, scopePrimarySet, published, primary, names, up, history>>

Strip(seq) == KeepIn(seq, ToSet(seq) \ {Ours, Legacy})   \* array_remove_all of both ids

TypeOK ==
    /\ pc \in {"off", "dns", "primary", "loop", "cleanDns", "cleanScope"}
    /\ scopePrimarySet \in BOOLEAN /\ state \in BOOLEAN /\ setup \in BOOLEAN
    /\ interface \in BOOLEAN /\ legacy \in BOOLEAN
    /\ order \in Seq(Services \cup {Ours, Legacy})
    /\ primary \in Services \cup {Ours, None}
    /\ dns \in [Services \cup {Ours} -> Services \cup {Warp, None}]
    /\ globalDns \in Services \cup {Warp, None}
    /\ backup \in Services \cup {Warp, Empty, None}
    /\ backupGlobal \in Services \cup {Warp, None}
    /\ up \subseteq Services
    /\ ended \in {"never", "clean", "fatal", "killed"}
    /\ refusals \in 0..MaxRefusals /\ tainted \in BOOLEAN
    /\ setFor \in Services \cup {Ours, None}

Elected ==
    LET candidates == KeepIn(SystemOrder, up)
    IN  IF state THEN Ours
        ELSE IF candidates = <<>> THEN None ELSE Head(candidates)

(* After boot; an earlier build's entry, and its id in the order, may be   *)
(* there.                                                                  *)
Init ==
    /\ pc = "off" /\ scopePrimarySet = FALSE
    /\ state = FALSE /\ setup = FALSE /\ interface = FALSE /\ legacy \in BOOLEAN
    /\ order \in {SystemOrder, <<Legacy>> \o SystemOrder}
    /\ primary = Head(SystemOrder) /\ up = Services
    /\ dns = [id \in Services \cup {Ours} |-> IF id = Ours THEN None ELSE id]
    /\ globalDns = Head(SystemOrder) /\ backup = None /\ backupGlobal = None
    /\ ended = "never" /\ refusals = 0 /\ setFor = None /\ tainted = FALSE

-----------------------------------------------------------------------------
(* The process.                                                            *)

Start ==
    /\ pc = "off" /\ pc' = "dns"
    /\ UNCHANGED <<scopePrimarySet, published, primary, names, up, history>>

Refusing(ok, all) ==
    IF ok = all THEN UNCHANGED refusals
    ELSE refusals < MaxRefusals /\ refusals' = refusals + 1

NameKeys == {"service", "global", "backup", "backupGlobal"}

nw_scope_set_dns(ok) ==
    /\ backup' = IF primary = None \/ "backup" \notin ok THEN backup
                 ELSE IF dns[primary] = None THEN Empty ELSE dns[primary]
    /\ backupGlobal' = IF globalDns = None \/ "backupGlobal" \notin ok THEN backupGlobal
                       ELSE globalDns
    /\ dns' = IF primary = None \/ "service" \notin ok THEN dns ELSE [dns EXCEPT ![primary] = Warp]
    /\ globalDns' = IF "global" \in ok THEN Warp ELSE globalDns

SetDns ==
    /\ pc = "dns" /\ pc' = "primary"
    /\ \E ok \in SUBSET NameKeys :
          /\ nw_scope_set_dns(ok) /\ Refusing(ok, NameKeys)
          /\ tainted' = (tainted \/ ok # NameKeys \/ globalDns = Warp \/ \E id \in DOMAIN dns : dns[id] = Warp)
    /\ setFor' = primary
    /\ UNCHANGED <<scopePrimarySet, published, primary, up, ended>>

\* Mutant of nw_scope_set_primary: the old id is not taken out.
PrependAgain(ok) ==
    /\ legacy' = (legacy /\ "legacy" \notin ok)
    /\ state' = (state \/ "state" \in ok)
    /\ setup' = (setup \/ "setup" \in ok)
    /\ interface' = (interface \/ "interface" \in ok)
    /\ order' = IF "order" \in ok THEN <<Ours>> \o order ELSE order

(* The legacy entry is removed; four keys are written.                     *)
Writes == {"state", "setup", "interface", "order"}
nw_scope_set_primary(ok) ==
    /\ legacy' = (legacy /\ "legacy" \notin ok)
    /\ state' = (state \/ "state" \in ok)
    /\ setup' = (setup \/ "setup" \in ok)
    /\ interface' = (interface \/ "interface" \in ok)
    /\ order' = IF "order" \in ok THEN <<Ours>> \o Strip(order) ELSE order

SetPrimary ==
    /\ pc = "primary" /\ pc' = "loop"
    /\ \E ok \in SUBSET (Writes \cup {"legacy"}) :
          /\ nw_scope_set_primary(ok) /\ Refusing(ok, Writes \cup {"legacy"})
          /\ scopePrimarySet' = (Writes \subseteq ok)
    /\ UNCHANGED <<primary, names, up, ended, setFor, tainted>>

(* The kernel's scoped routing was patched instead.                        *)
SkipPrimary ==
    /\ pc = "primary" /\ pc' = "loop"
    /\ UNCHANGED <<scopePrimarySet, published, primary, names, up, history>>

(* setup_routing fails, or the loop ends.                                  *)
EndLoop ==
    /\ pc = "loop" /\ pc' = "cleanDns"
    /\ UNCHANGED <<scopePrimarySet, published, primary, names, up, history>>

\* Mutant of nw_scope_restore_dns: the service's entry is left.
RestoreGlobalOnly(ok) ==
    /\ globalDns' = IF "global" \in ok THEN backupGlobal ELSE globalDns
    /\ backup' = IF "backup" \in ok THEN None ELSE backup
    /\ backupGlobal' = IF "backupGlobal" \in ok THEN None ELSE backupGlobal
    /\ UNCHANGED dns

(* The service that is primary now gets the saved name servers.  Without a *)
(* saved value the global entry is removed.                                *)
nw_scope_restore_dns(ok) ==
    /\ dns' = IF primary = None \/ backup = None \/ "service" \notin ok THEN dns
              ELSE [dns EXCEPT ![primary] = IF backup = Empty THEN None ELSE backup]
    /\ globalDns' = IF "global" \in ok THEN backupGlobal ELSE globalDns
    /\ backup' = IF "backup" \in ok THEN None ELSE backup
    /\ backupGlobal' = IF "backupGlobal" \in ok THEN None ELSE backupGlobal

RestoreDns ==
    /\ pc = "cleanDns" /\ pc' = "cleanScope"
    /\ \E ok \in SUBSET NameKeys :
          /\ nw_scope_restore_dns(ok) /\ Refusing(ok, NameKeys)
          /\ tainted' = (tainted \/ ok # NameKeys \/ primary # setFor)
    /\ UNCHANGED <<scopePrimarySet, published, primary, up, ended, setFor>>

(* The interface entry stays.                                              *)
Removals == {"state", "setup", "legacy", "order"}
nw_scope_restore(ok) ==
    /\ state' = (state /\ "state" \notin ok)
    /\ setup' = (setup /\ "setup" \notin ok)
    /\ legacy' = (legacy /\ "legacy" \notin ok)
    /\ order' = IF "order" \in ok THEN Strip(order) ELSE order
    /\ UNCHANGED interface

RestoreScope ==
    /\ pc = "cleanScope" /\ pc' = "off" /\ ended' = "clean"
    /\ IF scopePrimarySet
       THEN \E ok \in SUBSET Removals : nw_scope_restore(ok) /\ Refusing(ok, Removals)
       ELSE UNCHANGED <<published, refusals>>
    /\ scopePrimarySet' = FALSE
    /\ UNCHANGED <<primary, names, up, setFor, tainted>>

(* handle_fatal, set for the loop, restores scoped routing only.           *)
HandleFatal ==
    /\ pc = "loop" /\ pc' = "off" /\ ended' = "fatal"
    /\ scopePrimarySet' = FALSE
    /\ UNCHANGED <<published, primary, names, up, refusals, setFor, tainted>>

Killed ==
    /\ pc # "off" /\ pc' = "off" /\ ended' = "killed"
    /\ scopePrimarySet' = FALSE
    /\ UNCHANGED <<published, primary, names, up, refusals, setFor, tainted>>

(* The command scope-unset, from a process of its own.                     *)
ScopeUnset ==
    /\ pc = "off"
    /\ \E ok \in SUBSET Removals : nw_scope_restore(ok) /\ Refusing(ok, Removals)
    /\ UNCHANGED <<pc, scopePrimarySet, primary, names, up, ended, setFor, tainted>>

-----------------------------------------------------------------------------
(* configd and the network.                                                *)

(* A newly elected service's name servers become the global ones.          *)
Elect ==
    /\ primary # Elected /\ primary' = Elected
    /\ globalDns' = IF primary' = None \/ dns[primary'] = None THEN globalDns
                    ELSE dns[primary']
    /\ UNCHANGED <<pc, scopePrimarySet, published, dns, backup, backupGlobal, up, history>>

(* A service goes down, or comes up again with fresh name servers.         *)
Change(s) ==
    /\ up' = IF s \in up THEN up \ {s} ELSE up \cup {s}
    /\ dns' = IF s \in up THEN dns ELSE [dns EXCEPT ![s] = s]
    /\ UNCHANGED <<pc, scopePrimarySet, published, primary, globalDns, backup,
                   backupGlobal, history>>

Process == Start \/ SetDns \/ SetPrimary \/ SkipPrimary \/ EndLoop
           \/ RestoreDns \/ RestoreScope
Next == Process \/ HandleFatal \/ Killed \/ ScopeUnset \/ Elect
        \/ \E s \in Services : Change(s)

Spec == Init /\ [][Next]_vars

-----------------------------------------------------------------------------
(* Properties.                                                             *)

(* However often the process ran and died, the user's services keep their  *)
(* order and the helper's id is in it at most once.                        *)
OrderKept ==
    /\ Strip(order) = SystemOrder
    /\ \A i, j \in DOMAIN order : order[i] = Ours /\ order[j] = Ours => i = j

(* A process that cleaned up leaves no service with the tunnel's name      *)
(* servers, if the primary service stayed the same, the tunnel's were not  *)
(* in place before and configd refused nothing.                            *)
NamesRestored ==
    pc = "off" /\ ended = "clean" /\ ~tainted =>
        globalDns # Warp /\ \A id \in DOMAIN dns : dns[id] # Warp
=============================================================================
