-------------------------- MODULE NekrowarpProofs --------------------------
(***************************************************************************)
(* Proofs about the two parts of the tunnel helper's process: NwScope, what*)
(* it writes to the dynamic store, and WarpSession, its WireGuard session. *)
(* They share no variable; the first half of the module is about the one,  *)
(* the second about the other.                                             *)
(*                                                                         *)
(* NwScope, for every set of services and every order of them: the order   *)
(* survives whatever configd refuses, and the name servers are restored.   *)
(*                                                                         *)
(* WarpSession, for all times and attempts, a keepalive being there before *)
(* its key is renewed (LatencyAssumption): the peer has the key the loop   *)
(* sends with unless a datagram was lost, and a live peer is given up only *)
(* after losses unless its answers take longer than the code waits.        *)
(***************************************************************************)
EXTENDS NwScope, WarpSession, KeepSeqTheorems

(***************************************************************************)
(* NwScope.                                                                *)
(***************************************************************************)

-----------------------------------------------------------------------------
(* The inductive invariant.                                                *)

\* The order is the user's, or that with one id of the helper before it.
OrderIsKnown == order \in {SystemOrder, <<Legacy>> \o SystemOrder, <<Ours>> \o SystemOrder}

\* No name servers but real ones are in place.
NamesClean == globalDns # Warp /\ \A id \in DOMAIN dns : dns[id] # Warp

\* From set_dns to restore_dns only the service that was primary has the
\* tunnel's name servers, and what it had before is saved.
NamesSaved ==
    /\ backup # Warp /\ backupGlobal # Warp
    /\ pc \in {"primary", "loop", "cleanDns"} =>
          /\ \A id \in DOMAIN dns : id # setFor => dns[id] # Warp
          /\ setFor # None => backup # None
    /\ pc = "cleanScope" => NamesClean

ScopeInv ==
    /\ TypeOK
    /\ OrderIsKnown
    /\ ~tainted => NamesSaved
    /\ NamesRestored

-----------------------------------------------------------------------------
(* The order.                                                              *)

\* The three orders are sequences of ids, and stripping each of them gives the
\* user's.
LEMMA OrdersStripped ==
    /\ \A o \in {SystemOrder, <<Legacy>> \o SystemOrder, <<Ours>> \o SystemOrder} :
          /\ o \in Seq(Services \cup {Ours, Legacy})
          /\ Strip(o) = SystemOrder
          /\ \A i, j \in DOMAIN o : o[i] = Ours /\ o[j] = Ours => i = j
<1> DEFINE AllIds == Services \cup {Ours, Legacy}
<1>1. SystemOrder \in Seq(Services) /\ SystemOrder \in Seq(AllIds) /\ Len(SystemOrder) \in Nat
  BY OrderAssumption, LenProperties
<1>2. \A i \in 1..Len(SystemOrder) : SystemOrder[i] \in Services
  BY <1>1, ElementOfSeq
<1>3. \A x \in Services : x # Ours /\ x # Legacy
  BY ServicesAssumption
<1>4. /\ SystemOrder \in Seq(AllIds) /\ Strip(SystemOrder) = SystemOrder
      /\ \A i \in DOMAIN SystemOrder : SystemOrder[i] # Ours
  <2>1. DOMAIN SystemOrder = 1..Len(SystemOrder)
    BY <1>1
  <2>2. \A i \in 1..Len(SystemOrder) : SystemOrder[i] \in ToSet(SystemOrder) \ {Ours, Legacy}
    BY <1>2, <1>3, <2>1 DEF ToSet
  <2>3. Strip(SystemOrder) = SubSeq(SystemOrder, 0 + 1, Len(SystemOrder))
    BY <1>1, <2>2, KeepInSuffix DEF Strip
  <2>4. SubSeq(SystemOrder, 1, Len(SystemOrder)) = SystemOrder
    BY <1>1
  <2> QED
    BY <1>1, <1>2, <1>3, <2>1, <2>3, <2>4
<1>5. ASSUME NEW x \in {Ours, Legacy}
      PROVE  LET o == <<x>> \o SystemOrder
             IN  /\ o \in Seq(AllIds)
                 /\ Strip(o) = SystemOrder
                 /\ \A i, j \in DOMAIN o : o[i] = Ours /\ o[j] = Ours => i = j
  <2> DEFINE o == <<x>> \o SystemOrder
  <2>1. <<x>> \in Seq(AllIds) /\ Len(<<x>>) = 1 /\ <<x>>[1] = x
    OBVIOUS
  <2>2. /\ o \in Seq(AllIds) /\ Len(o) = 1 + Len(SystemOrder)
        /\ o[1] = x /\ \A i \in 2..Len(o) : o[i] = SystemOrder[i - 1]
    BY <1>1, <2>1, ConcatProperties
  <2> HIDE DEF o
  <2>3. DOMAIN o = 1..Len(o)
    BY <2>2
  <2>4. \A i \in 2..Len(o) : o[i] \in Services /\ o[i] # Ours /\ o[i] # Legacy
    <3> SUFFICES ASSUME NEW i \in 2..Len(o)
                 PROVE  o[i] \in Services /\ o[i] # Ours /\ o[i] # Legacy
      OBVIOUS
    <3>1. i - 1 \in 1..Len(SystemOrder)
      BY <1>1, <2>2
    <3> QED
      BY <1>2, <1>3, <2>2, <3>1
  <2>5. Strip(o) = SystemOrder
    <3>1. \A i \in 1..1 : o[i] \notin ToSet(o) \ {Ours, Legacy}
      BY <2>2
    <3>2. \A i \in (1 + 1)..Len(o) : o[i] \in ToSet(o) \ {Ours, Legacy}
      BY <1>1, <2>2, <2>3, <2>4 DEF ToSet
    <3>3. 1 \in 0..Len(o)
      BY <1>1, <2>2
    <3>4. Strip(o) = SubSeq(o, 1 + 1, Len(o))
      BY <2>2, <3>1, <3>2, <3>3, KeepInSuffix DEF Strip
    <3>5. /\ SubSeq(o, 2, Len(o)) \in Seq(AllIds)
          /\ Len(SubSeq(o, 2, Len(o))) = IF 2 <= Len(o) THEN Len(o) - 2 + 1 ELSE 0
          /\ \A i \in 1..(Len(o) - 2 + 1) : SubSeq(o, 2, Len(o))[i] = o[2 + i - 1]
      <4>1. \A i \in 2..Len(o) : o[i] \in AllIds
        BY <2>4
      <4>2. 2 \in Int /\ Len(o) \in Int
        BY <1>1, <2>2
      <4> QED
        BY <4>1, <4>2, SubSeqProperties
    <3> DEFINE t == SubSeq(o, 2, Len(o))
    <3>6. t \in Seq(AllIds) /\ Len(t) = Len(SystemOrder)
      BY <1>1, <2>2, <3>5
    <3>7. ASSUME NEW i \in 1..Len(SystemOrder) PROVE t[i] = SystemOrder[i]
      <4>1. i \in 1..(Len(o) - 2 + 1) /\ 2 + i - 1 \in 2..Len(o) /\ (2 + i - 1) - 1 = i
        BY <1>1, <2>2
      <4>2. t[i] = o[2 + i - 1]
        BY <3>5, <4>1
      <4>3. o[2 + i - 1] = SystemOrder[(2 + i - 1) - 1]
        BY <2>2, <4>1
      <4> QED
        BY <4>1, <4>2, <4>3
    <3> HIDE DEF t
    <3>8. t = SystemOrder
      BY <1>1, <3>6, <3>7, SeqEqual
    <3> QED
      BY <3>4, <3>8 DEF t
  <2>6. \A i, j \in DOMAIN o : o[i] = Ours /\ o[j] = Ours => i = j
    BY <1>1, <2>2, <2>3, <2>4
  <2> QED
    BY <2>2, <2>5, <2>6 DEF o
<1> QED
  BY <1>4, <1>5

\* configd elects the helper's service only while it is published.
LEMMA ElectedIsService ==
    /\ Elected \in Services \cup {Ours, None}
    /\ ~state => Elected # Ours
<1> DEFINE candidates == KeepIn(SystemOrder, up)
<1>1. candidates \in Seq(Services)
  BY OrderAssumption, KeepInElements
<1>2. candidates # <<>> => Head(candidates) \in Services
  BY <1>1, HeadTailProperties
<1> HIDE DEF candidates
<1>3. Elected = IF state THEN Ours
                ELSE IF candidates = <<>> THEN None ELSE Head(candidates)
  BY DEF Elected, candidates
<1>4. Ours \notin Services /\ Ours # None
  BY ServicesAssumption, NamesAssumption DEF None
<1> QED
  BY <1>2, <1>3, <1>4

\* After boot.
LEMMA ScopeStarts == Init => ScopeInv
<1> SUFFICES ASSUME Init PROVE ScopeInv
  OBVIOUS
<1>1. Head(SystemOrder) \in Services
  BY OrderAssumption, HeadTailProperties
<1>2. OrderIsKnown
  BY DEF Init, OrderIsKnown
<1>3. order \in Seq(Services \cup {Ours, Legacy})
  BY <1>2, OrdersStripped DEF OrderIsKnown
<1>4. TypeOK
  <2>1. refusals \in 0..MaxRefusals
    BY RefusalsAssumption DEF Init
  <2>2. dns \in [Services \cup {Ours} -> Services \cup {Warp, None}]
    BY DEF Init
  <2> QED
    BY <1>1, <1>3, <2>1, <2>2 DEF Init, TypeOK
<1>5. NamesRestored
  BY DEF Init, NamesRestored
<1>6. NamesSaved
  BY DEF Init, NamesSaved, None, Warp
<1> QED
  BY <1>2, <1>4, <1>5, <1>6 DEF ScopeInv

-----------------------------------------------------------------------------
(* The steps.                                                              *)

\* A step of the process that changes nothing but where it is.
LEMMA PlainStep ==
    ASSUME ScopeInv, Start \/ SkipPrimary \/ EndLoop
    PROVE  ScopeInv'
<1>1. /\ UNCHANGED <<scopePrimarySet, published, primary, names, up, history>>
      /\ pc' \in {"dns", "loop", "cleanDns"}
      /\ pc' \in {"loop", "cleanDns"} => pc \in {"primary", "loop"}
  BY DEF Start, SkipPrimary, EndLoop
<1>2. TypeOK'
  BY <1>1 DEF ScopeInv, TypeOK, published, names, history
<1>3. OrderIsKnown'
  BY <1>1 DEF ScopeInv, OrderIsKnown, published
<1>4. NamesRestored'
  BY <1>1 DEF NamesRestored
<1>5. (~tainted => NamesSaved)'
  BY <1>1 DEF ScopeInv, NamesSaved, names, history
<1> QED
  BY <1>2, <1>3, <1>4, <1>5 DEF ScopeInv

\* What configd refuses stays within the bound.
LEMMA RefusalsAreBounded ==
    ASSUME ScopeInv, NEW ok, NEW all, Refusing(ok, all)
    PROVE  refusals' \in 0..MaxRefusals
BY RefusalsAssumption DEF ScopeInv, TypeOK, Refusing

\* set_dns saves what is there and puts the tunnel's name servers in place.
LEMMA SetDnsStep ==
    ASSUME ScopeInv, SetDns
    PROVE  ScopeInv'
<1>1. /\ pc' = "primary" /\ setFor' = primary
      /\ UNCHANGED <<scopePrimarySet, published, primary, up, ended>>
  BY DEF SetDns
<1>ok. PICK ok \in SUBSET NameKeys :
          /\ nw_scope_set_dns(ok) /\ Refusing(ok, NameKeys)
          /\ tainted' = (tainted \/ ok # NameKeys \/ globalDns = Warp \/ \E id \in DOMAIN dns : dns[id] = Warp)
  BY DEF SetDns
<1>2. TypeOK'
  <2>1. dns' \in [Services \cup {Ours} -> Services \cup {Warp, None}]
    BY <1>ok DEF nw_scope_set_dns, ScopeInv, TypeOK
  <2>2. backup' \in Services \cup {Warp, Empty, None}
    BY <1>ok DEF nw_scope_set_dns, ScopeInv, TypeOK
  <2>3. globalDns' \in Services \cup {Warp, None}
        /\ backupGlobal' \in Services \cup {Warp, None}
    BY <1>ok DEF nw_scope_set_dns, ScopeInv, TypeOK
  <2>4. tainted' \in BOOLEAN /\ refusals' \in 0..MaxRefusals
    BY <1>ok, RefusalsAreBounded
  <2> QED
    BY <1>1, <2>1, <2>2, <2>3, <2>4 DEF ScopeInv, TypeOK, published
<1>3. OrderIsKnown'
  BY <1>1 DEF ScopeInv, OrderIsKnown, published
<1>4. NamesRestored'
  BY <1>1 DEF NamesRestored
<1>5. (~tainted => NamesSaved)'
  <2> SUFFICES ASSUME ~tainted' PROVE NamesSaved'
    OBVIOUS
  <2>1. ~tainted /\ globalDns # Warp /\ (\A id \in DOMAIN dns : dns[id] # Warp) /\ ok = NameKeys
    BY <1>ok, Zenon
  <2>keys. {"service", "global", "backup", "backupGlobal"} \subseteq ok
    BY <2>1 DEF NameKeys
  <2>2. backup # Warp /\ backupGlobal # Warp
    BY <2>1 DEF ScopeInv, NamesSaved
  <2>3. Empty # Warp /\ Empty # None
    BY DEF Empty, Warp, None
  <2>4. CASE primary = None
    BY <1>1, <1>ok, <2>keys, <2>1, <2>2, <2>4 DEF nw_scope_set_dns, NamesSaved
  <2>5. CASE primary # None
    <3>1. primary \in DOMAIN dns /\ DOMAIN dns' = DOMAIN dns
      BY <1>ok, <2>5 DEF nw_scope_set_dns, ScopeInv, TypeOK
    <3>2. backup' # Warp /\ backup' # None /\ backupGlobal' # Warp
      BY <1>ok, <2>keys, <2>1, <2>2, <2>3, <2>5, <3>1 DEF nw_scope_set_dns
    <3>3. \A id \in DOMAIN dns : id # primary => dns'[id] = dns[id]
      BY <1>ok, <2>5 DEF nw_scope_set_dns, ScopeInv, TypeOK
    <3> QED
      BY <1>1, <2>1, <3>1, <3>2, <3>3 DEF NamesSaved
  <2> QED
    BY <2>4, <2>5
<1> QED
  BY <1>2, <1>3, <1>4, <1>5 DEF ScopeInv

\* set_primary puts the helper's id before the user's order, once.
LEMMA SetPrimaryStep ==
    ASSUME ScopeInv, SetPrimary
    PROVE  ScopeInv'
<1>1. /\ pc = "primary" /\ pc' = "loop"
      /\ UNCHANGED <<primary, names, up, ended, setFor, tainted>>
  BY DEF SetPrimary
<1>2. PICK ok \in SUBSET (Writes \cup {"legacy"}) :
          /\ nw_scope_set_primary(ok) /\ Refusing(ok, Writes \cup {"legacy"})
          /\ scopePrimarySet' = (Writes \subseteq ok)
  BY DEF SetPrimary
<1>3. OrderIsKnown'
  <2>1. Strip(order) = SystemOrder
    BY OrdersStripped DEF ScopeInv, OrderIsKnown
  <2> QED
    BY <1>2, <2>1 DEF nw_scope_set_primary, ScopeInv, OrderIsKnown
<1>4. TypeOK'
  <2>1. order' \in Seq(Services \cup {Ours, Legacy})
    BY <1>3, OrdersStripped DEF OrderIsKnown
  <2>2. /\ state' \in BOOLEAN /\ setup' \in BOOLEAN /\ scopePrimarySet' \in BOOLEAN
        /\ interface' \in BOOLEAN /\ legacy' \in BOOLEAN
    BY <1>2 DEF nw_scope_set_primary
  <2>3. refusals' \in 0..MaxRefusals
    BY <1>2, RefusalsAreBounded
  <2> QED
    BY <1>1, <2>1, <2>2, <2>3 DEF ScopeInv, TypeOK, names
<1>5. NamesRestored'
  BY <1>1 DEF NamesRestored
<1>6. (~tainted => NamesSaved)'
  BY <1>1 DEF ScopeInv, NamesSaved, names
<1> QED
  BY <1>3, <1>4, <1>5, <1>6 DEF ScopeInv

\* restore_dns puts back what was saved, if the primary service is the same.
LEMMA RestoreDnsStep ==
    ASSUME ScopeInv, RestoreDns
    PROVE  ScopeInv'
<1>1. /\ pc = "cleanDns" /\ pc' = "cleanScope"
      /\ UNCHANGED <<scopePrimarySet, published, primary, up, ended, setFor>>
  BY DEF RestoreDns
<1>ok. PICK ok \in SUBSET NameKeys :
          /\ nw_scope_restore_dns(ok) /\ Refusing(ok, NameKeys)
          /\ tainted' = (tainted \/ ok # NameKeys \/ primary # setFor)
  BY DEF RestoreDns
<1>2. TypeOK'
  <2>1. dns' \in [Services \cup {Ours} -> Services \cup {Warp, None}]
    BY <1>ok DEF nw_scope_restore_dns, ScopeInv, TypeOK
  <2>2. /\ globalDns' \in Services \cup {Warp, None}
        /\ backup' \in {None, backup} /\ backupGlobal' \in {None, backupGlobal}
    BY <1>ok DEF nw_scope_restore_dns, ScopeInv, TypeOK
  <2>3. tainted' \in BOOLEAN /\ refusals' \in 0..MaxRefusals
    BY <1>ok, RefusalsAreBounded
  <2> QED
    BY <1>1, <2>1, <2>2, <2>3 DEF ScopeInv, TypeOK, published
<1>3. OrderIsKnown'
  BY <1>1 DEF ScopeInv, OrderIsKnown, published
<1>4. NamesRestored'
  BY <1>1 DEF NamesRestored
<1>5. (~tainted => NamesSaved)'
  <2> SUFFICES ASSUME ~tainted' PROVE NamesSaved'
    OBVIOUS
  <2>1. ~tainted /\ primary = setFor /\ ok = NameKeys
    BY <1>ok, Zenon
  <2>keys. {"service", "global", "backup", "backupGlobal"} \subseteq ok
    BY <2>1 DEF NameKeys
  <2>2. /\ backup # Warp /\ backupGlobal # Warp
        /\ \A id \in DOMAIN dns : id # setFor => dns[id] # Warp
        /\ setFor # None => backup # None
    BY <1>1, <2>1 DEF ScopeInv, NamesSaved
  <2>3. globalDns' # Warp /\ backup' # Warp /\ backupGlobal' # Warp
    BY <1>ok, <2>keys, <2>2 DEF nw_scope_restore_dns, None, Warp
  <2>4. \A id \in DOMAIN dns' : dns'[id] # Warp
    <3>1. CASE primary = None
      <4>1. \A id \in DOMAIN dns : id # None
        BY NamesAssumption DEF ScopeInv, TypeOK, None
      <4> QED
        BY <1>ok, <2>1, <2>2, <3>1, <4>1 DEF nw_scope_restore_dns
    <3>2. CASE primary # None
      <4>1. dns' = [dns EXCEPT ![primary] = IF backup = Empty THEN None ELSE backup]
        BY <1>ok, <2>keys, <2>1, <2>2, <3>2 DEF nw_scope_restore_dns
      <4>2. DOMAIN dns' = DOMAIN dns
        BY <4>1
      <4>3. None # Warp
        BY DEF None, Warp
      <4> QED
        BY <2>1, <2>2, <4>1, <4>2, <4>3
    <3> QED
      BY <3>1, <3>2
  <2> QED
    BY <1>1, <2>3, <2>4 DEF NamesSaved, NamesClean
<1> QED
  BY <1>2, <1>3, <1>4, <1>5 DEF ScopeInv

\* The end of cleanup().
LEMMA RestoreScopeStep ==
    ASSUME ScopeInv, RestoreScope
    PROVE  ScopeInv'
<1>1. /\ pc = "cleanScope" /\ pc' = "off" /\ scopePrimarySet' = FALSE
      /\ ended' = "clean"
      /\ UNCHANGED <<primary, names, up, setFor, tainted>>
  BY DEF RestoreScope
<1>2. /\ order' \in {order, Strip(order)} /\ refusals' \in 0..MaxRefusals
      /\ state' \in BOOLEAN /\ setup' \in BOOLEAN /\ interface' \in BOOLEAN /\ legacy' \in BOOLEAN
  <2>1. CASE scopePrimarySet
    <3>1. PICK ok \in SUBSET Removals : nw_scope_restore(ok) /\ Refusing(ok, Removals)
      BY <2>1 DEF RestoreScope
    <3>2. refusals' \in 0..MaxRefusals
      BY <3>1, RefusalsAreBounded
    <3> QED
      BY <3>1, <3>2 DEF nw_scope_restore, ScopeInv, TypeOK
  <2>2. CASE ~scopePrimarySet
    BY <2>2 DEF RestoreScope, published, ScopeInv, TypeOK
  <2> QED
    BY <2>1, <2>2
<1>3. Strip(order) = SystemOrder
  BY OrdersStripped DEF ScopeInv, OrderIsKnown
<1>4. OrderIsKnown'
  BY <1>2, <1>3 DEF ScopeInv, OrderIsKnown
<1>5. TypeOK'
  <2>1. order' \in Seq(Services \cup {Ours, Legacy})
    BY <1>4, OrdersStripped DEF OrderIsKnown
  <2> QED
    BY <1>1, <1>2, <2>1 DEF ScopeInv, TypeOK, names
<1>6. (~tainted => NamesSaved)'
  BY <1>1 DEF ScopeInv, NamesSaved, names
<1>7. NamesRestored'
  BY <1>1 DEF ScopeInv, NamesSaved, NamesClean, NamesRestored, names
<1> QED
  BY <1>4, <1>5, <1>6, <1>7 DEF ScopeInv

\* The process is gone without its cleanup.
LEMMA DeathStep ==
    ASSUME ScopeInv, HandleFatal \/ Killed
    PROVE  ScopeInv'
<1>1. /\ pc' = "off" /\ ended' \in {"fatal", "killed"} /\ scopePrimarySet' = FALSE
      /\ UNCHANGED <<published, primary, names, up, refusals, setFor, tainted>>
  BY DEF HandleFatal, Killed
<1>2. TypeOK'
  <2>1. /\ order' = order /\ state' = state /\ setup' = setup /\ interface' = interface
        /\ legacy' = legacy /\ primary' = primary /\ dns' = dns /\ globalDns' = globalDns
        /\ backup' = backup /\ backupGlobal' = backupGlobal /\ up' = up
        /\ refusals' = refusals /\ setFor' = setFor /\ tainted' = tainted
    BY <1>1 DEF published, names
  <2>2. /\ pc' = "off" /\ scopePrimarySet' \in BOOLEAN
        /\ ended' \in {"never", "clean", "fatal", "killed"}
    BY <1>1
  <2>3. TypeOK
    BY DEF ScopeInv
  <2> QED
    BY <2>1, <2>2, <2>3 DEF TypeOK
<1>3. OrderIsKnown'
  BY <1>1 DEF ScopeInv, OrderIsKnown, published
<1>4. NamesRestored'
  BY <1>1 DEF NamesRestored
<1>5. (~tainted => NamesSaved)'
  BY <1>1 DEF ScopeInv, NamesSaved, names
<1> QED
  BY <1>2, <1>3, <1>4, <1>5 DEF ScopeInv

\* The command scope-unset.
LEMMA ScopeUnsetStep ==
    ASSUME ScopeInv, ScopeUnset
    PROVE  ScopeInv'
<1>1. pc = "off" /\ UNCHANGED <<pc, scopePrimarySet, primary, names, up, ended, setFor, tainted>>
  BY DEF ScopeUnset
<1>2. PICK ok \in SUBSET Removals : nw_scope_restore(ok) /\ Refusing(ok, Removals)
  BY DEF ScopeUnset
<1>3. OrderIsKnown'
  <2>1. Strip(order) = SystemOrder
    BY OrdersStripped DEF ScopeInv, OrderIsKnown
  <2> QED
    BY <1>2, <2>1 DEF nw_scope_restore, ScopeInv, OrderIsKnown
<1>4. TypeOK'
  <2>1. order' \in Seq(Services \cup {Ours, Legacy})
    BY <1>3, OrdersStripped DEF OrderIsKnown
  <2>2. /\ pc' = pc /\ scopePrimarySet' = scopePrimarySet /\ primary' = primary
        /\ dns' = dns /\ globalDns' = globalDns /\ backup' = backup
        /\ backupGlobal' = backupGlobal /\ up' = up /\ ended' = ended
        /\ setFor' = setFor /\ tainted' = tainted
    BY <1>1 DEF names
  <2>3. state' \in BOOLEAN /\ setup' \in BOOLEAN /\ interface' \in BOOLEAN /\ legacy' \in BOOLEAN
    BY <1>2 DEF nw_scope_restore, ScopeInv, TypeOK
  <2>4. refusals' \in 0..MaxRefusals
    BY <1>2, RefusalsAreBounded
  <2> QED
    BY <2>1, <2>2, <2>3, <2>4 DEF ScopeInv, TypeOK
<1>5. (~tainted => NamesSaved)' /\ NamesRestored'
  BY <1>1 DEF ScopeInv, NamesSaved, NamesClean, NamesRestored, names
<1> QED
  BY <1>3, <1>4, <1>5 DEF ScopeInv

\* configd elects another primary service.
LEMMA ElectStep ==
    ASSUME ScopeInv, Elect
    PROVE  ScopeInv'
<1>1. /\ primary' = Elected
      /\ globalDns' = IF primary' = None \/ dns[primary'] = None THEN globalDns
                      ELSE dns[primary']
      /\ UNCHANGED <<pc, scopePrimarySet, published, dns, backup, backupGlobal, up, history>>
  BY DEF Elect
<1>2. primary' \in Services \cup {Ours, None}
  BY <1>1, ElectedIsService
<1>3. TypeOK'
  <2>1. globalDns' \in Services \cup {Warp, None}
    BY <1>1, <1>2 DEF ScopeInv, TypeOK
  <2> QED
    BY <1>1, <1>2, <2>1 DEF ScopeInv, TypeOK, published, history
<1>4. OrderIsKnown'
  BY <1>1 DEF ScopeInv, OrderIsKnown, published
<1>6. NamesClean => NamesClean'
  BY <1>1, <1>2 DEF NamesClean, ScopeInv, TypeOK
<1>7. (~tainted => NamesSaved)'
  BY <1>1, <1>6 DEF ScopeInv, NamesSaved, history
<1>8. NamesRestored'
  <2>1. NamesRestored <=> (pc = "off" /\ ended = "clean" /\ ~tainted => NamesClean)
    BY DEF NamesRestored, NamesClean
  <2>2. NamesRestored' <=>
            (pc' = "off" /\ ended' = "clean" /\ ~tainted' => NamesClean')
    BY DEF NamesRestored, NamesClean
  <2> QED
    BY <1>1, <1>6, <2>1, <2>2 DEF ScopeInv, history
<1> QED
  BY <1>3, <1>4, <1>7, <1>8 DEF ScopeInv

\* A service goes down or comes up with its own name servers.
LEMMA ChangeStep ==
    ASSUME ScopeInv, NEW s \in Services, Change(s)
    PROVE  ScopeInv'
<1>1. UNCHANGED <<pc, scopePrimarySet, published, primary, globalDns, backup,
                  backupGlobal, history>>
  BY DEF Change
<1>2. dns' = dns \/ dns' = [dns EXCEPT ![s] = s]
  BY DEF Change
<1>3. s # Warp /\ s \in DOMAIN dns
  BY NamesAssumption DEF Warp, ScopeInv, TypeOK
<1>4. DOMAIN dns' = DOMAIN dns /\ \A id \in DOMAIN dns : dns[id] # Warp => dns'[id] # Warp
  BY <1>2, <1>3 DEF ScopeInv, TypeOK
<1>5. TypeOK'
  <2>1. dns' \in [Services \cup {Ours} -> Services \cup {Warp, None}]
    BY <1>2 DEF ScopeInv, TypeOK
  <2>2. up' \subseteq Services
    BY DEF Change, ScopeInv, TypeOK
  <2> QED
    BY <1>1, <2>1, <2>2 DEF ScopeInv, TypeOK, published, history
<1>6. OrderIsKnown'
  BY <1>1 DEF ScopeInv, OrderIsKnown, published
<1>8. (~tainted => NamesSaved)'
  BY <1>1, <1>4 DEF ScopeInv, NamesSaved, NamesClean, history
<1>9. NamesRestored'
  BY <1>1, <1>4 DEF ScopeInv, NamesRestored, history
<1> QED
  BY <1>5, <1>6, <1>8, <1>9 DEF ScopeInv

\* Every step keeps the invariant.
LEMMA ScopeGoesOn == ScopeInv /\ [Next]_vars => ScopeInv'
<1> SUFFICES ASSUME ScopeInv, [Next]_vars PROVE ScopeInv'
  OBVIOUS
<1>1. CASE Process
  BY <1>1, PlainStep, SetDnsStep, SetPrimaryStep, RestoreDnsStep, RestoreScopeStep
     DEF Process
<1>2. CASE HandleFatal \/ Killed
  BY <1>2, DeathStep
<1>3. CASE ScopeUnset
  BY <1>3, ScopeUnsetStep
<1>4. CASE Elect
  BY <1>4, ElectStep
<1>5. ASSUME NEW s \in Services, Change(s) PROVE ScopeInv'
  BY <1>5, ChangeStep
<1>6. CASE UNCHANGED vars
  <2>2. TypeOK'
    BY <1>6 DEF ScopeInv, TypeOK, vars, published, names, history
  <2>3. OrderIsKnown'
    BY <1>6 DEF ScopeInv, OrderIsKnown, vars, published
  <2>5. (~tainted => NamesSaved)'
    BY <1>6 DEF ScopeInv, NamesSaved, NamesClean, vars, names, history
  <2>6. NamesRestored'
    BY <1>6 DEF ScopeInv, NamesRestored, vars, names, history
  <2> QED
    BY <2>2, <2>3, <2>5, <2>6 DEF ScopeInv
<1> QED
  BY <1>1, <1>2, <1>3, <1>4, <1>5, <1>6 DEF Next

\* The invariant holds in every state of every behaviour.
LEMMA ScopeInvariant == Spec => []ScopeInv
BY ScopeStarts, ScopeGoesOn, PTL DEF Spec

-----------------------------------------------------------------------------
(* The results.                                                            *)

\* However often the process ran and died, the user's services keep their
\* order, and the helper's id is in it at most once.
THEOREM OrderIsKept == Spec => []OrderKept
<1>1. ScopeInv => OrderKept
  BY OrdersStripped DEF ScopeInv, OrderIsKnown, OrderKept
<1> QED
  BY <1>1, ScopeInvariant, PTL

\* A process that cleaned up leaves no service with the tunnel's name servers.
THEOREM NamesAreRestored == Spec => []NamesRestored
<1>1. ScopeInv => NamesRestored
  BY DEF ScopeInv
<1> QED
  BY <1>1, ScopeInvariant, PTL

(***************************************************************************)
(* WarpSession.                                                            *)
(***************************************************************************)

-----------------------------------------------------------------------------
(* The inductive invariant.                                                *)

\* An initiation or a response.
Greeting(m) == m.type \in {"init", "response"}

\* The process waits for a response.
Waiting == stage = "wait" \/ (Looping /\ inProgress)

\* What the process knows of itself.
Control ==
    /\ stage # "exited" => reason = "none"
    /\ stage \in {"attempt", "wait"} => key = NoKey
    /\ stage \in {"attempt", "wait"} => ~inProgress
    /\ Looping => key \in Ids /\ hs \in Ids
    /\ Looping /\ ~inProgress => attempts = 0 /\ key = hs
    /\ Waiting => attempts >= 1 /\ hs \in Ids
    /\ Looping /\ (stage = "select" => ~ticked) => sinceKa < Keepalive

\* Of each handshake there is one initiation or response at most, and until it
\* is consumed nothing else carries its id.
OneGreeting ==
    stage # "exited" =>
        /\ \A m, n \in net : Greeting(m) /\ Greeting(n) /\ m.id = n.id => m = n
        /\ \A m \in net, n \in inbox : Greeting(m) /\ n.type = "response" => m.id # n.id
        /\ \A m, n \in net : Greeting(m) /\ ~Greeting(n) => m.id # n.id
        /\ \A m \in net, n \in inbox : ~Greeting(m) /\ n.type = "response" => m.id # n.id
        /\ \A m \in net : Greeting(m) => m.id # key
        /\ \A m \in inbox : m.type = "response" => m.id # key

\* That of the last handshake is no older than its way allows.
InTime ==
    /\ \A m \in net : m.type = "init" /\ m.id = hs => sinceSent <= m.age
    /\ \A m \in net : m.type = "response" /\ m.id = hs => sinceSent <= Latency + m.age
    /\ \A m \in inbox : m.type = "response" /\ m.id = hs => sinceSent <= RoundTrip

\* Each initiation but the one that can still succeed cost a datagram or an
\* error, or was answered too late; and where the code waits long enough, no
\* answer is late.
AttemptsLost ==
    /\ peer.alive =>
        /\ stage = "attempt" => attempts <= lost + errors + late
        /\ stage = "wait" => /\ attempts <= lost + errors + late + 1
                             /\ ~Pending => attempts <= lost + errors + late
        /\ Looping /\ inProgress => /\ attempts <= lost + late + 1
                                    /\ ~Pending => attempts <= lost + late
    /\ stage \in {"attempt", "wait"} /\ RoundTrip < HandshakeWait => late = 0
    /\ Looping /\ RoundTrip < RekeyResend => late = 0
    /\ Looping /\ ~inProgress => late = 0

\* The key will be confirmed before it is renewed: the keepalive is due, or a
\* datagram with the key is under way.
Confirming ==
    \/ sinceKey <= sinceKa
    \/ \E m \in net : /\ m.type \in {"keepalive", "data"} /\ m.id = key
                      /\ sinceKey <= Keepalive + m.age

\* The keys of a peer to which nothing was lost.  It takes the initiations in
\* their order, so the last one is still to be taken while another is; and the
\* key it has from an initiation that was not consumed nobody sends with.
PeerKeys ==
    lost = 0 /\ peer.alive /\ stage # "exited" =>
        /\ \A m \in net \cup inbox : m.type = "response" /\ m.id = hs => peer.next = hs
        /\ \A m \in net : m.type = "init" => \E n \in net : n.type = "init" /\ n.id = hs
        /\ Looping /\ inProgress =>
              /\ peer.cur = key /\ peer.next # key
              /\ \A m \in net : ~Greeting(m) => m.id # peer.next
        /\ Looping /\ ~inProgress =>
              \/ peer.cur = key /\ peer.next = NoKey
              \/ peer.next = key /\ Confirming

SessionInv ==
    /\ SessionTypeOK /\ Control /\ OneGreeting /\ InTime
    /\ AttemptsLost /\ PeerKeys /\ GivesUpAfterLosses

-----------------------------------------------------------------------------
(* The parts the steps are made of.                                        *)

\* The times as numbers.
LEMMA Times ==
    /\ HandshakeWait \in Nat /\ RecvTimeout \in Nat /\ RekeyResend \in Nat /\ KeyLife \in Nat
    /\ Keepalive \in Nat /\ StallSeconds \in Nat /\ MaxAttempts \in Nat /\ Latency \in Nat
    /\ Keepalive > 0 /\ MaxAttempts > 0 /\ MaxLost \in Nat /\ Longest \in Nat
    /\ MaxErrors \in Nat /\ RoundTrip \in Nat /\ RoundTrip = Latency + Latency
    /\ NoKey \notin Ids
BY TimesAssumption, IdsAssumption DEF Longest, NoKey, RoundTrip

\* The states the loop is in, and those of the first handshake.
LEMMA Stages ==
    ASSUME SessionTypeOK
    PROVE  /\ stage \in {"attempt", "wait"} => ~Looping /\ stage # "exited"
           /\ Looping => stage # "exited" /\ stage \notin {"attempt", "wait"}
           /\ stage = "exited" \/ stage = "attempt" \/ stage = "wait" \/ Looping
           /\ Waiting => stage # "exited"
BY DEF SessionTypeOK, Looping, Waiting

\* A new initiation has an id that nothing has.
LEMMA NewInitiation ==
    ASSUME SessionTypeOK, CreateInitiation
    PROVE  /\ hs' \in Ids /\ hs' \notin {hs, key, peer.next, peer.cur}
           /\ \A m \in net \cup inbox : m.id # hs'
           /\ net' = net \cup {[type |-> "init", id |-> hs', age |-> 0]}
<1> DEFINE Free == Ids \ InUse
<1>1. Free # {} /\ Free \subseteq Nat
  BY IdsAssumption DEF CreateInitiation
<1>2. \E i \in Free : \A j \in Free : i <= j
  BY <1>1, LeastNumber
<1>3. hs' \in Free /\ net' = net \cup {[type |-> "init", id |-> hs', age |-> 0]}
  BY <1>2 DEF CreateInitiation, Send
<1> QED
  BY <1>3 DEF InUse

\* Of a handshake that can still succeed the initiation was sent a round trip
\* ago at most.
LEMMA PendingIsYoung ==
    ASSUME SessionTypeOK, InTime, Pending
    PROVE  sinceSent <= RoundTrip
<1>1. sinceSent \in Nat /\ \A m \in net : m.age \in Nat /\ m.age <= Latency
  BY Times DEF SessionTypeOK, Datagrams
<1>2. CASE \E m \in inbox : m.type = "response" /\ m.id = hs
  BY <1>2 DEF InTime
<1>3. CASE \E m \in net : Greeting(m) /\ m.id = hs
  BY <1>1, <1>3, Times DEF InTime, Greeting
<1> QED
  BY <1>2, <1>3 DEF Pending, Greeting

\* The process is gone.
LEMMA ExitStep ==
    ASSUME SessionInv, NEW why \in Reasons, Exit(why),
           peer.alive /\ why = "handshakeFailed" => lost + errors + late >= MaxAttempts,
           peer.alive /\ why = "rekeyFailed" => lost + late >= MaxAttempts - 1,
           why = "handshakeFailed" /\ RoundTrip < HandshakeWait => late = 0,
           why = "rekeyFailed" /\ RoundTrip < RekeyResend => late = 0
    PROVE  SessionInv'
<1>1. /\ stage' = "exited" /\ reason' = why
      /\ UNCHANGED <<hs, key, attempts, late, sinceSent, loop, net, env>>
  BY DEF Exit
<1>2. SessionTypeOK'
  BY <1>1 DEF SessionInv, SessionTypeOK, loop, env
<1>3. Control' /\ OneGreeting' /\ AttemptsLost' /\ PeerKeys'
  BY <1>1 DEF Control, OneGreeting, AttemptsLost, PeerKeys, Waiting, Looping
<1>4. InTime'
  BY <1>1 DEF SessionInv, InTime, env
<1>5. GivesUpAfterLosses'
  BY <1>1 DEF GivesUpAfterLosses, env
<1> QED
  BY <1>2, <1>3, <1>4, <1>5 DEF SessionInv

-----------------------------------------------------------------------------
(* The first handshake.                                                    *)

\* A new initiation carries an id of its own.
LEMMA OneNewGreeting ==
    ASSUME OneGreeting, stage # "exited", NEW new \in net',
           Greeting(new), new.id # key, \A m \in net \cup inbox : m.id # new.id,
           \A m \in net' : m \in net \/ m = new, inbox' = inbox, key' = key
    PROVE  OneGreeting'
BY DEF OneGreeting

\* The attempt before has failed; what came of it is of no use any more.
LEMMA AttemptStep ==
    ASSUME SessionInv, Attempt
    PROVE  SessionInv'
<1>0. /\ SessionTypeOK /\ Control /\ OneGreeting /\ InTime
      /\ AttemptsLost /\ PeerKeys /\ GivesUpAfterLosses
  BY DEF SessionInv
<1>1. /\ stage = "attempt" /\ stage' = "wait" /\ attempts < MaxAttempts
      /\ attempts' = attempts + 1 /\ sinceSent' = 0
      /\ UNCHANGED <<reason, key, late, loop, env>>
  BY DEF Attempt
<1>2. /\ hs' \in Ids /\ hs' \notin {hs, key, peer.next, peer.cur}
      /\ \A m \in net \cup inbox : m.id # hs'
      /\ net' = net \cup {[type |-> "init", id |-> hs', age |-> 0]}
  BY <1>0, NewInitiation DEF Attempt
<1>3. ~Looping /\ reason = "none" /\ key = NoKey /\ ~inProgress
  BY <1>0, <1>1 DEF Looping, Control
<1>4. \A m \in net' : m \in net \/ m = [type |-> "init", id |-> hs', age |-> 0]
  BY <1>2
<1> DEFINE new == [type |-> "init", id |-> hs', age |-> 0]
<1>5. Greeting(new) /\ new.id = hs' /\ new.type = "init" /\ new.age = 0 /\ new \in net'
  BY <1>2 DEF Greeting
<1>6. /\ Pending' /\ Waiting' /\ ~Looping' /\ (\A m \in net' : m.id = hs' => m = new)
      /\ inbox' = inbox /\ peer' = peer /\ lost' = lost /\ errors' = errors
      /\ \A m \in inbox : m.id # hs'
  BY <1>1, <1>2, <1>4, <1>5 DEF Pending, Waiting, Looping, env
<1>7. SessionTypeOK'
  <2>1. new \in Datagrams
    BY <1>2, Times DEF Datagrams
  <2>2. attempts' \in 0..MaxAttempts
    BY <1>0, <1>1, Times DEF SessionTypeOK
  <2> HIDE DEF new
  <2> QED
    BY <1>0, <1>1, <1>2, <2>1, <2>2, Times DEF SessionTypeOK, loop, env, new
<1> HIDE DEF new
<1>8. Control'
  BY <1>0, <1>1, <1>2, <1>3, <1>6 DEF Control, loop, SessionTypeOK
<1>9. OneGreeting'
  <2>1. \A m \in net' : m \in net \/ m = new
    BY <1>4 DEF new
  <2> QED
    BY <1>0, <1>1, <1>2, <1>5, <1>6, <2>1, OneNewGreeting
<1>10. InTime'
  BY <1>1, <1>5, <1>6 DEF InTime
<1>11. AttemptsLost'
  BY <1>0, <1>1, <1>6 DEF AttemptsLost, SessionTypeOK
<1>12. PeerKeys'
  BY <1>5, <1>6 DEF PeerKeys
<1>13. GivesUpAfterLosses'
  BY <1>1, <1>3 DEF GivesUpAfterLosses
<1> QED
  BY <1>7, <1>8, <1>9, <1>10, <1>11, <1>12, <1>13 DEF SessionInv

\* The wait for a response is over: there is none any more.
LEMMA DeadlineStep ==
    ASSUME SessionInv, Deadline
    PROVE  SessionInv'
<1>0. /\ SessionTypeOK /\ Control /\ OneGreeting /\ InTime
      /\ AttemptsLost /\ PeerKeys /\ GivesUpAfterLosses
  BY DEF SessionInv
<1>1. /\ stage = "wait" /\ stage' = "attempt" /\ sinceSent >= HandshakeWait
      /\ UNCHANGED <<reason, hs, key, attempts, sinceSent, loop, net, env>>
      /\ late' = IF Pending THEN late + 1 ELSE late
  BY DEF Deadline, GiveUpLast
<1>2. RoundTrip < HandshakeWait => ~Pending
  BY <1>0, <1>1, PendingIsYoung, Times DEF SessionTypeOK
<1>3. ~Waiting' /\ ~Looping' /\ reason = "none"
  BY <1>0, <1>1 DEF Control, Waiting, Looping
<1>4. SessionTypeOK'
  BY <1>0, <1>1 DEF SessionTypeOK, loop, env
<1>5. Control'
  BY <1>0, <1>1, <1>3 DEF Control, loop
<1>6. OneGreeting' /\ InTime'
  BY <1>0, <1>1 DEF OneGreeting, InTime, env
<1>7. AttemptsLost'
  <2>1. attempts \in Nat /\ lost \in Nat /\ errors \in Nat /\ late \in Nat
    BY <1>0, Times DEF SessionTypeOK
  <2>2. peer.alive => attempts <= lost + errors + late'
    BY <1>0, <1>1, <2>1 DEF AttemptsLost
  <2>3. RoundTrip < HandshakeWait => late' = 0
    BY <1>0, <1>1, <1>2 DEF AttemptsLost
  <2> QED
    BY <1>1, <1>3, <2>2, <2>3 DEF AttemptsLost, env
<1>8. PeerKeys'
  BY <1>0, <1>1, <1>3 DEF PeerKeys, env
<1>9. GivesUpAfterLosses'
  BY <1>1, <1>3 DEF GivesUpAfterLosses
<1> QED
  BY <1>4, <1>5, <1>6, <1>7, <1>8, <1>9 DEF SessionInv

\* An error ends the wait.
LEMMA ReceiveErrorStep ==
    ASSUME SessionInv, ReceiveError
    PROVE  SessionInv'
<1>0. /\ SessionTypeOK /\ Control /\ OneGreeting /\ InTime
      /\ AttemptsLost /\ PeerKeys /\ GivesUpAfterLosses
  BY DEF SessionInv
<1>1. /\ stage = "wait" /\ stage' = "attempt" /\ errors < MaxErrors /\ errors' = errors + 1
      /\ UNCHANGED <<reason, hs, key, attempts, late, sinceSent, loop, net, ticked, tunQueue,
                     appSent, inbox, peer, lost, unanswered>>
  BY DEF ReceiveError
<1>2. ~Waiting' /\ ~Looping' /\ reason = "none"
  BY <1>0, <1>1 DEF Control, Waiting, Looping
<1>3. errors' \in 0..MaxErrors
  BY <1>0, <1>1, Times DEF SessionTypeOK
<1>4. SessionTypeOK'
  BY <1>0, <1>1, <1>3 DEF SessionTypeOK, loop
<1>5. Control'
  BY <1>0, <1>1, <1>2 DEF Control, loop
<1>6. OneGreeting' /\ InTime'
  BY <1>0, <1>1 DEF OneGreeting, InTime
<1>7. AttemptsLost'
  <2>1. attempts \in Nat /\ lost \in Nat /\ errors \in Nat /\ late \in Nat
    BY <1>0, Times DEF SessionTypeOK
  <2>2. peer.alive => attempts <= lost + errors' + late
    BY <1>0, <1>1, <2>1 DEF AttemptsLost
  <2> QED
    BY <1>0, <1>1, <1>2, <2>2 DEF AttemptsLost
<1>8. PeerKeys'
  BY <1>0, <1>1, <1>2 DEF PeerKeys
<1>9. GivesUpAfterLosses'
  BY <1>1, <1>2 DEF GivesUpAfterLosses
<1> QED
  BY <1>4, <1>5, <1>6, <1>7, <1>8, <1>9 DEF SessionInv

\* Every attempt failed.
LEMMA AttemptsOverStep ==
    ASSUME SessionInv, AttemptsOver
    PROVE  SessionInv'
<1>1. stage = "attempt" /\ attempts = MaxAttempts /\ Exit("handshakeFailed")
  BY DEF AttemptsOver
<1>2. /\ peer.alive => lost + errors + late >= MaxAttempts
      /\ RoundTrip < HandshakeWait => late = 0
  BY <1>1, Times DEF SessionInv, AttemptsLost, SessionTypeOK
<1>3. "handshakeFailed" \in Reasons /\ "handshakeFailed" # "rekeyFailed"
  BY DEF Reasons
<1> QED
  BY <1>1, <1>2, <1>3, ExitStep

\* A response is consumed, if it is one.
LEMMA WaitReceivesStep ==
    ASSUME SessionInv, WaitReceives
    PROVE  SessionInv'
<1>0. /\ SessionTypeOK /\ Control /\ OneGreeting /\ InTime
      /\ AttemptsLost /\ PeerKeys /\ GivesUpAfterLosses
  BY DEF SessionInv
<1>1. /\ stage = "wait" /\ inbox' = {}
      /\ UNCHANGED <<reason, hs, sinceSent, inProgress, tunIn, udpIn, net, tunQueue, appSent,
                     peer, lost, errors, unanswered>>
  BY DEF WaitReceives
<1>2. ~Looping /\ reason = "none" /\ ~inProgress /\ key = NoKey /\ hs \in Ids
  BY <1>0, <1>1 DEF Control, Looping, Waiting
<1>3. InTime'
  BY <1>0, <1>1 DEF InTime
<1>4. GivesUpAfterLosses'
  BY <1>1, <1>2 DEF GivesUpAfterLosses
<1>5. CASE Consumes(inbox)
  <2> DEFINE got == [type |-> "response", id |-> hs]
  <2>1. got \in inbox /\ got.type = "response" /\ got.id = hs
    BY <1>5 DEF Consumes
  <2> HIDE DEF got
  <2>2. /\ key' = hs /\ stage' = "select" /\ attempts' = 0 /\ late' = 0 /\ sinceKey' = 0
        /\ sinceKa' = 0 /\ sinceProgress' = 0 /\ ticked' = FALSE
    BY <1>5 DEF WaitReceives
  <2>3. \A m \in net : Greeting(m) => m.id # hs
    BY <1>0, <1>1, <2>1 DEF OneGreeting
  <2>4. Looping' /\ ~Waiting' /\ ~inProgress'
    BY <1>1, <1>2, <2>2 DEF Looping, Waiting
  <2>5. SessionTypeOK'
    <3>1. /\ attempts' \in 0..MaxAttempts /\ sinceKey' \in 0..KeyLife
          /\ sinceKa' \in 0..Keepalive /\ sinceProgress' \in 0..StallSeconds
      BY <2>2, Times
    <3> QED
      BY <1>0, <1>1, <2>2, <3>1 DEF SessionTypeOK
  <2>6. Control'
    BY <1>1, <1>2, <2>2, <2>4, Times DEF Control
  <2>7. OneGreeting'
    BY <1>0, <1>1, <2>2, <2>3 DEF OneGreeting
  <2>8. AttemptsLost'
    BY <2>2, <2>4 DEF AttemptsLost
  <2>9. PeerKeys'
    <3>1. lost = 0 /\ peer.alive => peer.next = hs
      BY <1>0, <1>1, <2>1 DEF PeerKeys
    <3>2. Confirming'
      BY <2>2 DEF Confirming
    <3> QED
      BY <1>0, <1>1, <1>2, <2>2, <2>3, <3>1, <3>2 DEF PeerKeys, Greeting
  <2> QED
    BY <1>3, <1>4, <2>5, <2>6, <2>7, <2>8, <2>9 DEF SessionInv
<1>6. CASE ~Consumes(inbox)
  <2>1. UNCHANGED <<stage, key, attempts, late, sinceKey, sinceKa, sinceProgress, ticked>>
    BY <1>6 DEF WaitReceives
  <2>2. \A m \in inbox : m.type = "response" => m.id # hs
    <3> SUFFICES ASSUME NEW m \in inbox, m.type = "response", m.id = hs PROVE FALSE
      OBVIOUS
    <3>1. m \in [type : {"response", "reply"}, id : Ids]
      BY <1>0 DEF SessionTypeOK
    <3>2. m = [type |-> "response", id |-> hs]
      BY <3>1
    <3> QED
      BY <1>6, <3>2 DEF Consumes
  <2>3. (Pending' <=> Pending) /\ (Waiting' <=> Waiting) /\ ~Looping'
    BY <1>1, <1>2, <2>1, <2>2 DEF Looping, Waiting, Pending
  <2>4. SessionTypeOK'
    BY <1>0, <1>1, <2>1 DEF SessionTypeOK
  <2>5. Control'
    BY <1>0, <1>1, <2>1, <2>3 DEF Control, Looping
  <2>6. OneGreeting'
    BY <1>0, <1>1, <2>1 DEF OneGreeting
  <2>7. AttemptsLost'
    BY <1>0, <1>1, <2>1, <2>3 DEF AttemptsLost
  <2>8. PeerKeys'
    BY <1>0, <1>1, <2>1, <2>3 DEF PeerKeys
  <2> QED
    BY <1>3, <1>4, <2>4, <2>5, <2>6, <2>7, <2>8 DEF SessionInv
<1> QED
  BY <1>5, <1>6

-----------------------------------------------------------------------------
(* One pass of the loop.                                                   *)

\* A step of the loop that sends at most a datagram with the key: the
\* keepalive's timer starts again only with a keepalive.
LEMMA LoopStep ==
    ASSUME SessionInv, SessionTypeOK', Looping, Looping',
           (stage' = "select" => ~ticked') => sinceKa' < Keepalive,
           net' = net \/ Send("keepalive", key) \/ Send("data", key),
           sinceKa' = sinceKa \/ Send("keepalive", key),
           UNCHANGED <<reason, hs, key, attempts, late, sinceSent, inProgress, sinceKey, inbox,
                       peer, lost>>
    PROVE  SessionInv'
<1>0. /\ SessionTypeOK /\ Control /\ OneGreeting /\ InTime
      /\ AttemptsLost /\ PeerKeys /\ GivesUpAfterLosses
  BY DEF SessionInv
<1>1. /\ net \subseteq net' /\ inbox' = inbox /\ key \in Ids
      /\ \A m \in net' : m \in net \/ (m.id = key /\ m.type \in {"keepalive", "data"})
  BY <1>0 DEF Send, Control
<1>2. \A m \in net' : Greeting(m) => m \in net
  BY <1>1 DEF Greeting
<1>3. (Pending' <=> Pending) /\ (Waiting' <=> Waiting) /\ stage # "exited"
      /\ stage' \notin {"attempt", "wait", "exited"} /\ stage \notin {"attempt", "wait"}
  BY <1>1, <1>2 DEF Looping, Waiting, Pending, SessionTypeOK
<1>4. Control'
  BY <1>0, <1>3 DEF Control
<1>5. OneGreeting'
  BY <1>0, <1>1, <1>2, <1>3 DEF OneGreeting
<1>6. InTime'
  BY <1>0, <1>1, <1>2 DEF InTime, Greeting
<1>7. AttemptsLost'
  BY <1>0, <1>3 DEF AttemptsLost
<1>8. Confirming => Confirming'
  <2>1. CASE \E m \in net : /\ m.type \in {"keepalive", "data"} /\ m.id = key
                            /\ sinceKey <= Keepalive + m.age
    BY <1>1, <2>1 DEF Confirming
  <2>2. CASE sinceKey <= sinceKa /\ sinceKa' = sinceKa
    BY <2>2 DEF Confirming
  <2>3. CASE sinceKey <= sinceKa /\ Send("keepalive", key)
    <3> DEFINE ka == [type |-> "keepalive", id |-> key, age |-> 0]
    <3>1. ka \in net' /\ ka.type = "keepalive" /\ ka.id = key /\ ka.age = 0
      BY <2>3 DEF Send
    <3>2. sinceKey <= Keepalive + 0
      BY <1>0, <2>3, Times DEF SessionTypeOK
    <3> HIDE DEF ka
    <3> QED
      BY <3>1, <3>2 DEF Confirming
  <2> QED
    BY <2>1, <2>2, <2>3 DEF Confirming
<1>9. PeerKeys'
  BY <1>0, <1>1, <1>2, <1>3, <1>8 DEF PeerKeys, Greeting
<1>10. GivesUpAfterLosses'
  BY <1>0, <1>3 DEF GivesUpAfterLosses, Control
<1> QED
  BY <1>4, <1>5, <1>6, <1>7, <1>9, <1>10 DEF SessionInv

\* The keepalive is sent when its time has come.
LEMMA WakeStep ==
    ASSUME SessionInv, Wake
    PROVE  SessionInv'
<1>0. SessionTypeOK /\ Control
  BY DEF SessionInv
<1>1. /\ stage = "select" /\ stage' = "stall"
      /\ UNCHANGED <<reason, hs, key, attempts, late, sinceSent, inProgress, sinceKey,
                     sinceProgress, tunIn, udpIn, env>>
  BY DEF Wake
<1>2. Looping /\ Looping' /\ key \in Ids
  BY <1>0, <1>1 DEF Looping, Control
<1>3. \/ Send("keepalive", key) /\ sinceKa' = 0
      \/ net' = net /\ sinceKa' = sinceKa /\ ~(sinceKa >= Keepalive)
  BY DEF Wake
<1>4. sinceKa' < Keepalive /\ sinceKa' \in 0..Keepalive
  BY <1>0, <1>3, Times DEF SessionTypeOK
<1>5. net' \subseteq Datagrams
  BY <1>0, <1>2, <1>3, Times DEF Send, Datagrams, SessionTypeOK
<1>6. SessionTypeOK'
  BY <1>0, <1>1, <1>4, <1>5 DEF SessionTypeOK, env
<1>7. /\ net' = net \/ Send("keepalive", key) \/ Send("data", key)
      /\ sinceKa' = sinceKa \/ Send("keepalive", key)
      /\ inbox' = inbox /\ peer' = peer /\ lost' = lost
  BY <1>1, <1>3 DEF env
<1> QED
  BY <1>1, <1>2, <1>4, <1>6, <1>7, LoopStep

\* The stall check, which may end the session.
LEMMA StallCheckStep ==
    ASSUME SessionInv, StallCheck
    PROVE  SessionInv'
<1>0. SessionTypeOK /\ Control
  BY DEF SessionInv
<1>1. stage = "stall" /\ Looping
  BY DEF StallCheck, Looping
<1>2. sinceKa < Keepalive
  BY <1>0, <1>1 DEF Control
<1>3. CASE Exit("stalled")
  <2>1. "stalled" \in Reasons /\ "stalled" # "handshakeFailed" /\ "stalled" # "rekeyFailed"
    BY DEF Reasons
  <2> QED
    BY <1>3, <2>1, ExitStep
<1>4. CASE stage' = "rekey"
  <2>1. UNCHANGED <<reason, hs, key, attempts, late, sinceSent, inProgress, sinceKey, sinceKa,
                    net, ticked, tunQueue, appSent, inbox, peer, lost, errors>>
    BY <1>4 DEF StallCheck, Exit, loop, env
  <2>2. /\ udpIn' \in BOOLEAN /\ tunIn' \in BOOLEAN /\ sinceProgress' \in 0..StallSeconds
        /\ unanswered' \in 0..StallSeconds
    <3>1. \/ UNCHANGED <<udpIn, tunIn, sinceProgress, unanswered>>
          \/ udpIn' = FALSE /\ tunIn' = FALSE /\ sinceProgress' = 0 /\ unanswered' = 0
      BY <1>4 DEF StallCheck, Exit, loop, env
    <3>2. 0 \in 0..StallSeconds
      BY Times
    <3> QED
      BY <1>0, <3>1, <3>2 DEF SessionTypeOK
  <2>3. SessionTypeOK' /\ Looping'
    BY <1>0, <1>4, <2>1, <2>2 DEF SessionTypeOK, Looping
  <2> QED
    BY <1>1, <1>2, <2>1, <2>3, LoopStep
<1> QED
  BY <1>3, <1>4 DEF StallCheck

\* A packet of the device is sent.
LEMMA ReadTunStep ==
    ASSUME SessionInv, ReadTun
    PROVE  SessionInv'
<1>0. SessionTypeOK /\ Control
  BY DEF SessionInv
<1>1. /\ stage = "tun" /\ stage' = "udp" /\ tunQueue' = FALSE
      /\ UNCHANGED <<reason, hs, key, attempts, late, sinceSent, inProgress, sinceKey, sinceKa,
                     sinceProgress, udpIn, ticked, appSent, inbox, peer, lost, errors,
                     unanswered>>
  BY DEF ReadTun
<1>2. Looping /\ Looping' /\ key \in Ids /\ sinceKa < Keepalive
  BY <1>0, <1>1 DEF Looping, Control
<1>3. (net' = net \/ Send("data", key)) /\ tunIn' \in BOOLEAN
  BY <1>0 DEF ReadTun, SessionTypeOK
<1>4. net' \subseteq Datagrams
  BY <1>0, <1>2, <1>3, Times DEF Send, Datagrams, SessionTypeOK
<1>5. SessionTypeOK'
  BY <1>0, <1>1, <1>3, <1>4 DEF SessionTypeOK
<1> QED
  BY <1>1, <1>2, <1>3, <1>5, LoopStep

\* The app's packet is in the device.
LEMMA AppSendsStep ==
    ASSUME SessionInv, AppSends
    PROVE  SessionInv'
<1>0. SessionTypeOK /\ Control
  BY DEF SessionInv
<1>1. /\ stage = "select" /\ tunQueue' = TRUE /\ appSent' = TRUE
      /\ UNCHANGED <<stage, reason, hs, key, attempts, late, sinceSent, loop, net, ticked, inbox,
                     peer, lost, errors, unanswered>>
  BY DEF AppSends
<1>2. Looping /\ Looping' /\ ((stage' = "select" => ~ticked') => sinceKa' < Keepalive)
  BY <1>0, <1>1 DEF Looping, Control, loop
<1>3. SessionTypeOK'
  BY <1>0, <1>1 DEF SessionTypeOK, loop
<1>4. UNCHANGED <<inProgress, sinceKey, sinceKa>>
  BY <1>1 DEF loop
<1> QED
  BY <1>1, <1>2, <1>3, <1>4, LoopStep

\* A key that was not renewed in time is renewed only once the peer has it
\* confirmed, if nothing was lost.
LEMMA RenewalIsLate ==
    ASSUME SessionInv, sinceKey >= KeyLife
    PROVE  ~Confirming
<1>1. /\ sinceKey \in Nat /\ sinceKa \in Nat /\ sinceKa <= Keepalive
      /\ \A m \in net : m.age \in Nat /\ m.age <= Latency
  BY Times DEF SessionInv, SessionTypeOK, Datagrams
<1>2. ~(sinceKey <= sinceKa)
  BY <1>1, LatencyAssumption, Times
<1>3. \A m \in net : ~(sinceKey <= Keepalive + m.age)
  BY <1>1, LatencyAssumption, Times
<1> QED
  BY <1>2, <1>3 DEF Confirming

\* The key is renewed, or its renewal is given up.
LEMMA RekeyCheckStep ==
    ASSUME SessionInv, RekeyCheck
    PROVE  SessionInv'
<1>0. /\ SessionTypeOK /\ Control /\ OneGreeting /\ InTime
      /\ AttemptsLost /\ PeerKeys /\ GivesUpAfterLosses
  BY DEF SessionInv
<1>1. stage = "rekey" /\ Looping /\ key \in Ids /\ sinceKa < Keepalive /\ reason = "none"
  BY <1>0 DEF RekeyCheck, Looping, Control
<1>2. CASE RekeyGivesUp /\ Exit("rekeyFailed")
  <2>1. inProgress /\ attempts >= MaxAttempts
    BY <1>2 DEF RekeyGivesUp
  <2>2. /\ peer.alive => lost + late >= MaxAttempts - 1
        /\ RoundTrip < RekeyResend => late = 0
    BY <1>0, <1>1, <2>1, Times DEF AttemptsLost, SessionTypeOK
  <2>3. "rekeyFailed" \in Reasons /\ "rekeyFailed" # "handshakeFailed"
    BY DEF Reasons
  <2> QED
    BY <1>2, <2>2, <2>3, ExitStep
<1>3. CASE stage' = "tun" /\ UNCHANGED <<reason, hs, key, attempts, late, sinceSent, loop, net, env>>
  <2>1. SessionTypeOK' /\ Looping'
    BY <1>0, <1>3 DEF SessionTypeOK, Looping, loop, env
  <2>2. UNCHANGED <<inProgress, sinceKey, sinceKa, inbox, peer, lost>>
    BY <1>3 DEF loop, env
  <2> QED
    BY <1>1, <1>3, <2>1, <2>2, LoopStep
<1>4. CASE /\ sinceKey >= KeyLife /\ ~RekeyGivesUp
           /\ ~inProgress \/ sinceSent >= RekeyResend
           /\ CreateInitiation
           /\ stage' = "tun" /\ sinceSent' = 0 /\ inProgress' = TRUE
           /\ attempts' = attempts + 1 /\ GiveUpLast
           /\ UNCHANGED <<reason, key, sinceKey, sinceKa, sinceProgress, tunIn, udpIn, env>>
  <2>1. /\ hs' \in Ids /\ hs' \notin {hs, key, peer.next, peer.cur}
        /\ \A m \in net \cup inbox : m.id # hs'
        /\ net' = net \cup {[type |-> "init", id |-> hs', age |-> 0]}
    BY <1>0, <1>4, NewInitiation
  <2>2. RoundTrip < RekeyResend /\ inProgress => ~Pending
    BY <1>0, <1>4, PendingIsYoung, Times DEF SessionTypeOK
  <2> DEFINE new == [type |-> "init", id |-> hs', age |-> 0]
  <2>3. \A m \in net' : m \in net \/ m = new
    BY <2>1
  <2>4. Greeting(new) /\ new.id = hs' /\ new.type = "init" /\ new.age = 0 /\ new \in net'
    BY <2>1 DEF Greeting
  <2>5. /\ Pending' /\ Waiting' /\ Looping' /\ (\A m \in net' : m.id = hs' => m = new)
        /\ inbox' = inbox /\ peer' = peer /\ lost' = lost /\ errors' = errors
        /\ \A m \in inbox : m.id # hs'
    BY <1>4, <2>1, <2>3, <2>4 DEF Pending, Waiting, Looping, env
  <2>6. attempts' \in 0..MaxAttempts /\ attempts' >= 1
    BY <1>0, <1>1, <1>4, Times DEF SessionTypeOK, RekeyGivesUp, Control
  <2>7. SessionTypeOK'
    <3>1. new \in Datagrams
      BY <2>1, Times DEF Datagrams
    <3>2. net' \subseteq Datagrams /\ sinceSent' \in 0..Longest
      BY <1>0, <1>4, <2>1, <3>1, Times DEF SessionTypeOK
    <3>3. late' \in Nat
      BY <1>0, <1>4 DEF SessionTypeOK, GiveUpLast
    <3> QED
      BY <1>0, <1>4, <2>1, <2>6, <3>2, <3>3 DEF SessionTypeOK, env
  <2> HIDE DEF new
  <2>8. Control'
    BY <1>1, <1>4, <2>1, <2>5, <2>6 DEF Control
  <2>9. OneGreeting'
    BY <1>0, <1>1, <1>4, <2>1, <2>3, <2>4, <2>5, OneNewGreeting
  <2>10. InTime'
    BY <1>4, <2>4, <2>5 DEF InTime
  <2>11. AttemptsLost'
    <3>1. late' = (IF Pending THEN late + 1 ELSE late) /\ late \in Nat /\ lost \in Nat
      BY <1>0, <1>4 DEF GiveUpLast, SessionTypeOK
    <3>2. ~inProgress => ~Pending /\ late = 0
      BY <1>0, <1>1 DEF AttemptsLost, Control, OneGreeting, Pending, Greeting
    <3>3. peer.alive => attempts <= lost + late'
      BY <1>0, <1>1, <3>1, <3>2, Times DEF AttemptsLost, Control, SessionTypeOK
    <3>4. RoundTrip < RekeyResend => late' = 0
      BY <1>0, <1>1, <2>2, <3>1, <3>2 DEF AttemptsLost
    <3> QED
      BY <1>0, <1>4, <2>5, <3>1, <3>3, <3>4 DEF AttemptsLost, SessionTypeOK, Looping
  <2>12. PeerKeys'
    <3> SUFFICES ASSUME lost = 0, peer.alive PROVE PeerKeys'
      BY <2>5 DEF PeerKeys
    <3>1. CASE ~inProgress
      <4>1. peer.cur = key /\ peer.next = NoKey
        BY <1>0, <1>1, <1>4, <3>1, RenewalIsLate DEF PeerKeys
      <4>2. \A m \in net : m.id # NoKey
        BY <1>0, Times DEF SessionTypeOK, Datagrams
      <4> QED
        BY <1>1, <1>4, <2>3, <2>4, <2>5, <4>1, <4>2, Times DEF PeerKeys
    <3>2. CASE inProgress
      <4>1. /\ peer.cur = key /\ peer.next # key
            /\ \A m \in net : ~Greeting(m) => m.id # peer.next
        BY <1>0, <1>1, <3>2 DEF PeerKeys
      <4> QED
        BY <1>4, <2>3, <2>4, <2>5, <4>1 DEF PeerKeys
    <3> QED
      BY <3>1, <3>2
  <2>13. GivesUpAfterLosses'
    BY <1>1, <1>4 DEF GivesUpAfterLosses
  <2> QED
    BY <2>7, <2>8, <2>9, <2>10, <2>11, <2>12, <2>13 DEF SessionInv
<1> QED
  BY <1>2, <1>3, <1>4 DEF RekeyCheck

\* What came is read; a response to the last initiation gives the new key.
LEMMA ReadUdpStep ==
    ASSUME SessionInv, ReadUdp
    PROVE  SessionInv'
<1>0. /\ SessionTypeOK /\ Control /\ OneGreeting /\ InTime
      /\ AttemptsLost /\ PeerKeys /\ GivesUpAfterLosses
  BY DEF SessionInv
<1>1. /\ stage = "udp" /\ stage' = "select" /\ ticked' = FALSE /\ inbox' = {}
      /\ udpIn' \in BOOLEAN
      /\ UNCHANGED <<reason, hs, sinceSent, sinceKa, sinceProgress, tunIn, net, tunQueue,
                     appSent, peer, lost, errors, unanswered>>
  BY <1>0 DEF ReadUdp, SessionTypeOK
<1>2. /\ Looping /\ Looping' /\ sinceKa < Keepalive /\ reason = "none"
      /\ key \in Ids /\ hs \in Ids
  BY <1>0, <1>1 DEF Control, Looping
<1>3. InTime'
  BY <1>0, <1>1 DEF InTime
<1>4. GivesUpAfterLosses'
  BY <1>1, <1>2 DEF GivesUpAfterLosses
<1>5. CASE Consumes(inbox)
  <2> DEFINE got == [type |-> "response", id |-> hs]
  <2>1. got \in inbox /\ got.type = "response" /\ got.id = hs
    BY <1>5 DEF Consumes
  <2> HIDE DEF got
  <2>2. key' = hs /\ sinceKey' = 0 /\ inProgress' = FALSE /\ attempts' = 0 /\ late' = 0
    BY <1>5 DEF ReadUdp
  <2>3. \A m \in net : Greeting(m) => m.id # hs
    BY <1>0, <1>1, <2>1 DEF OneGreeting
  <2>4. ~Waiting' /\ ~inProgress'
    BY <1>1, <2>2 DEF Waiting
  <2>5. SessionTypeOK'
    <3>1. 0 \in 0..MaxAttempts /\ 0 \in 0..KeyLife
      BY Times
    <3> QED
      BY <1>0, <1>1, <2>2, <3>1 DEF SessionTypeOK
  <2>6. Control'
    BY <1>1, <1>2, <2>2, <2>4 DEF Control
  <2>7. OneGreeting'
    BY <1>0, <1>1, <2>2, <2>3 DEF OneGreeting
  <2>8. AttemptsLost'
    BY <1>1, <2>2, <2>4 DEF AttemptsLost
  <2>9. PeerKeys'
    <3>1. lost = 0 /\ peer.alive => peer.next = hs
      BY <1>0, <1>1, <2>1 DEF PeerKeys
    <3>2. Confirming'
      BY <1>0, <1>1, <2>2 DEF Confirming, SessionTypeOK
    <3> QED
      BY <1>0, <1>1, <2>2, <2>3, <3>1, <3>2 DEF PeerKeys, Greeting
  <2> QED
    BY <1>3, <1>4, <2>5, <2>6, <2>7, <2>8, <2>9 DEF SessionInv
<1>6. CASE ~Consumes(inbox)
  <2>1. UNCHANGED <<key, sinceKey, inProgress, attempts, late>>
    BY <1>6 DEF ReadUdp
  <2>2. \A m \in inbox : m.type = "response" => m.id # hs
    <3> SUFFICES ASSUME NEW m \in inbox, m.type = "response", m.id = hs PROVE FALSE
      OBVIOUS
    <3>1. m \in [type : {"response", "reply"}, id : Ids]
      BY <1>0 DEF SessionTypeOK
    <3>2. m = [type |-> "response", id |-> hs]
      BY <3>1
    <3> QED
      BY <1>6, <3>2 DEF Consumes
  <2>3. (Pending' <=> Pending) /\ (Waiting' <=> Waiting)
    BY <1>1, <1>2, <2>1, <2>2 DEF Waiting, Pending
  <2>4. SessionTypeOK'
    BY <1>0, <1>1, <2>1 DEF SessionTypeOK
  <2>5. Control'
    BY <1>0, <1>1, <1>2, <2>1, <2>3 DEF Control
  <2>6. OneGreeting'
    BY <1>0, <1>1, <2>1 DEF OneGreeting
  <2>7. AttemptsLost'
    BY <1>0, <1>1, <1>2, <2>1, <2>3 DEF AttemptsLost
  <2>8. PeerKeys'
    BY <1>0, <1>1, <1>2, <2>1 DEF PeerKeys, Confirming
  <2> QED
    BY <1>3, <1>4, <2>4, <2>5, <2>6, <2>7, <2>8 DEF SessionInv
<1> QED
  BY <1>5, <1>6

\* What came is left for the next pass.
LEMMA ReadUdpErrorStep ==
    ASSUME SessionInv, ReadUdpError
    PROVE  SessionInv'
<1>0. SessionTypeOK /\ Control
  BY DEF SessionInv
<1>1. /\ stage = "udp" /\ stage' = "select" /\ ticked' = FALSE
      /\ errors < MaxErrors /\ errors' = errors + 1
      /\ UNCHANGED <<reason, hs, key, attempts, late, sinceSent, loop, net, tunQueue, appSent,
                     inbox, peer, lost, unanswered>>
  BY DEF ReadUdpError
<1>2. Looping /\ Looping' /\ sinceKa < Keepalive
  BY <1>0, <1>1 DEF Looping, Control
<1>3. errors' \in 0..MaxErrors
  BY <1>0, <1>1, Times DEF SessionTypeOK
<1>4. SessionTypeOK'
  BY <1>0, <1>1, <1>3 DEF SessionTypeOK, loop
<1>5. UNCHANGED <<inProgress, sinceKey, sinceKa>>
  BY <1>1 DEF loop
<1> QED
  BY <1>1, <1>2, <1>4, <1>5, LoopStep

-----------------------------------------------------------------------------
(* Time, the network and the peer.                                         *)

\* A second passes.
LEMMA TickStep ==
    ASSUME SessionInv, Tick
    PROVE  SessionInv'
<1>0. /\ SessionTypeOK /\ Control /\ OneGreeting /\ InTime
      /\ AttemptsLost /\ PeerKeys /\ GivesUpAfterLosses
  BY DEF SessionInv
<1>1. /\ stage = "wait" \/ (stage = "select" /\ ~ticked)
      /\ inbox = {} /\ ticked' = TRUE /\ appSent' = FALSE
      /\ net' = {[m EXCEPT !.age = @ + 1] : m \in net}
      /\ UNCHANGED <<stage, reason, hs, key, attempts, late, inProgress, tunIn, udpIn, tunQueue,
                     inbox, peer, lost, errors>>
  BY DEF Tick
<1>2. /\ sinceSent' \in 0..Longest /\ sinceSent' <= sinceSent + 1
      /\ sinceKey' \in 0..KeyLife /\ sinceKey' <= sinceKey + 1
      /\ sinceKa' \in 0..Keepalive
      /\ sinceKa < Keepalive => sinceKa' = sinceKa + 1
      /\ sinceProgress' \in 0..StallSeconds /\ unanswered' \in 0..StallSeconds
  <2>1. sinceSent' = Later(sinceSent, Longest) /\ sinceKey' = Later(sinceKey, KeyLife)
        /\ sinceKa' = Later(sinceKa, Keepalive)
        /\ sinceProgress' = Later(sinceProgress, StallSeconds)
        /\ unanswered' \in {Later(unanswered, StallSeconds), 0}
    BY DEF Tick
  <2>2. /\ sinceSent \in 0..Longest /\ sinceKey \in 0..KeyLife /\ sinceKa \in 0..Keepalive
        /\ sinceProgress \in 0..StallSeconds /\ unanswered \in 0..StallSeconds
    BY <1>0 DEF SessionTypeOK
  <2>3. sinceSent' \in 0..Longest /\ sinceSent' <= sinceSent + 1
    BY <2>1, <2>2, Times DEF Later
  <2>4. sinceKey' \in 0..KeyLife /\ sinceKey' <= sinceKey + 1
    BY <2>1, <2>2, Times DEF Later
  <2>5. sinceKa' \in 0..Keepalive /\ (sinceKa < Keepalive => sinceKa' = sinceKa + 1)
    BY <2>1, <2>2, Times DEF Later
  <2>6. sinceProgress' \in 0..StallSeconds /\ unanswered' \in 0..StallSeconds
    BY <2>1, <2>2, Times DEF Later
  <2> QED
    BY <2>3, <2>4, <2>5, <2>6
<1>3. \A m \in net : /\ m \in Datagrams /\ m.age < Latency
                     /\ [m EXCEPT !.age = @ + 1]
                          = [type |-> m.type, id |-> m.id, age |-> m.age + 1]
  BY <1>0 DEF Tick, SessionTypeOK, Datagrams
<1>4. \A n \in net' : \E m \in net : /\ n = [type |-> m.type, id |-> m.id, age |-> m.age + 1]
                                     /\ n.type = m.type /\ n.id = m.id /\ n.age = m.age + 1
  BY <1>1, <1>3
<1>5. \A m \in net : \E n \in net' : n.type = m.type /\ n.id = m.id /\ n.age = m.age + 1
  <2> SUFFICES ASSUME NEW m \in net
               PROVE  \E n \in net' : n.type = m.type /\ n.id = m.id /\ n.age = m.age + 1
    OBVIOUS
  <2>1. [m EXCEPT !.age = @ + 1] \in net'
    BY <1>1
  <2> QED
    BY <1>3, <2>1
<1>6. (Pending' <=> Pending) /\ (Waiting' <=> Waiting) /\ (Looping' <=> Looping)
      /\ stage # "exited"
  <2>1. ASSUME Pending' PROVE Pending
    <3>1. PICK n \in net' : Greeting(n) /\ n.id = hs
      BY <1>1, <2>1 DEF Pending, Greeting
    <3>2. PICK m \in net : n.type = m.type /\ n.id = m.id
      BY <1>4
    <3> QED
      BY <3>1, <3>2 DEF Pending, Greeting
  <2>2. ASSUME Pending PROVE Pending'
    <3>1. PICK m \in net : Greeting(m) /\ m.id = hs
      BY <1>1, <2>2 DEF Pending, Greeting
    <3>2. PICK n \in net' : n.type = m.type /\ n.id = m.id
      BY <1>5
    <3> QED
      BY <1>1, <3>1, <3>2 DEF Pending, Greeting
  <2> QED
    BY <1>1, <2>1, <2>2 DEF Looping, Waiting
<1>7. SessionTypeOK'
  <2>1. net' \subseteq Datagrams
    <3> SUFFICES ASSUME NEW n \in net' PROVE n \in Datagrams
      OBVIOUS
    <3>1. PICK m \in net : n = [type |-> m.type, id |-> m.id, age |-> m.age + 1]
      BY <1>4
    <3>2. /\ m.type \in {"init", "response", "keepalive", "data", "reply"} /\ m.id \in Ids
          /\ m.age \in 0..Latency /\ m.age < Latency
      BY <1>3 DEF Datagrams
    <3>3. m.age + 1 \in 0..Latency
      BY <3>2, Times
    <3> QED
      BY <3>1, <3>2, <3>3 DEF Datagrams
  <2> QED
    BY <1>0, <1>1, <1>2, <2>1 DEF SessionTypeOK
<1>8. Control'
  BY <1>0, <1>1, <1>6 DEF Control, Looping
<1>9. OneGreeting'
  <2>1. ASSUME NEW m \in net', NEW n \in net', Greeting(m), Greeting(n), m.id = n.id
        PROVE  m = n
    <3>1. PICK x \in net : m = [type |-> x.type, id |-> x.id, age |-> x.age + 1]
                           /\ m.type = x.type /\ m.id = x.id
      BY <1>4
    <3>2. PICK y \in net : n = [type |-> y.type, id |-> y.id, age |-> y.age + 1]
                           /\ n.type = y.type /\ n.id = y.id
      BY <1>4
    <3>3. Greeting(x) /\ Greeting(y)
      BY <2>1, <3>1, <3>2 DEF Greeting
    <3>4. x = y
      BY <1>0, <1>6, <2>1, <3>1, <3>2, <3>3 DEF OneGreeting
    <3> QED
      BY <3>1, <3>2, <3>4
  <2>2. \A m \in net' : Greeting(m) => m.id # key'
    BY <1>0, <1>1, <1>4, <1>6 DEF OneGreeting, Greeting
  <2>3. ASSUME NEW m \in net', NEW n \in net', Greeting(m), ~Greeting(n) PROVE m.id # n.id
    <3>1. PICK x \in net : m.type = x.type /\ m.id = x.id
      BY <1>4
    <3>2. PICK y \in net : n.type = y.type /\ n.id = y.id
      BY <1>4
    <3> QED
      BY <1>0, <1>6, <2>3, <3>1, <3>2 DEF OneGreeting, Greeting
  <2> QED
    BY <1>1, <2>1, <2>2, <2>3 DEF OneGreeting
<1>10. InTime'
  <2>1. sinceSent \in Nat /\ sinceSent' \in Nat /\ \A m \in net : m.age \in Nat
    BY <1>0, <1>2, Times DEF SessionTypeOK, Datagrams
  <2>2. \A n \in net' : n.type = "init" /\ n.id = hs => sinceSent' <= n.age
    BY <1>0, <1>2, <1>4, <2>1 DEF InTime
  <2>3. \A n \in net' : n.type = "response" /\ n.id = hs => sinceSent' <= Latency + n.age
    BY <1>0, <1>2, <1>4, <2>1, Times DEF InTime
  <2> QED
    BY <1>1, <2>2, <2>3 DEF InTime
<1>11. AttemptsLost'
  BY <1>0, <1>1, <1>6 DEF AttemptsLost
<1>12. ASSUME Looping, Confirming PROVE Confirming'
  <2>1. /\ sinceKey \in Nat /\ sinceKey' \in Nat /\ sinceKa \in Nat
        /\ sinceKa' = sinceKa + 1 /\ \A m \in net : m.age \in Nat
    BY <1>0, <1>1, <1>2, <1>12, Times DEF SessionTypeOK, Datagrams, Control, Looping
  <2>2. CASE sinceKey <= sinceKa
    BY <1>2, <2>1, <2>2 DEF Confirming
  <2>3. CASE \E m \in net : /\ m.type \in {"keepalive", "data"} /\ m.id = key
                            /\ sinceKey <= Keepalive + m.age
    <3>1. PICK m \in net : /\ m.type \in {"keepalive", "data"} /\ m.id = key
                           /\ sinceKey <= Keepalive + m.age
      BY <2>3
    <3>2. PICK n \in net' : n.type = m.type /\ n.id = m.id /\ n.age = m.age + 1
      BY <1>5
    <3>3. sinceKey' <= Keepalive + n.age
      BY <1>2, <2>1, <3>1, <3>2, Times
    <3> QED
      BY <1>1, <3>1, <3>2, <3>3 DEF Confirming
  <2> QED
    BY <1>12, <2>2, <2>3 DEF Confirming
<1>13. PeerKeys'
  <2> SUFFICES ASSUME lost = 0, peer.alive PROVE PeerKeys'
    BY <1>1 DEF PeerKeys
  <2>1. \A m \in net' : m.type = "response" /\ m.id = hs => peer.next = hs
    BY <1>0, <1>4, <1>6 DEF PeerKeys
  <2>2. \A m \in net' : m.type = "init" => \E n \in net' : n.type = "init" /\ n.id = hs
    BY <1>0, <1>4, <1>5, <1>6 DEF PeerKeys
  <2>3. Looping /\ inProgress =>
            /\ peer.cur = key /\ peer.next # key
            /\ \A m \in net' : ~Greeting(m) => m.id # peer.next
    BY <1>0, <1>4, <1>6 DEF PeerKeys, Greeting
  <2>4. Looping /\ ~inProgress => \/ peer.cur = key /\ peer.next = NoKey
                                  \/ peer.next = key /\ Confirming'
    BY <1>0, <1>6, <1>12 DEF PeerKeys
  <2> QED
    BY <1>1, <1>6, <2>1, <2>2, <2>3, <2>4 DEF PeerKeys
<1>14. GivesUpAfterLosses'
  BY <1>0, <1>1 DEF GivesUpAfterLosses, Control
<1> QED
  BY <1>7, <1>8, <1>9, <1>10, <1>11, <1>13, <1>14 DEF SessionInv

\* A datagram for the process is there to be read.
LEMMA ArriveStep ==
    ASSUME SessionInv, NEW m \in net, Arrive(m)
    PROVE  SessionInv'
<1>0. /\ SessionTypeOK /\ Control /\ OneGreeting /\ InTime
      /\ AttemptsLost /\ PeerKeys /\ GivesUpAfterLosses
  BY DEF SessionInv
<1> DEFINE new == [type |-> m.type, id |-> m.id]
<1>1. /\ stage \in {"wait", "select"} /\ m.type \in {"response", "reply"}
      /\ net' = net \ {m} /\ inbox' = inbox \cup {new}
      /\ UNCHANGED <<stage, reason, hs, key, attempts, late, sinceSent, loop, ticked, tunQueue,
                     appSent, peer, lost, errors, unanswered>>
  BY DEF Arrive, Idle
<1>2. new \in inbox' /\ new.type = m.type /\ new.id = m.id
      /\ new \in [type : {"response", "reply"}, id : Ids] /\ m.age \in 0..Latency
  BY <1>0, <1>1 DEF SessionTypeOK, Datagrams
<1> HIDE DEF new
<1>3. /\ (Pending' <=> Pending) /\ (Waiting' <=> Waiting) /\ (Looping' <=> Looping)
      /\ stage # "exited" /\ inProgress' = inProgress
  BY <1>1, <1>2 DEF Looping, Waiting, Pending, Greeting, loop
<1>4. SessionTypeOK'
  BY <1>0, <1>1, <1>2 DEF SessionTypeOK, loop
<1>5. Control'
  BY <1>0, <1>1, <1>3 DEF Control, loop
<1>6. OneGreeting'
  BY <1>0, <1>1, <1>2, <1>3 DEF OneGreeting, Greeting
<1>7. InTime'
  <2>1. m.type = "response" /\ m.id = hs => sinceSent <= RoundTrip
    BY <1>0, PendingIsYoung DEF Pending, Greeting
  <2> QED
    BY <1>0, <1>1, <1>2, <2>1 DEF InTime
<1>8. AttemptsLost'
  BY <1>0, <1>1, <1>3 DEF AttemptsLost
<1>9. PeerKeys'
  <2>1. Confirming => Confirming'
    BY <1>1 DEF Confirming, loop
  <2> QED
    BY <1>0, <1>1, <1>2, <1>3, <2>1 DEF PeerKeys, Greeting
<1>10. GivesUpAfterLosses'
  BY <1>0, <1>1 DEF GivesUpAfterLosses, Control
<1> QED
  BY <1>4, <1>5, <1>6, <1>7, <1>8, <1>9, <1>10 DEF SessionInv

\* The network loses a datagram.
LEMMA LoseStep ==
    ASSUME SessionInv, NEW m \in net, Lose(m)
    PROVE  SessionInv'
<1>0. /\ SessionTypeOK /\ Control /\ OneGreeting /\ InTime
      /\ AttemptsLost /\ PeerKeys /\ GivesUpAfterLosses
  BY DEF SessionInv
<1>1. /\ stage \in {"wait", "select"} /\ lost < MaxLost /\ lost' = lost + 1
      /\ net' = net \ {m}
      /\ UNCHANGED <<stage, reason, hs, key, attempts, late, sinceSent, loop, ticked, tunQueue,
                     appSent, inbox, peer, errors, unanswered>>
  BY DEF Lose, Idle
<1>2. /\ (Pending' => Pending) /\ (Waiting' <=> Waiting) /\ (Looping' <=> Looping)
      /\ stage # "exited" /\ inProgress' = inProgress
  BY <1>1 DEF Looping, Waiting, Pending, loop
<1>3. lost \in Nat /\ lost' \in 0..MaxLost /\ lost' # 0
  BY <1>0, <1>1, Times DEF SessionTypeOK
<1>4. SessionTypeOK'
  BY <1>0, <1>1, <1>3 DEF SessionTypeOK, loop
<1>5. Control'
  BY <1>0, <1>1, <1>2 DEF Control, loop
<1>6. OneGreeting' /\ InTime'
  BY <1>0, <1>1, <1>2 DEF OneGreeting, InTime
<1>7. AttemptsLost'
  <2>1. errors \in Nat /\ attempts \in Nat /\ late \in Nat /\ lost' = lost + 1
    BY <1>0, <1>1, Times DEF SessionTypeOK
  <2>2. peer.alive /\ stage = "wait" => attempts <= lost' + errors + late
    BY <1>0, <1>3, <2>1 DEF AttemptsLost
  <2>3. peer.alive /\ Looping /\ inProgress => attempts <= lost' + late
    BY <1>0, <1>3, <2>1 DEF AttemptsLost
  <2>4. lost' \in Nat
    BY <1>3, <2>1
  <2> QED
    BY <1>0, <1>1, <1>2, <2>1, <2>2, <2>3, <2>4 DEF AttemptsLost
<1>8. PeerKeys'
  BY <1>3 DEF PeerKeys
<1>9. GivesUpAfterLosses'
  BY <1>0, <1>1 DEF GivesUpAfterLosses, Control
<1> QED
  BY <1>4, <1>5, <1>6, <1>7, <1>8, <1>9 DEF SessionInv

\* The peer stops answering.
LEMMA PeerDiesStep ==
    ASSUME SessionInv, PeerDies
    PROVE  SessionInv'
<1>0. /\ SessionTypeOK /\ Control /\ OneGreeting /\ InTime
      /\ AttemptsLost /\ PeerKeys /\ GivesUpAfterLosses
  BY DEF SessionInv
<1>1. /\ peer' = [peer EXCEPT !.alive = FALSE]
      /\ UNCHANGED <<stage, reason, hs, key, attempts, late, sinceSent, loop, net, ticked,
                     tunQueue, appSent, inbox, lost, errors, unanswered>>
  BY DEF PeerDies
<1>2. peer' \in [next : Ids \cup {NoKey}, cur : Ids \cup {NoKey}, alive : BOOLEAN]
      /\ ~peer'.alive
  BY <1>0, <1>1 DEF SessionTypeOK
<1>3. SessionTypeOK'
  BY <1>0, <1>1, <1>2 DEF SessionTypeOK, loop
<1>4. Control' /\ InTime'
  BY <1>0, <1>1 DEF Control, InTime, Looping, Waiting, loop
<1>5. OneGreeting'
  BY <1>0, <1>1 DEF OneGreeting, Looping, Waiting, Pending, loop
<1>6. AttemptsLost'
  BY <1>0, <1>1, <1>2 DEF AttemptsLost, Looping, loop
<1>7. PeerKeys' /\ GivesUpAfterLosses'
  BY <1>0, <1>1, <1>2 DEF PeerKeys, GivesUpAfterLosses
<1> QED
  BY <1>3, <1>4, <1>5, <1>6, <1>7 DEF SessionInv

\* The peer answers an initiation.
LEMMA PeerAnswers ==
    ASSUME SessionInv, NEW m \in net, PeerTakes(m), peer.alive, m.type = "init"
    PROVE  SessionInv'
<1>0. /\ SessionTypeOK /\ Control /\ OneGreeting /\ InTime
      /\ AttemptsLost /\ PeerKeys /\ GivesUpAfterLosses
  BY DEF SessionInv
<1> DEFINE response == [type |-> "response", id |-> m.id, age |-> 0]
<1>1. /\ stage \in {"wait", "select"} /\ peer' = [peer EXCEPT !.next = m.id]
      /\ net' = {n \in net : n.type = "init" => Newer(n, m)} \cup {response}
      /\ UNCHANGED <<stage, reason, hs, key, attempts, late, sinceSent, loop, ticked, tunQueue,
                     appSent, inbox, lost, errors, unanswered>>
  BY DEF PeerTakes, Idle
<1>2. Greeting(m) /\ m.id \in Ids /\ m.age \in 0..Latency /\ stage # "exited"
  BY <1>0, <1>1 DEF Greeting, SessionTypeOK, Datagrams
<1>3. /\ response \in net' /\ response.type = "response" /\ response.id = m.id
      /\ response.age = 0 /\ Greeting(response) /\ response \in Datagrams
  BY <1>1, <1>2, Times DEF Greeting, Datagrams
<1> HIDE DEF response
<1>4. m \notin net' /\ \A n \in net' : n = response \/ (n \in net /\ n # m)
  BY <1>1, <1>3 DEF Newer
<1>5. \A n \in net : n.type # "init" => n \in net'
  BY <1>1
<1>6. m.id # hs => \A n \in net : n.type = "init" /\ n.id = hs => n \in net'
  BY <1>1 DEF Newer
<1>7. m.id = hs => \A n \in net' : n.type # "init"
  BY <1>1, <1>3 DEF Newer
<1>8. /\ Pending' <=> Pending
      /\ (Waiting' <=> Waiting) /\ (Looping' <=> Looping) /\ inProgress' = inProgress
  <2>1. Pending => Pending'
    <3>1. CASE m.id = hs
      BY <1>1, <1>3, <3>1 DEF Pending, Greeting
    <3>2. CASE m.id # hs
      BY <1>1, <1>5, <1>6, <3>2 DEF Pending, Greeting
    <3> QED
      BY <3>1, <3>2
  <2>2. Pending' => Pending
    BY <1>1, <1>2, <1>3, <1>4 DEF Pending, Greeting
  <2> QED
    BY <1>1, <2>1, <2>2 DEF Looping, Waiting, loop
<1>9. /\ peer' \in [next : Ids \cup {NoKey}, cur : Ids \cup {NoKey}, alive : BOOLEAN]
      /\ peer'.next = m.id /\ peer'.cur = peer.cur /\ peer'.alive
  BY <1>0, <1>1, <1>2 DEF SessionTypeOK
<1>10. SessionTypeOK'
  BY <1>0, <1>1, <1>3, <1>9 DEF SessionTypeOK, loop
<1>11. Control'
  BY <1>0, <1>1, <1>8 DEF Control, loop
<1>12. OneGreeting'
  <2>1. /\ m.id # key /\ \A n \in net : n # m => n.id # m.id
        /\ \A n \in inbox : n.type = "response" => n.id # m.id
    BY <1>0, <1>2 DEF OneGreeting
  <2>2. \A n, o \in net' : Greeting(n) /\ Greeting(o) /\ n.id = o.id => n = o
    BY <1>0, <1>2, <1>3, <1>4, <2>1 DEF OneGreeting
  <2>3. \A n, o \in net' : Greeting(n) /\ ~Greeting(o) => n.id # o.id
    BY <1>0, <1>2, <1>3, <1>4, <2>1 DEF OneGreeting
  <2> QED
    BY <1>0, <1>1, <1>2, <1>3, <1>4, <2>1, <2>2, <2>3 DEF OneGreeting
<1>13. InTime'
  <2>1. m.id = hs => sinceSent <= Latency + response.age
    BY <1>0, <1>2, <1>3, Times DEF InTime, SessionTypeOK
  <2> QED
    BY <1>0, <1>1, <1>3, <1>4, <2>1 DEF InTime
<1>14. AttemptsLost'
  BY <1>0, <1>1, <1>8, <1>9 DEF AttemptsLost
<1>15. PeerKeys'
  <2> SUFFICES ASSUME lost = 0 PROVE PeerKeys'
    BY <1>1 DEF PeerKeys
  <2>1. PICK last \in net : last.type = "init" /\ last.id = hs
    BY <1>0, <1>2 DEF PeerKeys
  <2>2. \A n \in net \cup inbox : n.type = "response" => n.id # hs
    BY <1>0, <1>2, <2>1 DEF OneGreeting, Greeting
  <2>3. \A n \in net' \cup inbox' : n.type = "response" /\ n.id = hs => peer'.next = hs
    BY <1>1, <1>3, <1>4, <1>9, <2>2
  <2>4. \A n \in net' : n.type = "init" => \E o \in net' : o.type = "init" /\ o.id = hs
    BY <1>6, <1>7, <2>1
  <2>5. Looping => inProgress
    <3>1. key # hs
      BY <1>0, <1>2, <2>1 DEF OneGreeting, Greeting
    <3> QED
      BY <1>0, <3>1 DEF Control
  <2>6. Looping => /\ peer'.cur = key /\ peer'.next # key
                   /\ \A n \in net' : ~Greeting(n) => n.id # peer'.next
    <3>1. m.id # key /\ \A n \in net : ~Greeting(n) => n.id # m.id
      BY <1>0, <1>2 DEF OneGreeting
    <3> QED
      BY <1>0, <1>2, <1>3, <1>4, <1>9, <2>5, <3>1 DEF PeerKeys
  <2> QED
    BY <1>1, <1>8, <2>3, <2>4, <2>5, <2>6 DEF PeerKeys
<1>16. GivesUpAfterLosses'
  BY <1>0, <1>1, <1>2 DEF GivesUpAfterLosses, Control
<1> QED
  BY <1>10, <1>11, <1>12, <1>13, <1>14, <1>15, <1>16 DEF SessionInv

\* The peer takes a datagram with a key it has, or drops one.
LEMMA PeerReceives ==
    ASSUME SessionInv, NEW m \in net, PeerTakes(m), ~peer.alive \/ m.type # "init"
    PROVE  SessionInv'
<1>0. /\ SessionTypeOK /\ Control /\ OneGreeting /\ InTime
      /\ AttemptsLost /\ PeerKeys /\ GivesUpAfterLosses
  BY DEF SessionInv
<1> DEFINE reply == [type |-> "reply", id |-> m.id, age |-> 0]
<1>1. /\ stage \in {"wait", "select"} /\ m.type \in {"init", "keepalive", "data"}
      /\ net' = net \ {m} \/ net' = (net \ {m}) \cup {reply}
      /\ UNCHANGED <<stage, reason, hs, key, attempts, late, sinceSent, loop, ticked, tunQueue,
                     appSent, inbox, lost, errors, unanswered>>
  BY DEF PeerTakes, Idle, ToPeer
<1>2. m.id \in Ids /\ m.id # NoKey /\ stage # "exited"
  BY <1>0, <1>1, Times DEF SessionTypeOK, Datagrams
<1>3. reply.type = "reply" /\ reply.id = m.id /\ ~Greeting(reply) /\ reply \in Datagrams
  BY <1>2, Times DEF Greeting, Datagrams
<1> HIDE DEF reply
<1>4. /\ \A n \in net' : n \in net \/ n = reply
      /\ \A n \in net' : Greeting(n) \/ n.type = "response" \/ n.type = "init" => n \in net
      /\ \A n \in net : n # m => n \in net'
  BY <1>1, <1>3 DEF Greeting
<1>5. /\ \/ peer' = peer
         \/ /\ m.type # "init" /\ m.id \in {peer.next, peer.cur}
            /\ peer' = [peer EXCEPT !.cur = m.id, !.next = IF m.id = @ THEN NoKey ELSE @]
      /\ peer.alive /\ m.id \in {peer.next, peer.cur} =>
            peer' = [peer EXCEPT !.cur = m.id, !.next = IF m.id = @ THEN NoKey ELSE @]
  BY DEF PeerTakes
<1>6. peer' \in [next : Ids \cup {NoKey}, cur : Ids \cup {NoKey}, alive : BOOLEAN]
      /\ peer'.alive = peer.alive
  BY <1>0, <1>2, <1>5 DEF SessionTypeOK
<1>7. /\ (Pending' => Pending) /\ (Waiting' <=> Waiting) /\ (Looping' <=> Looping)
      /\ inProgress' = inProgress
  BY <1>1, <1>4 DEF Looping, Waiting, Pending, loop
<1>8. peer.alive => (Pending' <=> Pending) /\ ~Greeting(m)
  BY <1>1, <1>4, <1>7 DEF Pending, Greeting
<1>9. SessionTypeOK'
  <2>1. net' \subseteq Datagrams
    BY <1>0, <1>3, <1>4 DEF SessionTypeOK
  <2> QED
    BY <1>0, <1>1, <1>6, <2>1 DEF SessionTypeOK, loop
<1>10. Control'
  BY <1>0, <1>1, <1>7 DEF Control, loop
<1>11. OneGreeting'
  <2>1. reply \in net' /\ reply \notin net => ~Greeting(m)
    <3>1. Greeting(m) => ~peer.alive
      BY <1>8
    <3>2. ~peer.alive => net' = net \ {m}
      BY DEF PeerTakes
    <3> QED
      BY <3>1, <3>2
  <2>2. \A n \in net' : ~Greeting(n) => \E o \in net : ~Greeting(o) /\ o.id = n.id
    BY <1>3, <1>4, <2>1
  <2>3. \A n, o \in net' : Greeting(n) /\ ~Greeting(o) => n.id # o.id
    BY <1>0, <1>2, <1>4, <2>2 DEF OneGreeting
  <2>4. \A n \in net', o \in inbox : ~Greeting(n) /\ o.type = "response" => n.id # o.id
    BY <1>0, <1>2, <2>2 DEF OneGreeting
  <2> QED
    BY <1>0, <1>1, <1>2, <1>4, <2>3, <2>4 DEF OneGreeting
<1>12. InTime'
  BY <1>0, <1>1, <1>4 DEF InTime
<1>13. AttemptsLost'
  BY <1>0, <1>1, <1>6, <1>7, <1>8 DEF AttemptsLost
<1>14. PeerKeys'
  <2> SUFFICES ASSUME lost = 0, peer.alive PROVE PeerKeys'
    BY <1>1, <1>6 DEF PeerKeys
  <2>1. /\ \A n \in net \cup inbox : n.type = "response" /\ n.id = hs => peer.next = hs
        /\ \A n \in net : n.type = "init" => \E o \in net : o.type = "init" /\ o.id = hs
        /\ Looping /\ inProgress =>
              /\ peer.cur = key /\ peer.next # key
              /\ \A n \in net : ~Greeting(n) => n.id # peer.next
        /\ Looping /\ ~inProgress => \/ peer.cur = key /\ peer.next = NoKey
                                     \/ peer.next = key /\ Confirming
    BY <1>0, <1>2 DEF PeerKeys
  <2>2. \/ peer' = peer /\ m.id \notin {peer.next, peer.cur}
        \/ m.id = peer.next /\ peer'.cur = m.id /\ peer'.next = NoKey
        \/ m.id # peer.next /\ m.id = peer.cur /\ peer'.cur = m.id /\ peer'.next = peer.next
    BY <1>0, <1>5 DEF SessionTypeOK
  <2>3. ~Greeting(m) /\ m.type # "init"
    BY <1>8 DEF Greeting
  <2>4. \A n \in net' \cup inbox' : n.type = "response" /\ n.id = hs' => peer'.next = hs'
    <3> SUFFICES ASSUME NEW n \in net' \cup inbox', n.type = "response", n.id = hs
                 PROVE  peer'.next = hs
      BY <1>1
    <3>1. n \in net \cup inbox
      BY <1>1, <1>4
    <3>2. m.id # hs
      BY <1>0, <1>2, <2>3, <3>1 DEF OneGreeting, Greeting
    <3> QED
      BY <2>1, <2>2, <3>1, <3>2
  <2>6. \A n \in net' : n.type = "init" => \E o \in net' : o.type = "init" /\ o.id = hs
    BY <1>4, <2>1, <2>3
  <2>7. ASSUME Looping, inProgress
        PROVE  /\ peer'.cur = key /\ peer'.next # key
               /\ \A n \in net' : ~Greeting(n) => n.id # peer'.next
    <3>1. m.id # peer.next
      BY <2>1, <2>3, <2>7
    <3>2. peer'.cur = key /\ peer'.next = peer.next
      BY <2>1, <2>2, <2>7, <3>1
    <3> QED
      BY <1>3, <1>4, <2>1, <2>7, <3>1, <3>2
  <2>5. ASSUME Looping, ~inProgress
        PROVE  \/ peer'.cur = key /\ peer'.next = NoKey
               \/ peer'.next = key /\ Confirming'
    <3>1. CASE peer.cur = key /\ peer.next = NoKey
      BY <1>2, <2>2, <3>1
    <3>2. CASE peer.next = key /\ Confirming /\ m.id = key
      BY <2>2, <3>2
    <3>3. CASE peer.next = key /\ Confirming /\ m.id # key
      <4>1. Confirming'
        BY <1>1, <1>4, <3>3 DEF Confirming, loop
      <4> QED
        BY <2>2, <3>3, <4>1
    <3> QED
      BY <2>1, <2>5, <3>1, <3>2, <3>3
  <2> QED
    BY <1>1, <1>7, <2>4, <2>5, <2>6, <2>7 DEF PeerKeys
<1>15. GivesUpAfterLosses'
  BY <1>0, <1>1 DEF GivesUpAfterLosses, Control
<1> QED
  BY <1>9, <1>10, <1>11, <1>12, <1>13, <1>14, <1>15 DEF SessionInv

-----------------------------------------------------------------------------
(* The invariant.                                                          *)

\* It holds at first.
LEMMA SessionStarts == SessionInit => SessionInv
<1> SUFFICES ASSUME SessionInit PROVE SessionInv
  OBVIOUS
<1>1. SessionTypeOK
  <2>1. /\ 0 \in 0..MaxAttempts /\ 0 \in 0..Longest /\ 0 \in 0..KeyLife /\ 0 \in 0..Keepalive
        /\ 0 \in 0..StallSeconds /\ 0 \in 0..MaxLost /\ 0 \in 0..MaxErrors
    BY Times
  <2>2. peer \in [next : Ids \cup {NoKey}, cur : Ids \cup {NoKey}, alive : BOOLEAN]
    BY DEF SessionInit
  <2> QED
    BY <2>1, <2>2 DEF SessionInit, SessionTypeOK, Reasons
<1>2. ~Waiting /\ ~Looping /\ ~Pending /\ stage = "attempt"
  BY DEF SessionInit, Waiting, Looping, Pending
<1>3. Control /\ OneGreeting /\ InTime /\ AttemptsLost
  BY <1>2 DEF SessionInit, Control, OneGreeting, InTime, AttemptsLost
<1>4. PeerKeys /\ GivesUpAfterLosses
  BY <1>2 DEF SessionInit, PeerKeys, GivesUpAfterLosses
<1> QED
  BY <1>1, <1>3, <1>4 DEF SessionInv

\* Every step keeps it.
LEMMA SessionGoesOn == SessionInv /\ [SessionNext]_sessionVars => SessionInv'
<1> SUFFICES ASSUME SessionInv, [SessionNext]_sessionVars PROVE SessionInv'
  OBVIOUS
<1>1. CASE Handshake
  BY <1>1, AttemptStep, AttemptsOverStep, DeadlineStep, WaitReceivesStep DEF Handshake
<1>2. CASE Pass
  BY <1>2, WakeStep, StallCheckStep, RekeyCheckStep, ReadTunStep, ReadUdpStep DEF Pass
<1>3. CASE CleanExit
  <2>1. "clean" \in Reasons /\ "clean" # "handshakeFailed" /\ "clean" # "rekeyFailed"
    BY DEF Reasons
  <2> QED
    BY <1>3, <2>1, ExitStep DEF CleanExit
<1>4. CASE UNCHANGED sessionVars
  <2>1. SessionTypeOK'
    BY <1>4 DEF SessionInv, SessionTypeOK, sessionVars, loop, env
  <2>2. Control' /\ OneGreeting' /\ InTime'
    BY <1>4 DEF SessionInv, Control, OneGreeting, InTime, Pending, Waiting, Looping,
                sessionVars, loop, env
  <2>3. AttemptsLost' /\ PeerKeys' /\ GivesUpAfterLosses'
    BY <1>4 DEF SessionInv, AttemptsLost, PeerKeys, GivesUpAfterLosses, Pending, Waiting,
                Looping, Confirming, sessionVars, loop, env
  <2> QED
    BY <2>1, <2>2, <2>3 DEF SessionInv
<1>5. CASE Deliver
  BY <1>5, ArriveStep, PeerAnswers, PeerReceives DEF Deliver
<1>6. CASE \E m \in net : Lose(m)
  BY <1>6, LoseStep
<1>7. CASE AppSends \/ Tick \/ PeerDies
  BY <1>7, AppSendsStep, TickStep, PeerDiesStep
<1>8. CASE ReceiveError \/ ReadUdpError
  BY <1>8, ReceiveErrorStep, ReadUdpErrorStep
<1> QED
  BY <1>1, <1>2, <1>3, <1>4, <1>5, <1>6, <1>7, <1>8 DEF SessionNext, Exited

\* It holds in every state of every behaviour.
LEMMA SessionInvariant == SessionSpec => []SessionInv
BY SessionStarts, SessionGoesOn, PTL DEF SessionSpec

-----------------------------------------------------------------------------
(* The results.                                                            *)

\* As long as nothing was lost, what the loop sends can be read: the peer has
\* its key, however the renewals and the traffic interleave.
THEOREM KeyStaysKnown == SessionSpec => []KeyIsKnown
<1>1. SessionInv => KeyIsKnown
  BY DEF SessionInv, PeerKeys, KeyIsKnown, Looping
<1> QED
  BY <1>1, SessionInvariant, PTL

\* A live peer is given up only after a loss, an error or a late answer for each
\* attempt that the code waits for; and no answer is late where the code waits
\* longer than a round trip.
THEOREM GivesUpOnlyAfterLosses == SessionSpec => []GivesUpAfterLosses
<1>1. SessionInv => GivesUpAfterLosses
  BY DEF SessionInv
<1> QED
  BY <1>1, SessionInvariant, PTL

=============================================================================
