-------------------------- MODULE KeepSeqTheorems --------------------------
(***************************************************************************)
(* What KeepIn computes, for every sequence and every set.  Each proof is  *)
(* an induction over the length of the sequence, in the form of a least    *)
(* counterexample (LeastNumber).                                           *)
(***************************************************************************)
EXTENDS KeepSeq, SequenceTheorems, WellFoundedInduction, TLAPS

\* Every non-empty set of natural numbers has a least element.
LEMMA LeastNumber ==
    ASSUME NEW T, T \subseteq Nat, T # {}
    PROVE  \E x \in T : \A y \in T : x <= y
<1>1. \E x \in T : \A y \in T : ~ (<<y, x>> \in OpToRel(<, Nat))
  BY WFMin, NatLessThanWellFounded, Zenon
<1>2. \A x, y \in Nat : <<y, x>> \in OpToRel(<, Nat) <=> y < x
  BY Zenon DEF OpToRel
<1>3. \E x \in T : \A y \in T : ~ (y < x)
  BY <1>1, <1>2, Zenon
<1> QED
  BY <1>3

-----------------------------------------------------------------------------
(* The recursive function is well defined.                                 *)

\* What the function is for the next element, given what it is so far.
KeepNext(sofar, x, S) == IF x \in S THEN Append(sofar, x) ELSE sofar

\* f is the function of KeepIn for the first n elements of s.
KeepFunction(f, s, S, n) ==
    f = [i \in 0..n |-> IF i = 0 THEN <<>> ELSE KeepNext(f[i - 1], s[i], S)]

\* What such a function is at each place.
LEMMA KeepFunctionValues ==
    ASSUME NEW f, NEW s, NEW S, NEW n \in Nat, KeepFunction(f, s, S, n)
    PROVE  /\ f[0] = <<>>
           /\ \A i \in 1..n : f[i] = KeepNext(f[i - 1], s[i], S)
<1>1. \A i \in 0..n : f[i] = IF i = 0 THEN <<>> ELSE KeepNext(f[i - 1], s[i], S)
  BY Zenon DEF KeepFunction
<1> HIDE DEF KeepNext
<1> QED
  BY <1>1

\* There is such a function for every length.
LEMMA KeepFunctionExists ==
    ASSUME NEW s, NEW S
    PROVE  \A n \in Nat : \E f : KeepFunction(f, s, S, n)
<1> DEFINE T == {n \in Nat : ~ \E f : KeepFunction(f, s, S, n)}
<1> SUFFICES ASSUME T # {} PROVE FALSE
  OBVIOUS
<1>1. PICK n \in T : \A m \in T : n <= m
  BY LeastNumber
<1>2. n # 0
  <2>1. KeepFunction([i \in 0..0 |-> <<>>], s, S, 0)
    BY DEF KeepFunction
  <2> QED
    BY <2>1
<1>3. n \in Nat /\ n - 1 \in Nat /\ n - 1 \notin T
  BY <1>1, <1>2
<1>4. PICK g : KeepFunction(g, s, S, n - 1)
  BY <1>3
<1> DEFINE h == [i \in 0..n |-> IF i = n THEN KeepNext(g[n - 1], s[n], S) ELSE g[i]]
           b == [i \in 0..n |-> IF i = 0 THEN <<>> ELSE KeepNext(h[i - 1], s[i], S)]
<1>5. ASSUME NEW i \in 0..n PROVE h[i] = b[i]
  <2>1. /\ g[0] = <<>>
        /\ \A j \in 1..(n - 1) : g[j] = KeepNext(g[j - 1], s[j], S)
    BY <1>3, <1>4, KeepFunctionValues
  <2>2. \A j \in 0..(n - 1) : h[j] = g[j]
    BY <1>3
  <2>3. h[n] = KeepNext(g[n - 1], s[n], S)
    BY <1>3
  <2>4. b[0] = <<>> /\ \A j \in 1..n : b[j] = KeepNext(h[j - 1], s[j], S)
    BY <1>3
  <2> HIDE DEF h, b
  <2>5. CASE i = 0
    BY <1>2, <1>3, <2>1, <2>2, <2>4, <2>5
  <2>6. CASE i \in 1..(n - 1)
    <3>1. i \in 0..(n - 1) /\ i - 1 \in 0..(n - 1) /\ i \in 1..n
      BY <1>3, <2>6
    <3> QED
      BY <2>1, <2>2, <2>4, <2>6, <3>1
  <2>7. CASE i = n
    <3>1. n - 1 \in 0..(n - 1) /\ n \in 1..n
      BY <1>2, <1>3
    <3> QED
      BY <2>2, <2>3, <2>4, <2>7, <3>1
  <2> QED
    BY <1>3, <2>5, <2>6, <2>7
<1>6. h = b
  BY <1>5
<1>7. KeepFunction(h, s, S, n)
  BY <1>6 DEF KeepFunction
<1> QED
  BY <1>7

\* KeepIn is the last value of such a function.
LEMMA KeepInValue ==
    ASSUME NEW s, NEW S, Len(s) \in Nat
    PROVE  \E f : /\ f[0] = <<>>
                  /\ \A i \in 1..Len(s) : f[i] = KeepNext(f[i - 1], s[i], S)
                  /\ KeepIn(s, S) = f[Len(s)]
<1> DEFINE f == CHOOSE g : KeepFunction(g, s, S, Len(s))
<1>1. KeepFunction(f, s, S, Len(s))
  BY KeepFunctionExists
<1>2. KeepIn(s, S) = f[Len(s)]
  BY DEF KeepIn, KeepFunction, KeepNext
<1>3. /\ f[0] = <<>>
      /\ \A i \in 1..Len(s) : f[i] = KeepNext(f[i - 1], s[i], S)
  BY <1>1, KeepFunctionValues
<1> HIDE DEF f
<1> QED
  BY <1>2, <1>3

-----------------------------------------------------------------------------
(* What KeepIn keeps, and in which order.                                  *)

\* e tells for each element of k the place among the first n elements of s it
\* comes from: the places are those with an element of S, and they increase.
Places(e, k, s, S, n) ==
    /\ e \in [1..Len(k) -> 1..n]
    /\ \A a, b \in 1..Len(k) : a < b => e[a] < e[b]
    /\ \A a \in 1..Len(k) : k[a] = s[e[a]] /\ s[e[a]] \in S
    /\ \A j \in 1..n : s[j] \in S => \E a \in 1..Len(k) : e[a] = j

\* One more element keeps this.
LEMMA PlacesNext ==
    ASSUME NEW V, NEW s \in Seq(V), NEW S, NEW n \in 1..Len(s),
           NEW k \in Seq(V), NEW e, Places(e, k, s, S, n - 1)
    PROVE  /\ KeepNext(k, s[n], S) \in Seq(V)
           /\ \E d : Places(d, KeepNext(k, s[n], S), s, S, n)
<1>1. n \in Nat /\ n # 0 /\ s[n] \in V /\ Len(k) \in Nat
  BY ElementOfSeq, LenProperties
<1>2. CASE s[n] \notin S
  <2>1. KeepNext(k, s[n], S) = k
    BY <1>2 DEF KeepNext
  <2>2. Places(e, k, s, S, n)
    <3>1. e \in [1..Len(k) -> 1..n]
      BY <1>1 DEF Places
    <3>2. \A j \in 1..n : s[j] \in S => \E a \in 1..Len(k) : e[a] = j
      BY <1>1, <1>2 DEF Places
    <3> QED
      BY <3>1, <3>2 DEF Places
  <2> QED
    BY <2>1, <2>2
<1>3. CASE s[n] \in S
  <2> DEFINE k2 == Append(k, s[n])
             d == [a \in 1..Len(k2) |-> IF a = Len(k) + 1 THEN n ELSE e[a]]
  <2>1. KeepNext(k, s[n], S) = k2
    BY <1>3 DEF KeepNext
  <2>2. /\ k2 \in Seq(V) /\ Len(k2) = Len(k) + 1
        /\ k2[Len(k) + 1] = s[n] /\ \A a \in 1..Len(k) : k2[a] = k[a]
    BY <1>1
  <2>3. /\ d[Len(k) + 1] = n /\ \A a \in 1..Len(k) : d[a] = e[a]
        /\ DOMAIN d = 1..Len(k2)
    BY <1>1, <2>2
  <2>4. \A a \in 1..Len(k2) : a \in 1..Len(k) \/ a = Len(k) + 1
    BY <1>1, <2>2
  <2>5. \A a \in 1..Len(k) : e[a] \in 1..(n - 1)
    BY DEF Places
  <2>6. d \in [1..Len(k2) -> 1..n]
    <3>1. \A a \in 1..Len(k2) : d[a] \in 1..n
      BY <1>1, <2>3, <2>4, <2>5
    <3> QED
      BY <3>1
  <2> HIDE DEF d, k2
  <2>7. \A a, b \in 1..Len(k2) : a < b => d[a] < d[b]
    <3> SUFFICES ASSUME NEW a \in 1..Len(k2), NEW b \in 1..Len(k2), a < b
                 PROVE  d[a] < d[b]
      OBVIOUS
    <3>1. a \in 1..Len(k)
      BY <1>1, <2>2, <2>4
    <3>2. CASE b \in 1..Len(k)
      BY <2>3, <3>1, <3>2 DEF Places
    <3>3. CASE b = Len(k) + 1
      BY <1>1, <2>3, <2>5, <3>1, <3>3
    <3> QED
      BY <2>4, <3>2, <3>3
  <2>8. \A a \in 1..Len(k2) : k2[a] = s[d[a]] /\ s[d[a]] \in S
    BY <1>3, <2>2, <2>3, <2>4 DEF Places
  <2>9. \A j \in 1..n : s[j] \in S => \E a \in 1..Len(k2) : d[a] = j
    <3> SUFFICES ASSUME NEW j \in 1..n, s[j] \in S
                 PROVE  \E a \in 1..Len(k2) : d[a] = j
      OBVIOUS
    <3>1. CASE j = n
      <4>1. Len(k) + 1 \in 1..Len(k2)
        BY <1>1, <2>2
      <4> QED
        BY <2>3, <3>1, <4>1
    <3>2. CASE j \in 1..(n - 1)
      <4>1. PICK a \in 1..Len(k) : e[a] = j
        BY <3>2 DEF Places
      <4>2. a \in 1..Len(k2)
        BY <1>1, <2>2
      <4> QED
        BY <2>3, <4>1, <4>2
    <3> QED
      BY <1>1, <3>1, <3>2
  <2>10. Places(d, k2, s, S, n)
    BY <2>6, <2>7, <2>8, <2>9 DEF Places
  <2> QED
    BY <2>1, <2>2, <2>10
<1> QED
  BY <1>2, <1>3

\* KeepIn keeps exactly the elements that are in the set, in their order.
THEOREM KeepInPlaces ==
    ASSUME NEW V, NEW s \in Seq(V), NEW S
    PROVE  /\ KeepIn(s, S) \in Seq(V)
           /\ \E e : Places(e, KeepIn(s, S), s, S, Len(s))
<1>1. Len(s) \in Nat
  BY LenProperties
<1>2. PICK f : /\ f[0] = <<>>
               /\ \A i \in 1..Len(s) : f[i] = KeepNext(f[i - 1], s[i], S)
               /\ KeepIn(s, S) = f[Len(s)]
  BY <1>1, KeepInValue
<1> DEFINE Good(n) == f[n] \in Seq(V) /\ \E e : Places(e, f[n], s, S, n)
           T == {n \in 0..Len(s) : ~Good(n)}
<1> SUFFICES ASSUME T # {} PROVE FALSE
  BY <1>1, <1>2
<1>3. PICK n \in T : \A m \in T : n <= m
  <2>1. T \subseteq Nat
    BY <1>1
  <2> HIDE DEF T
  <2> QED
    BY <2>1, LeastNumber
<1>4. n # 0
  <2>1. f[0] \in Seq(V) /\ Len(f[0]) = 0
    BY <1>2
  <2>2. Places([a \in 1..0 |-> 0], f[0], s, S, 0)
    BY <2>1 DEF Places
  <2> QED
    BY <2>1, <2>2
<1>5. n \in 1..Len(s) /\ n - 1 \in 0..Len(s) /\ n - 1 \notin T
  BY <1>1, <1>3, <1>4
<1>6. Good(n - 1)
  BY <1>5
<1>7. PICK e : Places(e, f[n - 1], s, S, n - 1)
  BY <1>6
<1>8. /\ KeepNext(f[n - 1], s[n], S) \in Seq(V)
      /\ \E d : Places(d, KeepNext(f[n - 1], s[n], S), s, S, n)
  BY <1>5, <1>6, <1>7, PlacesNext
<1>9. Good(n)
  BY <1>2, <1>5, <1>8
<1> QED
  BY <1>9

\* The elements of KeepIn are those of the sequence that are in the set.
LEMMA KeepInElements ==
    ASSUME NEW V, NEW s \in Seq(V), NEW S
    PROVE  /\ KeepIn(s, S) \in Seq(V)
           /\ \A i \in 1..Len(KeepIn(s, S)) :
                 KeepIn(s, S)[i] \in S /\ \E j \in 1..Len(s) : s[j] = KeepIn(s, S)[i]
           /\ \A j \in 1..Len(s) : s[j] \in S =>
                 \E i \in 1..Len(KeepIn(s, S)) : KeepIn(s, S)[i] = s[j]
<1>1. PICK e : Places(e, KeepIn(s, S), s, S, Len(s))
  BY KeepInPlaces
<1> DEFINE k == KeepIn(s, S)
<1>2. k \in Seq(V)
  BY KeepInPlaces
<1>3. \A i \in 1..Len(k) : k[i] \in S /\ \E j \in 1..Len(s) : s[j] = k[i]
  <2> SUFFICES ASSUME NEW i \in 1..Len(k)
               PROVE  k[i] \in S /\ \E j \in 1..Len(s) : s[j] = k[i]
    OBVIOUS
  <2>1. e[i] \in 1..Len(s) /\ k[i] = s[e[i]] /\ s[e[i]] \in S
    BY <1>1 DEF Places
  <2> QED
    BY <2>1
<1>4. \A j \in 1..Len(s) : s[j] \in S => \E i \in 1..Len(k) : k[i] = s[j]
  <2> SUFFICES ASSUME NEW j \in 1..Len(s), s[j] \in S
               PROVE  \E i \in 1..Len(k) : k[i] = s[j]
    OBVIOUS
  <2>1. PICK i \in 1..Len(k) : e[i] = j
    BY <1>1 DEF Places
  <2>2. k[i] = s[j]
    BY <1>1, <2>1 DEF Places
  <2> QED
    BY <2>2
<1> QED
  BY <1>2, <1>3, <1>4

\* Of a sequence whose elements outside the set come first, KeepIn keeps the rest.
LEMMA KeepInSuffix ==
    ASSUME NEW V, NEW s \in Seq(V), NEW S, NEW m \in 0..Len(s),
           \A i \in 1..m : s[i] \notin S, \A i \in (m + 1)..Len(s) : s[i] \in S
    PROVE  KeepIn(s, S) = SubSeq(s, m + 1, Len(s))
<1>1. Len(s) \in Nat /\ m \in Nat /\ m <= Len(s)
  BY LenProperties
<1>2. PICK f : /\ f[0] = <<>>
               /\ \A i \in 1..Len(s) : f[i] = KeepNext(f[i - 1], s[i], S)
               /\ KeepIn(s, S) = f[Len(s)]
  BY <1>1, KeepInValue
<1> DEFINE T == {n \in 0..Len(s) : f[n] # SubSeq(s, m + 1, n)}
<1> SUFFICES ASSUME T # {} PROVE FALSE
  <2>1. Len(s) \in 0..Len(s)
    BY <1>1
  <2> QED
    BY <1>2, <2>1, Zenon
<1>3. PICK n \in T : \A j \in T : n <= j
  <2>1. T \subseteq Nat
    BY <1>1
  <2> HIDE DEF T
  <2> QED
    BY <2>1, LeastNumber
<1>4. \A i, j \in Int : j < i => SubSeq(s, i, j) = <<>>
  BY SubSeqEmpty
<1>5. n # 0
  <2>1. SubSeq(s, m + 1, 0) = <<>>
    BY <1>1, <1>4
  <2>2. f[n] # SubSeq(s, m + 1, n)
    OBVIOUS
  <2> QED
    BY <1>2, <2>1, <2>2, Zenon
<1>6. n \in 1..Len(s) /\ n - 1 \in 0..Len(s) /\ n - 1 \notin T
  BY <1>1, <1>3, <1>5
<1>7. f[n - 1] = SubSeq(s, m + 1, n - 1) /\ f[n] = KeepNext(f[n - 1], s[n], S)
  BY <1>2, <1>6
<1>8. CASE n <= m
  <2>1. n \in 1..m
    BY <1>1, <1>6, <1>8
  <2>2. SubSeq(s, m + 1, n - 1) = <<>> /\ SubSeq(s, m + 1, n) = <<>>
    BY <1>1, <1>4, <1>6, <1>8
  <2> QED
    BY <1>7, <2>1, <2>2 DEF KeepNext
<1>9. CASE n > m
  <2>1. s[n] \in S
    BY <1>1, <1>6, <1>9
  <2>2. SubSeq(s, m + 1, n) = Append(SubSeq(s, m + 1, n - 1), s[n])
    <3> DEFINE u == SubSeq(s, m + 1, n - 1)
               v == SubSeq(s, m + 1, n)
    <3>1. /\ u \in Seq(V) /\ Len(u) = n - 1 - m
          /\ \A i \in 1..(n - 1 - m) : u[i] = s[m + i]
      <4>1. m + 1 \in Int /\ n - 1 \in Int /\ \A i \in (m + 1)..(n - 1) : s[i] \in V
        BY <1>1, <1>6, <1>9, ElementOfSeq
      <4>2. /\ u \in Seq(V) /\ Len(u) = IF m + 1 <= n - 1 THEN n - 1 - (m + 1) + 1 ELSE 0
            /\ \A i \in 1..(n - 1 - (m + 1) + 1) : u[i] = s[m + 1 + i - 1]
        BY <4>1, SubSeqProperties
      <4> HIDE DEF u
      <4> QED
        BY <1>1, <1>6, <1>9, <4>2, SMTT(30)
    <3>2. /\ v \in Seq(V) /\ Len(v) = n - m
          /\ \A i \in 1..(n - m) : v[i] = s[m + i]
      <4>1. m + 1 \in Int /\ n \in Int /\ \A i \in (m + 1)..n : s[i] \in V
        BY <1>1, <1>6, <1>9, ElementOfSeq
      <4>2. /\ v \in Seq(V) /\ Len(v) = IF m + 1 <= n THEN n - (m + 1) + 1 ELSE 0
            /\ \A i \in 1..(n - (m + 1) + 1) : v[i] = s[m + 1 + i - 1]
        BY <4>1, SubSeqProperties
      <4>3. n - (m + 1) + 1 = n - m /\ m + 1 <= n
        BY <1>1, <1>6, <1>9
      <4>4. \A i \in Int : m + 1 + i - 1 = m + i
        BY <1>1
      <4> HIDE DEF v
      <4>5. v \in Seq(V) /\ Len(v) = n - m
        BY <4>2, <4>3
      <4>6. ASSUME NEW i \in 1..(n - m) PROVE v[i] = s[m + i]
        <5>1. i \in Int /\ i \in 1..(n - (m + 1) + 1)
          BY <4>3
        <5>2. v[i] = s[m + 1 + i - 1]
          BY <4>2, <5>1
        <5> QED
          BY <4>4, <5>1, <5>2
      <4> QED
        BY <4>5, <4>6
    <3> DEFINE w == Append(u, s[n])
    <3>3. /\ w \in Seq(V) /\ Len(w) = n - m /\ w[n - m] = s[n]
          /\ \A i \in 1..(n - 1 - m) : w[i] = u[i]
      <4> HIDE DEF u
      <4> QED
        BY <1>1, <1>6, <1>9, <3>1, ElementOfSeq
    <3> HIDE DEF u, v, w
    <3>4. \A i \in 1..(n - m) : w[i] = v[i]
      <4> SUFFICES ASSUME NEW i \in 1..(n - m) PROVE w[i] = v[i]
        OBVIOUS
      <4>1. CASE i = n - m
        BY <1>1, <1>6, <3>2, <3>3, <4>1
      <4>2. CASE i \in 1..(n - 1 - m)
        BY <3>1, <3>2, <3>3, <4>2
      <4> QED
        BY <1>1, <1>6, <4>1, <4>2
    <3>5. w = v
      BY <3>2, <3>3, <3>4, SeqEqual
    <3> QED
      BY <3>5 DEF u, v, w
  <2> QED
    BY <1>7, <2>1, <2>2 DEF KeepNext
<1> QED
  BY <1>1, <1>6, <1>8, <1>9

=============================================================================
