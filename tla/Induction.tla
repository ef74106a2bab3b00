------------------------------ MODULE Induction ------------------------------
(***************************************************************************)
(* Induction over the natural numbers and functions defined by recursion   *)
(* over them, stated for sets, so that the provers can use them: the       *)
(* property that is shown of every number is a set of numbers.             *)
(***************************************************************************)
EXTENDS Naturals, SequenceTheorems, WellFoundedInduction, TLAPS

(* Induction over the numbers, for sets: a set that has 0, and n + 1 with  *)
(* every n, has them all.                                                  *)
LEMMA NatLess == IsWellFoundedOn({p \in Nat \X Nat : p[1] < p[2]}, Nat)
<1> QED BY NatLessThanWellFounded DEF OpToRel

LEMMA Least ==
  ASSUME NEW T \in SUBSET Nat, T # {}
  PROVE \E m \in T : \A k \in T : m <= k
<1>1. PICK x \in T : \A y \in T : <<y, x>> \notin {p \in Nat \X Nat : p[1] < p[2]}
  BY NatLess, WFMin
<1>2. \A y \in T : ~(y < x)
  <2> SUFFICES ASSUME NEW y \in T, y < x PROVE FALSE
    OBVIOUS
  <2>1. <<y, x>> \in Nat \X Nat /\ <<y, x>>[1] < <<y, x>>[2]
    OBVIOUS
  <2> QED BY <1>1, <2>1
<1> QED BY <1>2

LEMMA SetInduction ==
  ASSUME NEW S, 0 \in S, \A n \in Nat : n \in S => n + 1 \in S
  PROVE  Nat \subseteq S
<1> SUFFICES ASSUME Nat \ S # {} PROVE FALSE
  OBVIOUS
<1>1. PICK m \in Nat \ S : \A k \in Nat \ S : m <= k
  <2>1. Nat \ S \in SUBSET Nat
    OBVIOUS
  <2> QED BY <2>1, Least
<1>2. m # 0 /\ m - 1 \in Nat /\ m - 1 \in S
  BY <1>1
<1> QED BY <1>2, <1>1

(* Induction over sequences, from the empty one by Append.                 *)
LEMMA SeqInduction ==
  ASSUME NEW X, NEW T, <<>> \in T,
         \A q \in Seq(X), x \in X : q \in T => Append(q, x) \in T
  PROVE  Seq(X) \subseteq T
<1> DEFINE S == {n \in Nat : \A q \in Seq(X) : Len(q) = n => q \in T}
<1>1. 0 \in S
  BY EmptySeq
<1>2. ASSUME NEW n \in Nat, n \in S PROVE n + 1 \in S
  <2> SUFFICES ASSUME NEW q \in Seq(X), Len(q) = n + 1 PROVE q \in T
    OBVIOUS
  <2>1. q # <<>>
    BY EmptySeq
  <2>2. PICK r \in Seq(X), x \in X : q = Append(r, x)
    BY <2>1, SequenceEmptyOrAppend
  <2>3. Len(r) = n
    BY <2>2, AppendProperties, LenProperties
  <2> QED BY <1>2, <2>2, <2>3
<1>3. Nat \subseteq S
  <2> HIDE DEF S
  <2> QED BY <1>1, <1>2, SetInduction
<1> QED BY <1>3, LenProperties

(* So a function that is defined step by step exists.                      *)
IsIteration(g, n, S, b, F) ==
  g \in [0..n -> S] /\ g[0] = b /\ \A i \in 1..n : g[i] = F[i][g[i - 1]]

LEMMA Iterated ==
  ASSUME NEW n \in Nat, NEW S, NEW b \in S, NEW F \in [1..n -> [S -> S]]
  PROVE  \E g : IsIteration(g, n, S, b, F)
<1> DEFINE Reached(m) ==
      \E g \in [0..n -> S] : g[0] = b /\ \A i \in 1..n : i <= m => g[i] = F[i][g[i - 1]]
    Reach == {m \in Nat : Reached(m)}
<1>1. 0 \in Reach
  <2> DEFINE g == [i \in 0..n |-> b]
  <2>1. g \in [0..n -> S] /\ g[0] = b
    OBVIOUS
  <2>2. \A i \in 1..n : ~(i <= 0)
    OBVIOUS
  <2> HIDE DEF g
  <2>3. Reached(0)
    BY <2>1, <2>2
  <2> QED BY <2>3
<1>2. ASSUME NEW m \in Nat, m \in Reach PROVE m + 1 \in Reach
  <2>1. PICK g \in [0..n -> S] : g[0] = b /\ \A i \in 1..n : i <= m => g[i] = F[i][g[i - 1]]
    BY <1>2
  <2>2. CASE m + 1 > n
    BY <2>1, <2>2
  <2>3. CASE m + 1 <= n
    <3> DEFINE x == F[m + 1][g[m]]
               h == [g EXCEPT ![m + 1] = x]
    <3>1. m \in 0..n /\ m + 1 \in 1..n /\ x \in S
      BY <2>3
    <3>2. h \in [0..n -> S] /\ h[m + 1] = x /\ \A i \in 0..n : i # m + 1 => h[i] = g[i]
      BY <3>1
    <3> HIDE DEF h
    <3>3. ASSUME NEW i \in 1..n, i <= m + 1 PROVE h[i] = F[i][h[i - 1]]
      <4>1. i - 1 \in 0..n /\ i - 1 # m + 1 /\ h[i - 1] = g[i - 1]
        BY <3>2, <3>3
      <4>2. CASE i = m + 1
        BY <4>1, <4>2, <3>2
      <4>3. CASE i <= m
        BY <4>1, <4>3, <3>2, <2>1
      <4> QED BY <4>2, <4>3, <3>3
    <3>4. h[0] = b
      BY <3>2, <2>1
    <3> QED BY <3>2, <3>3, <3>4
  <2> QED BY <2>2, <2>3
<1>3. Nat \subseteq Reach
  <2> HIDE DEF Reach
  <2> QED BY <1>1, <1>2, SetInduction
<1>4. Reached(n)
  BY <1>3
<1> QED BY <1>4 DEF IsIteration

(* The same step again and again.                                          *)
IsRepetition(g, n, S, b, F) ==
  g \in [0..n -> S] /\ g[0] = b /\ \A i \in 1..n : g[i] = F[g[i - 1]]

LEMMA Repeated ==
  ASSUME NEW n \in Nat, NEW S, NEW b \in S, NEW F \in [S -> S]
  PROVE  \E g : IsRepetition(g, n, S, b, F)
<1> DEFINE G == [i \in 1..n |-> F]
<1>1. G \in [1..n -> [S -> S]]
  OBVIOUS
<1>2. PICK g : IsIteration(g, n, S, b, G)
  <2> HIDE DEF G
  <2> QED BY <1>1, Iterated
<1>3. IsRepetition(g, n, S, b, F)
  BY <1>2 DEF IsIteration, IsRepetition
<1> QED BY <1>3
=============================================================================
