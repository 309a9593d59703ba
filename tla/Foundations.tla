---------------------------- MODULE Foundations ----------------------------
(***************************************************************************)
(* Facts that the proofs about several components use: about lists,        *)
(* natural numbers and functions that are defined by recursion.            *)
(***************************************************************************)
EXTENDS Powers, SequencesExt, SequenceTheorems, FiniteSetTheorems, WellFoundedInduction,
        TLAPS

-----------------------------------------------------------------------------
(* Induction, for sets of numbers. *)

LEMMA LeastOf ==
  ASSUME NEW T \in SUBSET Nat, T # {}
  PROVE  \E x \in T : \A y \in T : x <= y
<1> DEFINE R == {p \in Nat \X Nat : p[1] < p[2]}
<1>1. IsWellFoundedOn(R, Nat)
  BY NatLessThanWellFounded DEF OpToRel
<1>2. PICK x \in T : \A y \in T : ~ (<<y, x>> \in R)
  BY <1>1, WFMin
<1>3. ASSUME NEW y \in T PROVE x <= y
  <2>1. <<y, x>> \notin R
    BY <1>2
  <2>2. ~ (y < x)
    BY <2>1
  <2> QED BY <2>2
<1> QED
  BY <1>3

LEMMA SetInduction ==
  ASSUME NEW T \in SUBSET Nat, 0 \in T, \A n \in T : n + 1 \in T
  PROVE  T = Nat
<1> SUFFICES ASSUME Nat \ T # {} PROVE FALSE
  OBVIOUS
<1>1. PICK x \in Nat \ T : \A y \in Nat \ T : x <= y
  BY LeastOf
<1>2. x # 0
  OBVIOUS
<1>3. x - 1 \in Nat /\ x - 1 < x /\ (x - 1) + 1 = x
  BY <1>2
<1>4. x - 1 \in T
  BY <1>1, <1>3
<1> QED
  BY <1>3, <1>4

(* The same for an initial segment. *)
LEMMA SegmentInduction ==
  ASSUME NEW m \in Nat, NEW T, 0 \in T, \A n \in 0..(m - 1) : n \in T => n + 1 \in T
  PROVE  \A n \in 0..m : n \in T
<1> DEFINE U == {n \in Nat : n <= m => n \in T}
<1>1. 0 \in U
  OBVIOUS
<1>2. ASSUME NEW n \in U PROVE n + 1 \in U
  <2>1. n \in Nat /\ (n <= m => n \in T)
    OBVIOUS
  <2>2. ASSUME n + 1 <= m PROVE n + 1 \in T
    BY <2>1, <2>2
  <2> QED BY <2>1, <2>2
<1>3. U = Nat
  <2> HIDE DEF U
  <2>1. U \in SUBSET Nat
    BY DEF U
  <2> QED BY <1>1, <1>2, <2>1, SetInduction
<1> QED
  BY <1>3

-----------------------------------------------------------------------------
(* Recursion: there is a function with these equations, so a function that *)
(* is chosen by them has them.                                             *)

Recurs(f, S, base, step) ==
  /\ f \in [Nat -> S]
  /\ f[0] = base
  /\ \A n \in Nat : f[n + 1] = step[<<n, f[n]>>]

LEMMA RecursionHasSolution ==
  ASSUME NEW S, NEW base, base \in S, NEW step, step \in [Nat \X S -> S]
  PROVE  \E f : Recurs(f, S, base, step)
<1> DEFINE Solves(g, m) == /\ g \in [0..m -> S]
                           /\ g[0] = base
                           /\ \A n \in 0..(m - 1) : g[n + 1] = step[<<n, g[n]>>]
           T == {m \in Nat : \E g : Solves(g, m)}
<1>1. 0 \in T
  <2> DEFINE g == [n \in 0..0 |-> base]
  <2>1. Solves(g, 0)
    OBVIOUS
  <2> QED BY <2>1
<1>2. ASSUME NEW m \in T PROVE m + 1 \in T
  <2>1. m \in Nat
    OBVIOUS
  <2>2. PICK g : Solves(g, m)
    OBVIOUS
  <2> DEFINE h == [n \in 0..(m + 1) |-> IF n <= m THEN g[n] ELSE step[<<m, g[m]>>]]
  <2>3. g[m] \in S
    BY <2>1, <2>2
  <2>4. step[<<m, g[m]>>] \in S
    BY <2>1, <2>3
  <2>5. h \in [0..(m + 1) -> S]
    BY <2>1, <2>2, <2>4
  <2>6. h[0] = base
    BY <2>1, <2>2
  <2>7. ASSUME NEW n \in 0..m PROVE h[n + 1] = step[<<n, h[n]>>]
    <3>1. h[n] = g[n]
      BY <2>1
    <3>2. CASE n = m
      <4>1. h[n + 1] = step[<<m, g[m]>>]
        BY <2>1, <3>2
      <4> QED BY <4>1, <3>1, <3>2
    <3>3. CASE n # m
      <4>1. n \in 0..(m - 1) /\ n + 1 \in 0..(m + 1) /\ n + 1 <= m
        BY <2>1, <3>3
      <4>2. h[n + 1] = g[n + 1]
        BY <4>1
      <4> QED BY <4>1, <4>2, <3>1, <2>2
    <3> QED BY <3>2, <3>3
  <2>8. Solves(h, m + 1)
    <3> HIDE DEF h
    <3>1. (m + 1) - 1 = m
      BY <2>1
    <3> QED BY <2>5, <2>6, <2>7, <3>1
  <2>9. m + 1 \in Nat
    BY <2>1
  <2> QED BY <2>8, <2>9
<1>3. T = Nat
  <2> HIDE DEF T
  <2>1. T \in SUBSET Nat
    BY DEF T
  <2> QED BY <1>1, <1>2, <2>1, SetInduction
<1>4. ASSUME NEW m \in Nat, NEW k \in Nat, m <= k, NEW g, NEW h, Solves(g, m), Solves(h, k)
      PROVE  \A n \in 0..m : g[n] = h[n]
  <2> DEFINE E == {n \in 0..m : g[n] = h[n]}
  <2>1. 0 \in E
    BY <1>4
  <2>2. ASSUME NEW n \in 0..(m - 1), n \in E PROVE n + 1 \in E
    <3>1. n \in 0..(k - 1) /\ n + 1 \in 0..m
      BY <1>4
    <3>2. g[n + 1] = step[<<n, g[n]>>] /\ h[n + 1] = step[<<n, h[n]>>]
      BY <3>1, <1>4
    <3>3. g[n] = h[n]
      BY <2>2
    <3> QED BY <3>1, <3>2, <3>3
  <2>3. \A n \in 0..m : n \in E
    <3> HIDE DEF E
    <3> QED BY <2>1, <2>2, SegmentInduction
  <2> QED BY <2>3
<1> DEFINE G(m) == CHOOSE g : Solves(g, m)
           f == [n \in Nat |-> G(n)[n]]
<1>5. ASSUME NEW m \in Nat PROVE Solves(G(m), m)
  <2>1. m \in T
    BY <1>3
  <2>2. \E g : Solves(g, m)
    BY <2>1
  <2> HIDE DEF Solves
  <2> QED BY <2>2
<1> HIDE DEF G
<1>6. f \in [Nat -> S]
  <2>1. ASSUME NEW n \in Nat PROVE G(n)[n] \in S
    <3>1. G(n) \in [0..n -> S]
      BY <1>5
    <3> QED BY <3>1
  <2> QED BY <2>1
<1>7. f[0] = base
  <2>1. G(0)[0] = base
    BY <1>5
  <2> QED BY <2>1
<1>8. ASSUME NEW n \in Nat PROVE f[n + 1] = step[<<n, f[n]>>]
  <2>1. n + 1 \in Nat /\ n <= n + 1 /\ n \in 0..n /\ n \in 0..((n + 1) - 1)
    OBVIOUS
  <2>2. Solves(G(n), n) /\ Solves(G(n + 1), n + 1)
    BY <1>5, <2>1
  <2>3. G(n)[n] = G(n + 1)[n]
    <3> HIDE DEF Solves
    <3> QED BY <1>4, <2>1, <2>2
  <2>4. G(n + 1)[n + 1] = step[<<n, G(n + 1)[n]>>]
    BY <2>1, <2>2
  <2>5. f[n] = G(n)[n] /\ f[n + 1] = G(n + 1)[n + 1]
    BY <2>1
  <2> HIDE DEF f
  <2> QED BY <2>3, <2>4, <2>5
<1> HIDE DEF f
<1>9. Recurs(f, S, base, step)
  BY <1>6, <1>7, <1>8 DEF Recurs
<1> QED
  BY <1>9

-----------------------------------------------------------------------------
(* Powers of two. *)

LEMMA Pow2Equation ==
  Pow2 = [n \in Nat |-> IF n = 0 THEN 1 ELSE 2 * Pow2[n - 1]]
<1>0. PICK step : step = [x \in Nat \X Nat |-> 2 * x[2]]
  OBVIOUS
<1>1. step \in [Nat \X Nat -> Nat] /\ 1 \in Nat
  BY <1>0
<1>2a. PICK f : Recurs(f, Nat, 1, step)
  BY <1>1, RecursionHasSolution
<1>2. f \in [Nat -> Nat] /\ f[0] = 1 /\ \A n \in Nat : f[n + 1] = step[<<n, f[n]>>]
  BY <1>2a DEF Recurs
<1>3. \A n \in Nat : f[n + 1] = 2 * f[n]
  BY <1>0, <1>2
<1>4. ASSUME NEW n \in Nat PROVE f[n] = IF n = 0 THEN 1 ELSE 2 * f[n - 1]
  <2>1. CASE n = 0
    BY <2>1, <1>2
  <2>2. CASE n # 0
    <3>1. n - 1 \in Nat /\ (n - 1) + 1 = n
      BY <2>2
    <3> QED BY <3>1, <1>3, <2>2
  <2> QED BY <2>1, <2>2
<1>5. f = [n \in Nat |-> IF n = 0 THEN 1 ELSE 2 * f[n - 1]]
  <2>1. PICK g : g = [n \in Nat |-> IF n = 0 THEN 1 ELSE 2 * f[n - 1]]
    OBVIOUS
  <2>2. \A n \in Nat : g[n] = f[n]
    BY <2>1, <1>4
  <2>3. f = [n \in Nat |-> f[n]] /\ g = [n \in Nat |-> g[n]]
    BY <2>1, <1>2
  <2> QED BY <2>1, <2>2, <2>3
<1> QED
  BY <1>5 DEF Pow2

(* The powers are positive numbers, each twice the one before. *)
LEMMA Pow2Is ==
  /\ Pow2[0] = 1
  /\ \A n \in Nat : Pow2[n] \in Nat \ {0} /\ Pow2[n + 1] = 2 * Pow2[n]
<1> DEFINE T == {n \in Nat : Pow2[n] \in Nat \ {0}}
<1>1. Pow2[0] = 1
  BY Pow2Equation
<1>2. ASSUME NEW n \in Nat PROVE Pow2[n + 1] = 2 * Pow2[n]
  <2>1. n + 1 \in Nat /\ (n + 1) - 1 = n /\ n + 1 # 0
    OBVIOUS
  <2> QED BY <2>1, Pow2Equation
<1>3. 0 \in T
  BY <1>1
<1>4. ASSUME NEW n \in T PROVE n + 1 \in T
  BY <1>2
<1>5. T = Nat
  <2> HIDE DEF T
  <2>1. T \in SUBSET Nat
    BY DEF T
  <2> QED BY <1>3, <1>4, <2>1, SetInduction
<1> QED
  BY <1>1, <1>2, <1>5

-----------------------------------------------------------------------------
(* Lists: sequences of anything. *)

IsList(s) == s \in Seq({s[i] : i \in DOMAIN s})

LEMMA ListIs ==
  ASSUME NEW S, NEW s \in Seq(S)
  PROVE  IsList(s)
BY DEF IsList

LEMMA ListProperties ==
  ASSUME NEW s, IsList(s)
  PROVE  /\ Len(s) \in Nat /\ DOMAIN s = 1..Len(s)
         /\ s = [i \in 1..Len(s) |-> s[i]]
BY DEF IsList

LEMMA IndexedIsList ==
  ASSUME NEW f, NEW n \in Nat, f = [i \in 1..n |-> f[i]]
  PROVE  IsList(f) /\ Len(f) = n /\ DOMAIN f = 1..n
<1>1. f \in [1..n -> {f[i] : i \in DOMAIN f}]
  OBVIOUS
<1>2. f \in Seq({f[i] : i \in DOMAIN f})
  BY <1>1, IsASeq
<1> QED
  BY <1>2 DEF IsList

LEMMA ListsAreEqual ==
  ASSUME NEW s, NEW t, IsList(s), IsList(t), Len(s) = Len(t),
         \A i \in 1..Len(s) : s[i] = t[i]
  PROVE  s = t
BY ListProperties

LEMMA EmptyList == IsList(<<>>) /\ Len(<<>>) = 0
BY DEF IsList

LEMMA OneElement ==
  ASSUME NEW e
  PROVE  IsList(<<e>>) /\ Len(<<e>>) = 1 /\ <<e>>[1] = e
BY DEF IsList

LEMMA Joined ==
  ASSUME NEW s, NEW t, IsList(s), IsList(t)
  PROVE  /\ IsList(s \o t) /\ Len(s \o t) = Len(s) + Len(t)
         /\ \A i \in 1..Len(s) : (s \o t)[i] = s[i]
         /\ \A i \in 1..Len(t) : (s \o t)[Len(s) + i] = t[i]
<1> DEFINE S == {s[i] : i \in DOMAIN s} \union {t[i] : i \in DOMAIN t}
<1>1. s \in Seq(S) /\ t \in Seq(S)
  BY SeqMonotonic DEF IsList
<1> HIDE DEF S
<1>2. /\ s \o t \in Seq(S) /\ Len(s \o t) = Len(s) + Len(t)
      /\ \A i \in 1..(Len(s) + Len(t)) : (s \o t)[i] = IF i <= Len(s) THEN s[i] ELSE t[i - Len(s)]
  BY <1>1, ConcatProperties
<1>3. Len(s) \in Nat /\ Len(t) \in Nat
  BY ListProperties
<1>4. ASSUME NEW i \in 1..Len(s) PROVE (s \o t)[i] = s[i]
  BY <1>2, <1>3
<1>5. ASSUME NEW i \in 1..Len(t) PROVE (s \o t)[Len(s) + i] = t[i]
  BY <1>2, <1>3
<1> QED
  BY <1>2, <1>4, <1>5, ListIs

LEMMA JoinedToNothing ==
  ASSUME NEW s, IsList(s)
  PROVE  s \o <<>> = s
BY DEF IsList

LEMMA Beginning ==
  ASSUME NEW s, IsList(s), NEW n \in 0..Len(s)
  PROVE  /\ IsList(SubSeq(s, 1, n)) /\ Len(SubSeq(s, 1, n)) = n
         /\ \A i \in 1..n : SubSeq(s, 1, n)[i] = s[i]
<1>1. n \in Nat /\ SubSeq(s, 1, n) = [i \in 1..n |-> s[i]]
  BY ListProperties DEF IsList
<1> DEFINE f == SubSeq(s, 1, n)
<1>2. f = [i \in 1..n |-> f[i]] /\ \A i \in 1..n : f[i] = s[i]
  BY <1>1
<1> HIDE DEF f
<1>3. IsList(f) /\ Len(f) = n
  BY <1>1, <1>2, IndexedIsList
<1> QED
  BY <1>2, <1>3 DEF f

LEMMA PrefixIs ==
  ASSUME NEW s, NEW t, IsList(s), IsList(t)
  PROVE  IsPrefix(s, t) <=> Len(s) <= Len(t) /\ \A i \in 1..Len(s) : s[i] = t[i]
<1>1. Len(s) \in Nat /\ Len(t) \in Nat
  BY ListProperties
<1>2. CASE Len(s) <= Len(t)
  <2>1. /\ IsList(SubSeq(s, 1, Len(s))) /\ Len(SubSeq(s, 1, Len(s))) = Len(s)
        /\ \A i \in 1..Len(s) : SubSeq(s, 1, Len(s))[i] = s[i]
    BY <1>1, Beginning
  <2>2. /\ IsList(SubSeq(t, 1, Len(s))) /\ Len(SubSeq(t, 1, Len(s))) = Len(s)
        /\ \A i \in 1..Len(s) : SubSeq(t, 1, Len(s))[i] = t[i]
    BY <1>1, <1>2, Beginning
  <2>3. SubSeq(s, 1, Len(s)) = SubSeq(t, 1, Len(s)) <=> \A i \in 1..Len(s) : s[i] = t[i]
    BY <2>1, <2>2, ListsAreEqual
  <2> QED
    BY <1>2, <2>3 DEF IsPrefix
<1> QED
  BY <1>2 DEF IsPrefix

LEMMA PrefixOfItself ==
  ASSUME NEW s, IsList(s)
  PROVE  IsPrefix(s, s)
BY PrefixIs, ListProperties

LEMMA PrefixOfJoined ==
  ASSUME NEW s, NEW t, IsList(s), IsList(t)
  PROVE  IsPrefix(s, s \o t)
<1>1. Len(s) \in Nat /\ Len(t) \in Nat
  BY ListProperties
<1>2. IsList(s \o t) /\ Len(s) <= Len(s \o t) /\ \A i \in 1..Len(s) : s[i] = (s \o t)[i]
  BY <1>1, Joined
<1> QED
  BY <1>2, PrefixIs

LEMMA PrefixOfPrefix ==
  ASSUME NEW s, NEW t, NEW u, IsList(s), IsList(t), IsList(u), IsPrefix(s, t), IsPrefix(t, u)
  PROVE  IsPrefix(s, u)
<1>1. Len(s) \in Nat /\ Len(t) \in Nat /\ Len(u) \in Nat
  BY ListProperties
<1>2. Len(s) <= Len(t) /\ \A i \in 1..Len(s) : s[i] = t[i]
  BY PrefixIs
<1>3. Len(t) <= Len(u) /\ \A i \in 1..Len(t) : t[i] = u[i]
  BY PrefixIs
<1> QED
  BY <1>1, <1>2, <1>3, PrefixIs

LEMMA SameBeginning ==
  ASSUME NEW s, NEW t, IsList(s), IsList(t), NEW n \in 0..Len(s)
  PROVE  SubSeq(s \o t, 1, n) = SubSeq(s, 1, n)
<1>1. Len(s) \in Nat /\ Len(t) \in Nat
  BY ListProperties
<1>2. /\ IsList(s \o t) /\ Len(s \o t) = Len(s) + Len(t)
      /\ \A i \in 1..Len(s) : (s \o t)[i] = s[i]
  BY Joined
<1>3. n \in 0..Len(s \o t)
  BY <1>1, <1>2
<1>4. /\ IsList(SubSeq(s \o t, 1, n)) /\ Len(SubSeq(s \o t, 1, n)) = n
      /\ \A i \in 1..n : SubSeq(s \o t, 1, n)[i] = (s \o t)[i]
  BY <1>2, <1>3, Beginning
<1>5. /\ IsList(SubSeq(s, 1, n)) /\ Len(SubSeq(s, 1, n)) = n
      /\ \A i \in 1..n : SubSeq(s, 1, n)[i] = s[i]
  BY Beginning
<1>6. \A i \in 1..n : (s \o t)[i] = s[i]
  BY <1>1, <1>2
<1> QED
  BY <1>4, <1>5, <1>6, ListsAreEqual

LEMMA OneMoreElement ==
  ASSUME NEW list, IsList(list), NEW e
  PROVE  LET more == list \o <<e>>
         IN  /\ IsList(more) /\ Len(more) = Len(list) + 1
             /\ \A i \in 1..Len(list) : more[i] = list[i]
             /\ more[Len(list) + 1] = e
             /\ SubSeq(more, 1, Len(list)) = list
<1>1. PICK one : one = <<e>>
  OBVIOUS
<1>2. IsList(one) /\ Len(one) = 1 /\ one[1] = e /\ 1 \in 1..Len(one)
  BY <1>1, OneElement
<1>3. IsList(list \o one) /\ Len(list \o one) = Len(list) + Len(one)
  BY <1>2, Joined
<1>4. \A i \in 1..Len(list) : (list \o one)[i] = list[i]
  BY <1>2, Joined
<1>5. \A i \in 1..Len(one) : (list \o one)[Len(list) + i] = one[i]
  BY ONLY <1>2, IsList(list), Joined
<1>6. Len(list) \in 0..Len(list)
  BY ListProperties
<1>7. SubSeq(list \o one, 1, Len(list)) = SubSeq(list, 1, Len(list))
  BY <1>2, <1>6, SameBeginning
<1>8. SubSeq(list, 1, Len(list)) = list
  BY SubSeqFull DEF IsList
<1> QED
  BY <1>1, <1>2, <1>3, <1>4, <1>5, <1>7, <1>8

-----------------------------------------------------------------------------
(* Sums, and lists of lists put together. *)

(* A function on 1..n from its first value and the step to the next one. *)
RecursUpTo(f, n, S, first, step) ==
  /\ f \in [1..n -> S] /\ f[1] = first
  /\ \A i \in 1..(n - 1) : f[i + 1] = step[<<i, f[i]>>]

LEMMA RecursionFromOne ==
  ASSUME NEW n \in Nat \ {0}, NEW S, NEW first \in S, NEW step, step \in [Nat \X S -> S]
  PROVE  \E f : RecursUpTo(f, n, S, first, step)
<1>1. PICK later : later = [x \in Nat \X S |-> step[<<x[1] + 1, x[2]>>]]
  OBVIOUS
<1>2. \A x \in Nat \X S : x[1] + 1 \in Nat /\ x[2] \in S
  OBVIOUS
<1>3. later \in [Nat \X S -> S]
  BY <1>1, <1>2
<1>4. PICK g : Recurs(g, S, first, later)
  BY <1>3, RecursionHasSolution
<1>5. g \in [Nat -> S] /\ g[0] = first /\ \A i \in Nat : g[i + 1] = later[<<i, g[i]>>]
  BY <1>4 DEF Recurs
<1>6. PICK f : f = [i \in 1..n |-> g[i - 1]]
  OBVIOUS
<1>7. f \in [1..n -> S] /\ f[1] = first
  BY <1>5, <1>6
<1>8. ASSUME NEW i \in 1..(n - 1) PROVE f[i + 1] = step[<<i, f[i]>>]
  <2>1. i - 1 \in Nat /\ (i - 1) + 1 = i /\ i \in 1..n /\ i + 1 \in 1..n /\ (i + 1) - 1 = i
    OBVIOUS
  <2>2. g[(i - 1) + 1] = later[<<i - 1, g[i - 1]>>]
    BY <1>5, <2>1
  <2>3. <<i - 1, g[i - 1]>> \in Nat \X S
    BY <1>5, <2>1
  <2>4. later[<<i - 1, g[i - 1]>>] = step[<<(i - 1) + 1, g[i - 1]>>]
    BY <1>1, <2>3
  <2> QED BY <1>6, <2>1, <2>2, <2>4
<1>9. RecursUpTo(f, n, S, first, step)
  BY <1>7, <1>8 DEF RecursUpTo
<1> QED
  BY <1>9

(* The function that SumOfFirst chooses. *)
LEMMA SumOfFirstSolves ==
  ASSUME NEW s, NEW n \in Nat, \A i \in 1..n : s[i] \in Nat
  PROVE  \E f : /\ f \in [0..n -> Nat] /\ f[0] = 0
                /\ \A k \in 0..(n - 1) : f[k + 1] = f[k] + s[k + 1]
                /\ SumOfFirst(s, n) = f[n]
<1>1. PICK step : step = [x \in Nat \X Nat |-> IF x[1] + 1 \in 1..n THEN x[2] + s[x[1] + 1] ELSE 0]
  OBVIOUS
<1>2. ASSUME NEW x \in Nat \X Nat
      PROVE  (IF x[1] + 1 \in 1..n THEN x[2] + s[x[1] + 1] ELSE 0) \in Nat
  <2>1. x[1] \in Nat /\ x[2] \in Nat
    OBVIOUS
  <2>2. CASE x[1] + 1 \in 1..n
    <3>1. s[x[1] + 1] \in Nat
      BY <2>2
    <3> QED BY <2>1, <2>2, <3>1
  <2> QED BY <2>2
<1>3. step \in [Nat \X Nat -> Nat]
  BY <1>1, <1>2
<1>4. PICK g : Recurs(g, Nat, 0, step)
  BY <1>3, RecursionHasSolution
<1>5. g \in [Nat -> Nat] /\ g[0] = 0 /\ \A k \in Nat : g[k + 1] = step[<<k, g[k]>>]
  BY <1>4 DEF Recurs
<1>6. ASSUME NEW k \in 0..(n - 1) PROVE g[k + 1] = g[k] + s[k + 1]
  <2>1. k \in Nat /\ k + 1 \in 1..n /\ g[k] \in Nat
    BY <1>5
  <2>2. step[<<k, g[k]>>] = g[k] + s[k + 1]
    BY <1>1, <2>1
  <2> QED BY <1>5, <2>1, <2>2
<1>7. PICK h : h = [k \in 0..n |-> g[k]]
  OBVIOUS
<1>8. h \in [0..n -> Nat] /\ h[0] = 0 /\ \A k \in 0..n : h[k] = g[k]
  BY <1>5, <1>7
<1>9. ASSUME NEW k \in 0..n PROVE h[k] = IF k = 0 THEN 0 ELSE h[k - 1] + s[k]
  <2>1. CASE k = 0
    BY <2>1, <1>8
  <2>2. CASE k # 0
    <3>1. k - 1 \in 0..(n - 1) /\ k - 1 \in 0..n /\ (k - 1) + 1 = k
      BY <2>2
    <3>2. g[(k - 1) + 1] = g[k - 1] + s[(k - 1) + 1]
      BY <1>6, <3>1
    <3>3. h[k] = g[k] /\ h[k - 1] = g[k - 1]
      BY <1>8, <3>1
    <3> QED BY <2>2, <3>1, <3>2, <3>3
  <2> QED BY <2>1, <2>2
<1>10. h = [k \in 0..n |-> IF k = 0 THEN 0 ELSE h[k - 1] + s[k]]
  <2>1. PICK e : e = [k \in 0..n |-> IF k = 0 THEN 0 ELSE h[k - 1] + s[k]]
    OBVIOUS
  <2>2. \A k \in 0..n : e[k] = h[k]
    BY <2>1, <1>9
  <2>3. h = [k \in 0..n |-> h[k]] /\ e = [k \in 0..n |-> e[k]]
    BY <1>8, <2>1
  <2> QED BY <2>1, <2>2, <2>3
<1> DEFINE f == CHOOSE f : f = [k \in 0..n |-> IF k = 0 THEN 0 ELSE f[k - 1] + s[k]]
<1>11. f = [k \in 0..n |-> IF k = 0 THEN 0 ELSE f[k - 1] + s[k]]
  BY <1>10
<1>12. SumOfFirst(s, n) = f[n]
  BY DEF SumOfFirst
<1> HIDE DEF f
<1>13. f[0] = 0
  BY <1>11
<1>14. ASSUME NEW k \in 0..(n - 1) PROVE f[k + 1] = f[k] + s[k + 1]
  <2>1. k + 1 \in 0..n /\ k + 1 # 0 /\ (k + 1) - 1 = k
    OBVIOUS
  <2>2. f[k + 1] = f[(k + 1) - 1] + s[k + 1]
    BY <1>11, <2>1
  <2> QED BY <2>1, <2>2
<1> DEFINE T == {k \in 0..n : f[k] \in Nat}
<1>15. \A k \in 0..n : k \in T
  <2>1. 0 \in T
    BY <1>13
  <2>2. ASSUME NEW k \in 0..(n - 1), k \in T PROVE k + 1 \in T
    <3>1. k + 1 \in 1..n /\ k + 1 \in 0..n /\ f[k] \in Nat
      BY <2>2
    <3>2. s[k + 1] \in Nat
      BY <3>1
    <3> QED BY <1>14, <3>1, <3>2
  <2> HIDE DEF T
  <2> QED BY <2>1, <2>2, SegmentInduction
<1>16. f \in [0..n -> Nat]
  BY <1>11, <1>15
<1> QED
  BY <1>12, <1>13, <1>14, <1>16

(* Sums grow element by element. *)
LEMMA SumOfFirstIs ==
  ASSUME NEW s, NEW n \in Nat, \A i \in 1..n : s[i] \in Nat
  PROVE  /\ SumOfFirst(s, 0) = 0
         /\ \A k \in 0..n : SumOfFirst(s, k) \in Nat
         /\ \A k \in 0..(n - 1) : SumOfFirst(s, k + 1) = SumOfFirst(s, k) + s[k + 1]
<1> DEFINE Solves(f, m) == /\ f \in [0..m -> Nat] /\ f[0] = 0
                           /\ \A k \in 0..(m - 1) : f[k + 1] = f[k] + s[k + 1]
<1>1. ASSUME NEW m \in 0..n
      PROVE  \E f : Solves(f, m) /\ SumOfFirst(s, m) = f[m]
  <2>1. m \in Nat /\ \A i \in 1..m : s[i] \in Nat
    OBVIOUS
  <2>2. PICK f : /\ f \in [0..m -> Nat] /\ f[0] = 0
                 /\ \A k \in 0..(m - 1) : f[k + 1] = f[k] + s[k + 1]
                 /\ SumOfFirst(s, m) = f[m]
    BY ONLY <2>1, SumOfFirstSolves
  <2> QED BY ONLY <2>2
<1>2. ASSUME NEW m \in Nat, NEW f, NEW g, Solves(f, m), Solves(g, m + 1)
      PROVE  f[m] = g[m]
  <2> DEFINE T == {k \in 0..m : f[k] = g[k]}
  <2>1. 0 \in T
    BY <1>2
  <2>2. ASSUME NEW k \in 0..(m - 1), k \in T PROVE k + 1 \in T
    <3>1. k \in 0..((m + 1) - 1) /\ k + 1 \in 0..m
      OBVIOUS
    <3>2. f[k + 1] = f[k] + s[k + 1] /\ g[k + 1] = g[k] + s[k + 1]
      BY <1>2, <3>1
    <3> QED BY <2>2, <3>1, <3>2
  <2>3. \A k \in 0..m : k \in T
    <3> HIDE DEF T
    <3> QED BY <2>1, <2>2, SegmentInduction
  <2> QED BY <2>3
<1>3. SumOfFirst(s, 0) = 0
  <2>0. 0 \in 0..n
    OBVIOUS
  <2>1. PICK f : Solves(f, 0) /\ SumOfFirst(s, 0) = f[0]
    <3> HIDE DEF Solves
    <3> QED BY <1>1, <2>0
  <2> QED BY <2>1
<1>4. ASSUME NEW k \in 0..n PROVE SumOfFirst(s, k) \in Nat
  <2>1. PICK f : Solves(f, k) /\ SumOfFirst(s, k) = f[k]
    BY <1>1
  <2> QED BY <2>1
<1>5. ASSUME NEW k \in 0..(n - 1) PROVE SumOfFirst(s, k + 1) = SumOfFirst(s, k) + s[k + 1]
  <2>1. k \in Nat /\ k \in 0..n /\ k + 1 \in 0..n /\ k \in 0..((k + 1) - 1)
    OBVIOUS
  <2>2. PICK f : Solves(f, k) /\ SumOfFirst(s, k) = f[k]
    BY <1>1, <2>1
  <2>3. PICK g : Solves(g, k + 1) /\ SumOfFirst(s, k + 1) = g[k + 1]
    BY <1>1, <2>1
  <2>4. g[k + 1] = g[k] + s[k + 1]
    BY <2>1, <2>3
  <2>5. f[k] = g[k]
    <3> HIDE DEF Solves
    <3> QED BY <1>2, <2>1, <2>2, <2>3
  <2> QED BY <2>2, <2>3, <2>4, <2>5
<1> QED
  BY <1>3, <1>4, <1>5

(* The function that FlattenSeq chooses. *)
LEMMA FlattenSolves ==
  ASSUME NEW lists, IsList(lists), Len(lists) # 0, \A i \in 1..Len(lists) : IsList(lists[i])
  PROVE  \E f : /\ FlattenSeq(lists) = f[Len(lists)]
                /\ f[1] = lists[1]
                /\ \A i \in 1..(Len(lists) - 1) : f[i + 1] = f[i] \o lists[i + 1]
<1> DEFINE V == UNION {{lists[i][k] : k \in DOMAIN lists[i]} : i \in 1..Len(lists)}
<1>0. PICK n \in Nat \ {0} : n = Len(lists)
  BY ListProperties
<1>1. ASSUME NEW i \in 1..n PROVE lists[i] \in Seq(V)
  <2>1. IsList(lists[i])
    BY <1>0
  <2>2. {lists[i][k] : k \in DOMAIN lists[i]} \subseteq V
    BY <1>0
  <2> HIDE DEF V
  <2> QED BY <2>1, <2>2, SeqMonotonic DEF IsList
<1> HIDE DEF V
<1>2. PICK S : S = Seq(V)
  OBVIOUS
<1>3. \A s, t \in S : s \o t \in S
  BY <1>2
<1>4. \A i \in 1..n : lists[i] \in S
  BY <1>1, <1>2
<1>5. PICK step : step = [x \in Nat \X S |-> IF x[1] + 1 \in 1..n THEN x[2] \o lists[x[1] + 1] ELSE x[2]]
  OBVIOUS
<1>6. step \in [Nat \X S -> S]
  <2>1. ASSUME NEW x \in Nat \X S
        PROVE  (IF x[1] + 1 \in 1..n THEN x[2] \o lists[x[1] + 1] ELSE x[2]) \in S
    <3>1. x[2] \in S
      OBVIOUS
    <3>2. CASE x[1] + 1 \in 1..n
      <4>1. lists[x[1] + 1] \in S
        BY <1>4, <3>2
      <4> QED BY <1>3, <3>1, <3>2, <4>1
    <3> QED BY <3>1, <3>2
  <2> QED BY <1>5, <2>1
<1>7. 1 \in 1..n /\ lists[1] \in S
  BY <1>4
<1>7a. PICK first \in S : first = lists[1]
  BY <1>7
<1>7b. PICK g : RecursUpTo(g, n, S, first, step)
  BY <1>6, RecursionFromOne
<1>8. g \in [1..n -> S] /\ g[1] = lists[1] /\ \A i \in 1..(n - 1) : g[i + 1] = step[<<i, g[i]>>]
  BY <1>7a, <1>7b DEF RecursUpTo
<1>9. ASSUME NEW i \in 1..n PROVE g[i] = IF i = 1 THEN lists[i] ELSE g[i - 1] \o lists[i]
  <2>1. CASE i = 1
    BY <2>1, <1>8
  <2>2. CASE i # 1
    <3>1. i - 1 \in 1..(n - 1) /\ i - 1 \in 1..n /\ (i - 1) + 1 = i /\ i - 1 \in Nat
      BY <2>2
    <3>2. g[i] = step[<<i - 1, g[i - 1]>>] /\ g[i - 1] \in S
      BY <1>8, <3>1
    <3>3. step[<<i - 1, g[i - 1]>>] = g[i - 1] \o lists[(i - 1) + 1]
      BY <1>5, <3>1, <3>2
    <3> QED BY <2>2, <3>1, <3>2, <3>3
  <2> QED BY <2>1, <2>2
<1>10. g = [i \in 1..n |-> IF i = 1 THEN lists[i] ELSE g[i - 1] \o lists[i]]
  <2>1. PICK e : e = [i \in 1..n |-> IF i = 1 THEN lists[i] ELSE g[i - 1] \o lists[i]]
    OBVIOUS
  <2>2. \A i \in 1..n : e[i] = g[i]
    BY <2>1, <1>9
  <2>3. g = [i \in 1..n |-> g[i]] /\ e = [i \in 1..n |-> e[i]]
    BY <1>8, <2>1
  <2> QED BY <2>1, <2>2, <2>3
<1> DEFINE f == CHOOSE f : f = [i \in 1..Len(lists) |-> IF i = 1 THEN lists[i] ELSE f[i - 1] \o lists[i]]
<1>11. f = [i \in 1..Len(lists) |-> IF i = 1 THEN lists[i] ELSE f[i - 1] \o lists[i]]
  BY <1>0, <1>10
<1>12. FlattenSeq(lists) = f[Len(lists)]
  BY DEF FlattenSeq
<1> HIDE DEF f
<1>13. f[1] = lists[1]
  BY <1>0, <1>11
<1>14. ASSUME NEW i \in 1..(n - 1) PROVE f[i + 1] = f[i] \o lists[i + 1]
  <2>1. i + 1 \in 1..n /\ i + 1 # 1 /\ (i + 1) - 1 = i
    OBVIOUS
  <2>2. f[i + 1] = f[(i + 1) - 1] \o lists[i + 1]
    BY <1>0, <1>11, <2>1
  <2> QED BY <2>1, <2>2
<1> QED
  BY <1>0, <1>12, <1>13, <1>14

(* A list of lists put together has each of them where those before it end. *)
LEMMA FlattenIs ==
  ASSUME NEW lists, IsList(lists), \A i \in 1..Len(lists) : IsList(lists[i]),
         NEW before, before[0] = 0,
         \A i \in 1..Len(lists) : before[i] = before[i - 1] + Len(lists[i])
  PROVE  /\ IsList(FlattenSeq(lists)) /\ Len(FlattenSeq(lists)) = before[Len(lists)]
         /\ \A i \in 0..Len(lists) : before[i] \in Nat /\ before[i] <= Len(FlattenSeq(lists))
         /\ \A i \in 1..Len(lists) : \A k \in 1..Len(lists[i]) :
              FlattenSeq(lists)[before[i - 1] + k] = lists[i][k]
<1>0. Len(lists) \in Nat /\ \A i \in 1..Len(lists) : Len(lists[i]) \in Nat
  BY ListProperties
<1>1. CASE Len(lists) = 0
  <2>1. lists = <<>>
    BY <1>1 DEF IsList
  <2>2. FlattenSeq(lists) = <<>>
    BY <1>1, <2>1 DEF FlattenSeq
  <2> QED BY <1>1, <2>2, EmptyList
<1>2. CASE Len(lists) # 0
  <2>1. PICK f : /\ FlattenSeq(lists) = f[Len(lists)]
                 /\ f[1] = lists[1]
                 /\ \A i \in 1..(Len(lists) - 1) : f[i + 1] = f[i] \o lists[i + 1]
    BY <1>2, FlattenSolves
  <2> DEFINE Good(m) == /\ IsList(f[m]) /\ Len(f[m]) = before[m]
                        /\ \A i \in 0..m : before[i] \in Nat /\ before[i] <= before[m]
                        /\ \A i \in 1..m : \A k \in 1..Len(lists[i]) :
                              f[m][before[i - 1] + k] = lists[i][k]
             T == {m \in 0..(Len(lists) - 1) : Good(m + 1)}
  <2>2. Good(1)
    <3>1. 1 \in 1..Len(lists) /\ 1 - 1 = 0
      BY <1>0, <1>2
    <3>2. before[1] = Len(lists[1]) /\ before[1] \in Nat
      BY <3>1, <1>0
    <3>3. \A i \in 0..1 : i = 0 \/ i = 1
      OBVIOUS
    <3>4. ASSUME NEW i \in 1..1, NEW k \in 1..Len(lists[i])
          PROVE  f[1][before[i - 1] + k] = lists[i][k]
      <4>1. i = 1 /\ i - 1 = 0 /\ k \in Nat
        BY <3>1, <1>0
      <4>2. before[i - 1] + k = k
        BY <4>1
      <4> QED BY <4>1, <4>2, <2>1
    <3> QED BY <2>1, <3>1, <3>2, <3>3, <3>4
  <2>3. ASSUME NEW m \in 1..(Len(lists) - 1), Good(m) PROVE Good(m + 1)
    <3>1. m + 1 \in 1..Len(lists) /\ (m + 1) - 1 = m /\ m \in Nat
      BY <1>0
    <3>2. before[m + 1] = before[m] + Len(lists[m + 1]) /\ Len(lists[m + 1]) \in Nat
      BY <3>1, <1>0
    <3>3. before[m] \in Nat
      BY <2>3, <3>1
    <3>4. f[m + 1] = f[m] \o lists[m + 1] /\ IsList(lists[m + 1]) /\ IsList(f[m])
      BY <2>1, <2>3, <3>1
    <3>4a. PICK head, tail : head = f[m] /\ tail = lists[m + 1]
      OBVIOUS
    <3>4b. IsList(head) /\ IsList(tail) /\ f[m + 1] = head \o tail
      BY <3>4, <3>4a
    <3>4c. /\ IsList(head \o tail) /\ Len(head \o tail) = Len(head) + Len(tail)
           /\ \A k \in 1..Len(head) : (head \o tail)[k] = head[k]
           /\ \A k \in 1..Len(tail) : (head \o tail)[Len(head) + k] = tail[k]
      BY <3>4b, Joined
    <3>5. /\ IsList(f[m + 1]) /\ Len(f[m + 1]) = Len(f[m]) + Len(lists[m + 1])
          /\ \A k \in 1..Len(f[m]) : f[m + 1][k] = f[m][k]
          /\ \A k \in 1..Len(lists[m + 1]) : f[m + 1][Len(f[m]) + k] = lists[m + 1][k]
      BY <3>4a, <3>4b, <3>4c
    <3>6. Len(f[m]) = before[m]
      BY <2>3
    <3>7. ASSUME NEW i \in 0..(m + 1) PROVE before[i] \in Nat /\ before[i] <= before[m + 1]
      <4>1. CASE i = m + 1
        BY <4>1, <3>2, <3>3
      <4>2. CASE i # m + 1
        <5>1. i \in 0..m
          BY <4>2, <3>1
        <5>2. before[i] \in Nat /\ before[i] <= before[m]
          BY <5>1, <2>3
        <5> QED BY <5>2, <3>2, <3>3
      <4> QED BY <4>1, <4>2
    <3>8. ASSUME NEW i \in 1..(m + 1), NEW k \in 1..Len(lists[i])
          PROVE  f[m + 1][before[i - 1] + k] = lists[i][k]
      <4>1. CASE i = m + 1
        BY <4>1, <3>1, <3>5, <3>6
      <4>2. CASE i # m + 1
        <5>1. i \in 1..m /\ i \in 0..m /\ i - 1 \in 0..m /\ i \in 1..Len(lists)
          BY <4>2, <3>1, <1>0
        <5>2. /\ before[i] \in Nat /\ before[i] <= before[m] /\ before[i - 1] \in Nat
              /\ Len(lists[i]) \in Nat /\ before[i] = before[i - 1] + Len(lists[i])
          BY <5>1, <2>3, <1>0
        <5>3. before[i - 1] + k \in 1..Len(f[m])
          <6>1. PICK a, b, c, d \in Nat : /\ a = before[i - 1] /\ b = before[i]
                                         /\ c = before[m] /\ d = Len(lists[i])
            BY <5>2, <3>3
          <6>2. b = a + d /\ b <= c /\ k \in 1..d
            BY <5>2, <6>1
          <6>3. a + k \in 1..c
            BY ONLY <6>2, a \in Nat, b \in Nat, c \in Nat, d \in Nat
          <6> QED BY ONLY <6>1, <6>3, <3>6
        <5>4. f[m][before[i - 1] + k] = lists[i][k]
          BY <5>1, <2>3
        <5> QED BY <5>3, <5>4, <3>5
      <4> QED BY <4>1, <4>2
    <3>9. Len(f[m + 1]) = before[m + 1]
      BY <3>2, <3>5, <3>6
    <3> QED BY <3>5, <3>7, <3>8, <3>9
  <2>4. \A m \in 0..(Len(lists) - 1) : m \in T
    <3>1. Len(lists) - 1 \in Nat
      BY <1>0, <1>2
    <3>2. 0 \in T
      BY <2>2, <3>1
    <3>3. ASSUME NEW m \in 0..((Len(lists) - 1) - 1), m \in T PROVE m + 1 \in T
      <4>1. m + 1 \in 1..(Len(lists) - 1) /\ m + 1 \in 0..(Len(lists) - 1) /\ Good(m + 1)
        BY <3>1, <3>3
      <4> HIDE DEF Good
      <4> QED BY <4>1, <2>3
    <3> HIDE DEF T
    <3> QED BY <3>1, <3>2, <3>3, SegmentInduction
  <2>5. Len(lists) - 1 \in 0..(Len(lists) - 1) /\ (Len(lists) - 1) + 1 = Len(lists)
    BY <1>0, <1>2
  <2>6. Good(Len(lists))
    <3> HIDE DEF Good
    <3>1. Len(lists) - 1 \in T
      BY <2>4, <2>5
    <3> QED BY <3>1, <2>5
  <2> QED BY <2>6, <2>1
<1> QED
  BY <1>1, <1>2

-----------------------------------------------------------------------------
(* The reversal of bits. *)

LEMMA BitReverseEquation ==
  BitReverse = [bits \in Nat |->
    [n \in Nat |-> IF bits = 0 THEN 0 ELSE (n % 2) * Pow2[bits - 1] + BitReverse[bits - 1][n \div 2]]]
<1>0. PICK S : S = [Nat -> Nat]
  OBVIOUS
<1>0a. PICK base : base = [n \in Nat |-> 0]
  OBVIOUS
<1>0b. PICK step : step = [x \in Nat \X S |-> [n \in Nat |-> (n % 2) * Pow2[x[1]] + x[2][n \div 2]]]
  OBVIOUS
<1>1. base \in S
  BY <1>0, <1>0a
<1>2. step \in [Nat \X S -> S]
  <2>1. ASSUME NEW x \in Nat \X S
        PROVE  [n \in Nat |-> (n % 2) * Pow2[x[1]] + x[2][n \div 2]] \in S
    <3>1. x[1] \in Nat /\ x[2] \in [Nat -> Nat] /\ Pow2[x[1]] \in Nat
      BY <1>0, Pow2Is
    <3>2. ASSUME NEW n \in Nat PROVE (n % 2) * Pow2[x[1]] + x[2][n \div 2] \in Nat
      <4>1. n % 2 \in Nat /\ n \div 2 \in Nat /\ x[2][n \div 2] \in Nat
        BY <3>1
      <4> QED BY <3>1, <4>1
    <3> QED BY <1>0, <3>2
  <2> QED BY <1>0b, <2>1
<1>3. PICK f : Recurs(f, S, base, step)
  BY <1>1, <1>2, RecursionHasSolution
<1>4. f \in [Nat -> S] /\ f[0] = base /\ \A n \in Nat : f[n + 1] = step[<<n, f[n]>>]
  BY <1>3 DEF Recurs
<1> DEFINE body(bits) == [n \in Nat |-> IF bits = 0 THEN 0 ELSE (n % 2) * Pow2[bits - 1] + f[bits - 1][n \div 2]]
<1>5. ASSUME NEW bits \in Nat PROVE f[bits] = body(bits)
  <2>1. CASE bits = 0
    BY <2>1, <1>4, <1>0a
  <2>2. CASE bits # 0
    <3>1. bits - 1 \in Nat /\ (bits - 1) + 1 = bits
      BY <2>2
    <3>2. f[bits] = step[<<bits - 1, f[bits - 1]>>] /\ f[bits - 1] \in S
      BY <1>4, <3>1
    <3>3. step[<<bits - 1, f[bits - 1]>>] = [n \in Nat |-> (n % 2) * Pow2[bits - 1] + f[bits - 1][n \div 2]]
      BY <1>0b, <3>1, <3>2
    <3> QED BY <2>2, <3>2, <3>3
  <2> QED BY <2>1, <2>2
<1>6. f = [bits \in Nat |-> body(bits)]
  <2> HIDE DEF body
  <2>1. f = [bits \in Nat |-> f[bits]]
    BY <1>4
  <2> QED BY <2>1, <1>5
<1> QED
  BY <1>6 DEF BitReverse

LEMMA BitReverseIs ==
  /\ \A n \in Nat : BitReverse[0][n] = 0
  /\ \A b \in Nat : \A n \in Nat :
       BitReverse[b + 1][n] = (n % 2) * Pow2[b] + BitReverse[b][n \div 2]
<1>1. \A n \in Nat : BitReverse[0][n] = 0
  BY BitReverseEquation
<1>2. ASSUME NEW b \in Nat, NEW n \in Nat
      PROVE  BitReverse[b + 1][n] = (n % 2) * Pow2[b] + BitReverse[b][n \div 2]
  <2>1. b + 1 \in Nat /\ (b + 1) - 1 = b /\ b + 1 # 0
    OBVIOUS
  <2>2. BitReverse[b + 1] =
          [m \in Nat |-> IF b + 1 = 0 THEN 0
                         ELSE (m % 2) * Pow2[(b + 1) - 1] + BitReverse[(b + 1) - 1][m \div 2]]
    BY <2>1, BitReverseEquation
  <2> QED BY <2>1, <2>2
<1> QED
  BY <1>1, <1>2

(* A number of so many bits is reversed to one of as many. *)
LEMMA BitReverseRange ==
  ASSUME NEW b \in Nat, NEW n \in 0..(Pow2[b] - 1)
  PROVE  BitReverse[b][n] \in 0..(Pow2[b] - 1)
<1> DEFINE Good(c) == \A m \in 0..(Pow2[c] - 1) : BitReverse[c][m] \in 0..(Pow2[c] - 1)
           T == {c \in Nat : Good(c)}
<1>1. Good(0)
  BY Pow2Is, BitReverseIs
<1>2. ASSUME NEW c \in Nat, Good(c) PROVE Good(c + 1)
  <2>1. PICK P \in Nat : P = Pow2[c] /\ Pow2[c + 1] = 2 * P
    BY Pow2Is
  <2>2. ASSUME NEW m \in 0..(2 * P - 1) PROVE BitReverse[c + 1][m] \in 0..(2 * P - 1)
    <3>1. m \div 2 \in 0..(P - 1) /\ m % 2 \in 0..1 /\ m \in Nat
      BY <2>1
    <3>2. PICK r : r = BitReverse[c][m \div 2]
      OBVIOUS
    <3>3. r \in 0..(P - 1)
      BY <1>2, <2>1, <3>1, <3>2
    <3>4. BitReverse[c + 1][m] = (m % 2) * P + r
      BY <2>1, <3>1, <3>2, BitReverseIs
    <3>5. m % 2 = 0 \/ m % 2 = 1
      BY <3>1
    <3>6. CASE m % 2 = 0
      BY <3>3, <3>4, <3>6, <2>1
    <3>7. CASE m % 2 = 1
      BY <3>3, <3>4, <3>7, <2>1
    <3> QED BY <3>5, <3>6, <3>7
  <2> QED BY <2>1, <2>2
<1>3. T = Nat
  <2> HIDE DEF Good
  <2>1. T \in SUBSET Nat /\ 0 \in T /\ \A c \in T : c + 1 \in T
    BY <1>1, <1>2
  <2> HIDE DEF T
  <2> QED BY <2>1, SetInduction
<1> QED
  BY <1>3

(* The highest bit becomes the lowest. *)
LEMMA HighestBit ==
  ASSUME NEW b \in Nat, NEW x \in 0..1, NEW n \in 0..(Pow2[b] - 1)
  PROVE  BitReverse[b + 1][x * Pow2[b] + n] = 2 * BitReverse[b][n] + x
<1> DEFINE Good(c) == \A m \in 0..(Pow2[c] - 1) :
                        BitReverse[c + 1][x * Pow2[c] + m] = 2 * BitReverse[c][m] + x
           T == {c \in Nat : Good(c)}
<1>1. Good(0)
  <2>1. Pow2[0] = 1 /\ \A m \in 0..(Pow2[0] - 1) : m = 0
    BY Pow2Is
  <2>2. x = 0 \/ x = 1
    OBVIOUS
  <2>3. x * Pow2[0] + 0 = x /\ x \in Nat /\ x % 2 = x /\ x \div 2 \in Nat
    BY <2>1, <2>2
  <2>4. BitReverse[0 + 1][x] = (x % 2) * Pow2[0] + BitReverse[0][x \div 2]
    BY <2>3, BitReverseIs
  <2>5. BitReverse[0][x \div 2] = 0 /\ BitReverse[0][0] = 0
    BY <2>3, BitReverseIs
  <2> QED BY <2>1, <2>3, <2>4, <2>5
<1>2. ASSUME NEW c \in Nat, Good(c) PROVE Good(c + 1)
  <2>1. PICK P \in Nat : P = Pow2[c] /\ Pow2[c + 1] = 2 * P /\ Pow2[c + 1] \in Nat
    BY Pow2Is
  <2>2. ASSUME NEW m \in 0..(2 * P - 1)
        PROVE  BitReverse[(c + 1) + 1][x * (2 * P) + m] = 2 * BitReverse[c + 1][m] + x
    <3>1. m \div 2 \in 0..(P - 1) /\ m % 2 \in 0..1 /\ m \in Nat /\ m \div 2 \in Nat
      BY <2>1
    <3>2. PICK k \in Nat : k = x * (2 * P) + m /\ k % 2 = m % 2 /\ k \div 2 = x * P + m \div 2
      <4>1. x = 0 \/ x = 1
        OBVIOUS
      <4>2. CASE x = 0
        BY <4>2, <3>1, <2>1
      <4>3. CASE x = 1
        <5>1. (2 * P + m) % 2 = m % 2 /\ (2 * P + m) \div 2 = P + m \div 2 /\ 2 * P + m \in Nat
          BY <3>1, <2>1
        <5> QED BY <4>3, <5>1
      <4> QED BY <4>1, <4>2, <4>3
    <3>3. BitReverse[(c + 1) + 1][k] = (k % 2) * (2 * P) + BitReverse[c + 1][k \div 2]
      <4>1. c + 1 \in Nat
        OBVIOUS
      <4> QED BY <4>1, <2>1, BitReverseIs
    <3>4. BitReverse[c + 1][x * P + m \div 2] = 2 * BitReverse[c][m \div 2] + x
      BY <1>2, <2>1, <3>1
    <3>5. BitReverse[c + 1][m] = (m % 2) * P + BitReverse[c][m \div 2]
      BY <3>1, <2>1, BitReverseIs
    <3>6. PICK r : r = BitReverse[c][m \div 2]
      OBVIOUS
    <3>7. r \in Nat
      BY <3>1, <3>6, <2>1, BitReverseRange
    <3>8. (m % 2) * (2 * P) + (2 * r + x) = 2 * ((m % 2) * P + r) + x
      <4>1. m % 2 = 0 \/ m % 2 = 1
        BY <3>1
      <4> QED BY <4>1, <3>7, <2>1
    <3> QED BY <3>2, <3>3, <3>4, <3>5, <3>6, <3>8
  <2> QED BY <2>1, <2>2
<1>3. T = Nat
  <2> HIDE DEF Good
  <2>1. T \in SUBSET Nat /\ 0 \in T /\ \A c \in T : c + 1 \in T
    BY <1>1, <1>2
  <2> HIDE DEF T
  <2> QED BY <2>1, SetInduction
<1> QED
  BY <1>3

(* Reversed twice a number is itself again. *)
LEMMA BitReverseTwice ==
  ASSUME NEW b \in Nat, NEW n \in 0..(Pow2[b] - 1)
  PROVE  BitReverse[b][BitReverse[b][n]] = n
<1> DEFINE Good(c) == \A m \in 0..(Pow2[c] - 1) : BitReverse[c][BitReverse[c][m]] = m
           T == {c \in Nat : Good(c)}
<1>1. Good(0)
  <2>1. \A m \in 0..(Pow2[0] - 1) : m = 0
    BY Pow2Is
  <2>2. BitReverse[0][0] = 0
    BY BitReverseIs
  <2> QED BY <2>1, <2>2
<1>2. ASSUME NEW c \in Nat, Good(c) PROVE Good(c + 1)
  <2>1. PICK P \in Nat : P = Pow2[c] /\ Pow2[c + 1] = 2 * P
    BY Pow2Is
  <2>2. ASSUME NEW m \in 0..(2 * P - 1) PROVE BitReverse[c + 1][BitReverse[c + 1][m]] = m
    <3>1. m \div 2 \in 0..(P - 1) /\ m % 2 \in 0..1 /\ m \in Nat /\ m = 2 * (m \div 2) + (m % 2)
      BY <2>1
    <3>2. PICK r : r = BitReverse[c][m \div 2]
      OBVIOUS
    <3>3. r \in 0..(P - 1) /\ BitReverse[c][r] = m \div 2
      BY <1>2, <2>1, <3>1, <3>2, BitReverseRange
    <3>4. BitReverse[c + 1][m] = (m % 2) * P + r
      BY <2>1, <3>1, <3>2, BitReverseIs
    <3>5. BitReverse[c + 1][(m % 2) * P + r] = 2 * BitReverse[c][r] + (m % 2)
      BY <2>1, <3>1, <3>3, HighestBit
    <3> QED BY <3>1, <3>3, <3>4, <3>5
  <2> QED BY <2>1, <2>2
<1>3. T = Nat
  <2> HIDE DEF Good
  <2>1. T \in SUBSET Nat /\ 0 \in T /\ \A c \in T : c + 1 \in T
    BY <1>1, <1>2
  <2> HIDE DEF T
  <2> QED BY <2>1, SetInduction
<1> QED
  BY <1>3

(* A power of two times another.                                           *)
LEMMA Pow2Sum ==
  ASSUME NEW a \in Nat, NEW b \in Nat
  PROVE  Pow2[a + b] = Pow2[a] * Pow2[b]
<1> DEFINE T == {n \in Nat : Pow2[a + n] = Pow2[a] * Pow2[n]}
<1>1. 0 \in T
  <2>1. Pow2[0] = 1 /\ Pow2[a] \in Nat /\ a + 0 = a
    BY Pow2Is
  <2> QED BY <2>1
<1>2. ASSUME NEW n \in T PROVE n + 1 \in T
  <2>1. PICK x, y \in Nat : x = Pow2[a] /\ y = Pow2[n]
    BY Pow2Is
  <2>2. Pow2[a + n] = x * y
    BY <2>1
  <2>3. a + (n + 1) = (a + n) + 1 /\ a + n \in Nat
    OBVIOUS
  <2>4. Pow2[a + (n + 1)] = 2 * (x * y) /\ Pow2[n + 1] = 2 * y
    BY <2>1, <2>2, <2>3, Pow2Is
  <2>5. 2 * (x * y) = x * (2 * y)
    OBVIOUS
  <2> QED BY <2>1, <2>4, <2>5
<1>3. T = Nat
  <2> HIDE DEF T
  <2>1. T \in SUBSET Nat
    BY DEF T
  <2> QED BY <1>1, <1>2, <2>1, SetInduction
<1> QED
  BY <1>3

(* Dividing by two powers of two is dividing by that of the sum.           *)
LEMMA DividedTwice ==
  ASSUME NEW q \in Nat, NEW m \in Nat \ {0}, NEW n \in Nat \ {0}
  PROVE  (q \div m) \div n = q \div (m * n)
<1>1. PICK a, b \in Nat : a = q \div m /\ b = q % m /\ q = m * a + b /\ b < m
  OBVIOUS
<1>2. PICK c, d \in Nat : c = a \div n /\ d = a % n /\ a = n * c + d /\ d < n
  OBVIOUS
<1>3. m * n \in Nat \ {0} /\ m * d + b \in Nat
  BY <1>1, <1>2
<1>4. q = (m * n) * c + (m * d + b)
  <2>1. q = m * (n * c + d) + b
    BY <1>1, <1>2
  <2> QED BY <2>1
<1>5. m * d + b < m * n
  <2>1. d + 1 <= n
    BY <1>2
  <2>2. m * (d + 1) <= m * n
    BY <2>1, <1>2
  <2>3. m * (d + 1) = m * d + m
    BY <1>2
  <2> QED BY <2>2, <2>3, <1>1, <1>2
<1>6. \A p, x, r \in Nat : p > 0 /\ r < p => (p * x + r) \div p = x
  OBVIOUS
<1>7. q \div (m * n) = c
  <2>1. PICK p \in Nat : p = m * n
    BY <1>3
  <2>2. PICK r \in Nat : r = m * d + b
    BY <1>3
  <2>3. p > 0 /\ r < p /\ q = p * c + r
    BY <2>1, <2>2, <1>3, <1>4, <1>5
  <2> QED BY ONLY <2>1, <2>2, <2>3, <1>6, c \in Nat, p \in Nat, r \in Nat
<1> QED
  BY <1>1, <1>2, <1>7

(* The same as one fact: where each list ends, and what that says.         *)
Ends(lists, before) ==
  /\ IsList(lists) /\ \A i \in 1..Len(lists) : IsList(lists[i])
  /\ before[0] = 0 /\ \A i \in 1..Len(lists) : before[i] = before[i - 1] + Len(lists[i])

Flattened(lists, before) ==
  /\ IsList(FlattenSeq(lists)) /\ Len(FlattenSeq(lists)) = before[Len(lists)]
  /\ \A i \in 0..Len(lists) : before[i] \in Nat /\ before[i] <= Len(FlattenSeq(lists))
  /\ \A i \in 1..Len(lists) : \A k \in 1..Len(lists[i]) :
       FlattenSeq(lists)[before[i - 1] + k] = lists[i][k]

LEMMA FlattenedIs ==
  ASSUME NEW lists, NEW before, Ends(lists, before)
  PROVE  Flattened(lists, before)
<1>1. /\ IsList(lists) /\ \A i \in 1..Len(lists) : IsList(lists[i])
      /\ before[0] = 0 /\ \A i \in 1..Len(lists) : before[i] = before[i - 1] + Len(lists[i])
  BY DEF Ends
<1>2. /\ IsList(FlattenSeq(lists)) /\ Len(FlattenSeq(lists)) = before[Len(lists)]
      /\ \A i \in 0..Len(lists) : before[i] \in Nat /\ before[i] <= Len(FlattenSeq(lists))
      /\ \A i \in 1..Len(lists) : \A k \in 1..Len(lists[i]) :
           FlattenSeq(lists)[before[i - 1] + k] = lists[i][k]
  BY ONLY <1>1, FlattenIs
<1> QED
  BY ONLY <1>2 DEF Flattened

(* Sums only look at the elements that are added.                          *)
LEMMA SameSums ==
  ASSUME NEW s, NEW t, NEW n \in Nat, \A i \in 1..n : s[i] \in Nat /\ t[i] = s[i]
  PROVE  SumOfFirst(t, n) = SumOfFirst(s, n)
<1> DEFINE T == {k \in 0..n : SumOfFirst(t, k) = SumOfFirst(s, k)}
<1>1. /\ SumOfFirst(s, 0) = 0
      /\ \A k \in 0..(n - 1) : SumOfFirst(s, k + 1) = SumOfFirst(s, k) + s[k + 1]
  BY SumOfFirstIs
<1>2. /\ SumOfFirst(t, 0) = 0
      /\ \A k \in 0..(n - 1) : SumOfFirst(t, k + 1) = SumOfFirst(t, k) + t[k + 1]
  BY SumOfFirstIs
<1>3. 0 \in T
  BY <1>1, <1>2
<1>4. ASSUME NEW k \in 0..(n - 1), k \in T PROVE k + 1 \in T
  <2>1. k + 1 \in 0..n /\ k + 1 \in 1..n
    OBVIOUS
  <2> QED BY <2>1, <1>1, <1>2, <1>4
<1>5. \A k \in 0..n : k \in T
  <2> HIDE DEF T
  <2> QED BY <1>3, <1>4, SegmentInduction
<1>6. n \in 0..n
  OBVIOUS
<1> QED
  BY <1>5, <1>6

(* The sum of the beginning of a list.                                     *)
LEMMA SumOfBeginning ==
  ASSUME NEW s, IsList(s), \A i \in 1..Len(s) : s[i] \in Nat, NEW n \in 0..Len(s)
  PROVE  SumOf(SubSeq(s, 1, n)) = SumOfFirst(s, n)
<1>1. PICK t : t = SubSeq(s, 1, n)
  OBVIOUS
<1>2. Len(t) = n /\ n \in Nat /\ \A i \in 1..n : t[i] = s[i] /\ s[i] \in Nat
  BY <1>1, Beginning, ListProperties
<1>3. SumOfFirst(t, n) = SumOfFirst(s, n)
  <2>1. \A i \in 1..n : s[i] \in Nat /\ t[i] = s[i]
    BY <1>2
  <2> QED BY ONLY <1>2, <2>1, SameSums
<1> QED
  BY <1>1, <1>2, <1>3 DEF SumOf

(* The sum of a beginning without the first element.                       *)
LEMMA SumAfterFirst ==
  ASSUME NEW s, IsList(s), \A i \in 1..Len(s) : s[i] \in Nat, NEW n \in 1..Len(s)
  PROVE  SumOf(SubSeq(s, 2, n)) \in Nat /\ SumOf(SubSeq(s, 2, n)) = SumOfFirst(s, n) - s[1]
<1>0. Len(s) \in Nat
  BY ListProperties
<1>1. PICK t : t = SubSeq(s, 2, n)
  OBVIOUS
<1>2. PICK m \in Nat : m = n - 1
  BY <1>0
<1>3. t = [i \in 1..m |-> s[i + 1]]
  BY <1>0, <1>1, <1>2, ListProperties DEF IsList
<1>4. Len(t) = m /\ \A i \in 1..m : t[i] = s[i + 1] /\ s[i + 1] \in Nat
  <2>1. t = [i \in 1..m |-> t[i]] /\ \A i \in 1..m : t[i] = s[i + 1]
    BY <1>3
  <2>2. Len(t) = m
    BY <2>1, IndexedIsList
  <2>3. \A i \in 1..m : i + 1 \in 1..Len(s)
    BY <1>0, <1>2
  <2> QED BY <2>1, <2>2, <2>3
<1>5. /\ SumOfFirst(t, 0) = 0
      /\ \A k \in 0..(m - 1) : SumOfFirst(t, k + 1) = SumOfFirst(t, k) + t[k + 1]
  BY <1>4, SumOfFirstIs
<1>6. /\ SumOfFirst(s, 0) = 0 /\ \A k \in 0..Len(s) : SumOfFirst(s, k) \in Nat
      /\ \A k \in 0..(Len(s) - 1) : SumOfFirst(s, k + 1) = SumOfFirst(s, k) + s[k + 1]
  BY <1>0, SumOfFirstIs
<1>7. 1 \in 1..Len(s) /\ s[1] \in Nat /\ 0 \in 0..(Len(s) - 1) /\ 0 + 1 = 1
  BY <1>0
<1> DEFINE T == {k \in 0..m : SumOfFirst(t, k) = SumOfFirst(s, k + 1) - s[1]}
<1>8. 0 \in T
  BY <1>2, <1>5, <1>6, <1>7
<1>9. ASSUME NEW k \in 0..(m - 1), k \in T PROVE k + 1 \in T
  <2>1. /\ k + 1 \in 0..m /\ k + 1 \in 1..m /\ k + 1 \in 0..(Len(s) - 1) /\ k + 1 \in 0..Len(s)
        /\ k \in 0..m
    BY <1>0, <1>2
  <2>2. SumOfFirst(t, k + 1) = SumOfFirst(s, k + 1) - s[1] + s[(k + 1) + 1]
    BY <2>1, <1>4, <1>5, <1>9
  <2>3. SumOfFirst(s, (k + 1) + 1) = SumOfFirst(s, k + 1) + s[(k + 1) + 1]
    BY <2>1, <1>6
  <2>4. SumOfFirst(s, k + 1) \in Nat /\ s[(k + 1) + 1] \in Nat
    BY <2>1, <1>4, <1>6
  <2> QED BY <2>1, <2>2, <2>3, <2>4, <1>7
<1>9a. SumOfFirst(t, m) \in Nat
  <2>1. m \in 0..m
    OBVIOUS
  <2> QED BY <2>1, <1>4, SumOfFirstIs
<1>10. m \in T
  <2>1. \A k \in 0..m : k \in T
    <3> HIDE DEF T
    <3> QED BY <1>8, <1>9, SegmentInduction
  <2> QED BY <2>1
<1> QED
  BY <1>0, <1>1, <1>2, <1>4, <1>9a, <1>10 DEF SumOf

(* The end of a list that something was appended to.                       *)
LEMMA EndOfJoined ==
  ASSUME NEW s, NEW t, IsList(s), IsList(t)
  PROVE  SubSeq(s \o t, Len(s \o t) - Len(t) + 1, Len(s \o t)) = t
<1>1. PICK u : u = s \o t
  OBVIOUS
<1>2. /\ IsList(u) /\ Len(u) = Len(s) + Len(t) /\ Len(s) \in Nat /\ Len(t) \in Nat
      /\ \A i \in 1..Len(t) : u[Len(s) + i] = t[i]
  BY <1>1, Joined, ListProperties
<1>3. PICK a, b \in Nat : a = Len(u) - Len(t) + 1 /\ b = Len(u) /\ a = Len(s) + 1
  BY <1>2
<1>4. SubSeq(u, a, b) = [i \in 1..(b - a + 1) |-> u[a + i - 1]]
  BY <1>2, <1>3 DEF IsList
<1>5. b - a + 1 = Len(t)
  BY <1>2, <1>3
<1>6. \A i \in 1..Len(t) : a + i - 1 = Len(s) + i
  BY <1>2, <1>3
<1>7. SubSeq(u, a, b) = [i \in 1..Len(t) |-> t[i]]
  BY <1>2, <1>4, <1>5, <1>6
<1> QED
  BY <1>1, <1>3, <1>7, ListProperties

(* A number below the last of growing bounds is between two of them.       *)
LEMMA BetweenBounds ==
  ASSUME NEW n \in Nat, NEW before, before[0] = 0, \A i \in 0..n : before[i] \in Nat,
         NEW k \in Nat, k < before[n]
  PROVE  \E i \in 1..n : before[i - 1] <= k /\ k < before[i]
<1> DEFINE T == {m \in Nat : m <= n /\ k < before[m]}
<1>1. T \in SUBSET Nat /\ n \in T
  OBVIOUS
<1>2. PICK i \in T : \A j \in T : i <= j
  <2> HIDE DEF T
  <2> QED BY <1>1, LeastOf
<1>3. i \in Nat /\ i <= n /\ k < before[i] /\ i # 0
  BY <1>2
<1>4. i - 1 \in 0..n /\ i - 1 \notin T
  BY <1>2, <1>3
<1>5. before[i - 1] \in Nat /\ before[i - 1] <= k
  BY <1>3, <1>4
<1>6. i \in 1..n
  BY <1>3
<1> QED
  BY <1>3, <1>5, <1>6

(* The columns of lists one after the other: every element is from a list. *)
LEMMA FlattenedElements ==
  ASSUME NEW lists, IsList(lists), \A i \in 1..Len(lists) : IsList(lists[i]),
         NEW before, before[0] = 0,
         \A i \in 1..Len(lists) : before[i] = before[i - 1] + Len(lists[i]),
         NEW k \in 1..Len(FlattenSeq(lists))
  PROVE  \E i \in 1..Len(lists) : \E j \in 1..Len(lists[i]) :
           k = before[i - 1] + j /\ FlattenSeq(lists)[k] = lists[i][j]
<1>0. Len(lists) \in Nat /\ \A i \in 1..Len(lists) : Len(lists[i]) \in Nat
  BY ListProperties
<1>1. /\ Len(FlattenSeq(lists)) = before[Len(lists)]
      /\ \A i \in 0..Len(lists) : before[i] \in Nat
      /\ \A i \in 1..Len(lists) : \A j \in 1..Len(lists[i]) :
           FlattenSeq(lists)[before[i - 1] + j] = lists[i][j]
  BY FlattenIs
<1>2. PICK n \in Nat : n = Len(lists)
  BY <1>0
<1>2a. before[n] \in Nat
  BY <1>0, <1>1, <1>2
<1>3. k - 1 \in Nat /\ k - 1 < before[n]
  BY <1>1, <1>2, <1>2a
<1>4. PICK i \in 1..n : before[i - 1] <= k - 1 /\ k - 1 < before[i]
  <2>1. \A j \in 0..n : before[j] \in Nat
    BY <1>1, <1>2
  <2> QED BY <1>3, <2>1, BetweenBounds
<1>5. before[i] = before[i - 1] + Len(lists[i]) /\ before[i - 1] \in Nat /\ Len(lists[i]) \in Nat
  <2>1. i \in 1..Len(lists) /\ i - 1 \in 0..Len(lists)
    BY <1>0, <1>2
  <2> QED BY <2>1, <1>0, <1>1
<1>6. PICK j : j = k - before[i - 1]
  OBVIOUS
<1>7. j \in 1..Len(lists[i]) /\ k = before[i - 1] + j
  <2>1. PICK a, b, c \in Nat : a = before[i - 1] /\ b = before[i] /\ c = Len(lists[i])
    BY <1>5
  <2>2. k \in Nat /\ a <= k - 1 /\ k - 1 < b /\ b = a + c /\ j = k - a
    BY <1>3, <1>4, <1>5, <1>6, <2>1
  <2>3. j \in 1..c /\ k = a + j
    BY ONLY <2>2, a \in Nat, b \in Nat, c \in Nat
  <2> QED BY <2>1, <2>3
<1> QED
  BY <1>1, <1>2, <1>7
=============================================================================
