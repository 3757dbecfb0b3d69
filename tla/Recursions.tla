----------------------------- MODULE Recursions -----------------------------
(***************************************************************************)
(* What the proofs need of functions that are defined by recursion over a  *)
(* number: induction, and that such a function exists.                     *)
(***************************************************************************)
EXTENDS Integers, SequenceTheorems, WellFoundedInduction, TLAPS

LEMMA Induction ==
  ASSUME NEW P, 0 \in P, \A n \in Nat : n \in P => n + 1 \in P
  PROVE  Nat \subseteq P
  <1> DEFINE Missing == {n \in Nat : n \notin P}
  <1> SUFFICES ASSUME Missing # {} PROVE FALSE
    OBVIOUS
  <1>1. Missing \subseteq Nat /\ \A n \in Nat : n \notin Missing => n \in P
    OBVIOUS
  <1>2. \A n \in Missing : n \notin P
    OBVIOUS
  <1> HIDE DEF Missing
  <1>3. PICK m \in Missing : \A k \in Missing : ~ (<<k, m>> \in OpToRel(<, Nat))
    BY <1>1, NatLessThanWellFounded, WFMin
  <1>4. m \in Nat /\ m # 0
    BY <1>1, <1>2
  <1>5. m - 1 \in Nat /\ <<m - 1, m>> \in OpToRel(<, Nat)
    BY <1>4 DEF OpToRel
  <1>6. m - 1 \in P
    BY <1>1, <1>3, <1>5
  <1>7. (m - 1) + 1 = m
    BY <1>4
  <1> QED
    BY <1>2, <1>5, <1>6, <1>7

\* a function on 0 .. N from its first value and its steps
Builds(f, N, T, first, step) ==
  /\ f \in [0..N -> T]
  /\ f[0] = first
  /\ \A n \in 1..N : f[n] = step[<<n, f[n - 1]>>]

LEMMA Recursion ==
  ASSUME NEW N \in Nat, NEW T, NEW first \in T, NEW step \in [(1..N) \X T -> T]
  PROVE  \E f : Builds(f, N, T, first, step)
  <1> DEFINE Built == {n \in Nat : n <= N => \E f : Builds(f, n, T, first, step)}
  <1>1. 0 \in Built
    <2>1. Builds([n \in 0..0 |-> first], 0, T, first, step)
      BY DEF Builds
    <2> QED
      BY <2>1
  <1>2. ASSUME NEW n \in Nat, n \in Built PROVE n + 1 \in Built
    <2> SUFFICES ASSUME n + 1 <= N
                 PROVE  \E f : Builds(f, n + 1, T, first, step)
      OBVIOUS
    <2>1. PICK f : Builds(f, n, T, first, step)
      BY <1>2
    <2> DEFINE g == [m \in 0..n + 1 |-> IF m = n + 1 THEN step[<<n + 1, f[n]>>] ELSE f[m]]
    <2>2. f[n] \in T /\ step[<<n + 1, f[n]>>] \in T
      <3>1. n \in 0..n /\ n + 1 \in 1..N
        OBVIOUS
      <3>2. f[n] \in T
        BY <2>1, <3>1 DEF Builds
      <3> QED
        BY <3>1, <3>2
    <2>3. ASSUME NEW m \in 0..n + 1 PROVE g[m] \in T
      <3>1. m = n + 1 \/ m \in 0..n
        OBVIOUS
      <3> QED
        BY <2>1, <2>2, <3>1 DEF Builds
    <2>4. g[0] = first
      BY <2>1 DEF Builds
    <2>5. ASSUME NEW m \in 1..n + 1 PROVE g[m] = step[<<m, g[m - 1]>>]
      <3>1. m - 1 \in 0..n /\ g[m - 1] = f[m - 1]
        OBVIOUS
      <3>2. CASE m = n + 1
        <4>1. g[n + 1] = step[<<n + 1, f[n]>>] /\ m - 1 = n
          BY <3>2
        <4> HIDE DEF g
        <4> QED
          BY <3>1, <3>2, <4>1
      <3>3. CASE m \in 1..n
        BY <2>1, <3>1, <3>3 DEF Builds
      <3> QED
        BY <3>2, <3>3
    <2> QED
      BY <2>3, <2>4, <2>5 DEF Builds
  <1> HIDE DEF Built
  <1>3. N \in Built
    BY <1>1, <1>2, Induction
  <1> QED
    BY <1>3 DEF Built

LEMMA ConcatAppend ==
  ASSUME NEW S, NEW s \in Seq(S), NEW t \in Seq(S), NEW e \in S
  PROVE  Append(s \o t, e) = s \o Append(t, e)
  <1>1. /\ s \o t \in Seq(S) /\ Append(t, e) = t \o <<e>> /\ <<e>> \in Seq(S)
        /\ Append(s \o t, e) = (s \o t) \o <<e>>
    BY ConcatProperties, AppendIsConcat
  <1> QED
    BY <1>1, ConcatAssociative
=============================================================================
