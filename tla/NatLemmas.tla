------------------------------ MODULE NatLemmas -----------------------------
(***************************************************************************)
(* Least and greatest elements, without which a CHOOSE says nothing, and   *)
(* induction over them: a statement about all n is a set of numbers, so    *)
(* that no lemma needs an operator for a parameter.                        *)
(***************************************************************************)
EXTENDS Integers, Sequences, FiniteSetTheorems, WellFoundedInduction, TLAPS

\* The least element in terms of a relation, as the library has it.
LEMMA LeastOf ==
    ASSUME NEW T, T \subseteq Nat, NEW R, \A x, y \in Nat : <<y, x>> \in R <=> y < x,
           \E x \in T : \A y \in T : ~ (<<y, x>> \in R)
    PROVE  \E x \in T : \A y \in T : x <= y
<1>1. PICK x \in T : \A y \in T : ~ (<<y, x>> \in R)
  OBVIOUS
<1>2. ASSUME NEW y \in T
      PROVE  x <= y
  <2>1. ~(y < x) /\ x \in Nat /\ y \in Nat
    BY <1>1, Zenon
  <2> QED BY <2>1
<1> QED BY <1>2

\* A set of natural numbers has a least one.
LEMMA LeastElement ==
    ASSUME NEW T, T \subseteq Nat, T # {}
    PROVE  \E x \in T : \A y \in T : x <= y
<1> DEFINE R == OpToRel(<, Nat)
<1>1. \E x \in T : \A y \in T : ~ (<<y, x>> \in R)
  BY WFMin, NatLessThanWellFounded, Zenon
<1>2. \A x, y \in Nat : <<y, x>> \in R <=> y < x
  BY DEF OpToRel
<1> QED BY <1>1, <1>2, LeastOf, Zenon

\* A finite set of integers has a greatest one.
LEMMA GreatestElement ==
    ASSUME NEW T, T \subseteq Int, T # {}, IsFiniteSet(T)
    PROVE  \E x \in T : \A y \in T : y <= x
<1> DEFINE Topped(S) == \E x \in S : \A y \in S : y <= x
           Bad == {n \in Nat : \E S \in SUBSET T : S # {} /\ ~Topped(S) /\ Cardinality(S) = n}
<1>1. SUFFICES ASSUME ~Topped(T) PROVE FALSE
  OBVIOUS
<1>2. Cardinality(T) \in Bad
  BY <1>1, FS_CardinalityType
<1>3. PICK n \in Bad : \A k \in Bad : n <= k
  <2>1. Bad \subseteq Nat /\ Bad # {}
    BY <1>2
  <2> HIDE DEF Bad
  <2> QED BY <2>1, LeastElement
<1>4. PICK S \in SUBSET T : S # {} /\ ~Topped(S) /\ Cardinality(S) = n
  OBVIOUS
<1>5. PICK x \in S : TRUE
  BY <1>4
<1>6. IsFiniteSet(S \ {x}) /\ Cardinality(S \ {x}) = n - 1 /\ Cardinality(S \ {x}) \in Nat
  BY <1>4, <1>5, FS_Subset, FS_RemoveElement, FS_CardinalityType
<1>7. S \ {x} # {}
  <2>1. ASSUME S \ {x} = {} PROVE Topped(S)
    BY <1>4, <1>5, <2>1
  <2> QED BY <1>4, <2>1
<1>8. Topped(S \ {x})
  <2>1. n - 1 \notin Bad
    BY <1>3
  <2> QED BY <1>4, <1>6, <1>7, <2>1
<1>9. PICK m \in S \ {x} : \A y \in S \ {x} : y <= m
  BY <1>8
<1>10. Topped(S)
  <2>1. x \in Int /\ m \in Int /\ S \subseteq Int
    BY <1>4, <1>5, <1>9
  <2>2. CASE x <= m
    BY <1>9, <2>1, <2>2
  <2>3. CASE m <= x
    BY <1>5, <1>9, <2>1, <2>3
  <2> QED BY <2>1, <2>2, <2>3
<1> QED BY <1>4, <1>10

\* What holds of 0 and, with n - 1, of n, holds up to N.
LEMMA UpTo ==
    ASSUME NEW N \in Nat, NEW T, 0 \in T, \A n \in 1..N : n - 1 \in T => n \in T
    PROVE  0..N \subseteq T
<1> DEFINE Bad == (0..N) \ T
<1>1. SUFFICES ASSUME Bad # {} PROVE FALSE
  OBVIOUS
<1>2. Bad \subseteq Nat
  OBVIOUS
<1>3. PICK n \in Bad : \A k \in Bad : n <= k
  <2> HIDE DEF Bad
  <2> QED BY <1>1, <1>2, LeastElement
<1>4. n \in 1..N /\ n - 1 \in 0..N
  OBVIOUS
<1>5. n - 1 \in T
  BY <1>3, <1>4
<1> QED BY <1>4, <1>5

\* Functions from 0..N whose value at n is given by a step from that at an earlier place.
StepsOf(N, S) == [(1..N) \X S -> S]
RunsBy(N, S, first, step, prev) ==
    {f \in [0..N -> S] : f[0] = first /\ \A n \in 1..N : f[n] = step[<<n, f[prev[n]]>>]}

Earlier(N, prev) == prev \in [1..N -> Nat] /\ \A n \in 1..N : prev[n] < n

\* What holds of 0 and, with an earlier place, of n, holds up to N.
LEMMA UpToBy ==
    ASSUME NEW N \in Nat, NEW prev, Earlier(N, prev), NEW T, 0 \in T,
           \A n \in 1..N : prev[n] \in T => n \in T
    PROVE  0..N \subseteq T
<1> DEFINE Bad == (0..N) \ T
<1>1. SUFFICES ASSUME Bad # {} PROVE FALSE
  OBVIOUS
<1>2. Bad \subseteq Nat
  OBVIOUS
<1>3. PICK n \in Bad : \A k \in Bad : n <= k
  <2> HIDE DEF Bad
  <2> QED BY <1>1, <1>2, LeastElement
<1>4. n \in 1..N
  OBVIOUS
<1>5. prev[n] \in 0..N /\ prev[n] < n /\ prev[n] \in Nat
  BY <1>4 DEF Earlier
<1>6. prev[n] \notin Bad
  BY <1>3, <1>5
<1> QED BY <1>4, <1>5, <1>6

\* There is one.
LEMMA RecursionBy ==
    ASSUME NEW N \in Nat, NEW S, NEW first \in S, NEW step \in StepsOf(N, S),
           NEW prev, Earlier(N, prev)
    PROVE  \E f : f \in RunsBy(N, S, first, step, prev)
<1> DEFINE Defined(m, f) == f[0] = first /\ \A n \in 1..m : f[n] = step[<<n, f[prev[n]]>>]
           T == {m \in 0..N : \E f \in [0..m -> S] : Defined(m, f)}
<1>1. 0 \in T
  <2>1. [k \in 0..0 |-> first] \in [0..0 -> S] /\ Defined(0, [k \in 0..0 |-> first])
    OBVIOUS
  <2> HIDE DEF Defined
  <2> QED BY <2>1
<1>2. ASSUME NEW m \in 1..N, m - 1 \in T PROVE m \in T
  <2>1. PICK f \in [0..(m - 1) -> S] : Defined(m - 1, f)
    BY <1>2
  <2> DEFINE p == prev[m]
             g == [k \in 0..m |-> IF k = m THEN step[<<m, f[p]>>] ELSE f[k]]
  <2>2. \A n \in 1..m : prev[n] \in 0..(n - 1)
    BY DEF Earlier
  <2>3. p \in 0..(m - 1) /\ f[p] \in S /\ step[<<m, f[p]>>] \in S
    <3>1. p \in 0..(m - 1) /\ f[p] \in S
      BY <2>2
    <3> HIDE DEF p
    <3> QED BY <3>1 DEF StepsOf
  <2> HIDE DEF p
  <2>4. g \in [0..m -> S]
    BY <2>3
  <2>5. g[m] = step[<<m, f[p]>>] /\ \A k \in 0..(m - 1) : g[k] = f[k]
    <3>1. \A k \in 0..(m - 1) : k \in 0..m /\ k # m
      OBVIOUS
    <3>2. m \in 0..m
      OBVIOUS
    <3> QED BY <3>1, <3>2
  <2> HIDE DEF g
  <2>6. ASSUME NEW n \in 1..m PROVE g[n] = step[<<n, g[prev[n]]>>]
    <3>1. CASE n = m
      BY <2>3, <2>5, <3>1 DEF p
    <3>2. CASE n # m
      <4>1. n \in 1..(m - 1) /\ n \in 0..(m - 1) /\ prev[n] \in 0..(m - 1)
        BY <2>2, <3>2
      <4> QED BY <2>1, <2>5, <4>1
    <3> QED BY <3>1, <3>2
  <2>7. g[0] = first
    <3>1. 0 \in 0..(m - 1)
      OBVIOUS
    <3> QED BY <2>1, <2>5, <3>1
  <2> QED BY <2>4, <2>6, <2>7
<1>3. N \in T
  <2> HIDE DEF T
  <2> QED BY <1>1, <1>2, UpTo
<1> QED BY <1>3 DEF RunsBy

\* A function with such values and such a step keeps to the set of the step.
LEMMA RunsByTyped ==
    ASSUME NEW N \in Nat, NEW S, NEW first \in S, NEW step \in StepsOf(N, S),
           NEW prev, Earlier(N, prev),
           NEW R, R = [n \in 0..N |-> R[n]], R[0] = first,
           \A n \in 1..N : R[prev[n]] \in S => R[n] = step[<<n, R[prev[n]]>>]
    PROVE  R \in RunsBy(N, S, first, step, prev)
<1> DEFINE T == {n \in 0..N : R[n] \in S}
<1>1. 0 \in T
  OBVIOUS
<1>2. ASSUME NEW n \in 1..N, prev[n] \in T PROVE n \in T
  <2>1. R[prev[n]] \in S
    BY <1>2
  <2>2. R[n] = step[<<n, R[prev[n]]>>]
    BY <2>1
  <2>3. <<n, R[prev[n]]>> \in (1..N) \X S
    BY <2>1
  <2>4. step[<<n, R[prev[n]]>>] \in S
    BY <2>3 DEF StepsOf
  <2>5. n \in 0..N
    OBVIOUS
  <2> QED BY <2>2, <2>4, <2>5
<1>3. 0..N \subseteq T
  <2> HIDE DEF T
  <2> QED BY <1>1, <1>2, UpToBy
<1>4. \A n \in 0..N : R[n] \in S
  BY <1>3
<1>5. R \in [0..N -> S]
  BY <1>4
<1>6. \A n \in 1..N : prev[n] \in 0..N
  BY DEF Earlier
<1> QED BY <1>4, <1>5, <1>6 DEF RunsBy

\* The same for the place before n.
RunsOf(N, S, first, step) ==
    {f \in [0..N -> S] : f[0] = first /\ \A n \in 1..N : f[n] = step[<<n, f[n - 1]>>]}

\* One before is earlier.
LEMMA OneBefore ==
    ASSUME NEW N \in Nat, NEW S, NEW first, NEW step
    PROVE  LET prev == [n \in 1..N |-> n - 1]
           IN Earlier(N, prev) /\ RunsBy(N, S, first, step, prev) = RunsOf(N, S, first, step)
BY DEF Earlier, RunsBy, RunsOf

\* There is one.
LEMMA Recursion ==
    ASSUME NEW N \in Nat, NEW S, NEW first \in S, NEW step \in StepsOf(N, S)
    PROVE  \E f : f \in RunsOf(N, S, first, step)
<1> DEFINE prev == [n \in 1..N |-> n - 1]
<1>1. Earlier(N, prev) /\ RunsBy(N, S, first, step, prev) = RunsOf(N, S, first, step)
  BY OneBefore
<1>2. \E f : f \in RunsBy(N, S, first, step, prev)
  <2> HIDE DEF prev
  <2> QED BY <1>1, RecursionBy
<1> QED BY <1>1, <1>2

\* A function with such values and such a step keeps to the set of the step.
LEMMA RunsTyped ==
    ASSUME NEW N \in Nat, NEW S, NEW first \in S, NEW step \in StepsOf(N, S),
           NEW R, R = [n \in 0..N |-> R[n]], R[0] = first,
           \A n \in 1..N : R[n - 1] \in S => R[n] = step[<<n, R[n - 1]>>]
    PROVE  R \in RunsOf(N, S, first, step)
<1> DEFINE prev == [n \in 1..N |-> n - 1]
<1>1. Earlier(N, prev) /\ RunsBy(N, S, first, step, prev) = RunsOf(N, S, first, step)
  BY OneBefore
<1>2. \A n \in 1..N : R[prev[n]] \in S => R[n] = step[<<n, R[prev[n]]>>]
  OBVIOUS
<1>3. R \in RunsBy(N, S, first, step, prev)
  <2> HIDE DEF prev
  <2> QED BY <1>1, <1>2, RunsByTyped
<1> QED BY <1>1, <1>3
=============================================================================
