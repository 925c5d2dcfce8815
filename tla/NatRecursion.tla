---------------------------- MODULE NatRecursion ----------------------------
(***************************************************************************)
(* Induction and recursion on the naturals, stated about sets and          *)
(* functions instead of predicates, so that they can be cited with the     *)
(* first-order provers.  The models count rows and stack positions with    *)
(* functions defined by recursion on Nat (KNF, ScoreUpdate, Resolution,    *)
(* IndexedStack); these are the facts that let one reason about them.      *)
(***************************************************************************)
EXTENDS Integers, FiniteSetTheorems, TLAPS

\* Induction: a set that contains 0 and is closed under successor contains
\* every natural number.  If m were missing, successor would inject the part
\* of S up to m into that part without 0, which has one element less.
THEOREM NatInductionSet ==
  ASSUME NEW S, 0 \in S, \A n \in Nat : n \in S => n + 1 \in S
  PROVE  Nat \subseteq S
<1> SUFFICES ASSUME NEW m \in Nat, m \notin S PROVE FALSE
  OBVIOUS
<1> DEFINE A == S \cap (0..m)
           B == A \ {0}
           succ == [x \in A |-> x + 1]
<1>1. IsFiniteSet(A)
  BY FS_Interval, FS_Subset, 0 \in Int, m \in Int
<1>2. 0 \in A
  OBVIOUS
<1>3. IsFiniteSet(B) /\ Cardinality(B) = Cardinality(A) - 1
  BY <1>1, <1>2, FS_RemoveElement
<1>4. succ \in [A -> B]
  OBVIOUS
<1>5. \A x, y \in A : succ[x] = succ[y] => x = y
  OBVIOUS
<1>6. succ \in Injection(A, B)
  BY <1>4, <1>5 DEF Injection, IsInjective
<1>7. Cardinality(A) <= Cardinality(B)
  BY <1>3, <1>6, FS_Injection, Zenon
<1>8. Cardinality(A) \in Nat
  BY <1>1, FS_CardinalityType
<1> QED
  BY <1>3, <1>7, <1>8

\* A function built up to n by the recursion x0, F[1][x0], F[2][F[1][x0]], ...
IsPrefix(h, n, X, x0, F) ==
  /\ h \in [0..n -> X]
  /\ h[0] = x0
  /\ \A i \in 1..n : h[i] = F[i][h[i - 1]]

\* g[n] is the n'th value of the iteration.
Iterates(g, X, x0, F) ==
  /\ g \in [Nat -> X]
  /\ g[0] = x0
  /\ \A n \in Nat : g[n + 1] = F[n + 1][g[n]]

\* Recursion: iterating the functions F[1], F[2], ... from x0 defines a
\* function on Nat, with its values in X.
THEOREM NatRecursionExists ==
  ASSUME NEW X, NEW x0 \in X, NEW F \in [Nat -> [X -> X]]
  PROVE  \E g : Iterates(g, X, x0, F)
<1> DEFINE Good(h, n) == IsPrefix(h, n, X, x0, F)
           S == {n \in Nat : \E h : Good(h, n)}
<1>1. Nat \subseteq S
  <2>1. 0 \in S
    <3>1. Good([i \in 0..0 |-> x0], 0)
      BY DEF IsPrefix
    <3> QED BY <3>1
  <2>2. ASSUME NEW n \in Nat, n \in S PROVE n + 1 \in S
    <3>1. PICK h : Good(h, n)
      BY <2>2
    <3> DEFINE k == [i \in 0..n + 1 |-> IF i = n + 1 THEN F[n + 1][h[n]] ELSE h[i]]
    <3>2. h[n] \in X /\ F[n + 1] \in [X -> X]
      BY <3>1 DEF IsPrefix
    <3>3. k \in [0..n + 1 -> X]
      BY <3>1, <3>2 DEF IsPrefix
    <3>4. k[0] = x0
      BY <3>1 DEF IsPrefix
    <3>5. ASSUME NEW i \in 1..n + 1 PROVE k[i] = F[i][k[i - 1]]
      <4>1. k[i - 1] = h[i - 1]
        OBVIOUS
      <4>2. CASE i = n + 1
        BY <4>1, <4>2
      <4>3. CASE i # n + 1
        <5>1. i \in 1..n
          BY <4>3
        <5>2. h[i] = F[i][h[i - 1]]
          BY <3>1, <5>1 DEF IsPrefix
        <5> QED BY <4>1, <4>3, <5>2
      <4> QED BY <4>2, <4>3
    <3>6. Good(k, n + 1)
      BY <3>3, <3>4, <3>5 DEF IsPrefix
    <3> QED BY <3>6
  <2> HIDE DEF S
  <2> QED BY <2>1, <2>2, NatInductionSet
<1>2. ASSUME NEW n \in Nat, NEW h, NEW m \in Nat, NEW k, n <= m, Good(h, n), Good(k, m)
      PROVE  \A i \in 0..n : h[i] = k[i]
  <2> DEFINE T == {i \in Nat : i <= n => h[i] = k[i]}
  <2>1. 0 \in T
    BY <1>2 DEF IsPrefix
  <2>2. ASSUME NEW i \in Nat, i \in T PROVE i + 1 \in T
    <3> SUFFICES ASSUME i + 1 <= n PROVE h[i + 1] = k[i + 1]
      OBVIOUS
    <3>1. i + 1 \in 1..n /\ i + 1 \in 1..m /\ (i + 1) - 1 = i
      BY <1>2
    <3>2. h[i + 1] = F[i + 1][h[i]] /\ k[i + 1] = F[i + 1][k[i]]
      BY <1>2, <3>1 DEF IsPrefix
    <3>3. h[i] = k[i]
      BY <2>2
    <3> QED BY <3>2, <3>3
  <2>3. Nat \subseteq T
    <3> HIDE DEF T
    <3> QED BY <2>1, <2>2, NatInductionSet
  <2> QED BY <2>3
<1> DEFINE H(n) == CHOOSE h : Good(h, n)
           g == [n \in Nat |-> H(n)[n]]
<1>3. ASSUME NEW n \in Nat PROVE Good(H(n), n)
  BY <1>1
<1>4. g \in [Nat -> X]
  <2> SUFFICES ASSUME NEW n \in Nat PROVE H(n)[n] \in X
    OBVIOUS
  <2> HIDE DEF H
  <2> QED BY <1>3 DEF IsPrefix
<1>5. g[0] = x0
  <2>1. Good(H(0), 0)
    BY <1>3
  <2> HIDE DEF H
  <2> QED BY <2>1 DEF IsPrefix
<1>6. ASSUME NEW n \in Nat PROVE g[n + 1] = F[n + 1][g[n]]
  <2>1. Good(H(n), n) /\ Good(H(n + 1), n + 1)
    BY <1>3
  <2> HIDE DEF H
  <2>2. H(n)[n] = H(n + 1)[n]
    BY <1>2, <2>1
  <2>3. H(n + 1)[n + 1] = F[n + 1][H(n + 1)[n]]
    <3>1. n + 1 \in 1..n + 1 /\ (n + 1) - 1 = n
      OBVIOUS
    <3> QED BY <2>1, <3>1 DEF IsPrefix
  <2> QED BY <2>2, <2>3
<1> QED
  BY <1>4, <1>5, <1>6 DEF Iterates
=============================================================================
