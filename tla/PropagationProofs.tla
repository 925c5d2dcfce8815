------------------------- MODULE PropagationProofs --------------------------
(* preprocess_up keeps exactly the models of the file, whatever its rows,    *)
(* and hands on renumbered rows that lack none.  The facts about rows, their *)
(* true literals and their renumbering, which the later passes share, are    *)
(* here too, and so is the invariant of each pass.                           *)
EXTENDS Preprocess, NatRecursion, SequenceTheorems

-----------------------------------------------------------------------------
(* Literals and rows. *)

(* Literals. *)
LEMMA LiteralFacts ==
  ASSUME NEW n \in Nat, NEW l \in Literals(n)
  PROVE  /\ l \in Int /\ l # 0 /\ VarOf(l) \in 1..n /\ VarOf(l) \in Nat
         /\ pnsign(l) \in {-1, 1}
         /\ l = VarOf(l) * pnsign(l)
         /\ -l \in Literals(n) /\ VarOf(-l) = VarOf(l) /\ pnsign(-l) = -pnsign(l)
BY DEF Literals, VarOf, pnsign

(* Two literals of one variable are the same or complementary. *)
LEMMA SameVar ==
  ASSUME NEW n \in Nat, NEW l \in Literals(n), NEW k \in Literals(n), VarOf(l) = VarOf(k)
  PROVE  /\ l = k \/ l = -k
         /\ pnsign(l) = pnsign(k) => l = k
BY DEF Literals, VarOf, pnsign

(* A variable with a sign is a literal of that variable. *)
LEMMA VarLiteral ==
  ASSUME NEW n \in Nat, NEW v \in 1..n, NEW s \in {-1, 1}
  PROVE  s * v \in Literals(n) /\ VarOf(s * v) = v /\ pnsign(s * v) = s
         /\ v \in Literals(n) /\ -v \in Literals(n) /\ VarOf(v) = v /\ VarOf(-v) = v
         /\ pnsign(v) = 1 /\ pnsign(-v) = -1
BY DEF Literals, VarOf, pnsign

(* A set of literals is finite, and its size a number. *)
LEMMA LiteralsFinite ==
  ASSUME NEW n \in Nat, NEW L \in SUBSET Literals(n)
  PROVE  IsFiniteSet(L) /\ Cardinality(L) \in Nat
<1>1. -n \in Int /\ IsFiniteSet(-n .. n)
  BY FS_Interval
<1>2. L \in SUBSET (-n .. n)
  BY DEF Literals
<1> QED
  BY <1>1, <1>2, FS_Subset, FS_CardinalityType

(* Two sets in one-to-one correspondence have the same number of elements. *)
LEMMA SameCount ==
  ASSUME NEW S, NEW T, IsFiniteSet(S), NEW f \in [S -> T],
         \A x, y \in S : f[x] = f[y] => x = y,
         \A z \in T : \E x \in S : f[x] = z
  PROVE  IsFiniteSet(T) /\ Cardinality(T) = Cardinality(S)
<1>1. f \in Injection(S, T)
  BY DEF Injection, IsInjective
<1>2. f \in Surjection(S, T)
  BY DEF Surjection
<1>3. ExistsBijection(S, T)
  BY <1>1, <1>2 DEF ExistsBijection, Bijection
<1> QED
  BY <1>3, FS_Bijection, Zenon

(* Rows over n variables, and partial and total assignments of them. *)
RowsOver(n) == [lits : SUBSET Literals(n), degree : Int]
Partial(n) == [1..n -> {-1, 0, 1}]
Total(n) == [1..n -> {-1, 1}]
Plain(r) == \A l \in r.lits : -l \notin r.lits

(* The true literals of a row, counted, are no more than its literals. *)
LEMMA TrueLitsFinite ==
  ASSUME NEW n \in Nat, NEW r \in RowsOver(n), NEW a
  PROVE  /\ IsFiniteSet(TrueLits(r, a)) /\ Cardinality(TrueLits(r, a)) \in Nat
         /\ TrueLits(r, a) \subseteq r.lits /\ r.lits \in SUBSET Literals(n)
         /\ IsFiniteSet(r.lits) /\ Size(r) \in Nat
         /\ Cardinality(TrueLits(r, a)) <= Size(r)
<1>1. r.lits \in SUBSET Literals(n)
  BY DEF RowsOver
<1>2. TrueLits(r, a) \in SUBSET r.lits
  BY DEF TrueLits
<1>3. IsFiniteSet(r.lits) /\ Cardinality(r.lits) \in Nat
  BY <1>1, LiteralsFinite
<1> QED
  BY <1>1, <1>2, <1>3, FS_Subset, FS_CardinalityType DEF Size

(* Disjoint finite sets. *)
LEMMA DisjointCount ==
  ASSUME NEW S, NEW T, IsFiniteSet(S), IsFiniteSet(T), S \cap T = {}
  PROVE  /\ IsFiniteSet(S \cup T) /\ Cardinality(S) \in Nat /\ Cardinality(T) \in Nat
         /\ Cardinality(S \cup T) = Cardinality(S) + Cardinality(T)
<1>1. /\ IsFiniteSet(S \cup T)
      /\ Cardinality(S \cup T) = Cardinality(S) + Cardinality(T) - Cardinality(S \cap T)
  BY FS_Union
<1>2. Cardinality(S \cap T) = 0
  BY FS_EmptySet
<1> QED
  BY <1>1, <1>2, FS_CardinalityType

(* Total assignments make exactly one of l and -l true. *)
LEMMA OneTrue ==
  ASSUME NEW n \in Nat, NEW l \in Literals(n), NEW a \in Total(n)
  PROVE  a[VarOf(l)] = pnsign(l) <=> a[VarOf(-l)] # pnsign(-l)
<1>1. a[VarOf(l)] \in {-1, 1}
  BY LiteralFacts DEF Total
<1> QED
  BY <1>1, LiteralFacts

(* A row with other literals. *)
LEMMA RowExcept ==
  ASSUME NEW n, NEW r \in RowsOver(n), NEW X
  PROVE  [r EXCEPT !.lits = X] = [lits |-> X, degree |-> r.degree]
BY DEF RowsOver

(* Row s is row r under the numbering c.                                     *)
CopyOf(s, r, c) ==
  /\ s.degree = r.degree /\ Size(s) = Size(r) /\ (Plain(r) => Plain(s))
  /\ RowVars(s) = {c[v] : v \in RowVars(r)}
  /\ \A l \in r.lits : /\ c[VarOf(l)] * pnsign(l) \in s.lits
                       /\ VarOf(c[VarOf(l)] * pnsign(l)) = c[VarOf(l)]
                       /\ pnsign(c[VarOf(l)] * pnsign(l)) = pnsign(l)
  /\ \A k \in s.lits : \E l \in r.lits : k = c[VarOf(l)] * pnsign(l)
  /\ \A a, b : (\A v \in RowVars(r) : b[c[v]] = a[v]) => (Holds(s, b) <=> Holds(r, a))

(* An injective renaming of the variables of a row copies it.                *)
LEMMA RecolorRow ==
  ASSUME NEW n \in Nat, NEW m \in Nat, NEW r \in RowsOver(n), NEW c \in [1..n -> 0..m],
         \A v \in RowVars(r) : c[v] # 0,
         \A v, w \in RowVars(r) : c[v] = c[w] => v = w
  PROVE  Recolor(r, c) \in RowsOver(m) /\ CopyOf(Recolor(r, c), r, c)
<1> DEFINE new(l) == c[VarOf(l)] * pnsign(l)
           s == Recolor(r, c)
<1>1. r.lits \in SUBSET Literals(n) /\ r.degree \in Int /\ IsFiniteSet(r.lits)
  BY TrueLitsFinite DEF RowsOver
<1>2a. s = [lits |-> {new(l) : l \in r.lits}, degree |-> r.degree]
  BY RowExcept DEF Recolor
<1>2. s.lits = {new(l) : l \in r.lits} /\ s.degree = r.degree
  BY <1>2a
<1>3. ASSUME NEW l \in r.lits
      PROVE  /\ c[VarOf(l)] \in 1..m /\ VarOf(l) \in RowVars(r) /\ pnsign(l) \in {-1, 1}
             /\ new(l) \in Literals(m) /\ VarOf(new(l)) = c[VarOf(l)] /\ pnsign(new(l)) = pnsign(l)
             /\ new(l) = pnsign(l) * c[VarOf(l)]
  <2>1. l \in Literals(n)
    BY <1>1
  <2>2. VarOf(l) \in 1..n /\ VarOf(l) \in RowVars(r) /\ pnsign(l) \in {-1, 1}
    BY <2>1, LiteralFacts DEF RowVars
  <2>3. c[VarOf(l)] \in 1..m
    BY <2>2
  <2>4. new(l) = pnsign(l) * c[VarOf(l)]
    BY <2>2, <2>3
  <2> QED
    BY <2>2, <2>3, <2>4, VarLiteral
<1>4. ASSUME NEW l \in r.lits, NEW k \in r.lits, new(l) = new(k) PROVE l = k
  <2>1. pnsign(l) = pnsign(k) /\ c[VarOf(l)] = c[VarOf(k)]
    BY <1>3, <1>4
  <2>2. VarOf(l) = VarOf(k)
    BY <2>1, <1>3
  <2> QED
    BY <1>1, <2>1, <2>2, SameVar
<1> HIDE DEF new, s
<1>5. s \in RowsOver(m)
  <2>1. s.lits \in SUBSET Literals(m) /\ s.degree \in Int
    BY <1>1, <1>2, <1>3
  <2>2. s = [lits |-> s.lits, degree |-> s.degree]
    BY <1>2, <1>2a
  <2> QED
    BY <2>1, <2>2 DEF RowsOver
<1>6. Cardinality(s.lits) = Cardinality(r.lits)
  <2> DEFINE A == r.lits
             B == s.lits
             f == [l \in A |-> new(l)]
  <2>1. f \in [A -> B]
    BY <1>2
  <2>2. \A x, y \in A : f[x] = f[y] => x = y
    BY <1>4
  <2>3. \A z \in B : \E x \in A : f[x] = z
    BY <1>2
  <2>4. IsFiniteSet(A)
    BY <1>1
  <2> HIDE DEF f, A, B
  <2>5. Cardinality(B) = Cardinality(A)
    BY <2>1, <2>2, <2>3, <2>4, SameCount
  <2> QED
    BY <2>5 DEF A, B
<1>7. ASSUME Plain(r) PROVE Plain(s)
  <2> SUFFICES ASSUME NEW l \in r.lits, NEW k \in r.lits, new(k) = -new(l) PROVE FALSE
    BY <1>2 DEF Plain
  <2>1. VarOf(new(k)) = VarOf(new(l)) /\ pnsign(new(k)) = -pnsign(new(l))
    BY <1>3, LiteralFacts
  <2>2. VarOf(k) = VarOf(l) /\ pnsign(k) = -pnsign(l)
    BY <2>1, <1>3
  <2>3. l = k \/ l = -k
    BY <1>1, <2>2, SameVar
  <2>4. l # k
    BY <2>2, <1>3
  <2>5. l = -k
    BY <2>3, <2>4
  <2> QED
    BY <2>5, <1>7 DEF Plain
<1>8. RowVars(s) = {c[v] : v \in RowVars(r)}
  BY <1>2, <1>3 DEF RowVars
<1>9. ASSUME NEW a, NEW b, \A v \in RowVars(r) : b[c[v]] = a[v]
      PROVE  Cardinality(TrueLits(s, b)) = Cardinality(TrueLits(r, a))
  <2> DEFINE f == [l \in TrueLits(r, a) |-> new(l)]
  <2>1. \A l \in r.lits : b[VarOf(new(l))] = a[VarOf(l)] /\ pnsign(new(l)) = pnsign(l)
    BY <1>3, <1>9
  <2>2. f \in [TrueLits(r, a) -> TrueLits(s, b)]
    BY <1>2, <2>1 DEF TrueLits
  <2>3. \A x, y \in TrueLits(r, a) : f[x] = f[y] => x = y
    BY <1>4 DEF TrueLits
  <2>4. \A z \in TrueLits(s, b) : \E x \in TrueLits(r, a) : f[x] = z
    BY <1>2, <2>1 DEF TrueLits
  <2>5. IsFiniteSet(TrueLits(r, a))
    BY TrueLitsFinite
  <2> HIDE DEF f
  <2> QED
    BY <2>2, <2>3, <2>4, <2>5, SameCount
<1>10. \A a, b : (\A v \in RowVars(r) : b[c[v]] = a[v]) => (Holds(s, b) <=> Holds(r, a))
  BY <1>2, <1>9 DEF Holds
<1>11. CopyOf(s, r, c)
  BY <1>2, <1>3, <1>6, <1>7, <1>8, <1>10 DEF CopyOf, new, Size
<1> QED
  BY <1>5, <1>11 DEF s

(* A row as it is read in has the models it was written with, and no two     *)
(* complementary literals.                                                   *)
LEMMA LoadedRow ==
  ASSUME NEW n \in Nat, NEW r \in RowsOver(n)
  PROVE  /\ Loaded(r) \in RowsOver(n)
         /\ Plain(Loaded(r)) /\ Loaded(r).lits \subseteq r.lits
         /\ \A a \in Total(n) : Holds(Loaded(r), a) <=> Holds(r, a)
<1> DEFINE P == {l \in r.lits : l > 0 /\ -l \in r.lits}
           L == {l \in r.lits : -l \notin r.lits}
<1>1. /\ r.lits \in SUBSET Literals(n) /\ r.degree \in Int /\ IsFiniteSet(r.lits)
  BY TrueLitsFinite DEF RowsOver
<1>2. P \in SUBSET r.lits /\ IsFiniteSet(P) /\ Cardinality(P) \in Nat
  BY <1>1, FS_Subset, FS_CardinalityType
<1>3. Loaded(r).lits = L /\ Loaded(r).degree = r.degree - Cardinality(P)
  BY DEF Loaded
<1>4. Loaded(r) \in RowsOver(n)
  <2>1. L \in SUBSET Literals(n) /\ r.degree - Cardinality(P) \in Int
    BY <1>1, <1>2
  <2>2. Loaded(r) = [lits |-> L, degree |-> r.degree - Cardinality(P)]
    BY DEF Loaded
  <2> QED
    BY <2>1, <2>2 DEF RowsOver
<1>5. Plain(Loaded(r))
  BY <1>3 DEF Plain
<1>6. ASSUME NEW a \in Total(n) PROVE Holds(Loaded(r), a) <=> Holds(r, a)
  <2> DEFINE T == {l \in r.lits : -l \in r.lits /\ a[VarOf(l)] = pnsign(l)}
             U == TrueLits(Loaded(r), a)
             f == [l \in T |-> VarOf(l)]
  <2>1. T \in SUBSET r.lits /\ IsFiniteSet(T)
    BY <1>1, FS_Subset
  <2>2. \A l \in r.lits : l \in Int /\ l # 0 /\ VarOf(l) \in {l, -l} /\ VarOf(l) > 0
    BY <1>1, LiteralFacts DEF VarOf
  <2>3. f \in [T -> P]
    <3> SUFFICES ASSUME NEW l \in T PROVE VarOf(l) \in P
      OBVIOUS
    <3>1. l \in r.lits /\ -l \in r.lits /\ - -l = l
      BY <2>2
    <3> QED
      BY <3>1, <2>2
  <2>4. \A x, y \in T : f[x] = f[y] => x = y
    BY <1>1, SameVar
  <2>5. \A z \in P : \E x \in T : f[x] = z
    <3> SUFFICES ASSUME NEW z \in P PROVE \E x \in T : VarOf(x) = z
      OBVIOUS
    <3>1. z \in Literals(n) /\ -z \in r.lits /\ z \in r.lits /\ z > 0 /\ - -z = z
      BY <1>1, <2>2
    <3>2. VarOf(z) = z /\ VarOf(-z) = z
      BY <3>1, LiteralFacts DEF VarOf
    <3>3. CASE a[VarOf(z)] = pnsign(z)
      BY <3>1, <3>2, <3>3
    <3>4. CASE a[VarOf(z)] # pnsign(z)
      <4>1. a[VarOf(-z)] = pnsign(-z)
        BY <3>1, <3>4, OneTrue, LiteralFacts
      <4> QED BY <3>1, <3>2, <4>1
    <3> QED BY <3>3, <3>4
  <2>6. Cardinality(P) = Cardinality(T)
    <3> HIDE DEF f, T, P
    <3> QED BY <2>1, <2>3, <2>4, <2>5, SameCount
  <2>7. TrueLits(r, a) = T \cup U /\ T \cap U = {}
    BY <1>3 DEF TrueLits
  <2>8. IsFiniteSet(U) /\ Cardinality(U) \in Nat
    BY <1>4, TrueLitsFinite
  <2>9. Cardinality(TrueLits(r, a)) = Cardinality(T) + Cardinality(U)
    BY <2>1, <2>7, <2>8, DisjointCount
  <2> HIDE DEF T, U, f, P, L
  <2>10. (Cardinality(U) >= r.degree - Cardinality(P))
            <=> Cardinality(TrueLits(r, a)) >= r.degree
    BY <1>1, <1>2, <2>6, <2>8, <2>9
  <2> QED
    BY <1>3, <2>10 DEF Holds, U
<1> QED
  BY <1>3, <1>4, <1>5, <1>6

(* a gives the assigned variables their values. *)
Agrees(val, a) == \A v \in DOMAIN val : val[v] # 0 => a[v] = val[v]

(* Assigning further variables makes no literal false that was true: what    *)
(* simplify_clause finds satisfied stays so (propagation.cpp:13-52).         *)
LEMMA MoreTrueLits ==
  ASSUME NEW n \in Nat, NEW r \in RowsOver(n), NEW val \in Partial(n), NEW a, Agrees(val, a)
  PROVE  /\ Cardinality(TrueLits(r, val)) <= Cardinality(TrueLits(r, a))
         /\ Holds(r, val) => Holds(r, a)
<1>1. r.lits \in SUBSET Literals(n) /\ r.degree \in Int
  BY DEF RowsOver
<1>2. TrueLits(r, val) \in SUBSET TrueLits(r, a)
  <2> SUFFICES ASSUME NEW l \in r.lits, val[VarOf(l)] = pnsign(l) PROVE a[VarOf(l)] = pnsign(l)
    BY DEF TrueLits
  <2>1. VarOf(l) \in 1..n /\ pnsign(l) \in {-1, 1}
    BY <1>1, LiteralFacts
  <2> QED
    BY <2>1 DEF Agrees, Partial
<1>3. /\ IsFiniteSet(TrueLits(r, a)) /\ Cardinality(TrueLits(r, a)) \in Nat
      /\ Cardinality(TrueLits(r, val)) \in Nat
  BY TrueLitsFinite
<1>4. Cardinality(TrueLits(r, val)) <= Cardinality(TrueLits(r, a))
  BY <1>2, <1>3, FS_Subset
<1> QED
  BY <1>1, <1>3, <1>4 DEF Holds

(* Taking the assigned literals out of a row. *)
LEMMA ResidueRow ==
  ASSUME NEW n \in Nat, NEW r \in RowsOver(n), varval \in Partial(n)
  PROVE  /\ Residue(r) \in RowsOver(n)
         /\ Residue(r).lits \subseteq r.lits
         /\ \A l \in Residue(r).lits : varval[VarOf(l)] = 0
         /\ Plain(r) => Plain(Residue(r))
         /\ Holds(r, varval) <=> Satisfied(Residue(r))
         /\ \A a : Agrees(varval, a) => (Holds(r, a) <=> Holds(Residue(r), a))
<1> DEFINE T == TrueLits(r, varval)
           L == {l \in r.lits : varval[VarOf(l)] = 0}
<1>1. r.lits \in SUBSET Literals(n) /\ r.degree \in Int
  BY DEF RowsOver
<1>2. IsFiniteSet(T) /\ Cardinality(T) \in Nat
  BY TrueLitsFinite
<1>3. Residue(r) = [lits |-> L, degree |-> r.degree - Cardinality(T)]
  BY DEF Residue
<1>4. Residue(r).lits = L /\ Residue(r).degree = r.degree - Cardinality(T)
  BY <1>3
<1>5. Residue(r) \in RowsOver(n)
  <2>1. L \in SUBSET Literals(n) /\ r.degree - Cardinality(T) \in Int
    BY <1>1, <1>2
  <2> QED
    BY <1>3, <2>1 DEF RowsOver
<1>6. Plain(r) => Plain(Residue(r))
  BY <1>4 DEF Plain
<1>7. Holds(r, varval) <=> Satisfied(Residue(r))
  <2> HIDE DEF T
  <2>1. (Cardinality(T) >= r.degree) <=> (r.degree - Cardinality(T) <= 0)
    BY <1>1, <1>2
  <2> QED
    BY <2>1, <1>4 DEF Holds, Satisfied, T
<1>8. ASSUME NEW a, Agrees(varval, a) PROVE Holds(r, a) <=> Holds(Residue(r), a)
  <2> DEFINE U == TrueLits(Residue(r), a)
  <2>1. TrueLits(r, a) = T \cup U /\ T \cap U = {}
    <3>1. \A l \in r.lits : VarOf(l) \in 1..n /\ pnsign(l) \in {-1, 1}
      BY <1>1, LiteralFacts
    <3>2. DOMAIN varval = 1..n
      BY DEF Partial
    <3> QED
      BY <1>4, <1>8, <3>1, <3>2 DEF TrueLits, Agrees
  <2>2. IsFiniteSet(U) /\ Cardinality(U) \in Nat
    BY <1>5, TrueLitsFinite
  <2>3. Cardinality(TrueLits(r, a)) = Cardinality(T) + Cardinality(U)
    BY <1>2, <2>1, <2>2, DisjointCount
  <2> HIDE DEF T, U, L
  <2>4. (Cardinality(U) >= r.degree - Cardinality(T))
           <=> Cardinality(TrueLits(r, a)) >= r.degree
    BY <1>1, <1>2, <2>2, <2>3
  <2> QED
    BY <1>4, <2>4 DEF Holds, U
<1> QED
  BY <1>4, <1>5, <1>6, <1>7, <1>8

(* A row that needs more literals than it has, and one that needs them all. *)
LEMMA NeedsAll ==
  ASSUME NEW n \in Nat, NEW r \in RowsOver(n), NEW a
  PROVE  /\ r.degree > Size(r) => ~Holds(r, a)
         /\ r.degree = Size(r) => (Holds(r, a) <=> \A l \in r.lits : a[VarOf(l)] = pnsign(l))
         /\ r.degree <= 0 => Holds(r, a)
<1>1. /\ IsFiniteSet(TrueLits(r, a)) /\ Cardinality(TrueLits(r, a)) \in Nat
      /\ TrueLits(r, a) \in SUBSET r.lits /\ Size(r) \in Nat /\ IsFiniteSet(r.lits)
      /\ Cardinality(TrueLits(r, a)) <= Size(r) /\ r.degree \in Int
  BY TrueLitsFinite DEF RowsOver
<1>2. Cardinality(TrueLits(r, a)) = Size(r) => TrueLits(r, a) = r.lits
  BY <1>1, FS_Subset DEF Size
<1>3. TrueLits(r, a) = r.lits => Cardinality(TrueLits(r, a)) = Size(r)
  BY DEF Size
<1>4. TrueLits(r, a) = r.lits <=> \A l \in r.lits : a[VarOf(l)] = pnsign(l)
  BY DEF TrueLits
<1> QED
  BY <1>1, <1>2, <1>3, <1>4 DEF Holds

(* When a row without assigned literals needs all of them, making them true  *)
(* is what it asks for and all it asks for (propagation.cpp:40-49).          *)
LEMMA ForcedRow ==
  ASSUME vars \in Nat, NEW r \in RowsOver(vars), varval \in Partial(vars), Plain(r),
         \A l \in r.lits : varval[VarOf(l)] = 0, r.degree = Size(r)
  PROVE  /\ Forced(r) \in Partial(vars)
         /\ Agrees(varval, Forced(r))
         /\ Holds(r, Forced(r))
         /\ \A v \in 1..vars : Forced(r)[v] # varval[v] => v \in RowVars(r)
         /\ \A a : Agrees(Forced(r), a) <=> Agrees(varval, a) /\ Holds(r, a)
<1>1. r.lits \in SUBSET Literals(vars)
  BY DEF RowsOver
<1>2. DOMAIN varval = 1..vars /\ DOMAIN Forced(r) = 1..vars
  BY DEF Partial, Forced
<1>3. Forced(r) \in Partial(vars)
  BY DEF Forced, Partial
<1>4. \A v \in 1..vars : (v \in r.lits \/ -v \in r.lits) => varval[v] = 0 /\ v \in RowVars(r)
  <2> SUFFICES ASSUME NEW v \in 1..vars, NEW l \in {v, -v}, l \in r.lits
               PROVE  varval[v] = 0 /\ v \in RowVars(r)
    OBVIOUS
  <2>1. VarOf(l) = v
    BY DEF VarOf
  <2> QED
    BY <2>1 DEF RowVars
<1>5. Agrees(varval, Forced(r))
  BY <1>2, <1>4 DEF Agrees, Forced
<1>6. \A v \in 1..vars : Forced(r)[v] # varval[v] => v \in RowVars(r)
  BY <1>4 DEF Forced
<1>7. \A l \in r.lits : VarOf(l) \in 1..vars /\ Forced(r)[VarOf(l)] = pnsign(l)
  <2> SUFFICES ASSUME NEW l \in r.lits
               PROVE  VarOf(l) \in 1..vars /\ Forced(r)[VarOf(l)] = pnsign(l)
    OBVIOUS
  <2>1. l \in Literals(vars) /\ -l \notin r.lits /\ l \in Int /\ l # 0 /\ VarOf(l) \in 1..vars
    BY <1>1, LiteralFacts DEF Plain
  <2>2. CASE l > 0
    BY <2>1, <2>2 DEF VarOf, pnsign, Forced
  <2>3. CASE ~(l > 0)
    <3>1. VarOf(l) = -l /\ pnsign(l) = -1 /\ -VarOf(l) = l
      BY <2>1, <2>3 DEF VarOf, pnsign
    <3> QED BY <2>1, <3>1 DEF Forced
  <2> QED BY <2>2, <2>3
<1>8. Holds(r, Forced(r))
  BY <1>7, NeedsAll
<1>9. ASSUME NEW a PROVE Agrees(Forced(r), a) <=> Agrees(varval, a) /\ Holds(r, a)
  <2>1. ASSUME Agrees(Forced(r), a) PROVE Agrees(varval, a) /\ Holds(r, a)
    <3>1. Agrees(varval, a)
      BY <1>2, <1>5, <2>1 DEF Agrees
    <3>2. \A l \in r.lits : a[VarOf(l)] = pnsign(l)
      BY <1>1, <1>2, <1>7, <2>1, LiteralFacts DEF Agrees
    <3> QED
      BY <3>1, <3>2, NeedsAll
  <2>2. ASSUME Agrees(varval, a), Holds(r, a) PROVE Agrees(Forced(r), a)
    <3>1. \A l \in r.lits : a[VarOf(l)] = pnsign(l)
      BY <2>2, NeedsAll
    <3>2. \A v \in RowVars(r) : a[v] = Forced(r)[v]
      BY <1>7, <3>1 DEF RowVars
    <3> QED
      BY <1>2, <1>6, <2>2, <3>2 DEF Agrees
  <2> QED BY <2>1, <2>2
<1> QED
  BY <1>3, <1>5, <1>6, <1>8, <1>9

-----------------------------------------------------------------------------
(* Propagation. *)

RowsOfInput == 1 .. Len(input)

(* The rows of the file are rows over its variables and need something. *)
LEMMA InputFacts ==
  ASSUME input \in Formulas
  PROVE  /\ Len(input) \in Nat /\ DOMAIN input = RowsOfInput /\ orivars \in Nat
         /\ \A i \in RowsOfInput : input[i] \in RowsOver(orivars) /\ input[i].degree \in Nat \ {0}
<1>1. input \in Seq([lits : SUBSET Literals(orivars), degree : Nat \ {0}]) /\ orivars \in Nat
  BY PreprocessorAssumption
<1>2. Len(input) \in Nat /\ DOMAIN input = RowsOfInput
  BY <1>1 DEF RowsOfInput
<1>3. \A i \in RowsOfInput : input[i] \in [lits : SUBSET Literals(orivars), degree : Nat \ {0}]
  <2> DEFINE R == [lits : SUBSET Literals(orivars), degree : Nat \ {0}]
  <2>1. input \in Seq(R)
    BY <1>1
  <2> HIDE DEF R
  <2>2. \A i \in 1 .. Len(input) : input[i] \in R
    BY <2>1, ElementOfSeq
  <2> QED
    BY <2>2 DEF R, RowsOfInput
<1> QED
  BY <1>1, <1>2, <1>3 DEF RowsOver

(* While propagation runs: what is known of every row and variable. *)
UpType ==
  /\ input \in Formulas /\ vars = orivars
  /\ varval \in Partial(orivars)
  /\ mapto = [v \in 1 .. orivars |-> v] /\ mapval = Unassigned(orivars)
  /\ next \in 1 .. Len(input) + 1
  /\ clause \in [RowsOfInput -> RowsOver(orivars)]
  /\ clause_delete \subseteq 1 .. next - 1
  /\ pending \subseteq 1 .. orivars
  /\ touched \subseteq 1 .. next - 1

UpRows ==
  /\ \A i \in RowsOfInput : i >= next => clause[i] = input[i]
  /\ \A i \in 1 .. next - 1 : Plain(clause[i]) /\ clause[i].lits \subseteq Loaded(input[i]).lits
  /\ \A i \in clause_delete : Holds(clause[i], varval)
  /\ \A i \in 1 .. next - 1 : i \notin clause_delete =>
       /\ clause[i].degree \in 1 .. Size(clause[i]) - 1
       /\ \A l \in clause[i].lits :
            varval[VarOf(l)] # 0 => VarOf(l) \in pending \/ i \in touched

(* a keeps the values found and satisfies the rows as they stand. *)
Respected(a) == Agrees(varval, a) /\ \A i \in RowsOfInput \ clause_delete : Holds(clause[i], a)

UpModels ==
  \A a \in Total(orivars) : Respected(a) <=> \A i \in RowsOfInput : Holds(input[i], a)

UpInv == pc = "up" => UpType /\ UpRows /\ UpModels

(* simplify_clause (propagation.cpp:13-52) on a row with literals r that has *)
(* the models the row had: the values found only grow, each new one is put   *)
(* up for a next round, the other rows stay, and the assignments that keep   *)
(* the values and satisfy the rows are those before, or none and the answer  *)
(* is unsat.                                                                 *)
LEMMA SimplifyStep ==
  ASSUME pc = "up", UpType, UpRows,
         NEW i \in RowsOfInput, NEW r \in RowsOver(orivars), Plain(r),
         \A a \in Total(orivars) : Holds(r, a) <=> Holds(clause[i], a),
         i \in clause_delete => Holds(r, varval),
         SimplifyClause(i, r), input' = input
  PROVE  /\ pc' \in {"up", "unsat"}
         /\ varval' \in Partial(orivars) /\ Agrees(varval, varval')
         /\ clause' \in [RowsOfInput -> RowsOver(orivars)]
         /\ \A j \in RowsOfInput : j # i => clause'[j] = clause[j]
         /\ Plain(clause'[i]) /\ clause'[i].lits \subseteq r.lits
         /\ clause_delete \subseteq clause_delete' /\ clause_delete' \subseteq clause_delete \cup {i}
         /\ pending \subseteq pending' /\ pending' \subseteq 1..orivars
         /\ \A v \in 1..orivars : varval'[v] # varval[v] => v \in pending'
         /\ pc' = "up" =>
              /\ \A j \in clause_delete' : Holds(clause'[j], varval')
              /\ i \notin clause_delete' =>
                   /\ clause'[i].degree \in 1 .. Size(clause'[i]) - 1
                   /\ \A l \in clause'[i].lits : varval'[VarOf(l)] = 0
              /\ \A a \in Total(orivars) : Respected(a)' <=> Respected(a)
         /\ pc' = "unsat" => \A a \in Total(orivars) : ~Respected(a)
<1> DEFINE s == Residue(r)
           empty == [lits |-> {}, degree |-> 0]
           forced == ~Satisfied(s) /\ s.degree = Size(s)
           w == IF Satisfied(s) THEN empty ELSE s
<1>0. /\ orivars \in Nat /\ vars = orivars /\ varval \in Partial(orivars)
      /\ clause \in [RowsOfInput -> RowsOver(orivars)] /\ clause_delete \subseteq RowsOfInput
      /\ pending \subseteq 1..orivars
      /\ \A j \in clause_delete : Holds(clause[j], varval)
  <2>1. clause_delete \subseteq 1 .. next - 1 /\ next \in 1 .. Len(input) + 1 /\ Len(input) \in Nat
    BY InputFacts DEF UpType
  <2>2. clause_delete \subseteq RowsOfInput
    BY <2>1 DEF RowsOfInput
  <2> QED
    BY <2>2, InputFacts DEF UpType, UpRows
<1>1. /\ s \in RowsOver(orivars) /\ s.lits \subseteq r.lits
      /\ \A l \in s.lits : varval[VarOf(l)] = 0
      /\ Plain(s)
      /\ Holds(r, varval) <=> Satisfied(s)
      /\ \A a : Agrees(varval, a) => (Holds(r, a) <=> Holds(s, a))
  BY <1>0, ResidueRow
<1>2. /\ clause' = [clause EXCEPT ![i] = w]
      /\ clause_delete' = IF Satisfied(s) \/ forced THEN clause_delete \cup {i} ELSE clause_delete
      /\ varval' = IF forced THEN Forced(s) ELSE varval
      /\ pending' = IF forced THEN pending \cup RowVars(s) ELSE pending
      /\ pc' = IF s.degree > Size(s) THEN "unsat" ELSE pc
  BY DEF SimplifyClause
<1>3. s.degree \in Int /\ Size(s) \in Nat /\ s.lits \in SUBSET Literals(orivars)
  BY <1>0, <1>1, TrueLitsFinite DEF RowsOver
<1>4. empty \in RowsOver(orivars) /\ empty.lits = {} /\ empty.degree = 0 /\ Plain(empty)
  BY DEF RowsOver, Plain
<1> HIDE DEF s, empty
<1>5. forced => /\ Forced(s) \in Partial(orivars) /\ Agrees(varval, Forced(s))
                /\ Holds(s, Forced(s))
                /\ \A v \in 1..orivars : Forced(s)[v] # varval[v] => v \in RowVars(s)
                /\ \A a : Agrees(Forced(s), a) <=> Agrees(varval, a) /\ Holds(s, a)
  BY <1>0, <1>1, ForcedRow
<1>6. RowVars(s) \subseteq 1..orivars
  BY <1>0, <1>3, LiteralFacts DEF RowVars
<1>7. Agrees(varval, varval)
  BY DEF Agrees
<1>8. varval' \in Partial(orivars) /\ Agrees(varval, varval')
  BY <1>0, <1>2, <1>5, <1>7
<1>9. w \in RowsOver(orivars) /\ Plain(w) /\ w.lits \subseteq r.lits
  BY <1>1, <1>4
<1>10. /\ clause' \in [RowsOfInput -> RowsOver(orivars)]
       /\ clause'[i] = w
       /\ \A j \in RowsOfInput : j # i => clause'[j] = clause[j]
  BY <1>0, <1>2, <1>9
<1>11. \A v \in 1..orivars : varval'[v] # varval[v] => v \in pending'
  BY <1>2, <1>5
<1>12. pending \subseteq pending' /\ pending' \subseteq 1..orivars
  BY <1>0, <1>2, <1>6
<1>13. i \in clause_delete => Satisfied(s)
  BY <1>1
<1>14. ASSUME NEW a PROVE /\ s.degree > Size(s) => ~Holds(s, a)
                          /\ Satisfied(s) => Holds(s, a) /\ Holds(w, a)
  BY <1>0, <1>1, <1>4, NeedsAll DEF Satisfied
<1>15. ASSUME NEW a \in Total(orivars), Respected(a) PROVE Agrees(varval, a) /\ (i \notin clause_delete => Holds(s, a))
  BY <1>1, <1>15 DEF Respected
<1>16. pc' = "unsat" => \A a \in Total(orivars) : ~Respected(a)
  <2> SUFFICES ASSUME pc' = "unsat", NEW a \in Total(orivars), Respected(a) PROVE FALSE
    OBVIOUS
  <2>1. s.degree > Size(s)
    BY <1>2
  <2>2. ~Satisfied(s)
    BY <1>3, <2>1 DEF Satisfied
  <2> QED
    BY <1>13, <1>14, <1>15, <2>1, <2>2
<1>17. \A j \in clause_delete' : Holds(clause'[j], varval')
  <2> SUFFICES ASSUME NEW j \in clause_delete' PROVE Holds(clause'[j], varval')
    OBVIOUS
  <2>1. CASE j # i
    <3>1. j \in clause_delete /\ clause'[j] = clause[j] /\ clause[j] \in RowsOver(orivars)
      BY <1>0, <1>2, <1>10, <2>1
    <3> QED
      BY <1>0, <1>8, <3>1, MoreTrueLits
  <2>2. CASE j = i /\ Satisfied(s)
    BY <1>10, <1>14, <2>2
  <2>3. CASE j = i /\ ~Satisfied(s)
    <3>1. forced
      BY <1>2, <1>13, <2>3
    <3> QED
      BY <1>2, <1>5, <1>10, <2>3, <3>1
  <2> QED BY <2>1, <2>2, <2>3
<1>18. pc' = "up" /\ i \notin clause_delete' =>
         /\ clause'[i].degree \in 1 .. Size(clause'[i]) - 1
         /\ \A l \in clause'[i].lits : varval'[VarOf(l)] = 0
  <2> SUFFICES ASSUME pc' = "up", i \notin clause_delete'
               PROVE  /\ s.degree \in 1 .. Size(s) - 1 /\ clause'[i] = s /\ varval' = varval
    BY <1>1
  <2>1. ~Satisfied(s) /\ ~forced
    BY <1>2
  <2>2. ~(s.degree > Size(s)) /\ s.degree # Size(s) /\ ~(s.degree <= 0)
    BY <1>2, <2>1 DEF Satisfied
  <2> QED
    BY <1>2, <1>3, <1>10, <2>1, <2>2
<1>19. ASSUME pc' = "up", NEW a \in Total(orivars) PROVE Respected(a)' <=> Respected(a)
  <2>1. Respected(a)' <=> /\ Agrees(varval', a)
                          /\ \A j \in RowsOfInput \ clause_delete' : Holds(clause'[j], a)
    BY DEF Respected, RowsOfInput
  <2>2. /\ Agrees(varval, a) => (Holds(clause[i], a) <=> Holds(s, a))
        /\ Satisfied(s) => Holds(s, a)
    BY <1>1, <1>14
  <2>3. (Agrees(varval', a) /\ (i \notin clause_delete' => Holds(clause'[i], a)))
          <=> (Agrees(varval, a) /\ (i \notin clause_delete => Holds(clause[i], a)))
    <3>1. CASE Satisfied(s)
      BY <1>2, <2>2, <3>1
    <3>2. CASE forced
      BY <1>2, <1>5, <1>13, <2>2, <3>2
    <3>3. CASE ~Satisfied(s) /\ ~forced
      BY <1>2, <1>10, <1>13, <2>2, <3>3
    <3> QED BY <3>1, <3>2, <3>3
  <2>4. ASSUME NEW j \in RowsOfInput, j # i
        PROVE  (j \in clause_delete' <=> j \in clause_delete) /\ clause'[j] = clause[j]
    BY <1>2, <1>10, <2>4
  <2>5. Respected(a) <=> /\ Agrees(varval, a)
                         /\ \A j \in RowsOfInput \ clause_delete : Holds(clause[j], a)
    BY DEF Respected
  <2> QED
    BY <2>1, <2>3, <2>4, <2>5
<1> QED
  BY <1>2, <1>8, <1>9, <1>10, <1>11, <1>12, <1>16, <1>17, <1>18, <1>19

(* The reader's rows, before any is loaded. *)
LEMMA UpInit == Init => UpInv
<1> SUFFICES ASSUME Init PROVE UpType /\ UpRows /\ UpModels
  BY DEF UpInv
<1>1. /\ input \in Formulas /\ vars = orivars /\ clause = input /\ clause_delete = {}
      /\ varval = Unassigned(orivars) /\ next = 1 /\ pending = {} /\ touched = {}
      /\ mapto = [v \in 1 .. orivars |-> v] /\ mapval = Unassigned(orivars)
  BY DEF Init
<1>2. /\ Len(input) \in Nat /\ DOMAIN input = RowsOfInput /\ orivars \in Nat
      /\ \A i \in RowsOfInput : input[i] \in RowsOver(orivars)
  BY <1>1, InputFacts
<1>3. varval \in Partial(orivars) /\ \A v \in 1..orivars : varval[v] = 0
  BY <1>1, <1>2 DEF Unassigned, Partial
<1>4. clause \in [RowsOfInput -> RowsOver(orivars)]
  <2>1. input \in Seq([lits : SUBSET Literals(orivars), degree : Nat \ {0}])
    BY <1>1, PreprocessorAssumption
  <2>2. input = [i \in RowsOfInput |-> input[i]]
    <3> DEFINE R == [lits : SUBSET Literals(orivars), degree : Nat \ {0}]
    <3>1. input \in Seq(R)
      BY <2>1
    <3> HIDE DEF R
    <3> QED BY <3>1, LenProperties DEF RowsOfInput
  <2> QED
    BY <1>1, <1>2, <2>2
<1>5. UpType
  BY <1>1, <1>2, <1>3, <1>4 DEF UpType
<1>6. UpRows
  BY <1>1 DEF UpRows
<1>7. \A a : Agrees(varval, a)
  BY <1>3 DEF Agrees, Partial
<1>8. UpModels
  BY <1>1, <1>7 DEF UpModels, Respected
<1> QED
  BY <1>5, <1>6, <1>8

(* What simplify_clause does keeps the invariant of the propagation, whether *)
(* the row is loaded or looked at again; answering unsat it is right.        *)
LEMMA UpSimplify ==
  ASSUME UpInv, pc = "up", NEW i \in RowsOfInput, NEW r \in RowsOver(orivars),
         Plain(r), r.lits \subseteq Loaded(input[i]).lits,
         \A a \in Total(orivars) : Holds(r, a) <=> Holds(clause[i], a),
         i \in clause_delete => Holds(r, varval),
         SimplifyClause(i, r),
         UNCHANGED <<input, vars, mapto, mapval>>,
         (next' = next /\ i < next) \/ (next' = next + 1 /\ i = next),
         touched' \subseteq touched, touched \subseteq touched' \cup {i}
  PROVE  UpInv' /\ (pc' = "unsat" => \A a \in Total(orivars) : \E j \in RowsOfInput : ~Holds(input[j], a))
         /\ pc' \in {"up", "unsat"}
<1>1. UpType /\ UpRows /\ UpModels
  BY DEF UpInv
<1>2. /\ input \in Formulas /\ orivars \in Nat /\ Len(input) \in Nat /\ next \in 1..Len(input) + 1
      /\ touched \subseteq 1..next - 1 /\ clause_delete \subseteq 1..next - 1
      /\ mapto = [v \in 1 .. orivars |-> v] /\ mapval = Unassigned(orivars) /\ vars = orivars
  BY <1>1, InputFacts DEF UpType
<1>3. i \in Nat /\ i >= 1 /\ i <= Len(input)
  BY <1>2 DEF RowsOfInput
<1>6. /\ pc' \in {"up", "unsat"}
      /\ varval' \in Partial(orivars) /\ Agrees(varval, varval')
      /\ clause' \in [RowsOfInput -> RowsOver(orivars)]
      /\ \A j \in RowsOfInput : j # i => clause'[j] = clause[j]
      /\ Plain(clause'[i]) /\ clause'[i].lits \subseteq r.lits
      /\ clause_delete \subseteq clause_delete' /\ clause_delete' \subseteq clause_delete \cup {i}
      /\ pending \subseteq pending' /\ pending' \subseteq 1..orivars
      /\ \A v \in 1..orivars : varval'[v] # varval[v] => v \in pending'
      /\ pc' = "up" =>
           /\ \A j \in clause_delete' : Holds(clause'[j], varval')
           /\ i \notin clause_delete' =>
                /\ clause'[i].degree \in 1 .. Size(clause'[i]) - 1
                /\ \A l \in clause'[i].lits : varval'[VarOf(l)] = 0
           /\ \A a \in Total(orivars) : Respected(a)' <=> Respected(a)
      /\ pc' = "unsat" => \A a \in Total(orivars) : ~Respected(a)
  BY <1>1, SimplifyStep
<1>7. RowsOfInput' = RowsOfInput
  BY DEF RowsOfInput
<1>8. ASSUME pc' = "up" PROVE UpType'
  <2>1. clause_delete' \subseteq 1 .. next' - 1 /\ touched' \subseteq 1 .. next' - 1
        /\ next' \in 1 .. Len(input') + 1
    BY <1>2, <1>3, <1>6
  <2> QED
    BY <1>1, <1>2, <1>6, <1>7, <2>1 DEF UpType
<1>9. ASSUME pc' = "up" PROVE UpRows'
  <2>1. \A j \in RowsOfInput' : j >= next' => clause'[j] = input'[j]
    <3> SUFFICES ASSUME NEW j \in RowsOfInput, j >= next' PROVE clause'[j] = input[j]
      BY <1>7
    <3>1. j # i /\ j >= next
      BY <1>2, <1>3 DEF RowsOfInput
    <3> QED
      BY <1>1, <1>6, <3>1 DEF UpRows
  <2>2. ASSUME NEW j \in 1 .. next' - 1
        PROVE  /\ Plain(clause'[j]) /\ clause'[j].lits \subseteq Loaded(input'[j]).lits
               /\ j \notin clause_delete' =>
                    /\ clause'[j].degree \in 1 .. Size(clause'[j]) - 1
                    /\ \A l \in clause'[j].lits :
                         varval'[VarOf(l)] # 0 => VarOf(l) \in pending' \/ j \in touched'
    <3>1. CASE j = i
      BY <1>6, <1>9, <3>1
    <3>2. CASE j # i
      <4>1. j \in 1 .. next - 1 /\ j \in RowsOfInput /\ clause'[j] = clause[j]
        <5>1. j \in 1 .. next - 1 /\ j \in 1 .. Len(input)
          BY <1>2, <1>3, <3>2
        <5> QED
          BY <1>6, <3>2, <5>1 DEF RowsOfInput
      <4>2. Plain(clause'[j]) /\ clause'[j].lits \subseteq Loaded(input'[j]).lits
        BY <1>1, <4>1 DEF UpRows
      <4>3. ASSUME j \notin clause_delete'
            PROVE  /\ clause'[j].degree \in 1 .. Size(clause'[j]) - 1
                   /\ \A l \in clause'[j].lits :
                         varval'[VarOf(l)] # 0 => VarOf(l) \in pending' \/ j \in touched'
        <5>1. j \notin clause_delete
          BY <1>6, <4>3
        <5>2. clause[j].degree \in 1 .. Size(clause[j]) - 1
          BY <1>1, <4>1, <5>1 DEF UpRows
        <5>3. \A l \in clause[j].lits : varval[VarOf(l)] # 0 => VarOf(l) \in pending \/ j \in touched
          BY <1>1, <4>1, <5>1 DEF UpRows
        <5>4. \A l \in clause[j].lits : VarOf(l) \in 1..orivars
          BY <1>1, <1>2, <4>1, LiteralFacts DEF UpType, RowsOver
        <5>5. ASSUME NEW l \in clause[j].lits, varval'[VarOf(l)] # 0
              PROVE  VarOf(l) \in pending' \/ j \in touched'
          <6>1. VarOf(l) \in pending' \/ varval[VarOf(l)] # 0
            BY <1>6, <5>4, <5>5
          <6> QED
            BY <1>6, <3>2, <5>3, <6>1
        <5> QED
          BY <4>1, <5>2, <5>5
      <4> QED BY <4>2, <4>3
    <3> QED BY <3>1, <3>2
  <2> QED
    BY <1>6, <1>9, <2>1, <2>2 DEF UpRows
<1>10. ASSUME pc' = "up" PROVE UpModels'
  BY <1>1, <1>6, <1>7, <1>10 DEF UpModels
<1>11. pc' = "unsat" => \A a \in Total(orivars) : \E j \in RowsOfInput : ~Holds(input[j], a)
  BY <1>1, <1>6 DEF UpModels
<1> QED
  BY <1>6, <1>8, <1>9, <1>10, <1>11 DEF UpInv


(* The first loop of preprocess_up (propagation.cpp:69-97). *)
LEMMA UpLoadRow ==
  ASSUME UpInv, LoadRow
  PROVE  /\ UpInv' /\ pc' \in {"up", "unsat"}
         /\ pc' = "unsat" => \A a \in Total(orivars) : \E i \in RowsOfInput : ~Holds(input[i], a)
<1> DEFINE i == next
           r == Loaded(input[i])
<1>1. /\ pc = "up" /\ UpType /\ UpRows /\ i <= Len(input)
      /\ SimplifyClause(i, r) /\ next' = i + 1
      /\ UNCHANGED <<input, vars, mapto, mapval>> /\ touched' = touched
  BY DEF LoadRow, UpInv
<1>2. /\ input \in Formulas /\ Len(input) \in Nat /\ orivars \in Nat
      /\ next \in 1..Len(input) + 1 /\ clause_delete \subseteq 1..next - 1
  BY <1>1, InputFacts DEF UpType
<1>3. i \in RowsOfInput /\ i \notin clause_delete
  BY <1>1, <1>2 DEF RowsOfInput
<1>4. clause[i] = input[i] /\ input[i] \in RowsOver(orivars)
  BY <1>1, <1>2, <1>3, InputFacts DEF UpRows
<1>5. r \in RowsOver(orivars) /\ Plain(r) /\ \A a \in Total(orivars) : Holds(r, a) <=> Holds(clause[i], a)
  BY <1>2, <1>4, LoadedRow
<1>6. /\ (next' = next /\ i < next) \/ (next' = next + 1 /\ i = next)
      /\ touched' \subseteq touched /\ touched \subseteq touched' \cup {i}
      /\ r.lits \subseteq Loaded(input[i]).lits
      /\ pc = "up" /\ SimplifyClause(i, r) /\ UNCHANGED <<input, vars, mapto, mapval>>
  BY <1>1
<1> HIDE DEF i, r
<1> QED
  BY <1>3, <1>5, <1>6, UpSimplify

(* A row looked at again because of a new value (propagation.cpp:98-125). *)
LEMMA UpSimplifyTouched ==
  ASSUME UpInv, SimplifyTouched
  PROVE  /\ UpInv' /\ pc' \in {"up", "unsat"}
         /\ pc' = "unsat" => \A a \in Total(orivars) : \E i \in RowsOfInput : ~Holds(input[i], a)
<1>1. PICK i \in touched : SimplifyClause(i, clause[i]) /\ touched' = touched \ {i}
  BY DEF SimplifyTouched
<1>2. /\ pc = "up" /\ UpType /\ UpRows /\ next' = next /\ UNCHANGED <<input, vars, mapto, mapval>>
  BY DEF SimplifyTouched, RowsRead, UpInv
<1>3. i \in RowsOfInput /\ i \in 1 .. next - 1 /\ i < next
  BY <1>2, InputFacts DEF UpType, RowsOfInput
<1>4. /\ clause[i] \in RowsOver(orivars) /\ Plain(clause[i])
      /\ clause[i].lits \subseteq Loaded(input[i]).lits
      /\ i \in clause_delete => Holds(clause[i], varval)
  BY <1>2, <1>3 DEF UpType, UpRows
<1> QED
  BY <1>1, <1>2, <1>3, <1>4, UpSimplify

(* A further round, over the rows of the variables that got values. *)
LEMMA UpStartRound ==
  ASSUME UpInv, StartRound
  PROVE  UpInv' /\ pc' = "up"
<1>1. /\ pc = "up" /\ UpType /\ UpRows /\ UpModels /\ next > Len(input)
      /\ touched = {} /\ touched' = UNION {Occurring(v) : v \in pending} /\ pending' = {}
      /\ input' = input /\ vars' = vars /\ mapto' = mapto /\ mapval' = mapval
      /\ clause' = clause /\ clause_delete' = clause_delete /\ varval' = varval /\ next' = next
      /\ pc' = pc
  BY DEF StartRound, UpInv, RowsRead, shared
<1>2. Len(input) \in Nat /\ next = Len(input) + 1 /\ RowsOfInput = 1 .. next - 1 /\ DOMAIN clause = RowsOfInput
      /\ orivars \in Nat
  BY <1>1, InputFacts DEF UpType, RowsOfInput
<1>3. touched' \subseteq 1 .. next' - 1
  BY <1>1, <1>2 DEF Occurring, Active
<1>4. RowsOfInput' = RowsOfInput
  BY <1>1 DEF RowsOfInput
<1>5. UpType'
  BY <1>1, <1>3, <1>4 DEF UpType
<1>6. ASSUME NEW j \in 1 .. next - 1, j \notin clause_delete, NEW l \in clause[j].lits, varval[VarOf(l)] # 0
      PROVE  j \in touched'
  <2>1. VarOf(l) \in pending
    BY <1>1, <1>6 DEF UpRows
  <2>2. j \in Active
    BY <1>2, <1>6 DEF Active
  <2>3. l \in Loaded(input[j]).lits
    BY <1>1, <1>6 DEF UpRows
  <2>4. VarOf(l) \in RowVars(Loaded(input[j]))
    BY <2>3 DEF RowVars
  <2> QED
    BY <1>1, <2>1, <2>2, <2>4 DEF Occurring
<1>7. UpRows'
  BY <1>1, <1>4, <1>6 DEF UpRows
<1>8. UpModels'
  BY <1>1, <1>4 DEF UpModels, Respected
<1> QED
  BY <1>1, <1>5, <1>7, <1>8 DEF UpInv

-----------------------------------------------------------------------------
(* Renumbering, and the invariants of the passes. *)

(* The elements of a set of positions, numbered in their order.              *)
LEMMA Ranks ==
  ASSUME NEW n \in Nat, NEW S \in SUBSET (1..n)
  PROVE  /\ IsFiniteSet(S) /\ Cardinality(S) \in Nat
         /\ \A v \in S : Cardinality(S \cap 1..v) \in 1..Cardinality(S)
         /\ \A v, w \in S : v < w => Cardinality(S \cap 1..v) < Cardinality(S \cap 1..w)
         /\ \A v, w \in S : Cardinality(S \cap 1..v) = Cardinality(S \cap 1..w) => v = w
         /\ \A k \in 1..Cardinality(S) : \E v \in S : Cardinality(S \cap 1..v) = k
<1> DEFINE rank(v) == Cardinality(S \cap 1..v)
           f == [v \in S |-> rank(v)]
           K == 1..Cardinality(S)
<1>1. IsFiniteSet(S) /\ Cardinality(S) \in Nat
  <2>1. IsFiniteSet(1..n)
    BY FS_Interval
  <2> QED
    BY <2>1, FS_Subset, FS_CardinalityType
<1>2. ASSUME NEW v PROVE IsFiniteSet(S \cap 1..v) /\ rank(v) \in Nat /\ rank(v) <= Cardinality(S)
  BY <1>1, FS_Intersection, FS_CardinalityType
<1>3. ASSUME NEW v \in S PROVE rank(v) \in K
  <2>1. v \in S \cap 1..v
    OBVIOUS
  <2>2. rank(v) # 0
    BY <1>2, <2>1, FS_EmptySet
  <2>3. rank(v) \in Nat /\ rank(v) <= Cardinality(S) /\ Cardinality(S) \in Nat
    BY <1>1, <1>2
  <2> HIDE DEF rank
  <2> QED
    BY <2>2, <2>3
<1>4. ASSUME NEW v \in S, NEW w \in S, v < w PROVE rank(v) < rank(w)
  <2> DEFINE A == S \cap 1..v
             B == S \cap 1..w
  <2>1. A \in SUBSET B /\ w \in B /\ w \notin A
    BY <1>4
  <2>2. IsFiniteSet(A) /\ IsFiniteSet(B)
    BY <1>2
  <2> HIDE DEF A, B
  <2>3. Cardinality(A) <= Cardinality(B) /\ Cardinality(A) # Cardinality(B)
    BY <2>1, <2>2, FS_Subset
  <2> QED
    BY <1>2, <2>3 DEF A, B
<1>5. ASSUME NEW v \in S, NEW w \in S, rank(v) = rank(w) PROVE v = w
  <2>1. v \in Int /\ w \in Int /\ rank(v) \in Nat /\ rank(w) \in Nat
    BY <1>2
  <2>2. ~(v < w) /\ ~(w < v)
    BY <1>4, <1>5, <2>1
  <2> QED
    BY <2>1, <2>2
<1> HIDE DEF rank
<1>6. f \in [S -> K] /\ \A x, y \in S : f[x] = f[y] => x = y
  BY <1>3, <1>5
<1>7. f \in Injection(S, K)
  BY <1>6 DEF Injection, IsInjective
<1>8. IsFiniteSet(K) /\ Cardinality(K) = Cardinality(S)
  BY <1>1, FS_Interval
<1> HIDE DEF f, K
<1>9. f \in Surjection(S, K)
  BY <1>7, <1>8, FS_Injection, Zenon
<1>10. \A k \in K : \E v \in S : f[v] = k
  BY <1>9 DEF Surjection
<1> QED
  BY <1>1, <1>3, <1>4, <1>5, <1>10 DEF f, K, rank

(* update_var_clause_label: the variables that occur get the numbers 1, 2,   *)
(* ... one to one, and the rows left are exactly those kept, under the new   *)
(* numbers.                                                                  *)
LEMMA Relabelled ==
  ASSUME vars \in Nat, NEW N \in Nat, DOMAIN clause = 1..N,
         \A i \in Active : clause[i] \in RowsOver(vars),
         UpdateVarClauseLabel
  PROVE  LET U == Used(ActiveRows)
             c == color(ActiveRows, vars)
         IN  /\ vars' \in Nat /\ U \subseteq 1..vars
             /\ c \in [1..vars -> 0..vars']
             /\ \A v \in 1..vars : c[v] # 0 <=> v \in U
             /\ \A v, w \in U : c[v] = c[w] => v = w
             /\ \A k \in 1..vars' : \E v \in U : c[v] = k
             /\ clause_delete' = {}
             /\ \E M \in Nat :
                  /\ DOMAIN clause' = 1..M
                  /\ \A k \in 1..M : \E i \in Active : clause'[k] = Recolor(clause[i], c)
                  /\ \A i \in Active : \E k \in 1..M : clause'[k] = Recolor(clause[i], c)
             /\ \A i \in Active :
                  /\ RowVars(clause[i]) \subseteq U
                  /\ \A v \in RowVars(clause[i]) : c[v] # 0
                  /\ \A v, w \in RowVars(clause[i]) : c[v] = c[w] => v = w
<1> DEFINE U == Used(ActiveRows)
           c == color(ActiveRows, vars)
           kth(k) == CHOOSE i \in Active : Cardinality(Active \cap 1 .. i) = k
           M == Cardinality(Active)
<1>1. /\ clause' = [k \in 1 .. M |-> Recolor(clause[kth(k)], c)]
      /\ vars' = Cardinality(U) /\ clause_delete' = {}
  BY DEF UpdateVarClauseLabel
<1>2. \A i \in Active : RowVars(clause[i]) \subseteq 1..vars
  BY LiteralFacts DEF RowsOver, RowVars
<1>3. U \in SUBSET (1..vars) /\ \A i \in Active : RowVars(clause[i]) \subseteq U
  BY <1>2 DEF Used, ActiveRows
<1>4. /\ IsFiniteSet(U) /\ Cardinality(U) \in Nat
      /\ \A v \in U : Cardinality(U \cap 1..v) \in 1..Cardinality(U)
      /\ \A v, w \in U : Cardinality(U \cap 1..v) = Cardinality(U \cap 1..w) => v = w
      /\ \A k \in 1..Cardinality(U) : \E v \in U : Cardinality(U \cap 1..v) = k
  BY <1>3, Ranks
<1>5. c = [v \in 1..vars |-> IF v \in U THEN Cardinality(U \cap 1..v) ELSE 0]
  BY DEF color
<1>6. Active \in SUBSET (1..N)
  BY DEF Active
<1>7. /\ M \in Nat
      /\ \A i \in Active : Cardinality(Active \cap 1..i) \in 1..M
      /\ \A i, j \in Active : Cardinality(Active \cap 1..i) = Cardinality(Active \cap 1..j) => i = j
      /\ \A k \in 1..M : \E i \in Active : Cardinality(Active \cap 1..i) = k
  BY <1>6, Ranks
<1>8. \A k \in 1..M : kth(k) \in Active
  BY <1>7
<1>9. \A i \in Active : kth(Cardinality(Active \cap 1..i)) = i
  BY <1>7
<1> HIDE DEF U, c, kth, M
<1>10. ASSUME NEW v \in U
       PROVE  v \in 1..vars /\ c[v] = Cardinality(U \cap 1..v) /\ c[v] \in 1..vars'
  <2>1. v \in 1..vars /\ Cardinality(U \cap 1..v) \in 1..vars'
    BY <1>1, <1>3, <1>4
  <2> QED
    BY <1>5, <2>1
<1>10a. ASSUME NEW v \in 1..vars, v \notin U PROVE c[v] = 0
  BY <1>5, <1>10a
<1>11. c \in [1..vars -> 0..vars']
  <2>1. \A v \in 1..vars : c[v] \in 0..vars'
    <3> SUFFICES ASSUME NEW v \in 1..vars PROVE c[v] \in 0..vars'
      OBVIOUS
    <3>1. vars' \in Nat
      BY <1>1, <1>4
    <3>2. CASE v \in U
      <4>1. c[v] \in 1..vars'
        BY <1>10, <3>2, Zenon
      <4> QED
        BY <3>1, <4>1
    <3>3. CASE v \notin U
      BY <1>10a, <3>1, <3>3
    <3> QED BY <3>2, <3>3
  <2> QED
    BY <1>5, <2>1
<1>12. /\ \A v \in 1..vars : c[v] # 0 <=> v \in U
       /\ \A v, w \in U : c[v] = c[w] => v = w
       /\ \A k \in 1..vars' : \E v \in U : c[v] = k
  <2>1. \A v \in 1..vars : c[v] # 0 <=> v \in U
    <3> SUFFICES ASSUME NEW v \in 1..vars PROVE c[v] # 0 <=> v \in U
      OBVIOUS
    <3>1. CASE v \in U
      <4>1. c[v] \in 1..vars'
        BY <1>10, <3>1, Zenon
      <4>2. vars' \in Nat
        BY <1>1, <1>4
      <4> QED
        BY <3>1, <4>1, <4>2
    <3>2. CASE v \notin U
      BY <1>10a, <3>2
    <3> QED BY <3>1, <3>2
  <2>2. \A v, w \in U : c[v] = c[w] => v = w
    <3> SUFFICES ASSUME NEW v \in U, NEW w \in U, c[v] = c[w] PROVE v = w
      OBVIOUS
    <3>1. Cardinality(U \cap 1..v) = Cardinality(U \cap 1..w)
      BY <1>10
    <3> QED
      BY <1>4, <3>1, Zenon
  <2>3. \A k \in 1..vars' : \E v \in U : c[v] = k
    BY <1>1, <1>4, <1>10
  <2> QED BY <2>1, <2>2, <2>3
<1>13. DOMAIN clause' = 1..M
  BY <1>1
<1>14. \A k \in 1..M : \E i \in Active : clause'[k] = Recolor(clause[i], c)
  BY <1>1, <1>8
<1>15. \A i \in Active : \E k \in 1..M : clause'[k] = Recolor(clause[i], c)
  <2> SUFFICES ASSUME NEW i \in Active PROVE \E k \in 1..M : clause'[k] = Recolor(clause[i], c)
    OBVIOUS
  <2>1. /\ Cardinality(Active \cap 1..i) \in 1..M
        /\ clause'[Cardinality(Active \cap 1..i)] = Recolor(clause[kth(Cardinality(Active \cap 1..i))], c)
    BY <1>1, <1>7
  <2> QED
    BY <1>9, <2>1
<1> QED
  BY <1>1, <1>3, <1>4, <1>7, <1>11, <1>12, <1>13, <1>14, <1>15 DEF U, c

(* While variables are eliminated and fixed: the numbering, the rows, what   *)
(* is dealt with, and what is stored.                                        *)
RowsInv ==
  /\ input \in Formulas /\ vars \in Nat
  /\ clause \in Seq(RowsOver(vars)) /\ clause_delete \subseteq DOMAIN clause
  /\ \A i \in Active : Plain(clause[i]) /\ clause[i].degree >= 1

StoredInv ==
  /\ res_clause \in Seq([row : RowsOver(orivars), owner : 1 .. orivars])
  /\ \A d \in DOMAIN res_clause : \E k \in DOMAIN Eliminated : Eliminated[k] = res_clause[d].owner

MapInv ==
  /\ mapfrom \in [1 .. vars -> 1 .. orivars]
  /\ \A v, w \in 1 .. vars : mapfrom[v] = mapfrom[w] => v = w
  /\ mapto \in [1 .. orivars -> 0 .. vars] /\ mapval \in Partial(orivars)
  /\ \A o \in 1 .. orivars : IF mapto[o] = 0 THEN mapval[o] # 0
                             ELSE mapfrom[mapto[o]] = o /\ mapval[o] = 0
  /\ \A v \in 1 .. vars : v \notin clean => mapto[mapfrom[v]] = v

CleanInv ==
  /\ clean \subseteq 1 .. vars /\ clean \cap Used(ActiveRows) = {}
  /\ resolution \in Seq(clean) /\ pure_queue \subseteq 1 .. vars
  /\ ~changed => clean = {} /\ res_clause = <<>> /\ Used(ActiveRows) = 1 .. vars
  /\ varval = Unassigned(vars)
  /\ turn = 0 /\ ~any_changed

ElimInv ==
  pc \in {"eliminate", "pure"} =>
    /\ RowsInv /\ StoredInv /\ MapInv /\ CleanInv
    /\ next \in Nat \ {0}
    /\ pc = "eliminate" => \A v \in clean : v < next
    /\ pc = "pure" => \A v \in 1 .. vars \ clean : OneSided(v) => v \in pure_queue

(* Classes of variables: every variable has a root, with a sign. *)
WellFormed(u) ==
  /\ u.rep \in [1 .. vars -> Literals(vars)] /\ u.varval \in Partial(vars)
  /\ \A v \in 1 .. vars : u.rep[Root(u, v)] = Root(u, v)

(* The variables of native rows are in no class with another one. *)
Untouched(u) ==
  /\ \A v \in in_cardinality : u.rep[v] = v /\ u.varval[v] = 0
  /\ \A w \in 1 .. vars : Root(u, w) \in in_cardinality => Root(u, w) = w

Classes == [rep |-> rep, varval |-> varval]

BinInv ==
  pc = "binary" =>
    /\ RowsInv /\ StoredInv
    /\ resolution \in Seq(1 .. orivars)
    /\ mapto \in [1 .. orivars -> 0 .. vars]
    /\ \A o \in 1 .. orivars :
         mapto[o] = 0 => mapval[o] \in {-1, 1} \/ \E k \in DOMAIN resolution : resolution[k] = o
    /\ WellFormed(Classes) /\ Untouched(Classes) /\ RowsNameFreeRoots
    /\ turn \in Nat
    /\ ~any_changed => rep = Roots(vars) /\ varval = Unassigned(vars)
    /\ turn = 0 => NoPureLeft

(* What a pass's final renumbering leaves: copies of the rows kept, over     *)
(* variables that all occur.                                                 *)
LEMMA RelabelledRows ==
  ASSUME vars \in Nat, NEW N \in Nat, DOMAIN clause = 1..N,
         \A i \in Active : clause[i] \in RowsOver(vars),
         UpdateVarClauseLabel
  PROVE  LET c == color(ActiveRows, vars)
         IN  /\ clause' \in Seq(RowsOver(vars')) /\ clause_delete' = {} /\ Active' = DOMAIN clause'
             /\ \A k \in Active' : \E i \in Active : CopyOf(clause'[k], clause[i], c)
             /\ \A i \in Active : \E k \in Active' : CopyOf(clause'[k], clause[i], c)
             /\ Used(ActiveRows)' = 1..vars'
<1> DEFINE U == Used(ActiveRows)
           c == color(ActiveRows, vars)
<1>1. /\ vars' \in Nat /\ U \subseteq 1..vars
      /\ c \in [1..vars -> 0..vars']
      /\ \A v \in 1..vars : c[v] # 0 <=> v \in U
      /\ \A v, w \in U : c[v] = c[w] => v = w
      /\ \A k \in 1..vars' : \E v \in U : c[v] = k
      /\ clause_delete' = {}
      /\ \E M \in Nat :
           /\ DOMAIN clause' = 1..M
           /\ \A k \in 1..M : \E i \in Active : clause'[k] = Recolor(clause[i], c)
           /\ \A i \in Active : \E k \in 1..M : clause'[k] = Recolor(clause[i], c)
      /\ \A i \in Active :
           /\ RowVars(clause[i]) \subseteq U
           /\ \A v \in RowVars(clause[i]) : c[v] # 0
           /\ \A v, w \in RowVars(clause[i]) : c[v] = c[w] => v = w
  BY Relabelled
<1>2. PICK M \in Nat :
           /\ DOMAIN clause' = 1..M
           /\ \A k \in 1..M : \E i \in Active : clause'[k] = Recolor(clause[i], c)
           /\ \A i \in Active : \E k \in 1..M : clause'[k] = Recolor(clause[i], c)
  BY <1>1
<1> HIDE DEF c, U
<1>3. \A i \in Active : Recolor(clause[i], c) \in RowsOver(vars') /\ CopyOf(Recolor(clause[i], c), clause[i], c)
  BY <1>1, RecolorRow
<1>4. clause' \in [1..M -> RowsOver(vars')]
  <2>1. clause' = [k \in 1..M |-> clause'[k]]
    <3>1. clause' = [k \in 1 .. Cardinality(Active) |->
                       Recolor(clause[CHOOSE i \in Active : Cardinality(Active \cap 1 .. i) = k],
                               color(ActiveRows, vars))]
      BY DEF UpdateVarClauseLabel
    <3> QED
      BY <1>2, <3>1
  <2>2. \A k \in 1..M : clause'[k] \in RowsOver(vars')
    BY <1>2, <1>3
  <2> QED
    BY <2>1, <2>2
<1>5. clause' \in Seq(RowsOver(vars')) /\ DOMAIN clause' = 1..M
  BY <1>2, <1>4, SeqDef
<1>6. Active' = DOMAIN clause'
  BY <1>1 DEF Active
<1>7. /\ \A k \in Active' : \E i \in Active : CopyOf(clause'[k], clause[i], c)
      /\ \A i \in Active : \E k \in Active' : CopyOf(clause'[k], clause[i], c)
  <2>1. ASSUME NEW k \in Active' PROVE \E i \in Active : CopyOf(clause'[k], clause[i], c)
    <3>1. PICK i \in Active : clause'[k] = Recolor(clause[i], c)
      BY <1>2, <1>6
    <3> QED BY <1>3, <3>1, Zenon
  <2>2. ASSUME NEW i \in Active PROVE \E k \in Active' : CopyOf(clause'[k], clause[i], c)
    <3>1. PICK k \in Active' : clause'[k] = Recolor(clause[i], c)
      BY <1>2, <1>6
    <3> QED BY <1>3, <3>1, Zenon
  <2> QED BY <2>1, <2>2
<1>8. Used(ActiveRows)' = UNION {RowVars(clause'[k]) : k \in Active'}
  BY DEF Used, ActiveRows, Active
<1>9. U = UNION {RowVars(clause[i]) : i \in Active}
  BY DEF Used, ActiveRows, U
<1>10. \A w : w \in Used(ActiveRows)' <=> \E v \in U : w = c[v]
  <2>1. ASSUME NEW w, w \in Used(ActiveRows)' PROVE \E v \in U : w = c[v]
    <3>1. PICK k \in Active' : w \in RowVars(clause'[k])
      BY <1>8, <2>1
    <3>2. PICK i \in Active : CopyOf(clause'[k], clause[i], c)
      BY <1>7
    <3>3. PICK v \in RowVars(clause[i]) : w = c[v]
      BY <3>1, <3>2 DEF CopyOf
    <3> QED
      BY <1>1, <3>3
  <2>2. ASSUME NEW v \in U PROVE c[v] \in Used(ActiveRows)'
    <3>1. PICK i \in Active : v \in RowVars(clause[i])
      BY <1>9
    <3>2. PICK k \in Active' : CopyOf(clause'[k], clause[i], c)
      BY <1>7
    <3>3. c[v] \in RowVars(clause'[k])
      BY <3>1, <3>2 DEF CopyOf
    <3> QED
      BY <1>8, <3>3
  <2> QED
    BY <2>1, <2>2
<1>11. \A w : w \in 1..vars' <=> \E v \in U : w = c[v]
  <2>1. \A v \in U : c[v] \in 1..vars'
    <3> SUFFICES ASSUME NEW v \in U PROVE c[v] \in 1..vars'
      OBVIOUS
    <3>1. c[v] \in 0..vars' /\ c[v] # 0
      BY <1>1
    <3> QED
      BY <1>1, <3>1
  <2> QED
    BY <1>1, <2>1
<1>12. Used(ActiveRows)' = 1..vars'
  BY <1>10, <1>11
<1> QED
  BY <1>1, <1>5, <1>6, <1>7, <1>12 DEF c

-----------------------------------------------------------------------------
(* The end of the propagation. *)

(* What the later passes own is as it was at the start. *)
UpRest ==
  pc = "up" =>
    /\ res_clause = <<>> /\ resolution = <<>> /\ clean = {} /\ pure_queue = {} /\ ~changed
    /\ turn = 0 /\ ~any_changed

SatisfiesInput(a) == \A i \in RowsOfInput : Holds(input[i], a)

(* The end of the propagation (propagation.cpp:127-150): fixed variables     *)
(* leave, the others and the rows are renumbered. Every model of the rows    *)
(* left gives one of the file, and there is one if the file has one; no row  *)
(* left is forced.                                                           *)
LEMMA FinishUp ==
  ASSUME UpInv, UpRest, FinishPropagation, UNCHANGED <<resVars, binVars>>
  PROVE  /\ pc' = "eliminate" /\ ElimInv' /\ NothingForcedLeft'
         /\ \A b \in Models(vars, ActiveRows)' : \E a \in Total(orivars) :
              /\ SatisfiesInput(a)
              /\ a = [o \in 1..orivars |-> IF mapto'[o] # 0 THEN b[mapto'[o]] ELSE mapval'[o]]
         /\ (\E a \in Total(orivars) : SatisfiesInput(a)) => Models(vars, ActiveRows)' # {}
<1> DEFINE c == color(ActiveRows, vars)
           U == Used(ActiveRows)
<1>1. /\ pc = "up" /\ touched = {} /\ pending = {} /\ next > Len(input)
      /\ UpdateVarClauseLabel
      /\ mapto' = c
      /\ mapval' = [v \in 1 .. orivars |->
                         IF varval[v] # 0 THEN varval[v]
                         ELSE IF c[v] = 0 THEN 1 ELSE mapval[v]]
      /\ mapfrom' = [k \in 1 .. vars' |-> CHOOSE v \in 1 .. orivars : c[v] = k]
      /\ pc' = "eliminate" /\ next' = 1 /\ varval' = Unassigned(vars')
      /\ input' = input
  BY DEF FinishPropagation, RowsRead, upVars
<1>2. /\ res_clause' = <<>> /\ resolution' = <<>> /\ clean' = {} /\ pure_queue' = {} /\ ~changed'
      /\ turn' = 0 /\ ~any_changed'
  BY <1>1 DEF UpRest, resVars, binVars
<1>3. /\ UpType /\ UpRows /\ UpModels
  BY <1>1 DEF UpInv
<1>4. /\ input \in Formulas /\ vars = orivars /\ varval \in Partial(orivars) /\ orivars \in Nat
      /\ mapval = Unassigned(orivars) /\ Len(input) \in Nat
      /\ clause \in [RowsOfInput -> RowsOver(orivars)] /\ DOMAIN clause = 1..Len(input)
      /\ next = Len(input) + 1
      /\ clause_delete \subseteq 1..Len(input)
  BY <1>1, <1>3, InputFacts DEF UpType, RowsOfInput
<1>5. \A i \in Active : clause[i] \in RowsOver(vars) /\ i \in RowsOfInput
  BY <1>4 DEF Active, RowsOfInput
<1>6. \A i \in Active : /\ Plain(clause[i]) /\ clause[i].degree \in 1 .. Size(clause[i]) - 1
                        /\ \A l \in clause[i].lits : varval[VarOf(l)] = 0
  <2>1. \A i \in Active : i \in 1 .. next - 1 /\ i \notin clause_delete
    BY <1>4 DEF Active
  <2> QED
    BY <1>1, <1>3, <2>1 DEF UpRows
<1>7. /\ vars' \in Nat /\ U \subseteq 1..vars
      /\ c \in [1..vars -> 0..vars']
      /\ \A v \in 1..vars : c[v] # 0 <=> v \in U
      /\ \A v, w \in U : c[v] = c[w] => v = w
      /\ \A k \in 1..vars' : \E v \in U : c[v] = k
      /\ \A i \in Active : RowVars(clause[i]) \subseteq U
  BY <1>1, <1>4, <1>5, Relabelled
<1>8. /\ clause' \in Seq(RowsOver(vars')) /\ clause_delete' = {} /\ Active' = DOMAIN clause'
      /\ \A k \in Active' : \E i \in Active : CopyOf(clause'[k], clause[i], c)
      /\ \A i \in Active : \E k \in Active' : CopyOf(clause'[k], clause[i], c)
      /\ Used(ActiveRows)' = 1..vars'
  BY <1>1, <1>4, <1>5, RelabelledRows
<1>9. \A v \in U : varval[v] = 0
  <2>1. U = UNION {RowVars(clause[i]) : i \in Active}
    BY DEF Used, ActiveRows
  <2> QED
    BY <1>6, <2>1 DEF RowVars
<1> HIDE DEF c, U
<1>10. \A k \in 1..vars' : mapfrom'[k] \in 1..orivars /\ c[mapfrom'[k]] = k
  <2> SUFFICES ASSUME NEW k \in 1..vars' PROVE mapfrom'[k] \in 1..orivars /\ c[mapfrom'[k]] = k
    OBVIOUS
  <2>1. mapfrom'[k] = CHOOSE v \in 1 .. orivars : c[v] = k
    BY <1>1
  <2>2. \E v \in 1..orivars : c[v] = k
    BY <1>4, <1>7
  <2> QED
    BY <2>1, <2>2
<1>11. \A o \in 1..orivars :
         /\ c[o] \in 0..vars'
         /\ c[o] = 0 => mapval'[o] \in {-1, 1} /\ (varval[o] # 0 => mapval'[o] = varval[o])
         /\ c[o] # 0 => /\ mapval'[o] = 0 /\ varval[o] = 0 /\ o \in U
                        /\ c[o] \in 1..vars' /\ mapfrom'[c[o]] = o
  <2> SUFFICES ASSUME NEW o \in 1..orivars
               PROVE  /\ c[o] \in 0..vars'
                      /\ c[o] = 0 => mapval'[o] \in {-1, 1} /\ (varval[o] # 0 => mapval'[o] = varval[o])
                      /\ c[o] # 0 => /\ mapval'[o] = 0 /\ varval[o] = 0 /\ o \in U
                                     /\ c[o] \in 1..vars' /\ mapfrom'[c[o]] = o
    OBVIOUS
  <2>1. /\ c[o] \in 0..vars' /\ varval[o] \in {-1, 0, 1}
        /\ mapval'[o] = IF varval[o] # 0 THEN varval[o] ELSE IF c[o] = 0 THEN 1 ELSE 0
    BY <1>1, <1>4, <1>7 DEF Unassigned, Partial
  <2>2. ASSUME c[o] # 0
        PROVE  varval[o] = 0 /\ o \in U /\ c[o] \in 1..vars' /\ mapfrom'[c[o]] = o
    <3>1. o \in U /\ varval[o] = 0
      BY <1>4, <1>7, <1>9, <2>2
    <3>2. c[o] \in 1..vars'
      BY <1>7, <2>1, <2>2
    <3>3. mapfrom'[c[o]] \in 1..orivars /\ c[mapfrom'[c[o]]] = c[o]
      BY <1>10, <3>2
    <3>4. mapfrom'[c[o]] \in U
      BY <1>4, <1>7, <2>2, <3>3
    <3> QED
      BY <1>7, <3>1, <3>2, <3>3, <3>4
  <2> QED
    BY <2>1, <2>2
<1>12. RowsInv'
  <2>1. \A k \in Active' : Plain(clause'[k]) /\ clause'[k].degree >= 1
    <3> SUFFICES ASSUME NEW k \in Active' PROVE Plain(clause'[k]) /\ clause'[k].degree >= 1
      OBVIOUS
    <3>1. PICK i \in Active : CopyOf(clause'[k], clause[i], c)
      BY <1>8
    <3> QED
      BY <1>6, <3>1 DEF CopyOf
  <2> QED
    BY <1>1, <1>4, <1>7, <1>8, <2>1 DEF RowsInv
<1>13. StoredInv'
  <2>1. res_clause' = <<>>
    BY <1>2
  <2> QED
    BY <2>1 DEF StoredInv
<1>14. MapInv'
  <2>1. mapfrom' \in [1 .. vars' -> 1 .. orivars]
    BY <1>1, <1>10
  <2>2. \A v, w \in 1 .. vars' : mapfrom'[v] = mapfrom'[w] => v = w
    BY <1>10
  <2>3. mapto' \in [1 .. orivars -> 0 .. vars'] /\ mapval' \in Partial(orivars)
    <3>1. \A o \in 1..orivars : mapval'[o] \in {-1, 0, 1}
      BY <1>11
    <3> QED
      BY <1>1, <1>4, <1>7, <3>1 DEF Partial
  <2>4. \A o \in 1 .. orivars : IF mapto'[o] = 0 THEN mapval'[o] # 0
                               ELSE mapfrom'[mapto'[o]] = o /\ mapval'[o] = 0
    BY <1>1, <1>11
  <2>5. \A v \in 1 .. vars' : mapto'[mapfrom'[v]] = v
    BY <1>1, <1>10
  <2> QED
    BY <2>1, <2>2, <2>3, <2>4, <2>5 DEF MapInv
<1>15. CleanInv'
  BY <1>1, <1>2, <1>8 DEF CleanInv
<1>16. ElimInv'
  BY <1>1, <1>2, <1>12, <1>13, <1>14, <1>15 DEF ElimInv
<1>17. NothingForcedLeft'
  <2>1. ASSUME NEW k \in Active'
        PROVE  clause'[k].degree \in 1 .. Size(clause'[k]) - 1 /\ Plain(clause'[k])
    <3>1. PICK i \in Active : CopyOf(clause'[k], clause[i], c)
      BY <1>8
    <3> QED
      BY <1>6, <3>1 DEF CopyOf
  <2>2. \A v \in 1..vars' : mapval'[mapfrom'[v]] = 0 /\ mapto'[mapfrom'[v]] = v
    <3> SUFFICES ASSUME NEW v \in 1..vars' PROVE mapval'[mapfrom'[v]] = 0 /\ mapto'[mapfrom'[v]] = v
      OBVIOUS
    <3>1. mapfrom'[v] \in 1..orivars /\ c[mapfrom'[v]] = v /\ v # 0
      BY <1>10
    <3> QED
      BY <1>1, <1>11, <3>1
  <2> QED
    BY <2>1, <2>2 DEF NothingForcedLeft, ActiveRows, Plain
<1>18. ASSUME NEW b \in Models(vars, ActiveRows)'
       PROVE  \E a \in Total(orivars) :
              /\ SatisfiesInput(a)
              /\ a = [o \in 1..orivars |-> IF mapto'[o] # 0 THEN b[mapto'[o]] ELSE mapval'[o]]
  <2> DEFINE a == [o \in 1..orivars |-> IF mapto'[o] # 0 THEN b[mapto'[o]] ELSE mapval'[o]]
  <2>1. b \in [1..vars' -> {-1, 1}] /\ \A k \in Active' : Holds(clause'[k], b)
    BY DEF Models, ActiveRows
  <2>2. \A o \in 1..orivars : /\ a[o] \in {-1, 1}
                              /\ varval[o] # 0 => a[o] = varval[o]
                              /\ o \in U => b[c[o]] = a[o]
    BY <1>1, <1>4, <1>7, <1>11, <2>1
  <2>3. a \in Total(orivars)
    BY <2>2 DEF Total
  <2>4. Agrees(varval, a)
    BY <1>4, <2>2 DEF Agrees, Partial
  <2> HIDE DEF a
  <2>5. ASSUME NEW i \in Active PROVE Holds(clause[i], a)
    <3>1. PICK k \in Active' : CopyOf(clause'[k], clause[i], c)
      BY <1>8
    <3>2. \A v \in RowVars(clause[i]) : b[c[v]] = a[v]
      BY <1>4, <1>7, <2>2
    <3> QED
      BY <2>1, <3>1, <3>2 DEF CopyOf
  <2>6. Respected(a)
    BY <1>4, <2>4, <2>5 DEF Respected, Active, RowsOfInput
  <2>7. SatisfiesInput(a)
    BY <1>3, <2>3, <2>6 DEF UpModels, SatisfiesInput
  <2> QED
    BY <2>3, <2>7 DEF a
<1>19. ASSUME NEW a \in Total(orivars), SatisfiesInput(a) PROVE Models(vars, ActiveRows)' # {}
  <2> DEFINE b == [k \in 1..vars' |-> a[mapfrom'[k]]]
  <2>1. b \in [1..vars' -> {-1, 1}]
    BY <1>10 DEF Total
  <2>2. Respected(a)
    BY <1>3, <1>19 DEF UpModels, SatisfiesInput
  <2>3. \A v \in U : b[c[v]] = a[v]
    BY <1>4, <1>7, <1>11
  <2> HIDE DEF b
  <2>4. ASSUME NEW k \in Active' PROVE Holds(clause'[k], b)
    <3>1. PICK i \in Active : CopyOf(clause'[k], clause[i], c)
      BY <1>8
    <3>2. Holds(clause[i], a)
      BY <1>4, <2>2 DEF Respected, Active, RowsOfInput
    <3>3. \A v \in RowVars(clause[i]) : b[c[v]] = a[v]
      BY <1>7, <2>3
    <3> QED
      BY <3>1, <3>2, <3>3 DEF CopyOf
  <2>5. b \in Models(vars, ActiveRows)'
    BY <2>1, <2>4 DEF Models, ActiveRows
  <2> QED BY <2>5
<1> QED
  BY <1>1, <1>16, <1>17, <1>18, <1>19
=============================================================================
