-------------------------- MODULE ResolutionProofs --------------------------
(* Eliminating a variable whose residuals are implied loses no satisfying    *)
(* assignment for good, and what get_complete_model makes of one that is     *)
(* left satisfies the rows that went; the pure phase misses no variable.     *)
EXTENDS PropagationProofs

-----------------------------------------------------------------------------
(* Numbering sets, as update_var_clause_label and the sort of the binary     *)
(* pass do.                                                                  *)

(* below orders the finite set S: below[x] are the elements before x.        *)
Ordered(S, below) ==
  /\ IsFiniteSet(S) /\ below \in [S -> SUBSET S]
  /\ \A x \in S : x \notin below[x]
  /\ \A x, y \in S : x # y => x \in below[y] \/ y \in below[x]
  /\ \A x, y \in S : y \in below[x] => below[y] \subseteq below[x]

(* The elements are counted from 0 by how many come before them.             *)
Counted(S, below) ==
  /\ Cardinality(S) \in Nat
  /\ \A x \in S : Cardinality(below[x]) \in 0 .. Cardinality(S) - 1
  /\ \A x, y \in S : Cardinality(below[x]) = Cardinality(below[y]) => x = y
  /\ \A x, y \in S : y \in below[x] => Cardinality(below[y]) < Cardinality(below[x])
  /\ \A k \in 0 .. Cardinality(S) - 1 : \E x \in S : Cardinality(below[x]) = k

(* Each element of a finite totally ordered set has a rank of its own, and   *)
(* no rank is left out.                                                      *)
LEMMA RanksOf ==
  ASSUME NEW S, NEW below, Ordered(S, below)
  PROVE  Counted(S, below)
<1> USE DEF Ordered, Counted
<1> DEFINE n == Cardinality(S)
           rank(x) == Cardinality(below[x])
           f == [x \in S |-> rank(x)]
           K == 0 .. n - 1
<1>1. n \in Nat
  BY FS_CardinalityType
<1>2. \A x \in S : IsFiniteSet(below[x]) /\ rank(x) \in Nat /\ rank(x) <= n
  BY FS_Subset, FS_CardinalityType
<1>3. ASSUME NEW x \in S PROVE rank(x) \in K
  <2>1. below[x] # S
    OBVIOUS
  <2>2. rank(x) # n
    BY <2>1, FS_Subset
  <2>3. rank(x) \in Nat /\ rank(x) <= n
    BY <1>2
  <2> HIDE DEF rank, n
  <2> QED
    BY <1>1, <2>2, <2>3
<1>4. ASSUME NEW x \in S, NEW y \in S, y \in below[x] PROVE rank(y) < rank(x)
  <2>1. below[y] \in SUBSET below[x] /\ below[y] # below[x]
    BY <1>4
  <2>2. rank(y) <= rank(x) /\ rank(y) # rank(x)
    BY <1>2, <2>1, FS_Subset
  <2>3. rank(y) \in Nat /\ rank(x) \in Nat
    BY <1>2
  <2> HIDE DEF rank
  <2> QED
    BY <2>2, <2>3
<1> HIDE DEF rank
<1>5. ASSUME NEW x \in S, NEW y \in S, rank(x) = rank(y) PROVE x = y
  <2>1. rank(x) \in Nat /\ rank(y) \in Nat
    BY <1>2
  <2> QED
    BY <1>4, <1>5, <2>1
<1>6. f \in [S -> K] /\ \A x, y \in S : f[x] = f[y] => x = y
  BY <1>3, <1>5
<1>7. f \in Injection(S, K)
  BY <1>6 DEF Injection, IsInjective
<1>8. IsFiniteSet(K) /\ Cardinality(K) = n
  BY <1>1, FS_Interval
<1> HIDE DEF f, K
<1>9. f \in Surjection(S, K)
  <2>1. Cardinality(S) = Cardinality(K)
    BY <1>8
  <2> QED
    BY <1>7, <1>8, <2>1, FS_Injection, Zenon
<1>10. \A k \in K : \E x \in S : f[x] = k
  BY <1>9 DEF Surjection
<1> QED
  BY <1>1, <1>3, <1>4, <1>5, <1>10 DEF f, K, rank

(* InOrder lists the positions of a set of numbers ...                       *)
LEMMA NumbersInOrder ==
  ASSUME NEW n \in Nat, NEW S \in SUBSET (1..n)
  PROVE  LET s == InOrder(S, Smaller)
         IN  /\ IsFiniteSet(S) /\ Cardinality(S) \in Nat
             /\ DOMAIN s = 1 .. Cardinality(S) /\ s \in Seq(S)
             /\ \A x \in S : \E k \in DOMAIN s : s[k] = x
<1> DEFINE below == [x \in S |-> {y \in S : Smaller(y, x)}]
           s == InOrder(S, Smaller)
           N == Cardinality(S)
<1>1. IsFiniteSet(S)
  <2>1. IsFiniteSet(1..n)
    BY FS_Interval
  <2> QED
    BY <2>1, FS_Subset
<1>2. /\ below \in [S -> SUBSET S] /\ \A x \in S : x \notin below[x]
      /\ \A x, y \in S : x # y => x \in below[y] \/ y \in below[x]
      /\ \A x, y \in S : y \in below[x] => below[y] \subseteq below[x]
  <2>1. \A x \in S : x \in Int
    OBVIOUS
  <2>2. \A x, y \in S : y \in below[x] => below[y] \subseteq below[x]
    <3> SUFFICES ASSUME NEW x \in S, NEW y \in S, NEW z \in S, Smaller(y, x), Smaller(z, y)
                 PROVE  Smaller(z, x)
      OBVIOUS
    <3> QED
      BY <2>1 DEF Smaller
  <2>3. \A x, y \in S : x # y => x \in below[y] \/ y \in below[x]
    <3> SUFFICES ASSUME NEW x \in S, NEW y \in S, x # y PROVE Smaller(x, y) \/ Smaller(y, x)
      OBVIOUS
    <3> QED
      BY <2>1 DEF Smaller
  <2>4. \A x \in S : x \notin below[x]
    BY <2>1 DEF Smaller
  <2> QED
    BY <2>2, <2>3, <2>4
<1>3. s = [k \in 1 .. N |-> CHOOSE x \in S : Cardinality({y \in S : Smaller(y, x)}) = k - 1]
  BY DEF InOrder
<1>4. \A x \in S : below[x] = {y \in S : Smaller(y, x)}
  OBVIOUS
<1> HIDE DEF below, s
<1>5. /\ N \in Nat
      /\ \A x \in S : Cardinality(below[x]) \in 0 .. N - 1
      /\ \A x, y \in S : Cardinality(below[x]) = Cardinality(below[y]) => x = y
      /\ \A k \in 0 .. N - 1 : \E x \in S : Cardinality(below[x]) = k
  <2>1. Ordered(S, below)
    BY <1>1, <1>2 DEF Ordered
  <2>2. Counted(S, below)
    BY <2>1, RanksOf
  <2> QED
    BY <2>2 DEF Counted, N
<1> HIDE DEF N
<1>6. ASSUME NEW k \in 1..N
      PROVE  s[k] \in S /\ Cardinality(below[s[k]]) = k - 1
  <2>1. k - 1 \in 0..N - 1
    BY <1>5
  <2>2. PICK z \in S : Cardinality(below[z]) = k - 1
    BY <1>5, <2>1
  <2>3. Cardinality({y \in S : Smaller(y, z)}) = k - 1
    BY <1>4, <2>2
  <2>4. s[k] = CHOOSE x \in S : Cardinality({y \in S : Smaller(y, x)}) = k - 1
    BY <1>3
  <2>5. s[k] \in S /\ Cardinality({y \in S : Smaller(y, s[k])}) = k - 1
    BY <2>3, <2>4
  <2> QED
    BY <1>4, <2>5
<1>7. s \in [1..N -> S]
  BY <1>3, <1>6
<1>8. s \in Seq(S) /\ DOMAIN s = 1..N
  BY <1>5, <1>7, SeqDef
<1>9. ASSUME NEW x \in S PROVE \E k \in DOMAIN s : s[k] = x
  <2> DEFINE k == Cardinality(below[x]) + 1
  <2>1. k \in 1..N /\ k - 1 = Cardinality(below[x])
    BY <1>5
  <2> HIDE DEF k
  <2>2. s[k] \in S /\ Cardinality(below[s[k]]) = Cardinality(below[x])
    BY <1>6, <2>1
  <2>3. s[k] = x
    BY <1>5, <2>2
  <2> QED
    BY <1>8, <2>1, <2>3
<1> QED
  BY <1>1, <1>5, <1>8, <1>9 DEF s, N

(* ... and of a set of pairs.                                                *)
LEMMA PairsInOrder ==
  ASSUME NEW n \in Nat, NEW S \in SUBSET ((1..n) \X (1..n))
  PROVE  LET s == InOrder(S, Before)
         IN  /\ IsFiniteSet(S) /\ Cardinality(S) \in Nat
             /\ DOMAIN s = 1 .. Cardinality(S) /\ s \in Seq(S)
             /\ \A x \in S : \E k \in DOMAIN s : s[k] = x
<1> DEFINE below == [x \in S |-> {y \in S : Before(y, x)}]
           s == InOrder(S, Before)
           N == Cardinality(S)
<1>1. IsFiniteSet(S)
  <2>1. IsFiniteSet(1..n)
    BY FS_Interval
  <2>2. IsFiniteSet((1..n) \X (1..n))
    BY <2>1, FS_Product
  <2> QED
    BY <2>2, FS_Subset
<1>2. /\ below \in [S -> SUBSET S] /\ \A x \in S : x \notin below[x]
      /\ \A x, y \in S : x # y => x \in below[y] \/ y \in below[x]
      /\ \A x, y \in S : y \in below[x] => below[y] \subseteq below[x]
  <2>1. \A x \in S : x = <<x[1], x[2]>> /\ x[1] \in Int /\ x[2] \in Int
    OBVIOUS
  <2>2. \A x, y \in S : y \in below[x] => below[y] \subseteq below[x]
    BY <2>1 DEF Before
  <2>3. \A x, y \in S : x # y => x \in below[y] \/ y \in below[x]
    <3> SUFFICES ASSUME NEW x \in S, NEW y \in S, x # y PROVE Before(x, y) \/ Before(y, x)
      OBVIOUS
    <3>1. x[1] # y[1] \/ x[2] # y[2]
      BY <2>1
    <3> QED
      BY <2>1, <3>1 DEF Before
  <2>4. \A x \in S : x \notin below[x]
    BY <2>1 DEF Before
  <2> QED
    BY <2>2, <2>3, <2>4
<1>3. s = [k \in 1 .. N |-> CHOOSE x \in S : Cardinality({y \in S : Before(y, x)}) = k - 1]
  BY DEF InOrder
<1>4. \A x \in S : below[x] = {y \in S : Before(y, x)}
  OBVIOUS
<1> HIDE DEF below, s
<1>5. /\ N \in Nat
      /\ \A x \in S : Cardinality(below[x]) \in 0 .. N - 1
      /\ \A x, y \in S : Cardinality(below[x]) = Cardinality(below[y]) => x = y
      /\ \A k \in 0 .. N - 1 : \E x \in S : Cardinality(below[x]) = k
  <2>1. Ordered(S, below)
    BY <1>1, <1>2 DEF Ordered
  <2>2. Counted(S, below)
    BY <2>1, RanksOf
  <2> QED
    BY <2>2 DEF Counted, N
<1> HIDE DEF N
<1>6. ASSUME NEW k \in 1..N
      PROVE  s[k] \in S /\ Cardinality(below[s[k]]) = k - 1
  <2>1. k - 1 \in 0..N - 1
    BY <1>5
  <2>2. PICK z \in S : Cardinality(below[z]) = k - 1
    BY <1>5, <2>1
  <2>3. Cardinality({y \in S : Before(y, z)}) = k - 1
    BY <1>4, <2>2
  <2>4. s[k] = CHOOSE x \in S : Cardinality({y \in S : Before(y, x)}) = k - 1
    BY <1>3
  <2>5. s[k] \in S /\ Cardinality({y \in S : Before(y, s[k])}) = k - 1
    BY <2>3, <2>4
  <2> QED
    BY <1>4, <2>5
<1>7. s \in [1..N -> S]
  BY <1>3, <1>6
<1>8. s \in Seq(S) /\ DOMAIN s = 1..N
  BY <1>5, <1>7, SeqDef
<1>9. ASSUME NEW x \in S PROVE \E k \in DOMAIN s : s[k] = x
  <2> DEFINE k == Cardinality(below[x]) + 1
  <2>1. k \in 1..N /\ k - 1 = Cardinality(below[x])
    BY <1>5
  <2> HIDE DEF k
  <2>2. s[k] \in S /\ Cardinality(below[s[k]]) = Cardinality(below[x])
    BY <1>6, <2>1
  <2>3. s[k] = x
    BY <1>5, <2>2
  <2> QED
    BY <1>8, <2>1, <2>3
<1> QED
  BY <1>1, <1>5, <1>8, <1>9 DEF s, N

-----------------------------------------------------------------------------
(* Resolvents and their parents. *)

(* A row without one of its literals, and how many of the others a makes     *)
(* true.                                                                     *)
Without(r, l) == [lits |-> r.lits \ {l}, degree |-> r.degree]

Rest(r, l, a) == Cardinality(TrueLits(Without(r, l), a))

(* How a row depends on one of its literals. *)
LEMMA RestCounts ==
  ASSUME NEW n \in Nat, NEW r \in RowsOver(n), NEW l \in r.lits, NEW a
  PROVE  /\ Without(r, l) \in RowsOver(n)
         /\ Rest(r, l, a) \in Nat /\ Size(r) \in Nat /\ Rest(r, l, a) <= Size(r) - 1
         /\ r.degree \in Int
         /\ a[VarOf(l)] = pnsign(l) => (Holds(r, a) <=> Rest(r, l, a) + 1 >= r.degree)
         /\ a[VarOf(l)] # pnsign(l) => (Holds(r, a) <=> Rest(r, l, a) >= r.degree)
<1> DEFINE w == Without(r, l)
           T == TrueLits(w, a)
           A == r.lits
<1>1. A \in SUBSET Literals(n) /\ IsFiniteSet(A) /\ Size(r) \in Nat /\ r.degree \in Int
  BY TrueLitsFinite DEF RowsOver
<1>2. w.lits = A \ {l} /\ w.degree = r.degree
  BY DEF Without
<1>3. w \in RowsOver(n)
  BY <1>1 DEF RowsOver, Without
<1>4. IsFiniteSet(T) /\ Cardinality(T) \in Nat /\ T \subseteq w.lits /\ Cardinality(T) <= Size(w)
  BY <1>3, TrueLitsFinite
<1>5. Size(w) = Size(r) - 1
  <2>1. Cardinality(A \ {l}) = Cardinality(A) - 1
    BY <1>1, FS_RemoveElement
  <2> QED
    BY <1>2, <2>1 DEF Size
<1>6. ASSUME a[VarOf(l)] = pnsign(l) PROVE Holds(r, a) <=> Rest(r, l, a) + 1 >= r.degree
  <2>1. TrueLits(r, a) = T \cup {l} /\ l \notin T
    BY <1>2, <1>6 DEF TrueLits
  <2> HIDE DEF T
  <2>2. Cardinality(TrueLits(r, a)) = Cardinality(T) + 1
    BY <1>4, <2>1, FS_AddElement
  <2> QED
    BY <2>2 DEF Holds, Rest, T, w
<1>7. ASSUME a[VarOf(l)] # pnsign(l) PROVE Holds(r, a) <=> Rest(r, l, a) >= r.degree
  <2>1. TrueLits(r, a) = T
    BY <1>2, <1>7 DEF TrueLits
  <2> QED
    BY <2>1 DEF Holds, Rest, T, w
<1>8. Rest(r, l, a) = Cardinality(T)
  BY DEF Rest
<1> HIDE DEF T, w, A
<1>9. Rest(r, l, a) \in Nat /\ Rest(r, l, a) <= Size(r) - 1
  BY <1>4, <1>5, <1>8
<1> QED
  BY <1>1, <1>3, <1>6, <1>7, <1>9 DEF w

(* The value of the variable of l does not matter to the rest of a row. *)
LEMMA RestOfOthers ==
  ASSUME NEW n \in Nat, NEW r \in RowsOver(n), NEW l \in r.lits, Plain(r), NEW a, NEW b,
         \A v \in RowVars(r) : v # VarOf(l) => a[v] = b[v]
  PROVE  Rest(r, l, a) = Rest(r, l, b)
<1>1. r.lits \in SUBSET Literals(n)
  BY DEF RowsOver
<1>2. \A k \in r.lits \ {l} : VarOf(k) # VarOf(l) /\ VarOf(k) \in RowVars(r)
  BY <1>1, SameVar, LiteralFacts DEF Plain, RowVars
<1>3. TrueLits(Without(r, l), a) = TrueLits(Without(r, l), b)
  BY <1>2 DEF TrueLits, Without
<1> QED
  BY <1>3 DEF Rest

(* A row that is active in a stage with all rows plain and of degree 1 up. *)
LEMMA ParentRows ==
  ASSUME RowsInv, NEW v \in 1..vars, NEW i \in HasLit(v), NEW j \in HasLit(-v)
  PROVE  /\ clause[i] \in RowsOver(vars) /\ Plain(clause[i]) /\ v \in clause[i].lits
         /\ clause[j] \in RowsOver(vars) /\ Plain(clause[j]) /\ -v \in clause[j].lits
         /\ clause[i].degree \in Nat \ {0} /\ clause[j].degree \in Nat \ {0}
         /\ i \in Active /\ j \in Active /\ i # j
<1>1. i \in Active /\ j \in Active /\ v \in clause[i].lits /\ -v \in clause[j].lits
  BY DEF HasLit
<1>2. \A k \in Active : clause[k] \in RowsOver(vars) /\ Plain(clause[k]) /\ clause[k].degree >= 1
  BY ElementOfSeq DEF RowsInv, Active
<1>3. i # j
  BY <1>1, <1>2 DEF Plain
<1> QED
  BY <1>1, <1>2, <1>3 DEF RowsOver

(* The resolvent of two rows holds when the rest of the two have as many     *)
(* true literals as they need but for one; a tautology always does.          *)
LEMMA ResolventRow ==
  ASSUME RowsInv, NEW v \in 1..vars, NEW i \in HasLit(v), NEW j \in HasLit(-v), ~Blocked(v, i, j)
  PROVE  LET r == Resolvent(v, i, j)
         IN  /\ r \in RowsOver(vars) /\ r.degree >= 1
             /\ v \notin RowVars(r) /\ RowVars(r) \subseteq RowVars(clause[i]) \cup RowVars(clause[j])
             /\ ~Vacuous(v, i, j) => Plain(r)
             /\ \A a : Holds(r, a) <=> Rest(clause[i], v, a) + Rest(clause[j], -v, a) >= r.degree
             /\ \A a \in Total(vars) : Vacuous(v, i, j) => Holds(r, a)
<1> DEFINE r == Resolvent(v, i, j)
           A == clause[i].lits \ {v}
           B == clause[j].lits \ {-v}
<1>1. /\ clause[i] \in RowsOver(vars) /\ Plain(clause[i]) /\ v \in clause[i].lits
      /\ clause[j] \in RowsOver(vars) /\ Plain(clause[j]) /\ -v \in clause[j].lits
      /\ clause[i].degree \in Nat \ {0} /\ clause[j].degree \in Nat \ {0} /\ vars \in Nat
  BY ParentRows DEF RowsInv
<1>2. A \in SUBSET Literals(vars) /\ B \in SUBSET Literals(vars)
  BY <1>1 DEF RowsOver
<1>3. r.lits = A \cup B /\ r.degree = clause[i].degree + clause[j].degree - 1
  BY DEF Resolvent
<1>4. r \in RowsOver(vars) /\ r.degree >= 1
  BY <1>1, <1>2 DEF RowsOver, Resolvent
<1>5. v \in Literals(vars) /\ -v \in Literals(vars) /\ VarOf(v) = v /\ VarOf(-v) = v
  BY <1>1, VarLiteral
<1>6. /\ \A k \in A : VarOf(k) # v /\ VarOf(k) \in RowVars(clause[i])
      /\ \A k \in B : VarOf(k) # v /\ VarOf(k) \in RowVars(clause[j])
  <2>1. \A k \in clause[i].lits \cup clause[j].lits : k \in Literals(vars)
    BY <1>1 DEF RowsOver
  <2>2. ASSUME NEW k \in A PROVE VarOf(k) # v
    <3>0. k \in Literals(vars) /\ vars \in Nat
      BY <1>1, <2>1
    <3>1. VarOf(k) = v => k = v \/ k = -v
      BY <1>5, <3>0, SameVar
    <3>2. k # v /\ k # -v
      BY <1>1, <1>5 DEF Plain
    <3> QED BY <3>1, <3>2
  <2>3. ASSUME NEW k \in B PROVE VarOf(k) # v
    <3>0. k \in Literals(vars) /\ vars \in Nat
      BY <1>1, <2>1
    <3>1. VarOf(k) = v => k = v \/ k = -v
      BY <1>5, <3>0, SameVar
    <3>2. k # v
      <4>1. - -v = v
        BY <1>1
      <4> QED
        BY <1>1, <4>1 DEF Plain
    <3> QED BY <3>1, <3>2
  <2> QED
    BY <2>2, <2>3 DEF RowVars
<1>7. v \notin RowVars(r) /\ RowVars(r) \subseteq RowVars(clause[i]) \cup RowVars(clause[j])
  BY <1>3, <1>6 DEF RowVars
<1>8. ~TwoClauses(i, j) => \A k \in A, l \in B : VarOf(k) # VarOf(l)
  BY <1>6 DEF Blocked
<1>9. ASSUME ~Vacuous(v, i, j) PROVE Plain(r)
  <2>1. CASE TwoClauses(i, j)
    BY <1>9, <2>1 DEF Vacuous, Plain
  <2>2. CASE ~TwoClauses(i, j)
    <3> SUFFICES ASSUME NEW k \in A \cup B, -k \in A \cup B PROVE FALSE
      BY <1>3 DEF Plain
    <3>0. k \in Literals(vars) /\ vars \in Nat
      BY <1>1, <1>2
    <3>1. VarOf(-k) = VarOf(k) /\ - -k = k
      BY <3>0, LiteralFacts
    <3>2. (k \in A /\ -k \in A) \/ (k \in B /\ -k \in B)
      BY <1>8, <2>2, <3>1
    <3> QED
      BY <1>1, <3>2 DEF Plain
  <2> QED BY <2>1, <2>2
<1>10. ASSUME NEW a
       PROVE  Holds(r, a) <=> Rest(clause[i], v, a) + Rest(clause[j], -v, a) >= r.degree
  <2> DEFINE S == TrueLits(Without(clause[i], v), a)
             T == TrueLits(Without(clause[j], -v), a)
             x == Cardinality(S)
             y == Cardinality(T)
             z == Cardinality(TrueLits(r, a))
  <2>1. x = Rest(clause[i], v, a) /\ y = Rest(clause[j], -v, a)
    BY DEF Rest
  <2>2. IsFiniteSet(S) /\ IsFiniteSet(T) /\ x \in Nat /\ y \in Nat
    <3>1. Without(clause[i], v) \in RowsOver(vars) /\ Without(clause[j], -v) \in RowsOver(vars)
      BY <1>1, RestCounts
    <3> QED
      BY <1>1, <3>1, TrueLitsFinite
  <2>3. S \subseteq A /\ T \subseteq B /\ TrueLits(r, a) = S \cup T
    BY <1>3 DEF TrueLits, Without
  <2>4. IsFiniteSet(S \cup T) /\ z \in Nat
    BY <1>1, <1>4, <2>3, TrueLitsFinite
  <2>5. CASE TwoClauses(i, j)
    <3>1. r.degree = 1
      BY <1>3, <2>5 DEF TwoClauses, IsClause
    <3>2. (x = 0 <=> S = {}) /\ (y = 0 <=> T = {}) /\ (z = 0 <=> S \cup T = {})
      BY <2>2, <2>3, <2>4, FS_EmptySet
    <3> HIDE DEF x, y, z, S, T
    <3>3. z >= 1 <=> x + y >= 1
      BY <2>2, <2>4, <3>2
    <3> QED
      BY <2>1, <3>1, <3>3 DEF Holds, z
  <2>6. CASE ~TwoClauses(i, j)
    <3>1. S \cap T = {}
      BY <1>8, <2>3, <2>6
    <3> HIDE DEF S, T
    <3>2. Cardinality(S \cup T) = x + y
      BY <2>2, <3>1, DisjointCount
    <3> QED
      BY <2>1, <2>3, <3>2 DEF Holds
  <2> QED BY <2>5, <2>6
<1>11. ASSUME NEW a \in Total(vars), Vacuous(v, i, j) PROVE Holds(r, a)
  <2>1. PICK k \in r.lits : -k \in r.lits
    BY <1>11 DEF Vacuous
  <2>2. k \in TrueLits(r, a) \/ -k \in TrueLits(r, a)
    <3>1. k \in Literals(vars)
      BY <1>2, <1>3
    <3> QED
      BY <1>1, <2>1, <3>1, OneTrue DEF TrueLits
  <2>3. IsFiniteSet(TrueLits(r, a)) /\ Cardinality(TrueLits(r, a)) \in Nat
    BY <1>1, <1>4, TrueLitsFinite
  <2>4. Cardinality(TrueLits(r, a)) # 0
    BY <2>2, <2>3, FS_EmptySet
  <2>5. r.degree = 1
    BY <1>3, <1>11 DEF Vacuous, TwoClauses, IsClause
  <2> QED
    BY <2>3, <2>4, <2>5 DEF Holds
<1> QED
  BY <1>4, <1>7, <1>9, <1>10, <1>11

(* An assignment that satisfies two rows satisfies their resolvent. *)
LEMMA ResolventFollows ==
  ASSUME RowsInv, NEW v \in 1..vars, NEW i \in HasLit(v), NEW j \in HasLit(-v), ~Blocked(v, i, j),
         NEW a \in Total(vars), Holds(clause[i], a), Holds(clause[j], a)
  PROVE  Holds(Resolvent(v, i, j), a)
<1> DEFINE x == Rest(clause[i], v, a)
           y == Rest(clause[j], -v, a)
<1>1. /\ clause[i] \in RowsOver(vars) /\ v \in clause[i].lits
      /\ clause[j] \in RowsOver(vars) /\ -v \in clause[j].lits
      /\ vars \in Nat /\ clause[i].degree \in Int /\ clause[j].degree \in Int
  BY ParentRows DEF RowsInv
<1>2. /\ a[VarOf(v)] = pnsign(v) => x + 1 >= clause[i].degree
      /\ a[VarOf(v)] # pnsign(v) => x >= clause[i].degree
      /\ a[VarOf(-v)] = pnsign(-v) => y + 1 >= clause[j].degree
      /\ a[VarOf(-v)] # pnsign(-v) => y >= clause[j].degree
      /\ x \in Nat /\ y \in Nat
  BY <1>1, RestCounts
<1>3. a[VarOf(v)] = pnsign(v) <=> a[VarOf(-v)] # pnsign(-v)
  BY <1>1, VarLiteral, OneTrue
<1> HIDE DEF x, y
<1>4. x + y >= clause[i].degree + clause[j].degree - 1
  BY <1>1, <1>2, <1>3
<1>5. Holds(Resolvent(v, i, j), a) <=> x + y >= Resolvent(v, i, j).degree
  BY ResolventRow DEF x, y
<1> QED
  BY <1>4, <1>5 DEF Resolvent

(* An assignment that satisfies the resolvents satisfies the rows too, for   *)
(* one of the two values of the variable eliminated.                         *)
LEMMA ParentsRecovered ==
  ASSUME RowsInv, NEW v \in 1..vars, Eligible(v), NEW a \in Total(vars),
         \A i \in HasLit(v), j \in HasLit(-v) :
           ~Blocked(v, i, j) /\ Holds(Resolvent(v, i, j), a)
  PROVE  \E s \in {-1, 1} : \A i \in HasLit(v) \cup HasLit(-v) :
           \A b : (b[v] = s /\ \A w \in 1..vars : w # v => b[w] = a[w]) => Holds(clause[i], b)
<1> DEFINE x(i) == Rest(clause[i], v, a)
           y(j) == Rest(clause[j], -v, a)
           d(i) == clause[i].degree
<1>1. ASSUME NEW i \in HasLit(v), NEW j \in HasLit(-v)
      PROVE  /\ clause[i] \in RowsOver(vars) /\ Plain(clause[i]) /\ v \in clause[i].lits
             /\ clause[j] \in RowsOver(vars) /\ Plain(clause[j]) /\ -v \in clause[j].lits
             /\ d(i) \in Nat \ {0} /\ d(j) \in Nat \ {0}
             /\ x(i) \in Nat /\ y(j) \in Nat /\ Size(clause[i]) \in Nat /\ Size(clause[j]) \in Nat
             /\ x(i) <= Size(clause[i]) - 1 /\ y(j) <= Size(clause[j]) - 1
             /\ x(i) + y(j) >= d(i) + d(j) - 1
  <2>1. /\ clause[i] \in RowsOver(vars) /\ Plain(clause[i]) /\ v \in clause[i].lits
        /\ clause[j] \in RowsOver(vars) /\ Plain(clause[j]) /\ -v \in clause[j].lits
        /\ d(i) \in Nat \ {0} /\ d(j) \in Nat \ {0} /\ vars \in Nat
    BY ParentRows DEF RowsInv
  <2>2. /\ x(i) \in Nat /\ y(j) \in Nat /\ Size(clause[i]) \in Nat /\ Size(clause[j]) \in Nat
        /\ x(i) <= Size(clause[i]) - 1 /\ y(j) <= Size(clause[j]) - 1
    BY <2>1, RestCounts
  <2>3. x(i) + y(j) >= Resolvent(v, i, j).degree
    BY ResolventRow
  <2> QED
    BY <2>1, <2>2, <2>3 DEF Resolvent
<1>2. HasLit(v) # {} /\ HasLit(-v) # {}
  <2>1. Cardinality(HasLit(v)) # 0 /\ Cardinality(HasLit(-v)) # 0
    BY DEF Eligible, FewResolvents
  <2> QED
    BY <2>1, FS_EmptySet
<1>3. /\ (\A i \in HasLit(v) : d(i) = 1) \/ (\E j \in HasLit(-v) : d(j) >= Size(clause[j]) - 1)
      /\ (\A j \in HasLit(-v) : d(j) = 1) \/ (\E i \in HasLit(v) : d(i) >= Size(clause[i]) - 1)
  BY DEF Eligible, ResidualsImplied, IsClause, TightTail
<1> HIDE DEF x, y, d
<1>4. ASSUME NEW i \in HasLit(v) PROVE x(i) + 1 >= d(i)
  <2>1. CASE \A k \in HasLit(v) : d(k) = 1
    BY <1>1, <1>2, <2>1
  <2>2. ASSUME NEW j \in HasLit(-v), d(j) >= Size(clause[j]) - 1 PROVE x(i) + 1 >= d(i)
    BY <1>1, <2>2
  <2> QED BY <1>3, <2>1, <2>2
<1>5. ASSUME NEW j \in HasLit(-v) PROVE y(j) + 1 >= d(j)
  <2>1. CASE \A k \in HasLit(-v) : d(k) = 1
    BY <1>1, <1>2, <2>1
  <2>2. ASSUME NEW i \in HasLit(v), d(i) >= Size(clause[i]) - 1 PROVE y(j) + 1 >= d(j)
    BY <1>1, <2>2
  <2> QED BY <1>3, <2>1, <2>2
<1>6. VarOf(v) = v /\ VarOf(-v) = v /\ pnsign(v) = 1 /\ pnsign(-v) = -1 /\ vars \in Nat
  BY VarLiteral DEF RowsInv
<1>7. ASSUME NEW i \in HasLit(v), NEW b, \A w \in 1..vars : w # v => b[w] = a[w]
      PROVE  /\ b[v] = 1 => Holds(clause[i], b)
             /\ b[v] # 1 => (Holds(clause[i], b) <=> x(i) >= d(i))
  <2>0. /\ clause[i] \in RowsOver(vars) /\ Plain(clause[i]) /\ v \in clause[i].lits
    BY <1>1, <1>2
  <2>1. RowVars(clause[i]) \subseteq 1..vars
    BY <1>6, <2>0, LiteralFacts DEF RowVars, RowsOver
  <2>2. Rest(clause[i], v, b) = x(i)
    BY <1>6, <1>7, <2>0, <2>1, RestOfOthers DEF x
  <2>3. /\ b[v] = 1 => (Holds(clause[i], b) <=> x(i) + 1 >= d(i))
        /\ b[v] # 1 => (Holds(clause[i], b) <=> x(i) >= d(i))
    BY <1>6, <2>0, <2>2, RestCounts DEF d
  <2> QED
    BY <1>4, <2>3
<1>8. ASSUME NEW j \in HasLit(-v), NEW b, \A w \in 1..vars : w # v => b[w] = a[w]
      PROVE  /\ b[v] = -1 => Holds(clause[j], b)
             /\ b[v] # -1 => (Holds(clause[j], b) <=> y(j) >= d(j))
  <2>0. /\ clause[j] \in RowsOver(vars) /\ Plain(clause[j]) /\ -v \in clause[j].lits
    BY <1>1, <1>2
  <2>1. RowVars(clause[j]) \subseteq 1..vars
    BY <1>6, <2>0, LiteralFacts DEF RowVars, RowsOver
  <2>2. Rest(clause[j], -v, b) = y(j)
    BY <1>6, <1>8, <2>0, <2>1, RestOfOthers DEF y
  <2>3. /\ b[v] = -1 => (Holds(clause[j], b) <=> y(j) + 1 >= d(j))
        /\ b[v] # -1 => (Holds(clause[j], b) <=> y(j) >= d(j))
    BY <1>6, <2>0, <2>2, RestCounts DEF d
  <2> QED
    BY <1>5, <2>3
<1>9. CASE \A j \in HasLit(-v) : y(j) >= d(j)
  <2>1. \A i \in HasLit(v) \cup HasLit(-v) :
           \A b : (b[v] = 1 /\ \A w \in 1..vars : w # v => b[w] = a[w]) => Holds(clause[i], b)
    BY <1>7, <1>8, <1>9
  <2> QED BY <2>1
<1>10. ASSUME NEW j \in HasLit(-v), ~(y(j) >= d(j))
       PROVE  \A i \in HasLit(v) \cup HasLit(-v) :
           \A b : (b[v] = -1 /\ \A w \in 1..vars : w # v => b[w] = a[w]) => Holds(clause[i], b)
  <2>1. \A i \in HasLit(v) : x(i) >= d(i)
    <3> SUFFICES ASSUME NEW i \in HasLit(v) PROVE x(i) >= d(i)
      OBVIOUS
    <3>1. /\ d(i) \in Nat /\ d(j) \in Nat /\ x(i) \in Nat /\ y(j) \in Nat
          /\ x(i) + y(j) >= d(i) + d(j) - 1
      BY <1>1
    <3> QED
      BY <1>10, <3>1
  <2> QED
    BY <1>7, <1>8, <2>1
<1> QED
  BY <1>9, <1>10

(* The rows that replace those of an eliminated variable are the resolvents  *)
(* that are not tautologies.                                                 *)
LEMMA ResolventsList ==
  ASSUME RowsInv, NEW v \in 1..vars, Decisive(v) = {}
  PROVE  /\ Resolvents(v) \in Seq(RowsOver(vars))
         /\ \A i \in HasLit(v), j \in HasLit(-v) : ~Blocked(v, i, j) /\ ~Impossible(v, i, j)
         /\ \A k \in DOMAIN Resolvents(v) : \E i \in HasLit(v), j \in HasLit(-v) :
              ~Vacuous(v, i, j) /\ Resolvents(v)[k] = Resolvent(v, i, j)
         /\ \A i \in HasLit(v), j \in HasLit(-v) :
              ~Vacuous(v, i, j) => \E k \in DOMAIN Resolvents(v) : Resolvents(v)[k] = Resolvent(v, i, j)
<1> DEFINE n == Len(clause)
           P == HasLit(v)
           Q == HasLit(-v)
           kept == {p \in Parents(v) : ~Vacuous(v, p[1], p[2])}
           ps == InOrder(kept, Before)
<1>1. \A i \in P, j \in Q : ~Blocked(v, i, j) /\ ~Impossible(v, i, j)
  <2> SUFFICES ASSUME NEW i \in P, NEW j \in Q, Blocked(v, i, j) \/ Impossible(v, i, j) PROVE FALSE
    OBVIOUS
  <2>1. <<i, j>> \in Parents(v) /\ <<i, j>>[1] = i /\ <<i, j>>[2] = j
    BY DEF Parents
  <2>2. <<i, j>> \in Decisive(v)
    BY <2>1 DEF Decisive
  <2> QED BY <2>2
<1>2. n \in Nat /\ P \subseteq 1..n /\ Q \subseteq 1..n
  BY LenProperties DEF RowsInv, HasLit, Active
<1>3. kept \in SUBSET ((1..n) \X (1..n)) /\ kept \subseteq P \X Q
  BY <1>2 DEF Parents
<1>4. /\ DOMAIN ps = 1 .. Cardinality(kept) /\ ps \in Seq(kept) /\ Cardinality(kept) \in Nat
      /\ \A x \in kept : \E k \in DOMAIN ps : ps[k] = x
  BY <1>2, <1>3, PairsInOrder, Zenon
<1>5. Resolvents(v) = [k \in DOMAIN ps |-> Resolvent(v, ps[k][1], ps[k][2])]
  BY DEF Resolvents
<1>6. \A p \in kept : p[1] \in P /\ p[2] \in Q /\ ~Vacuous(v, p[1], p[2]) /\ p = <<p[1], p[2]>>
  BY <1>3
<1>6a. \A i \in P, j \in Q : ~Vacuous(v, i, j) => <<i, j>> \in kept
  BY DEF Parents
<1>6b. \A k \in DOMAIN ps : ps[k] \in kept
  BY <1>4, ElementOfSeq
<1> HIDE DEF kept, ps
<1>7. \A k \in DOMAIN ps : Resolvents(v)[k] \in RowsOver(vars)
  <2> SUFFICES ASSUME NEW k \in DOMAIN ps PROVE Resolvents(v)[k] \in RowsOver(vars)
    OBVIOUS
  <2>1. ps[k][1] \in P /\ ps[k][2] \in Q
    BY <1>6, <1>6b
  <2>2. Resolvent(v, ps[k][1], ps[k][2]) \in RowsOver(vars)
    BY <1>1, <2>1, ResolventRow
  <2> QED
    BY <1>5, <2>2
<1>8. Resolvents(v) \in [1..Cardinality(kept) -> RowsOver(vars)]
  BY <1>4, <1>5, <1>7
<1>9. Resolvents(v) \in Seq(RowsOver(vars)) /\ DOMAIN Resolvents(v) = DOMAIN ps
  BY <1>4, <1>8, SeqDef
<1>10. \A k \in DOMAIN ps : \E i \in P, j \in Q :
              ~Vacuous(v, i, j) /\ Resolvents(v)[k] = Resolvent(v, i, j)
  BY <1>5, <1>6, <1>6b
<1>11. ASSUME NEW i \in P, NEW j \in Q, ~Vacuous(v, i, j)
       PROVE  \E k \in DOMAIN ps : Resolvents(v)[k] = Resolvent(v, i, j)
  <2>1. PICK k \in DOMAIN ps : ps[k] = <<i, j>>
    BY <1>4, <1>6a, <1>11
  <2> QED
    BY <1>5, <2>1
<1> QED
  BY <1>1, <1>9, <1>10, <1>11

(* What is stored for an eliminated variable: its rows, under original       *)
(* names, and nothing else.                                                  *)
LEMMA StoredList ==
  ASSUME RowsInv, MapInv, NEW v \in 1..vars
  PROVE  /\ Stored(v) \in Seq([row : RowsOver(orivars), owner : 1 .. orivars])
         /\ \A k \in DOMAIN Stored(v) :
              /\ Stored(v)[k].owner = mapfrom[v]
              /\ \E i \in HasLit(v) \cup HasLit(-v) : CopyOf(Stored(v)[k].row, clause[i], mapfrom)
         /\ \A i \in HasLit(v) \cup HasLit(-v) :
              \E k \in DOMAIN Stored(v) : CopyOf(Stored(v)[k].row, clause[i], mapfrom)
<1> DEFINE n == Len(clause)
           P == HasLit(v)
           Q == HasLit(-v)
           s == InOrder(P, Smaller)
           t == InOrder(Q, Smaller)
           ids == s \o t
           S == [row : RowsOver(orivars), owner : 1 .. orivars]
<1>1. n \in Nat /\ P \subseteq 1..n /\ Q \subseteq 1..n /\ P \subseteq Active /\ Q \subseteq Active
  BY LenProperties DEF RowsInv, HasLit, Active
<1>2. /\ s \in Seq(P) /\ \A x \in P : \E k \in DOMAIN s : s[k] = x
      /\ t \in Seq(Q) /\ \A x \in Q : \E k \in DOMAIN t : t[k] = x
  BY <1>1, NumbersInOrder, Zenon
<1>3. ids \in Seq(P \cup Q)
  BY <1>2, SeqDef
<1>4. \A x \in P \cup Q : \E k \in DOMAIN ids : ids[k] = x
  <2>1. Len(s) \in Nat /\ Len(t) \in Nat /\ DOMAIN s = 1..Len(s) /\ DOMAIN t = 1..Len(t)
    BY <1>2, LenProperties
  <2> HIDE DEF s, t, P, Q
  <2>2. /\ Len(ids) = Len(s) + Len(t)
        /\ \A k \in 1..Len(ids) : ids[k] = IF k <= Len(s) THEN s[k] ELSE t[k - Len(s)]
    BY <1>2, ConcatProperties
  <2>3. DOMAIN ids = 1..Len(ids)
    BY <1>3, LenProperties
  <2>4. ASSUME NEW x \in P PROVE \E k \in DOMAIN ids : ids[k] = x
    <3>1. PICK k \in 1..Len(s) : s[k] = x
      BY <1>2, <2>1
    <3>2. k \in 1..Len(ids) /\ ids[k] = x
      BY <2>1, <2>2, <3>1
    <3> QED BY <2>3, <3>2
  <2>5. ASSUME NEW x \in Q PROVE \E k \in DOMAIN ids : ids[k] = x
    <3>1. PICK k \in 1..Len(t) : t[k] = x
      BY <1>2, <2>1
    <3>2. Len(s) + k \in 1..Len(ids) /\ ids[Len(s) + k] = t[k]
      BY <2>1, <2>2, <3>1
    <3> QED BY <2>3, <3>1, <3>2
  <2> QED BY <2>4, <2>5
<1>5. Stored(v) = [k \in DOMAIN ids |->
         [row |-> Recolor(clause[ids[k]], mapfrom), owner |-> mapfrom[v]]]
  BY DEF Stored
<1>6. Len(ids) \in Nat /\ DOMAIN ids = 1..Len(ids) /\ \A k \in DOMAIN ids : ids[k] \in P \cup Q
  BY <1>3, LenProperties, ElementOfSeq
<1> HIDE DEF ids, s, t
<1>7. ASSUME NEW i \in P \cup Q
      PROVE  /\ Recolor(clause[i], mapfrom) \in RowsOver(orivars)
             /\ CopyOf(Recolor(clause[i], mapfrom), clause[i], mapfrom)
  <2>1. clause[i] \in RowsOver(vars) /\ vars \in Nat /\ orivars \in Nat
    BY <1>1, PreprocessorAssumption, ElementOfSeq DEF RowsInv, Active
  <2>2. RowVars(clause[i]) \subseteq 1..vars
    BY <2>1, LiteralFacts DEF RowVars, RowsOver
  <2>3. mapfrom \in [1..vars -> 0..orivars] /\ \A w \in 1..vars : mapfrom[w] # 0
    BY <2>1 DEF MapInv
  <2>4. \A w, x \in RowVars(clause[i]) : mapfrom[w] = mapfrom[x] => w = x
    BY <2>2 DEF MapInv
  <2> QED
    BY <2>1, <2>2, <2>3, <2>4, RecolorRow
<1>8. mapfrom[v] \in 1..orivars
  BY DEF MapInv
<1>9. Stored(v) \in [1..Len(ids) -> S]
  BY <1>5, <1>6, <1>7, <1>8
<1>10. Stored(v) \in Seq(S) /\ DOMAIN Stored(v) = DOMAIN ids
  <2> DEFINE L == Len(ids)
             st == Stored(v)
  <2>1. L \in Nat /\ DOMAIN ids = 1..L /\ st \in [1..L -> S]
    BY <1>6, <1>9
  <2> HIDE DEF S, L, st
  <2>2. st \in Seq(S) /\ DOMAIN st = 1..L
    BY <2>1, SeqDef
  <2> QED
    BY <2>1, <2>2 DEF st
<1>11. \A k \in DOMAIN ids :
              /\ Stored(v)[k].owner = mapfrom[v]
              /\ \E i \in P \cup Q : CopyOf(Stored(v)[k].row, clause[i], mapfrom)
  BY <1>5, <1>6, <1>7
<1>12. ASSUME NEW i \in P \cup Q
       PROVE  \E k \in DOMAIN ids : CopyOf(Stored(v)[k].row, clause[i], mapfrom)
  <2>1. PICK k \in DOMAIN ids : ids[k] = i
    BY <1>4
  <2>2. Stored(v)[k].row = Recolor(clause[i], mapfrom)
    BY <1>5, <2>1
  <2> QED
    BY <1>7, <2>2
<1> QED
  BY <1>10, <1>11, <1>12

(* The rows after an elimination: those without the variable, unchanged, and *)
(* the resolvents of those with it.                                          *)
LEMMA EliminationRows ==
  ASSUME RowsInv, NEW v \in 1..vars, Decisive(v) = {},
         clause' = clause \o Resolvents(v),
         clause_delete' = clause_delete \cup HasLit(v) \cup HasLit(-v)
  PROVE  LET gone == HasLit(v) \cup HasLit(-v)
         IN  /\ clause' \in Seq(RowsOver(vars)) /\ clause_delete' \subseteq DOMAIN clause'
             /\ \A k \in Active' :
                  \/ k \in Active \ gone /\ clause'[k] = clause[k]
                  \/ \E i \in HasLit(v), j \in HasLit(-v) :
                       ~Vacuous(v, i, j) /\ clause'[k] = Resolvent(v, i, j)
             /\ \A k \in Active \ gone : k \in Active' /\ clause'[k] = clause[k]
             /\ \A i \in HasLit(v), j \in HasLit(-v) :
                  ~Vacuous(v, i, j) => \E k \in Active' : clause'[k] = Resolvent(v, i, j)
<1> DEFINE n == Len(clause)
           m == Len(Resolvents(v))
           gone == HasLit(v) \cup HasLit(-v)
<1>1. /\ Resolvents(v) \in Seq(RowsOver(vars))
      /\ \A k \in DOMAIN Resolvents(v) : \E i \in HasLit(v), j \in HasLit(-v) :
              ~Vacuous(v, i, j) /\ Resolvents(v)[k] = Resolvent(v, i, j)
      /\ \A i \in HasLit(v), j \in HasLit(-v) :
              ~Vacuous(v, i, j) => \E k \in DOMAIN Resolvents(v) : Resolvents(v)[k] = Resolvent(v, i, j)
  BY ResolventsList
<1>2. clause \in Seq(RowsOver(vars)) /\ clause_delete \subseteq DOMAIN clause /\ gone \subseteq Active
  BY DEF RowsInv, HasLit
<1>3. n \in Nat /\ m \in Nat /\ DOMAIN clause = 1..n /\ DOMAIN Resolvents(v) = 1..m
  BY <1>1, <1>2, LenProperties
<1>4. /\ clause' \in Seq(RowsOver(vars)) /\ DOMAIN clause' = 1..n + m
      /\ \A k \in 1..n + m : clause'[k] = IF k <= n THEN clause[k] ELSE Resolvents(v)[k - n]
  <2>1. /\ Len(clause') = n + m /\ clause' \in Seq(RowsOver(vars))
        /\ \A k \in 1..Len(clause') : clause'[k] = IF k <= n THEN clause[k] ELSE Resolvents(v)[k - n]
    BY <1>1, <1>2, ConcatProperties
  <2> QED
    BY <2>1, LenProperties
<1>5. Active = 1..n \ clause_delete /\ Active' = 1..n + m \ (clause_delete \cup gone)
  BY <1>3, <1>4 DEF Active
<1>6. clause_delete \subseteq 1..n /\ gone \subseteq 1..n
  BY <1>2, <1>3, <1>5
<1> HIDE DEF gone, n, m
<1>7. clause_delete' \subseteq DOMAIN clause'
  <2>1. 1..n \subseteq 1..n + m
    BY <1>3
  <2> QED
    BY <1>4, <1>6, <2>1 DEF gone
<1>8. ASSUME NEW k \in Active'
      PROVE  \/ k \in Active \ gone /\ clause'[k] = clause[k]
             \/ \E i \in HasLit(v), j \in HasLit(-v) :
                       ~Vacuous(v, i, j) /\ clause'[k] = Resolvent(v, i, j)
  <2>1. k \in 1..n + m /\ k \notin clause_delete /\ k \notin gone
    BY <1>5
  <2>2. CASE k <= n
    BY <1>3, <1>4, <1>5, <2>1, <2>2
  <2>3. CASE ~(k <= n)
    <3>1. k - n \in 1..m
      BY <1>3, <2>1, <2>3
    <3>2. clause'[k] = Resolvents(v)[k - n]
      BY <1>4, <2>1, <2>3
    <3> QED
      BY <1>1, <1>3, <3>1, <3>2
  <2> QED BY <2>2, <2>3
<1>9. \A k \in Active \ gone : k \in Active' /\ clause'[k] = clause[k]
  BY <1>3, <1>4, <1>5
<1>10. ASSUME NEW i \in HasLit(v), NEW j \in HasLit(-v), ~Vacuous(v, i, j)
       PROVE  \E k \in Active' : clause'[k] = Resolvent(v, i, j)
  <2>1. PICK k \in 1..m : Resolvents(v)[k] = Resolvent(v, i, j)
    BY <1>1, <1>3, <1>10
  <2>2. n + k \in 1..n + m /\ n + k \notin 1..n /\ clause'[n + k] = Resolvents(v)[k]
    BY <1>3, <1>4
  <2> QED
    BY <1>5, <1>6, <2>1, <2>2
<1> QED
  BY <1>4, <1>7, <1>8, <1>9, <1>10 DEF gone

-----------------------------------------------------------------------------
(* The steps of the pass keep its invariant. *)

(* Steps that leave every row, number and value alone. *)
LEMMA RowsAlone ==
  ASSUME UNCHANGED shared
  PROVE  /\ Active' = Active /\ ActiveRows' = ActiveRows /\ Used(ActiveRows)' = Used(ActiveRows)
         /\ \A l : HasLit(l)' = HasLit(l)
         /\ RowsInv => RowsInv'
BY DEF shared, Active, ActiveRows, Used, HasLit, RowsInv

(* A variable that is kept (resolution.cpp:190-286) changes only the list of *)
(* those looked at.                                                          *)
LEMMA ElimKeepVariable ==
  ASSUME ElimInv, KeepVariable, UNCHANGED binVars
  PROVE  ElimInv' /\ pc' = "eliminate"
<1>1. /\ pc = "eliminate" /\ pc' = pc /\ next' = next + 1
      /\ UNCHANGED <<shared, varval, resVars>>
  BY DEF KeepVariable, Trying
<1>2. RowsInv /\ StoredInv /\ MapInv /\ CleanInv /\ next \in Nat \ {0} /\ \A v \in clean : v < next
  BY <1>1 DEF ElimInv
<1>3. RowsInv' /\ Used(ActiveRows)' = Used(ActiveRows)
  BY <1>1, <1>2, RowsAlone
<1>4. StoredInv'
  BY <1>1, <1>2 DEF StoredInv, Eliminated, shared, resVars
<1>5. MapInv' /\ CleanInv'
  BY <1>1, <1>2, <1>3 DEF MapInv, CleanInv, shared, resVars, binVars
<1>6. next' \in Nat \ {0} /\ \A v \in clean' : v < next'
  <2>1. clean \subseteq 1..vars /\ vars \in Nat
    BY <1>2 DEF CleanInv, RowsInv
  <2> QED
    BY <1>1, <1>2, <2>1 DEF resVars
<1> QED
  BY <1>1, <1>3, <1>4, <1>5, <1>6 DEF ElimInv

(* The queue of the pure phase is filled once no variable is left to look    *)
(* at.                                                                       *)
LEMMA ElimStartPure ==
  ASSUME ElimInv, StartPure, UNCHANGED binVars
  PROVE  ElimInv' /\ pc' = "pure"
<1>1. /\ pc = "eliminate" /\ pc' = "pure" /\ next' = next
      /\ pure_queue' = pure_queue \cup {v \in 1 .. vars \ clean : OneSided(v)}
      /\ UNCHANGED <<shared, varval, res_clause, resolution, clean, changed>>
  BY DEF StartPure
<1>2. RowsInv /\ StoredInv /\ MapInv /\ CleanInv /\ next \in Nat \ {0}
  BY <1>1 DEF ElimInv
<1>3. RowsInv' /\ Used(ActiveRows)' = Used(ActiveRows) /\ \A l : HasLit(l)' = HasLit(l)
  BY <1>1, <1>2, RowsAlone
<1>4. StoredInv'
  BY <1>1, <1>2 DEF StoredInv, Eliminated, shared
<1>5. MapInv' /\ CleanInv'
  BY <1>1, <1>2, <1>3 DEF MapInv, CleanInv, shared, binVars
<1>6. \A v \in 1 .. vars' \ clean' : OneSided(v)' => v \in pure_queue'
  BY <1>1, <1>3 DEF OneSided, shared
<1> QED
  BY <1>1, <1>2, <1>3, <1>4, <1>5, <1>6 DEF ElimInv

(* A queued variable whose turn has passed, because it is dealt with or      *)
(* occurs both ways.                                                         *)
LEMMA ElimDropCandidate ==
  ASSUME ElimInv, DropCandidate, UNCHANGED binVars
  PROVE  ElimInv' /\ pc' = "pure"
<1>1. /\ pc = "pure" /\ pc' = "pure" /\ next' = next
      /\ UNCHANGED <<shared, varval, res_clause, resolution, clean, changed>>
  BY DEF DropCandidate
<1>2. PICK v \in pure_queue : (v \in clean \/ ~OneSided(v)) /\ pure_queue' = pure_queue \ {v}
  BY DEF DropCandidate
<1>3. /\ RowsInv /\ StoredInv /\ MapInv /\ CleanInv /\ next \in Nat \ {0}
      /\ \A w \in 1 .. vars \ clean : OneSided(w) => w \in pure_queue
  BY <1>1 DEF ElimInv
<1>4. RowsInv' /\ Used(ActiveRows)' = Used(ActiveRows) /\ \A l : HasLit(l)' = HasLit(l)
  BY <1>1, <1>3, RowsAlone
<1>5. StoredInv'
  BY <1>1, <1>3 DEF StoredInv, Eliminated, shared
<1>6. MapInv' /\ CleanInv'
  BY <1>1, <1>2, <1>3, <1>4 DEF MapInv, CleanInv, shared, binVars
<1>7. \A w \in 1 .. vars' \ clean' : OneSided(w)' => w \in pure_queue'
  BY <1>1, <1>2, <1>3, <1>4 DEF OneSided, shared
<1> QED
  BY <1>1, <1>3, <1>4, <1>5, <1>6, <1>7 DEF ElimInv

(* A row that is active, once propagation is over. *)
LEMMA ActiveRow ==
  ASSUME RowsInv, NEW i \in Active
  PROVE  /\ clause[i] \in RowsOver(vars) /\ Plain(clause[i]) /\ clause[i].degree \in Nat \ {0}
         /\ vars \in Nat /\ clause[i].lits \in SUBSET Literals(vars)
         /\ RowVars(clause[i]) \subseteq 1..vars
<1>1. clause[i] \in RowsOver(vars)
  <2>1. clause \in Seq(RowsOver(vars)) /\ i \in 1..Len(clause)
    BY LenProperties DEF RowsInv, Active
  <2> QED
    BY <2>1, ElementOfSeq
<1>2. clause[i].lits \in SUBSET Literals(vars) /\ vars \in Nat
  BY <1>1 DEF RowsOver, RowsInv
<1>3. RowVars(clause[i]) \subseteq 1..vars
  BY <1>2, LiteralFacts DEF RowVars
<1> QED
  BY <1>1, <1>2, <1>3 DEF RowsInv, RowsOver

(* A variable is in some row exactly if one of its literals is.              *)
LEMMA UsedLits ==
  ASSUME RowsInv
  PROVE  /\ Used(ActiveRows) \subseteq 1..vars
         /\ \A v \in 1..vars : v \in Used(ActiveRows) <=> HasLit(v) # {} \/ HasLit(-v) # {}
         /\ Used(ActiveRows) = UNION {RowVars(clause[i]) : i \in Active}
<1>1. Used(ActiveRows) = UNION {RowVars(clause[i]) : i \in Active}
  BY DEF Used, ActiveRows
<1>2. vars \in Nat /\ \A i \in Active : clause[i].lits \in SUBSET Literals(vars)
  BY ActiveRow DEF RowsInv
<1>3. \A l \in Literals(vars) : VarOf(l) \in 1..vars /\ (l = VarOf(l) \/ l = -VarOf(l))
  BY <1>2 DEF Literals, VarOf
<1>4. ASSUME NEW v \in 1..vars
      PROVE  v \in Used(ActiveRows) <=> HasLit(v) # {} \/ HasLit(-v) # {}
  <2>1. VarOf(v) = v /\ VarOf(-v) = v
    BY <1>2, VarLiteral
  <2>2. ASSUME v \in Used(ActiveRows) PROVE HasLit(v) # {} \/ HasLit(-v) # {}
    <3>1. PICK i \in Active : v \in RowVars(clause[i])
      BY <1>1, <2>2
    <3>2. PICK l \in clause[i].lits : v = VarOf(l)
      BY <3>1 DEF RowVars
    <3>3. l = v \/ l = -v
      BY <1>2, <1>3, <3>2
    <3> QED
      BY <3>2, <3>3 DEF HasLit
  <2>3. ASSUME HasLit(v) # {} \/ HasLit(-v) # {} PROVE v \in Used(ActiveRows)
    <3>1. PICK i \in Active : v \in clause[i].lits \/ -v \in clause[i].lits
      BY <2>3 DEF HasLit
    <3>2. v \in RowVars(clause[i])
      BY <2>1, <3>1 DEF RowVars
    <3> QED
      BY <1>1, <3>2
  <2> QED
    BY <2>2, <2>3
<1>5. Used(ActiveRows) \subseteq 1..vars
  BY <1>1, <1>2, <1>3 DEF RowVars
<1> QED
  BY <1>1, <1>4, <1>5

(* A queued variable without rows gets the value true                        *)
(* (resolution.cpp:302-305).                                                 *)
LEMMA ElimDropUnused ==
  ASSUME ElimInv, DropUnused, UNCHANGED binVars
  PROVE  ElimInv' /\ pc' = "pure"
<1>1. /\ pc = "pure" /\ pc' = "pure" /\ next' = next
      /\ UNCHANGED <<shared, varval, res_clause, resolution, changed>>
  BY DEF DropUnused
<1>2. PICK v \in pure_queue \ clean :
         /\ HasLit(v) = {} /\ HasLit(-v) = {}
         /\ pure_queue' = pure_queue \ {v} /\ clean' = clean \cup {v}
  BY DEF DropUnused
<1>3. /\ RowsInv /\ StoredInv /\ MapInv /\ CleanInv /\ next \in Nat \ {0}
      /\ \A w \in 1 .. vars \ clean : OneSided(w) => w \in pure_queue
  BY <1>1 DEF ElimInv
<1>4. RowsInv' /\ Used(ActiveRows)' = Used(ActiveRows) /\ \A l : HasLit(l)' = HasLit(l)
  BY <1>1, <1>3, RowsAlone
<1>5. v \in 1..vars /\ v \notin Used(ActiveRows)
  BY <1>2, <1>3, UsedLits DEF CleanInv
<1>6. StoredInv'
  BY <1>1, <1>3 DEF StoredInv, Eliminated, shared
<1>7. MapInv'
  BY <1>1, <1>2, <1>3 DEF MapInv, shared
<1>8. CleanInv'
  <2>1. changed
    BY <1>3, <1>5 DEF CleanInv
  <2>2. resolution' \in Seq(clean')
    BY <1>1, <1>2, <1>3, SeqMonotonic DEF CleanInv
  <2> QED
    BY <1>1, <1>2, <1>3, <1>4, <1>5, <2>1, <2>2 DEF CleanInv, shared, binVars
<1>9. \A w \in 1 .. vars' \ clean' : OneSided(w)' => w \in pure_queue'
  BY <1>1, <1>2, <1>3, <1>4 DEF OneSided, shared
<1> QED
  BY <1>1, <1>3, <1>4, <1>6, <1>7, <1>8, <1>9 DEF ElimInv

(* An elimination: numbering, rows, what is stored and whose variables count *)
(* as dealt with stay consistent (resolution.cpp:231-286).                   *)
LEMMA ElimEliminate ==
  ASSUME ElimInv, EliminateVariable, UNCHANGED binVars
  PROVE  ElimInv' /\ pc' = "eliminate"
<1> DEFINE v == next
           gone == HasLit(v) \cup HasLit(-v)
<1>1. /\ pc = "eliminate" /\ pc' = pc /\ v <= vars /\ Decisive(v) = {}
      /\ res_clause' = res_clause \o Stored(v)
      /\ clause' = clause \o Resolvents(v)
      /\ clause_delete' = clause_delete \cup gone
      /\ pure_queue' = pure_queue \cup Freed(gone)
      /\ resolution' = Append(resolution, v) /\ clean' = clean \cup {v} /\ changed' = TRUE
      /\ next' = next + 1
      /\ UNCHANGED <<input, vars, mapto, mapval, mapfrom, varval>>
  BY DEF EliminateVariable, Trying
<1>2. RowsInv /\ StoredInv /\ MapInv /\ CleanInv /\ next \in Nat \ {0} /\ \A w \in clean : w < next
  BY <1>1 DEF ElimInv
<1>3. vars \in Nat /\ v \in 1..vars /\ v \notin clean
  BY <1>1, <1>2 DEF RowsInv
<1>4. clause_delete' = clause_delete \cup HasLit(v) \cup HasLit(-v)
  BY <1>1
<1> HIDE DEF v
<1>5. /\ clause' \in Seq(RowsOver(vars)) /\ clause_delete' \subseteq DOMAIN clause'
      /\ \A k \in Active' :
           \/ k \in Active \ gone /\ clause'[k] = clause[k]
           \/ \E i \in HasLit(v), j \in HasLit(-v) :
                ~Vacuous(v, i, j) /\ clause'[k] = Resolvent(v, i, j)
  BY <1>1, <1>2, <1>3, <1>4, EliminationRows
<1>6. \A i \in HasLit(v), j \in HasLit(-v) : ~Blocked(v, i, j)
  BY <1>1, <1>2, <1>3, ResolventsList
<1>7. ASSUME NEW k \in Active'
      PROVE  /\ Plain(clause'[k]) /\ clause'[k].degree >= 1
             /\ v \notin RowVars(clause'[k]) /\ RowVars(clause'[k]) \subseteq Used(ActiveRows)
  <2>0. Used(ActiveRows) = UNION {RowVars(clause[i]) : i \in Active}
    BY <1>2, UsedLits
  <2>1. CASE k \in Active \ gone /\ clause'[k] = clause[k]
    <3>1. /\ Plain(clause[k]) /\ clause[k].degree \in Nat \ {0} /\ vars \in Nat
          /\ clause[k].lits \in SUBSET Literals(vars)
      BY <1>2, <2>1, ActiveRow
    <3>2. v \notin clause[k].lits /\ -v \notin clause[k].lits
      BY <2>1 DEF HasLit
    <3>3. v \notin RowVars(clause[k])
      BY <3>1, <3>2 DEF RowVars, Literals, VarOf
    <3> QED
      BY <2>0, <2>1, <3>1, <3>3
  <2>2. ASSUME NEW i \in HasLit(v), NEW j \in HasLit(-v), ~Vacuous(v, i, j),
               clause'[k] = Resolvent(v, i, j)
        PROVE  /\ Plain(clause'[k]) /\ clause'[k].degree >= 1
               /\ v \notin RowVars(clause'[k]) /\ RowVars(clause'[k]) \subseteq Used(ActiveRows)
    <3>1. LET r == Resolvent(v, i, j)
          IN  /\ r.degree >= 1 /\ Plain(r) /\ v \notin RowVars(r)
              /\ RowVars(r) \subseteq RowVars(clause[i]) \cup RowVars(clause[j])
      BY <1>2, <1>3, <1>6, <2>2, ResolventRow
    <3>2. i \in Active /\ j \in Active
      BY DEF HasLit
    <3> QED
      BY <2>0, <2>2, <3>1, <3>2
  <2> QED
    BY <1>5, <2>1, <2>2
<1>8. RowsInv'
  BY <1>1, <1>2, <1>5, <1>7 DEF RowsInv
<1>9. Used(ActiveRows)' \subseteq Used(ActiveRows) \ {v}
  <2>1. Used(ActiveRows)' = UNION {RowVars(clause'[k]) : k \in Active'}
    BY DEF Used, ActiveRows
  <2> QED
    BY <1>7, <2>1
<1>10. /\ resolution' \in Seq(clean') /\ Len(resolution') = Len(resolution) + 1
       /\ \A k \in 1..Len(resolution) : resolution'[k] = resolution[k]
       /\ resolution'[Len(resolution) + 1] = v
       /\ Len(resolution) \in Nat /\ DOMAIN resolution = 1..Len(resolution)
       /\ DOMAIN resolution' = 1..Len(resolution) + 1
  <2>1. resolution \in Seq(clean')
    BY <1>1, <1>2, SeqMonotonic DEF CleanInv
  <2>2. v \in clean'
    BY <1>1
  <2> QED
    BY <1>1, <2>1, <2>2, AppendProperties, LenProperties
<1>11. StoredInv'
  <2> DEFINE S == [row : RowsOver(orivars), owner : 1 .. orivars]
  <2>1. Eliminated = [k \in DOMAIN resolution |-> mapfrom[resolution[k]]]
    BY <1>1 DEF Eliminated
  <2>2. Eliminated' = [k \in DOMAIN resolution' |-> mapfrom[resolution'[k]]]
    BY <1>1 DEF Eliminated
  <2>3. /\ Stored(v) \in Seq(S) /\ \A k \in DOMAIN Stored(v) : Stored(v)[k].owner = mapfrom[v]
    BY <1>2, <1>3, StoredList
  <2>4. res_clause \in Seq(S) /\ \A d \in DOMAIN res_clause :
           \E k \in DOMAIN Eliminated : Eliminated[k] = res_clause[d].owner
    BY <1>2 DEF StoredInv
  <2> HIDE DEF S
  <2>5. /\ res_clause' \in Seq(S) /\ Len(res_clause') = Len(res_clause) + Len(Stored(v))
        /\ \A d \in 1..Len(res_clause') :
             res_clause'[d] = IF d <= Len(res_clause) THEN res_clause[d]
                              ELSE Stored(v)[d - Len(res_clause)]
    BY <1>1, <2>3, <2>4, ConcatProperties
  <2>6. /\ Len(res_clause) \in Nat /\ DOMAIN res_clause = 1..Len(res_clause)
        /\ Len(Stored(v)) \in Nat /\ DOMAIN Stored(v) = 1..Len(Stored(v))
        /\ DOMAIN res_clause' = 1..Len(res_clause')
    BY <2>3, <2>4, <2>5, LenProperties
  <2>7. ASSUME NEW d \in DOMAIN res_clause'
        PROVE  \E k \in DOMAIN Eliminated' : Eliminated'[k] = res_clause'[d].owner
    <3>1. CASE d <= Len(res_clause)
      <4>1. d \in DOMAIN res_clause /\ res_clause'[d] = res_clause[d]
        BY <2>5, <2>6, <3>1
      <4>2. PICK k \in DOMAIN Eliminated : Eliminated[k] = res_clause[d].owner
        BY <2>4, <4>1
      <4>3. k \in DOMAIN resolution' /\ Eliminated'[k] = Eliminated[k]
        BY <1>10, <2>1, <2>2, <4>2
      <4> QED
        BY <2>2, <4>1, <4>2, <4>3
    <3>2. CASE ~(d <= Len(res_clause))
      <4>1. d - Len(res_clause) \in 1..Len(Stored(v))
        BY <2>5, <2>6, <3>2
      <4>2. res_clause'[d] = Stored(v)[d - Len(res_clause)]
        BY <2>5, <2>6, <3>2
      <4>3. res_clause'[d].owner = mapfrom[v]
        BY <2>3, <2>6, <4>1, <4>2
      <4>4. Len(resolution) + 1 \in DOMAIN resolution'
        BY <1>10
      <4>5. Eliminated'[Len(resolution) + 1] = mapfrom[v]
        BY <1>10, <2>2, <4>4
      <4> QED
        BY <2>2, <4>3, <4>4, <4>5
    <3> QED BY <3>1, <3>2
  <2> QED
    BY <2>5, <2>7 DEF StoredInv, S
<1>12. MapInv'
  BY <1>1, <1>2 DEF MapInv
<1>13. CleanInv'
  <2>1. Freed(gone) \subseteq 1..vars
    <3>1. \A i \in gone : RowVars(clause[i]) \subseteq 1..vars
      BY <1>2, ActiveRow DEF HasLit
    <3> QED
      BY <3>1 DEF Freed
  <2>2. clean' \subseteq 1..vars /\ pure_queue' \subseteq 1..vars /\ clean' \cap Used(ActiveRows)' = {}
    BY <1>1, <1>2, <1>3, <1>9, <2>1 DEF CleanInv
  <2> QED
    BY <1>1, <1>2, <1>10, <2>2 DEF CleanInv, binVars
<1>14. next' \in Nat \ {0} /\ \A w \in clean' : w < next'
  <2>1. \A w \in clean : w \in Int
    BY <1>2 DEF CleanInv
  <2> QED
    BY <1>1, <1>2, <2>1 DEF v
<1> QED
  BY <1>1, <1>8, <1>11, <1>12, <1>13, <1>14 DEF ElimInv

(* Row i once its literal l is true. *)
Lessened(i, l) == [lits |-> clause[i].lits \ {l}, degree |-> clause[i].degree - 1]

(* A pure literal of v leaves its rows, which then need one literal less.    *)
LEMMA PureRows ==
  ASSUME ElimInv, AssignPure
  PROVE  \E v \in pure_queue \ clean, l \in Int :
           LET rows == HasLit(l)
               less(i) == Lessened(i, l)
               done == {i \in rows : clause[i].degree = 1}
           IN  /\ pc = "pure" /\ v \in 1..vars /\ l \in {v, -v} /\ l \in Literals(vars) /\ VarOf(l) = v
               /\ rows # {} /\ HasLit(-l) = {}
               /\ mapval' = [mapval EXCEPT ![mapfrom[v]] = pnsign(l)]
               /\ mapto' = [mapto EXCEPT ![mapfrom[v]] = 0]
               /\ clean' = clean \cup {v} /\ changed' = TRUE
               /\ clause_delete' = clause_delete \cup done
               /\ pure_queue' = (pure_queue \cup Freed(done)) \ {v}
               /\ clause' \in Seq(RowsOver(vars)) /\ DOMAIN clause' = DOMAIN clause
               /\ Active' = Active \ done
               /\ \A i \in rows : less(i) \in RowsOver(vars) /\ less(i).lits = clause[i].lits \ {l}
                                  /\ less(i).degree = clause[i].degree - 1
               /\ \A i \in Active' : clause'[i] = IF i \in rows THEN less(i) ELSE clause[i]
               /\ pc' = IF \E i \in rows : less(i).degree > Size(less(i)) THEN "unsat" ELSE "pure"
               /\ UNCHANGED <<input, vars, mapfrom, varval, next, res_clause, resolution>>
<1>1. pc = "pure" /\ RowsInv /\ CleanInv
  BY DEF AssignPure, ElimInv
<1>2. PICK v \in pure_queue \ clean :
        LET val == IF HasLit(v) # {} THEN 1 ELSE -1
            rows == HasLit(v * val)
            less(i) == [lits |-> clause[i].lits \ {v * val}, degree |-> clause[i].degree - 1]
            done == {i \in rows : less(i).degree = 0}
        IN  /\ OneSided(v) /\ rows # {}
            /\ mapval' = [mapval EXCEPT ![mapfrom[v]] = val]
            /\ mapto' = [mapto EXCEPT ![mapfrom[v]] = 0]
            /\ clean' = clean \cup {v}
            /\ clause' = [i \in DOMAIN clause |->
                            IF i \in done THEN [lits |-> {}, degree |-> 0]
                            ELSE IF i \in rows THEN less(i) ELSE clause[i]]
            /\ clause_delete' = clause_delete \cup done
            /\ pure_queue' = (pure_queue \cup Freed(done)) \ {v}
            /\ pc' = IF \E i \in rows : less(i).degree > Size(less(i)) THEN "unsat" ELSE pc
  BY DEF AssignPure
<1>3. changed' = TRUE /\ UNCHANGED <<input, vars, mapfrom, varval, next, res_clause, resolution>>
  BY DEF AssignPure
<1>4. v \in 1..vars /\ vars \in Nat
  BY <1>1, <1>2 DEF CleanInv, RowsInv
<1> DEFINE val == IF HasLit(v) # {} THEN 1 ELSE -1
           l == v * val
           rows == HasLit(l)
           less(i) == Lessened(i, l)
           done == {i \in rows : clause[i].degree = 1}
<1>5. /\ val \in {-1, 1} /\ l \in {v, -v}
      /\ l \in Literals(vars) /\ VarOf(l) = v /\ pnsign(l) = val
      /\ v \in Literals(vars) /\ -v \in Literals(vars) /\ VarOf(v) = v /\ VarOf(-v) = v
  <2>1. val \in {-1, 1}
    OBVIOUS
  <2>2. l = val * v /\ l \in {v, -v}
    BY <1>4
  <2> HIDE DEF val, l
  <2> QED
    BY <1>4, <2>1, <2>2, VarLiteral
<1>6. HasLit(-l) = {}
  <2>1. CASE HasLit(v) # {}
    <3>1. l = v
      BY <1>4, <2>1
    <3> QED
      BY <1>2, <2>1, <3>1 DEF OneSided
  <2>2. CASE HasLit(v) = {}
    <3>1. -l = v
      BY <1>4, <2>2
    <3> QED
      BY <2>2, <3>1
  <2> QED BY <2>1, <2>2
<1>7. rows \subseteq Active /\ \A i \in rows : l \in clause[i].lits
  BY DEF HasLit
<1>8. ASSUME NEW i \in rows
      PROVE  /\ less(i) = [lits |-> clause[i].lits \ {l}, degree |-> clause[i].degree - 1]
             /\ less(i) \in RowsOver(vars) /\ clause[i].degree \in Nat \ {0}
  <2>1. clause[i] \in RowsOver(vars) /\ clause[i].degree \in Nat \ {0}
    BY <1>1, <1>7, ActiveRow
  <2>2. less(i) = [lits |-> clause[i].lits \ {l}, degree |-> clause[i].degree - 1]
    BY <2>1 DEF Lessened, RowsOver
  <2> QED
    BY <2>1, <2>2 DEF RowsOver
<1>9. /\ rows # {}
      /\ mapval' = [mapval EXCEPT ![mapfrom[v]] = val]
      /\ mapto' = [mapto EXCEPT ![mapfrom[v]] = 0]
      /\ clean' = clean \cup {v}
  BY <1>2
<1>10. done = {i \in rows : [lits |-> clause[i].lits \ {l}, degree |-> clause[i].degree - 1].degree = 0}
  BY <1>8
<1>11. /\ clause' = [i \in DOMAIN clause |->
                            IF i \in done THEN [lits |-> {}, degree |-> 0]
                            ELSE IF i \in rows THEN less(i) ELSE clause[i]]
       /\ clause_delete' = clause_delete \cup done
       /\ pure_queue' = (pure_queue \cup Freed(done)) \ {v}
  BY <1>2, <1>8, <1>10
<1>12. pc' = IF \E i \in rows : less(i).degree > Size(less(i)) THEN "unsat" ELSE "pure"
  BY <1>1, <1>2, <1>8
<1> HIDE DEF l, rows, less, done
<1>13. clause' \in Seq(RowsOver(vars)) /\ DOMAIN clause' = DOMAIN clause
  <2>1. clause \in [1..Len(clause) -> RowsOver(vars)] /\ Len(clause) \in Nat
    BY <1>1, LenProperties DEF RowsInv
  <2>2. [lits |-> {}, degree |-> 0] \in RowsOver(vars)
    BY DEF RowsOver
  <2>3. clause' \in [1..Len(clause) -> RowsOver(vars)]
    BY <1>8, <1>11, <2>1, <2>2
  <2> QED
    BY <1>11, <2>1, <2>3, SeqDef
<1>14. Active' = Active \ done
  BY <1>11, <1>13 DEF Active
<1>15. \A i \in Active' : clause'[i] = IF i \in rows THEN less(i) ELSE clause[i]
  BY <1>11, <1>13, <1>14 DEF Active
<1>17. l \in Int
  BY <1>4, <1>5
<1>16. \A i \in rows : less(i) \in RowsOver(vars) /\ less(i).lits = clause[i].lits \ {l}
                       /\ less(i).degree = clause[i].degree - 1
  BY <1>8
<1> QED
  BY <1>1, <1>3, <1>4, <1>5, <1>6, <1>9, <1>11, <1>12, <1>13, <1>14, <1>15, <1>16, <1>17 DEF rows, less, done

(* A pure literal made true: its rows need one literal less and go when they *)
(* need none (resolution.cpp:306-340).                                       *)
LEMMA ElimAssignPure ==
  ASSUME ElimInv, AssignPure, UNCHANGED binVars
  PROVE  ElimInv' /\ pc' \in {"pure", "unsat"}
<1>1. PICK v \in pure_queue \ clean, l \in Int :
           LET rows == HasLit(l)
               less(i) == Lessened(i, l)
               done == {i \in rows : clause[i].degree = 1}
           IN  /\ pc = "pure" /\ v \in 1..vars /\ l \in {v, -v} /\ l \in Literals(vars) /\ VarOf(l) = v
               /\ rows # {} /\ HasLit(-l) = {}
               /\ mapval' = [mapval EXCEPT ![mapfrom[v]] = pnsign(l)]
               /\ mapto' = [mapto EXCEPT ![mapfrom[v]] = 0]
               /\ clean' = clean \cup {v} /\ changed' = TRUE
               /\ clause_delete' = clause_delete \cup done
               /\ pure_queue' = (pure_queue \cup Freed(done)) \ {v}
               /\ clause' \in Seq(RowsOver(vars)) /\ DOMAIN clause' = DOMAIN clause
               /\ Active' = Active \ done
               /\ \A i \in rows : less(i) \in RowsOver(vars) /\ less(i).lits = clause[i].lits \ {l}
                                  /\ less(i).degree = clause[i].degree - 1
               /\ \A i \in Active' : clause'[i] = IF i \in rows THEN less(i) ELSE clause[i]
               /\ pc' = IF \E i \in rows : less(i).degree > Size(less(i)) THEN "unsat" ELSE "pure"
               /\ UNCHANGED <<input, vars, mapfrom, varval, next, res_clause, resolution>>
  BY PureRows, Zenon
<1> DEFINE rows == HasLit(l)
           less(i) == Lessened(i, l)
           done == {i \in rows : clause[i].degree = 1}
<1>2. /\ RowsInv /\ StoredInv /\ MapInv /\ CleanInv /\ next \in Nat \ {0}
      /\ \A w \in 1 .. vars \ clean : OneSided(w) => w \in pure_queue
  BY <1>1 DEF ElimInv
<1>3. /\ vars \in Nat /\ v \in Int /\ done \subseteq rows /\ rows \subseteq Active
  BY <1>1, <1>2 DEF RowsInv, HasLit
<1>4. /\ \A i \in rows : less(i) \in RowsOver(vars) /\ less(i).lits = clause[i].lits \ {l}
                                  /\ less(i).degree = clause[i].degree - 1
      /\ \A i \in Active' : clause'[i] = IF i \in rows THEN less(i) ELSE clause[i]
      /\ Active' = Active \ done
      /\ pure_queue' = (pure_queue \cup Freed(done)) \ {v}
      /\ clause_delete' = clause_delete \cup done
  BY <1>1
<1> HIDE DEF less
<1>5. ASSUME NEW i \in Active'
      PROVE  /\ Plain(clause'[i]) /\ clause'[i].degree >= 1 /\ clause'[i].lits = clause[i].lits \ {l}
             /\ v \notin RowVars(clause'[i]) /\ RowVars(clause'[i]) \subseteq RowVars(clause[i])
  <2>1. /\ Plain(clause[i]) /\ clause[i].degree \in Nat \ {0} /\ clause[i].lits \in SUBSET Literals(vars)
        /\ i \in Active
    BY <1>2, <1>4, ActiveRow
  <2>2. clause'[i].degree >= 1 /\ clause'[i].lits = clause[i].lits \ {l}
    <3>1. CASE i \in rows
      <4>1. clause[i].degree # 1
        BY <1>4, <3>1
      <4>2. clause'[i].degree = clause[i].degree - 1 /\ clause'[i].lits = clause[i].lits \ {l}
        BY <1>4, <3>1
      <4> QED
        BY <2>1, <4>1, <4>2
    <3>2. CASE i \notin rows
      BY <1>4, <2>1, <3>2 DEF HasLit
    <3> QED BY <3>1, <3>2
  <2>3. Plain(clause'[i]) /\ RowVars(clause'[i]) \subseteq RowVars(clause[i])
    BY <2>1, <2>2 DEF Plain, RowVars
  <2>4. -l \notin clause[i].lits
    BY <1>1, <2>1 DEF HasLit
  <2>5. \A k \in clause'[i].lits : VarOf(k) # v
    <3> SUFFICES ASSUME NEW k \in clause'[i].lits, VarOf(k) = v PROVE FALSE
      OBVIOUS
    <3>1. k \in Literals(vars) /\ k # l /\ k # -l
      BY <2>1, <2>2, <2>4
    <3> QED
      BY <1>1, <1>3, <3>1, SameVar
  <2> QED
    BY <2>2, <2>3, <2>5 DEF RowVars
<1>6. RowsInv'
  <2>1. clause_delete' \subseteq DOMAIN clause'
    BY <1>1, <1>2, <1>3 DEF RowsInv, Active
  <2> QED
    BY <1>1, <1>2, <1>5, <2>1 DEF RowsInv
<1>7. Used(ActiveRows)' \subseteq Used(ActiveRows) \ {v}
  <2>1. Used(ActiveRows)' = UNION {RowVars(clause'[k]) : k \in Active'}
    BY DEF Used, ActiveRows
  <2>2. Used(ActiveRows) = UNION {RowVars(clause[k]) : k \in Active}
    BY DEF Used, ActiveRows
  <2> QED
    BY <1>4, <1>5, <2>1, <2>2
<1>8. ASSUME pc' # "unsat"
      PROVE  /\ StoredInv' /\ MapInv' /\ CleanInv' /\ next' \in Nat \ {0} /\ pc' # "eliminate"
             /\ \A w \in 1 .. vars' \ clean' : OneSided(w)' => w \in pure_queue'
  <2>1. pc' = "pure"
    BY <1>1, <1>8
  <2>2. StoredInv'
    BY <1>1, <1>2, <2>1 DEF StoredInv, Eliminated
  <2>3. MapInv'
    <3>1. mapfrom[v] \in 1..orivars /\ pnsign(l) \in {-1, 1} /\ 0 \in 0..vars
      BY <1>1, <1>2, <1>3, LiteralFacts DEF MapInv
    <3>2. mapto' \in [1 .. orivars -> 0 .. vars'] /\ mapval' \in Partial(orivars)
      BY <1>1, <1>2, <3>1 DEF MapInv, Partial
    <3>3. \A o \in 1 .. orivars :
             IF mapto'[o] = 0 THEN mapval'[o] # 0
             ELSE mapfrom'[mapto'[o]] = o /\ mapval'[o] = 0
      <4> SUFFICES ASSUME NEW o \in 1..orivars
                   PROVE  IF mapto'[o] = 0 THEN mapval'[o] # 0
                          ELSE mapfrom'[mapto'[o]] = o /\ mapval'[o] = 0
        OBVIOUS
      <4>1. CASE o = mapfrom[v]
        <5>1. mapto'[o] = 0 /\ mapval'[o] = pnsign(l)
          BY <1>1, <1>2, <4>1 DEF MapInv, Partial
        <5> QED
          BY <3>1, <5>1
      <4>2. CASE o # mapfrom[v]
        <5>1. mapto'[o] = mapto[o] /\ mapval'[o] = mapval[o] /\ mapfrom' = mapfrom
          BY <1>1, <1>2, <4>2 DEF MapInv, Partial
        <5> QED
          BY <1>2, <5>1 DEF MapInv
      <4> QED BY <4>1, <4>2
    <3>4. ASSUME NEW w \in 1..vars', w \notin clean' PROVE mapto'[mapfrom'[w]] = w
      <4>1. w \in 1..vars /\ w \notin clean /\ w # v /\ mapfrom' = mapfrom /\ mapfrom[w] \in 1..orivars
        BY <1>1, <1>2, <3>4 DEF MapInv
      <4>2. mapfrom[w] # mapfrom[v] /\ mapto[mapfrom[w]] = w
        BY <1>1, <1>2, <4>1 DEF MapInv
      <4> QED
        BY <1>1, <1>2, <4>1, <4>2 DEF MapInv
    <3>5. vars' = vars /\ mapfrom' = mapfrom
      BY <1>1
    <3>6. mapfrom' \in [1 .. vars' -> 1 .. orivars]
          /\ \A x, y \in 1 .. vars' : mapfrom'[x] = mapfrom'[y] => x = y
      BY <1>2, <3>5 DEF MapInv
    <3> QED
      BY <3>2, <3>3, <3>4, <3>6 DEF MapInv
  <2>4. Freed(done) \subseteq 1..vars
    <3>1. \A i \in done : RowVars(clause[i]) \subseteq 1..vars
      BY <1>2, <1>3, ActiveRow
    <3> QED
      BY <3>1 DEF Freed
  <2>5. CleanInv'
    <3>1. clean' \subseteq 1..vars /\ clean' \cap Used(ActiveRows)' = {} /\ pure_queue' \subseteq 1..vars
      BY <1>1, <1>2, <1>4, <1>7, <2>4 DEF CleanInv
    <3>2. resolution' \in Seq(clean')
      BY <1>1, <1>2, SeqMonotonic DEF CleanInv
    <3> QED
      BY <1>1, <1>2, <3>1, <3>2 DEF CleanInv, binVars
  <2>6. ASSUME NEW w \in 1 .. vars' \ clean', OneSided(w)' PROVE w \in pure_queue'
    <3>1. w \in 1..vars /\ w \notin clean /\ w # v
      BY <1>1, <2>6
    <3>2. CASE OneSided(w)
      BY <1>2, <1>4, <3>1, <3>2
    <3>3. CASE ~OneSided(w)
      <4>1. PICK k \in {w, -w} : HasLit(k)' = {} /\ HasLit(k) # {}
        BY <2>6, <3>3 DEF OneSided
      <4>2. PICK i \in Active : k \in clause[i].lits
        BY <4>1 DEF HasLit
      <4>3. k # l /\ VarOf(k) = w
        BY <1>1, <1>3, <3>1, VarLiteral
      <4>4. i \notin Active'
        BY <1>5, <4>1, <4>2, <4>3 DEF HasLit
      <4>5. i \in done
        BY <1>4, <4>4
      <4>6. w \in RowVars(clause[i])
        BY <4>2, <4>3 DEF RowVars
      <4> HIDE DEF done
      <4>7. w \in Freed(done)
        <5>1. w \in UNION {RowVars(clause[j]) : j \in done}
          BY <4>5, <4>6
        <5> QED
          BY <3>1, <5>1 DEF Freed
      <4> QED
        BY <1>4, <3>1, <4>7
    <3> QED BY <3>2, <3>3
  <2> QED
    BY <1>1, <1>2, <2>1, <2>2, <2>3, <2>5, <2>6
<1>9. pc' \in {"pure", "unsat"}
  BY <1>1
<1> QED
  BY <1>6, <1>8, <1>9 DEF ElimInv

-----------------------------------------------------------------------------
(* Into the binary pass. *)

(* Without classes a literal has its own value. *)
NoClasses == vars \in Nat /\ (pc = "binary" => rep = Roots(vars) /\ varval = Unassigned(vars))

OwnValues == \A l \in Literals(vars) : \A a : Value(l, a) = pnsign(l) * a[VarOf(l)]

(* Before classes are merged, find and val say nothing. *)
LEMMA OwnValue == NoClasses => OwnValues
<1> SUFFICES ASSUME NoClasses, NEW l \in Literals(vars), NEW a
             PROVE  Value(l, a) = pnsign(l) * a[VarOf(l)]
  BY DEF OwnValues
<1> USE DEF NoClasses
<1>1. CASE pc # "binary"
  BY <1>1 DEF Value
<1>2. CASE pc = "binary"
  <2> DEFINE u == [rep |-> rep, varval |-> varval]
  <2>1. VarOf(l) \in 1..vars /\ pnsign(l) \in {-1, 1} /\ l = VarOf(l) * pnsign(l) /\ VarOf(l) \in Nat
    BY LiteralFacts
  <2>2. rep[VarOf(l)] = VarOf(l) /\ varval[VarOf(l)] = 0
    BY <1>2, <2>1 DEF Roots, Unassigned
  <2>3. u.rep = rep /\ u.varval = varval
    OBVIOUS
  <2> HIDE DEF u
  <2>4. RootLit(u, l) = pnsign(l) * VarOf(l)
    BY <2>2, <2>3 DEF RootLit
  <2>5. RootLit(u, l) = l
    BY <2>1, <2>4
  <2>6. RootValue(u, l) = 0
    BY <2>1, <2>2, <2>3, <2>5 DEF RootValue
  <2> QED
    BY <1>2, <2>5, <2>6 DEF Value, u
<1> QED BY <1>1, <1>2

(* What the passes make of an assignment of the rows' variables.             *)
Completion(a) == GetCompleteModel(res_clause, Eliminated, Copied(a))

(* When no variable is in a class, none of the elimination's invariants is   *)
(* lost by entering the binary pass.                                         *)
NoClassYet == vars \in Nat /\ rep = Roots(vars) /\ varval = Unassigned(vars) /\ RowsInv

ClassesFine == WellFormed(Classes) /\ Untouched(Classes) /\ RowsNameFreeRoots

(* The classes with which the binary pass starts: every variable its own     *)
(* root, without value (binary.cpp:215-222).                                 *)
LEMMA EnterClasses == NoClassYet => ClassesFine
<1> SUFFICES ASSUME NoClassYet PROVE ClassesFine
  OBVIOUS
<1> USE DEF NoClassYet, ClassesFine
<1>1. Classes.rep = Roots(vars) /\ Classes.varval = Unassigned(vars)
  BY DEF Classes
<1>2. \A v \in 1..vars : v \in Literals(vars) /\ VarOf(v) = v
  BY VarLiteral
<1>3. \A v \in 1..vars : Classes.rep[v] = v /\ Classes.varval[v] = 0 /\ Root(Classes, v) = v
  BY <1>1, <1>2 DEF Roots, Unassigned, Root
<1>4. Classes.rep \in [1 .. vars -> Literals(vars)] /\ Classes.varval \in Partial(vars)
  BY <1>1, <1>2 DEF Roots, Unassigned, Partial
<1>5. Used(ActiveRows) \subseteq 1..vars /\ in_cardinality \subseteq Used(ActiveRows)
  BY UsedLits DEF in_cardinality, Used
<1> QED
  BY <1>1, <1>3, <1>4, <1>5 DEF WellFormed, Untouched, RowsNameFreeRoots, Classes

(* An elimination pass that changed nothing leaves without renumbering       *)
(* (resolution.cpp:352-358).                                                 *)
LEMMA EnterUnchanged ==
  ASSUME ElimInv, FinishUnchanged, rep' = Roots(vars'),
         UNCHANGED <<turn, turn_changed, any_changed>>
  PROVE  /\ pc' = "binary" /\ BinInv'
         /\ Models(vars, ActiveRows)' = Models(vars, ActiveRows)
         /\ \A b \in Models(vars, ActiveRows) : Completion(b)' = Completion(b)
<1>1. /\ pc = "pure" /\ pc' = "binary" /\ pure_queue = {} /\ ~changed
      /\ UNCHANGED <<shared, varval, next, resVars>>
  BY DEF FinishUnchanged, PureDone
<1>2. /\ RowsInv /\ StoredInv /\ MapInv /\ CleanInv
      /\ \A v \in 1 .. vars \ clean : OneSided(v) => v \in pure_queue
  BY <1>1 DEF ElimInv
<1>3. /\ RowsInv' /\ ActiveRows' = ActiveRows /\ \A l : HasLit(l)' = HasLit(l)
      /\ vars' = vars /\ vars \in Nat /\ mapto' = mapto /\ mapval' = mapval /\ mapfrom' = mapfrom
      /\ res_clause' = res_clause /\ resolution' = resolution /\ varval' = varval
  BY <1>1, <1>2, RowsAlone DEF shared, resVars, RowsInv
<1>4. clean = {} /\ res_clause = <<>> /\ varval = Unassigned(vars) /\ turn = 0 /\ ~any_changed
  BY <1>1, <1>2 DEF CleanInv
<1>5. resolution = <<>>
  <2>1. resolution \in Seq({})
    BY <1>2, <1>4 DEF CleanInv
  <2>2. resolution \in [1..Len(resolution) -> {}] /\ Len(resolution) \in Nat
    BY <2>1, LenProperties
  <2>3. ~(1 \in 1..Len(resolution))
    BY <2>2
  <2> QED
    BY <2>1, <2>2, <2>3, EmptySeq
<1>6. Eliminated = <<>> /\ Eliminated' = <<>>
  BY <1>1, <1>3, <1>5 DEF Eliminated
<1>7. WellFormed(Classes)' /\ Untouched(Classes)' /\ RowsNameFreeRoots'
  <2>1. NoClassYet'
    BY <1>3, <1>4 DEF NoClassYet
  <2>2. ClassesFine'
    BY <2>1, EnterClasses, PTL
  <2> QED
    BY <2>2 DEF ClassesFine
<1>8. NoPureLeft'
  BY <1>1, <1>2, <1>3, <1>4 DEF NoPureLeft, OneSided
<1>9. BinInv'
  <2>1. StoredInv'
    BY <1>2, <1>3, <1>6 DEF StoredInv
  <2>2. resolution' \in Seq(1..orivars)
    BY <1>3, <1>5, EmptySeq
  <2>3. mapto' \in [1 .. orivars -> 0 .. vars']
        /\ \A o \in 1 .. orivars : mapto'[o] = 0 => mapval'[o] \in {-1, 1}
    BY <1>2, <1>3 DEF MapInv, Partial
  <2>4. turn' \in Nat /\ rep' = Roots(vars') /\ varval' = Unassigned(vars')
    BY <1>3, <1>4
  <2> QED
    BY <1>3, <1>7, <1>8, <2>1, <2>2, <2>3, <2>4 DEF BinInv
<1>10. Models(vars, ActiveRows)' = Models(vars, ActiveRows)
  BY <1>3 DEF Models
<1>11. ASSUME NEW b \in Models(vars, ActiveRows) PROVE Completion(b)' = Completion(b)
  <2>1. \A l \in Literals(vars) : Value(l, b) = pnsign(l) * b[VarOf(l)]
    BY <1>1, <1>3, OwnValue DEF NoClasses, OwnValues
  <2>2. ASSUME NEW l \in Literals(vars) PROVE Value(l, b)' = pnsign(l) * b[VarOf(l)]
    <3>1. NoClasses'
      BY <1>3, <1>4 DEF NoClasses
    <3>2. OwnValues'
      BY <3>1, OwnValue, PTL
    <3>3. l \in Literals(vars')
      BY <1>3
    <3> QED
      BY <3>2, <3>3 DEF OwnValues
  <2>3. \A o \in 1..orivars : mapto[o] # 0 => mapto[o] \in Literals(vars)
    BY <1>2, <1>3, VarLiteral DEF MapInv
  <2>4. Copied(b)' = [o \in 1 .. orivars |->
     IF \E k \in DOMAIN Eliminated' : Eliminated'[k] = o THEN -10
     ELSE IF mapto'[o] # 0 THEN Value(mapto[o], b)' ELSE mapval'[o]]
    BY <1>3 DEF Copied
  <2>5. Copied(b)' = Copied(b)
    BY <1>3, <1>6, <2>1, <2>2, <2>3 DEF Copied
  <2> QED
    BY <1>3, <1>6, <2>5 DEF Completion
<1> QED
  BY <1>1, <1>9, <1>10, <1>11

(* Satisfying assignments before and after a renumbering: a gives 1 to the   *)
(* variables no row names, b has the values of a under the new numbers.      *)
LEMMA RelabelledModels ==
  ASSUME RowsInv, UpdateVarClauseLabel
  PROVE  LET c == color(ActiveRows, vars)
         IN  /\ \A b \in Models(vars, ActiveRows)' :
                  [w \in 1..vars |-> IF c[w] # 0 THEN b[c[w]] ELSE 1] \in Models(vars, ActiveRows)
             /\ Models(vars, ActiveRows) # {} => Models(vars, ActiveRows)' # {}
<1> DEFINE c == color(ActiveRows, vars)
           U == Used(ActiveRows)
<1>1. /\ vars \in Nat /\ DOMAIN clause = 1..Len(clause) /\ Len(clause) \in Nat
      /\ \A i \in Active : clause[i] \in RowsOver(vars) /\ RowVars(clause[i]) \subseteq U
                           /\ RowVars(clause[i]) \subseteq 1..vars
  BY LenProperties, ActiveRow, UsedLits DEF RowsInv
<1>2. /\ c \in [1..vars -> 0..vars'] /\ vars' \in Nat
      /\ \A v \in 1..vars : c[v] # 0 <=> v \in U
      /\ \A v, w \in U : c[v] = c[w] => v = w
      /\ \A k \in 1..vars' : \E v \in U : c[v] = k
      /\ U \subseteq 1..vars
  BY <1>1, Relabelled
<1>3. /\ \A k \in Active' : \E i \in Active : CopyOf(clause'[k], clause[i], c)
      /\ \A i \in Active : \E k \in Active' : CopyOf(clause'[k], clause[i], c)
  BY <1>1, RelabelledRows
<1> HIDE DEF c, U
<1>4. ASSUME NEW b \in Models(vars, ActiveRows)'
      PROVE  [w \in 1..vars |-> IF c[w] # 0 THEN b[c[w]] ELSE 1] \in Models(vars, ActiveRows)
  <2> DEFINE a == [w \in 1..vars |-> IF c[w] # 0 THEN b[c[w]] ELSE 1]
  <2>1. b \in [1..vars' -> {-1, 1}] /\ \A k \in Active' : Holds(clause'[k], b)
    BY DEF Models, ActiveRows
  <2>2. a \in [1..vars -> {-1, 1}]
    <3> SUFFICES ASSUME NEW w \in 1..vars PROVE (IF c[w] # 0 THEN b[c[w]] ELSE 1) \in {-1, 1}
      OBVIOUS
    <3>1. c[w] # 0 => c[w] \in 1..vars'
      BY <1>2
    <3> QED BY <2>1, <3>1
  <2>3. \A v \in U : b[c[v]] = a[v]
    BY <1>2
  <2> HIDE DEF a
  <2>4. ASSUME NEW i \in Active PROVE Holds(clause[i], a)
    <3>1. PICK k \in Active' : CopyOf(clause'[k], clause[i], c)
      BY <1>3
    <3>2. \A v \in RowVars(clause[i]) : b[c[v]] = a[v]
      BY <1>1, <2>3
    <3> QED
      BY <2>1, <3>1, <3>2 DEF CopyOf
  <2>5. a \in Models(vars, ActiveRows)
    BY <2>2, <2>4 DEF Models, ActiveRows
  <2> QED
    BY <2>5 DEF a
<1>5. ASSUME NEW a \in Models(vars, ActiveRows) PROVE Models(vars, ActiveRows)' # {}
  <2> DEFINE from(k) == CHOOSE v \in U : c[v] = k
             b == [k \in 1..vars' |-> a[from(k)]]
  <2>1. a \in [1..vars -> {-1, 1}] /\ \A i \in Active : Holds(clause[i], a)
    BY DEF Models, ActiveRows
  <2>2. ASSUME NEW v \in U PROVE c[v] \in 1..vars' /\ from(c[v]) = v
    <3>1. c[v] \in 0..vars' /\ c[v] # 0
      BY <1>2
    <3>2. c[v] \in 1..vars'
      BY <1>2, <3>1
    <3>3. from(c[v]) \in U /\ c[from(c[v])] = c[v]
      OBVIOUS
    <3> HIDE DEF from
    <3> QED
      BY <1>2, <3>2, <3>3
  <2>3. \A k \in 1..vars' : from(k) \in U
    BY <1>2
  <2> HIDE DEF from
  <2>4. b \in [1..vars' -> {-1, 1}]
    BY <1>2, <2>1, <2>3
  <2>5. \A v \in U : b[c[v]] = a[v]
    BY <2>2
  <2> HIDE DEF b
  <2>6. ASSUME NEW k \in Active' PROVE Holds(clause'[k], b)
    <3>1. PICK i \in Active : CopyOf(clause'[k], clause[i], c)
      BY <1>3
    <3>2. \A v \in RowVars(clause[i]) : b[c[v]] = a[v]
      BY <1>1, <2>5
    <3> QED
      BY <2>1, <3>1, <3>2 DEF CopyOf
  <2>7. b \in Models(vars, ActiveRows)'
    BY <2>4, <2>6 DEF Models, ActiveRows
  <2> QED BY <2>7
<1> QED
  BY <1>4, <1>5 DEF c

(* The renumbering after elimination: the models of the rows left complete   *)
(* to what models before complete to, and none is lost for good              *)
(* (resolution.cpp:359-373).                                                 *)
LEMMA EnterResolved ==
  ASSUME ElimInv, FinishResolution, rep' = Roots(vars'),
         UNCHANGED <<turn, turn_changed, any_changed>>
  PROVE  /\ pc' = "binary" /\ BinInv'
         /\ \A b \in Models(vars, ActiveRows)' : \E a \in Models(vars, ActiveRows) :
              Completion(b)' = Completion(a)
         /\ Models(vars, ActiveRows) # {} => Models(vars, ActiveRows)' # {}
<1> DEFINE c == color(ActiveRows, vars)
           U == Used(ActiveRows)
           gone == {mapfrom[resolution[k]] : k \in DOMAIN resolution}
           label(o) == IF mapto[o] = 0 \/ o \in gone THEN 0 ELSE c[mapto[o]]
           value(o) == IF o \in gone THEN -10 ELSE mapval[o]
<1>1. /\ pc = "pure" /\ pc' = "binary" /\ pure_queue = {} /\ UpdateVarClauseLabel
      /\ mapto' = [o \in 1 .. orivars |-> label(o)]
      /\ mapval' = [o \in 1 .. orivars |->
                      IF label(o) = 0 /\ value(o) = 0 THEN 1 ELSE value(o)]
      /\ resolution' = [k \in DOMAIN resolution |-> mapfrom[resolution[k]]]
      /\ varval' = Unassigned(vars')
      /\ UNCHANGED <<input, mapfrom, next, res_clause>>
  BY DEF FinishResolution, PureDone
<1>2. /\ RowsInv /\ StoredInv /\ MapInv /\ CleanInv
      /\ \A v \in 1 .. vars \ clean : OneSided(v) => v \in pure_queue
  BY <1>1 DEF ElimInv
<1>3. /\ vars \in Nat /\ DOMAIN clause = 1..Len(clause) /\ Len(clause) \in Nat
      /\ \A i \in Active : clause[i] \in RowsOver(vars) /\ RowVars(clause[i]) \subseteq U
                           /\ Plain(clause[i]) /\ clause[i].degree >= 1
  BY <1>2, LenProperties, ActiveRow, UsedLits DEF RowsInv
<1>4. /\ c \in [1..vars -> 0..vars'] /\ vars' \in Nat
      /\ \A v \in 1..vars : c[v] # 0 <=> v \in U
      /\ \A v, w \in U : c[v] = c[w] => v = w
      /\ \A k \in 1..vars' : \E v \in U : c[v] = k
      /\ U \subseteq 1..vars
  BY <1>1, <1>3, Relabelled
<1>5. /\ clause' \in Seq(RowsOver(vars')) /\ clause_delete' = {} /\ Active' = DOMAIN clause'
      /\ \A k \in Active' : \E i \in Active : CopyOf(clause'[k], clause[i], c)
      /\ \A i \in Active : \E k \in Active' : CopyOf(clause'[k], clause[i], c)
  BY <1>1, <1>3, RelabelledRows
<1>6. /\ \A b \in Models(vars, ActiveRows)' :
              [w \in 1..vars |-> IF c[w] # 0 THEN b[c[w]] ELSE 1] \in Models(vars, ActiveRows)
      /\ Models(vars, ActiveRows) # {} => Models(vars, ActiveRows)' # {}
  BY <1>1, <1>2, RelabelledModels
<1> HIDE DEF c, U
<1>7. RowsInv'
  <2>1. \A k \in Active' : Plain(clause'[k]) /\ clause'[k].degree >= 1
    <3> SUFFICES ASSUME NEW k \in Active' PROVE Plain(clause'[k]) /\ clause'[k].degree >= 1
      OBVIOUS
    <3>1. PICK i \in Active : CopyOf(clause'[k], clause[i], c)
      BY <1>5
    <3> QED
      BY <1>3, <3>1 DEF CopyOf
  <2> QED
    BY <1>1, <1>2, <1>4, <1>5, <2>1 DEF RowsInv
<1>8. Eliminated' = Eliminated
  BY <1>1 DEF Eliminated
<1>9. resolution' \in Seq(1..orivars)
  <2>1. /\ resolution \in [1..Len(resolution) -> clean] /\ Len(resolution) \in Nat
        /\ DOMAIN resolution = 1..Len(resolution)
    BY <1>2, LenProperties DEF CleanInv
  <2>2. \A v \in clean : mapfrom[v] \in 1..orivars
    BY <1>2 DEF CleanInv, MapInv
  <2>3. resolution' \in [1..Len(resolution) -> 1..orivars]
    BY <1>1, <2>1, <2>2
  <2> QED
    BY <2>1, <2>3, SeqDef
<1>10. StoredInv'
  BY <1>1, <1>2, <1>8 DEF StoredInv
<1>11. \A o : o \in gone <=> \E k \in DOMAIN resolution' : resolution'[k] = o
  BY <1>1
<1>11a. \A o \in 1..orivars : mapto[o] = 0 => mapval[o] \in {-1, 1}
  BY <1>2 DEF MapInv, Partial
<1>12. /\ mapto' \in [1 .. orivars -> 0 .. vars']
       /\ \A o \in 1 .. orivars :
            mapto'[o] = 0 => mapval'[o] \in {-1, 1} \/ \E k \in DOMAIN resolution' : resolution'[k] = o
  <2>1. \A o \in 1..orivars : mapto[o] \in 0..vars /\ mapval[o] \in {-1, 0, 1}
    BY <1>2 DEF MapInv, Partial
  <2>2. \A o \in 1..orivars : label(o) \in 0..vars'
    <3> SUFFICES ASSUME NEW o \in 1..orivars, mapto[o] # 0, o \notin gone
                 PROVE  c[mapto[o]] \in 0..vars'
      BY <1>4
    <3>1. mapto[o] \in 1..vars
      BY <1>3, <2>1
    <3> QED
      BY <1>4, <3>1
  <2>3. \A o \in 1..orivars : mapto'[o] = label(o)
          /\ mapval'[o] = IF label(o) = 0 /\ value(o) = 0 THEN 1 ELSE value(o)
    BY <1>1
  <2>4. mapto' \in [1 .. orivars -> 0 .. vars']
    BY <1>1, <2>2
  <2>5. ASSUME NEW o \in 1..orivars, mapto'[o] = 0, o \notin gone
        PROVE  mapval'[o] \in {-1, 1}
    BY <2>1, <2>3, <2>5
  <2> QED
    BY <1>11, <2>4, <2>5
<1>13. WellFormed(Classes)' /\ Untouched(Classes)' /\ RowsNameFreeRoots'
  <2>1. NoClassYet'
    BY <1>1, <1>4, <1>7 DEF NoClassYet
  <2>2. ClassesFine'
    BY <2>1, EnterClasses, PTL
  <2> QED
    BY <2>2 DEF ClassesFine
<1>14. NoPureLeft'
  <2> SUFFICES ASSUME NEW k \in 1..vars' PROVE HasLit(k)' # {} /\ HasLit(-k)' # {}
    BY DEF NoPureLeft
  <2>1. PICK v \in U : c[v] = k
    BY <1>4
  <2>2. v \in 1..vars /\ v \notin clean
    BY <1>2, <1>4 DEF CleanInv, U
  <2>3. HasLit(v) # {} /\ HasLit(-v) # {}
    BY <1>1, <1>2, <2>2 DEF OneSided
  <2>4. VarOf(v) = v /\ VarOf(-v) = v /\ pnsign(v) = 1 /\ pnsign(-v) = -1
    BY <1>3, <2>2, VarLiteral
  <2>5. ASSUME NEW i \in Active, NEW l \in {v, -v}, l \in clause[i].lits
        PROVE  HasLit(k * pnsign(l))' # {}
    <3>1. PICK j \in Active' : CopyOf(clause'[j], clause[i], c)
      BY <1>5
    <3>2. k * pnsign(l) \in clause'[j].lits
      BY <2>1, <2>4, <2>5, <3>1 DEF CopyOf
    <3> QED
      BY <3>2 DEF HasLit
  <2>6. HasLit(k * pnsign(v))' # {} /\ HasLit(k * pnsign(-v))' # {}
    BY <2>3, <2>5 DEF HasLit
  <2>7. k * pnsign(v) = k /\ k * pnsign(-v) = -k
    BY <2>4
  <2> QED
    BY <2>6, <2>7
<1>15. turn' = 0 /\ ~any_changed' /\ rep' = Roots(vars') /\ varval' = Unassigned(vars')
  BY <1>1, <1>2 DEF CleanInv
<1>16. BinInv'
  BY <1>7, <1>9, <1>10, <1>12, <1>13, <1>14, <1>15 DEF BinInv
<1>17. ASSUME NEW b \in Models(vars, ActiveRows)'
       PROVE  Completion(b)' = Completion([w \in 1..vars |-> IF c[w] # 0 THEN b[c[w]] ELSE 1])
  <2> DEFINE a == [w \in 1..vars |-> IF c[w] # 0 THEN b[c[w]] ELSE 1]
  <2>1. OwnValues
    BY <1>1, <1>3, OwnValue DEF NoClasses
  <2>2. OwnValues'
    <3>1. NoClasses'
      BY <1>4, <1>15 DEF NoClasses
    <3> QED
      BY <3>1, OwnValue, PTL
  <2>3. b \in [1..vars' -> {-1, 1}]
    BY DEF Models
  <2>4. \A k \in 1..vars' : Value(k, b)' = b[k]
    <3> SUFFICES ASSUME NEW k \in 1..vars' PROVE Value(k, b)' = b[k]
      OBVIOUS
    <3>1. k \in Literals(vars') /\ VarOf(k) = k /\ pnsign(k) = 1
      BY <1>4, VarLiteral
    <3>2. Value(k, b)' = 1 * b[k]
      BY <2>2, <3>1 DEF OwnValues
    <3> QED
      BY <2>3, <3>2
  <2>5. ASSUME NEW w \in 1..vars PROVE Value(w, a) = IF c[w] # 0 THEN b[c[w]] ELSE 1
    <3>1. w \in Literals(vars) /\ VarOf(w) = w /\ pnsign(w) = 1
      BY <1>3, VarLiteral
    <3>2. Value(w, a) = 1 * a[w]
      BY <2>1, <3>1 DEF OwnValues
    <3>3. a[w] = (IF c[w] # 0 THEN b[c[w]] ELSE 1) /\ a[w] \in {-1, 1}
      <4>1. c[w] # 0 => c[w] \in 1..vars'
        BY <1>4
      <4> QED
        BY <2>3, <4>1
    <3> QED
      BY <3>2, <3>3
  <2> HIDE DEF a
  <2>6. \A o : (\E k \in DOMAIN Eliminated : Eliminated[k] = o) <=> o \in gone
    BY <1>1 DEF Eliminated
  <2>7. Copied(b)' = [o \in 1 .. orivars |->
          IF \E k \in DOMAIN Eliminated : Eliminated[k] = o THEN -10
          ELSE IF mapto'[o] # 0 THEN Value(mapto[o], b)' ELSE mapval'[o]]
    BY <1>8 DEF Copied
  <2>8. ASSUME NEW o \in 1..orivars, o \notin gone
        PROVE  (IF mapto'[o] # 0 THEN Value(mapto[o], b)' ELSE mapval'[o])
                 = IF mapto[o] # 0 THEN Value(mapto[o], a) ELSE mapval[o]
    <3>1. /\ mapto'[o] = IF mapto[o] = 0 THEN 0 ELSE c[mapto[o]]
          /\ mapval'[o] = IF mapto'[o] = 0 /\ mapval[o] = 0 THEN 1 ELSE mapval[o]
          /\ mapto[o] = 0 => mapval[o] # 0
          /\ mapto[o] # 0 => mapto[o] \in 1..vars /\ mapval[o] = 0
      BY <1>1, <1>2, <1>3, <2>8 DEF MapInv
    <3>2. CASE mapto[o] = 0
      BY <3>1, <3>2
    <3>3. CASE mapto[o] # 0
      <4>1. Value(mapto[o], a) = IF c[mapto[o]] # 0 THEN b[c[mapto[o]]] ELSE 1
        BY <2>5, <3>1, <3>3
      <4>2. CASE c[mapto[o]] = 0
        BY <3>1, <3>3, <4>1, <4>2
      <4>3. CASE c[mapto[o]] # 0
        <5>1. mapto'[o] = c[mapto[o]] /\ mapto'[o] # 0 /\ mapto'[o] \in 1..vars'
          BY <1>4, <1>12, <3>1, <3>3, <4>3
        <5>2. Value(mapto[o], b)' = b[mapto'[o]]
          BY <2>4, <5>1
        <5> QED
          BY <3>3, <4>1, <4>3, <5>1, <5>2
      <4> QED BY <4>2, <4>3
    <3> QED BY <3>2, <3>3
  <2>9. Copied(b)' = Copied(a)
    <3>1. Copied(a) = [o \in 1 .. orivars |->
            IF \E k \in DOMAIN Eliminated : Eliminated[k] = o THEN -10
            ELSE IF mapto[o] # 0 THEN Value(mapto[o], a) ELSE mapval[o]]
      BY DEF Copied
    <3> HIDE DEF gone
    <3> QED
      BY <2>6, <2>7, <2>8, <3>1
  <2> QED
    BY <1>1, <1>8, <2>9 DEF Completion, a
<1> QED
  BY <1>1, <1>6, <1>16, <1>17 DEF c

-----------------------------------------------------------------------------
(* Recovery. *)

(* The states of the recovery: values of the original variables, stored rows *)
(* not used yet, and whether it has succeeded so far.                        *)
Values == Partial(orivars)
Recovery(n) == [values : Values, last : 0 .. n, ok : BOOLEAN]

(* Recovering a variable gives values, and uses up stored rows. *)
LEMMA RecoverOneType ==
  ASSUME NEW stored, NEW n \in Nat, NEW r \in Recovery(n), NEW v \in 1..orivars
  PROVE  RecoverOne(stored, r, v) \in Recovery(n)
<1> DEFINE group == Group(stored, v, r.last)
           fits(val) == SatisfiedWith(stored, group, r.values, v, val)
<1>1. r.values \in Values /\ r.last \in Nat /\ r.last <= n /\ r.ok \in BOOLEAN
  BY DEF Recovery
<1>2. group \subseteq 1..r.last
  BY DEF Group
<1>3. Cardinality(group) \in Nat /\ Cardinality(group) <= r.last
  <2>1. IsFiniteSet(1..r.last) /\ Cardinality(1..r.last) = r.last
    <3> DEFINE k == r.last
    <3>1. k \in Nat
      BY <1>1
    <3> HIDE DEF k
    <3>2. 1 \in Int /\ k \in Int
      BY <3>1
    <3>3. IsFiniteSet(1..k) /\ Cardinality(1..k) = IF 1 > k THEN 0 ELSE k - 1 + 1
      BY <3>2, FS_Interval
    <3>4. (IF 1 > k THEN 0 ELSE k - 1 + 1) = k
      BY <3>1
    <3> QED
      BY <3>3, <3>4 DEF k
  <2> HIDE DEF group
  <2> QED
    BY <1>2, <2>1, FS_Subset, FS_CardinalityType
<1>4. RecoverOne(stored, r, v) =
        [values |-> IF fits(1) THEN [r.values EXCEPT ![v] = 1]
                    ELSE IF fits(-1) THEN [r.values EXCEPT ![v] = -1] ELSE r.values,
         last |-> r.last - Cardinality(group),
         ok |-> r.ok /\ group # {} /\ (fits(1) \/ fits(-1))]
  BY DEF RecoverOne
<1> HIDE DEF group, fits
<1>5. r.last - Cardinality(group) \in 0..n
  BY <1>1, <1>3
<1>6. (IF fits(1) THEN [r.values EXCEPT ![v] = 1]
       ELSE IF fits(-1) THEN [r.values EXCEPT ![v] = -1] ELSE r.values) \in Values
  BY <1>1 DEF Values, Partial
<1> QED
  BY <1>1, <1>4, <1>5, <1>6 DEF Recovery

(* Rows stored later do not matter to a group that ends before them. *)
LEMMA RecoverOneEarlier ==
  ASSUME NEW S, NEW stored \in Seq(S), NEW new \in Seq(S),
         NEW r \in Recovery(Len(stored)), NEW v
  PROVE  RecoverOne(stored \o new, r, v) = RecoverOne(stored, r, v)
<1>1. Len(stored) \in Nat /\ r.last \in Nat /\ r.last <= Len(stored)
  BY LenProperties DEF Recovery
<1>2. \A d \in 1..r.last : (stored \o new)[d] = stored[d]
  <2>1. Len(new) \in Nat
    BY LenProperties
  <2> QED
    BY <1>1, <2>1, ConcatProperties
<1>3. Group(stored \o new, v, r.last) = Group(stored, v, r.last)
  <2>1. \A c \in 1..r.last : \A d \in c..r.last : d \in 1..r.last
    BY <1>1
  <2> QED
    BY <1>2, <2>1 DEF Group
<1>4. Group(stored, v, r.last) \subseteq 1..r.last
  BY DEF Group
<1>5. \A val : SatisfiedWith(stored \o new, Group(stored, v, r.last), r.values, v, val)
                 <=> SatisfiedWith(stored, Group(stored, v, r.last), r.values, v, val)
  BY <1>2, <1>4 DEF SatisfiedWith
<1> QED
  BY <1>3, <1>5 DEF RecoverOne

(* The recursion of Recovered, step by step. *)
Recovers(g, stored, order, m) ==
  /\ g \in [0 .. Len(order) -> Recovery(Len(stored))]
  /\ g[0] = [values |-> m, last |-> Len(stored), ok |-> TRUE]
  /\ \A k \in 1 .. Len(order) : g[k] = RecoverOne(stored, g[k - 1], order[Len(order) + 1 - k])

(* Recovered is an iteration: one variable after the other, from the one     *)
(* eliminated last.                                                          *)
LEMMA RecoveredSteps ==
  ASSUME NEW stored, Len(stored) \in Nat, NEW order \in Seq(1..orivars), NEW m \in Values
  PROVE  \E g : Recovers(g, stored, order, m) /\ Recovered(stored, order, m) = g[Len(order)]
<1> DEFINE n == Len(order)
           L == Len(stored)
           X == Recovery(L)
           x0 == [values |-> m, last |-> L, ok |-> TRUE]
           step(x, k) == RecoverOne(stored, x, order[n + 1 - k])
           F == [k \in Nat |-> [x \in X |-> IF k \in 1..n THEN step(x, k) ELSE x]]
           Body(h, k) == IF k = 0 THEN x0 ELSE step(h[k - 1], k)
<1>1. n \in Nat /\ \A k \in 1..n : order[n + 1 - k] \in 1..orivars
  <2>1. n \in Nat
    BY LenProperties
  <2>2. \A k \in 1..n : n + 1 - k \in 1..n
    BY <2>1
  <2> QED
    BY <2>1, <2>2, ElementOfSeq
<1>2. x0 \in X
  BY DEF Recovery
<1>3. \A x \in X, k \in 1..n : step(x, k) \in X
  BY <1>1, RecoverOneType
<1> HIDE DEF step, X, x0
<1>4. F \in [Nat -> [X -> X]] /\ \A k \in 1..n : \A x \in X : F[k][x] = step(x, k)
  BY <1>1, <1>3
<1> HIDE DEF F
<1>5. PICK g : Iterates(g, X, x0, F)
  BY <1>2, <1>4, NatRecursionExists
<1>6. g \in [Nat -> X] /\ g[0] = x0 /\ \A k \in Nat : g[k + 1] = F[k + 1][g[k]]
  BY <1>5 DEF Iterates
<1> DEFINE h == [k \in 0..n |-> g[k]]
<1>7. \A k \in 1..n : h[k] = step(h[k - 1], k)
  <2> SUFFICES ASSUME NEW k \in 1..n PROVE g[k] = step(g[k - 1], k)
    BY <1>1
  <2>1. k - 1 \in Nat /\ (k - 1) + 1 = k
    BY <1>1
  <2>2. g[k] = F[k][g[k - 1]] /\ g[k - 1] \in X
    BY <1>6, <2>1
  <2> QED
    BY <1>4, <2>2
<1>8. h = [k \in 0..n |-> Body(h, k)]
  <2> SUFFICES ASSUME NEW k \in 0..n PROVE h[k] = Body(h, k)
    OBVIOUS
  <2>1. CASE k = 0
    BY <1>6, <2>1
  <2>2. CASE k # 0
    <3>1. k \in 1..n
      BY <1>1, <2>2
    <3> QED
      BY <1>7, <2>2, <3>1
  <2> QED BY <2>1, <2>2
<1> DEFINE p == CHOOSE p : p = [k \in 0..n |-> Body(p, k)]
<1>9. Recovered(stored, order, m) = p[n]
  BY DEF Recovered, step, x0
<1>10. p = [k \in 0..n |-> Body(p, k)]
  BY <1>8
<1> HIDE DEF p, h
<1>11. p[0] = x0 /\ \A k \in 1..n : p[k] = step(p[k - 1], k)
  BY <1>1, <1>10
<1> DEFINE T == {k \in Nat : k <= n => p[k] = h[k]}
<1>12. h[0] = x0
  BY <1>1, <1>6 DEF h
<1>13. 0 \in T
  BY <1>11, <1>12
<1>14. ASSUME NEW k \in Nat, k \in T PROVE k + 1 \in T
  <2> SUFFICES ASSUME k + 1 <= n PROVE p[k + 1] = h[k + 1]
    OBVIOUS
  <2>1. k + 1 \in 1..n /\ (k + 1) - 1 = k /\ k <= n
    BY <1>1
  <2>2. p[k + 1] = step(p[k], k + 1) /\ h[k + 1] = step(h[k], k + 1) /\ p[k] = h[k]
    BY <1>7, <1>11, <1>14, <2>1
  <2> QED
    BY <2>2
<1> HIDE DEF T
<1>15. Nat \subseteq T
  BY <1>13, <1>14, NatInductionSet
<1>16. p[n] = h[n]
  BY <1>1, <1>15 DEF T
<1>17. h \in [0..n -> X]
  BY <1>6 DEF h
<1>18. Recovers(h, stored, order, m)
  BY <1>7, <1>12, <1>17 DEF Recovers, X, x0, step
<1> QED
  BY <1>9, <1>16, <1>18

(* Recovering a variable eliminated last, and then the ones before it.       *)
LEMMA RecoveredLast ==
  ASSUME NEW S, NEW stored \in Seq(S), NEW new \in Seq(S),
         NEW order \in Seq(1..orivars), NEW v \in 1..orivars, NEW m \in Values, NEW m1 \in Values,
         RecoverOne(stored \o new, [values |-> m, last |-> Len(stored \o new), ok |-> TRUE], v)
           = [values |-> m1, last |-> Len(stored), ok |-> TRUE]
  PROVE  Recovered(stored \o new, Append(order, v), m) = Recovered(stored, order, m1)
<1> DEFINE n == Len(order)
           all == stored \o new
           longer == Append(order, v)
<1>1. /\ Len(stored) \in Nat /\ Len(new) \in Nat /\ Len(all) = Len(stored) + Len(new)
      /\ n \in Nat
  BY LenProperties, ConcatProperties
<1>2. /\ longer \in Seq(1..orivars) /\ Len(longer) = n + 1
      /\ \A i \in 1..n : longer[i] = order[i]
      /\ longer[n + 1] = v
  BY AppendProperties
<1> HIDE DEF all, longer, n
<1>2a. Len(all) \in Nat
  BY <1>1
<1>3. PICK g : Recovers(g, all, longer, m) /\ Recovered(all, longer, m) = g[Len(longer)]
  BY <1>2, <1>2a, RecoveredSteps
<1>4. PICK h : Recovers(h, stored, order, m1) /\ Recovered(stored, order, m1) = h[Len(order)]
  BY <1>1, RecoveredSteps
<1>5. /\ g[0] = [values |-> m, last |-> Len(all), ok |-> TRUE]
      /\ \A k \in 1..n + 1 : g[k] = RecoverOne(all, g[k - 1], longer[n + 2 - k])
  <2>1. \A k \in 1..n + 1 : n + 1 + 1 - k = n + 2 - k
    BY <1>1
  <2>2. \A k \in 1..n + 1 : g[k] = RecoverOne(all, g[k - 1], longer[n + 1 + 1 - k])
    BY <1>2, <1>3 DEF Recovers
  <2> QED
    BY <1>3, <2>1, <2>2 DEF Recovers
<1>6. /\ h \in [0..n -> Recovery(Len(stored))]
      /\ h[0] = [values |-> m1, last |-> Len(stored), ok |-> TRUE]
      /\ \A k \in 1..n : h[k] = RecoverOne(stored, h[k - 1], order[n + 1 - k])
  BY <1>4 DEF Recovers, n
<1> DEFINE T == {k \in Nat : k <= n => g[k + 1] = h[k]}
<1>7. 0 \in T
  <2>1. 1 \in 1..n + 1 /\ 1 - 1 = 0 /\ n + 2 - 1 = n + 1 /\ 0 + 1 = 1
    BY <1>1
  <2>2. g[1] = RecoverOne(all, g[0], v)
    BY <1>2, <1>5, <2>1
  <2> QED
    BY <1>5, <1>6, <2>1, <2>2 DEF all
<1>8. ASSUME NEW k \in Nat, k \in T PROVE k + 1 \in T
  <2> SUFFICES ASSUME k + 1 <= n PROVE g[(k + 1) + 1] = h[k + 1]
    OBVIOUS
  <2>1. /\ (k + 1) + 1 \in 1..n + 1 /\ ((k + 1) + 1) - 1 = k + 1 /\ n + 2 - ((k + 1) + 1) = n - k
        /\ k + 1 \in 1..n /\ (k + 1) - 1 = k /\ n + 1 - (k + 1) = n - k /\ n - k \in 1..n
        /\ k \in 0..n /\ k <= n
    BY <1>1
  <2>2. g[(k + 1) + 1] = RecoverOne(all, g[k + 1], longer[n - k])
    BY <1>5, <2>1
  <2>3. h[k + 1] = RecoverOne(stored, h[k], order[n - k]) /\ h[k] \in Recovery(Len(stored))
    BY <1>6, <2>1
  <2>4. g[k + 1] = h[k] /\ longer[n - k] = order[n - k]
    BY <1>2, <1>8, <2>1
  <2>5. RecoverOne(all, h[k], order[n - k]) = RecoverOne(stored, h[k], order[n - k])
    BY <2>3, RecoverOneEarlier DEF all
  <2> QED
    BY <2>2, <2>3, <2>4, <2>5
<1> HIDE DEF T
<1>9. Nat \subseteq T
  BY <1>7, <1>8, NatInductionSet
<1>10. g[n + 1] = h[n]
  BY <1>1, <1>9 DEF T
<1> QED
  BY <1>2, <1>3, <1>4, <1>10 DEF all, longer, n

-----------------------------------------------------------------------------
(* The steps of the pass carry the satisfying assignments. *)

(* A set of natural numbers has a smallest element. *)
LEMMA SmallestOf ==
  ASSUME NEW S \in SUBSET Nat, S # {}
  PROVE  \E x \in S : \A y \in S : x <= y
<1> SUFFICES ASSUME \A x \in S : \E y \in S : y < x PROVE FALSE
  OBVIOUS
<1> DEFINE T == {n \in Nat : \A y \in S : n < y}
<1>1. 0 \in T
  OBVIOUS
<1>2. \A n \in Nat : n \in T => n + 1 \in T
  <2> SUFFICES ASSUME NEW n \in T, NEW y \in S PROVE n + 1 < y
    OBVIOUS
  <2>1. PICK z \in S : z < y
    OBVIOUS
  <2> QED
    BY <2>1
<1> HIDE DEF T
<1>3. Nat \subseteq T
  BY <1>1, <1>2, NatInductionSet
<1>4. PICK y \in S : TRUE
  OBVIOUS
<1>5. y \in Nat /\ y \in T
  BY <1>3
<1> QED
  BY <1>5 DEF T

(* Whether a row holds depends on its own variables. *)
LEMMA SameHolds ==
  ASSUME NEW r, NEW a, NEW b, \A v \in RowVars(r) : a[v] = b[v]
  PROVE  Holds(r, a) <=> Holds(r, b)
<1>1. TrueLits(r, a) = TrueLits(r, b)
  BY DEF TrueLits, RowVars
<1> QED
  BY <1>1 DEF Holds

(* Copied, while variables are eliminated and fixed. *)
LEMMA ElimCopied ==
  ASSUME ElimInv, pc \in {"eliminate", "pure"}, NEW a \in Total(vars)
  PROVE  /\ Copied(a) = [o \in 1..orivars |->
              IF \E k \in DOMAIN Eliminated : Eliminated[k] = o THEN -10
              ELSE IF mapto[o] # 0 THEN a[mapto[o]] ELSE mapval[o]]
         /\ \A o \in 1..orivars : mapto[o] # 0 => mapto[o] \in 1..vars
         /\ Eliminated = [k \in DOMAIN resolution |-> mapfrom[resolution[k]]]
<1>1. RowsInv /\ MapInv
  BY DEF ElimInv
<1>2. \A o \in 1..orivars : mapto[o] # 0 => mapto[o] \in 1..vars
  BY <1>1 DEF MapInv, RowsInv
<1>3. \A l \in 1..vars : Value(l, a) = a[l]
  <2> SUFFICES ASSUME NEW l \in 1..vars PROVE Value(l, a) = a[l]
    OBVIOUS
  <2>1. VarOf(l) = l /\ pnsign(l) = 1 /\ a[l] \in Int
    BY <1>1, VarLiteral DEF RowsInv, Total
  <2> QED
    BY <2>1 DEF Value
<1> QED
  BY <1>2, <1>3 DEF Copied, Eliminated

(* What a step does to the satisfying assignments: each one after it is      *)
(* completed as one before it, and as long as there was one there is one.    *)
CarriedBack == \A b \in Models(vars, ActiveRows)' : \E a \in Models(vars, ActiveRows) : Completion(b)' = Completion(a)

CarriedOn == Models(vars, ActiveRows) # {} => pc' # "unsat" /\ Models(vars, ActiveRows)' # {}

(* Steps that change no row, number and value carry the satisfying           *)
(* assignments.                                                              *)
LEMMA SameModels ==
  ASSUME ElimInv, pc \in {"eliminate", "pure"}, pc' \in {"eliminate", "pure"},
         UNCHANGED <<shared, res_clause, resolution>>
  PROVE  CarriedBack /\ CarriedOn
<1>1. /\ ActiveRows' = ActiveRows /\ vars' = vars /\ mapto' = mapto /\ mapval' = mapval
      /\ mapfrom' = mapfrom
  BY RowsAlone DEF shared
<1>2. Models(vars, ActiveRows)' = Models(vars, ActiveRows)
  BY <1>1 DEF Models
<1>3. Eliminated' = Eliminated
  BY <1>1 DEF Eliminated
<1>4. \A b : Copied(b)' = Copied(b)
  <2>2. ASSUME NEW b PROVE Copied(b)' = Copied(b)
    <3>1. pc # "binary" /\ pc' # "binary"
      OBVIOUS
    <3>2. Copied(b)' = [o \in 1 .. orivars |->
     IF \E k \in DOMAIN Eliminated' : Eliminated'[k] = o THEN -10
     ELSE IF mapto'[o] # 0 THEN pnsign(mapto'[o]) * b[VarOf(mapto'[o])] ELSE mapval'[o]]
      BY <3>1 DEF Copied, Value
    <3>3. Copied(b) = [o \in 1 .. orivars |->
     IF \E k \in DOMAIN Eliminated : Eliminated[k] = o THEN -10
     ELSE IF mapto[o] # 0 THEN pnsign(mapto[o]) * b[VarOf(mapto[o])] ELSE mapval[o]]
      BY <3>1 DEF Copied, Value
    <3> QED
      BY <1>1, <1>3, <3>2, <3>3
  <2> QED
    BY <2>2
<1>5. \A b : Completion(b)' = Completion(b)
  BY <1>3, <1>4 DEF Completion
<1> QED
  BY <1>2, <1>5 DEF CarriedBack, CarriedOn

(* Two rows that cannot both hold leave no satisfying assignment. *)
LEMMA NoneRefuted ==
  ASSUME ElimInv, RefuteByResolution
  PROVE  CarriedOn
<1>1. /\ pc = "eliminate" /\ next \in Nat \ {0} /\ next <= vars /\ RowsInv
      /\ Refuted(next)
  BY DEF RefuteByResolution, Trying, ElimInv
<1> DEFINE v == next
           p == FirstDecisive(v)
<1>2. v \in 1..vars /\ vars \in Nat
  BY <1>1 DEF RowsInv
<1>3. p \in Decisive(v)
  <2>1. Decisive(v) # {} 
    BY <1>1 DEF Refuted
  <2> DEFINE i == p[1]
             j == p[2]
  <2>2. \E q \in Decisive(v) : \A s \in Decisive(v) : ~Before(s, q)
    <3>1. PICK n \in Nat : clause \in [1..n -> RowsOver(vars)]
      BY <1>1, SeqDef DEF RowsInv
    <3>2. Decisive(v) \subseteq (1..n) \X (1..n)
      BY <3>1 DEF Decisive, Parents, HasLit, Active
    <3> DEFINE D == Decisive(v)
               F == {x \in Nat : \E q \in D : q[1] = x}
    <3> HIDE DEF D
    <3>3. PICK q0 \in D : q0[1] \in Nat /\ \A q \in D : q[1] >= q0[1]
      <4>1. F \subseteq Nat /\ F # {}
        BY <2>1, <3>2 DEF D
      <4>2. \E x \in F : \A y \in F : x <= y
        BY <4>1, SmallestOf
      <4> QED
        BY <3>2, <4>2 DEF D
    <3> DEFINE G == {y \in Nat : \E q \in D : q[1] = q0[1] /\ q[2] = y}
    <3>4. PICK q1 \in D : q1[1] = q0[1] /\ \A q \in D : q[1] = q0[1] => q[2] >= q1[2]
      <4>1. G \subseteq Nat /\ G # {}
        BY <3>2 DEF D
      <4>2. \E x \in G : \A y \in G : x <= y
        BY <4>1, SmallestOf
      <4> QED
        BY <3>2, <4>2 DEF D
    <3>5. \A s \in D : ~Before(s, q1)
      <4>1. \A s \in D : s[1] \in Nat /\ s[2] \in Nat
        BY <3>2 DEF D
      <4> QED
        BY <3>3, <3>4, <4>1 DEF Before
    <3> QED
      BY <3>5 DEF D
  <2> QED
    BY <2>2 DEF FirstDecisive
<1>4. Impossible(v, p[1], p[2])
  BY <1>1 DEF Refuted
<1> DEFINE i == p[1]
           j == p[2]
<1>5. i \in HasLit(v) /\ j \in HasLit(-v)
  BY <1>3 DEF Decisive, Parents
<1>6. ~Blocked(v, i, j) /\ Resolvent(v, i, j).degree > Size(Resolvent(v, i, j))
  BY <1>4 DEF Impossible
<1> HIDE DEF i, j, v
<1>7. Resolvent(v, i, j) \in RowsOver(vars) /\ i \in Active /\ j \in Active
  BY <1>1, <1>2, <1>5, <1>6, ResolventRow, ParentRows
<1>8. ASSUME NEW a \in Models(vars, ActiveRows) PROVE FALSE
  <2>1. a \in Total(vars) /\ Holds(clause[i], a) /\ Holds(clause[j], a)
    BY <1>8, <1>7 DEF Models, Total, ActiveRows
  <2>2. Holds(Resolvent(v, i, j), a)
    BY <1>1, <1>2, <1>5, <1>6, <2>1, ResolventFollows
  <2> QED
    BY <1>2, <1>6, <1>7, <2>2, NeedsAll
<1> QED
  BY <1>8 DEF CarriedOn

(* A pure literal costs no satisfying assignment that matters: those after   *)
(* the step, with the literal made true, are satisfying assignments before   *)
(* it, and the other way round.                                              *)
LEMMA PureModels ==
  ASSUME ElimInv, AssignPure, UNCHANGED binVars
  PROVE  CarriedBack /\ CarriedOn
<1>1. PICK v \in pure_queue \ clean, l \in Int :
           LET rows == HasLit(l)
               less(i) == Lessened(i, l)
               done == {i \in rows : clause[i].degree = 1}
           IN  /\ pc = "pure" /\ v \in 1..vars /\ l \in {v, -v} /\ l \in Literals(vars) /\ VarOf(l) = v
               /\ rows # {} /\ HasLit(-l) = {}
               /\ mapval' = [mapval EXCEPT ![mapfrom[v]] = pnsign(l)]
               /\ mapto' = [mapto EXCEPT ![mapfrom[v]] = 0]
               /\ clean' = clean \cup {v} /\ changed' = TRUE
               /\ clause_delete' = clause_delete \cup done
               /\ pure_queue' = (pure_queue \cup Freed(done)) \ {v}
               /\ clause' \in Seq(RowsOver(vars)) /\ DOMAIN clause' = DOMAIN clause
               /\ Active' = Active \ done
               /\ \A i \in rows : less(i) \in RowsOver(vars) /\ less(i).lits = clause[i].lits \ {l}
                                  /\ less(i).degree = clause[i].degree - 1
               /\ \A i \in Active' : clause'[i] = IF i \in rows THEN less(i) ELSE clause[i]
               /\ pc' = IF \E i \in rows : less(i).degree > Size(less(i)) THEN "unsat" ELSE "pure"
               /\ UNCHANGED <<input, vars, mapfrom, varval, next, res_clause, resolution>>
  BY PureRows
<1> DEFINE rows == HasLit(l)
           done == {i \in rows : clause[i].degree = 1}
           less(i) == Lessened(i, l)
           s == pnsign(l)
           set(a) == [a EXCEPT ![v] = s]
<1>2. /\ RowsInv /\ MapInv /\ vars \in Nat /\ vars' = vars /\ mapfrom' = mapfrom
      /\ s \in {-1, 1} /\ pnsign(-l) = -s
  BY <1>1, LiteralFacts DEF ElimInv, RowsInv
<1>3. ASSUME NEW i \in rows
      PROVE  /\ i \in Active /\ clause[i] \in RowsOver(vars) /\ Plain(clause[i]) /\ l \in clause[i].lits
             /\ clause[i].degree \in Nat \ {0} /\ Size(clause[i]) \in Nat
  <2>1. i \in Active /\ l \in clause[i].lits
    BY DEF HasLit
  <2> QED
    BY <1>2, <2>1, ActiveRow, TrueLitsFinite
<1>4. ASSUME NEW i \in rows, NEW a
      PROVE  Holds(less(i), a) <=> Rest(clause[i], l, a) >= clause[i].degree - 1
  <2>1. TrueLits(less(i), a) = TrueLits(Without(clause[i], l), a)
    BY DEF TrueLits, Lessened, Without
  <2> QED
    BY <2>1 DEF Holds, Rest, Lessened
<1>5. ASSUME NEW i \in rows, NEW a \in Total(vars)
      PROVE  /\ Rest(clause[i], l, set(a)) = Rest(clause[i], l, a)
             /\ Holds(clause[i], set(a)) <=> Rest(clause[i], l, a) + 1 >= clause[i].degree
             /\ Holds(clause[i], a) => Rest(clause[i], l, a) + 1 >= clause[i].degree
             /\ Rest(clause[i], l, a) \in Nat
  <2>1. \A w \in RowVars(clause[i]) : w # VarOf(l) => set(a)[w] = a[w]
    BY <1>1 DEF Total
  <2>2. Rest(clause[i], l, set(a)) = Rest(clause[i], l, a)
    <3> DEFINE b == set(a)
    <3>1. \A w \in RowVars(clause[i]) : w # VarOf(l) => b[w] = a[w]
      BY <2>1
    <3> HIDE DEF b
    <3>2. Rest(clause[i], l, b) = Rest(clause[i], l, a)
      BY <1>2, <1>3, <3>1, RestOfOthers
    <3> QED
      BY <3>2 DEF b
  <2>3. set(a)[VarOf(l)] = pnsign(l)
    BY <1>1 DEF Total
  <2>4. Holds(clause[i], set(a)) <=> Rest(clause[i], l, set(a)) + 1 >= clause[i].degree
    BY <1>2, <1>3, <2>3, RestCounts
  <2>5. /\ Rest(clause[i], l, a) \in Nat /\ clause[i].degree \in Int
        /\ \/ Holds(clause[i], a) <=> Rest(clause[i], l, a) + 1 >= clause[i].degree
           \/ Holds(clause[i], a) <=> Rest(clause[i], l, a) >= clause[i].degree
    BY <1>2, <1>3, RestCounts
  <2> QED
    BY <2>2, <2>4, <2>5
<1>6. ASSUME NEW i \in Active, i \notin rows, NEW a \in Total(vars)
      PROVE  Holds(clause[i], set(a)) <=> Holds(clause[i], a)
  <2>1. i \notin HasLit(l) /\ i \notin HasLit(-l)
    BY <1>1, <1>6
  <2>2. v \notin RowVars(clause[i])
    <3> SUFFICES ASSUME v \in RowVars(clause[i]) PROVE FALSE
      OBVIOUS
    <3>1. PICK k \in clause[i].lits : VarOf(k) = VarOf(l)
      BY <1>1 DEF RowVars
    <3>2. k \in Literals(vars) /\ vars \in Nat /\ l \in Literals(vars)
      BY <1>1, <1>2, ActiveRow
    <3>3. k = l \/ k = -l
      BY <3>1, <3>2, SameVar
    <3> QED
      BY <2>1, <3>3 DEF HasLit
  <2>3. RowVars(clause[i]) \subseteq 1..vars
    BY <1>2, ActiveRow
  <2>4. \A w \in RowVars(clause[i]) : set(a)[w] = a[w]
    BY <2>2, <2>3 DEF Total
  <2> QED
    BY <2>4, SameHolds
<1> HIDE DEF set, s
<1>7. \A a \in Total(vars) : set(a) \in Total(vars)
  BY <1>2 DEF set, Total
<1>8. Active' = Active \ done /\ \A i \in Active' : clause'[i] = IF i \in rows THEN less(i) ELSE clause[i]
  BY <1>1, Zenon
<1>9. CarriedBack
  <2> SUFFICES ASSUME NEW b \in Models(vars, ActiveRows)'
               PROVE  \E a \in Models(vars, ActiveRows) : Completion(b)' = Completion(a)
    BY DEF CarriedBack
  <2>1. b \in Total(vars) /\ \A i \in Active' : Holds(clause'[i], b)
    BY <1>2 DEF Models, ActiveRows, Total
  <2> DEFINE a == set(b)
  <2>2. a \in Total(vars)
    BY <1>7, <2>1
  <2>3. ASSUME NEW i \in Active PROVE Holds(clause[i], a)
    <3>1. CASE i \in done
      <4>1. Rest(clause[i], l, b) \in Nat /\ clause[i].degree = 1
        BY <1>5, <2>1, <3>1
      <4>2. Rest(clause[i], l, b) + 1 >= clause[i].degree
        BY <4>1
      <4> QED
        BY <1>5, <2>1, <3>1, <4>2
    <3>2. CASE i \in rows \ done
      <4>1. Holds(less(i), b)
        BY <1>8, <2>1, <3>2
      <4>2. Rest(clause[i], l, b) >= clause[i].degree - 1
        BY <1>4, <3>2, <4>1
      <4>3. Rest(clause[i], l, b) \in Nat /\ clause[i].degree \in Nat
        BY <1>3, <1>5, <2>1, <3>2
      <4>4. Rest(clause[i], l, b) + 1 >= clause[i].degree
        BY <4>2, <4>3
      <4> QED
        BY <1>5, <2>1, <3>2, <4>4
    <3>3. CASE i \notin rows
      <4>1. Holds(clause[i], b)
        BY <1>8, <2>1, <3>3
      <4> QED
        BY <1>6, <2>1, <3>3, <4>1
    <3> QED BY <3>1, <3>2, <3>3
  <2>4. a \in Models(vars, ActiveRows)
    BY <2>2, <2>3 DEF Models, ActiveRows, Total
  <2>5. CASE pc' = "unsat"
    <3>1. PICK i \in rows : less(i).degree > Size(less(i))
      BY <1>1, <2>5
    <3>2. less(i) \in RowsOver(vars)
      BY <1>1, Zenon
    <3>3. ~Holds(less(i), b)
      BY <1>2, <3>1, <3>2, NeedsAll
    <3>4. Rest(clause[i], l, b) \in Nat /\ clause[i].degree \in Nat \ {0}
      BY <1>3, <1>5, <2>1
    <3>5. i \notin done
      <4>1. ASSUME clause[i].degree = 1 PROVE Rest(clause[i], l, b) >= clause[i].degree - 1
        BY <3>4, <4>1
      <4> QED
        BY <1>4, <3>3, <4>1
    <3> QED
      BY <1>3, <1>8, <2>1, <3>3, <3>5
  <2>6. CASE pc' = "pure"
    <3>1. Copied(a) = [o \in 1..orivars |->
              IF \E k \in DOMAIN Eliminated : Eliminated[k] = o THEN -10
              ELSE IF mapto[o] # 0 THEN a[mapto[o]] ELSE mapval[o]]
      BY <1>1, <2>2, ElimCopied
    <3>2. ElimInv'
      BY ElimAssignPure
    <3>3. Copied(b)' = [o \in 1..orivars |->
              IF \E k \in DOMAIN Eliminated' : Eliminated'[k] = o THEN -10
              ELSE IF mapto'[o] # 0 THEN b[mapto'[o]] ELSE mapval'[o]]
      <4>1. /\ mapto' \in [1..orivars -> 0..vars] /\ vars' = vars
        BY <1>1, <1>2, <2>6, <3>2 DEF ElimInv, MapInv
      <4>2. ASSUME NEW w \in 1..vars PROVE pnsign(w) * b[VarOf(w)] = b[w]
        <5>1. pnsign(w) = 1 /\ VarOf(w) = w /\ b[w] \in Int
          BY <1>2, <2>1, VarLiteral DEF Total
        <5> QED
          BY <5>1
      <4>3. Copied(b)' = [o \in 1..orivars |->
              IF \E k \in DOMAIN Eliminated' : Eliminated'[k] = o THEN -10
              ELSE IF mapto'[o] # 0 THEN pnsign(mapto'[o]) * b[VarOf(mapto'[o])] ELSE mapval'[o]]
        BY <2>6 DEF Copied, Value
      <4>4. \A o \in 1..orivars : mapto'[o] # 0 => mapto'[o] \in 1..vars
        BY <1>2, <4>1
      <4> QED
        BY <4>2, <4>3, <4>4
    <3>4. Eliminated' = Eliminated
      BY <1>1, <1>2, <2>6 DEF Eliminated
    <3>5. ASSUME NEW o \in 1..orivars
          PROVE  (IF mapto'[o] # 0 THEN b[mapto'[o]] ELSE mapval'[o])
                   = (IF mapto[o] # 0 THEN a[mapto[o]] ELSE mapval[o])
      <4>1. mapto[mapfrom[v]] = v /\ v # 0 /\ mapfrom[v] \in 1..orivars
        BY <1>1, <1>2 DEF MapInv
      <4>2. mapto \in [1..orivars -> 0..vars] /\ mapval \in [1..orivars -> {-1, 0, 1}]
        BY <1>2 DEF MapInv, Partial
      <4>3. CASE o = mapfrom[v]
        <5>1. mapto'[o] = 0 /\ mapval'[o] = s
          BY <1>1, <4>1, <4>2, <4>3 DEF s
        <5>2. a[mapto[o]] = s
          BY <1>1, <2>1, <4>1, <4>3 DEF set, Total
        <5> QED
          BY <4>1, <4>3, <5>1, <5>2
      <4>4. CASE o # mapfrom[v]
        <5>1. mapto'[o] = mapto[o] /\ mapval'[o] = mapval[o]
          BY <1>1, <4>1, <4>2, <4>4
        <5>2. ASSUME mapto[o] # 0 PROVE a[mapto[o]] = b[mapto[o]]
          <6>1. mapfrom[mapto[o]] = o /\ mapto[o] \in 1..vars
            BY <1>2, <4>2, <5>2 DEF MapInv
          <6>2. mapto[o] # v
            BY <4>4, <6>1
          <6> QED
            BY <2>1, <6>1, <6>2 DEF set, Total
        <5> QED
          BY <5>1, <5>2
      <4> QED BY <4>3, <4>4
    <3>6. Copied(b)' = Copied(a)
      <4> HIDE DEF a
      <4> QED
        BY <3>1, <3>3, <3>4, <3>5
    <3>7. Completion(b)' = Completion(a)
      BY <1>1, <3>4, <3>6 DEF Completion
    <3> QED
      BY <2>4, <3>7
  <2> QED
    BY <1>1, <2>5, <2>6
<1>10. CarriedOn
  <2> SUFFICES ASSUME NEW a \in Models(vars, ActiveRows)
               PROVE  pc' # "unsat" /\ Models(vars, ActiveRows)' # {}
    BY DEF CarriedOn
  <2>1. a \in Total(vars) /\ \A i \in Active : Holds(clause[i], a)
    BY DEF Models, ActiveRows, Total
  <2> DEFINE b == set(a)
  <2>2. b \in Total(vars)
    BY <1>7, <2>1
  <2>3. ASSUME NEW i \in rows PROVE Holds(less(i), b)
    <3>1. Holds(clause[i], a)
      BY <1>3, <2>1
    <3>2. Rest(clause[i], l, a) + 1 >= clause[i].degree /\ Rest(clause[i], l, b) = Rest(clause[i], l, a)
          /\ Rest(clause[i], l, a) \in Nat /\ clause[i].degree \in Nat
      BY <1>3, <1>5, <2>1, <3>1
    <3>3. Rest(clause[i], l, b) >= clause[i].degree - 1
      BY <3>2
    <3> QED
      BY <1>4, <3>3
  <2>4. ASSUME NEW i \in Active' PROVE Holds(clause'[i], b)
    <3>1. CASE i \in rows
      BY <1>8, <2>3, <3>1
    <3>2. CASE i \notin rows
      BY <1>6, <1>8, <2>1, <3>2
    <3> QED BY <3>1, <3>2
  <2>5. b \in Models(vars, ActiveRows)'
    BY <1>2, <2>2, <2>4 DEF Models, ActiveRows, Total
  <2>6. pc' # "unsat"
    <3> SUFFICES ASSUME pc' = "unsat" PROVE FALSE
      OBVIOUS
    <3>1. PICK i \in rows : less(i).degree > Size(less(i))
      BY <1>1
    <3>2. less(i) \in RowsOver(vars)
      BY <1>1, Zenon
    <3> QED
      BY <1>2, <2>3, <3>1, <3>2, NeedsAll
  <2> QED
    BY <2>5, <2>6
<1> QED
  BY <1>9, <1>10

(* What is known of the variables of the file before any eliminated one is   *)
(* recovered.                                                                *)
IsEliminated(o) == \E k \in DOMAIN Eliminated : Eliminated[k] = o

Known(a) ==
  [o \in 1..orivars |-> IF IsEliminated(o) THEN 0
                        ELSE IF mapto[o] # 0 THEN a[mapto[o]] ELSE mapval[o]]

InElimination == ElimInv /\ pc \in {"eliminate", "pure"}

EliminatedFine ==
  /\ Eliminated \in Seq(1..orivars) /\ DOMAIN Eliminated = DOMAIN resolution
  /\ \A k \in DOMAIN resolution : resolution[k] \in clean /\ Eliminated[k] = mapfrom[resolution[k]]

(* The variables eliminated are known by their original names. *)
LEMMA EliminatedSequence == InElimination => EliminatedFine
<1> SUFFICES ASSUME InElimination PROVE EliminatedFine
  OBVIOUS
<1>1. /\ MapInv /\ CleanInv /\ Eliminated = [k \in DOMAIN resolution |-> mapfrom[resolution[k]]]
  BY DEF InElimination, ElimInv, Eliminated
<1>2. PICK n \in Nat : resolution \in [1..n -> clean]
  BY <1>1, SeqDef DEF CleanInv
<1>3. \A k \in 1..n : resolution[k] \in clean /\ mapfrom[resolution[k]] \in 1..orivars
  BY <1>1, <1>2 DEF CleanInv, MapInv
<1>4. Eliminated \in [1..n -> 1..orivars] /\ DOMAIN Eliminated = 1..n
  BY <1>1, <1>2, <1>3
<1> QED
  BY <1>1, <1>2, <1>3, <1>4, SeqDef DEF EliminatedFine

ReadByRecovery ==
  \A a \in Total(vars) :
    /\ Known(a) \in Values
    /\ Completion(a) = LET r == Recovered(res_clause, Eliminated, Known(a))
                       IN  [values |-> r.values, ok |-> r.ok /\ r.last = 0]

(* What get_complete_model (preprocess.cpp:178-256) gives while variables    *)
(* are eliminated: the values of the rows' variables under their original    *)
(* names, the fixed ones, and the recovered ones on top.                     *)
LEMMA CompletionRead == InElimination => ReadByRecovery
<1> SUFFICES ASSUME InElimination, NEW a \in Total(vars)
             PROVE  /\ Known(a) \in Values
                    /\ Completion(a) = LET r == Recovered(res_clause, Eliminated, Known(a))
                                       IN  [values |-> r.values, ok |-> r.ok /\ r.last = 0]
  BY DEF ReadByRecovery
<1>1. /\ MapInv /\ StoredInv /\ EliminatedFine
  BY EliminatedSequence DEF InElimination, ElimInv
<1> DEFINE m == Copied(a)
           marked == {o \in DOMAIN m : m[o] \notin {-1, 0, 1}}
           val(o) == IF mapto[o] # 0 THEN a[mapto[o]] ELSE mapval[o]
<1>2. m = [o \in 1..orivars |-> IF IsEliminated(o) THEN -10 ELSE val(o)]
  BY ElimCopied DEF InElimination, IsEliminated
<1>3. \A o \in 1..orivars : val(o) \in {-1, 0, 1}
  <2>1. \A o \in 1..orivars : mapto[o] # 0 => mapto[o] \in 1..vars
    BY ElimCopied DEF InElimination
  <2> QED
    BY <1>1, <2>1 DEF MapInv, Partial, Total
<1>4. Known(a) = [o \in 1..orivars |-> IF IsEliminated(o) THEN 0 ELSE val(o)]
  BY DEF Known
<1> HIDE DEF m, val
<1>5. DOMAIN m = 1..orivars /\ \A o \in 1..orivars : m[o] \notin {-1, 0, 1} <=> IsEliminated(o)
  BY <1>2, <1>3
<1>6. Known(a) \in Values
  BY <1>3, <1>4 DEF Values, Partial
<1>7. [o \in DOMAIN m |-> IF o \in marked THEN 0 ELSE m[o]] = Known(a)
  BY <1>2, <1>4, <1>5
<1>8. CASE marked # {}
  BY <1>6, <1>7, <1>8 DEF Completion, GetCompleteModel, m
<1>9. CASE marked = {}
  <2>1. \A o \in 1..orivars : ~IsEliminated(o)
    BY <1>5, <1>9
  <2>2. Eliminated \in Seq(1..orivars)
    BY <1>1 DEF EliminatedFine
  <2>3. Len(Eliminated) \in Nat /\ Eliminated \in [1..Len(Eliminated) -> 1..orivars]
    BY <2>2, LenProperties
  <2>4. Len(Eliminated) = 0 /\ DOMAIN Eliminated = {}
    <3>1. \A k \in 1..Len(Eliminated) : FALSE
      BY <2>1, <2>3 DEF IsEliminated
    <3>2. ~(Len(Eliminated) >= 1)
      BY <2>3, <3>1
    <3> QED
      BY <2>3, <3>1, <3>2
  <2>5. DOMAIN res_clause = {}
    BY <1>1, <2>4 DEF StoredInv
  <2>6. Len(res_clause) = 0
    <3>1. Len(res_clause) \in Nat /\ DOMAIN res_clause = 1..Len(res_clause)
      BY <1>1, LenProperties DEF StoredInv
    <3>2. ~(1 \in 1..Len(res_clause))
      BY <2>5, <3>1
    <3> QED
      BY <3>1, <3>2
  <2>7. Len(res_clause) \in Nat
    BY <2>6
  <2>8. PICK g : Recovers(g, res_clause, Eliminated, Known(a))
                 /\ Recovered(res_clause, Eliminated, Known(a)) = g[Len(Eliminated)]
    BY <1>6, <2>2, <2>7, RecoveredSteps
  <2>9. Recovered(res_clause, Eliminated, Known(a)) = [values |-> Known(a), last |-> 0, ok |-> TRUE]
    BY <2>4, <2>6, <2>8 DEF Recovers
  <2>10. Known(a) = m
    BY <1>2, <1>4, <2>1
  <2>11. Completion(a) = [values |-> m, ok |-> TRUE]
    BY <1>9 DEF Completion, GetCompleteModel, m
  <2> DEFINE r == Recovered(res_clause, Eliminated, Known(a))
  <2>12. r.values = m /\ r.last = 0 /\ r.ok = TRUE
    BY <2>9, <2>10
  <2> HIDE DEF r
  <2>13. Completion(a) = [values |-> r.values, ok |-> r.ok /\ r.last = 0]
    BY <2>11, <2>12
  <2> QED
    BY <1>6, <2>13 DEF r
<1> QED
  BY <1>8, <1>9

(* The rows stored last are the group of the variable eliminated last.       *)
OwnGroup(stored, new, o) ==
  LET all == stored \o new
      group == Group(all, o, Len(all))
  IN  /\ Len(stored) \in Nat /\ Len(new) \in Nat /\ Len(all) \in Nat
      /\ Len(all) - Cardinality(group) = Len(stored)
      /\ group = {} <=> DOMAIN new = {}
      /\ \A c \in group : \E d \in DOMAIN new : all[c] = new[d]
      /\ \A d \in DOMAIN new : \E c \in group : all[c] = new[d]

(* Rows stored for one variable alone, after all others, are the last group. *)
LEMMA GroupOfLast ==
  ASSUME NEW S, NEW stored \in Seq(S), NEW new \in Seq(S), NEW o,
         \A d \in DOMAIN stored : stored[d].owner # o,
         \A d \in DOMAIN new : new[d].owner = o
  PROVE  OwnGroup(stored, new, o)
<1> DEFINE all == stored \o new
           L == Len(stored)
           N == Len(new)
           group == Group(all, o, Len(all))
<1>1. /\ L \in Nat /\ N \in Nat /\ Len(all) = L + N /\ DOMAIN stored = 1..L /\ DOMAIN new = 1..N
      /\ \A d \in 1..L : all[d] = stored[d]
      /\ \A d \in L + 1 .. L + N : all[d] = new[d - L]
  BY LenProperties, ConcatProperties
<1> HIDE DEF all, L, N
<1>2. \A d \in 1..L : all[d].owner # o
  BY <1>1
<1>3. \A d \in L + 1 .. L + N : all[d].owner = o
  <2>1. \A d \in L + 1 .. L + N : d - L \in 1..N
    BY <1>1
  <2> QED
    BY <1>1, <2>1
<1>4. group = L + 1 .. L + N
  <2>1. group = {c \in 1 .. L + N : \A d \in c .. L + N : all[d].owner = o}
    BY <1>1 DEF Group
  <2>2. ASSUME NEW c \in L + 1 .. L + N PROVE c \in 1 .. L + N /\ \A d \in c .. L + N : all[d].owner = o
    <3>1. c \in 1..L + N /\ \A d \in c .. L + N : d \in L + 1 .. L + N
      BY <1>1
    <3> QED
      BY <1>3, <3>1
  <2>3. ASSUME NEW c \in 1 .. L + N, c \notin L + 1 .. L + N
        PROVE  ~ \A d \in c .. L + N : all[d].owner = o
    <3>1. c \in 1..L /\ c \in c .. L + N
      BY <1>1, <2>3
    <3> QED
      BY <1>2, <3>1
  <2>4. \A c \in L + 1 .. L + N : c \in 1 .. L + N
    BY <1>1
  <2> QED
    BY <2>1, <2>2, <2>3, <2>4
<1> HIDE DEF group
<1>5. Cardinality(group) = N
  <2> DEFINE x == L + 1
             y == L + N
  <2>1. x \in Int /\ y \in Int
    BY <1>1
  <2>2. group = x .. y
    BY <1>4
  <2>3. (IF x > y THEN 0 ELSE y - x + 1) = N
    BY <1>1
  <2> HIDE DEF x, y
  <2>4. Cardinality(x .. y) = IF x > y THEN 0 ELSE y - x + 1
    BY <2>1, FS_Interval
  <2> QED
    BY <2>2, <2>3, <2>4
<1>6. \A c \in group : \E d \in 1..N : all[c] = new[d]
  <2>1. \A c \in L + 1 .. L + N : c - L \in 1..N
    BY <1>1
  <2> QED
    BY <1>1, <1>4, <2>1
<1>7. \A d \in 1..N : \E c \in group : all[c] = new[d]
  <2>1. \A d \in 1..N : L + d \in L + 1 .. L + N /\ (L + d) - L = d
    BY <1>1
  <2> QED
    BY <1>1, <1>4, <2>1
<1>8. group = {} <=> 1..N = {}
  BY <1>6, <1>7
<1>9. Len(all) - Cardinality(group) = L /\ Len(all) \in Nat
  BY <1>1, <1>5
<1>10. Len(stored) \in Nat /\ Len(new) \in Nat /\ DOMAIN new = 1..N
  BY <1>1 DEF L, N
<1>11. Len(all) - Cardinality(group) = Len(stored)
  BY <1>9 DEF L
<1> QED
  BY <1>6, <1>7, <1>8, <1>9, <1>10, <1>11, Zenon DEF all, group, OwnGroup

(* What an elimination does to the rows, in terms of their meaning.          *)
LEMMA EliminatedRows ==
  ASSUME ElimInv, EliminateVariable
  PROVE  LET v == next
             gone == HasLit(v) \cup HasLit(-v)
         IN  /\ pc = "eliminate" /\ v \in 1..vars /\ v \notin clean /\ Eligible(v)
             /\ RowsInv /\ MapInv /\ StoredInv /\ CleanInv
             /\ vars \in Nat /\ gone \subseteq Active /\ HasLit(v) # {}
             /\ \A i \in HasLit(v), j \in HasLit(-v) : ~Blocked(v, i, j)
             /\ \A a \in Total(vars) :
                  (\A k \in Active' : Holds(clause'[k], a))
                    <=> /\ \A i \in Active \ gone : Holds(clause[i], a)
                        /\ \A i \in HasLit(v), j \in HasLit(-v) : Holds(Resolvent(v, i, j), a)
             /\ UNCHANGED <<input, vars, mapto, mapval, mapfrom, pc, varval>>
             /\ res_clause' = res_clause \o Stored(v) /\ resolution' = Append(resolution, v)
<1> DEFINE v == next
           gone == HasLit(v) \cup HasLit(-v)
<1>1. /\ pc = "eliminate" /\ v <= vars /\ v \in Nat \ {0} /\ Eligible(v) /\ Decisive(v) = {}
      /\ RowsInv /\ MapInv /\ StoredInv /\ CleanInv /\ vars \in Nat
      /\ \A w \in clean : w < next
      /\ clause' = clause \o Resolvents(v)
      /\ clause_delete' = clause_delete \cup gone
      /\ UNCHANGED <<input, vars, mapto, mapval, mapfrom, pc, varval>>
      /\ res_clause' = res_clause \o Stored(v) /\ resolution' = Append(resolution, v)
  BY DEF EliminateVariable, Trying, ElimInv, RowsInv
<1>2. v \in 1..vars /\ v \notin clean
  BY <1>1
<1> HIDE DEF v
<1>3. clause_delete' = clause_delete \cup HasLit(v) \cup HasLit(-v)
  BY <1>1
<1>4. /\ \A k \in Active' :
           \/ k \in Active \ gone /\ clause'[k] = clause[k]
           \/ \E i \in HasLit(v), j \in HasLit(-v) :
                ~Vacuous(v, i, j) /\ clause'[k] = Resolvent(v, i, j)
      /\ \A k \in Active \ gone : k \in Active' /\ clause'[k] = clause[k]
      /\ \A i \in HasLit(v), j \in HasLit(-v) :
           ~Vacuous(v, i, j) => \E k \in Active' : clause'[k] = Resolvent(v, i, j)
  BY <1>1, <1>2, <1>3, EliminationRows
<1>5. \A i \in HasLit(v), j \in HasLit(-v) : ~Blocked(v, i, j)
  BY <1>1, <1>2, ResolventsList
<1>6. \A i \in HasLit(v), j \in HasLit(-v) : \A a \in Total(vars) :
        Vacuous(v, i, j) => Holds(Resolvent(v, i, j), a)
  BY <1>1, <1>2, <1>5, ResolventRow
<1>7. gone \subseteq Active
  BY DEF HasLit
<1>8. HasLit(v) # {}
  <2>1. Cardinality(HasLit(v)) # 0
    BY <1>1 DEF Eligible, FewResolvents
  <2> QED
    BY <2>1, FS_EmptySet
<1>9. ASSUME NEW a \in Total(vars)
      PROVE  (\A k \in Active' : Holds(clause'[k], a))
                    <=> /\ \A i \in Active \ gone : Holds(clause[i], a)
                        /\ \A i \in HasLit(v), j \in HasLit(-v) : Holds(Resolvent(v, i, j), a)
  <2>1. ASSUME \A k \in Active' : Holds(clause'[k], a), NEW i \in HasLit(v), NEW j \in HasLit(-v)
        PROVE  Holds(Resolvent(v, i, j), a)
    <3>1. CASE Vacuous(v, i, j)
      BY <1>6, <3>1
    <3>2. CASE ~Vacuous(v, i, j)
      <4>1. PICK k \in Active' : clause'[k] = Resolvent(v, i, j)
        BY <1>4, <3>2
      <4> QED
        BY <2>1, <4>1
    <3> QED BY <3>1, <3>2
  <2>2. ASSUME \A k \in Active' : Holds(clause'[k], a), NEW i \in Active \ gone
        PROVE  Holds(clause[i], a)
    BY <1>4, <2>2
  <2>3. ASSUME \A i \in Active \ gone : Holds(clause[i], a),
               \A i \in HasLit(v), j \in HasLit(-v) : Holds(Resolvent(v, i, j), a),
               NEW k \in Active'
        PROVE  Holds(clause'[k], a)
    <3>1. CASE k \in Active \ gone /\ clause'[k] = clause[k]
      BY <2>3, <3>1
    <3>2. CASE \E i \in HasLit(v), j \in HasLit(-v) :
                ~Vacuous(v, i, j) /\ clause'[k] = Resolvent(v, i, j)
      BY <2>3, <3>2
    <3> QED BY <1>4, <3>1, <3>2
  <2> QED
    BY <2>1, <2>2, <2>3
<1> QED
  BY <1>1, <1>2, <1>5, <1>7, <1>8, <1>9, Zenon DEF v

(* The recovery of the variable eliminated last, from an assignment b of the *)
(* rows left: a differs from b at most in that variable, satisfies the rows  *)
(* there were, and is what the recovery goes on with.                        *)
LEMMA RecoverEliminated ==
  ASSUME ElimInv, EliminateVariable, NEW b \in Total(vars),
         \A k \in Active' : Holds(clause'[k], b)
  PROVE  \E s \in {-1, 1} :
           LET a == [b EXCEPT ![next] = s]
               o == mapfrom[next]
               m == [Known(a) EXCEPT ![o] = 0]
           IN  /\ a \in Total(vars)
               /\ \A i \in Active : Holds(clause[i], a)
               /\ o \in 1..orivars /\ ~IsEliminated(o) /\ m \in Values
               /\ RecoverOne(res_clause \o Stored(next),
                             [values |-> m, last |-> Len(res_clause \o Stored(next)), ok |-> TRUE], o)
                    = [values |-> Known(a), last |-> Len(res_clause), ok |-> TRUE]
<1> DEFINE v == next
           gone == HasLit(v) \cup HasLit(-v)
           with(val) == [b EXCEPT ![v] = val]
           good(val) == \A i \in gone : Holds(clause[i], with(val))
           o == mapfrom[v]
<1>1. /\ pc = "eliminate" /\ v \in 1..vars /\ v \notin clean /\ Eligible(v)
      /\ RowsInv /\ MapInv /\ StoredInv /\ CleanInv
      /\ vars \in Nat /\ gone \subseteq Active /\ HasLit(v) # {}
      /\ \A i \in HasLit(v), j \in HasLit(-v) : ~Blocked(v, i, j)
      /\ \A i \in Active \ gone : Holds(clause[i], b)
      /\ \A i \in HasLit(v), j \in HasLit(-v) : Holds(Resolvent(v, i, j), b)
  BY EliminatedRows
<1> HIDE DEF v
<1>2. good(1) \/ good(-1)
  <2>1. PICK s \in {-1, 1} : \A i \in gone :
           \A a : (a[v] = s /\ \A w \in 1..vars : w # v => a[w] = b[w]) => Holds(clause[i], a)
    BY <1>1, ParentsRecovered
  <2>2. with(s)[v] = s /\ \A w \in 1..vars : w # v => with(s)[w] = b[w]
    BY <1>1 DEF Total
  <2> HIDE DEF with
  <2>3. good(s)
    BY <2>1, <2>2
  <2> QED
    BY <2>3
<1> DEFINE s == IF good(1) THEN 1 ELSE -1
           a == with(s)
<1>3. s \in {-1, 1} /\ good(s)
  BY <1>2
<1>4. a \in Total(vars) /\ a[v] = s /\ \A w \in 1..vars : w # v => a[w] = b[w]
  BY <1>1, <1>3 DEF Total
<1>5. ASSUME NEW i \in Active PROVE Holds(clause[i], a)
  <2>1. CASE i \in gone
    BY <1>3, <2>1
  <2>2. CASE i \notin gone
    <3>1. v \notin RowVars(clause[i])
      <4> SUFFICES ASSUME v \in RowVars(clause[i]) PROVE FALSE
        OBVIOUS
      <4>1. PICK k \in clause[i].lits : VarOf(k) = v
        BY DEF RowVars
      <4>2. k \in Literals(vars) /\ vars \in Nat /\ v \in Literals(vars) /\ VarOf(v) = v
        BY <1>1, ActiveRow, VarLiteral
      <4>3. k = v \/ k = -v
        BY <4>1, <4>2, SameVar
      <4> QED
        BY <2>2, <4>3 DEF HasLit
    <3>2. RowVars(clause[i]) \subseteq 1..vars /\ Holds(clause[i], b)
      BY <1>1, <2>2, ActiveRow
    <3> HIDE DEF a
    <3>3. \A w \in RowVars(clause[i]) : a[w] = b[w]
      BY <1>4, <3>1, <3>2
    <3> QED
      BY <3>2, <3>3, SameHolds
  <2> QED BY <2>1, <2>2
<1>6. EliminatedFine /\ Known(a) \in Values
  BY <1>1, <1>4, EliminatedSequence, CompletionRead DEF InElimination, ReadByRecovery
<1>7. o \in 1..orivars /\ mapto[o] = v /\ v # 0
  BY <1>1 DEF MapInv
(* a variable that is not dealt with is not eliminated *)
<1>8. ASSUME NEW w \in 1..vars, w \notin clean PROVE ~IsEliminated(mapfrom[w])
  <2> SUFFICES ASSUME IsEliminated(mapfrom[w]) PROVE FALSE
    OBVIOUS
  <2>1. PICK k \in DOMAIN resolution : resolution[k] \in clean /\ mapfrom[resolution[k]] = mapfrom[w]
    BY <1>6 DEF EliminatedFine, IsEliminated
  <2>2. resolution[k] \in 1..vars
    BY <1>1, <2>1 DEF CleanInv
  <2> QED
    BY <1>1, <1>8, <2>1, <2>2 DEF MapInv
<1>9. ~IsEliminated(o) /\ \A d \in DOMAIN res_clause : res_clause[d].owner # o
  BY <1>1, <1>8 DEF StoredInv, IsEliminated
<1> DEFINE m == [Known(a) EXCEPT ![o] = 0]
<1>10. m \in Values
  BY <1>6 DEF Values, Partial
(* the stored rows under the values known, and the rows under b *)
<1>11. ASSUME NEW val \in {-1, 1}, NEW i \in gone, NEW w \in RowVars(clause[i])
       PROVE  [m EXCEPT ![o] = val][mapfrom[w]] = with(val)[w]
  <2>1. w \in 1..vars /\ w \notin clean
    <3>1. i \in Active
      BY <1>1
    <3>2. w \in Used(ActiveRows)
      BY <3>1 DEF Used, ActiveRows
    <3> QED
      BY <1>1, <3>2, UsedLits DEF CleanInv
  <2>2. ~IsEliminated(mapfrom[w]) /\ mapfrom[w] \in 1..orivars /\ mapto[mapfrom[w]] = w /\ w # 0
    BY <1>1, <1>8, <2>1 DEF MapInv
  <2>3. CASE w = v
    <3>1. with(val)[w] = val
      BY <1>1, <2>3 DEF Total
    <3>2. [m EXCEPT ![o] = val][mapfrom[w]] = val
      BY <1>7, <1>10, <2>3 DEF Values, Partial
    <3> QED BY <3>1, <3>2
  <2>4. CASE w # v
    <3>1. with(val)[w] = b[w] /\ a[w] = b[w]
      BY <1>1, <1>4, <2>1, <2>4 DEF Total
    <3>2. mapfrom[w] # o
      BY <1>1, <2>1, <2>4 DEF MapInv
    <3>3. Known(a)[mapfrom[w]] = a[w]
      BY <2>2 DEF Known
    <3>4. [m EXCEPT ![o] = val][mapfrom[w]] = Known(a)[mapfrom[w]]
      <4> DEFINE x == mapfrom[w]
      <4>1. x \in 1..orivars /\ x # o
        BY <2>2, <3>2
      <4> HIDE DEF x
      <4>2. [m EXCEPT ![o] = val][x] = Known(a)[x]
        BY <1>6, <4>1 DEF Values, Partial
      <4> QED BY <4>2 DEF x
    <3> QED
      BY <3>1, <3>3, <3>4
  <2> QED BY <2>3, <2>4
<1> DEFINE S == [row : RowsOver(orivars), owner : 1..orivars]
           all == res_clause \o Stored(v)
           group == Group(all, o, Len(all))
           fits(val) == SatisfiedWith(all, group, m, o, val)
<1>12. /\ res_clause \in Seq(S) /\ Stored(v) \in Seq(S)
       /\ \A k \in DOMAIN Stored(v) :
              /\ Stored(v)[k].owner = o
              /\ \E i \in gone : CopyOf(Stored(v)[k].row, clause[i], mapfrom)
       /\ \A i \in gone : \E k \in DOMAIN Stored(v) : CopyOf(Stored(v)[k].row, clause[i], mapfrom)
  BY <1>1, StoredList DEF StoredInv
<1> HIDE DEF S, o
<1>13. /\ Len(res_clause) \in Nat /\ Len(all) \in Nat
       /\ Len(all) - Cardinality(group) = Len(res_clause)
       /\ group = {} <=> DOMAIN Stored(v) = {}
       /\ \A c \in group : \E d \in DOMAIN Stored(v) : all[c] = Stored(v)[d]
       /\ \A d \in DOMAIN Stored(v) : \E c \in group : all[c] = Stored(v)[d]
  <2>1. \A d \in DOMAIN res_clause : res_clause[d].owner # o
    BY <1>9
  <2>2. \A d \in DOMAIN Stored(v) : Stored(v)[d].owner = o
    BY <1>12
  <2> DEFINE st == Stored(v)
  <2>3. res_clause \in Seq(S) /\ st \in Seq(S) /\ \A d \in DOMAIN st : st[d].owner = o
    BY <1>12
  <2> HIDE DEF st
  <2>4. OwnGroup(res_clause, st, o)
    BY <2>1, <2>3, GroupOfLast
  <2> QED
    BY <2>4, Zenon DEF st, OwnGroup
<1> HIDE DEF all, group, m
<1>14. group # {}
  <2>1. PICK i \in gone : TRUE
    BY <1>1
  <2> QED
    BY <1>12, <1>13, <2>1
<1>15. ASSUME NEW val \in {-1, 1} PROVE fits(val) <=> good(val)
  <2> DEFINE mv == [m EXCEPT ![o] = val]
             bv == with(val)
  <2>1. \A i \in gone : \A w \in RowVars(clause[i]) : mv[mapfrom[w]] = bv[w]
    BY <1>11
  <2>2. fits(val) <=> \A c \in group : Holds(all[c].row, mv)
    BY DEF SatisfiedWith
  <2>3. good(val) <=> \A i \in gone : Holds(clause[i], bv)
    OBVIOUS
  <2> HIDE DEF mv, bv, fits, good, gone
  <2>4. \A k \in DOMAIN Stored(v) : \A i \in gone : CopyOf(Stored(v)[k].row, clause[i], mapfrom) =>
           (Holds(Stored(v)[k].row, mv) <=> Holds(clause[i], bv))
    BY <2>1 DEF CopyOf
  <2>5. ASSUME good(val), NEW c \in group PROVE Holds(all[c].row, mv)
    <3>1. PICK k \in DOMAIN Stored(v) : all[c] = Stored(v)[k]
      BY <1>13
    <3>2. PICK i \in gone : CopyOf(Stored(v)[k].row, clause[i], mapfrom)
      BY <1>12
    <3> QED
      BY <2>3, <2>4, <2>5, <3>1, <3>2
  <2>6. ASSUME fits(val), NEW i \in gone PROVE Holds(clause[i], bv)
    <3>1. PICK k \in DOMAIN Stored(v) : CopyOf(Stored(v)[k].row, clause[i], mapfrom)
      BY <1>12
    <3>2. PICK c \in group : all[c] = Stored(v)[k]
      BY <1>13
    <3> QED
      BY <2>2, <2>4, <2>6, <3>1, <3>2
  <2> QED
    BY <2>2, <2>3, <2>5, <2>6
<1>16. [m EXCEPT ![o] = s] = Known(a)
  <2>1. Known(a)[o] = s
    BY <1>4, <1>7, <1>9 DEF Known
  <2> HIDE DEF s, a
  <2> QED
    BY <1>6, <1>7, <2>1 DEF m, Values, Partial
<1>17. RecoverOne(all, [values |-> m, last |-> Len(all), ok |-> TRUE], o)
         = [values |-> Known(a), last |-> Len(res_clause), ok |-> TRUE]
  <2> DEFINE r == [values |-> m, last |-> Len(all), ok |-> TRUE]
  <2>1. RecoverOne(all, r, o) =
         [values |-> IF fits(1) THEN [m EXCEPT ![o] = 1]
                     ELSE IF fits(-1) THEN [m EXCEPT ![o] = -1] ELSE m,
          last |-> Len(all) - Cardinality(group),
          ok |-> TRUE /\ group # {} /\ (fits(1) \/ fits(-1))]
    BY DEF RecoverOne, group
  <2> HIDE DEF fits, good, a
  <2>2. fits(1) <=> good(1)
    BY <1>15
  <2>3. fits(-1) <=> good(-1)
    BY <1>15
  <2>4. (IF fits(1) THEN [m EXCEPT ![o] = 1]
         ELSE IF fits(-1) THEN [m EXCEPT ![o] = -1] ELSE m) = [m EXCEPT ![o] = s]
    BY <1>2, <2>2, <2>3
  <2>5. fits(1) \/ fits(-1)
    BY <1>2, <2>2, <2>3
  <2> HIDE DEF r
  <2> QED
    BY <1>13, <1>14, <1>16, <2>1, <2>4, <2>5 DEF r
<1> QED
  BY <1>3, <1>4, <1>5, <1>7, <1>9, <1>10, <1>17 DEF all, m, o, v

(* An elimination carries the satisfying assignments: each one of the        *)
(* resolvents extends to the rows that went, as the recovery extends it, and *)
(* each one of the rows satisfies the resolvents.                            *)
LEMMA EliminateModels ==
  ASSUME ElimInv, EliminateVariable, UNCHANGED binVars
  PROVE  CarriedBack /\ CarriedOn
<1> DEFINE v == next
           gone == HasLit(v) \cup HasLit(-v)
           o == mapfrom[v]
<1>1. /\ pc = "eliminate" /\ v \in 1..vars /\ RowsInv /\ MapInv /\ StoredInv /\ CleanInv
      /\ vars \in Nat /\ gone \subseteq Active
      /\ \A i \in HasLit(v), j \in HasLit(-v) : ~Blocked(v, i, j)
      /\ \A a \in Total(vars) :
           (\A k \in Active' : Holds(clause'[k], a))
             <=> /\ \A i \in Active \ gone : Holds(clause[i], a)
                 /\ \A i \in HasLit(v), j \in HasLit(-v) : Holds(Resolvent(v, i, j), a)
      /\ UNCHANGED <<input, vars, mapto, mapval, mapfrom, pc, varval>>
      /\ res_clause' = res_clause \o Stored(v) /\ resolution' = Append(resolution, v)
  BY EliminatedRows
<1>2. Models(vars, ActiveRows) = {a \in Total(vars) : \A i \in Active : Holds(clause[i], a)}
  BY DEF Models, ActiveRows, Total
<1>3. Models(vars, ActiveRows)' = {a \in Total(vars) : \A k \in Active' : Holds(clause'[k], a)}
  BY <1>1 DEF Models, ActiveRows, Total
<1>4. CarriedOn
  <2> SUFFICES ASSUME NEW a \in Models(vars, ActiveRows)
               PROVE  pc' # "unsat" /\ a \in Models(vars, ActiveRows)'
    BY DEF CarriedOn
  <2>1. a \in Total(vars) /\ \A i \in Active : Holds(clause[i], a)
    BY <1>2
  <2> HIDE DEF v
  <2>2. ASSUME NEW i \in HasLit(v), NEW j \in HasLit(-v) PROVE Holds(Resolvent(v, i, j), a)
    <3>1. i \in Active /\ j \in Active
      BY DEF HasLit
    <3> QED
      BY <1>1, <2>1, <3>1, ResolventFollows
  <2> QED
    BY <1>1, <1>3, <2>1, <2>2
(* the sequence of eliminated variables, one longer *)
<1>5. /\ InElimination /\ InElimination'
  BY <1>1, ElimEliminate DEF InElimination, EliminateVariable, Trying
<1>6. EliminatedFine /\ EliminatedFine'
  <2>1. EliminatedFine
    BY <1>5, EliminatedSequence
  <2>2. EliminatedFine'
    BY <1>5, EliminatedSequence, PTL
  <2> QED BY <2>1, <2>2
<1>7. ReadByRecovery /\ ReadByRecovery'
  <2>1. ReadByRecovery
    BY <1>5, CompletionRead
  <2>2. ReadByRecovery'
    BY <1>5, CompletionRead, PTL
  <2> QED BY <2>1, <2>2
<1> HIDE DEF v, o
<1>8. Eliminated' = Append(Eliminated, o)
  <2> DEFINE n == Len(resolution)
  <2>1. resolution \in Seq(clean) /\ clean \subseteq 1..vars
    BY <1>1 DEF CleanInv
  <2>2. resolution \in Seq(1..vars) /\ n \in Nat /\ DOMAIN resolution = 1..n
    <3>1. n \in Nat /\ resolution \in [1..n -> clean] /\ DOMAIN resolution = 1..n
      BY <2>1, LenProperties
    <3>2. resolution \in [1..n -> 1..vars]
      BY <2>1, <3>1
    <3> HIDE DEF n
    <3> QED
      BY <3>1, <3>2, SeqDef
  <2>3. /\ DOMAIN resolution' = 1..n + 1
        /\ \A k \in 1..n : resolution'[k] = resolution[k]
        /\ resolution'[n + 1] = v
    <3>1. resolution' \in Seq(1..vars) /\ Len(resolution') = n + 1
      BY <1>1, <2>2, AppendProperties
    <3>2. /\ \A k \in 1..n : resolution'[k] = resolution[k]
          /\ resolution'[n + 1] = v
      BY <1>1, <2>2, AppendProperties
    <3>3. DOMAIN resolution' = 1..Len(resolution')
      BY <3>1, LenProperties
    <3> QED
      BY <3>1, <3>2, <3>3
  <2> HIDE DEF n
  <2>4. Eliminated' = [k \in 1..n + 1 |-> mapfrom[resolution'[k]]]
    BY <1>1, <2>3 DEF Eliminated
  <2>5. Eliminated = [k \in 1..n |-> mapfrom[resolution[k]]]
    BY <1>1, <2>2 DEF Eliminated
  <2>6. Eliminated \in Seq(1..orivars) /\ o \in 1..orivars
    BY <1>1, <1>6 DEF EliminatedFine, MapInv, o
  <2>7. Len(Eliminated) = n
    <3>1. DOMAIN Eliminated = 1..n
      BY <2>5
    <3>2. DOMAIN Eliminated = 1..Len(Eliminated) /\ Len(Eliminated) \in Nat
      BY <2>6, LenProperties
    <3> HIDE DEF Eliminated
    <3> DEFINE L == Len(Eliminated)
    <3> HIDE DEF L
    <3>3. 1..n = 1..L /\ L \in Nat /\ n \in Nat
      BY <2>2, <3>1, <3>2 DEF L
    <3>4. n = L
      <4>1. ASSUME n > L PROVE FALSE
        <5>1. n \in 1..n /\ n \notin 1..L
          BY <3>3, <4>1
        <5> QED BY <3>3, <5>1
      <4>2. ASSUME L > n PROVE FALSE
        <5>1. L \in 1..L /\ L \notin 1..n
          BY <3>3, <4>2
        <5> QED BY <3>3, <5>1
      <4> QED
        BY <3>3, <4>1, <4>2
    <3> QED
      BY <3>4 DEF L
  <2>8. /\ Append(Eliminated, o) \in Seq(1..orivars)
        /\ Len(Append(Eliminated, o)) = n + 1
        /\ \A k \in 1..n : Append(Eliminated, o)[k] = Eliminated[k]
        /\ Append(Eliminated, o)[n + 1] = o
    BY <2>6, <2>7, AppendProperties
  <2>9. Append(Eliminated, o) = [k \in 1..n + 1 |-> Append(Eliminated, o)[k]]
    <3> DEFINE e == Append(Eliminated, o)
    <3> HIDE DEF e
    <3>1. e \in Seq(1..orivars) /\ Len(e) = n + 1
      BY <2>8 DEF e
    <3>2. e \in [1..n + 1 -> 1..orivars]
      BY <3>1, LenProperties
    <3> QED
      BY <3>2 DEF e
  <2> DEFINE e == Append(Eliminated, o)
  <2>10. \A k \in 1..n + 1 : mapfrom[resolution'[k]] = e[k]
    <3> SUFFICES ASSUME NEW k \in 1..n + 1 PROVE mapfrom[resolution'[k]] = e[k]
      OBVIOUS
    <3>1. CASE k = n + 1
      BY <2>3, <2>8, <3>1 DEF o
    <3>2. CASE k # n + 1
      <4>1. k \in 1..n
        BY <2>2, <3>2
      <4> QED
        BY <2>3, <2>5, <2>8, <4>1
    <3> QED BY <3>1, <3>2
  <2> HIDE DEF e
  <2>11. e = [k \in 1..n + 1 |-> e[k]]
    BY <2>9 DEF e
  <2> QED
    BY <2>4, <2>10, <2>11 DEF e
<1>9. ASSUME NEW b \in Models(vars, ActiveRows)'
      PROVE  \E a \in Models(vars, ActiveRows) : Completion(b)' = Completion(a)
  <2>1. b \in Total(vars) /\ \A k \in Active' : Holds(clause'[k], b)
    BY <1>3
  <2>2. PICK s \in {-1, 1} :
           LET a == [b EXCEPT ![next] = s]
               oo == mapfrom[next]
               m == [Known(a) EXCEPT ![oo] = 0]
           IN  /\ a \in Total(vars)
               /\ \A i \in Active : Holds(clause[i], a)
               /\ oo \in 1..orivars /\ ~IsEliminated(oo) /\ m \in Values
               /\ RecoverOne(res_clause \o Stored(next),
                             [values |-> m, last |-> Len(res_clause \o Stored(next)), ok |-> TRUE], oo)
                    = [values |-> Known(a), last |-> Len(res_clause), ok |-> TRUE]
    BY <2>1, RecoverEliminated
  <2> DEFINE a == [b EXCEPT ![v] = s]
             m == [Known(a) EXCEPT ![o] = 0]
             all == res_clause \o Stored(v)
  <2>3. /\ a \in Total(vars)
        /\ \A i \in Active : Holds(clause[i], a)
        /\ o \in 1..orivars /\ ~IsEliminated(o) /\ m \in Values
        /\ RecoverOne(all, [values |-> m, last |-> Len(all), ok |-> TRUE], o)
             = [values |-> Known(a), last |-> Len(res_clause), ok |-> TRUE]
    BY <2>2, Zenon DEF v, o
  <2>4. \A w \in 1..vars : w # v => a[w] = b[w]
    BY <2>1 DEF Total
  <2> HIDE DEF a
  <2>5. a \in Models(vars, ActiveRows)
    BY <1>2, <2>3
  <2>6. Known(a) \in Values
        /\ Completion(a) = LET r == Recovered(res_clause, Eliminated, Known(a))
                           IN  [values |-> r.values, ok |-> r.ok /\ r.last = 0]
    BY <1>7, <2>3 DEF ReadByRecovery
  <2>7. b \in Total(vars')
    BY <1>1, <2>1
  <2>8. Completion(b)' = LET r == Recovered(res_clause', Eliminated', Known(b)')
                         IN  [values |-> r.values, ok |-> r.ok /\ r.last = 0]
    BY <1>7, <2>7 DEF ReadByRecovery
  <2>9. \A x \in 1..orivars : (\E k \in DOMAIN Eliminated' : Eliminated'[k] = x) <=> IsEliminated(x) \/ x = o
    <3> DEFINE E == Eliminated
               e == Append(E, o)
               n == Len(E)
    <3>1. E \in Seq(1..orivars) /\ o \in 1..orivars
      BY <1>6, <2>3 DEF EliminatedFine
    <3> HIDE DEF E
    <3>2. n \in Nat /\ DOMAIN E = 1..n
      BY <3>1, LenProperties
    <3>3. /\ e \in Seq(1..orivars) /\ Len(e) = n + 1
          /\ \A k \in 1..n : e[k] = E[k]
          /\ e[n + 1] = o
      BY <3>1, AppendProperties
    <3>4. DOMAIN e = 1..n + 1
      BY <3>3, LenProperties
    <3> HIDE DEF e, n
    <3>5. \A x : (\E k \in DOMAIN e : e[k] = x) <=> (\E k \in DOMAIN E : E[k] = x) \/ x = o
      <4>1. \A k \in 1..n + 1 : k \in 1..n \/ k = n + 1
        BY <3>2
      <4>2. n + 1 \in 1..n + 1 /\ \A k \in 1..n : k \in 1..n + 1
        BY <3>2
      <4> QED
        BY <3>2, <3>3, <3>4, <4>1, <4>2
    <3> QED
      BY <1>8, <3>5 DEF IsEliminated, E, e
  <2>10. Known(b)' = m
    <3>1. Known(b)' = [x \in 1..orivars |-> IF IsEliminated(x) \/ x = o THEN 0
                        ELSE IF mapto[x] # 0 THEN b[mapto[x]] ELSE mapval[x]]
      <4>1. mapto' = mapto /\ mapval' = mapval
        BY <1>1
      <4>2. Known(b)' = [x \in 1..orivars |-> IF \E k \in DOMAIN Eliminated' : Eliminated'[k] = x THEN 0
                        ELSE IF mapto[x] # 0 THEN b[mapto[x]] ELSE mapval[x]]
        BY <4>1 DEF Known, IsEliminated
      <4> QED
        BY <2>9, <4>2
    <3>2. ASSUME NEW x \in 1..orivars, x # o, mapto[x] # 0 PROVE a[mapto[x]] = b[mapto[x]]
      <4>1. mapto[x] \in 1..vars /\ mapfrom[mapto[x]] = x
        BY <1>1, <3>2 DEF MapInv
      <4>2. mapto[x] # v
        BY <3>2, <4>1 DEF o
      <4> QED
        BY <2>4, <4>1, <4>2
    <3>3. m = [x \in 1..orivars |-> IF IsEliminated(x) \/ x = o THEN 0
                        ELSE IF mapto[x] # 0 THEN a[mapto[x]] ELSE mapval[x]]
      BY <2>3 DEF Known
    <3> QED
      BY <3>1, <3>2, <3>3
  <2>11. Recovered(all, Append(Eliminated, o), m) = Recovered(res_clause, Eliminated, Known(a))
    <3> DEFINE S == [row : RowsOver(orivars), owner : 1..orivars]
               st == Stored(v)
               k == Known(a)
    <3>1. res_clause \in Seq(S) /\ st \in Seq(S)
      BY <1>1, StoredList DEF StoredInv
    <3>2. Eliminated \in Seq(1..orivars)
      BY <1>6 DEF EliminatedFine
    <3>3. RecoverOne(res_clause \o st, [values |-> m, last |-> Len(res_clause \o st), ok |-> TRUE], o)
             = [values |-> k, last |-> Len(res_clause), ok |-> TRUE]
      BY <2>3, Zenon
    <3>4. m \in Values /\ k \in Values /\ o \in 1..orivars
      BY <2>3, <2>6
    <3> HIDE DEF S, st, k, m
    <3>5. Recovered(res_clause \o st, Append(Eliminated, o), m) = Recovered(res_clause, Eliminated, k)
      BY <3>1, <3>2, <3>3, <3>4, RecoveredLast
    <3> QED
      BY <3>5 DEF st, k
  <2>12. Recovered(res_clause', Eliminated', Known(b)') = Recovered(res_clause, Eliminated, Known(a))
    BY <1>1, <1>8, <2>10, <2>11
  <2>13. Completion(b)' = Completion(a)
    BY <2>6, <2>8, <2>12
  <2> QED
    BY <2>5, <2>13
<1> QED
  BY <1>4, <1>9 DEF CarriedBack
=============================================================================
