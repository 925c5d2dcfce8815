------------------------- MODULE ScoreUpdateProofs -------------------------
(* The incremental counts and row stacks are what a recount would give, for *)
(* every formula: one flip keeps them exact.                                *)
EXTENDS ScoreUpdate, NatRecursion

-----------------------------------------------------------------------------
(* What sums over the rows are: integers, built one row at a time, additive *)
(* and determined by the summands.  By induction on the number of rows.     *)

\* The recursion of PrefixSum defines a function on the naturals.
LEMMA PrefixSumRecursion ==
  ASSUME NEW f, \A k \in DOMAIN f : f[k] \in Int
  PROVE  /\ PrefixSum(f) \in [Nat -> Int]
         /\ PrefixSum(f)[0] = 0
         /\ \A k \in Nat : PrefixSum(f)[k + 1]
              = PrefixSum(f)[k] + (IF k + 1 \in DOMAIN f THEN f[k + 1] ELSE 0)
<1> DEFINE term(k) == IF k \in DOMAIN f THEN f[k] ELSE 0
           F == [k \in Nat |-> [x \in Int |-> x + term(k)]]
           Body(g, k) == IF k = 0 THEN 0 ELSE g[k - 1] + term(k)
<1>1. \A k \in Nat : term(k) \in Int
  OBVIOUS
<1> HIDE DEF term
<1>2. F \in [Nat -> [Int -> Int]] /\ \A k \in Nat : \A x \in Int : F[k][x] = x + term(k)
  BY <1>1
<1> HIDE DEF F
<1>3. PICK g : Iterates(g, Int, 0, F)
  BY <1>2, NatRecursionExists
<1>4. g \in [Nat -> Int] /\ g[0] = 0 /\ \A k \in Nat : g[k + 1] = F[k + 1][g[k]]
  BY <1>3 DEF Iterates
<1>5. g = [k \in Nat |-> Body(g, k)]
  <2> SUFFICES ASSUME NEW k \in Nat PROVE g[k] = Body(g, k)
    BY <1>4
  <2>1. CASE k = 0
    BY <1>4, <2>1
  <2>2. CASE k # 0
    <3>1. k - 1 \in Nat /\ (k - 1) + 1 = k
      BY <2>2
    <3>2. g[k] = F[k][g[k - 1]] /\ g[k - 1] \in Int
      BY <1>4, <3>1
    <3> QED BY <1>2, <2>2, <3>2
  <2> QED BY <2>1, <2>2
<1>6. PrefixSum(f) = CHOOSE h : h = [k \in Nat |-> Body(h, k)]
  BY DEF PrefixSum, term
<1>7. PrefixSum(f) = [k \in Nat |-> Body(PrefixSum(f), k)]
  BY <1>5, <1>6
<1> DEFINE p == PrefixSum(f)
           T == {k \in Nat : p[k] \in Int}
<1>7a. p = [k \in Nat |-> Body(p, k)]
  BY <1>7
<1> HIDE DEF p
<1>8. p[0] = 0
  BY <1>7a
<1>9. \A k \in Nat : p[k + 1] = p[k] + term(k + 1)
  BY <1>7a
<1>10. \A k \in Nat : k \in T => k + 1 \in T
  BY <1>1, <1>9
<1>11. 0 \in T
  BY <1>8
<1> HIDE DEF T
<1>12. Nat \subseteq T
  BY <1>10, <1>11, NatInductionSet
<1>13. p \in [Nat -> Int]
  BY <1>7a, <1>12 DEF T
<1> QED
  BY <1>8, <1>9, <1>13 DEF p, term

\* A sum of integers is an integer, and grows by one summand at a time.
THEOREM SumToStep ==
  ASSUME NEW n \in Nat, NEW f \in [1..n -> Int]
  PROVE  /\ \A k \in Nat : SumTo(f, k) \in Int
         /\ SumTo(f, 0) = 0
         /\ \A k \in Nat : k < n => SumTo(f, k + 1) = SumTo(f, k) + f[k + 1]
<1>1. DOMAIN f = 1..n /\ \A k \in DOMAIN f : f[k] \in Int
  OBVIOUS
<1>2. /\ PrefixSum(f) \in [Nat -> Int] /\ PrefixSum(f)[0] = 0
      /\ \A k \in Nat : PrefixSum(f)[k + 1]
           = PrefixSum(f)[k] + (IF k + 1 \in DOMAIN f THEN f[k + 1] ELSE 0)
  BY <1>1, PrefixSumRecursion
<1>3. \A k \in Nat : k < n => k + 1 \in DOMAIN f
  BY <1>1
<1> QED
  BY <1>2, <1>3 DEF SumTo

\* The sum of a sum is the sum of the sums.
THEOREM SumToAdditive ==
  ASSUME NEW n \in Nat, NEW f \in [1..n -> Int], NEW g \in [1..n -> Int],
         NEW h \in [1..n -> Int], \A k \in 1..n : h[k] = f[k] + g[k]
  PROVE  SumTo(h, n) = SumTo(f, n) + SumTo(g, n)
<1> DEFINE T == {k \in Nat : k <= n => SumTo(h, k) = SumTo(f, k) + SumTo(g, k)}
<1>1. /\ \A k \in Nat : /\ SumTo(f, k) \in Int /\ SumTo(g, k) \in Int
                        /\ SumTo(h, k) \in Int
      /\ SumTo(f, 0) = 0 /\ SumTo(g, 0) = 0 /\ SumTo(h, 0) = 0
      /\ \A k \in Nat : k < n => /\ SumTo(f, k + 1) = SumTo(f, k) + f[k + 1]
                                 /\ SumTo(g, k + 1) = SumTo(g, k) + g[k + 1]
                                 /\ SumTo(h, k + 1) = SumTo(h, k) + h[k + 1]
  BY SumToStep
<1>2. 0 \in T
  BY <1>1
<1>3. ASSUME NEW k \in Nat, k \in T PROVE k + 1 \in T
  <2> SUFFICES ASSUME k + 1 <= n PROVE SumTo(h, k + 1) = SumTo(f, k + 1) + SumTo(g, k + 1)
    OBVIOUS
  <2>1. k < n /\ k <= n /\ k + 1 \in 1..n
    OBVIOUS
  <2>2. h[k + 1] = f[k + 1] + g[k + 1] /\ f[k + 1] \in Int /\ g[k + 1] \in Int
    BY <2>1
  <2>3. SumTo(h, k) = SumTo(f, k) + SumTo(g, k)
    BY <1>3, <2>1
  <2> QED BY <1>1, <2>1, <2>2, <2>3
<1> HIDE DEF T
<1>4. Nat \subseteq T
  BY <1>2, <1>3, NatInductionSet
<1> QED
  BY <1>4 DEF T

\* A sum of zeros is zero.
THEOREM SumToZero ==
  ASSUME NEW n \in Nat, NEW f \in [1..n -> Int], \A k \in 1..n : f[k] = 0
  PROVE  SumTo(f, n) = 0
<1> DEFINE T == {k \in Nat : k <= n => SumTo(f, k) = 0}
<1>1. 0 \in T
  BY SumToStep
<1>2. ASSUME NEW k \in Nat, k \in T PROVE k + 1 \in T
  <2> SUFFICES ASSUME k + 1 <= n PROVE SumTo(f, k + 1) = 0
    OBVIOUS
  <2>1. k < n /\ k + 1 \in 1..n /\ SumTo(f, k) = 0
    BY <1>2
  <2>2. SumTo(f, k + 1) = SumTo(f, k) + f[k + 1]
    BY <2>1, SumToStep
  <2> QED BY <2>1, <2>2
<1> HIDE DEF T
<1>3. Nat \subseteq T
  BY <1>1, <1>2, NatInductionSet
<1> QED
  BY <1>3 DEF T

-----------------------------------------------------------------------------
(* The counts and the scores. *)

\* The rows that miss their degree.
Short(sol) == {c \in Rows : SatCount(sol, c) < clause_true_lit_thres[c]}

\* A count of true literals is a number.
LEMMA SatCountType == \A sol, c : c \in Rows => SatCount(sol, c) \in Nat
<1> SUFFICES ASSUME NEW sol, NEW c \in Rows PROVE SatCount(sol, c) \in Nat
  OBVIOUS
<1>1. Len(clause_lit[c]) \in Nat
  BY KNFAssumption
<1>2. IsFiniteSet(Positions(c))
  BY <1>1, FS_Interval DEF Positions
<1> QED
  BY <1>2, FS_Subset, FS_CardinalityType DEF SatCount, TruePositions

\* Flipping a variable of a row changes its true literals by one.
LEMMA FlipChangesCount ==
  ASSUME NEW sol \in Assignments, NEW u \in Vars, NEW c \in Rows
  PROVE  /\ FlipVar(sol, u) \in Assignments
         /\ SatCount(sol, c) \in Nat
         /\ SatCount(FlipVar(sol, u), c)
              = IF ~Occurs(c, u) THEN SatCount(sol, c)
                ELSE IF LitTrue(sol, c, u) THEN SatCount(sol, c) - 1
                                           ELSE SatCount(sol, c) + 1
<1> DEFINE new == FlipVar(sol, u)
           A == TruePositions(sol, c)
           B == TruePositions(new, c)
<1>1. new \in Assignments /\ new[u] = 1 - sol[u] /\ \A v \in Vars : v # u => new[v] = sol[v]
  BY DEF Assignments, FlipVar
<1>2. /\ Len(clause_lit[c]) \in Nat
      /\ \A j \in Positions(c) : VarNum(c, j) \in Vars
      /\ \A i, j \in Positions(c) : VarNum(c, i) = VarNum(c, j) => i = j
  BY KNFAssumption, OncePerRow DEF Positions
<1>3. IsFiniteSet(Positions(c))
  BY <1>2, FS_Interval DEF Positions
<1>4. IsFiniteSet(A) /\ Cardinality(A) \in Nat
  BY <1>3, FS_Subset, FS_CardinalityType DEF TruePositions
<1>5. \A j \in Positions(c) : Sense(c, j) \in {0, 1}
  BY DEF Sense
<1>6. SatCount(sol, c) = Cardinality(A) /\ SatCount(new, c) = Cardinality(B)
  BY DEF SatCount
<1>7. CASE ~Occurs(c, u)
  <2>1. \A j \in Positions(c) : VarNum(c, j) # u
    BY <1>7 DEF Occurs, RowVars
  <2>2. A = B
    BY <1>1, <1>2, <2>1 DEF TruePositions
  <2> QED BY <1>1, <1>4, <1>6, <1>7, <2>2
<1>8. CASE Occurs(c, u)
  <2>1. PICK j \in Positions(c) : VarNum(c, j) = u
    BY <1>8 DEF Occurs, RowVars
  <2>2. RowSense[c][u] = Sense(c, j)
    <3>1. (CHOOSE i \in Positions(c) : VarNum(c, i) = u) = j
      BY <1>2, <2>1
    <3>2. u \in RowVars[c]
      BY <1>8 DEF Occurs
    <3> QED BY <3>1, <3>2 DEF RowSense
  <2>3. sol[u] \in {0, 1}
    BY DEF Assignments
  <2>4. \A i \in Positions(c) : i # j => VarNum(c, i) # u /\ VarNum(c, i) \in Vars
    BY <1>2, <2>1
  <2>5. \A i \in Positions(c) : i # j => (i \in A <=> i \in B)
    BY <1>1, <2>4 DEF TruePositions
  <2>6. j \in A <=> LitTrue(sol, c, u)
    BY <2>1, <2>2 DEF TruePositions, LitTrue
  <2>7. j \in B <=> ~LitTrue(sol, c, u)
    BY <1>1, <1>5, <2>1, <2>2, <2>3 DEF TruePositions, LitTrue
  <2>8. A \subseteq Positions(c) /\ B \subseteq Positions(c)
    BY DEF TruePositions
  <2>9. CASE LitTrue(sol, c, u)
    <3>1. B = A \ {j} /\ j \in A
      BY <2>5, <2>6, <2>7, <2>8, <2>9
    <3>2. Cardinality(B) = Cardinality(A) - 1
      BY <1>4, <3>1, FS_RemoveElement
    <3> QED BY <1>1, <1>4, <1>6, <1>8, <2>9, <3>2
  <2>10. CASE ~LitTrue(sol, c, u)
    <3>1. B = A \cup {j} /\ j \notin A
      BY <2>1, <2>5, <2>6, <2>7, <2>8, <2>10
    <3>2. Cardinality(B) = Cardinality(A) + 1
      BY <1>4, <3>1, FS_AddElement
    <3> QED BY <1>1, <1>4, <1>6, <1>8, <2>10, <3>2
  <2> QED BY <2>9, <2>10
<1> QED
  BY <1>7, <1>8

\* The counts, the stacks and the counter of a search state are right.
RowsExact(st) ==
  /\ st.sat_count = [c \in Rows |-> SatCount(st.cur_soln, c)]
  /\ st.hardunsat = Short(st.cur_soln)
  /\ st.hard_unsat_nb = Cardinality(st.hardunsat)
  /\ st.cardinalitysat = {c \in Rows : IsCardinality(c)} \ st.hardunsat

SearchStates ==
  [ cur_soln : Assignments, sat_count : [Rows -> Int], hardunsat : SUBSET Rows,
    hard_unsat_nb : Int, cardinalitysat : SUBSET Rows, unit_weight : [Rows -> Nat],
    score : [Vars -> Int], goodvar : SUBSET Vars ]

LEMMA RowsFinite == \A S \in SUBSET Rows : IsFiniteSet(S) /\ Cardinality(S) \in Nat
<1>1. IsFiniteSet(Rows)
  BY KNFAssumption, FS_Interval DEF Rows
<1> QED
  BY <1>1, FS_Subset, FS_CardinalityType

\* What FlipCounts writes, field by field.
LEMMA FlipCountsFields ==
  ASSUME NEW st \in SearchStates, NEW u
  PROVE  LET new == FlipCounts(st, u)
         IN  /\ new.cur_soln = FlipVar(st.cur_soln, u)
             /\ new.sat_count = [c \in Rows |-> NewCount(st, u, c)]
             /\ new.hardunsat = (st.hardunsat \ NowSat(st, u)) \cup NowUnsat(st, u)
             /\ new.hard_unsat_nb = st.hard_unsat_nb - Cardinality(NowSat(st, u))
                                     + Cardinality(NowUnsat(st, u))
             /\ new.cardinalitysat = (st.cardinalitysat \ NowUnsat(st, u))
                                      \cup {c \in NowSat(st, u) : IsCardinality(c)}
             /\ new.unit_weight = st.unit_weight /\ new.score = st.score
             /\ new.goodvar = st.goodvar
             /\ DOMAIN new = DOMAIN st /\ new = [f \in DOMAIN new |-> new[f]]
<1>1. DOMAIN st = {"cur_soln", "sat_count", "hardunsat", "hard_unsat_nb",
                   "cardinalitysat", "unit_weight", "score", "goodvar"}
  BY DEF SearchStates
<1> QED
  BY <1>1, Zenon DEF FlipCounts

\* One flip keeps them right.
LEMMA FlipCountsExact ==
  ASSUME NEW st \in SearchStates, RowsExact(st), NEW u \in Vars
  PROVE  /\ FlipCounts(st, u) \in SearchStates
         /\ RowsExact(FlipCounts(st, u))
         /\ FlipCounts(st, u).cur_soln = FlipVar(st.cur_soln, u)
         /\ FlipCounts(st, u).unit_weight = st.unit_weight
<1> DEFINE new == FlipCounts(st, u)
           sol == st.cur_soln
           hu == st.hardunsat
           up == NowSat(st, u)
           down == NowUnsat(st, u)
<1>1. /\ sol \in Assignments /\ hu \subseteq Rows /\ st.hard_unsat_nb = Cardinality(hu)
      /\ hu = Short(sol) /\ \A c \in Rows : st.sat_count[c] = SatCount(sol, c)
      /\ \A c \in Rows : clause_true_lit_thres[c] \in Nat
  BY KNFAssumption DEF SearchStates, RowsExact
<1>2. \A c \in Rows : /\ NewCount(st, u, c) = SatCount(FlipVar(sol, u), c)
                      /\ NewCount(st, u, c) \in Int /\ SatCount(sol, c) \in Int
  BY <1>1, FlipChangesCount DEF NewCount
<1>3. FlipVar(sol, u) \in Assignments
  BY <1>1 DEF Assignments, FlipVar
<1>4. /\ up = {c \in Rows : /\ SatCount(sol, c) < clause_true_lit_thres[c]
                            /\ SatCount(FlipVar(sol, u), c) >= clause_true_lit_thres[c]}
      /\ down = {c \in Rows : /\ SatCount(sol, c) >= clause_true_lit_thres[c]
                              /\ SatCount(FlipVar(sol, u), c) < clause_true_lit_thres[c]}
  BY <1>1, <1>2 DEF NowSat, NowUnsat
<1>5. /\ new.cur_soln = FlipVar(sol, u)
      /\ new.sat_count = [c \in Rows |-> NewCount(st, u, c)]
      /\ new.hardunsat = (hu \ up) \cup down
      /\ new.hard_unsat_nb = Cardinality(hu) - Cardinality(up) + Cardinality(down)
      /\ new.cardinalitysat = (st.cardinalitysat \ down) \cup {c \in up : IsCardinality(c)}
      /\ new.unit_weight = st.unit_weight /\ new.score = st.score /\ new.goodvar = st.goodvar
      /\ DOMAIN new = DOMAIN st /\ new = [f \in DOMAIN new |-> new[f]]
  BY <1>1, FlipCountsFields
<1> HIDE DEF new, sol, hu, up, down
<1>6. up \subseteq hu /\ down \cap hu = {} /\ down \subseteq Rows /\ up \subseteq Rows
  BY <1>1, <1>2, <1>4 DEF Short
<1>7. new.hardunsat = Short(FlipVar(sol, u))
  <2>1. \A c \in Rows : c \in (hu \ up) \cup down
                          <=> SatCount(FlipVar(sol, u), c) < clause_true_lit_thres[c]
    BY <1>1, <1>2, <1>4 DEF Short
  <2> QED BY <1>1, <1>5, <1>6, <2>1 DEF Short
<1>8. new.hard_unsat_nb = Cardinality(new.hardunsat) /\ new.hard_unsat_nb \in Int
  <2>1. /\ IsFiniteSet(hu) /\ IsFiniteSet(up) /\ IsFiniteSet(down) /\ IsFiniteSet(hu \ up)
        /\ Cardinality(hu) \in Nat /\ Cardinality(up) \in Nat /\ Cardinality(down) \in Nat
    BY <1>1, <1>6, RowsFinite
  <2>2. Cardinality(hu \ up) = Cardinality(hu) - Cardinality(up)
    <3>1. hu \cap up = up
      BY <1>6
    <3> QED BY <2>1, <3>1, FS_Difference
  <2>3. Cardinality((hu \ up) \cup down) = Cardinality(hu \ up) + Cardinality(down)
    <3>1. (hu \ up) \cap down = {}
      BY <1>6
    <3>2. Cardinality({}) = 0
      BY FS_EmptySet
    <3>3. Cardinality(hu \ up) \in Nat
      BY <2>1, FS_CardinalityType
    <3>4. Cardinality((hu \ up) \cup down)
            = Cardinality(hu \ up) + Cardinality(down) - Cardinality((hu \ up) \cap down)
      BY <2>1, FS_Union
    <3>5. Cardinality((hu \ up) \cap down) = 0
      BY <3>1, <3>2
    <3> QED BY <2>1, <3>3, <3>4, <3>5
  <2> QED BY <1>5, <2>1, <2>2, <2>3
<1>9. new.cardinalitysat = {c \in Rows : IsCardinality(c)} \ new.hardunsat
  <2>1. st.cardinalitysat = {c \in Rows : IsCardinality(c)} \ hu
    BY DEF RowsExact, hu
  <2> QED BY <1>5, <1>6, <2>1
<1>10. new.sat_count = [c \in Rows |-> SatCount(FlipVar(sol, u), c)]
  BY <1>2, <1>5
<1>11. RowsExact(new)
  BY <1>5, <1>7, <1>8, <1>9, <1>10 DEF RowsExact
<1>12. new \in SearchStates
  <2>1. st.unit_weight \in [Rows -> Nat] /\ st.score \in [Vars -> Int] /\ st.goodvar \in SUBSET Vars
    BY DEF SearchStates
  <2>2. new.sat_count \in [Rows -> Int]
    BY <1>2, <1>5
  <2>3. new.hardunsat \subseteq Rows /\ new.cardinalitysat \subseteq Rows
    BY <1>1, <1>5, <1>6, <1>9
  <2>4. new = [cur_soln |-> new.cur_soln, sat_count |-> new.sat_count,
               hardunsat |-> new.hardunsat, hard_unsat_nb |-> new.hard_unsat_nb,
               cardinalitysat |-> new.cardinalitysat, unit_weight |-> new.unit_weight,
               score |-> new.score, goodvar |-> new.goodvar]
    BY <1>5 DEF SearchStates
  <2> QED BY <1>3, <1>5, <1>8, <2>1, <2>2, <2>3, <2>4 DEF SearchStates
<1> QED
  BY <1>5, <1>11, <1>12 DEF new, sol

----------------------------------------------------------------------------
(* Scores.  A score is a sum over the rows, and each row contributes what   *)
(* flipping the variable would gain there.                                  *)

\* What row c gains, under weight w, by flipping v.
RowGain(sol, w, c, v) ==
  IF ~Occurs(c, v) THEN 0
  ELSE IF LitTrue(sol, c, v)
       THEN IF SatCount(sol, c) <= clause_true_lit_thres[c] THEN -w ELSE 0
       ELSE IF SatCount(sol, c) < clause_true_lit_thres[c] THEN w ELSE 0

Gains(sol, weight, v) == [c \in Rows |-> RowGain(sol, weight[c], c, v)]

LEMMA GainsType ==
  ASSUME NEW sol \in Assignments, NEW weight \in [Rows -> Int], NEW v \in Vars
  PROVE  /\ Gains(sol, weight, v) \in [1..num_clauses -> Int]
         /\ RowSum(Gains(sol, weight, v)) \in Int
<1>1. \A c \in Rows : weight[c] \in Int /\ -weight[c] \in Int
  OBVIOUS
<1>2. \A c \in Rows : RowGain(sol, weight[c], c, v) \in Int
  BY <1>1 DEF RowGain
<1>3. Gains(sol, weight, v) \in [1..num_clauses -> Int] /\ num_clauses \in Nat
  BY <1>2, KNFAssumption DEF Gains, Rows
<1> QED
  BY <1>3, SumToStep DEF RowSum

\* The sum of these gains is the drop of the weighted violation.
LEMMA GainIsCostDrop ==
  ASSUME NEW sol \in Assignments, NEW weight \in [Rows -> Int], NEW v \in Vars
  PROVE  RowSum(Gains(sol, weight, v)) = Cost(sol, weight) - Cost(FlipVar(sol, v), weight)
<1> DEFINE flipped == FlipVar(sol, v)
           before == [c \in Rows |-> weight[c] * Shortfall(sol, c)]
           after  == [c \in Rows |-> weight[c] * Shortfall(flipped, c)]
<1>1. /\ num_clauses \in Nat /\ Rows = 1..num_clauses
      /\ \A c \in Rows : clause_true_lit_thres[c] \in Nat
  BY KNFAssumption DEF Rows
<1>2. ASSUME NEW c \in Rows
      PROVE  /\ weight[c] * Shortfall(sol, c) \in Int
             /\ weight[c] * Shortfall(flipped, c) \in Int
             /\ weight[c] * Shortfall(sol, c)
                  = RowGain(sol, weight[c], c, v) + weight[c] * Shortfall(flipped, c)
  <2> DEFINE w == weight[c]
             thr == clause_true_lit_thres[c]
             n == SatCount(sol, c)
             m == SatCount(flipped, c)
  <2>1. /\ n \in Nat /\ m = IF ~Occurs(c, v) THEN n ELSE IF LitTrue(sol, c, v) THEN n - 1 ELSE n + 1
        /\ w \in Int /\ thr \in Nat
    BY <1>1, FlipChangesCount
  <2>2. /\ Shortfall(sol, c) = IF n < thr THEN thr - n ELSE 0
        /\ Shortfall(flipped, c) = IF m < thr THEN thr - m ELSE 0
    BY DEF Shortfall
  <2> HIDE DEF w, thr, n, m, flipped
  <2>3. \A x \in Int : w * x \in Int /\ w * (x + 1) = w * x + w /\ w * 0 = 0 /\ w * 1 = w
    BY <2>1
  <2>4. CASE ~Occurs(c, v)
    <3>1. RowGain(sol, w, c, v) = 0
      BY <2>4 DEF RowGain
    <3>2. Shortfall(sol, c) = Shortfall(flipped, c) /\ Shortfall(sol, c) \in Int
      BY <2>1, <2>2, <2>4
    <3> QED BY <2>3, <3>1, <3>2 DEF w
  <2>5. CASE Occurs(c, v) /\ LitTrue(sol, c, v)
    <3>1. RowGain(sol, w, c, v) = IF n <= thr THEN -w ELSE 0
      BY <2>5 DEF RowGain, n, thr
    <3>2. CASE n <= thr
      <4>1. Shortfall(sol, c) \in Int /\ Shortfall(flipped, c) = Shortfall(sol, c) + 1
        BY <2>1, <2>2, <2>5, <3>2
      <4>2. w * Shortfall(flipped, c) = w * Shortfall(sol, c) + w /\ w * Shortfall(sol, c) \in Int
        BY <2>3, <4>1
      <4>3. w * Shortfall(flipped, c) \in Int
        BY <2>1, <4>2
      <4> QED BY <2>1, <3>1, <3>2, <4>2, <4>3 DEF w
    <3>3. CASE ~(n <= thr)
      <4>1. Shortfall(sol, c) = 0 /\ Shortfall(flipped, c) = 0
        BY <2>1, <2>2, <2>5, <3>3
      <4> QED BY <2>1, <2>3, <3>1, <3>3, <4>1 DEF w
    <3> QED BY <3>2, <3>3
  <2>6. CASE Occurs(c, v) /\ ~LitTrue(sol, c, v)
    <3>1. RowGain(sol, w, c, v) = IF n < thr THEN w ELSE 0
      BY <2>6 DEF RowGain, n, thr
    <3>2. CASE n < thr
      <4>1. Shortfall(flipped, c) \in Int /\ Shortfall(sol, c) = Shortfall(flipped, c) + 1
        BY <2>1, <2>2, <2>6, <3>2
      <4>2. w * Shortfall(sol, c) = w * Shortfall(flipped, c) + w /\ w * Shortfall(flipped, c) \in Int
        BY <2>3, <4>1
      <4> QED BY <2>1, <3>1, <3>2, <4>2 DEF w
    <3>3. CASE ~(n < thr)
      <4>1. Shortfall(sol, c) = 0 /\ Shortfall(flipped, c) = 0
        BY <2>1, <2>2, <2>6, <3>3
      <4> QED BY <2>1, <2>3, <3>1, <3>3, <4>1 DEF w
    <3> QED BY <3>2, <3>3
  <2> QED BY <2>4, <2>5, <2>6
<1>3. /\ before \in [1..num_clauses -> Int] /\ after \in [1..num_clauses -> Int]
      /\ Gains(sol, weight, v) \in [1..num_clauses -> Int]
      /\ \A c \in 1..num_clauses : before[c] = Gains(sol, weight, v)[c] + after[c]
  BY <1>1, <1>2, GainsType DEF Gains
<1>4. SumTo(before, num_clauses) = RowSum(Gains(sol, weight, v)) + SumTo(after, num_clauses)
  <2> HIDE DEF before, after
  <2> QED BY <1>1, <1>3, SumToAdditive DEF RowSum
<1>5. SumTo(before, num_clauses) \in Int /\ SumTo(after, num_clauses) \in Int
  <2> HIDE DEF before, after
  <2> QED BY <1>1, <1>3, SumToStep
<1>6. Cost(sol, weight) = SumTo(before, num_clauses)
  BY DEF Cost
<1>7. Cost(flipped, weight) = SumTo(after, num_clauses)
  BY DEF Cost
<1>8. RowSum(Gains(sol, weight, v)) \in Int
  BY GainsType
<1> HIDE DEF before, after, flipped
<1> QED
  BY <1>4, <1>5, <1>6, <1>7, <1>8 DEF flipped

\* Flipping u changes what a row would gain from another variable by exactly
\* what the occurrence of u in that row adds to its score, and negates what
\* the row would gain from u itself.
LEMMA RowGainAfterFlip ==
  ASSUME NEW st \in SearchStates, RowsExact(st), NEW u \in Vars, NEW v \in Vars, NEW c \in Rows
  PROVE  LET sol == st.cur_soln
             w == st.unit_weight[c]
         IN  /\ RowDelta(st, u, c, v) \in Int
             /\ v # u => RowGain(FlipVar(sol, u), w, c, v)
                           = RowGain(sol, w, c, v) + RowDelta(st, u, c, v)
             /\ RowGain(FlipVar(sol, u), w, c, u) = -RowGain(sol, w, c, u)
<1> DEFINE sol == st.cur_soln
           w == st.unit_weight[c]
           thr == clause_true_lit_thres[c]
           n == SatCount(sol, c)
           m == SatCount(FlipVar(sol, u), c)
<1>1. /\ sol \in Assignments /\ w \in Int /\ thr \in Nat /\ n \in Nat
      /\ m = IF ~Occurs(c, u) THEN n ELSE IF LitTrue(sol, c, u) THEN n - 1 ELSE n + 1
  BY KNFAssumption, FlipChangesCount DEF SearchStates
<1>2. st.sat_count[c] = n /\ NewCount(st, u, c) = m
  BY <1>1 DEF RowsExact, NewCount
<1>3. v # u => (LitTrue(FlipVar(sol, u), c, v) <=> LitTrue(sol, c, v))
  BY <1>1 DEF LitTrue, FlipVar, Assignments
<1>4. Occurs(c, u) => (LitTrue(FlipVar(sol, u), c, u) <=> ~LitTrue(sol, c, u))
  <2>1. RowSense[c] \in [RowVars[c] -> {0, 1}]
    BY DEF RowSense, Sense
  <2>2. sol[u] \in {0, 1} /\ FlipVar(sol, u)[u] = 1 - sol[u]
    BY <1>1 DEF FlipVar, Assignments
  <2> QED BY <2>1, <2>2 DEF LitTrue, Occurs
<1>5. RowDelta(st, u, c, v) =
        IF /\ Occurs(c, u) /\ Occurs(c, v) /\ v # u
           /\ n = thr \/ m = thr
           /\ LitTrue(sol, c, v) <=> TouchedPhase(thr, n, m)
        THEN TouchDelta(thr, w, n, m) ELSE 0
  BY <1>2 DEF RowDelta
<1>6. /\ RowGain(sol, w, c, v) =
           IF ~Occurs(c, v) THEN 0
           ELSE IF LitTrue(sol, c, v) THEN IF n <= thr THEN -w ELSE 0
                                      ELSE IF n < thr THEN w ELSE 0
      /\ RowGain(sol, w, c, u) =
           IF ~Occurs(c, u) THEN 0
           ELSE IF LitTrue(sol, c, u) THEN IF n <= thr THEN -w ELSE 0
                                      ELSE IF n < thr THEN w ELSE 0
      /\ RowGain(FlipVar(sol, u), w, c, v) =
           IF ~Occurs(c, v) THEN 0
           ELSE IF LitTrue(FlipVar(sol, u), c, v) THEN IF m <= thr THEN -w ELSE 0
                                                  ELSE IF m < thr THEN w ELSE 0
      /\ RowGain(FlipVar(sol, u), w, c, u) =
           IF ~Occurs(c, u) THEN 0
           ELSE IF LitTrue(FlipVar(sol, u), c, u) THEN IF m <= thr THEN -w ELSE 0
                                                  ELSE IF m < thr THEN w ELSE 0
  BY DEF RowGain
<1> HIDE DEF sol, w, thr, n, m
<1>7. TouchDelta(thr, w, n, m) \in Int
  BY <1>1 DEF TouchDelta
<1>8. RowDelta(st, u, c, v) \in Int
  BY <1>5, <1>7
<1>9. RowGain(FlipVar(sol, u), w, c, u) = -RowGain(sol, w, c, u)
  BY <1>1, <1>4, <1>6
<1>10. ASSUME v # u
       PROVE  RowGain(FlipVar(sol, u), w, c, v) = RowGain(sol, w, c, v) + RowDelta(st, u, c, v)
  <2>1. CASE ~Occurs(c, u) \/ ~Occurs(c, v)
    BY <1>1, <1>3, <1>5, <1>6, <1>10, <2>1
  <2>2. CASE Occurs(c, u) /\ Occurs(c, v) /\ LitTrue(sol, c, u)
    <3>1. m = n - 1
      BY <1>1, <2>2
    <3> QED BY <1>1, <1>3, <1>5, <1>6, <1>10, <2>2, <3>1 DEF TouchedPhase, TouchDelta
  <2>3. CASE Occurs(c, u) /\ Occurs(c, v) /\ ~LitTrue(sol, c, u)
    <3>1. m = n + 1
      BY <1>1, <2>3
    <3> QED BY <1>1, <1>3, <1>5, <1>6, <1>10, <2>3, <3>1 DEF TouchedPhase, TouchDelta
  <2> QED BY <2>1, <2>2, <2>3
<1> QED
  BY <1>8, <1>9, <1>10 DEF sol, w

\* Every score is the sum of the gains.
ScoresExact(st) ==
  \A v \in Vars : st.score[v] = RowSum(Gains(st.cur_soln, st.unit_weight, v))

\* The scores that a flip computes are those of the flipped assignment.
LEMMA FlipScoreExact ==
  ASSUME NEW st \in SearchStates, RowsExact(st), ScoresExact(st), NEW u \in Vars
  PROVE  /\ FlipScore(st, u) \in [Vars -> Int]
         /\ \A v \in Vars : /\ Deltas(st, u, v) \in [1..num_clauses -> Int]
                            /\ FlipScore(st, u)[v]
                                 = RowSum(Gains(FlipVar(st.cur_soln, u), st.unit_weight, v))
<1> DEFINE sol == st.cur_soln
           weight == st.unit_weight
           new == FlipVar(sol, u)
<1>1. /\ sol \in Assignments /\ new \in Assignments /\ weight \in [Rows -> Int]
      /\ num_clauses \in Nat /\ Rows = 1..num_clauses
  BY KNFAssumption, FlipChangesCount DEF SearchStates, Rows, FlipVar, Assignments
<1>2. \A v \in Vars : Deltas(st, u, v) \in [1..num_clauses -> Int]
  BY <1>1, RowGainAfterFlip DEF Deltas
<1>3. ASSUME NEW v \in Vars
      PROVE  /\ FlipScore(st, u)[v] = RowSum(Gains(new, weight, v))
             /\ FlipScore(st, u)[v] \in Int
  <2> DEFINE old == Gains(sol, weight, v)
             next == Gains(new, weight, v)
             delta == Deltas(st, u, v)
             zero == [c \in 1..num_clauses |-> 0]
  <2>1. /\ old \in [1..num_clauses -> Int] /\ next \in [1..num_clauses -> Int]
        /\ delta \in [1..num_clauses -> Int] /\ zero \in [1..num_clauses -> Int]
        /\ RowSum(old) \in Int /\ RowSum(next) \in Int
    <3>1. old \in [1..num_clauses -> Int] /\ RowSum(old) \in Int
      BY <1>1, GainsType
    <3>2. next \in [1..num_clauses -> Int] /\ RowSum(next) \in Int
      BY <1>1, GainsType
    <3>3. delta \in [1..num_clauses -> Int]
      BY <1>2
    <3>4. zero \in [1..num_clauses -> Int]
      OBVIOUS
    <3> HIDE DEF old, next, delta, zero
    <3> QED BY <3>1, <3>2, <3>3, <3>4
  <2>2. st.score[v] = RowSum(old)
    BY DEF ScoresExact
  <2>3. CASE v = u
    <3>1. \A c \in 1..num_clauses : zero[c] = old[c] + next[c]
      <4> SUFFICES ASSUME NEW c \in Rows PROVE old[c] + next[c] = 0
        BY <1>1
      <4>1. /\ next[c] = Gains(new, weight, u)[c]
            /\ old[c] = Gains(sol, weight, u)[c]
        BY <2>3
      <4>2. Gains(new, weight, u)[c] = -Gains(sol, weight, u)[c]
        BY RowGainAfterFlip DEF Gains
      <4>3. old[c] \in Int
        BY <1>1, <2>1
      <4> HIDE DEF old, next
      <4> QED BY <4>1, <4>2, <4>3
    <3>2. SumTo(zero, num_clauses) = 0
      <4> HIDE DEF zero
      <4>1. \A c \in 1..num_clauses : zero[c] = 0
        BY DEF zero
      <4> QED BY <1>1, <2>1, <4>1, SumToZero
    <3>3. SumTo(zero, num_clauses) = RowSum(old) + RowSum(next)
      <4> HIDE DEF old, next, zero
      <4> QED BY <1>1, <2>1, <3>1, SumToAdditive DEF RowSum
    <3>4. FlipScore(st, u)[v] = -st.score[v]
      BY <2>3 DEF FlipScore
    <3> HIDE DEF old, next, zero
    <3>5. FlipScore(st, u)[v] = RowSum(next)
      BY <2>1, <2>2, <3>2, <3>3, <3>4
    <3> QED BY <2>1, <3>5 DEF next
  <2>4. CASE v # u
    <3>1. \A c \in 1..num_clauses : next[c] = old[c] + delta[c]
      BY <1>1, <2>4, RowGainAfterFlip DEF Gains, Deltas
    <3>2. RowSum(next) = RowSum(old) + RowSum(delta)
      <4> HIDE DEF old, next, delta
      <4> QED BY <1>1, <2>1, <3>1, SumToAdditive DEF RowSum
    <3>3. FlipScore(st, u)[v] = st.score[v] + RowSum(delta)
      BY <2>4 DEF FlipScore
    <3> HIDE DEF old, next, delta
    <3>4. FlipScore(st, u)[v] = RowSum(next)
      BY <2>2, <3>2, <3>3
    <3> QED BY <2>1, <3>4 DEF next
  <2> QED BY <2>3, <2>4
<1>4. FlipScore(st, u) \in [Vars -> Int]
  BY <1>3 DEF FlipScore
<1> QED
  BY <1>2, <1>3, <1>4

----------------------------------------------------------------------------
(* The operations, on a search state that is right in every respect.        *)

StateExact(st) ==
  /\ st \in SearchStates
  /\ RowsExact(st)
  /\ ScoresExact(st)
  /\ \A v \in st.goodvar : st.score[v] > 0

\* Writing the scores and the good variables leaves the rest alone.
LEMMA WriteScores ==
  ASSUME NEW st \in SearchStates, NEW sc \in [Vars -> Int], NEW good \in SUBSET Vars
  PROVE  LET new == WithScores(st, sc, good)
         IN  /\ new \in SearchStates
             /\ new.score = sc /\ new.goodvar = good
             /\ new.cur_soln = st.cur_soln /\ new.unit_weight = st.unit_weight
             /\ RowsExact(st) => RowsExact(new)
<1> DEFINE new == WithScores(st, sc, good)
<1>1. /\ new.score = sc /\ new.goodvar = good
      /\ new.cur_soln = st.cur_soln /\ new.unit_weight = st.unit_weight
      /\ new.sat_count = st.sat_count /\ new.hardunsat = st.hardunsat
      /\ new.hard_unsat_nb = st.hard_unsat_nb /\ new.cardinalitysat = st.cardinalitysat
  BY DEF SearchStates, WithScores
<1>2. new \in SearchStates
  BY DEF SearchStates, WithScores
<1>3. RowsExact(st) => RowsExact(new)
  <2> HIDE DEF new
  <2> QED BY <1>1 DEF RowsExact
<1> QED
  BY <1>1, <1>2, <1>3

\* Either way of flipping.
LEMMA FlipWithNeighborExact ==
  ASSUME NEW st, StateExact(st), NEW u \in Vars
  PROVE  /\ StateExact(FlipWithNeighbor(st, u))
         /\ FlipWithNeighbor(st, u).cur_soln = FlipVar(st.cur_soln, u)
         /\ FlipWithNeighbor(st, u).unit_weight = st.unit_weight
<1> DEFINE counts == FlipCounts(st, u)
           sc == FlipScore(st, u)
           good == UpdateGoodvarStack(st.goodvar, sc, u)
           new == WithScores(counts, sc, good)
<1>1. st \in SearchStates /\ RowsExact(st) /\ ScoresExact(st)
  BY DEF StateExact
<1>2. /\ counts \in SearchStates /\ RowsExact(counts)
      /\ counts.cur_soln = FlipVar(st.cur_soln, u) /\ counts.unit_weight = st.unit_weight
  BY <1>1, FlipCountsExact
<1>3. /\ sc \in [Vars -> Int]
      /\ \A v \in Vars : sc[v] = RowSum(Gains(FlipVar(st.cur_soln, u), st.unit_weight, v))
  BY <1>1, FlipScoreExact
<1>4. good \subseteq Vars /\ \A v \in good : sc[v] > 0
  <2>1. st.goodvar \subseteq Vars /\ var_neighbor[u] \subseteq Vars
    BY <1>1 DEF SearchStates, var_neighbor
  <2> HIDE DEF sc
  <2> QED BY <1>3, <2>1 DEF UpdateGoodvarStack
<1>5. FlipWithNeighbor(st, u) = new
  BY DEF FlipWithNeighbor
<1> HIDE DEF counts, sc, good
<1>6. /\ new \in SearchStates /\ RowsExact(new) /\ new.score = sc /\ new.goodvar = good
      /\ new.cur_soln = counts.cur_soln /\ new.unit_weight = counts.unit_weight
  BY <1>2, <1>3, <1>4, WriteScores
<1> HIDE DEF new
<1> QED
  BY <1>2, <1>3, <1>4, <1>5, <1>6 DEF StateExact, ScoresExact

\* The stack that follows every single change, row by row.
LEMMA GoodAfterRecursion ==
  ASSUME NEW isGood \in BOOLEAN, NEW s \in Int, NEW d \in [1..num_clauses -> Int]
  PROVE  \E after \in [0..num_clauses -> BOOLEAN] :
           /\ GoodAfter(isGood, s, d) <=> after[num_clauses]
           /\ after[0] <=> isGood
           /\ \A c \in 1..num_clauses :
                after[c] <=> IF d[c] > 0 THEN after[c - 1] \/ s + SumTo(d, c) > 0
                             ELSE IF d[c] < 0 THEN after[c - 1] /\ s + SumTo(d, c) > 0
                             ELSE after[c - 1]
<1> DEFINE n == num_clauses
           Pos(c) == s + SumTo(d, c) > 0
           term(g, c) == IF d[c] > 0 THEN g[c - 1] \/ Pos(c)
                         ELSE IF d[c] < 0 THEN g[c - 1] /\ Pos(c)
                         ELSE g[c - 1]
           Body(g, c) == IF c = 0 THEN isGood ELSE term(g, c)
           F == [c \in Nat |-> [b \in BOOLEAN |->
                   IF d[c] > 0 THEN b \/ Pos(c) ELSE IF d[c] < 0 THEN b /\ Pos(c) ELSE b]]
<1>1. n \in Nat
  BY KNFAssumption
<1>2. F \in [Nat -> [BOOLEAN -> BOOLEAN]]
  OBVIOUS
<1>3. \A c \in Nat : \A b \in BOOLEAN : F[c][b] =
         IF d[c] > 0 THEN b \/ Pos(c) ELSE IF d[c] < 0 THEN b /\ Pos(c) ELSE b
  OBVIOUS
<1> HIDE DEF F
<1>4. PICK g : Iterates(g, BOOLEAN, isGood, F)
  BY <1>2, NatRecursionExists
<1>5. g \in [Nat -> BOOLEAN] /\ g[0] = isGood /\ \A c \in Nat : g[c + 1] = F[c + 1][g[c]]
  BY <1>4 DEF Iterates
<1> DEFINE h == [c \in 0..n |-> g[c]]
<1>6. h = [c \in 0..n |-> Body(h, c)]
  <2> SUFFICES ASSUME NEW c \in 0..n PROVE g[c] = Body(h, c)
    OBVIOUS
  <2>1. CASE c = 0
    BY <1>5, <2>1
  <2>2. CASE c # 0
    <3>1. c - 1 \in Nat /\ (c - 1) + 1 = c /\ c - 1 \in 0..n
      BY <1>1, <2>2
    <3>2. g[c] = F[c][g[c - 1]] /\ g[c - 1] \in BOOLEAN /\ h[c - 1] = g[c - 1]
      BY <1>5, <3>1
    <3>3. g[c] = term(h, c)
      BY <1>3, <3>2
    <3> QED BY <2>2, <3>3
  <2> QED BY <2>1, <2>2
<1> DEFINE after == CHOOSE k : k = [c \in 0..n |-> Body(k, c)]
<1>7. after = [c \in 0..n |-> Body(after, c)]
  BY <1>6
<1>8. GoodAfter(isGood, s, d) = after[n]
  BY DEF GoodAfter
<1> HIDE DEF after
<1>9. \A c \in 0..n : after[c] = Body(after, c)
  BY <1>7
<1>10. after[0] = isGood
  BY <1>1, <1>9
<1>11. ASSUME NEW c \in 1..n PROVE after[c] = term(after, c)
  <2>1. c \in 0..n /\ c # 0
    OBVIOUS
  <2> QED BY <1>9, <2>1
<1> DEFINE T == {c \in Nat : c <= n => after[c] \in BOOLEAN}
<1>12. 0 \in T
  BY <1>10
<1>13. ASSUME NEW c \in Nat, c \in T PROVE c + 1 \in T
  <2> SUFFICES ASSUME c + 1 <= n PROVE after[c + 1] \in BOOLEAN
    OBVIOUS
  <2>1. c + 1 \in 1..n /\ (c + 1) - 1 = c /\ after[c] \in BOOLEAN
    BY <1>1, <1>13
  <2>2. after[c + 1] = term(after, c + 1)
    BY <1>11, <2>1
  <2> QED BY <2>1, <2>2
<1> HIDE DEF T
<1>14. Nat \subseteq T
  BY <1>12, <1>13, NatInductionSet
<1>15. \A c \in 0..n : after[c] \in BOOLEAN
  BY <1>1, <1>14 DEF T
<1>16. after \in [0..n -> BOOLEAN]
  BY <1>7, <1>15
<1>17. \A c \in 1..n : after[c] <=> term(after, c)
  BY <1>11, Zenon
<1>18. GoodAfter(isGood, s, d) <=> after[n]
  BY <1>8, Zenon
<1>19. after[0] <=> isGood
  BY <1>10, Zenon
<1> QED
  BY <1>16, <1>17, <1>18, <1>19, Zenon

\* A stack that follows every single change holds the variable only if the
\* score it has in the end is positive.
LEMMA GoodAfterPositive ==
  ASSUME NEW isGood \in BOOLEAN, NEW s \in Int, NEW d \in [1..num_clauses -> Int],
         isGood => s > 0
  PROVE  GoodAfter(isGood, s, d) => s + SumTo(d, num_clauses) > 0
<1> DEFINE n == num_clauses
           Pos(c) == s + SumTo(d, c) > 0
<1>1. PICK after \in [0..n -> BOOLEAN] :
        /\ GoodAfter(isGood, s, d) <=> after[n]
        /\ after[0] <=> isGood
        /\ \A c \in 1..n :
             after[c] <=> IF d[c] > 0 THEN after[c - 1] \/ Pos(c)
                          ELSE IF d[c] < 0 THEN after[c - 1] /\ Pos(c) ELSE after[c - 1]
  BY GoodAfterRecursion
<1>2. /\ n \in Nat /\ SumTo(d, 0) = 0 /\ \A c \in Nat : SumTo(d, c) \in Int
      /\ \A c \in Nat : c < n => SumTo(d, c + 1) = SumTo(d, c) + d[c + 1]
  BY SumToStep, KNFAssumption
<1> DEFINE T == {c \in Nat : c <= n => (after[c] => Pos(c))}
<1>3. 0 \in T
  BY <1>1, <1>2
<1>4. ASSUME NEW c \in Nat, c \in T PROVE c + 1 \in T
  <2> SUFFICES ASSUME c + 1 <= n, after[c + 1] PROVE Pos(c + 1)
    OBVIOUS
  <2>1. c + 1 \in 1..n /\ (c + 1) - 1 = c /\ c < n /\ (after[c] => Pos(c))
    BY <1>2, <1>4
  <2>2. SumTo(d, c + 1) = SumTo(d, c) + d[c + 1] /\ d[c + 1] \in Int
        /\ SumTo(d, c) \in Int /\ SumTo(d, c + 1) \in Int
    BY <1>2, <2>1
  <2>3. IF d[c + 1] > 0 THEN after[c] \/ Pos(c + 1)
        ELSE IF d[c + 1] < 0 THEN after[c] /\ Pos(c + 1) ELSE after[c]
    BY <1>1, <2>1
  <2> QED BY <2>1, <2>2, <2>3
<1> HIDE DEF T
<1>5. Nat \subseteq T
  BY <1>3, <1>4, NatInductionSet
<1> QED
  BY <1>1, <1>2, <1>5 DEF T

\* ... and it does hold one whose score ends positive, if it held it before or
\* if the changes add up to a rise.
LEMMA GoodAfterRises ==
  ASSUME NEW isGood \in BOOLEAN, NEW s \in Int, NEW d \in [1..num_clauses -> Int],
         s + SumTo(d, num_clauses) > 0, isGood \/ SumTo(d, num_clauses) > 0
  PROVE  GoodAfter(isGood, s, d)
<1> DEFINE n == num_clauses
           Pos(c) == s + SumTo(d, c) > 0
<1>1. PICK after \in [0..n -> BOOLEAN] :
        /\ GoodAfter(isGood, s, d) <=> after[n]
        /\ after[0] <=> isGood
        /\ \A c \in 1..n :
             after[c] <=> IF d[c] > 0 THEN after[c - 1] \/ Pos(c)
                          ELSE IF d[c] < 0 THEN after[c - 1] /\ Pos(c) ELSE after[c - 1]
  BY GoodAfterRecursion
<1>2. /\ n \in Nat /\ SumTo(d, 0) = 0 /\ \A c \in Nat : SumTo(d, c) \in Int
      /\ \A c \in Nat : c < n => SumTo(d, c + 1) = SumTo(d, c) + d[c + 1]
  BY SumToStep, KNFAssumption
<1> DEFINE T == {c \in Nat : c <= n /\ Pos(c) /\ (isGood \/ SumTo(d, c) > 0) => after[c]}
<1>3. 0 \in T
  BY <1>1, <1>2
<1>4. ASSUME NEW c \in Nat, c \in T PROVE c + 1 \in T
  <2> SUFFICES ASSUME c + 1 <= n, Pos(c + 1), isGood \/ SumTo(d, c + 1) > 0
               PROVE  after[c + 1]
    OBVIOUS
  <2>1. c + 1 \in 1..n /\ (c + 1) - 1 = c /\ c < n
        /\ (Pos(c) /\ (isGood \/ SumTo(d, c) > 0) => after[c])
    BY <1>2, <1>4
  <2>2. SumTo(d, c + 1) = SumTo(d, c) + d[c + 1] /\ d[c + 1] \in Int
        /\ SumTo(d, c) \in Int /\ SumTo(d, c + 1) \in Int
    BY <1>2, <2>1
  <2>3. after[c + 1] <=> IF d[c + 1] > 0 THEN after[c] \/ Pos(c + 1)
                         ELSE IF d[c + 1] < 0 THEN after[c] /\ Pos(c + 1) ELSE after[c]
    BY <1>1, <2>1
  <2> QED BY <2>1, <2>2, <2>3
<1> HIDE DEF T
<1>5. Nat \subseteq T
  BY <1>3, <1>4, NatInductionSet
<1> QED
  BY <1>1, <1>2, <1>5 DEF T

LEMMA FlipNoNeighborExact ==
  ASSUME NEW st, StateExact(st), NEW u \in Vars
  PROVE  /\ StateExact(FlipNoNeighbor(st, u))
         /\ FlipNoNeighbor(st, u).cur_soln = FlipVar(st.cur_soln, u)
         /\ FlipNoNeighbor(st, u).unit_weight = st.unit_weight
<1> DEFINE counts == FlipCounts(st, u)
           sc == FlipScore(st, u)
           good == {v \in Vars \ {u} :
                      GoodAfter(v \in st.goodvar, st.score[v], Deltas(st, u, v))}
           new == WithScores(counts, sc, good)
<1>1. st \in SearchStates /\ RowsExact(st) /\ ScoresExact(st)
  BY DEF StateExact
<1>2. /\ counts \in SearchStates /\ RowsExact(counts)
      /\ counts.cur_soln = FlipVar(st.cur_soln, u) /\ counts.unit_weight = st.unit_weight
  BY <1>1, FlipCountsExact
<1>3. /\ sc \in [Vars -> Int]
      /\ \A v \in Vars : /\ Deltas(st, u, v) \in [1..num_clauses -> Int]
                         /\ sc[v] = RowSum(Gains(FlipVar(st.cur_soln, u), st.unit_weight, v))
  BY <1>1, FlipScoreExact
<1>4. good \subseteq Vars /\ \A v \in good : sc[v] > 0
  <2> SUFFICES ASSUME NEW v \in Vars \ {u},
                      GoodAfter(v \in st.goodvar, st.score[v], Deltas(st, u, v))
               PROVE  sc[v] > 0
    OBVIOUS
  <2>1. st.score[v] \in Int /\ (v \in st.goodvar => st.score[v] > 0)
    BY DEF StateExact, SearchStates
  <2>2. sc[v] = st.score[v] + SumTo(Deltas(st, u, v), num_clauses)
    BY DEF FlipScore, RowSum
  <2>3. ASSUME NEW b \in BOOLEAN, b => st.score[v] > 0, GoodAfter(b, st.score[v], Deltas(st, u, v))
        PROVE  sc[v] > 0
    BY <1>3, <2>1, <2>2, <2>3, GoodAfterPositive
  <2>4. CASE v \in st.goodvar
    <3>1. GoodAfter(TRUE, st.score[v], Deltas(st, u, v))
      <4>1. (v \in st.goodvar) = TRUE
        BY <2>4
      <4> QED BY <4>1, Zenon
    <3> QED BY <2>1, <2>3, <2>4, <3>1
  <2>5. CASE v \notin st.goodvar
    <3>1. GoodAfter(FALSE, st.score[v], Deltas(st, u, v))
      <4>1. (v \in st.goodvar) = FALSE
        BY <2>5
      <4> QED BY <4>1, Zenon
    <3> QED BY <2>3, <3>1
  <2> QED BY <2>4, <2>5
<1>5. FlipNoNeighbor(st, u) = new
  BY DEF FlipNoNeighbor
<1> HIDE DEF counts, sc, good
<1>6. /\ new \in SearchStates /\ RowsExact(new) /\ new.score = sc /\ new.goodvar = good
      /\ new.cur_soln = counts.cur_soln /\ new.unit_weight = counts.unit_weight
  BY <1>2, <1>3, <1>4, WriteScores
<1> HIDE DEF new
<1> QED
  BY <1>2, <1>3, <1>4, <1>5, <1>6 DEF StateExact, ScoresExact

\* Raising the weight of every unsatisfied row.
LEMMA IncreaseWeightsExact ==
  ASSUME NEW st, StateExact(st)
  PROVE  /\ StateExact(IncreaseWeights(st))
         /\ IncreaseWeights(st).cur_soln = st.cur_soln
<1> DEFINE sol == st.cur_soln
           weight == [c \in Rows |-> IF c \in st.hardunsat THEN st.unit_weight[c] + 1
                                     ELSE st.unit_weight[c]]
           term(v) == [c \in Rows |-> IF c \in st.hardunsat /\ Occurs(c, v)
                                      THEN (IF LitTrue(sol, c, v) THEN -1 ELSE 1) ELSE 0]
           sc == [v \in Vars |-> st.score[v] + WeightDelta(st, v)]
           fallen == {v \in Vars : WeightDelta(st, v) < 0 /\ sc[v] <= 0}
           risen == {v \in Vars : WeightDelta(st, v) > 0 /\ sc[v] > 0}
           good == (st.goodvar \ fallen) \cup risen
           new == IncreaseWeights(st)
<1>1. /\ st \in SearchStates /\ RowsExact(st) /\ ScoresExact(st)
      /\ \A v \in st.goodvar : st.score[v] > 0
  BY DEF StateExact
<1>2. /\ sol \in Assignments /\ st.hardunsat = Short(sol) /\ st.unit_weight \in [Rows -> Nat]
      /\ st.score \in [Vars -> Int] /\ st.goodvar \subseteq Vars
      /\ num_clauses \in Nat /\ Rows = 1..num_clauses
      /\ \A c \in Rows : clause_true_lit_thres[c] \in Nat /\ SatCount(sol, c) \in Nat
  BY <1>1, KNFAssumption, SatCountType DEF SearchStates, RowsExact, Rows
<1>3. weight \in [Rows -> Nat]
  BY <1>2
<1>4. ASSUME NEW v \in Vars
      PROVE  /\ sc[v] = RowSum(Gains(sol, weight, v))
             /\ WeightDelta(st, v) \in Int
  <2> DEFINE old == Gains(sol, st.unit_weight, v)
             next == Gains(sol, weight, v)
             delta == term(v)
  <2>1. /\ old \in [1..num_clauses -> Int] /\ next \in [1..num_clauses -> Int]
        /\ delta \in [1..num_clauses -> Int]
    <3>1. weight \in [Rows -> Int] /\ st.unit_weight \in [Rows -> Int]
      BY <1>2, <1>3
    <3>2. delta \in [1..num_clauses -> Int]
      BY <1>2
    <3> HIDE DEF weight, sol, delta
    <3> QED BY <1>2, <3>1, <3>2, GainsType
  <2>2. \A c \in 1..num_clauses : next[c] = old[c] + delta[c]
    <3> SUFFICES ASSUME NEW c \in Rows PROVE next[c] = old[c] + delta[c]
      BY <1>2
    <3>1. /\ next[c] = RowGain(sol, weight[c], c, v)
          /\ old[c] = RowGain(sol, st.unit_weight[c], c, v)
      BY DEF Gains
    <3>2. st.unit_weight[c] \in Nat
      BY <1>2
    <3>3. c \in st.hardunsat <=> SatCount(sol, c) < clause_true_lit_thres[c]
      BY <1>2 DEF Short
    <3>4. SatCount(sol, c) \in Nat /\ clause_true_lit_thres[c] \in Nat
      BY <1>2
    <3> HIDE DEF sol
    <3>5. CASE c \in st.hardunsat
      <4>1. weight[c] = st.unit_weight[c] + 1
        BY <3>5
      <4> HIDE DEF old, next, weight
      <4> QED BY <3>1, <3>2, <3>3, <3>4, <3>5, <4>1 DEF RowGain
    <3>6. CASE c \notin st.hardunsat
      <4>1. weight[c] = st.unit_weight[c] /\ delta[c] = 0
        BY <3>6
      <4>2. old[c] \in Int
        BY <1>2, <2>1
      <4> HIDE DEF old, next, weight, delta
      <4> QED BY <3>1, <4>1, <4>2
    <3> QED BY <3>5, <3>6
  <2>3. RowSum(next) = RowSum(old) + RowSum(delta)
    <3> HIDE DEF old, next, delta
    <3> QED BY <1>2, <2>1, <2>2, SumToAdditive DEF RowSum
  <2>4. st.score[v] = RowSum(old)
    BY <1>1 DEF ScoresExact
  <2>5. WeightDelta(st, v) = RowSum(delta)
    BY DEF WeightDelta
  <2>6. RowSum(delta) \in Int
    <3> HIDE DEF delta
    <3> QED BY <1>2, <2>1, SumToStep DEF RowSum
  <2>7. sc[v] = st.score[v] + WeightDelta(st, v)
    OBVIOUS
  <2> HIDE DEF old, delta, sc, next
  <2>8. sc[v] = RowSum(next)
    BY <2>3, <2>4, <2>5, <2>7
  <2> QED BY <2>5, <2>6, <2>8 DEF next
<1>5. sc \in [Vars -> Int]
  <2>1. \A v \in Vars : st.score[v] \in Int /\ WeightDelta(st, v) \in Int
    BY <1>2, <1>4
  <2> QED BY <2>1
<1>6. good \subseteq Vars /\ \A v \in good : sc[v] > 0
  <2>1. good \subseteq Vars
    BY <1>2
  <2>2. ASSUME NEW v \in st.goodvar \ fallen PROVE sc[v] > 0
    <3>1. v \in Vars /\ st.score[v] > 0 /\ sc[v] = st.score[v] + WeightDelta(st, v)
      BY <1>1, <1>2
    <3>2. WeightDelta(st, v) \in Int /\ sc[v] \in Int /\ st.score[v] \in Int
      BY <1>2, <1>4, <1>5, <3>1
    <3>3. WeightDelta(st, v) < 0 => sc[v] > 0
      BY <3>1, <3>2
    <3> HIDE DEF sc
    <3> QED BY <3>1, <3>2, <3>3
  <2> QED BY <2>1, <2>2
<1>7. /\ new.cur_soln = sol /\ new.sat_count = st.sat_count /\ new.hardunsat = st.hardunsat
      /\ new.hard_unsat_nb = st.hard_unsat_nb /\ new.cardinalitysat = st.cardinalitysat
      /\ new.unit_weight = weight /\ new.score = sc /\ new.goodvar = good
      /\ DOMAIN new = DOMAIN st /\ new = [f \in DOMAIN new |-> new[f]]
  <2>1. DOMAIN st = {"cur_soln", "sat_count", "hardunsat", "hard_unsat_nb",
                     "cardinalitysat", "unit_weight", "score", "goodvar"}
    BY <1>1 DEF SearchStates
  <2> QED BY <2>1, Zenon DEF IncreaseWeights
<1> HIDE DEF weight, sc, good, new
<1>8. new \in SearchStates
  <2>1. new = [cur_soln |-> new.cur_soln, sat_count |-> new.sat_count,
               hardunsat |-> new.hardunsat, hard_unsat_nb |-> new.hard_unsat_nb,
               cardinalitysat |-> new.cardinalitysat, unit_weight |-> new.unit_weight,
               score |-> new.score, goodvar |-> new.goodvar]
    BY <1>1, <1>7 DEF SearchStates
  <2>2. /\ st.sat_count \in [Rows -> Int] /\ st.hardunsat \subseteq Rows
        /\ st.hard_unsat_nb \in Int /\ st.cardinalitysat \subseteq Rows
    BY <1>1 DEF SearchStates
  <2> QED BY <1>2, <1>3, <1>5, <1>6, <1>7, <2>1, <2>2 DEF SearchStates
<1>9. RowsExact(new)
  BY <1>1, <1>7 DEF RowsExact
<1>10. ScoresExact(new)
  BY <1>4, <1>7 DEF ScoresExact
<1> QED
  BY <1>6, <1>7, <1>8, <1>9, <1>10 DEF StateExact, new

\* A fresh state is right.
LEMMA InitLocalSearchExact ==
  ASSUME NEW sol \in Assignments
  PROVE  /\ StateExact(InitLocalSearch(sol))
         /\ InitLocalSearch(sol).cur_soln = sol
         /\ InitLocalSearch(sol).goodvar
              = {v \in Vars : InitLocalSearch(sol).score[v] > 0}
<1> DEFINE count == [c \in Rows |-> SatCount(sol, c)]
           short == {c \in Rows : count[c] < clause_true_lit_thres[c]}
           ones == [c \in Rows |-> 1]
           sc == [v \in Vars |-> RowSum([c \in Rows |-> InitContribution(sol, count[c], c, v)])]
           new == InitLocalSearch(sol)
<1>1. /\ new.cur_soln = sol /\ new.sat_count = count /\ new.hardunsat = short
      /\ new.hard_unsat_nb = Cardinality(short)
      /\ new.cardinalitysat = {c \in Rows : IsCardinality(c)} \ short
      /\ new.unit_weight = ones /\ new.score = sc
      /\ new.goodvar = {v \in Vars : sc[v] > 0}
  BY DEF InitLocalSearch
<1>2. \A c \in Rows : /\ clause_true_lit_thres[c] \in Nat
                      /\ SatCount(sol, c) \in Nat /\ count[c] = SatCount(sol, c)
  BY KNFAssumption, SatCountType
<1>3. ASSUME NEW v \in Vars PROVE sc[v] = RowSum(Gains(sol, ones, v)) /\ sc[v] \in Int
  <2>1. ASSUME NEW c \in Rows
        PROVE  InitContribution(sol, count[c], c, v) = RowGain(sol, ones[c], c, v)
    <3>1. count[c] = SatCount(sol, c) /\ ones[c] = 1
      BY <1>2
    <3> QED BY <1>2, <3>1 DEF InitContribution, RowGain, MakeContribution
  <2>2. [c \in Rows |-> InitContribution(sol, count[c], c, v)] = Gains(sol, ones, v)
    BY <2>1 DEF Gains
  <2>3. ones \in [Rows -> Int]
    OBVIOUS
  <2>4. RowSum(Gains(sol, ones, v)) \in Int
    BY <2>3, GainsType
  <2> QED BY <2>2, <2>4
<1>4. sc \in [Vars -> Int]
  <2>1. sc = [v \in Vars |-> sc[v]] /\ \A v \in Vars : sc[v] \in Int
    BY <1>3
  <2> HIDE DEF sc
  <2> QED BY <2>1
<1>5. short \subseteq Rows /\ Cardinality(short) \in Int /\ ones \in [Rows -> Nat]
  <2>1. short \in SUBSET Rows /\ ones \in [Rows -> Nat]
    OBVIOUS
  <2> HIDE DEF short, ones
  <2>2. Cardinality(short) \in Nat
    BY <2>1, RowsFinite
  <2> QED BY <2>1, <2>2
<1>6. count \in [Rows -> Int] /\ short = Short(sol)
  BY <1>2 DEF Short
<1> HIDE DEF count, short, ones, sc
<1>7. new \in SearchStates
  <2>1. new = [cur_soln |-> new.cur_soln, sat_count |-> new.sat_count,
               hardunsat |-> new.hardunsat, hard_unsat_nb |-> new.hard_unsat_nb,
               cardinalitysat |-> new.cardinalitysat, unit_weight |-> new.unit_weight,
               score |-> new.score, goodvar |-> new.goodvar]
    BY DEF InitLocalSearch
  <2> HIDE DEF new
  <2> QED BY <1>1, <1>4, <1>5, <1>6, <2>1 DEF SearchStates
<1> HIDE DEF new
<1>8. RowsExact(new)
  BY <1>1, <1>6 DEF RowsExact, count
<1>9. ScoresExact(new)
  BY <1>1, <1>3 DEF ScoresExact
<1>10. StateExact(new)
  BY <1>1, <1>7, <1>8, <1>9 DEF StateExact
<1> QED
  BY <1>1, <1>10 DEF new

----------------------------------------------------------------------------
(* Which variables a step opens and closes.                                 *)

\* The change a flip of u makes to the score of another variable comes from
\* rows they share.
LEMMA ChangedScoreIsNeighbor ==
  ASSUME NEW st, StateExact(st), NEW u \in Vars, NEW v \in Vars, v # u,
         FlipScore(st, u)[v] # st.score[v]
  PROVE  v \in var_neighbor[u]
<1>1. st \in SearchStates /\ RowsExact(st) /\ ScoresExact(st) /\ st.score[v] \in Int
  BY DEF StateExact, SearchStates
<1>2. Deltas(st, u, v) \in [1..num_clauses -> Int]
  BY <1>1, FlipScoreExact
<1>3. FlipScore(st, u)[v] = st.score[v] + SumTo(Deltas(st, u, v), num_clauses)
  BY DEF FlipScore, RowSum
<1>4. SumTo(Deltas(st, u, v), num_clauses) # 0
  BY <1>1, <1>3
<1>5. PICK c \in Rows : Deltas(st, u, v)[c] # 0
  BY <1>2, <1>4, SumToZero, KNFAssumption DEF Rows
<1>6. Occurs(c, u) /\ Occurs(c, v)
  BY <1>5 DEF Deltas, RowDelta
<1> QED
  BY <1>6 DEF var_neighbor

\* What a flip in materialised mode writes on the scores and their stack.
LEMMA FlipWithNeighborFields ==
  ASSUME NEW st, StateExact(st), NEW u \in Vars
  PROVE  /\ FlipWithNeighbor(st, u).score = FlipScore(st, u)
         /\ FlipWithNeighbor(st, u).goodvar = UpdateGoodvarStack(st.goodvar, FlipScore(st, u), u)
<1> DEFINE sc == FlipScore(st, u)
<1>1. FlipCounts(st, u) \in SearchStates
  BY FlipCountsExact DEF StateExact
<1> HIDE DEF sc
<1>2. /\ WithScores(FlipCounts(st, u), sc, UpdateGoodvarStack(st.goodvar, sc, u)).score = sc
      /\ WithScores(FlipCounts(st, u), sc, UpdateGoodvarStack(st.goodvar, sc, u)).goodvar
           = UpdateGoodvarStack(st.goodvar, sc, u)
  BY <1>1 DEF WithScores, SearchStates
<1> QED BY <1>2 DEF FlipWithNeighbor, sc

\* Whichever way the stack is maintained, a flip leaves on it every other
\* variable of positive score that was on it or whose score rose.
LEMMA FlipWithNeighborReopens ==
  ASSUME NEW st, StateExact(st), NEW u \in Vars, NEW v \in Vars, v # u,
         FlipWithNeighbor(st, u).score[v] > 0,
         v \in st.goodvar \/ FlipWithNeighbor(st, u).score[v] > st.score[v]
  PROVE  v \in FlipWithNeighbor(st, u).goodvar
<1> DEFINE sc == FlipScore(st, u)
<1>1. /\ FlipWithNeighbor(st, u).score = sc
      /\ FlipWithNeighbor(st, u).goodvar = UpdateGoodvarStack(st.goodvar, sc, u)
  BY FlipWithNeighborFields
<1>2. sc \in [Vars -> Int] /\ st.score[v] \in Int
  BY FlipScoreExact DEF StateExact, SearchStates
<1>3. sc[v] > st.score[v] => v \in var_neighbor[u]
  BY <1>2, ChangedScoreIsNeighbor
<1> HIDE DEF sc
<1> QED
  BY <1>1, <1>2, <1>3 DEF UpdateGoodvarStack

\* In materialised mode a flip closes nothing but the variable it flips: what
\* is off the stack with a positive score afterwards was so before, and is no
\* neighbour of the flipped variable.
LEMMA FlipClosesItselfOnly ==
  ASSUME NEW st, StateExact(st), NEW u \in Vars, NEW v \in Vars, v # u,
         FlipWithNeighbor(st, u).score[v] > 0, v \notin FlipWithNeighbor(st, u).goodvar
  PROVE  v \notin st.goodvar /\ st.score[v] > 0 /\ u \notin var_neighbor[v]
<1> DEFINE sc == FlipScore(st, u)
<1>1. /\ FlipWithNeighbor(st, u).score = sc
      /\ FlipWithNeighbor(st, u).goodvar = UpdateGoodvarStack(st.goodvar, sc, u)
  BY FlipWithNeighborFields
<1>2. sc \in [Vars -> Int] /\ st.score[v] \in Int
  BY FlipScoreExact DEF StateExact, SearchStates
<1>3. sc[v] # st.score[v] => v \in var_neighbor[u]
  BY ChangedScoreIsNeighbor
<1> HIDE DEF sc
<1>4. v \notin st.goodvar /\ v \notin var_neighbor[u]
  BY <1>1, <1>2 DEF UpdateGoodvarStack
<1>5. u \notin var_neighbor[v]
  BY <1>4 DEF var_neighbor
<1> QED
  BY <1>1, <1>3, <1>4, <1>5

LEMMA FlipNoNeighborReopens ==
  ASSUME NEW st, StateExact(st), NEW u \in Vars, NEW v \in Vars, v # u,
         FlipNoNeighbor(st, u).score[v] > 0,
         v \in st.goodvar \/ FlipNoNeighbor(st, u).score[v] > st.score[v]
  PROVE  v \in FlipNoNeighbor(st, u).goodvar
<1> DEFINE d == Deltas(st, u, v)
           good == {x \in Vars \ {u} :
                      GoodAfter(x \in st.goodvar, st.score[x], Deltas(st, u, x))}
<1>1. FlipNoNeighbor(st, u).score = FlipScore(st, u) /\ FlipNoNeighbor(st, u).goodvar = good
  <2>1. FlipCounts(st, u) \in SearchStates
    BY FlipCountsExact DEF StateExact
  <2> HIDE DEF good
  <2>2. /\ WithScores(FlipCounts(st, u), FlipScore(st, u), good).score = FlipScore(st, u)
        /\ WithScores(FlipCounts(st, u), FlipScore(st, u), good).goodvar = good
    BY <2>1 DEF WithScores, SearchStates
  <2> QED BY <2>2 DEF FlipNoNeighbor, good
<1>2. st.score[v] \in Int /\ d \in [1..num_clauses -> Int]
  BY FlipScoreExact DEF StateExact, SearchStates
<1>3. FlipScore(st, u)[v] = st.score[v] + SumTo(d, num_clauses)
  BY DEF FlipScore, RowSum
<1>4. SumTo(d, num_clauses) \in Int
  BY <1>2, SumToStep, KNFAssumption
<1> HIDE DEF d
<1>5. st.score[v] + SumTo(d, num_clauses) > 0
  BY <1>1, <1>3
<1>6. v \in st.goodvar \/ SumTo(d, num_clauses) > 0
  BY <1>1, <1>2, <1>3, <1>4
<1>7. GoodAfter(v \in st.goodvar, st.score[v], d)
  <2>1. CASE v \in st.goodvar
    <3>1. GoodAfter(TRUE, st.score[v], d)
      BY <1>2, <1>5, GoodAfterRises
    <3>2. (v \in st.goodvar) = TRUE
      BY <2>1
    <3> QED BY <3>1, <3>2, Zenon
  <2>2. CASE v \notin st.goodvar
    <3>1. GoodAfter(FALSE, st.score[v], d)
      BY <1>2, <1>5, <1>6, <2>2, GoodAfterRises
    <3>2. (v \in st.goodvar) = FALSE
      BY <2>2
    <3> QED BY <3>1, <3>2, Zenon
  <2> QED BY <2>1, <2>2
<1> QED
  BY <1>1, <1>7, Zenon DEF d

\* What a raise writes.
LEMMA IncreaseWeightsFields ==
  ASSUME NEW st, StateExact(st)
  PROVE  LET new == IncreaseWeights(st)
             sc == [v \in Vars |-> st.score[v] + WeightDelta(st, v)]
             fallen == {v \in Vars : WeightDelta(st, v) < 0 /\ sc[v] <= 0}
             risen == {v \in Vars : WeightDelta(st, v) > 0 /\ sc[v] > 0}
         IN  /\ new.unit_weight = [c \in Rows |-> IF c \in st.hardunsat THEN st.unit_weight[c] + 1
                                                  ELSE st.unit_weight[c]]
             /\ new.score = sc
             /\ new.goodvar = (st.goodvar \ fallen) \cup risen
<1>1. DOMAIN st = {"cur_soln", "sat_count", "hardunsat", "hard_unsat_nb",
                   "cardinalitysat", "unit_weight", "score", "goodvar"}
  BY DEF StateExact, SearchStates
<1> QED BY <1>1, Zenon DEF IncreaseWeights

\* The weights do the same: a score they raise above zero is on the stack,
\* and one that was on it and stays positive is kept.
LEMMA IncreaseWeightsReopens ==
  ASSUME NEW st, StateExact(st), NEW v \in Vars,
         IncreaseWeights(st).score[v] > 0, IncreaseWeights(st).score[v] > st.score[v]
  PROVE  v \in IncreaseWeights(st).goodvar
<1> DEFINE sc == [x \in Vars |-> st.score[x] + WeightDelta(st, x)]
           risen == {x \in Vars : WeightDelta(st, x) > 0 /\ sc[x] > 0}
           fallen == {x \in Vars : WeightDelta(st, x) < 0 /\ sc[x] <= 0}
           good == (st.goodvar \ fallen) \cup risen
<1>1. IncreaseWeights(st).score = sc /\ IncreaseWeights(st).goodvar = good
  BY IncreaseWeightsFields
<1>2. st.score[v] \in Int /\ WeightDelta(st, v) \in Int
  <2>1. [c \in Rows |-> IF c \in st.hardunsat /\ Occurs(c, v)
           THEN (IF LitTrue(st.cur_soln, c, v) THEN -1 ELSE 1) ELSE 0] \in [1..num_clauses -> Int]
    BY DEF Rows
  <2>2. WeightDelta(st, v) \in Int
    BY <2>1, SumToStep, KNFAssumption DEF WeightDelta, RowSum
  <2> QED BY <2>2 DEF StateExact, SearchStates
<1>3. sc[v] = st.score[v] + WeightDelta(st, v) /\ sc[v] > 0 /\ sc[v] > st.score[v]
  BY <1>1
<1>4. WeightDelta(st, v) > 0
  BY <1>2, <1>3
<1> QED
  BY <1>1, <1>3, <1>4

\* A raise closes nothing of positive score.
LEMMA IncreaseWeightsCloses ==
  ASSUME NEW st, StateExact(st), NEW v \in Vars,
         IncreaseWeights(st).score[v] > 0, v \notin IncreaseWeights(st).goodvar
  PROVE  v \notin st.goodvar /\ st.score[v] > 0
<1> DEFINE sc == [x \in Vars |-> st.score[x] + WeightDelta(st, x)]
           risen == {x \in Vars : WeightDelta(st, x) > 0 /\ sc[x] > 0}
           fallen == {x \in Vars : WeightDelta(st, x) < 0 /\ sc[x] <= 0}
           good == (st.goodvar \ fallen) \cup risen
<1>1. IncreaseWeights(st).score = sc /\ IncreaseWeights(st).goodvar = good
  BY IncreaseWeightsFields
<1>2. st.score[v] \in Int /\ sc[v] \in Int
  <2>1. StateExact(IncreaseWeights(st))
    BY IncreaseWeightsExact
  <2>2. IncreaseWeights(st).score \in [Vars -> Int] /\ st.score \in [Vars -> Int]
    BY <2>1 DEF StateExact, SearchStates
  <2> QED BY <1>1, <2>2
<1>3. sc[v] > 0 /\ v \notin good
  BY <1>1
<1>4. v \notin st.goodvar
  BY <1>2, <1>3
<1>5. sc[v] > st.score[v] => v \in good
  BY <1>1, <1>3, IncreaseWeightsReopens
<1> QED
  BY <1>2, <1>3, <1>4, <1>5

----------------------------------------------------------------------------
(* The weights as a sum.                                                    *)

\* The rows of a set, counted by a sum over all rows.
LEMMA RowSumCounts ==
  ASSUME NEW S \in SUBSET Rows
  PROVE  RowSum([c \in Rows |-> IF c \in S THEN 1 ELSE 0]) = Cardinality(S)
<1> DEFINE f == [c \in Rows |-> IF c \in S THEN 1 ELSE 0]
           upTo(k) == S \cap (1..k)
           T == {k \in Nat : k <= num_clauses => SumTo(f, k) = Cardinality(upTo(k))}
<1>1. num_clauses \in Nat /\ f \in [1..num_clauses -> Int] /\ Rows = 1..num_clauses
  BY KNFAssumption DEF Rows
<1>2. \A c \in Rows : f[c] = IF c \in S THEN 1 ELSE 0
  OBVIOUS
<1> HIDE DEF f
<1>3. /\ SumTo(f, 0) = 0
      /\ \A k \in Nat : k < num_clauses => SumTo(f, k + 1) = SumTo(f, k) + f[k + 1]
  BY <1>1, SumToStep
<1>4. \A k \in Nat : IsFiniteSet(upTo(k)) /\ Cardinality(upTo(k)) \in Nat
  BY RowsFinite
<1>5. 0 \in T
  <2>1. upTo(0) = {}
    OBVIOUS
  <2> QED BY <1>3, <2>1, FS_EmptySet
<1>6. ASSUME NEW k \in Nat, k \in T PROVE k + 1 \in T
  <2> SUFFICES ASSUME k + 1 <= num_clauses PROVE SumTo(f, k + 1) = Cardinality(upTo(k + 1))
    OBVIOUS
  <2>1. k + 1 \in Rows /\ SumTo(f, k) = Cardinality(upTo(k)) /\ k < num_clauses
    BY <1>1, <1>6
  <2>2. CASE k + 1 \in S
    <3>1. upTo(k + 1) = upTo(k) \cup {k + 1} /\ k + 1 \notin upTo(k)
      BY <1>1, <2>2
    <3>2. Cardinality(upTo(k + 1)) = Cardinality(upTo(k)) + 1
      BY <1>4, <3>1, FS_AddElement
    <3> QED BY <1>2, <1>3, <2>1, <2>2, <3>2
  <2>3. CASE k + 1 \notin S
    <3>1. upTo(k + 1) = upTo(k)
      BY <1>1, <2>3
    <3>2. f[k + 1] = 0 /\ Cardinality(upTo(k)) \in Nat
      BY <1>2, <1>4, <2>1, <2>3
    <3>3. SumTo(f, k + 1) = Cardinality(upTo(k)) + 0
      BY <1>3, <2>1, <3>2
    <3> HIDE DEF upTo
    <3> QED BY <3>1, <3>2, <3>3
  <2> QED BY <2>2, <2>3
<1> HIDE DEF T
<1>7. Nat \subseteq T
  BY <1>5, <1>6, NatInductionSet
<1>8. SumTo(f, num_clauses) = Cardinality(upTo(num_clauses))
  BY <1>1, <1>7 DEF T
<1>9. upTo(num_clauses) = S
  BY <1>1
<1> QED
  BY <1>8, <1>9 DEF RowSum, f

\* By how much the weights stand above their first value of one.
Raised(weight) == RowSum([c \in Rows |-> weight[c] - 1])

\* A raise adds one for every unsatisfied row.
LEMMA RaiseCounted ==
  ASSUME NEW st, StateExact(st)
  PROVE  Raised(IncreaseWeights(st).unit_weight) = Raised(st.unit_weight) + Cardinality(st.hardunsat)
<1> DEFINE before == [c \in Rows |-> st.unit_weight[c] - 1]
           more   == [c \in Rows |-> IF c \in st.hardunsat THEN 1 ELSE 0]
           after  == [c \in Rows |-> IncreaseWeights(st).unit_weight[c] - 1]
<1>1. /\ st.unit_weight \in [Rows -> Nat] /\ st.hardunsat \in SUBSET Rows
      /\ num_clauses \in Nat /\ Rows = 1..num_clauses
  BY KNFAssumption DEF StateExact, SearchStates, Rows
<1>2. IncreaseWeights(st).unit_weight
        = [c \in Rows |-> IF c \in st.hardunsat THEN st.unit_weight[c] + 1 ELSE st.unit_weight[c]]
  BY IncreaseWeightsFields
<1>3. /\ before \in [1..num_clauses -> Int] /\ more \in [1..num_clauses -> Int]
      /\ after \in [1..num_clauses -> Int]
      /\ \A c \in 1..num_clauses : after[c] = before[c] + more[c]
  BY <1>1, <1>2
<1>4. RowSum(more) = Cardinality(st.hardunsat)
  BY <1>1, RowSumCounts
<1> HIDE DEF before, more, after
<1>5. SumTo(after, num_clauses) = SumTo(before, num_clauses) + SumTo(more, num_clauses)
  BY <1>1, <1>3, SumToAdditive
<1> QED
  BY <1>4, <1>5 DEF Raised, RowSum, before, after

LEMMA RaisedType == \A weight \in [Rows -> Nat] : Raised(weight) \in Int
<1> SUFFICES ASSUME NEW weight \in [Rows -> Nat] PROVE Raised(weight) \in Int
  OBVIOUS
<1>1. [c \in Rows |-> weight[c] - 1] \in [1..num_clauses -> Int]
  BY DEF Rows
<1> QED BY <1>1, SumToStep, KNFAssumption DEF Raised, RowSum

\* Weights of one have not been raised.
LEMMA NothingRaised == Raised([c \in Rows |-> 1]) = 0
<1> DEFINE f == [c \in Rows |-> [r \in Rows |-> 1][c] - 1]
<1>1. f \in [1..num_clauses -> Int] /\ \A c \in 1..num_clauses : f[c] = 0
  BY DEF Rows
<1>2. SumTo(f, num_clauses) = 0
  <2> HIDE DEF f
  <2> QED BY <1>1, SumToZero, KNFAssumption
<1> QED BY <1>2 DEF Raised, RowSum
=============================================================================
