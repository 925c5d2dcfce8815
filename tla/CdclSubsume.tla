---------------------------- MODULE CdclSubsume -----------------------------
(* Subsumption and strengthening (subsume.cpp). Clauses are tried in the     *)
(* order of their size against those tried before, which are connected by    *)
(* one literal each. A round has the fields                                  *)
(*   connected  clauses that others are tried against                        *)
(*   shrunken   clauses that lost a literal                                  *)
(*   left       clauses to be tried, some from a round that stopped early    *)
(*              (bit subsume)                                                *)
(* Transitive reduction (transred.cpp), an option that is off by default,    *)
(* follows; it has the field                                                 *)
(*   transred   binary clauses that were looked at (bit transred)            *)
EXTENDS CdclRewrite

(* Clauses without a value and with two variables that were added. *)
Schedulable(x) ==
  {n \in Live(x) : LET c == x.clauses[n]
                   IN  /\ ~c.native
                       /\ VarSet(c) \subseteq Unassigned(x)
                       /\ Cardinality(VarSet(c) \cap x.added) >= 2}

(* What the last round left is tried first, without it all are. *)
BeginSubsumeRound(x) ==
  LET all == IF x.unsat THEN {} ELSE Schedulable(x)
      long == {n \in all : Size(x.clauses[n]) > 2}
  IN  [x EXCEPT !.todo = all, !.connected = {}, !.shrunken = {},
                !.left = IF all \cap @ = {} THEN @ \cup long ELSE @]

(* The shortest clause, of those the oldest. *)
Shortest(x, N) ==
  CHOOSE n \in N : \A m \in N : \/ Size(x.clauses[n]) < Size(x.clauses[m])
                                \/ Size(x.clauses[n]) = Size(x.clauses[m]) /\ n <= m

(* Literals of clause e whose complements are in clause n. *)
Flipped(x, e, n) == {l \in LitSet(x.clauses[e]) : -l \in LitSet(x.clauses[n])}

(* Mutant: any number of literals may be complementary. *)
SharesVariables(x, n) == {e \in x.connected : VarSet(x.clauses[e]) \subseteq VarSet(x.clauses[n])}

(* Connected clauses whose literals are in clause n, one of them perhaps     *)
(* complemented.                                                             *)
subsume_check(x, n) ==
  {e \in x.connected : /\ VarSet(x.clauses[e]) \subseteq VarSet(x.clauses[n])
                       /\ Cardinality(Flipped(x, e, n)) <= 1}

(* Clause n goes; if it was irredundant so is the one that subsumes it. *)
subsume_clause(x, e, n) ==
  [MarkRemoved(x, n) EXCEPT !.clauses[e].redundant = @ /\ x.clauses[n].redundant]

(* Clause n is subsumed or strengthened by clause e. *)
Improved(x, e, n) ==
  IF Flipped(x, e, n) = {} THEN subsume_clause(x, e, n)
  ELSE LET l == CHOOSE k \in Flipped(x, e, n) : TRUE
       IN  [strengthen_clause(x, n, -l) EXCEPT !.shrunken = @ \cup {n}]

(* Which of several clauses is found depends on the order of the lists. *)
try_to_subsume_clause(x, n) ==
  IF subsume_check(x, n) = {} THEN {x} ELSE {Improved(x, e, n) : e \in subsume_check(x, n)}

(* A clause all of whose variables were added is connected. *)
Connect(x, n) ==
  IF x.clauses[n].garbage \/ ~(VarSet(x.clauses[n]) \subseteq x.added) THEN x
  ELSE [x EXCEPT !.connected = @ \cup {n}]

(* The states after the next clause. *)
SubsumeNext(x) ==
  LET n == Shortest(x, x.todo)
      y == [x EXCEPT !.todo = @ \ {n}]
  IN  {Connect(z, n) :
         z \in IF Size(x.clauses[n]) > 2 /\ n \in x.left
               THEN try_to_subsume_clause([y EXCEPT !.left = @ \ {n}], n) ELSE {y}}

(* After a complete round only variables of shrunken clauses count as added. *)
EndSubsumeRound(x) ==
  [x EXCEPT !.added = (IF x.todo = {} THEN {} ELSE @) \cup
                      UNION {VarSet(x.clauses[n]) : n \in x.shrunken},
            !.todo = {}, !.connected = {}, !.shrunken = {}]

-----------------------------------------------------------------------------
(* Transitive reduction: a binary clause goes if others lead from the        *)
(* complement of one literal to the other literal.                           *)

sort_watches(x) ==
  LET binary(w) == w.size = 2
      long(w) == w.size # 2
  IN  [x EXCEPT !.watches =
         [l \in DOMAIN @ |-> SelectSeq(@[l], binary) \o SelectSeq(@[l], long)]]

(* Binary clauses not looked at before, all if there are none.               *)
BeginTransred(x) ==
  LET all == {n \in Live(x) : Binary(x.clauses[n])}
      again == all \subseteq x.transred
  IN  sort_watches([x EXCEPT !.todo = IF again THEN all ELSE all \ x.transred,
                             !.transred = IF again THEN {} ELSE @])

(* A walk has the literals that are reached and how it ends. Clauses that    *)
(* are redundant do not help to remove one that is not.                      *)
Reach(x, c, dst, walk, w) ==
  LET d == x.clauses[w.clause]
  IN  IF \/ walk.ends # "open" \/ w.size # 2 \/ w.clause = c \/ d.garbage
         \/ d.redundant /\ ~x.clauses[c].redundant
      THEN walk
      ELSE IF w.blit = dst THEN [walk EXCEPT !.ends = "transitive"]
      ELSE IF w.blit \in Range(walk.work) THEN walk
      ELSE IF -w.blit \in Range(walk.work) THEN [walk EXCEPT !.ends = "failed"]
      ELSE [walk EXCEPT !.work = Append(@, w.blit)]

(* The i-th literal that was reached, then the next one. *)
RECURSIVE WalkFrom(_, _, _, _, _)
WalkFrom(x, c, dst, walk, i) ==
  IF walk.ends # "open" \/ i > Len(walk.work) THEN walk
  ELSE WalkFrom(x, c, dst, FoldLeft(LAMBDA v, w : Reach(x, c, dst, v, w), walk,
                                    x.watches[-walk.work[i]]), i + 1)

(* From the complement of the first literal, or the other way round if fewer *)
(* clauses lead back. Both ways a literal that leads to a contradiction is   *)
(* false.                                                                    *)
TransredNext(x) ==
  LET c == Min(x.todo)
      y == [x EXCEPT !.todo = @ \ {c}, !.transred = @ \cup {c}]
      k == x.clauses[c].lits[1]
      l == x.clauses[c].lits[2]
      swap == Len(x.watches[k]) < Len(x.watches[l])
      src == IF swap THEN -l ELSE -k
      walk == WalkFrom(x, c, IF swap THEN k ELSE l, [work |-> <<src>>, ends |-> "open"], 1)
  IN  IF {VarOf(k), VarOf(l)} \cap Unassigned(x) # {VarOf(k), VarOf(l)} \/ walk.ends = "open" THEN y
      ELSE IF walk.ends = "transitive" THEN MarkRemoved(y, c)
      ELSE search_assign(y, -src, UnitReason)

EndTransred(x) == [x EXCEPT !.todo = {}]
=============================================================================
