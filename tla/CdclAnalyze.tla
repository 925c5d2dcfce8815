---------------------------- MODULE CdclAnalyze -----------------------------
(* Conflict analysis (analyze.cpp, minimize.cpp, shrink.cpp): the clause of  *)
(* the first unique implication point, its blocks of one level replaced by   *)
(* one literal or minimised, learned and made to drive. Scores, glue and     *)
(* averages steer the search and are left out.                               *)
EXTENDS CdclPropagate

(* Mutant: the false literal a row watches is forgotten. *)
UnwatchedOnly(s, n, lit) ==
  LET c == s.clauses[n]
  IN  IF c.unwatched = 2 THEN LitSet(c) \ {lit}
      ELSE {c.lits[k] : k \in c.unwatched + 1 .. Size(c)}

(* The false literals from which clause n gives lit, or the conflict (0).    *)
(* A native row gives from its unwatched literals and the watched one it     *)
(* names; its guard comes with them, or rests on the second false literal.   *)
Antecedents(s, n, lit) ==
  LET c == s.clauses[n]
      guards == IF c.guard = 0 THEN {}
                ELSE IF IsTrue(s, c.guard) THEN {c.guard_reason_literal} ELSE {c.guard}
  IN  IF c.unwatched = 2 THEN LitSet(c) \ {lit}
      ELSE {c.lits[k] : k \in c.unwatched + 1 .. Size(c)} \cup {c.reason_literal} \cup guards

(* What a conflict in clause n rests on. *)
ConflictLiterals(s, n) ==
  Antecedents(s, n, 0) \cup (IF s.clauses[n].unwatched # 2 /\ s.conflict_literal # 0
                             THEN {s.conflict_literal} ELSE {})

(* Literals fixed at the root are dropped. *)
NotFixed(s, S) == {l \in S : LevelOf(s, l) > 0}

AtLevel(s, S, level) == {l \in S : LevelOf(s, l) = level}

(* The literals of a set in the order of assignment, the last one first. *)
LastAssignedFirst(s, S) == Ranked(S, LAMBDA l, k : TrailIndex(s, l) > TrailIndex(s, k))

LastAssigned(s, S) == CHOOSE l \in S : \A k \in S : TrailIndex(s, k) <= TrailIndex(s, l)

-----------------------------------------------------------------------------
(* Seen literals of the conflict level are resolved away, the last assigned  *)
(* first, until one is open.                                                 *)
RECURSIVE Resolved(_, _)
Resolved(s, seen) ==
  LET open == AtLevel(s, seen, Level(s))
      last == LastAssigned(s, open)
  IN  IF Cardinality(open) = 1 THEN seen
      ELSE Resolved(s, (seen \ {last}) \cup
                       NotFixed(s, Antecedents(s, ReasonOf(s, last), -last)))

(* A literal that follows from the kept ones needs not be in the clause. *)
RECURSIVE Removable(_, _, _)
Removable(s, keep, l) ==
  \/ LevelOf(s, l) = 0
  \/ l \in keep
  \/ /\ ReasonOf(s, l) # UnitReason
     /\ LevelOf(s, l) # Level(s)
     /\ \A k \in Antecedents(s, ReasonOf(s, l), -l) : Removable(s, keep, k)

(* The literals of a block are resolved along their reasons until one is     *)
(* left, unless a literal of a lower level would come in: then 0.            *)
RECURSIVE BlockUip(_, _, _, _)
BlockUip(s, keep, level, shrinkable) ==
  LET last == LastAssigned(s, shrinkable)
      reached == NotFixed(s, Antecedents(s, ReasonOf(s, last), -last))
      below == {l \in reached : LevelOf(s, l) < level}
  IN  IF Cardinality(shrinkable) = 1 THEN last
      ELSE IF \E l \in below : ~Removable(s, keep, l) THEN 0
      ELSE BlockUip(s, keep, level, (shrinkable \ {last}) \cup AtLevel(s, reached, level))

(* The literals of a block, first assigned first, that do not follow from    *)
(* the ones kept before them.                                                *)
Minimized(s, keep, block) ==
  FoldLeft(LAMBDA kept, l : IF Removable(s, kept, l) THEN kept ELSE kept \cup {l},
           keep, Reverse(LastAssignedFirst(s, block)))

(* One block: a single literal stays, others are shrunk or minimised. *)
minimize_and_shrink_block(s, keep, block) ==
  LET level == LevelOf(s, CHOOSE l \in block : TRUE)
      uip == BlockUip(s, keep, level, block)
  IN  IF Cardinality(block) = 1 THEN keep \cup block
      ELSE IF uip # 0 THEN keep \cup {uip} ELSE Minimized(s, keep, block)

(* The blocks below the conflict level, lowest level first. *)
shrink_and_minimize_clause(s, rest) ==
  FoldLeft(LAMBDA keep, level : minimize_and_shrink_block(s, keep, AtLevel(s, rest, level)),
           {}, InOrder({LevelOf(s, l) : l \in rest}))

-----------------------------------------------------------------------------
(* Redundant clauses that contain the learned one are thrown away. *)
eagerly_subsume_recently_learned_clauses(s, n) ==
  [s EXCEPT !.clauses = [m \in DOMAIN @ |->
     IF m # n /\ @[m].redundant /\ LitSet(@[n]) \subseteq LitSet(@[m])
     THEN [@[m] EXCEPT !.garbage = TRUE] ELSE @[m]]]

(* Mutant: a learned unit is not assigned. *)
DrivenByClauses(s, lits) ==
  LET order == LastAssignedFirst(s, lits)
      n == FreshClause(s)
      learned == watch_clause(WithClause(s, n, Clause(order, TRUE)), n)
  IN  IF Cardinality(lits) = 1 THEN backtrack(s, 0)
      ELSE search_assign(backtrack(learned, LevelOf(s, order[2])), order[1], n)

(* The learned literals, and the last assigned of them flipped at the level  *)
(* of the next: a unit at the root.                                          *)
Driven(s, lits) ==
  LET order == LastAssignedFirst(s, lits)
      n == FreshClause(s)
      jump == LevelOf(s, order[2])
      learned == watch_clause(WithClause(s, n, Clause(order, TRUE)), n)
  IN  IF Cardinality(lits) = 1 THEN search_assign(backtrack(s, 0), order[1], UnitReason)
      ELSE eagerly_subsume_recently_learned_clauses(
             search_assign(backtrack(learned, jump), order[1], n), n)

(* The whole analysis of a conflict. *)
CARanalyze(s) ==
  LET seen == Resolved(s, NotFixed(s, ConflictLiterals(s, s.conflict)))
      uip == AtLevel(s, seen, Level(s))
      rest == shrink_and_minimize_clause(s, seen \ uip)
      after == Driven(s, uip \cup rest)
  IN  IF Level(s) = 0 THEN [s EXCEPT !.unsat = TRUE]
      ELSE [after EXCEPT !.conflict = 0, !.conflict_literal = 0]
=============================================================================
