---------------------------- MODULE CdclCollect -----------------------------
(* Reduction of the clause database (reduce.cpp, collect.cpp): clauses       *)
(* satisfied at the root become garbage, root-level literals leave the       *)
(* others, useless learned clauses become garbage, garbage that is no reason *)
(* is freed. None of it backtracks: literals above the root keep their       *)
(* reasons while the clauses behind them shrink and the rows lose degrees.   *)
EXTENDS CdclAnalyze

Fixed(s, l) == l \in RootTrue(s) \/ l \in RootFalse(s)

(* Mutant: the saved position stays. *)
ShrinkOnly(c, lits) == [c EXCEPT !.lits = lits]

(* A shorter clause whose saved position would lie beyond its end. *)
shrink_clause(c, lits) ==
  [c EXCEPT !.lits = lits, !.pos = IF @ > Len(lits) THEN c.unwatched + 1 ELSE @]

mark_garbage(s, N) ==
  [s EXCEPT !.clauses = [n \in DOMAIN @ |->
     IF n \in N THEN [@[n] EXCEPT !.garbage = TRUE] ELSE @[n]]]

(* Root-false literals leave a clause that has two others. *)
remove_falsified_literals(s, n) ==
  LET c == s.clauses[n]
      left == SelectSeq(c.lits, LAMBDA l : l \notin RootFalse(s))
  IN  IF Len(left) < 2 \/ Len(left) = Size(c) THEN s
      ELSE [s EXCEPT !.clauses[n] = shrink_clause(c, left)]

(* A fixed literal in watched position i gives way to one that is not fixed: *)
(* if possible not false, tried from the saved position.                     *)
CARswap_watched_literal(s, n, i) ==
  LET c == s.clauses[n]
      tried == Tried(c)
      fit == {t \in DOMAIN tried : LET l == c.lits[tried[t]] IN ~Fixed(s, l) /\ ~IsFalse(s, l)}
      relaxed == {k \in c.unwatched + 1 .. Size(c) : ~Fixed(s, c.lits[k])}
      k == IF fit # {} THEN tried[Min(fit)] ELSE Min(relaxed)
      swapped == [s EXCEPT !.clauses[n].lits = Exchanged(@, i, k), !.clauses[n].pos = k]
  IN  watch_literal(remove_watch(swapped, c.lits[i], n), c.lits[k], i, n)

(* Mutant: the degree falls but the watches stay. *)
LowerDegree(s, n) ==
  LET true == Cardinality({l \in LitSet(s.clauses[n]) : l \in RootTrue(s)})
      lowered == [s EXCEPT !.clauses[n].unwatched = @ - true]
      swapped == FoldLeft(LAMBDA t, i : IF Fixed(t, t.clauses[n].lits[i])
                                        THEN CARswap_watched_literal(t, n, i) ELSE t,
                          lowered, [i \in 1 .. lowered.clauses[n].unwatched |-> i])
      d == swapped.clauses[n]
  IN  [swapped EXCEPT !.clauses[n] = shrink_clause(d, SelectSeq(d.lits, LAMBDA l : ~Fixed(s, l)))]

(* The degree falls by the root-true literals, the watches it no longer      *)
(* needs are taken out, then the fixed literals leave. A guard that is false *)
(* at the root is dropped.                                                   *)
CARremove_falsified_and_satisfied_literals(s, n) ==
  LET c == s.clauses[n]
      true == Cardinality({l \in LitSet(c) : l \in RootTrue(s)})
      unwatched == IF true = 0 THEN c.unwatched ELSE c.unwatched - true
      lowered == FoldLeft(LAMBDA t, i : remove_watch(t, c.lits[i], n),
                          [s EXCEPT !.clauses[n].unwatched = unwatched],
                          [i \in 1 .. c.unwatched - unwatched |-> unwatched + i])
      swapped == FoldLeft(LAMBDA t, i : IF Fixed(t, t.clauses[n].lits[i])
                                        THEN CARswap_watched_literal(t, n, i) ELSE t,
                          lowered, [i \in 1 .. unwatched |-> i])
      d == swapped.clauses[n]
      short == [swapped EXCEPT !.clauses[n] =
                  shrink_clause(d, SelectSeq(d.lits, LAMBDA l : ~Fixed(s, l)))]
  IN  IF c.guard \in RootFalse(s)
      THEN [remove_watch(short, c.guard, n) EXCEPT !.clauses[n].guard = 0]
      ELSE short

(* A clause with a true literal, a row with as many as its degree, or a true *)
(* guard, at the root.                                                       *)
RootSatisfied(s, c) ==
  \/ Cardinality({l \in LitSet(c) : l \in RootTrue(s)}) >= CARbound(c)
  \/ c.guard \in RootTrue(s)

HasFixed(s, c) == \E l \in LitSet(c) \cup ({c.guard} \ {0}) : Fixed(s, l)

(* Repeating this without new units changes nothing, which is why the code   *)
(* may skip it then.                                                         *)
mark_satisfied_clauses_as_garbage(s) ==
  LET live == {n \in DOMAIN s.clauses : ~s.clauses[n].garbage}
      satisfied == {n \in live : RootSatisfied(s, s.clauses[n])}
      touched == {n \in live \ satisfied : HasFixed(s, s.clauses[n])}
  IN  FoldLeft(LAMBDA t, n : IF t.clauses[n].native
                             THEN CARremove_falsified_and_satisfied_literals(t, n)
                             ELSE remove_falsified_literals(t, n),
               mark_garbage(s, satisfied), InOrder(touched))

-----------------------------------------------------------------------------
(* Mutant: reasons are not protected. *)
NoReasons(s) == {}

(* Clauses that are the reason of a literal above the root. *)
Reasons(s) == {s.trail[i].reason : i \in DOMAIN s.trail} \ {UnitReason}

(* Garbage that is no reason. *)
Collected(s) == {n \in DOMAIN s.clauses : s.clauses[n].garbage /\ n \notin Reasons(s)}

(* Watches of collected clauses go, the others are brought up to date: size, *)
(* blocking literal, binary clauses first.                                   *)
flush_watches(s, l) ==
  LET current(w) ==
        LET c == s.clauses[w.clause]
        IN  [w EXCEPT !.size = Size(c),
                      !.blit = IF w.native THEN @
                               ELSE IF c.lits[1] = l THEN c.lits[2] ELSE c.lits[1]]
      kept == SelectSeq(s.watches[l], LAMBDA w : w.clause \notin Collected(s))
      fresh == [i \in DOMAIN kept |-> current(kept[i])]
      binary(w) == ~w.native /\ w.size = 2
  IN  SelectSeq(fresh, binary) \o SelectSeq(fresh, LAMBDA w : ~binary(w))

delete_garbage_clauses(s) ==
  [s EXCEPT !.watches = [l \in Lits |-> flush_watches(s, l)],
            !.clauses = [n \in DOMAIN @ \ Collected(s) |-> @[n]]]

garbage_collection(s) ==
  IF s.unsat THEN s ELSE delete_garbage_clauses(mark_satisfied_clauses_as_garbage(s))

(* Learned clauses that a reduction may find useless. Which of them it does  *)
(* depends on glue, size and use.                                            *)
Reducible(s) ==
  {n \in DOMAIN s.clauses : /\ s.clauses[n].redundant /\ ~s.clauses[n].garbage
                            /\ n \notin Reasons(s)}

(* A reduction that finds these clauses useless. Satisfied clauses are       *)
(* marked before reasons are protected.                                      *)
reduce(s, useless) ==
  garbage_collection(mark_garbage(mark_satisfied_clauses_as_garbage(s), useless))
=============================================================================
