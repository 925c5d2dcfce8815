----------------------------- MODULE CdclBlock ------------------------------
(* Blocked clauses (block.cpp) and covered clauses (cover.cpp) are taken     *)
(* away: every resolvent on a literal, of the clause or of one it is         *)
(* extended to, is a tautology; so are, in the last part, globally blocked   *)
(* clauses (condition.cpp). All are options that are off by default.         *)
(* Limits on sizes and occurrences are beyond what is modelled, and literals *)
(* moved to the front of a clause stay where they are.                       *)
(* A round of covered clauses has the field                                  *)
(*   covered    clauses that were tried by an earlier round (bit covered)    *)
EXTENDS CdclGates

Frozen(x, l) == VarOf(l) \in x.frozen \cup x.assumed

Irredundant(x) == {n \in Live(x) : ~x.clauses[n].redundant /\ ~x.clauses[n].native}

(* Clauses satisfied at the root go, false literals leave the others.        *)
Simplified(x) ==
  LET satisfied == {n \in Live(x) : ~x.clauses[n].native /\ RootSatisfied(x, x.clauses[n])}
  IN  clear_watches(mark_satisfied_clauses_as_garbage(FoldLeft(MarkRemoved, x, InOrder(satisfied))))

(* The literals that are marked are scheduled.                               *)
block_schedule(x) ==
  LET open == {l \in x.blockable : Active(x, l) /\ ~Frozen(x, l)}
  IN  [x EXCEPT !.todo = open, !.blockable = @ \ open]

BeginBlock(x) == block_schedule(Simplified(x))

noccs(x, l) == Cardinality(Occurring(x, l))

(* Literals with few clauses to resolve with come first.                     *)
block_more_occs_size(x, k, l) ==
  \/ noccs(x, -k) > noccs(x, -l)
  \/ /\ noccs(x, -k) = noccs(x, -l)
     /\ \/ noccs(x, k) > noccs(x, l)
        \/ /\ noccs(x, k) = noccs(x, l)
           /\ VarOf(k) > VarOf(l) \/ (k = -l /\ k < 0)

FrontLiteral(x) == CHOOSE l \in x.todo : \A k \in x.todo \ {l} : block_more_occs_size(x, k, l)

(* Another literal of n occurs complemented in m.                            *)
Tautological(x, n, m, l) ==
  \E k \in LitSet(x.clauses[n]) \ {l} : -k \in LitSet(x.clauses[m])

is_blocked_clause(x, n, l) == \A m \in Occurring(x, -l) : Tautological(x, n, m, l)

(* Clauses with l that are blocked on it, in the order they are met.         *)
BlockedOn(x, l) == SelectSeq(InOrder(Occurring(x, l)), LAMBDA n : is_blocked_clause(x, n, l))

(* They are kept with l as witness, and the complements of their literals    *)
(* are worth a try.                                                          *)
BlockClause(x, n, l) ==
  LET lits == x.clauses[n].lits
      again == {-k : k \in {j \in Range(lits) : Active(x, j) /\ ~Frozen(x, j)}}
  IN  [MarkRemoved(push_clause_on_extension_stack(x, lits, {l}), n) EXCEPT !.todo = @ \cup again]

(* A pure literal leaves no clause with its variable, which is out of use.   *)
block_literal(x, l) ==
  LET blocked == FoldLeft(LAMBDA y, n : BlockClause(y, n, l), x, BlockedOn(x, l))
      done == [blocked EXCEPT !.blockable = @ \ {l}]
  IN  IF ~Active(x, l) \/ Frozen(x, l) THEN x
      ELSE IF noccs(x, -l) # 0 THEN done
      ELSE [done EXCEPT !.active = @ \ {VarOf(l)}, !.todo = @ \ {l, -l}]

(* Is a clause blocked that a pure literal does not account for? *)
BlocksSome(x) ==
  LET l == FrontLiteral(x)
  IN  Active(x, l) /\ ~Frozen(x, l) /\ noccs(x, -l) # 0 /\ BlockedOn(x, l) # <<>>

BlockNext(x) == LET l == FrontLiteral(x) IN block_literal([x EXCEPT !.todo = @ \ {l}], l)

-----------------------------------------------------------------------------
(* Covered clauses. The literals of a clause are assumed false; what clauses *)
(* then force would follow for a clause extended by its complement, and so   *)
(* would literals that all clauses to resolve with share. A coveror k is a   *)
(* state, the literals of the clause with those shared, and the entries for  *)
(* the stack.                                                                *)

asymmetric_literal_addition(s, l) == search_assign(s, -l, DecisionReason)

(* A watch of a false literal, as in propagation but without clause c.       *)
CoverVisit(lit, c, a, w) ==
  IF a.stop \/ w.clause = c \/ IsTrue(a.s, w.blit) THEN Keep(a, w, a.s)
  ELSE IF a.s.clauses[w.clause].garbage THEN a
  ELSE IF w.size > 2 THEN VisitClause(lit, a, w)
  ELSE IF IsFalse(a.s, w.blit) THEN Conflict(a, w, a.s)
  ELSE VisitBinary(a, w)

(* The next literal that is false; a conflict makes the clause a tautology.  *)
cover_propagate_asymmetric(s, c) ==
  LET lit == -s.trail[s.propagated + 1].lit
      rest(end) == [end.s EXCEPT !.watches[lit] = end.kept]
  IN  rest(FoldLeft(LAMBDA a, w : CoverVisit(lit, c, a, w),
                    [s |-> [s EXCEPT !.propagated = @ + 1], kept |-> <<>>, stop |-> FALSE],
                    s.watches[lit]))

(* Clauses with the complement of l that no other literal satisfies.         *)
Candidates(s, l) ==
  SelectSeq(occs(s, -l), LAMBDA n : ~\E k \in LitSet(s.clauses[n]) \ {-l} : IsTrue(s, k))

(* Open literals that these clauses share.                                   *)
Intersection(s, l) ==
  LET cands == Candidates(s, l)
      open(k) == k # -l /\ ~IsFalse(s, k)
      shared(k) == open(k) /\ \A n \in Range(cands) : k \in LitSet(s.clauses[n])
  IN  IF cands = <<>> THEN <<>> ELSE SelectSeq(s.clauses[cands[1]].lits, shared)

(* The clause, as extended so far, with l in front as its witness.           *)
cover_push_extension(k, l) ==
  [k EXCEPT !.extend = Append(@, <<l>> \o SelectSeq(k.covered, LAMBDA j : j # l))]

covered_literal_addition(k, l) ==
  LET new == Intersection(k.s, l)
  IN  [cover_push_extension(k, l) EXCEPT
         !.s = FoldLeft(asymmetric_literal_addition, @, new), !.covered = @ \o new]

(* Positions of the literals that lead somewhere: all candidates satisfied,  *)
(* or literals that they share.                                              *)
cover_propagate_covered(k) ==
  {i \in DOMAIN k.covered :
     LET l == k.covered[i]
     IN  ~Frozen(k.s, l) /\ (Candidates(k.s, l) = <<>> \/ Intersection(k.s, l) # <<>>)}

(* Propagation first, then the first literal that leads somewhere. ends is   *)
(* whether clause c, extended, is a tautology.                               *)
RECURSIVE Cover(_, _)
Cover(k, c) ==
  LET fit == cover_propagate_covered(k)
      l == k.covered[Min(fit)]
  IN  IF k.s.conflict # 0 THEN [k EXCEPT !.ends = TRUE]
      ELSE IF k.s.propagated < Len(k.s.trail)
      THEN Cover([k EXCEPT !.s = cover_propagate_asymmetric(@, c)], c)
      ELSE IF fit = {} THEN k
      ELSE IF Candidates(k.s, l) = <<>> THEN [cover_push_extension(k, l) EXCEPT !.ends = TRUE]
      ELSE Cover(covered_literal_addition(k, l), c)

(* What propagation did to the order of watched literals stays.              *)
Uncovered(x, k) ==
  [x EXCEPT !.clauses = k.s.clauses, !.watches = k.s.watches]

cover_clause(x, c) ==
  LET lits == SelectSeq(x.clauses[c].lits, LAMBDA l : ~IsFalse(x, l))
      level1 == [x EXCEPT !.control = <<[decision |-> 0, trail |-> Len(x.trail)]>>,
                          !.propagated = Len(x.trail)]
      end == Cover([s |-> FoldLeft(asymmetric_literal_addition, level1, lits),
                    covered |-> lits, extend |-> <<>>, ends |-> FALSE], c)
      pushed == FoldLeft(LAMBDA y, e : push_clause_on_extension_stack(y, e, {e[1]}),
                         Uncovered(x, end), end.extend)
  IN  IF \E l \in LitSet(x.clauses[c]) : IsTrue(x, l) THEN MarkRemoved(x, c)
      ELSE IF end.ends THEN MarkRemoved(pushed, c) ELSE Uncovered(x, end)

(* Clauses whose literals are not all frozen are tried, those not tried      *)
(* before come first.                                                        *)
BeginCoverRound(x) ==
  LET y == connect_watches(clear_watches(x), TRUE)
      satisfied == {n \in Irredundant(y) : \E l \in LitSet(y.clauses[n]) : IsTrue(y, l)}
      z == FoldLeft(MarkRemoved, y, InOrder(satisfied))
      all == {n \in Irredundant(z) : ~\A l \in LitSet(z.clauses[n]) : Frozen(z, l)}
  IN  [z EXCEPT !.todo = all, !.covered = IF all \subseteq @ THEN @ \ all ELSE @]

(* The last of the largest clauses, of those not tried before if there are.  *)
NextToCover(x) ==
  LET untried == x.todo \ x.covered
      first == IF untried = {} THEN x.todo ELSE untried
  IN  CHOOSE n \in first : \A m \in first : \/ Size(x.clauses[n]) > Size(x.clauses[m])
                                            \/ Size(x.clauses[n]) = Size(x.clauses[m]) /\ n >= m

CoverNext(x) ==
  LET c == NextToCover(x)
  IN  cover_clause([x EXCEPT !.todo = @ \ {c}, !.covered = @ \cup {c}], c)

EndCoverRound(x) == clear_watches([x EXCEPT !.todo = {}])

-----------------------------------------------------------------------------
(* Globally blocked clauses (condition.cpp): an assignment that extends the  *)
(* one of the search has a part, the autarky, whose literals satisfy every   *)
(* clause they occur in complemented, provided that the other, conditional   *)
(* literals stay as they are. A clause that asks for one of them to change   *)
(* can go; the autarky is its witness.                                       *)
(* A round has the fields                                                    *)
(*   assigned     literals that are true, none of the root or frozen         *)
(*   touched      clauses that are looked at                                 *)
(*   todo         those that are candidates                                  *)
(*   conditioned  candidates that were tried before (bit conditioned)        *)

(* The search at its first decision, here l, without a conflict.             *)
Decided(x, l) == CARpropagate(search_assume_decision(x, l))

(* Literals of the search that take part; other variables that may be        *)
(* assigned are, with any phase.                                             *)
Assignable(x) == {v \in x.active : v \notin x.frozen \cup x.assumed}

InitialAssigned(x) ==
  LET kept == {l \in TrueLits(x) \ RootTrue(x) : VarOf(l) \in Assignable(x)}
  IN  {kept \cup {IF v \in P THEN v ELSE -v : v \in Assignable(x) \cap Unassigned(x)} :
         P \in SUBSET (Assignable(x) \cap Unassigned(x))}

(* Clauses satisfied at the root go. Candidates have a true literal.         *)
BeginConditionRound(x, assigned) ==
  LET irredundant == {n \in Live(x) : ~x.clauses[n].redundant /\ ~x.clauses[n].native}
      satisfied == {n \in irredundant : LitSet(x.clauses[n]) \cap RootTrue(x) # {}}
      candidates == {n \in irredundant \ satisfied : LitSet(x.clauses[n]) \cap assigned # {}}
  IN  [FoldLeft(MarkRemoved, x, InOrder(satisfied)) EXCEPT
         !.assigned = assigned, !.touched = irredundant \ satisfied, !.todo = candidates,
         !.conditioned = IF candidates \subseteq @ THEN @ \ candidates ELSE @]

(* Conditional literals that clause c does not ask to change are unassigned. *)
UnassignedBy(x, c, conditional) == {l \in conditional : -l \notin LitSet(x.clauses[c])}

(* What is false in clauses without a true literal is conditional.           *)
RECURSIVE Conditional(_, _, _)
Conditional(x, c, conditional) ==
  LET true == x.assigned \ UnassignedBy(x, c, conditional)
      open == {n \in x.touched : LitSet(x.clauses[n]) \cap true = {}}
      more == {l \in x.assigned : \E n \in open : -l \in LitSet(x.clauses[n])} \ conditional
  IN  IF more = {} THEN conditional ELSE Conditional(x, c, conditional \cup more)

(* Otherwise no clause has a chance. *)
SomeAutarky(x) == x.assigned # {-l : l \in UNION {LitSet(x.clauses[n]) :
                    n \in {m \in x.touched : LitSet(x.clauses[m]) \cap x.assigned = {}}}} \cap x.assigned

(* The literals that may be flipped together once clause c is gone.          *)
Autarky(x, c) == x.assigned \ Conditional(x, c, {})

(* Candidates not tried before come first.                                   *)
NextCandidate(x) ==
  LET untried == x.todo \ x.conditioned
  IN  Min(IF untried = {} THEN x.todo ELSE untried)

(* Clauses that are reasons are passed over. The autarky serves as witness   *)
(* if it has a literal of the clause.                                        *)
ConditionNext(x) ==
  LET c == NextCandidate(x)
      y == [x EXCEPT !.todo = @ \ {c}]
      tried == [y EXCEPT !.conditioned = @ \cup {c}]
      pushed == push_clause_on_extension_stack(tried, x.clauses[c].lits, Autarky(x, c))
  IN  IF c \in Reasons(x) THEN y
      ELSE IF LitSet(x.clauses[c]) \cap Autarky(x, c) = {} THEN tried
      ELSE MarkRemoved(pushed, c)

(* The search goes on, here with a restart. At a limit, a candidate may have *)
(* been tried in vain.                                                       *)
EndConditionRound(x) ==
  LET tried == IF x.todo = {} THEN {} ELSE {NextCandidate(x)}
  IN  {backtrack([x EXCEPT !.todo = {}, !.touched = {}, !.assigned = {},
                           !.conditioned = @ \cup last], 0) : last \in {{}, tried \ Reasons(x)}}
=============================================================================
