---------------------------- MODULE CdclRewrite -----------------------------
(* What the rules that rewrite irredundant clauses share. They work at the   *)
(* root on a record x that has, besides the fields of the search state,      *)
(*   active     variables that are in use: not eliminated                    *)
(*   frozen, assumed   variables that may not be eliminated                  *)
(*   added      variables of clauses added or shrunken since the last        *)
(*              complete round of subsumption (flag subsume)                 *)
(*   removed    variables of irredundant clauses removed or shrunken since   *)
(*              they were last tried for elimination (flag elim)             *)
(*   blockable  literals of irredundant clauses added or shrunken, and those  *)
(*              whose complements left an irredundant clause, since the      *)
(*              literal was last tried (flag block)                          *)
(*   extension  what was taken away, a stack of a clause and its witness     *)
(*   tainted    literals to whose complements clauses on the stack owe that  *)
(*              they could be taken away                                     *)
(*   todo       what the running round has still to try: clauses, or the     *)
(*              schedule of variables                                        *)
(* Redundant clauses are taken to be likely to be kept.                      *)
EXTENDS CdclAdd

Live(x) == {n \in DOMAIN x.clauses : ~x.clauses[n].garbage}

VarSet(c) == {VarOf(l) : l \in LitSet(c)}

(* A variable with a value is fixed at the root and no longer active. *)
Active(x, l) == VarOf(l) \in x.active \cap Unassigned(x)

mark_added(x, n) ==
  LET c == x.clauses[n]
  IN  [x EXCEPT !.added = @ \cup VarSet(c),
                !.blockable = @ \cup (IF c.redundant THEN {} ELSE LitSet(c))]

(* Irredundant clauses with literals L are removed or lose these. *)
mark_removed(x, L) ==
  [x EXCEPT !.removed = @ \cup {VarOf(l) : l \in L}, !.blockable = @ \cup {-l : l \in L}]

(* A clause becomes garbage. *)
MarkRemoved(x, n) ==
  LET c == x.clauses[n]
  IN  mark_removed(mark_garbage(x, {n}), IF c.redundant THEN {} ELSE LitSet(c))

new_clause(x, lits, redundant) ==
  LET n == FreshClause(x)
  IN  mark_added(WithClause(x, n, Clause(lits, redundant)), n)

(* Literal l leaves clause n. *)
strengthen_clause(x, n, l) ==
  LET c == x.clauses[n]
      shorter == shrink_clause(c, SelectSeq(c.lits, LAMBDA k : k # l))
  IN  mark_added(mark_removed([x EXCEPT !.clauses[n] = shorter], IF c.redundant THEN {} ELSE {l}), n)

RootPropagated(x) == IF x.unsat THEN x ELSE OrEmpty(CARpropagate(x))

(* Watches are put in again and what is on the trail is propagated. *)
Reconnected(x) == RootPropagated(connect_watches(clear_watches(x), FALSE))

-----------------------------------------------------------------------------
(* The extension stack (extend.cpp, restore.cpp, external.cpp): clauses that *)
(* were taken away, each with literals that make it true if nothing else     *)
(* does. A model is extended from the top of the stack down; clauses are put *)
(* back when a literal comes into use whose complement is a witness.         *)

(* What is taken away, with its witnesses.                                   *)
push_clause_on_extension_stack(x, lits, witness) ==
  [x EXCEPT !.extension = Append(@, [lits |-> lits, witness |-> witness])]

Witnesses(x) == UNION {x.extension[i].witness : i \in DOMAIN x.extension}

(* Is the complement of a witness tainted? *)
Owed(x, e) == \E l \in e.witness : -l \in x.tainted

(* Literals come into use: their variables become active again.              *)
internalize(x, L) ==
  [x EXCEPT !.active = @ \cup {VarOf(l) : l \in L},
            !.tainted = @ \cup {l \in L : -l \in Witnesses(x)}]

(* A new clause or row; the variables of what enters the database are marked.*)
AddOriginal(x, call) ==
  LET marked(y) == FoldLeft(mark_added, y, InOrder(DOMAIN y.clauses \ DOMAIN x.clauses))
  IN  marked(CARadd_original_lit(internalize(x, Range(call.lits)), call))

(* Mutant: what is restored taints no further literals. *)
RestoreOnce(x) ==
  LET tainted(e) == Owed(x, e)
      original(e) == [lits |-> e.lits, degree |-> 1, guard |-> 0]
  IN  [FoldLeft(LAMBDA y, e : AddOriginal(y, original(e)), x, SelectSeq(x.extension, tainted))
         EXCEPT !.tainted = {}, !.extension = SelectSeq(@, LAMBDA e : ~tainted(e))]

(* Clauses with a witness whose complement is tainted are put back, from the *)
(* bottom of the stack up: one that is put back may taint further literals.  *)
restore_clauses(x) ==
  LET restore(b, e) ==
        IF Owed(b.x, e)
        THEN [b EXCEPT !.x = AddOriginal(@, [lits |-> e.lits, degree |-> 1, guard |-> 0])]
        ELSE [b EXCEPT !.kept = Append(@, e)]
      rest(end) == [end.x EXCEPT !.tainted = {}, !.extension = end.kept]
  IN  IF x.tainted = {} THEN x
      ELSE rest(FoldLeft(restore, [x |-> x, kept |-> <<>>], x.extension))

(* Witnesses of clauses that are not true are made true. *)
extend(x, M) ==
  FoldRight(LAMBDA e, N : IF Range(e.lits) \cap N # {} THEN N
                          ELSE (N \ {-l : l \in e.witness}) \cup e.witness,
            x.extension, M)
=============================================================================
