----------------------------- MODULE MCInprocess -----------------------------
(* Small formulas and calls for Inprocess. Some formulas were picked among   *)
(* random ones such that further cases occur.                                *)
EXTENDS Inprocess

add(degree, lits) == [op |-> "add", degree |-> degree, lits |-> lits, guard |-> 0]
clause(lits) == add(1, lits)
assume(lit) == [op |-> "assume", lit |-> lit]
solve(rounds) == [op |-> "solve", due |-> rounds]

(* A solve with a round of subsumption, a phase of elimination, both, or     *)
(* neither.                                                                  *)
subsuming == solve({"subsume"})
eliminating == solve({"elim"})
solving == solve({"subsume", "elim"})
searching == solve({})

Job(techniques, lemmas, calls) == [techniques |-> techniques, lemmas |-> lemmas, calls |-> calls]

(* Variable 1 is 2 and 3, and is used again after it was eliminated. *)
AndGate ==
  Job({}, {<<2, 4>>},
      <<clause(<<1, -2, -3>>), clause(<<-1, 2>>), clause(<<-1, 3>>), clause(<<1, 4>>),
        clause(<<-1, 2, 4>>), solving, assume(1), solving>>)

(* Variable 1 is the complement of the parity of 2 and 3. *)
XorGate ==
  Job({}, {},
      <<clause(<<1, 2, 3>>), clause(<<1, -2, -3>>), clause(<<-1, 2, -3>>), clause(<<-1, -2, 3>>),
        clause(<<1, 2, 4>>), clause(<<-1, 3, 4>>), solving>>)

(* Variable 1 is 3 or 4, depending on 2; in the second formula with 3 and 4  *)
(* exchanged in a clause.                                                    *)
IteGate ==
  Job({}, {},
      <<clause(<<-1, -2, 3>>), clause(<<-1, 2, 4>>), clause(<<1, -2, -3>>), clause(<<1, 2, -4>>),
        clause(<<1, 2, 3>>), solving>>)

IteSwapped ==
  Job({}, {},
      <<clause(<<-4, -1, 3>>), clause(<<3, 2>>), add(2, <<1, -3, -2>>), clause(<<-3, 4>>),
        clause(<<1, -3, -4>>), clause(<<3, 4, -1>>), clause(<<1, 4, -2>>), clause(<<4, 1, -2>>),
        solving>>)

(* Variable 1 equals 2. *)
Equivalence ==
  Job({}, {},
      <<clause(<<1, -2>>), clause(<<-1, 2>>), clause(<<1, 3, 4>>), clause(<<-1, -3, -4>>), solving,
        clause(<<-1, 4>>), solving>>)

(* A row shortens what is learned, also after a conflict. *)
WithRow ==
  Job({"vivify"}, {<<1, 2, 4>>},
      <<add(2, <<1, 2, 3>>), clause(<<1, 4>>), clause(<<-4, 2, 3>>), solving, assume(-1), solving>>)

RowConflict ==
  Job({"vivify"}, {<<-4, -1, 3>>},
      <<clause(<<1, 2, 4>>), clause(<<4, -1, -2>>), clause(<<-3, -2>>), clause(<<3, -4, 1>>),
        add(2, <<-4, -2, 1>>), clause(<<3, 2>>), subsuming>>)

(* Units are found on the way: at the root, by clauses that agree on a gate, *)
(* by a resolvent.                                                           *)
Units ==
  Job({"vivify"}, {}, <<clause(<<1, 2>>), clause(<<1, -2>>), clause(<<-1, 3, 4>>), clause(<<3, -4>>), solving>>)

GateUnits ==
  Job({}, {<<4, 3, 1>>},
      <<clause(<<-3, -4>>), clause(<<-2, -1>>), clause(<<4, -2>>), clause(<<4, 3>>),
        clause(<<4, -2>>), clause(<<-3, 2>>), clause(<<3, -4>>), solving>>)

ResolvedUnit ==
  Job({"vivify"}, {},
      <<clause(<<-1, 2, 3>>), clause(<<-2, -3>>), clause(<<2, -3>>), clause(<<4, 2>>),
        clause(<<1, 3>>), solving>>)

(* Resolvents are too many, or meet clauses they clash with. *)
TooMany ==
  Job({}, {},
      <<clause(<<1, -2, 3>>), clause(<<-1, 2, -3>>), clause(<<2, -3, 4>>), clause(<<-2, -1, 4>>),
        add(2, <<3, 4, 1>>), clause(<<-3, 1>>), clause(<<4, 2, -3>>), solving>>)

Clashing ==
  Job({"vivify"}, {},
      <<clause(<<-3, 4, 2>>), clause(<<1, 4>>), clause(<<-2, 1>>), clause(<<-1, -3, -4>>), solving>>)

(* Decisions of one clause are used for the next; nothing is left to remove. *)
Reused ==
  Job({"vivify"}, {<<-1, 2, 4>>},
      <<clause(<<-4, -1>>), clause(<<4, 3, 1>>), clause(<<2, 1>>), clause(<<4, -2, 1>>),
        clause(<<-1, 4, 2>>), clause(<<-4, 2, -3>>), subsuming>>)

NothingRemoved ==
  Job({"vivify"}, {<<-2, -4, 1>>},
      <<clause(<<4, 1, -2>>), clause(<<1, 3, -2>>), clause(<<4, -2>>), clause(<<2, -1, 4>>),
        clause(<<-3, -2, -4>>), clause(<<1, 4>>), subsuming>>)

(* A learned clause takes the place of two others. *)
Promoted ==
  Job({"vivify"}, {<<1, 2>>}, <<clause(<<1, 2, 3>>), clause(<<1, 2, -3>>), clause(<<-1, 4, 3>>), solving>>)

(* There is no model, of the first or of both calls. *)
Refuted ==
  Job({"vivify"}, {},
      <<clause(<<1, 2>>), clause(<<1, -2>>), clause(<<-1, 3>>), clause(<<-3, 4>>),
        clause(<<-3, -4>>), solving, assume(1), solving>>)

RefutedLater ==
  Job({"vivify"}, {},
      <<clause(<<-3, -1>>), clause(<<-3, 2, 1>>), clause(<<-1, -4, 2>>), clause(<<2, 3>>),
        clause(<<-1, -2>>), assume(-4), subsuming, clause(<<-2, 1>>), subsuming>>)

(* Clauses are blocked or covered: 2 to 5 are assumed, 1 takes part in too   *)
(* many resolvents. Later a clause is needed again.                          *)
Frozen5(calls) == calls \o <<assume(2), assume(3), assume(-4), assume(5), eliminating>>

Blocked ==
  Job({"block"}, {},
      Frozen5(<<clause(<<-1, 3, 5>>), clause(<<-1, 4, -5>>), clause(<<1, -2, 4>>), clause(<<-1, -2, 3>>),
                clause(<<1, -4, 5>>), clause(<<1, 3, 4>>), clause(<<1, -3, -4>>)>>)
      \o <<clause(<<-1, 2>>), searching>>)

Covered ==
  Job({"block", "cover"}, {},
      Frozen5(<<clause(<<1, 4, -5>>), clause(<<1, -3, 4>>), clause(<<-1, 3, 4>>), clause(<<-1, -3, 5>>),
                clause(<<1, -2, 3>>), clause(<<1, 2, 5>>), clause(<<3, 4, 5>>), clause(<<1, -4, 5>>),
                clause(<<-1, 4, 5>>)>>))

CoveredBlocked ==
  Job({"cover"}, {},
      Frozen5(<<clause(<<1, 2, 5>>), clause(<<1, 2, -3>>), clause(<<-1, 4, -5>>), clause(<<1, -4, 5>>),
                clause(<<-1, -3, -4>>), clause(<<-1, -3, 5>>), clause(<<-2, -3, -5>>)>>)
      \o <<clause(<<-1, 2>>), searching>>)

(* Units of an elimination are still to be propagated.                       *)
Pending ==
  {Job({t}, {},
       <<clause(<<1, -3>>), clause(<<2, 1, -4>>), clause(<<-4, -3>>), clause(<<1, 3, 2>>),
         clause(<<-3, -1>>), clause(<<-4, 3>>), assume(-2), assume(1), eliminating>>) :
     t \in {"block", "cover"}}

(* Literals that satisfy whatever they occur in.                             *)
Conditional3 ==
  Job({}, {},
      <<clause(<<1, 2, 3>>), clause(<<-1, 2, -3>>), clause(<<-1, -2>>), solve({"condition"}),
        clause(<<-2, 3>>), searching>>)

(* A clause that others make superfluous, and a literal that leads to both   *)
(* phases of another.                                                        *)
Transitive ==
  Job({"transred"}, {<<1, 4>>},
      <<clause(<<-1, 2>>), clause(<<-2, 3>>), clause(<<-1, 3>>), clause(<<-3, 4>>), subsuming>>)

FailedLiteral ==
  Job({"transred"}, {}, <<clause(<<-1, 2>>), clause(<<-2, 3>>), clause(<<-1, -3>>), clause(<<-1, 4>>), subsuming>>)

Small ==
  {AndGate, XorGate, IteGate, IteSwapped, Equivalence, WithRow, RowConflict, Units, GateUnits,
   ResolvedUnit, TooMany, Clashing, Reused, NothingRemoved, Promoted, Refuted,
   RefutedLater, Blocked, Covered, CoveredBlocked, Conditional3, Transitive, FailedLiteral} \cup Pending

(* All variables but 1 are assumed. Its elimination resolves {8, 9} first    *)
(* and later finds the unit 7, which satisfies {9, 7}; {9, 10} comes next in *)
(* the clauses {8, 9} is tried against.                                      *)
LateUnit ==
  Job({}, {},
      <<clause(<<1, 8>>), clause(<<-1, 9>>), clause(<<1, -2>>), clause(<<-1, -2>>),
        clause(<<2, -3>>), clause(<<2, -4>>), clause(<<1, 5, 7>>), clause(<<1, -5, 3>>),
        clause(<<1, -6, 3>>), clause(<<-1, -5, 4>>), clause(<<-1, -6, 4>>), clause(<<-1, 6, 7>>),
        clause(<<9, 7>>), clause(<<9, 10>>), clause(<<8, -7>>), clause(<<8, 10>>), clause(<<8, -9>>),
        assume(-2), assume(-3), assume(-4), assume(-5), assume(-6), assume(7), assume(8),
        assume(-9), assume(-10), solving>>)

Late == {LateUnit}
=============================================================================
