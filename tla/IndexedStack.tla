---------------------------- MODULE IndexedStack ----------------------------
(***************************************************************************)
(* The idiom behind hardunsat_stack, cardinalitysat_stack and              *)
(* goodvar_stack: an array, its fill pointer, and for every element the    *)
(* position it has in the array, so that an element is removed in constant *)
(* time by moving the last one into its place.  The three differ in one    *)
(* thing: a goodvar or cardinality position is set to -1 when the element  *)
(* leaves and is then what membership is tested by, a hardunsat position   *)
(* is left stale.                                                          *)
(***************************************************************************)
EXTENDS Integers, FiniteSets

CONSTANTS
  Elems,    \* rows or variables
  capacity, \* length of the allocated array
  marked    \* whether leaving the stack sets the position to -1

\* allocate_memory leaves room for every row, or every variable, and ten more.
ASSUME StackAssumption ==
  /\ Elems \subseteq Nat /\ IsFiniteSet(Elems)
  /\ capacity \in Nat /\ Cardinality(Elems) <= capacity
  /\ marked \in BOOLEAN

VARIABLES
  stack,    \* the array; entries from fill on are leftovers
  index,    \* position of each element
  fill      \* the fill pointer

vars == <<stack, index, fill>>

Contents == {stack[i] : i \in 0..fill - 1}

Init ==
  /\ stack = [i \in 0..capacity - 1 |-> 0]
  /\ index = [x \in Elems |-> -1]
  /\ fill = 0

\* mypush: unsat(c) on hardunsat_stack, sat(c) on cardinalitysat_stack,
\* add_to_goodvar_stack.  The callers push what the stack does not hold.
Push(x) ==
  /\ x \notin Contents
  /\ stack' = [stack EXCEPT ![fill] = x]
  /\ index' = [index EXCEPT ![x] = fill]
  /\ fill' = fill + 1

\* Mutant: the moved element keeps its old position.
PopIntoStalePosition(st, i) ==
  [ stack |-> [st.stack EXCEPT ![i] = st.stack[st.fill - 1]],
    index |-> IF marked THEN [st.index EXCEPT ![st.stack[i]] = -1] ELSE st.index,
    fill  |-> st.fill - 1 ]

\* The last element takes the place at position i.
PopInto(st, i) ==
  LET v   == st.stack[i]
      top == st.stack[st.fill - 1]
      moved == [st.index EXCEPT ![top] = i]
  IN  [ stack |-> [st.stack EXCEPT ![i] = top],
        index |-> IF marked THEN [moved EXCEPT ![v] = -1] ELSE moved,
        fill  |-> st.fill - 1 ]

Here == [stack |-> stack, index |-> index, fill |-> fill]

Become(st) == stack' = st.stack /\ index' = st.index /\ fill' = st.fill

\* sat(c) on hardunsat_stack, unsat(c) on cardinalitysat_stack,
\* remove_from_goodvar_stack.
Remove(x) ==
  /\ x \in Contents
  /\ Become(PopInto(Here, index[x]))

\* Mutant: from the bottom up, so that the element moved into a swept place is
\* never looked at.
SweptUpward(bad) ==
  LET swept[k \in 0..fill] ==
        IF k = 0 THEN Here
        ELSE IF k <= swept[k - 1].fill /\ swept[k - 1].stack[k - 1] \in bad
             THEN PopInto(swept[k - 1], k - 1)
             ELSE swept[k - 1]
  IN  swept

\* The first loop of update_goodvarstack: from the top of the stack down,
\* every element whose score is no longer positive is popped into.  swept[k]
\* is the state after k positions.
Swept(bad) ==
  LET swept[k \in 0..fill] ==
        IF k = 0 THEN Here
        ELSE IF swept[k - 1].stack[fill - k] \in bad
             THEN PopInto(swept[k - 1], fill - k)
             ELSE swept[k - 1]
  IN  swept

Sweep(bad) == marked /\ Become(Swept(bad)[fill])

\* init_local_search empties the stack; where the position is a membership
\* test it also sets every position to -1.
Clear ==
  /\ fill' = 0
  /\ index' = IF marked THEN [x \in Elems |-> -1] ELSE index
  /\ UNCHANGED stack

Next ==
  \/ \E x \in Elems : Push(x) \/ Remove(x)
  \/ \E bad \in SUBSET Elems : Sweep(bad)
  \/ Clear

Spec == Init /\ [][Next]_vars

----------------------------------------------------------------------------
(* Correctness. *)

\* The array, the positions and the fill pointer keep their type, and the
\* array never overflows: callers never push an element twice.
TypeOK ==
  /\ stack \in [0..capacity - 1 -> Nat]
  /\ index \in [Elems -> Int]
  /\ fill \in 0..capacity
  /\ Contents \subseteq Elems

\* The positions are right after any number of elements were moved: the array
\* and index are inverse on the contents, and a position of -1 marks exactly
\* the elements outside when the stack is tested that way.
IndexInverse ==
  /\ \A i \in 0..fill - 1 : index[stack[i]] = i
  /\ marked => \A x \in Elems : index[x] = -1 <=> x \notin Contents

\* The idiom implements a set: it holds what the calls made of it.
S == INSTANCE AbstractSet WITH set <- Contents
SetSpec == S!Spec

\* Each call does what it was asked, whatever moved: a push adds its element, a
\* removal takes out the one named and not the one moved into its place, the
\* sweep misses none of the elements to be swept and takes no other.
CallExact ==
  /\ \A x \in Elems : Push(x) => S!Add(x)
  /\ \A x \in Elems : Remove(x) => S!Drop(x)
  /\ \A bad \in SUBSET Elems : Sweep(bad) => S!DropAll(bad)
  /\ Clear => S!DropAll(Elems)
EachCallExact == [][CallExact]_vars
=============================================================================
