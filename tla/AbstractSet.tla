---------------------------- MODULE AbstractSet ----------------------------
(***************************************************************************)
(* What the search expects of each of its stacks: a set of elements that   *)
(* can be added to, removed from, filtered and emptied.                    *)
(***************************************************************************)
CONSTANTS Elems

VARIABLE set

Init == set = {}

Add(x) == x \in Elems \ set /\ set' = set \cup {x}

Drop(x) == x \in set /\ set' = set \ {x}

DropAll(bad) == set' = set \ bad

Next ==
  \/ \E x \in Elems : Add(x) \/ Drop(x)
  \/ \E bad \in SUBSET Elems : DropAll(bad)

Spec == Init /\ [][Next]_set
=============================================================================
