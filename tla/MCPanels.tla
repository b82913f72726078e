------------------------------ MODULE MCPanels ------------------------------
(* Panels with a small cluster for the key list. *)
EXTENDS Panels, TLC

CONSTANTS a, b, k1

Every == [keys |-> ScanKeys, exact |-> FALSE]
OneFilter == {Every}

\* Two masters, listed in either order; the key is on the first, in SCAN's second step.
TwoMasters == {<<a, b>>, <<b, a>>}
TwoHolds == a :> ScanKeys @@ b :> {}
SecondStep == [k \in ScanKeys |-> 2]

\* No bound, two from a list's end, the second place, and one past the last.
TypedLimits == {None, -2, 1, Top + 1}

\* Nothing tells one index, field or query of the search page from another.
Alike == Permutations(Indexes) \cup Permutations(Fields) \cup Permutations(Queries)
=============================================================================
