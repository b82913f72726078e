----------------------------- MODULE MCKeyScan -----------------------------
(* KeyScan on small servers. *)
EXTENDS KeyScan, TLC

CONSTANTS k1, k2, a, b, c

Every == [keys |-> Keys, exact |-> FALSE]
OneType == [keys |-> {k1}, exact |-> FALSE]
OneName == [keys |-> {k1}, exact |-> TRUE]

SomeFilters == {Every, OneType, OneName}

OneFilter == {Every}

\* Two masters, listed in either order; SCAN meets the keys in its second and in its first step.
TwoMasters == {<<a, b>>, <<b, a>>}
TwoHolds == a :> {k1} @@ b :> Keys \ {k1}
TwoBuckets == [k \in Keys |-> IF k = k1 THEN 2 ELSE 1]

\* A cluster of two masters that is reduced to one.
Shrinking == {<<a, b>>, <<c>>}
ShrinkHolds == a :> {k1} @@ b :> Keys \ {k1} @@ c :> Keys
=============================================================================
