---------------------------- MODULE MCOLSRData -----------------------------
(***************************************************************************)
(* Four OLSR nodes: with two ways from a to d, or in a line.               *)
(***************************************************************************)
EXTENDS OLSRData

CONSTANTS a, b, c, d

BothWays(L) == L \cup {<<p[2], p[1]>> : p \in L}
Ring == BothWays({<<a, b>>, <<a, c>>, <<b, d>>, <<c, d>>})
Line == BothWays({<<a, b>>, <<b, c>>, <<c, d>>})

FullTtl == <<255>>
FishEye == <<255, 3, 2, 1, 2, 1, 1, 3, 2, 1, 2, 1, 1>>

NoFlow == {}
Far == {[src |-> a, dst |-> d], [src |-> d, dst |-> IP_BROADCAST]}

\* The two ways look the same.
Ways == Permutations({b, c})
=============================================================================
