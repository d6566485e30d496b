------------------------------- MODULE MCAODV -------------------------------
(***************************************************************************)
(* Small networks for AODV: three nodes in a triangle or in a line, four   *)
(* nodes in a line (the shortest on which a route is repaired locally).    *)
(***************************************************************************)
EXTENDS AODV, TLC

CONSTANTS n1, n2, n3, n4

Trio == {n1, n2, n3}
Quartet == {n1, n2, n3, n4}
Line == {<<n1, n2>>, <<n2, n1>>, <<n2, n3>>, <<n3, n2>>}
Triangle == Line \cup {<<n1, n3>>, <<n3, n1>>}
LongLine == Line \cup {<<n3, n4>>, <<n4, n3>>}

AcrossLine == {[src |-> n1, dst |-> n3]}
\* Two sources next to each other, which a symmetric network does not tell apart.
BothWays == {[src |-> n1, dst |-> n3], [src |-> n2, dst |-> n3]}
Sources == Permutations({n1, n2})
AcrossLongLine == {[src |-> n1, dst |-> n4]}
EndToEnd == {[src |-> n1, dst |-> n4], [src |-> n4, dst |-> n1]}
\* Data both ways, and a relay with data of its own.
Three == EndToEnd \cup {[src |-> n3, dst |-> n4]}

\* How many requests each node may make: (MaxSeqno - 2) / 2, less where its own
\* number grows for other reasons.
OneEach    == [n \in Node |-> 4]
OneBut4    == (n1 :> 4 @@ n2 :> 4 @@ n3 :> 4 @@ n4 :> 2)
RepairTwice == (n1 :> 4 @@ n2 :> 2 @@ n3 :> 6 @@ n4 :> 2)
=============================================================================
