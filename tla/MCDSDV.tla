------------------------------- MODULE MCDSDV -------------------------------
(***************************************************************************)
(* Small networks for DSDV: three nodes in a line a - b - c, or two.       *)
(***************************************************************************)
EXTENDS DSDV, TLC

CONSTANTS a, b, c

Trio == {a, b, c}
Line == {<<a, b>>, <<b, a>>, <<b, c>>, <<c, b>>}

\* a and c are heard by b, b by nobody: two neighbours to lose at one node.
Inward == {<<a, b>>, <<c, b>>}

\* How often each node sends a periodic update: (last number - 2) / 2 times.
OnePeriodEach == (a :> 4 @@ b :> 4 @@ c :> 4)
FarIsActive   == (a :> 2 @@ b :> 4 @@ c :> 6)
NearIsQuiet   == (a :> 2 @@ b :> 4 @@ c :> 4)

NoFlows == {}
Through == {[src |-> a, dst |-> c, ptype |-> "cbr"]}
Exchange == {[src |-> b, dst |-> c, ptype |-> "cbr"], [src |-> c, dst |-> b, ptype |-> "cbr"]}
EveryKind == [src : {a}, dst : {c}, ptype : {"cbr", "message"}]
                \cup {[src |-> b, dst |-> IP_BROADCAST, ptype |-> "cbr"],
                      [src |-> c, dst |-> b, ptype |-> "cbr"]}
=============================================================================
