----------------------------- MODULE MCOLSRMpr -----------------------------
(***************************************************************************)
(* Neighbour sets of three, and 2-hop sets of up to MaxTuples tuples in    *)
(* every order: two nodes far away and a neighbour seen through another.   *)
(***************************************************************************)
EXTENDS OLSRMpr, TLC

CONSTANTS a, b, c, x, y, MaxTuples

Tuples == [nb : {a, b}, far : {x, y}]
              \cup {[nb |-> c, far |-> y], [nb |-> a, far |-> b]}

\* Positions of a vector hold different tuples (find_nb2hop_tuple, l.2797).
Vectors == UNION {{v \in [1..n -> Tuples] : \A i, j \in 1..n : i # j => v[i] # v[j]} :
                      n \in 0..MaxTuples}

EtxOfLinks == (a :> 1 @@ b :> 1 @@ c :> 2)
=============================================================================
