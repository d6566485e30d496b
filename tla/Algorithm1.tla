----------------------------- MODULE Algorithm1 -----------------------------
(***************************************************************************)
(* What README.md (l.35-48) promises of a node with selfish behaviour of   *)
(* type 1, whatever the routing protocol: it hands on the data that it     *)
(* originates and drops the data of others.  A node hands on nothing that  *)
(* it was not given, and may always drop.                                  *)
(*                                                                         *)
(* Behaviour switches at any moment.  What a node accepted before it       *)
(* became selfish it may still hand on: the agents look at the flag when   *)
(* a packet arrives, never when it leaves a queue.                         *)
(***************************************************************************)
CONSTANTS Node, Packet   \* packets are records with a field src

VARIABLES
    offered,   \* triples <<p, n, m>>: n has sent p on its way to m
    kept,      \* pairs <<p, n>>: n has accepted p and not yet handed it on
    taken,     \* pairs <<p, n>>: p has reached an application of n
    selfish

vars == <<offered, kept, taken, selfish>>

Init ==
    /\ offered = {} /\ kept = {} /\ taken = {}
    /\ selfish \in SUBSET Node

MayAccept(n, p) ==
    \/ p.src = n
    \/ n \notin selfish /\ \E m \in Node : <<p, m, n>> \in offered

\* A node accepts packets, and keeps them, gives them to applications or offers them
\* to other nodes, along with those that it kept; anything may be lost.
Handle(n) ==
    \E got \in SUBSET {p \in Packet : MayAccept(n, p)} :
        LET has == got \cup {p \in Packet : <<p, n>> \in kept}
        IN  /\ kept' \subseteq kept \cup (got \X {n})
            /\ taken' \subseteq taken \cup (got \X {n})
            /\ offered' \subseteq offered \cup (has \X {n} \X Node)
            /\ UNCHANGED selfish

\* egoista_on and egoista_off.
Switch(n) ==
    /\ selfish' \in {selfish \cup {n}, selfish \ {n}}
    /\ UNCHANGED <<offered, kept, taken>>

Next == \E n \in Node : Handle(n) \/ Switch(n)

Spec == Init /\ [][Next]_vars
=============================================================================
