------------------------------ MODULE OLSRData ------------------------------
(***************************************************************************)
(* Data forwarding of OLSR agents (recv, forward_data of OLSR.cc) over the *)
(* routing tables of OLSRFlood, with nodes that become selfish and stop.   *)
(* A data packet that the MAC layer takes is not lost: links are settled.  *)
(***************************************************************************)
EXTENDS OLSRFlood

CONSTANTS
    Flow,          \* data packets: records [src, dst]
    IP_BROADCAST,
    IP_DEF_TTL,
    Egoist         \* nodes that may become selfish

ASSUME DataAssumption ==
    /\ IP_BROADCAST \notin Node
    /\ Flow \subseteq [src : Node, dst : Node \cup {IP_BROADCAST}]
    /\ IP_DEF_TTL \in Nat \ {0}
    /\ Egoist \subseteq Node

VARIABLES
    selfish,
    begun,   \* packets that were originated
    air,     \* records [pkt, from, to, ttl]: packets on their way to a neighbour
    taken    \* pairs <<packet, node>>: handed to dmux_

dataVars == <<selfish, begun, air, taken>>

Init ==
    /\ FloodInit
    /\ selfish = {} /\ begun = {} /\ air = {} /\ taken = {}

egoista(n) ==
    /\ n \in Egoist
    /\ selfish' \in {selfish \cup {n}, selfish \ {n}} \ {selfish}
    /\ UNCHANGED <<floodVars, begun, air, taken>>

\* Where forward_data sends a packet: to all neighbours, to some next hop of the
\* routing table, or nowhere.
forward_data(n, pkt) ==
    IF pkt.dst = IP_BROADCAST THEN {Nbs[n]}
    ELSE IF pkt.dst \in DOMAIN rtable[n] THEN {{m} : m \in rtable[n][pkt.dst].nexts}
    ELSE {{}}

Sent(n, pkt, ttl, hops) == {[pkt |-> pkt, from |-> n, to |-> m, ttl |-> ttl] : m \in hops}

\* recv of a packet that the node's own application sends: its num_forwards is 0.
Originate(pkt) ==
    /\ pkt \notin begun
    /\ begun' = begun \cup {pkt}
    /\ \E hops \in IF IP_DEF_TTL = 1 THEN {{}} ELSE forward_data(pkt.src, pkt) :
           air' = air \cup Sent(pkt.src, pkt, IP_DEF_TTL - 1, hops)
    /\ UNCHANGED <<floodVars, selfish, taken>>

\* Mutant: the flag is not looked at.
Refused_NeverSelfish(n, f) == f.pkt.src = n \/ f.ttl = 1

\* recv drops a packet that has come back to its source, whose TTL is used up, or that
\* a selfish node should forward, its own deliveries included.
Refused(n, f) == f.pkt.src = n \/ f.ttl = 1 \/ n \in selfish

Receive(f) ==
    LET n == f.to
        mine == f.pkt.dst \in {n, IP_BROADCAST}
    IN  /\ taken' = IF ~Refused(n, f) /\ mine THEN taken \cup {<<f.pkt, n>>} ELSE taken
        /\ \E hops \in IF Refused(n, f) \/ mine THEN {{}} ELSE forward_data(n, f.pkt) :
               air' = (air \ {f}) \cup Sent(n, f.pkt, f.ttl - 1, hops)
        /\ UNCHANGED <<floodVars, selfish, begun>>

Next ==
    \/ FloodNext /\ UNCHANGED dataVars
    \/ \E n \in Egoist : egoista(n)
    \/ \E pkt \in Flow : Originate(pkt)
    \/ \E f \in air : Receive(f)

vars == <<floodVars, dataVars>>

Spec == Init /\ [][Next]_vars

-----------------------------------------------------------------------------
(* Properties *)

TypeOK ==
    /\ FloodTypeOK
    /\ selfish \subseteq Egoist
    /\ \A f \in air : f.pkt \in begun /\ f.to \in Node /\ f.ttl \in 1..IP_DEF_TTL
    /\ taken \subseteq begun \X Node

Algo == INSTANCE Algorithm1 WITH Packet <- Flow, kept <- {},
                                 offered <- {<<f.pkt, f.from, f.to>> : f \in air}

\* Data forwarding implements Algorithm 1 of README.md (l.35-48): a selfish node drops
\* whatever data it did not originate, what is for itself included, and no node hands on
\* or delivers what it was not given (recv l.505-537, forward_data l.2017-2054).
SelfishPromise == Algo!Spec
=============================================================================
