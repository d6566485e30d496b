------------------------------ MODULE Flooding ------------------------------
(***************************************************************************)
(* What the relays of OLSR promise (forward_default of OLSR.cc and the     *)
(* computation of relays): messages are flooded though only relays repeat  *)
(* them, each node once, and only if the first copy came from a node that  *)
(* chose it.  TTLs are large enough; relays change at any moment.          *)
(***************************************************************************)
EXTENDS FiniteSets

CONSTANTS
    Node,
    Nbs,      \* the neighbours of a node
    Message

\* Links are symmetric, and every part of the network has a link to the rest of it.
Symmetric ==
    /\ Nbs \in [Node -> SUBSET Node]
    /\ \A n, m \in Node : m \in Nbs[n] <=> n \in Nbs[m]
Connected ==
    \A S \in SUBSET Node : S # {} /\ (\A n \in S : Nbs[n] \subseteq S) => S = Node

TwoHop(n) == (UNION {Nbs[m] : m \in Nbs[n]}) \ ({n} \cup Nbs[n])

VARIABLES
    mprset, mprsel,  \* relays and selectors of a node
    has,             \* pairs <<message, node>>
    waiting,         \* pairs <<message, node>>: the node is going to send the message
    lost             \* messages that a neighbour of a sender missed

vars == <<mprset, mprsel, has, waiting, lost>>

\* Relays cover all that is two hops away, and know who chose them.
RelaysFit ==
    \A n \in Node :
        /\ \A w \in TwoHop(n) : mprset[n] \cap Nbs[n] \cap Nbs[w] # {}
        /\ \A r \in mprset[n] : n \in mprsel[r]

Init ==
    /\ has = {} /\ waiting = {} /\ lost = {}

Originate(n, msg) ==
    /\ has' = has \cup {<<msg, n>>}
    /\ \A m \in Node : <<msg, m>> \notin has
    /\ waiting' = waiting \cup {<<msg, n>>}
    /\ UNCHANGED <<mprset, mprsel, lost>>

\* n sends messages that it has waiting; heard are the nodes that the packet reaches.
Transmit(n, packet, heard) ==
    /\ lost' = IF heard = Nbs[n] THEN lost ELSE lost \cup packet
    /\ waiting' = (waiting \ (packet \X {n}))
                      \cup {p \in (packet \X heard) \ has : n \in mprsel[p[2]]}
    /\ has' = has \cup (packet \X heard)
    /\ UNCHANGED <<mprset, mprsel>>

\* Relays and selectors change as they like, as long as they fit.
Reselect == UNCHANGED <<has, waiting, lost>>

Waiting(n) == {p[1] : p \in {q \in waiting : q[2] = n}}

Next ==
    \/ Reselect
    \/ \E n \in Node : \E packet \in SUBSET Waiting(n) : \E heard \in SUBSET Nbs[n] :
           Transmit(n, packet, heard)
    \/ \E n \in Node, msg \in Message : Originate(n, msg)

Spec == Init /\ [][Next]_vars /\ []RelaysFit

-----------------------------------------------------------------------------

\* Once no copy of a message waits to be sent, the message is everywhere or nowhere,
\* unless a transmission of it was missed.
ReachesAll ==
    \A msg \in Message \ lost :
        (\A n \in Node : <<msg, n>> \notin waiting) /\ (\E n \in Node : <<msg, n>> \in has)
            => \A n \in Node : <<msg, n>> \in has

\* A node that lacks a message, with a neighbour that has it, has a neighbour that is
\* going to send it.
Underway ==
    \A msg \in Message \ lost : \A w \in Node : \A m \in Nbs[w] :
        <<msg, m>> \in has /\ <<msg, w>> \notin has => \E r \in Nbs[w] : <<msg, r>> \in waiting

WaitingIsPairs == waiting \subseteq Message \X Node
WaitingIsHeld == waiting \subseteq has

IInv == WaitingIsPairs /\ WaitingIsHeld /\ Underway
=============================================================================
