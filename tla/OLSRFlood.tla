----------------------------- MODULE OLSRFlood -----------------------------
(***************************************************************************)
(* Topology control of OLSR agents (OLSR.cc): TC messages are flooded by   *)
(* relays; topology sets and routing tables follow from them.              *)
(*                                                                         *)
(* Neighbourhoods have settled (OLSRHello): links are symmetric and do not *)
(* change, and every HELLO is heard.  Relays are as OLSRMpr leaves them    *)
(* and may be chosen anew.  A transmission reaches all neighbours at once, *)
(* except those that miss it; the time in the interface queue counts as    *)
(* time in the buffer msgs_.                                               *)
(***************************************************************************)
EXTENDS Integers, FiniteSets, SequencesExt, OLSRRouting

CONSTANTS
    Node,
    Link,           \* pairs <<n, m>> of symmetric neighbours
    OLSR_MAX_MSGS,  \* messages of a packet
    tc_msg_ttl,     \* TTLs of TC messages, in turn: <<255>>, longer with fish_eye_
    MaxTcs,         \* bound: TC messages
    MaxChanges,     \* bound: new choices of relays
    MaxMissed,      \* bound: messages that some neighbour misses
    MaxExpiries     \* bound: topology tuples whose time is over

OLSR_MAX_SEQ_NUM == 65535
\* Mutant: the counter is not 16 bits wide.
Next16_Wide(s) == s + 1

Next16(s) == (s + 1) % (OLSR_MAX_SEQ_NUM + 1)

ASSUME ConstantsAssumption ==
    /\ IsFiniteSet(Node)
    /\ Link \subseteq Node \X Node
    /\ \A p \in Link : <<p[2], p[1]>> \in Link /\ p[1] # p[2]
    /\ OLSR_MAX_MSGS \in Nat \ {0}
    /\ tc_msg_ttl \in Seq(1..255) \ {<<>>}
    /\ MaxTcs \in Nat /\ MaxChanges \in Nat /\ MaxMissed \in Nat /\ MaxExpiries \in Nat

VARIABLES
    mprset,     \* relays of a node
    mprsel,     \* its selectors
    ansn,
    msg_seq,    \* number of its last TC message
    msgs,       \* buffer: a sequence of TC messages
    dup,        \* duplicate set: pairs <<originator, number>>
    topology,   \* tuples [last, dest, seq]
    rtable,
    sent,       \* every TC message that was originated
    missed,     \* those that a neighbour of a sender missed, as pairs like those of dup
    changes, expiries

floodVars == <<mprset, mprsel, ansn, msg_seq, msgs, dup, topology, rtable, sent, missed,
               changes, expiries>>

Nbs == [n \in Node |-> {m \in Node : <<n, m>> \in Link}]

\* The 2-hop set, as pairs <<neighbour, other>>, and what of it needs a relay.
nb2hop == [n \in Node |-> {p \in Link : p[1] \in Nbs[n] /\ p[2] # n}]
TwoHop == [n \in Node |-> {p \in nb2hop[n] : p[2] \notin Nbs[n]}]

\* What the properties of OLSRMpr leave: all that is two hops away is covered, by no
\* more relays than there are nodes to cover.
RelaySets ==
    [n \in Node |->
        LET far == {p[2] : p \in TwoHop[n]}
        IN  {R \in SUBSET {p[1] : p \in TwoHop[n]} :
                /\ \A w \in far : \E r \in R : <<r, w>> \in TwoHop[n]
                /\ Cardinality(R) <= Cardinality(far)}]

Routes(n, tuples) ==
    rtable_default_computation(Nbs[n], Node, nb2hop[n], {<<t.last, t.dest>> : t \in tuples})

\* As after the first HELLOs, in which the numbers have left 65535.
FloodInit ==
    /\ mprset \in [Node -> UNION {RelaySets[n] : n \in Node}]
    /\ \A n \in Node : mprset[n] \in RelaySets[n]
    /\ mprsel = [n \in Node |-> {m \in Node : n \in mprset[m]}]
    /\ ansn = [n \in Node |-> (OLSR_MAX_SEQ_NUM + Cardinality(mprsel[n])) % (OLSR_MAX_SEQ_NUM + 1)]
    /\ msg_seq = [n \in Node |-> OLSR_MAX_SEQ_NUM]
    /\ msgs = [n \in Node |-> <<>>]
    /\ dup = [n \in Node |-> {}]
    /\ topology = [n \in Node |-> {}]
    /\ rtable = [n \in Node |-> Routes(n, {})]
    /\ sent = {} /\ missed = {}
    /\ changes = 0 /\ expiries = 0

-----------------------------------------------------------------------------
(* Selectors *)

\* A HELLO of m names its relays, the same as before or others: those that did not
\* have m as selector add it.  All who hear it compute their routes, which are as they
\* were unless a tuple has expired in between.
Hello(m, R) ==
    LET new == {n \in R : m \notin mprsel[n]}
    IN  /\ R = mprset[m] \/ changes < MaxChanges
        /\ mprset' = [mprset EXCEPT ![m] = R]
        /\ mprsel' = [n \in Node |-> IF n \in new THEN mprsel[n] \cup {m} ELSE mprsel[n]]
        /\ ansn' = [n \in Node |-> IF n \in new THEN Next16(ansn[n]) ELSE ansn[n]]
        /\ rtable' = [n \in Node |-> IF n \in Nbs[m] /\ expiries > 0 THEN Routes(n, topology[n])
                                     ELSE rtable[n]]
        /\ changes' = IF R = mprset[m] THEN changes ELSE changes + 1
        /\ UNCHANGED <<msg_seq, msgs, dup, topology, sent, missed, expiries>>

\* A selector that has not named n for the hold time.
SelectorExpires(n, m) ==
    /\ m \in mprsel[n]
    /\ n \notin mprset[m]
    /\ mprsel' = [mprsel EXCEPT ![n] = @ \ {m}]
    /\ ansn' = [ansn EXCEPT ![n] = Next16(@)]
    /\ UNCHANGED <<mprset, msg_seq, msgs, dup, topology, rtable, sent, missed, changes, expiries>>

-----------------------------------------------------------------------------
(* Flooding *)

\* The timer finds a selector; the number counts on whether or not anything changed.
send_tc(n) ==
    /\ mprsel[n] # {}
    /\ Cardinality(sent) < MaxTcs
    /\ LET turn == Cardinality({m \in sent : m.orig = n}) % Len(tc_msg_ttl)
           msg == [orig |-> n, seq |-> Next16(msg_seq[n]), ttl |-> tc_msg_ttl[turn + 1],
                   ansn |-> ansn[n], adv |-> mprsel[n]]
       IN  /\ msg_seq' = [msg_seq EXCEPT ![n] = msg.seq]
           /\ msgs' = [msgs EXCEPT ![n] = Append(@, msg)]
           /\ sent' = sent \cup {msg}
    /\ UNCHANGED <<mprset, mprsel, ansn, dup, topology, rtable, missed, changes, expiries>>

\* Mutant: no look at the tuples of newer messages.
process_tc_AnyOrder(tuples, m) ==
    LET older == {t \in tuples : t.last = m.orig /\ t.seq < m.ansn}
    IN  (tuples \ older) \cup {[last |-> m.orig, dest |-> d, seq |-> m.ansn] : d \in m.adv}

\* The message is out of order if a newer one has left tuples; else it replaces older
\* tuples and refreshes those of the same number.
process_tc(tuples, m) ==
    LET ofOrig == {t \in tuples : t.last = m.orig}
        current == {t \in ofOrig : t.seq >= m.ansn}
        kept == (tuples \ ofOrig) \cup current
    IN  IF \E t \in ofOrig : t.seq > m.ansn THEN tuples
        ELSE kept \cup {[last |-> m.orig, dest |-> d, seq |-> m.ansn] :
                            d \in m.adv \ {t.dest : t \in current}}

\* Mutant: nodes forward what comes from their relays.
forward_default_FromRelays(n, from, m) ==
    IF m.ttl > 1 /\ from \in mprset[n] THEN <<[m EXCEPT !.ttl = @ - 1]>> ELSE <<>>

\* Only the first copy of a message counts: every duplicate tuple lists the one
\* interface of the node (l.603).  What the sender's relay must pass on goes into the
\* buffer.
forward_default(n, from, m) ==
    IF m.ttl > 1 /\ from \in mprsel[n] THEN <<[m EXCEPT !.ttl = @ - 1]>> ELSE <<>>

\* One message of a packet at n: the sets of n before and after it.
TakeIn(n, from, sets, m) ==
    IF m.ttl <= 0 \/ m.orig = n \/ <<m.orig, m.seq>> \in sets.dup THEN sets
    ELSE [dup      |-> sets.dup \cup {<<m.orig, m.seq>>},
          topology |-> process_tc(sets.topology, m),
          msgs     |-> sets.msgs \o forward_default(n, from, m)]

\* The messages of a packet, one after the other.
Taken(n, from, sets, packet) ==
    LET after[i \in 0..Len(packet)] ==
            IF i = 0 THEN sets ELSE TakeIn(n, from, after[i - 1], packet[i])
    IN  after[Len(packet)]

recv_olsr(n, from, packet) ==
    Taken(n, from, [dup |-> dup[n], topology |-> topology[n], msgs |-> msgs[n]], packet)

\* The timer of a message: what the buffer holds goes out, as one packet or several.
\* A packet reaches the nodes of heard.
send_pkt(n, heard) ==
    /\ msgs[n] # <<>>
    /\ LET packet == SubSeq(msgs[n], 1, IF Len(msgs[n]) < OLSR_MAX_MSGS THEN Len(msgs[n])
                                        ELSE OLSR_MAX_MSGS)
           rest == SubSeq(msgs[n], Len(packet) + 1, Len(msgs[n]))
           after == [m \in heard |-> recv_olsr(m, n, packet)]
       IN  /\ missed' = missed \cup
                  (IF heard = Nbs[n] THEN {} ELSE {<<m.orig, m.seq>> : m \in ToSet(packet)})
           /\ Cardinality(missed') <= MaxMissed \/ heard = Nbs[n]
           /\ msgs' = [m \in Node |-> IF m = n THEN rest
                                      ELSE IF m \in heard THEN after[m].msgs ELSE msgs[m]]
           /\ dup' = [m \in Node |-> IF m \in heard THEN after[m].dup ELSE dup[m]]
           /\ topology' = [m \in Node |-> IF m \in heard THEN after[m].topology ELSE topology[m]]
           /\ rtable' = [m \in Node |-> IF m \in heard THEN Routes(m, after[m].topology)
                                        ELSE rtable[m]]
    /\ UNCHANGED <<mprset, mprsel, ansn, msg_seq, sent, changes, expiries>>

\* The hold time is long: no message is still on its way by then.  Routes are not
\* computed anew.
TopologyExpires(n, t) ==
    /\ expiries < MaxExpiries
    /\ \A m \in Node : msgs[m] = <<>>
    /\ topology' = [topology EXCEPT ![n] = @ \ {t}]
    /\ expiries' = expiries + 1
    /\ UNCHANGED <<mprset, mprsel, ansn, msg_seq, msgs, dup, rtable, sent, missed, changes>>

FloodNext ==
    \/ \E m \in Node : \E R \in RelaySets[m] : Hello(m, R)
    \/ \E n \in Node : \E m \in mprsel[n] : SelectorExpires(n, m)
    \/ \E n \in Node : send_tc(n)
    \/ \E n \in Node : \E heard \in SUBSET Nbs[n] : send_pkt(n, heard)
    \/ \E n \in Node : \E t \in topology[n] : TopologyExpires(n, t)

FloodSpec == FloodInit /\ [][FloodNext]_floodVars

-----------------------------------------------------------------------------
(* Properties *)

FloodTypeOK ==
    /\ mprset \in [Node -> SUBSET Node] /\ mprsel \in [Node -> SUBSET Node]
    /\ ansn \in [Node -> 0..OLSR_MAX_SEQ_NUM] /\ msg_seq \in [Node -> 0..OLSR_MAX_SEQ_NUM]
    /\ \A n \in Node :
        /\ \A i \in 1..Len(msgs[n]) : msgs[n][i].ttl \in 1..255
        /\ dup[n] \subseteq {<<m.orig, m.seq>> : m \in sent}
        /\ topology[n] \subseteq [last : Node, dest : Node, seq : 0..OLSR_MAX_SEQ_NUM]
        /\ DOMAIN rtable[n] \subseteq Node
    /\ missed \subseteq {<<m.orig, m.seq>> : m \in sent}

Quiet == \A n \in Node : msgs[n] = <<>>

\* Messages with full TTL, as pairs like those of dup; who has them, who will send them.
Full == {<<m.orig, m.seq>> : m \in {k \in sent : k.ttl = 255}}
Holders == {x \in Full \X Node : x[1][1] = x[2] \/ x[1] \in dup[x[2]]}
Senders == {x \in Full \X Node : \E i \in DOMAIN msgs[x[2]] :
                LET m == msgs[x[2]][i] IN x[1] = <<m.orig, m.seq>>}

Messages == Node \X (0..MaxTcs)
Lost == missed \cap Full

F == INSTANCE Flooding WITH Message <- Messages, has <- Holders, waiting <- Senders, lost <- Lost

ASSUME NetworkAssumption == F!Symmetric /\ F!Connected

\* The flooding of messages with full TTL implements Flooding: what is in the buffers and
\* duplicate sets changes as it promises (recv_olsr l.557-645, forward_default
\* l.1941-2009, send_pkt l.2082-2236).
FloodsAsPromised == F!Spec

Newest(n, o) ==
    LET known == {m \in sent : m.orig = o /\ <<o, m.seq>> \in dup[n]}
    IN  {m \in known : \A k \in known : k.ansn <= m.ansn}

\* What a node knows of an originator is what the newest message it has taken in
\* advertises, whatever the order in which the messages came; only expiry takes
\* something away (process_tc l.1800-1867).
KnowsTheNewest ==
    \A n \in Node : \A o \in Node \ {n} :
        LET known == {t \in topology[n] : t.last = o}
            advertised == UNION {{[last |-> o, dest |-> d, seq |-> m.ansn] : d \in m.adv} :
                                     m \in Newest(n, o)}
        IN  known \subseteq advertised /\ (expiries = 0 => known = advertised)

\* The nodes at most h hops away.
Reached[h \in 0..Cardinality(Node)] ==
    [n \in Node |-> IF h = 0 THEN {n} ELSE UNION {Reached[h - 1][m] : m \in Nbs[n] \cup {n}}]

\* The last word of every node that is a relay is out, and nothing of it was lost.
AllTold ==
    /\ Quiet /\ missed = {} /\ expiries = 0
    /\ \A n \in Node : \E m \in sent \cup {[orig |-> n, ansn |-> ansn[n], adv |-> {}, ttl |-> 255]} :
           m.orig = n /\ m.ansn = ansn[n] /\ m.adv = mprsel[n] /\ m.ttl = 255

\* Every next hop is a neighbour and a step nearer: through it the destination is no
\* further than the route says, so that the lengths never promise too much.  Once every
\* relay has advertised its selectors, every node has a shortest route to every other
\* one, although only links to selectors are known (rtable_default_computation
\* l.1465-1577).
RoutesAreShortest ==
    \A n \in Node :
        /\ \A d \in (DOMAIN rtable[n]) \ {n} :
              \A m \in rtable[n][d].nexts :
                  m \in Nbs[n] /\ d \in Reached[rtable[n][d].dist - 1][m]
        /\ AllTold => \A d \in Node \ {n} :
              d \in DOMAIN rtable[n] /\ d \notin Reached[rtable[n][d].dist - 1][n]
=============================================================================
