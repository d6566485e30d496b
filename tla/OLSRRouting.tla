---------------------------- MODULE OLSRRouting ----------------------------
(***************************************************************************)
(* rtable_default_computation of OLSR.cc (l.1465-1577): the routing table  *)
(* of one node from its neighbour, 2-hop and topology sets, ring by ring.  *)
(* The order of the vectors decides between next hops of equally short     *)
(* routes: an entry holds all of them.                                     *)
(***************************************************************************)
EXTENDS Naturals, FiniteSets

\* The entries of f, but for those that g has.
Over(g, f) == [x \in (DOMAIN g) \cup (DOMAIN f) |-> IF x \in DOMAIN g THEN g[x] ELSE f[x]]

\* Steps 1 and 2: the table is cleared, then the symmetric neighbours.
Neighbours(sym) == [m \in sym |-> [dist |-> 1, nexts |-> {m}]]

\* Step 3: the other nodes that willing symmetric neighbours have announced; they
\* are reached as the neighbour is, whose entry must be there (l.1528).
BehindNeighbours(sym, willing, pairs) ==
    LET N2 == {p \in pairs : p[1] \in sym \cap willing /\ p[2] \notin sym}
    IN  [d \in {p[2] : p \in N2} |->
            [dist |-> 2, nexts |-> {p[1] : p \in {q \in N2 : q[2] = d}}]]

\* Mutant: the next hop is the node before the destination.
OneRingMore_ThroughLast(table, topology, h) ==
    LET Into(d) == {t \in topology : t[2] = d /\ t[1] \in DOMAIN table /\ table[t[1]].dist = h}
        new == {d \in {t[2] : t \in topology} \ DOMAIN table : Into(d) # {}}
    IN  Over(table, [d \in new |-> [dist |-> h + 1, nexts |-> {t[1] : t \in Into(d)}]])

\* Step 4: one ring more, from topology tuples <<last, dest>> (l.1535-1548).
OneRingMore(table, topology, h) ==
    LET Into(d) == {t \in topology : t[2] = d /\ t[1] \in DOMAIN table /\ table[t[1]].dist = h}
        new == {d \in {t[2] : t \in topology} \ DOMAIN table : Into(d) # {}}
    IN  Over(table, [d \in new |-> [dist  |-> h + 1,
                                    nexts |-> UNION {table[t[1]].nexts : t \in Into(d)}]])

\* The rings from 2 on, until one adds nothing: at the latest when every node has
\* an entry.
rtable_default_computation(sym, willing, pairs, topology) ==
    LET last == 2 + Cardinality({t[2] : t \in topology})
        rings[h \in 2..last] ==
            IF h = 2 THEN Over(Neighbours(sym), BehindNeighbours(sym, willing, pairs))
            ELSE OneRingMore(rings[h - 1], topology, h - 1)
    IN  rings[last]
=============================================================================
