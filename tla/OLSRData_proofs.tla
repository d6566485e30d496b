-------------------------- MODULE OLSRData_proofs --------------------------
(***************************************************************************)
(* Proofs about OLSRFlood and OLSRData.                                    *)
(***************************************************************************)
EXTENDS OLSRData, FiniteSetTheorems, SequenceTheorems, WellFoundedInduction, TLAPS

LEMMA LeastNat ==
    ASSUME NEW T, T \subseteq Nat, T # {}
    PROVE  \E x \in T : \A y \in T : x <= y
<1> DEFINE R == OpToRel(<, Nat)
<1>1. IsWellFoundedOn(R, Nat)
  BY NatLessThanWellFounded
<1>2. \A x, y \in Nat : x < y => <<x, y>> \in R
  BY DEF OpToRel
<1> HIDE DEF R
<1>3. PICK x \in T : \A y \in T : ~ (<<y, x>> \in R)
  BY <1>1, WFMin
<1>4. ASSUME NEW y \in T PROVE x <= y
  <2>1. x \in Nat /\ y \in Nat
    OBVIOUS
  <2>2. ~ (y < x)
    BY <1>2, <1>3, <2>1
  <2>3. QED
    BY <2>1, <2>2
<1>5. QED
  BY <1>4

-----------------------------------------------------------------------------
(* Recursion over the messages of a packet and over the rings of routes *)

After(n, from, sets, packet) ==
    CHOOSE after : after = [i \in 0..Len(packet) |->
        IF i = 0 THEN sets ELSE TakeIn(n, from, after[i - 1], packet[i])]

LEMMA TakenIsAfter ==
    ASSUME NEW n, NEW from, NEW sets, NEW packet
    PROVE  Taken(n, from, sets, packet) = After(n, from, sets, packet)[Len(packet)]
BY DEF Taken, After

\* The first i messages can be taken in one after the other, for every i.
LEMMA AfterExists ==
    ASSUME NEW n, NEW from, NEW sets, NEW packet, Len(packet) \in Nat
    PROVE  LET after == After(n, from, sets, packet)
           IN  after = [i \in 0..Len(packet) |->
                   IF i = 0 THEN sets ELSE TakeIn(n, from, after[i - 1], packet[i])]
<1> DEFINE next(i, s) == TakeIn(n, from, s, packet[i])
           Upto(k, f) == f = [i \in 0..k |-> IF i = 0 THEN sets ELSE next(i, f[i - 1])]
           T == {k \in Nat : ~ \E f : Upto(k, f)}
<1> HIDE DEF next
<1>1. T = {}
  <2> SUFFICES ASSUME T # {} PROVE FALSE
    OBVIOUS
  <2>1. T \subseteq Nat
    OBVIOUS
  <2>a. PICK k \in T : \A j \in T : k <= j
    <3> HIDE DEF T
    <3> QED
      BY <2>1, LeastNat
  <2>2. k # 0
    <3> SUFFICES ASSUME k = 0 PROVE FALSE
      OBVIOUS
    <3>1. Upto(0, [i \in 0..0 |-> sets])
      OBVIOUS
    <3>2. QED
      BY <3>1
  <2>3. k \in Nat /\ k - 1 \in Nat /\ k - 1 \notin T
    <3> HIDE DEF T
    <3> QED
      BY <2>1, <2>a, <2>2
  <2>4. PICK f : Upto(k - 1, f)
    BY <2>3
  <2> DEFINE g == [i \in 0..k |-> IF i = k THEN next(k, f[k - 1]) ELSE f[i]]
  <2>5. ASSUME NEW i \in 0..k
        PROVE  g[i] = IF i = 0 THEN sets ELSE next(i, g[i - 1])
    <3>1. CASE i = k
      BY <3>1, <2>2, <2>3
    <3>2. CASE i # k
      <4>1. i \in 0..(k - 1) /\ g[i] = f[i]
        BY <3>2, <2>3
      <4>2. f[i] = IF i = 0 THEN sets ELSE next(i, f[i - 1])
        BY <2>4, <4>1
      <4>3. i # 0 => i - 1 \in 0..k /\ i - 1 # k
        BY <4>1
      <4>4. i # 0 => g[i - 1] = f[i - 1]
        BY <4>3
      <4>5. QED
        BY <4>1, <4>2, <4>4
    <3>3. QED
      BY <3>1, <3>2
  <2>6. Upto(k, g)
    <3>1. g = [i \in 0..k |-> g[i]]
      OBVIOUS
    <3> HIDE DEF g
    <3>2. QED
      BY <3>1, <2>5
  <2>7. QED
    BY <2>6
<1>2. \E f : Upto(Len(packet), f)
  BY <1>1
<1>3. Upto(Len(packet), CHOOSE f : Upto(Len(packet), f))
  BY <1>2
<1>4. QED
  BY <1>3 DEF After, next
RingsOf(sym, willing, pairs, tuples) ==
    CHOOSE rings : rings = [h \in 2..(2 + Cardinality({t[2] : t \in tuples})) |->
        IF h = 2 THEN Over(Neighbours(sym), BehindNeighbours(sym, willing, pairs))
        ELSE OneRingMore(rings[h - 1], tuples, h - 1)]

LEMMA RoutesAreRings ==
    ASSUME NEW sym, NEW willing, NEW pairs, NEW tuples
    PROVE  rtable_default_computation(sym, willing, pairs, tuples)
               = RingsOf(sym, willing, pairs, tuples)[2 + Cardinality({t[2] : t \in tuples})]
BY DEF rtable_default_computation, RingsOf

LEMMA RingsExist ==
    ASSUME NEW sym, NEW willing, NEW pairs, NEW tuples,
           Cardinality({t[2] : t \in tuples}) \in Nat
    PROVE  LET rings == RingsOf(sym, willing, pairs, tuples)
           IN  rings = [h \in 2..(2 + Cardinality({t[2] : t \in tuples})) |->
                   IF h = 2 THEN Over(Neighbours(sym), BehindNeighbours(sym, willing, pairs))
                   ELSE OneRingMore(rings[h - 1], tuples, h - 1)]
<1> DEFINE last == 2 + Cardinality({t[2] : t \in tuples})
           first == Over(Neighbours(sym), BehindNeighbours(sym, willing, pairs))
           next(h, tb) == OneRingMore(tb, tuples, h - 1)
           Upto(k, f) == f = [h \in 2..k |-> IF h = 2 THEN first ELSE next(h, f[h - 1])]
           T == {k \in Nat : k >= 2 /\ ~ \E f : Upto(k, f)}
<1> HIDE DEF next, first
<1>1. T = {}
  <2> SUFFICES ASSUME T # {} PROVE FALSE
    OBVIOUS
  <2>1. T \subseteq Nat /\ \A k \in T : k >= 2
    OBVIOUS
  <2>2. PICK k \in T : \A j \in T : k <= j
    <3> HIDE DEF T
    <3> QED
      BY <2>1, LeastNat
  <2>3. k # 2
    <3> SUFFICES ASSUME k = 2 PROVE FALSE
      OBVIOUS
    <3>1. Upto(2, [h \in 2..2 |-> first])
      OBVIOUS
    <3>2. QED
      BY <3>1
  <2>4. k \in Nat /\ k - 1 \in Nat /\ k - 1 >= 2 /\ k - 1 \notin T
    <3> HIDE DEF T
    <3> QED
      BY <2>1, <2>2, <2>3
  <2>5. PICK f : Upto(k - 1, f)
    BY <2>4
  <2> DEFINE g == [h \in 2..k |-> IF h = k THEN next(k, f[k - 1]) ELSE f[h]]
  <2>6. ASSUME NEW h \in 2..k
        PROVE  g[h] = IF h = 2 THEN first ELSE next(h, g[h - 1])
    <3>1. CASE h = k
      BY <3>1, <2>3, <2>4
    <3>2. CASE h # k
      <4>1. h \in 2..(k - 1) /\ g[h] = f[h]
        BY <3>2, <2>4
      <4>2. f[h] = IF h = 2 THEN first ELSE next(h, f[h - 1])
        BY <2>5, <4>1
      <4>3. h # 2 => h - 1 \in 2..k /\ h - 1 # k
        BY <4>1
      <4>4. h # 2 => g[h - 1] = f[h - 1]
        BY <4>3
      <4>5. QED
        BY <4>1, <4>2, <4>4
    <3>3. QED
      BY <3>1, <3>2
  <2>7. Upto(k, g)
    <3>1. g = [h \in 2..k |-> g[h]]
      OBVIOUS
    <3> HIDE DEF g
    <3>2. QED
      BY <3>1, <2>6
  <2>8. QED
    BY <2>7
<1>2. \E f : Upto(last, f)
  <2>1. last \in Nat /\ last >= 2
    OBVIOUS
  <2> HIDE DEF last
  <2>2. QED
    BY <1>1, <2>1
<1>3. Upto(last, CHOOSE f : Upto(last, f))
  BY <1>2
<1>4. QED
  BY <1>3 DEF RingsOf, next, first

LEMMA ReachedExists ==
    Reached = [h \in 0..Cardinality(Node) |->
        [n \in Node |-> IF h = 0 THEN {n} ELSE UNION {Reached[h - 1][m] : m \in Nbs[n] \cup {n}}]]
<1> DEFINE next(s) == [n \in Node |-> UNION {s[m] : m \in Nbs[n] \cup {n}}]
           row(h, s) == [n \in Node |-> IF h = 0 THEN {n} ELSE UNION {s[m] : m \in Nbs[n] \cup {n}}]
           Upto(k, f) == f = [h \in 0..k |-> row(h, f[h - 1])]
           T == {k \in Nat : ~ \E f : Upto(k, f)}
<1>0. \A s, t : row(0, s) = row(0, t)
  OBVIOUS
<1> HIDE DEF row
<1>1. T = {}
  <2> SUFFICES ASSUME T # {} PROVE FALSE
    OBVIOUS
  <2>1. T \subseteq Nat
    OBVIOUS
  <2>2. PICK k \in T : \A j \in T : k <= j
    <3> HIDE DEF T
    <3> QED
      BY <2>1, LeastNat
  <2>3. k # 0
    <3> SUFFICES ASSUME k = 0 PROVE FALSE
      OBVIOUS
    <3> DEFINE f0 == [h \in 0..0 |-> row(0, 0)]
    <3>1. \A h \in 0..0 : h = 0 /\ row(0, 0) = row(h, f0[h - 1])
      BY <1>0
    <3>2. Upto(0, f0)
      BY <3>1
    <3>3. QED
      BY <3>2
  <2>4. k \in Nat /\ k - 1 \in Nat /\ k - 1 \notin T
    <3> HIDE DEF T
    <3> QED
      BY <2>1, <2>2, <2>3
  <2>5. PICK f : Upto(k - 1, f)
    BY <2>4
  <2> DEFINE g == [h \in 0..k |-> IF h = k THEN row(k, f[k - 1]) ELSE f[h]]
  <2>6. ASSUME NEW h \in 0..k
        PROVE  g[h] = row(h, g[h - 1])
    <3>1. CASE h = k
      BY <3>1, <2>3, <2>4
    <3>2. CASE h # k
      <4>1. h \in 0..(k - 1) /\ g[h] = f[h]
        BY <3>2, <2>4
      <4>2. f[h] = row(h, f[h - 1])
        BY <2>5, <4>1
      <4>3. CASE h = 0
        BY <4>1, <4>2, <4>3, <1>0
      <4>4. CASE h # 0
        <5>1. h - 1 \in 0..k /\ h - 1 # k
          BY <4>1, <4>4
        <5>2. g[h - 1] = f[h - 1]
          BY <5>1
        <5>3. QED
          BY <4>1, <4>2, <5>2
      <4>5. QED
        BY <4>3, <4>4
    <3>3. QED
      BY <3>1, <3>2
  <2>7. Upto(k, g)
    <3>1. g = [h \in 0..k |-> g[h]]
      OBVIOUS
    <3> HIDE DEF g
    <3>2. QED
      BY <3>1, <2>6
  <2>8. QED
    BY <2>7
<1>2. \E f : Upto(Cardinality(Node), f)
  BY <1>1, FS_CardinalityType, ConstantsAssumption
<1>3. Upto(Cardinality(Node), CHOOSE f : Upto(Cardinality(Node), f))
  BY <1>2
<1>4. QED
  BY <1>3 DEF Reached, row

LEMMA NodesCounted == Cardinality(Node) \in Nat
BY FS_CardinalityType, ConstantsAssumption

LEMMA NbsFacts ==
    ASSUME NEW n \in Node
    PROVE  /\ Nbs[n] \subseteq Node \ {n}
           /\ \A m \in Node : m \in Nbs[n] <=> n \in Nbs[m]
           /\ \A m \in Node : m \in Nbs[n] <=> <<n, m>> \in Link
BY ConstantsAssumption DEF Nbs

LEMMA ReachedNone ==
    ASSUME NEW n \in Node
    PROVE  Reached[0][n] = {n}
<1>1. 0 \in 0..Cardinality(Node)
  BY NodesCounted
<1>2. Reached[0] = [m \in Node |-> {m}]
  <2>1. Reached[0] = [m \in Node |-> IF 0 = 0 THEN {m}
                                     ELSE UNION {Reached[0 - 1][l] : l \in Nbs[m] \cup {m}}]
    BY <1>1, ReachedExists
  <2>2. QED
    BY <2>1
<1>3. QED
  BY <1>2

LEMMA ReachedMore ==
    ASSUME NEW h \in 1..Cardinality(Node), NEW n \in Node
    PROVE  Reached[h][n] = UNION {Reached[h - 1][m] : m \in Nbs[n] \cup {n}}
<1>1. h \in 0..Cardinality(Node) /\ h # 0
  BY NodesCounted
<1>2. Reached[h] = [m \in Node |-> IF h = 0 THEN {m}
                                   ELSE UNION {Reached[h - 1][l] : l \in Nbs[m] \cup {m}}]
  BY <1>1, ReachedExists
<1>3. QED
  BY <1>1, <1>2

\* One hop more at the far end.
LEMMA ReachedBehind ==
    ASSUME NEW k \in Nat, k < Cardinality(Node),
           NEW n \in Node, NEW u \in Reached[k][n], NEW d \in Nbs[u] \cup {u}, u \in Node
    PROVE  d \in Reached[k + 1][n]
<1> DEFINE Behind(h) == \A m \in Node : \A v \in Node : \A c \in Nbs[v] \cup {v} :
               v \in Reached[h][m] => c \in Reached[h + 1][m]
           T == {h \in Nat : h < Cardinality(Node) /\ ~ Behind(h)}
<1>1. T = {}
  <2> SUFFICES ASSUME T # {} PROVE FALSE
    OBVIOUS
  <2>1. T \subseteq Nat /\ \A h \in T : h < Cardinality(Node)
    OBVIOUS
  <2>2. PICK h \in T : \A j \in T : h <= j
    <3> HIDE DEF T
    <3> QED
      BY <2>1, LeastNat
  <2>3. h \in Nat /\ h < Cardinality(Node) /\ h + 1 \in 1..Cardinality(Node)
    BY <2>1, NodesCounted
  <2>4. PICK m \in Node, v \in Node :
            \E c \in Nbs[v] \cup {v} : v \in Reached[h][m] /\ c \notin Reached[h + 1][m]
    BY <2>2
  <2>c. PICK c \in Nbs[v] \cup {v} : v \in Reached[h][m] /\ c \notin Reached[h + 1][m]
    BY <2>4
  <2>5. Reached[h + 1][m] = UNION {Reached[h][l] : l \in Nbs[m] \cup {m}}
    BY <2>3, ReachedMore
  <2>6. CASE h = 0
    <3>1. v = m
      BY <2>4, <2>c, <2>6, ReachedNone
    <3>2. c \in Node /\ Reached[0][c] = {c}
      BY <2>c, NbsFacts, ReachedNone
    <3>3. QED
      BY <2>c, <2>5, <2>6, <3>1, <3>2
  <2>7. CASE h # 0
    <3>1. h \in 1..Cardinality(Node) /\ h - 1 \in Nat /\ h - 1 < Cardinality(Node)
          /\ h - 1 \notin T
      <4> HIDE DEF T
      <4> QED
        BY <2>2, <2>3, <2>7, NodesCounted
    <3>2. PICK l \in Nbs[m] \cup {m} : v \in Reached[h - 1][l]
      BY <2>c, <3>1, ReachedMore
    <3>3. l \in Node
      BY <3>2, NbsFacts
    <3>4. c \in Reached[(h - 1) + 1][l]
      BY <2>c, <3>1, <3>2, <3>3
    <3>5. QED
      BY <2>3, <2>c, <2>5, <3>2, <3>4
  <2>8. QED
    BY <2>6, <2>7
<1>2. Behind(k)
  <2> HIDE DEF Behind
  <2> QED
    BY <1>1
<1>3. QED
  BY <1>2

-----------------------------------------------------------------------------
(* The routing table: what holds after every ring *)

\* A table of n in which no route is longer than h, and every length up to that of
\* a route is the length of some route.
IsTable(tb, n, h) ==
    /\ DOMAIN tb \subseteq Node
    /\ \A d \in DOMAIN tb : tb[d].dist \in 1..h /\ tb[d].nexts \subseteq Nbs[n]
    /\ \A d \in DOMAIN tb : \A k \in 1..tb[d].dist : \E c \in DOMAIN tb : tb[c].dist = k

\* Next hops lead to the destination.
Leads(tb) == \A d \in DOMAIN tb : \A m \in tb[d].nexts : d \in Reached[tb[d].dist - 1][m]

\* Routes of different lengths lead to different nodes: there are no more lengths
\* than nodes.
LEMMA LengthsBounded ==
    ASSUME NEW tb, NEW n \in Node, NEW h \in Nat, IsTable(tb, n, h), NEW d \in DOMAIN tb
    PROVE  tb[d].dist \in 1..Cardinality(Node)
<1> DEFINE k == tb[d].dist
           f == [i \in 1..k |-> CHOOSE c \in DOMAIN tb : tb[c].dist = i]
<1>1. k \in Nat /\ k >= 1
  BY DEF IsTable
<1>2. \A i \in 1..k : f[i] \in DOMAIN tb /\ tb[f[i]].dist = i
  BY DEF IsTable
<1>3. f \in Injection(1..k, Node)
  <2>1. f \in [1..k -> Node]
    BY <1>2 DEF IsTable
  <2>2. \A i, j \in 1..k : f[i] = f[j] => i = j
    BY <1>2
  <2> HIDE DEF f, k
  <2>3. QED
    BY <2>1, <2>2 DEF Injection, IsInjective
<1>4. IsFiniteSet(Node) /\ IsFiniteSet(1..k) /\ Cardinality(1..k) = k
  <2> HIDE DEF k
  <2> QED
    BY <1>1, FS_Interval, ConstantsAssumption
<1>5. Cardinality(1..k) <= Cardinality(Node)
  <2> HIDE DEF f, k
  <2> QED
    BY <1>3, <1>4, FS_Injection
<1>6. QED
  BY <1>1, <1>4, <1>5, NodesCounted

\* The neighbours and what is behind them.
FirstRing(n) == Over(Neighbours(Nbs[n]), BehindNeighbours(Nbs[n], Node, nb2hop[n]))

LEMMA FirstRingEntries ==
    ASSUME NEW n \in Node
    PROVE  /\ DOMAIN FirstRing(n) \subseteq Node
           /\ \A m \in Nbs[n] : m \in DOMAIN FirstRing(n)
                                /\ FirstRing(n)[m].dist = 1 /\ FirstRing(n)[m].nexts = {m}
           /\ \A d \in (DOMAIN FirstRing(n)) \ Nbs[n] :
                /\ FirstRing(n)[d].dist = 2
                /\ FirstRing(n)[d].nexts \subseteq Nbs[n] \cap Nbs[d]
                /\ FirstRing(n)[d].nexts # {}
           /\ \A m \in Nbs[n] : \A d \in Nbs[m] \ {n} : d \in DOMAIN FirstRing(n)
<1> DEFINE sym == Nbs[n]
           N2 == {p \in nb2hop[n] : p[1] \in sym \cap Node /\ p[2] \notin sym}
           g == Neighbours(sym)
           f == BehindNeighbours(sym, Node, nb2hop[n])
           via(d) == {p[1] : p \in {q \in N2 : q[2] = d}}
<1>1. nb2hop[n] = {p \in Link : p[1] \in Nbs[n] /\ p[2] # n}
  BY DEF nb2hop
<1>2. \A p \in Link : p[1] \in Node /\ p[2] \in Node /\ p[2] \in Nbs[p[1]] /\ p[1] \in Nbs[p[2]]
                      /\ p = <<p[1], p[2]>>
  <2> TAKE p \in Link
  <2>1. p \in Node \X Node
    BY ConstantsAssumption
  <2>2. p[1] \in Node /\ p[2] \in Node /\ p = <<p[1], p[2]>>
    BY <2>1
  <2>3. <<p[1], p[2]>> \in Link /\ <<p[2], p[1]>> \in Link
    BY <2>2, ConstantsAssumption
  <2>4. QED
    BY <2>2, <2>3, NbsFacts
<1>3. sym \subseteq Node
  BY NbsFacts
<1>4. DOMAIN g = sym /\ \A m \in sym : g[m].dist = 1 /\ g[m].nexts = {m}
  BY DEF Neighbours
<1>5. /\ DOMAIN f = {p[2] : p \in N2}
      /\ \A d \in DOMAIN f : f[d].dist = 2 /\ f[d].nexts = via(d)
  BY DEF BehindNeighbours
<1> HIDE DEF g, f
<1>6. /\ DOMAIN FirstRing(n) = (DOMAIN g) \cup (DOMAIN f)
      /\ \A x \in (DOMAIN g) \cup (DOMAIN f) :
            FirstRing(n)[x] = IF x \in DOMAIN g THEN g[x] ELSE f[x]
  BY DEF FirstRing, Over, g, f
<1>7. DOMAIN f \subseteq Node
  BY <1>1, <1>2, <1>5
<1>8. ASSUME NEW d \in (DOMAIN FirstRing(n)) \ Nbs[n]
      PROVE  /\ FirstRing(n)[d].dist = 2
             /\ FirstRing(n)[d].nexts \subseteq Nbs[n] \cap Nbs[d]
             /\ FirstRing(n)[d].nexts # {}
  <2>1. d \in DOMAIN f /\ FirstRing(n)[d] = f[d]
    BY <1>4, <1>6, <1>8
  <2>2. f[d].dist = 2 /\ f[d].nexts = via(d)
    <3> HIDE DEF via, N2
    <3> QED
      BY <1>5, <2>1
  <2>3. \A p \in {q \in N2 : q[2] = d} : p[1] \in Nbs[n] \cap Nbs[d]
    BY <1>1, <1>2
  <2>4. \E p \in N2 : p[2] = d
    <3> HIDE DEF N2
    <3> QED
      BY <1>5, <2>1
  <2>5. f[d].nexts \subseteq Nbs[n] \cap Nbs[d]
    BY <2>2, <2>3
  <2>6. \E p \in {q \in N2 : q[2] = d} : TRUE
    BY <2>4
  <2> HIDE DEF N2
  <2>7. f[d].nexts # {}
    BY <2>2, <2>6
  <2>8. QED
    BY <2>1, <2>2, <2>5, <2>7
<1>9. ASSUME NEW m \in Nbs[n], NEW d \in Nbs[m] \ {n}
      PROVE  d \in DOMAIN FirstRing(n)
  <2>1. m \in Node /\ d \in Node /\ <<m, d>> \in Link
    BY <1>3, NbsFacts
  <2>2. d \notin sym => <<m, d>> \in N2
    BY <1>1, <1>9, <2>1
  <2>3. d \notin sym => d \in DOMAIN f
    BY <1>5, <2>2
  <2>4. QED
    BY <1>4, <1>6, <2>3
<1>10. ASSUME NEW m \in Nbs[n]
       PROVE  m \in DOMAIN FirstRing(n) /\ FirstRing(n)[m].dist = 1 /\ FirstRing(n)[m].nexts = {m}
  BY <1>4, <1>6
<1>11. DOMAIN FirstRing(n) \subseteq Node
  BY <1>3, <1>4, <1>6, <1>7
<1> HIDE DEF sym, N2, via
<1>12. \A m \in Nbs[n] : m \in DOMAIN FirstRing(n)
                        /\ FirstRing(n)[m].dist = 1 /\ FirstRing(n)[m].nexts = {m}
  BY <1>10
<1>13. \A d \in (DOMAIN FirstRing(n)) \ Nbs[n] :
                /\ FirstRing(n)[d].dist = 2
                /\ FirstRing(n)[d].nexts \subseteq Nbs[n] \cap Nbs[d]
                /\ FirstRing(n)[d].nexts # {}
  BY <1>8
<1>14. \A m \in Nbs[n] : \A d \in Nbs[m] \ {n} : d \in DOMAIN FirstRing(n)
  BY <1>9
<1>15. QED
  BY <1>11, <1>12, <1>13, <1>14

LEMMA FirstRingOK ==
    ASSUME NEW n \in Node
    PROVE  IsTable(FirstRing(n), n, 2) /\ Leads(FirstRing(n))
<1> DEFINE tb == FirstRing(n)
<1>1. ASSUME NEW d \in DOMAIN tb, d \in Nbs[n]
      PROVE  /\ tb[d].dist = 1 /\ tb[d].nexts = {d}
             /\ \A k \in 1..tb[d].dist : \E c \in DOMAIN tb : tb[c].dist = k
             /\ \A m \in tb[d].nexts : d \in Reached[tb[d].dist - 1][m]
  <2>1. tb[d].dist = 1 /\ tb[d].nexts = {d} /\ d \in Node
    BY <1>1, FirstRingEntries
  <2>2. d \in Reached[0][d]
    BY <2>1, ReachedNone
  <2>3. QED
    BY <2>1, <2>2
<1>2. ASSUME NEW d \in DOMAIN tb, d \notin Nbs[n]
      PROVE  /\ tb[d].dist = 2 /\ tb[d].nexts \subseteq Nbs[n]
             /\ \A k \in 1..tb[d].dist : \E c \in DOMAIN tb : tb[c].dist = k
             /\ \A m \in tb[d].nexts : d \in Reached[tb[d].dist - 1][m]
  <2>1. /\ tb[d].dist = 2 /\ tb[d].nexts \subseteq Nbs[n] \cap Nbs[d] /\ tb[d].nexts # {}
        /\ d \in Node
    BY <1>2, FirstRingEntries
  <2>2. PICK m \in tb[d].nexts : TRUE
    BY <2>1
  <2>3. m \in DOMAIN tb /\ tb[m].dist = 1
    BY <2>1, FirstRingEntries
  <2>4. \A k \in 1..2 : k = 1 \/ k = 2
    OBVIOUS
  <2>5. ASSUME NEW l \in tb[d].nexts
        PROVE  d \in Reached[1][l]
    <3>1. l \in Node /\ d \in Nbs[l] /\ Reached[0][l] = {l} /\ l # d
      BY <2>1, NbsFacts, ReachedNone
    <3>2. 0 < Cardinality(Node)
      BY <3>1, NodesCounted, ConstantsAssumption, FS_EmptySet
    <3>3. d \in Reached[0 + 1][l]
      BY <3>1, <3>2, ReachedBehind
    <3>4. QED
      BY <3>3
  <2>6. QED
    BY <2>1, <2>3, <2>4, <2>5
<1>3. DOMAIN tb \subseteq Node
  BY FirstRingEntries
<1> HIDE DEF tb
<1>4. IsTable(tb, n, 2)
  BY <1>1, <1>2, <1>3 DEF IsTable
<1>5. Leads(tb)
  BY <1>1, <1>2 DEF Leads
<1>6. QED
  BY <1>4, <1>5 DEF tb

LEMMA RingEntries ==
    ASSUME NEW tb, NEW tuples, NEW h
    PROVE  LET nx == OneRingMore(tb, tuples, h)
           IN  /\ DOMAIN tb \subseteq DOMAIN nx
               /\ \A d \in DOMAIN tb : nx[d] = tb[d]
               /\ \A d \in (DOMAIN nx) \ DOMAIN tb :
                    /\ nx[d].dist = h + 1
                    /\ \E t \in tuples : t[2] = d /\ t[1] \in DOMAIN tb /\ tb[t[1]].dist = h
                    /\ \A m \in nx[d].nexts :
                         \E t \in tuples : /\ t[2] = d /\ t[1] \in DOMAIN tb /\ tb[t[1]].dist = h
                                           /\ m \in tb[t[1]].nexts
               /\ \A t \in tuples : t[1] \in DOMAIN tb /\ tb[t[1]].dist = h => t[2] \in DOMAIN nx
<1> DEFINE Into(d) == {t \in tuples : t[2] = d /\ t[1] \in DOMAIN tb /\ tb[t[1]].dist = h}
           new == {d \in {t[2] : t \in tuples} \ DOMAIN tb : Into(d) # {}}
           hops(d) == UNION {tb[t[1]].nexts : t \in Into(d)}
           g == [d \in new |-> [dist |-> h + 1, nexts |-> hops(d)]]
           nx == OneRingMore(tb, tuples, h)
<1>1. nx = Over(tb, g)
  BY DEF OneRingMore
<1>2. DOMAIN g = new /\ \A d \in new : g[d].dist = h + 1 /\ g[d].nexts = hops(d)
  BY Zenon
<1> HIDE DEF g, nx
<1>3. /\ DOMAIN nx = (DOMAIN tb) \cup (DOMAIN g)
      /\ \A x \in DOMAIN tb : nx[x] = tb[x]
      /\ \A x \in DOMAIN g : x \notin DOMAIN tb => nx[x] = g[x]
  BY <1>1 DEF Over
<1>4. ASSUME NEW d \in (DOMAIN nx) \ DOMAIN tb
      PROVE  /\ nx[d].dist = h + 1
             /\ \E t \in tuples : t[2] = d /\ t[1] \in DOMAIN tb /\ tb[t[1]].dist = h
             /\ \A m \in nx[d].nexts :
                  \E t \in tuples : /\ t[2] = d /\ t[1] \in DOMAIN tb /\ tb[t[1]].dist = h
                                    /\ m \in tb[t[1]].nexts
  <2>1. d \in new /\ nx[d] = g[d]
    <3> HIDE DEF new
    <3> QED
      BY <1>2, <1>3
  <2>2. nx[d].dist = h + 1 /\ nx[d].nexts = hops(d)
    <3> HIDE DEF new, hops
    <3> QED
      BY <1>2, <2>1
  <2>3. Into(d) # {}
    BY <2>1
  <2>4. \E t \in tuples : t[2] = d /\ t[1] \in DOMAIN tb /\ tb[t[1]].dist = h
    BY <2>3
  <2>5. ASSUME NEW m \in hops(d)
        PROVE  \E t \in tuples : /\ t[2] = d /\ t[1] \in DOMAIN tb /\ tb[t[1]].dist = h
                                 /\ m \in tb[t[1]].nexts
    OBVIOUS
  <2> HIDE DEF hops
  <2>6. QED
    BY <2>2, <2>4, <2>5
<1>5. ASSUME NEW t \in tuples, t[1] \in DOMAIN tb, tb[t[1]].dist = h
      PROVE  t[2] \in DOMAIN nx
  <2>1. CASE t[2] \in DOMAIN tb
    BY <2>1, <1>3
  <2>2. CASE t[2] \notin DOMAIN tb
    <3>1. t \in Into(t[2])
      BY <1>5
    <3>2. t[2] \in new
      BY <2>2, <3>1
    <3> HIDE DEF new
    <3>3. QED
      BY <1>2, <1>3, <3>2
  <2>3. QED
    BY <2>1, <2>2
<1>6. DOMAIN tb \subseteq DOMAIN nx
  BY <1>3
<1>7. QED
  BY <1>3, <1>4, <1>5, <1>6 DEF nx

LEMMA LinkEnds ==
    ASSUME NEW t \in Link
    PROVE  t[1] \in Node /\ t[2] \in Node /\ t[2] \in Nbs[t[1]] /\ t[1] # t[2]
<1>1. t \in Node \X Node /\ t[1] # t[2]
  BY ConstantsAssumption
<1>2. t[1] \in Node /\ t[2] \in Node /\ t = <<t[1], t[2]>>
  BY <1>1
<1>3. QED
  BY <1>1, <1>2, NbsFacts

LEMMA RingOK ==
    ASSUME NEW n \in Node, NEW tuples \in SUBSET Link, NEW h \in Nat, h >= 2,
           NEW tb, IsTable(tb, n, h), Leads(tb)
    PROVE  LET nx == OneRingMore(tb, tuples, h)
           IN  IsTable(nx, n, h + 1) /\ Leads(nx)
<1> DEFINE nx == OneRingMore(tb, tuples, h)
           From(d, t) == t[2] = d /\ t[1] \in DOMAIN tb /\ tb[t[1]].dist = h
<1>1. /\ DOMAIN tb \subseteq DOMAIN nx
      /\ \A d \in DOMAIN tb : nx[d] = tb[d]
      /\ \A d \in (DOMAIN nx) \ DOMAIN tb :
           /\ nx[d].dist = h + 1
           /\ \E t \in tuples : From(d, t)
           /\ \A m \in nx[d].nexts : \E t \in tuples : From(d, t) /\ m \in tb[t[1]].nexts
  BY RingEntries
<1> HIDE DEF nx
<1>2. ASSUME NEW d \in (DOMAIN nx) \ DOMAIN tb
      PROVE  /\ d \in Node /\ nx[d].dist = h + 1 /\ nx[d].nexts \subseteq Nbs[n]
             /\ \A k \in 1..(h + 1) : \E c \in DOMAIN nx : nx[c].dist = k
  <2>1. PICK t \in tuples : From(d, t)
    BY <1>1
  <2>2. d \in Node
    BY <2>1, LinkEnds
  <2>3. nx[d].nexts \subseteq Nbs[n]
    BY <1>1 DEF IsTable
  <2>4. ASSUME NEW k \in 1..(h + 1)
        PROVE  \E c \in DOMAIN nx : nx[c].dist = k
    <3>1. CASE k = h + 1
      BY <1>1, <3>1
    <3>2. CASE k # h + 1
      <4>1. k \in 1..tb[t[1]].dist
        BY <2>1, <3>2
      <4>2. PICK c \in DOMAIN tb : tb[c].dist = k
        BY <2>1, <4>1 DEF IsTable
      <4>3. QED
        BY <1>1, <4>2
    <3>3. QED
      BY <3>1, <3>2
  <2>5. QED
    BY <1>1, <2>2, <2>3, <2>4
<1>3. IsTable(nx, n, h + 1)
  <2>1. DOMAIN nx \subseteq Node
    BY <1>2 DEF IsTable
  <2>2. ASSUME NEW d \in DOMAIN nx
        PROVE  /\ nx[d].dist \in 1..(h + 1) /\ nx[d].nexts \subseteq Nbs[n]
               /\ \A k \in 1..nx[d].dist : \E c \in DOMAIN nx : nx[c].dist = k
    <3>1. CASE d \in DOMAIN tb
      <4>1. nx[d] = tb[d] /\ tb[d].dist \in 1..h /\ tb[d].nexts \subseteq Nbs[n]
        BY <1>1, <3>1 DEF IsTable
      <4>2. ASSUME NEW k \in 1..tb[d].dist
            PROVE  \E c \in DOMAIN nx : nx[c].dist = k
        <5>1. PICK c \in DOMAIN tb : tb[c].dist = k
          BY <3>1 DEF IsTable
        <5>2. QED
          BY <1>1, <5>1
      <4>3. QED
        BY <4>1, <4>2
    <3>2. CASE d \notin DOMAIN tb
      BY <1>2, <3>2
    <3>3. QED
      BY <3>1, <3>2
  <2>3. QED
    BY <2>1, <2>2 DEF IsTable
<1>4. ASSUME NEW d \in DOMAIN nx, NEW m \in nx[d].nexts
      PROVE  d \in Reached[nx[d].dist - 1][m]
  <2>1. CASE d \in DOMAIN tb
    BY <1>1, <2>1 DEF Leads
  <2>2. CASE d \notin DOMAIN tb
    <3>1. nx[d].dist = h + 1
      BY <1>1, <2>2
    <3>2. PICK t \in tuples : From(d, t) /\ m \in tb[t[1]].nexts
      BY <1>1, <2>2
    <3>3. t[1] \in Reached[h - 1][m] /\ m \in Node /\ t[1] \in Node /\ d \in Nbs[t[1]]
      BY <3>2, LinkEnds, NbsFacts DEF Leads, IsTable
    <3>4. h + 1 \in 1..Cardinality(Node)
      BY <1>3, <3>1, LengthsBounded
    <3>5. h - 1 \in Nat /\ h - 1 < Cardinality(Node) /\ (h - 1) + 1 = (h + 1) - 1
      BY <3>4, NodesCounted
    <3>6. QED
      BY <3>1, <3>3, <3>5, ReachedBehind
  <2>3. QED
    BY <2>1, <2>2
<1>5. QED
  BY <1>3, <1>4 DEF Leads, nx

\* The nodes that tuples lead to, which bound the number of rings.
Dests(tuples) == {t[2] : t \in tuples}

LEMMA DestsFinite ==
    ASSUME NEW tuples \in SUBSET Link
    PROVE  IsFiniteSet(Dests(tuples)) /\ Cardinality(Dests(tuples)) \in Nat
<1>1. Dests(tuples) \subseteq Node
  BY LinkEnds DEF Dests
<1>2. QED
  BY <1>1, FS_Subset, FS_CardinalityType, ConstantsAssumption

\* The table after the ring h.
RingAt(n, tuples, h) == RingsOf(Nbs[n], Node, nb2hop[n], tuples)[h]

LEMMA RingSteps ==
    ASSUME NEW n \in Node, NEW tuples \in SUBSET Link
    PROVE  /\ RingAt(n, tuples, 2) = FirstRing(n)
           /\ \A h \in 3..(2 + Cardinality(Dests(tuples))) :
                 RingAt(n, tuples, h) = OneRingMore(RingAt(n, tuples, h - 1), tuples, h - 1)
           /\ rtable_default_computation(Nbs[n], Node, nb2hop[n], tuples)
                 = RingAt(n, tuples, 2 + Cardinality(Dests(tuples)))
<1> DEFINE rings == RingsOf(Nbs[n], Node, nb2hop[n], tuples)
           last == 2 + Cardinality(Dests(tuples))
           first == Over(Neighbours(Nbs[n]), BehindNeighbours(Nbs[n], Node, nb2hop[n]))
<1>1. Cardinality(Dests(tuples)) \in Nat
  BY DestsFinite
<1>2. rings = [h \in 2..last |-> IF h = 2 THEN first
                                 ELSE OneRingMore(rings[h - 1], tuples, h - 1)]
  BY <1>1, RingsExist DEF Dests
<1>3. rtable_default_computation(Nbs[n], Node, nb2hop[n], tuples) = rings[last]
  BY RoutesAreRings DEF Dests
<1>4. last \in Nat /\ last >= 2
  BY <1>1
<1> HIDE DEF rings, last, first
<1>5. rings[2] = first
  <2>1. 2 \in 2..last
    BY <1>4
  <2>2. rings[2] = IF 2 = 2 THEN first ELSE OneRingMore(rings[2 - 1], tuples, 2 - 1)
    BY <1>2, <2>1
  <2>3. QED
    BY <2>2
<1>6. ASSUME NEW h \in 3..last
      PROVE  rings[h] = OneRingMore(rings[h - 1], tuples, h - 1)
  <2>1. h \in 2..last /\ h # 2
    BY <1>4
  <2>2. rings[h] = IF h = 2 THEN first ELSE OneRingMore(rings[h - 1], tuples, h - 1)
    BY <1>2, <2>1
  <2>3. QED
    BY <2>1, <2>2
<1>7. QED
  BY <1>3, <1>5, <1>6 DEF RingAt, FirstRing, rings, last, first

\* The routing tables that the agents compute from links that exist: next hops are
\* neighbours, and lead to the destination.
LEMMA RingsOK ==
    ASSUME NEW n \in Node, NEW tuples \in SUBSET Link,
           NEW h \in 2..(2 + Cardinality(Dests(tuples)))
    PROVE  IsTable(RingAt(n, tuples, h), n, h) /\ Leads(RingAt(n, tuples, h))
<1> DEFINE last == 2 + Cardinality(Dests(tuples))
           Good(k) == IsTable(RingAt(n, tuples, k), n, k) /\ Leads(RingAt(n, tuples, k))
           T == {k \in Nat : k \in 2..last /\ ~ Good(k)}
<1>1. last \in Nat
  BY DestsFinite
<1>2. T = {}
  <2> SUFFICES ASSUME T # {} PROVE FALSE
    OBVIOUS
  <2> HIDE DEF last, Good
  <2>1. T \subseteq Nat /\ \A k \in T : k \in 2..last /\ ~ Good(k)
    OBVIOUS
  <2>2. \A k \in 2..last : k \notin T => Good(k)
    BY <1>1
  <2>3. PICK k \in T : \A j \in T : k <= j
    <3> HIDE DEF T
    <3> QED
      BY <2>1, LeastNat
  <2> HIDE DEF T
  <2>4. k \in Nat /\ k \in 2..last /\ ~ Good(k)
    BY <2>1, <2>3
  <2>5. k # 2
    BY <2>4, RingSteps, FirstRingOK DEF Good
  <2>6. k - 1 \in Nat /\ k - 1 >= 2 /\ k - 1 \in 2..last /\ k \in 3..last
    BY <1>1, <2>4, <2>5
  <2>7. Good(k - 1)
    BY <2>1, <2>2, <2>3, <2>4, <2>6
  <2>8. RingAt(n, tuples, k) = OneRingMore(RingAt(n, tuples, k - 1), tuples, k - 1)
    BY <2>6, RingSteps DEF last
  <2>9. (k - 1) + 1 = k
    BY <2>4
  <2>10. Good(k)
    BY <2>6, <2>7, <2>8, <2>9, RingOK DEF Good
  <2>11. QED
    BY <2>4, <2>10
<1>3. h \in Nat /\ h \in 2..last
  BY <1>1
<1>4. Good(h)
  <2> HIDE DEF Good, last
  <2>1. QED
    BY <1>2, <1>3
<1>5. QED
  BY <1>4

\* The same of the topology tuples of a node.
LinksOf(tuples) == {<<t.last, t.dest>> : t \in tuples}

LEMMA RoutesOK ==
    ASSUME NEW n \in Node, NEW tuples, LinksOf(tuples) \subseteq Link
    PROVE  /\ \E h \in Nat : IsTable(Routes(n, tuples), n, h)
           /\ Leads(Routes(n, tuples))
<1> DEFINE L == LinksOf(tuples)
           last == 2 + Cardinality(Dests(L))
<1>1. Routes(n, tuples) = rtable_default_computation(Nbs[n], Node, nb2hop[n], L)
  BY DEF Routes, LinksOf
<1>2. L \in SUBSET Link
  OBVIOUS
<1> HIDE DEF L
<1>3. last \in Nat /\ last \in 2..last
  BY <1>2, DestsFinite
<1>4. Routes(n, tuples) = RingAt(n, L, last)
  BY <1>1, <1>2, RingSteps
<1>5. IsTable(RingAt(n, L, last), n, last) /\ Leads(RingAt(n, L, last))
  BY <1>2, <1>3, RingsOK
<1>6. QED
  BY <1>3, <1>4, <1>5

-----------------------------------------------------------------------------
(* The inductive invariant of OLSRFlood *)

SeqNums == 0..OLSR_MAX_SEQ_NUM
Tc == [orig : Node, seq : SeqNums, ttl : 1..255, ansn : SeqNums, adv : SUBSET Node]
Tuple == [last : Node, dest : Node, seq : SeqNums]

Id(m) == <<m.orig, m.seq>>
Ids(ms) == {Id(m) : m \in ms}

\* A copy of k on its way: only its TTL is another.
Copy(m, k) ==
    /\ m.orig = k.orig /\ m.seq = k.seq /\ m.ansn = k.ansn /\ m.adv = k.adv
    /\ k.ttl \in 1..255 /\ m.ttl <= k.ttl

\* A message that advertises some neighbours of its originator, and was sent.
Genuine(m, snt) ==
    /\ m \in Tc /\ m.adv # {} /\ m.adv \subseteq Nbs[m.orig]
    /\ \E k \in snt : Copy(m, k)

BufferOK(q, snt) == q \in Seq(Tc) /\ \A i \in 1..Len(q) : Genuine(q[i], snt)

TuplesOK(tuples) == tuples \subseteq Tuple /\ LinksOf(tuples) \subseteq Link

\* The sets of a node that a message changes.
SetsOK(s, snt) == s.dup \subseteq Ids(snt) /\ TuplesOK(s.topology) /\ BufferOK(s.msgs, snt)

RelaysOK ==
    /\ mprset \in [Node -> SUBSET Node] /\ mprsel \in [Node -> SUBSET Node]
    /\ \A n \in Node : mprset[n] \in RelaySets[n] /\ mprsel[n] \subseteq Nbs[n]
    /\ \A n \in Node : \A r \in mprset[n] : n \in mprsel[r]

NumbersOK == ansn \in [Node -> SeqNums] /\ msg_seq \in [Node -> SeqNums]

SentOK ==
    /\ IsFiniteSet(sent) /\ \A m \in sent : Genuine(m, sent)
    /\ missed \subseteq Ids(sent)

NodesOK ==
    /\ DOMAIN msgs = Node /\ DOMAIN dup = Node /\ DOMAIN topology = Node
    /\ \A n \in Node : /\ BufferOK(msgs[n], sent)
                       /\ dup[n] \subseteq Ids(sent)
                       /\ TuplesOK(topology[n])

RouteOK(rt, n) == (\E h \in Nat : IsTable(rt, n, h)) /\ Leads(rt)

RoutesOfNodesOK ==
    /\ DOMAIN rtable = Node /\ \A n \in Node : RouteOK(rtable[n], n)
    /\ expiries = 0 => \A n \in Node : rtable[n] = Routes(n, topology[n])

CountersOK == changes \in Nat /\ expiries \in Nat /\ expiries <= MaxExpiries

FInv == RelaysOK /\ NumbersOK /\ SentOK /\ NodesOK /\ RoutesOfNodesOK /\ CountersOK

LEMMA RelaySetFacts ==
    ASSUME NEW n \in Node, NEW R \in RelaySets[n]
    PROVE  /\ R \subseteq Nbs[n] /\ R \subseteq Node
           /\ \A m \in Nbs[n] : \A w \in Nbs[m] \ (Nbs[n] \cup {n}) :
                 \E r \in R : w \in Nbs[r]
<1>1. nb2hop[n] = {p \in Link : p[1] \in Nbs[n] /\ p[2] # n}
  BY DEF nb2hop
<1>2. TwoHop[n] = {p \in nb2hop[n] : p[2] \notin Nbs[n]}
  BY DEF TwoHop
<1>3. \A p \in TwoHop[n] : p[1] \in Nbs[n] /\ p \in Link
  BY <1>1, <1>2
<1>4. /\ R \subseteq {p[1] : p \in TwoHop[n]}
      /\ \A w \in {p[2] : p \in TwoHop[n]} : \E r \in R : <<r, w>> \in TwoHop[n]
  BY DEF RelaySets
<1>5. R \subseteq Nbs[n]
  BY <1>3, <1>4
<1>6. ASSUME NEW m \in Nbs[n], NEW w \in Nbs[m] \ (Nbs[n] \cup {n})
      PROVE  \E r \in R : w \in Nbs[r]
  <2>1. m \in Node /\ w \in Node /\ <<m, w>> \in Link
    BY NbsFacts
  <2>2. <<m, w>> \in TwoHop[n]
    BY <1>1, <1>2, <1>6, <2>1
  <2>3. w \in {p[2] : p \in TwoHop[n]}
    BY <2>2
  <2>4. PICK r \in R : <<r, w>> \in TwoHop[n]
    BY <1>4, <2>3
  <2>5. r \in Node /\ <<r, w>> \in Link
    BY <1>3, <1>5, <2>4, NbsFacts
  <2>6. QED
    BY <2>1, <2>5, NbsFacts
<1>7. QED
  BY <1>5, <1>6, NbsFacts

LEMMA NextNumber ==
    \A s \in SeqNums : /\ Next16(s) \in SeqNums
                       /\ s < OLSR_MAX_SEQ_NUM => Next16(s) = s + 1
                       /\ s = OLSR_MAX_SEQ_NUM => Next16(s) = 0
<1> TAKE s \in SeqNums
<1>1. s \in Nat /\ s <= 65535 /\ OLSR_MAX_SEQ_NUM = 65535
  BY DEF SeqNums, OLSR_MAX_SEQ_NUM
<1>2. Next16(s) = (s + 1) % 65536
  BY <1>1 DEF Next16
<1>3. CASE s = 65535
  BY <1>1, <1>2, <1>3 DEF SeqNums
<1>4. CASE s < 65535
  <2>1. (s + 1) % 65536 = s + 1
    BY <1>1, <1>4
  <2>2. s + 1 \in Nat /\ s + 1 <= OLSR_MAX_SEQ_NUM /\ OLSR_MAX_SEQ_NUM \in Nat
    BY <1>1, <1>4
  <2>3. s + 1 \in SeqNums
    BY <2>2 DEF SeqNums
  <2>4. QED
    BY <1>1, <1>2, <1>4, <2>1, <2>3
<1>5. QED
  BY <1>1, <1>3, <1>4

-----------------------------------------------------------------------------
(* Taking in a packet *)

LEMMA AfterSteps ==
    ASSUME NEW n, NEW from, NEW sets, NEW packet, Len(packet) \in Nat
    PROVE  /\ After(n, from, sets, packet)[0] = sets
           /\ \A i \in 1..Len(packet) :
                 After(n, from, sets, packet)[i]
                     = TakeIn(n, from, After(n, from, sets, packet)[i - 1], packet[i])
           /\ Taken(n, from, sets, packet) = After(n, from, sets, packet)[Len(packet)]
<1> DEFINE after == After(n, from, sets, packet)
<1>1. after = [i \in 0..Len(packet) |->
                  IF i = 0 THEN sets ELSE TakeIn(n, from, after[i - 1], packet[i])]
  BY AfterExists
<1> HIDE DEF after
<1>2. after[0] = sets
  BY <1>1
<1>3. ASSUME NEW i \in 1..Len(packet)
      PROVE  after[i] = TakeIn(n, from, after[i - 1], packet[i])
  <2>1. i \in 0..Len(packet) /\ i # 0
    OBVIOUS
  <2>2. QED
    BY <1>1, <2>1
<1>4. QED
  BY <1>2, <1>3, TakenIsAfter DEF after

LEMMA ProcessOK ==
    ASSUME NEW snt, NEW m, Genuine(m, snt), NEW tuples, TuplesOK(tuples)
    PROVE  TuplesOK(process_tc(tuples, m))
<1> DEFINE more == {[last |-> m.orig, dest |-> d, seq |-> m.ansn] : d \in m.adv}
<1>1. m.orig \in Node /\ m.ansn \in SeqNums /\ m.adv \subseteq Node /\ m.adv \subseteq Nbs[m.orig]
  BY DEF Genuine, Tc
<1>2. process_tc(tuples, m) \subseteq tuples \cup more
  BY DEF process_tc
<1>3. ASSUME NEW t \in more
      PROVE  t \in Tuple /\ <<t.last, t.dest>> \in Link
  <2>1. PICK d \in m.adv : t = [last |-> m.orig, dest |-> d, seq |-> m.ansn]
    OBVIOUS
  <2>2. t \in Tuple /\ t.last = m.orig /\ t.dest = d
    BY <1>1, <2>1 DEF Tuple
  <2>3. QED
    BY <1>1, <2>2, NbsFacts
<1>4. ASSUME NEW t \in tuples
      PROVE  t \in Tuple /\ <<t.last, t.dest>> \in Link
  BY DEF TuplesOK, LinksOf
<1> HIDE DEF more
<1>5. QED
  BY <1>2, <1>3, <1>4 DEF TuplesOK, LinksOf

LEMMA ForwardOK ==
    ASSUME NEW snt, NEW m, Genuine(m, snt), NEW n, NEW from
    PROVE  BufferOK(forward_default(n, from, m), snt)
<1>1. m \in Tc /\ m.ttl \in 1..255
  BY DEF Genuine, Tc
<1>2. CASE m.ttl > 1 /\ from \in mprsel[n]
  <2> DEFINE c == [m EXCEPT !.ttl = @ - 1]
  <2>1. /\ c.orig = m.orig /\ c.seq = m.seq /\ c.ansn = m.ansn /\ c.adv = m.adv
        /\ c.ttl = m.ttl - 1 /\ c \in Tc
    BY <1>1, <1>2 DEF Tc
  <2> HIDE DEF c
  <2>2. PICK k \in snt : Copy(m, k)
    BY DEF Genuine
  <2>3. Copy(c, k)
    <3>1. /\ m.orig = k.orig /\ m.seq = k.seq /\ m.ansn = k.ansn /\ m.adv = k.adv
          /\ k.ttl \in 1..255 /\ m.ttl <= k.ttl
      BY <2>2 DEF Copy
    <3>2. m.ttl - 1 <= k.ttl
      <4>1. \A x, y \in Int : x <= y => x - 1 <= y
        OBVIOUS
      <4>2. m.ttl \in Int /\ k.ttl \in Int
        BY <1>1, <3>1
      <4>3. QED
        BY <3>1, <4>1, <4>2
    <3>3. QED
      BY <2>1, <3>1, <3>2 DEF Copy
  <2>4. Genuine(c, snt)
    BY <2>1, <2>2, <2>3 DEF Genuine
  <2>5. forward_default(n, from, m) = <<c>>
    BY <1>2 DEF forward_default, c
  <2>6. <<c>> \in Seq(Tc) /\ Len(<<c>>) = 1 /\ <<c>>[1] = c
    BY <2>1
  <2>7. QED
    BY <2>4, <2>5, <2>6 DEF BufferOK
<1>3. CASE ~ (m.ttl > 1 /\ from \in mprsel[n])
  <2>1. forward_default(n, from, m) = <<>>
    BY <1>3 DEF forward_default
  <2>2. <<>> \in Seq(Tc) /\ Len(<<>>) = 0
    OBVIOUS
  <2>3. QED
    BY <2>1, <2>2 DEF BufferOK
<1>4. QED
  BY <1>2, <1>3

LEMMA BuffersJoin ==
    ASSUME NEW snt, NEW p, NEW q, BufferOK(p, snt), BufferOK(q, snt)
    PROVE  BufferOK(p \o q, snt)
<1>1. /\ p \o q \in Seq(Tc) /\ Len(p \o q) = Len(p) + Len(q)
      /\ Len(p) \in Nat /\ Len(q) \in Nat
      /\ \A i \in 1..(Len(p) + Len(q)) :
            (p \o q)[i] = IF i <= Len(p) THEN p[i] ELSE q[i - Len(p)]
  BY ConcatProperties, LenProperties DEF BufferOK
<1>2. ASSUME NEW i \in 1..Len(p \o q)
      PROVE  Genuine((p \o q)[i], snt)
  <2>1. CASE i <= Len(p)
    BY <1>1, <2>1 DEF BufferOK
  <2>2. CASE ~ (i <= Len(p))
    <3>1. i - Len(p) \in 1..Len(q) /\ (p \o q)[i] = q[i - Len(p)]
      BY <1>1, <2>2
    <3>2. QED
      BY <3>1 DEF BufferOK
  <2>3. QED
    BY <2>1, <2>2
<1>3. QED
  BY <1>1, <1>2 DEF BufferOK

LEMMA TakeInOK ==
    ASSUME NEW snt, NEW m, Genuine(m, snt), NEW n, NEW from, NEW s, SetsOK(s, snt)
    PROVE  SetsOK(TakeIn(n, from, s, m), snt)
<1>1. CASE m.ttl <= 0 \/ m.orig = n \/ <<m.orig, m.seq>> \in s.dup
  BY <1>1 DEF TakeIn
<1>2. CASE ~ (m.ttl <= 0 \/ m.orig = n \/ <<m.orig, m.seq>> \in s.dup)
  <2> DEFINE x == TakeIn(n, from, s, m)
  <2>1. /\ x.dup = s.dup \cup {<<m.orig, m.seq>>}
        /\ x.topology = process_tc(s.topology, m)
        /\ x.msgs = s.msgs \o forward_default(n, from, m)
    BY <1>2 DEF TakeIn
  <2> HIDE DEF x
  <2>2. <<m.orig, m.seq>> \in Ids(snt)
    BY DEF Genuine, Copy, Ids, Id
  <2>3. TuplesOK(x.topology)
    BY <2>1, ProcessOK DEF SetsOK
  <2>4. BufferOK(x.msgs, snt)
    BY <2>1, ForwardOK, BuffersJoin DEF SetsOK
  <2>5. SetsOK(x, snt)
    BY <2>1, <2>2, <2>3, <2>4 DEF SetsOK
  <2>6. QED
    BY <2>5 DEF x
<1>3. QED
  BY <1>1, <1>2

LEMMA AfterOK ==
    ASSUME NEW snt, NEW packet, BufferOK(packet, snt), NEW n, NEW from,
           NEW s, SetsOK(s, snt), NEW i \in 0..Len(packet)
    PROVE  SetsOK(After(n, from, s, packet)[i], snt)
<1> DEFINE after == After(n, from, s, packet)
           Good(k) == SetsOK(after[k], snt)
           T == {k \in Nat : k <= Len(packet) /\ ~ Good(k)}
<1>1. Len(packet) \in Nat
  BY LenProperties DEF BufferOK
<1>2. /\ after[0] = s
      /\ \A k \in 1..Len(packet) : after[k] = TakeIn(n, from, after[k - 1], packet[k])
  BY <1>1, AfterSteps
<1>3. T = {}
  <2> SUFFICES ASSUME T # {} PROVE FALSE
    OBVIOUS
  <2>1. PICK k \in T : \A j \in T : k <= j
    <3>1. T \subseteq Nat
      OBVIOUS
    <3> HIDE DEF T
    <3>2. QED
      BY <3>1, LeastNat
  <2> HIDE DEF after
  <2>2. k # 0
    BY <1>2
  <2>3. k \in 1..Len(packet) /\ k - 1 \in Nat /\ k - 1 <= Len(packet) /\ ~ (k <= k - 1)
    BY <1>1, <2>2
  <2>4. Good(k - 1)
    BY <2>1, <2>3
  <2>5. Genuine(packet[k], snt)
    BY <2>3 DEF BufferOK
  <2>6. Good(k)
    BY <1>2, <2>3, <2>4, <2>5, TakeInOK
  <2>7. QED
    BY <2>6
<1>4. i \in Nat /\ i <= Len(packet)
  BY <1>1
<1>5. Good(i)
  <2> HIDE DEF Good
  <2> QED
    BY <1>3, <1>4
<1>6. QED
  BY <1>5

-----------------------------------------------------------------------------
(* Every step of OLSRFlood keeps the invariant *)

LEMMA GenuineStays ==
    ASSUME NEW S1, NEW S2, S1 \subseteq S2
    PROVE  /\ \A m : Genuine(m, S1) => Genuine(m, S2)
           /\ \A q : BufferOK(q, S1) => BufferOK(q, S2)
           /\ Ids(S1) \subseteq Ids(S2)
<1>1. \A m : Genuine(m, S1) => Genuine(m, S2)
  BY DEF Genuine
<1>2. QED
  BY <1>1 DEF BufferOK, Ids

LEMMA InNumbers == \A x \in Nat : x % (OLSR_MAX_SEQ_NUM + 1) \in SeqNums
<1> TAKE x \in Nat
<1>1. x % 65536 >= 0 /\ x % 65536 < 65536 /\ x % 65536 \in Int
  OBVIOUS
<1>2. OLSR_MAX_SEQ_NUM + 1 = 65536 /\ OLSR_MAX_SEQ_NUM \in Nat
  BY DEF OLSR_MAX_SEQ_NUM
<1> DEFINE y == x % (OLSR_MAX_SEQ_NUM + 1)
<1>3. y >= 0 /\ y < OLSR_MAX_SEQ_NUM + 1 /\ y \in Int
  BY <1>1, <1>2
<1> HIDE DEF y
<1>4. y \in SeqNums
  BY <1>2, <1>3 DEF SeqNums
<1>5. QED
  BY <1>4 DEF y

LEMMA FloodInitOK == FloodInit => FInv
<1> SUFFICES ASSUME FloodInit PROVE FInv
  OBVIOUS
<1>1. /\ mprset \in [Node -> UNION {RelaySets[n] : n \in Node}]
      /\ \A n \in Node : mprset[n] \in RelaySets[n]
      /\ mprsel = [n \in Node |-> {m \in Node : n \in mprset[m]}]
      /\ ansn = [n \in Node |-> (OLSR_MAX_SEQ_NUM + Cardinality(mprsel[n])) % (OLSR_MAX_SEQ_NUM + 1)]
      /\ msg_seq = [n \in Node |-> OLSR_MAX_SEQ_NUM]
  BY DEF FloodInit
<1>2. /\ msgs = [n \in Node |-> <<>>] /\ dup = [n \in Node |-> {}]
      /\ topology = [n \in Node |-> {}] /\ rtable = [n \in Node |-> Routes(n, {})]
      /\ sent = {} /\ missed = {} /\ changes = 0 /\ expiries = 0
  BY DEF FloodInit
<1>3. \A n \in Node : mprset[n] \subseteq Nbs[n] /\ mprset[n] \subseteq Node
  BY <1>1, RelaySetFacts
<1>4. \A n \in Node : mprsel[n] \subseteq Nbs[n] /\ mprsel[n] \subseteq Node
  <2> TAKE n \in Node
  <2>1. \A m \in mprsel[n] : m \in Node /\ n \in Nbs[m]
    BY <1>1, <1>3
  <2>2. QED
    BY <2>1, NbsFacts
<1>5. RelaysOK
  <2>1. \A n \in Node : \A r \in mprset[n] : n \in mprsel[r]
    BY <1>1, <1>3
  <2>2. mprset \in [Node -> SUBSET Node] /\ mprsel \in [Node -> SUBSET Node]
    BY <1>1, <1>3, <1>4
  <2>3. QED
    BY <1>1, <1>4, <2>1, <2>2 DEF RelaysOK
<1>6. NumbersOK
  <2>1. ASSUME NEW n \in Node
        PROVE  (OLSR_MAX_SEQ_NUM + Cardinality(mprsel[n])) % (OLSR_MAX_SEQ_NUM + 1) \in SeqNums
    <3>1. Cardinality(mprsel[n]) \in Nat
      BY <1>4, FS_Subset, FS_CardinalityType, ConstantsAssumption
    <3>2. OLSR_MAX_SEQ_NUM + Cardinality(mprsel[n]) \in Nat
      BY <3>1 DEF OLSR_MAX_SEQ_NUM
    <3>3. QED
      BY <3>2, InNumbers
  <2>2. OLSR_MAX_SEQ_NUM \in SeqNums
    <3>1. OLSR_MAX_SEQ_NUM \in Nat
      BY DEF OLSR_MAX_SEQ_NUM
    <3>2. QED
      BY <3>1 DEF SeqNums
  <2>3. QED
    BY <1>1, <2>1, <2>2 DEF NumbersOK
<1>7. SentOK
  BY <1>2, FS_EmptySet DEF SentOK
<1>8. NodesOK
  <2>1. BufferOK(<<>>, {})
    BY DEF BufferOK
  <2>2. TuplesOK({})
    BY DEF TuplesOK, LinksOf
  <2>3. QED
    BY <1>2, <2>1, <2>2 DEF NodesOK
<1>9. RoutesOfNodesOK
  <2>1. \A n \in Node : RouteOK(Routes(n, {}), n)
    BY RoutesOK DEF RouteOK, LinksOf
  <2>2. QED
    BY <1>2, <2>1 DEF RoutesOfNodesOK
<1>10. CountersOK
  BY <1>2, ConstantsAssumption DEF CountersOK
<1>11. QED
  BY <1>5, <1>6, <1>7, <1>8, <1>9, <1>10 DEF FInv

LEMMA HelloOK ==
    ASSUME FInv, NEW m \in Node, NEW R \in RelaySets[m], Hello(m, R)
    PROVE  FInv'
<1> DEFINE new == {n \in R : m \notin mprsel[n]}
<1>1. /\ mprset' = [mprset EXCEPT ![m] = R]
      /\ mprsel' = [n \in Node |-> IF n \in new THEN mprsel[n] \cup {m} ELSE mprsel[n]]
      /\ ansn' = [n \in Node |-> IF n \in new THEN Next16(ansn[n]) ELSE ansn[n]]
  BY DEF Hello
<1>2. /\ rtable' = [n \in Node |-> IF n \in Nbs[m] /\ expiries > 0 THEN Routes(n, topology[n])
                                   ELSE rtable[n]]
      /\ changes' \in {changes, changes + 1}
      /\ UNCHANGED <<msg_seq, msgs, dup, topology, sent, missed, expiries>>
  BY DEF Hello
<1>3. R \subseteq Nbs[m] /\ R \subseteq Node
  BY RelaySetFacts
<1>4. RelaysOK'
  <2>1. mprset' \in [Node -> SUBSET Node] /\ \A n \in Node : mprset'[n] \in RelaySets[n]
    BY <1>1, <1>3 DEF FInv, RelaysOK
  <2>2. mprsel' \in [Node -> SUBSET Node] /\ \A n \in Node : mprsel'[n] \subseteq Nbs[n]
    BY <1>1, <1>3, NbsFacts DEF FInv, RelaysOK
  <2>3. ASSUME NEW n \in Node, NEW r \in mprset'[n]
        PROVE  n \in mprsel'[r]
    <3>1. r \in Node
      BY <2>1
    <3>2. CASE n = m
      BY <1>1, <1>3, <2>3, <3>1, <3>2 DEF FInv, RelaysOK
    <3>3. CASE n # m
      BY <1>1, <2>3, <3>1, <3>3 DEF FInv, RelaysOK
    <3>4. QED
      BY <3>2, <3>3
  <2>4. QED
    BY <2>1, <2>2, <2>3 DEF RelaysOK
<1>5. NumbersOK'
  BY <1>1, <1>2, NextNumber DEF FInv, NumbersOK
<1>6. SentOK' /\ NodesOK' /\ CountersOK'
  BY <1>2 DEF FInv, SentOK, NodesOK, CountersOK
<1>7. RoutesOfNodesOK'
  <2>1. \A n \in Node : RouteOK(Routes(n, topology[n]), n)
    BY RoutesOK DEF FInv, NodesOK, TuplesOK, RouteOK
  <2>2. ~ (0 > 0)
    OBVIOUS
  <2>3. QED
    BY <1>2, <2>1, <2>2 DEF FInv, RoutesOfNodesOK
<1>8. QED
  BY <1>4, <1>5, <1>6, <1>7 DEF FInv

LEMMA SelectorExpiresOK ==
    ASSUME FInv, NEW n \in Node, NEW m \in mprsel[n], SelectorExpires(n, m)
    PROVE  FInv'
<1>1. /\ n \notin mprset[m]
      /\ mprsel' = [mprsel EXCEPT ![n] = @ \ {m}]
      /\ ansn' = [ansn EXCEPT ![n] = Next16(@)]
      /\ UNCHANGED <<mprset, msg_seq, msgs, dup, topology, rtable, sent, missed, changes, expiries>>
  BY DEF SelectorExpires
<1>2. RelaysOK'
  <2>1. mprsel' \in [Node -> SUBSET Node] /\ \A l \in Node : mprsel'[l] \subseteq Nbs[l]
    BY <1>1 DEF FInv, RelaysOK
  <2>2. ASSUME NEW l \in Node, NEW r \in mprset[l]
        PROVE  l \in mprsel'[r]
    <3>1. r \in Node /\ l \in mprsel[r]
      BY DEF FInv, RelaysOK
    <3>2. r # n \/ l # m
      BY <1>1
    <3>3. QED
      BY <1>1, <3>1, <3>2 DEF FInv, RelaysOK
  <2>3. QED
    BY <1>1, <2>1, <2>2 DEF FInv, RelaysOK
<1>3. NumbersOK'
  BY <1>1, NextNumber DEF FInv, NumbersOK
<1>4. SentOK' /\ NodesOK' /\ CountersOK' /\ RoutesOfNodesOK'
  BY <1>1 DEF FInv, SentOK, NodesOK, CountersOK, RoutesOfNodesOK
<1>5. QED
  BY <1>2, <1>3, <1>4 DEF FInv

\* The message that send_tc makes.
TcOf(n) ==
    [orig |-> n, seq |-> Next16(msg_seq[n]),
     ttl |-> tc_msg_ttl[(Cardinality({m \in sent : m.orig = n}) % Len(tc_msg_ttl)) + 1],
     ansn |-> ansn[n], adv |-> mprsel[n]]

LEMMA SendTcSteps ==
    ASSUME NEW n \in Node, send_tc(n)
    PROVE  /\ mprsel[n] # {} /\ Cardinality(sent) < MaxTcs
           /\ msg_seq' = [msg_seq EXCEPT ![n] = Next16(msg_seq[n])]
           /\ msgs' = [msgs EXCEPT ![n] = Append(@, TcOf(n))]
           /\ sent' = sent \cup {TcOf(n)}
           /\ UNCHANGED <<mprset, mprsel, ansn, dup, topology, rtable, missed, changes, expiries>>
BY DEF send_tc, TcOf

LEMMA TcOfOK ==
    ASSUME FInv, NEW n \in Node, mprsel[n] # {}
    PROVE  /\ TcOf(n).orig = n /\ TcOf(n).seq = Next16(msg_seq[n]) /\ TcOf(n).ansn = ansn[n]
           /\ TcOf(n).adv = mprsel[n]
           /\ Genuine(TcOf(n), sent \cup {TcOf(n)})
<1> DEFINE c == Cardinality({m \in sent : m.orig = n})
           k == Len(tc_msg_ttl)
           msg == TcOf(n)
<1>1. c \in Nat
  BY FS_Subset, FS_CardinalityType DEF FInv, SentOK
<1>2. k \in Nat /\ k > 0 /\ \A i \in 1..k : tc_msg_ttl[i] \in 1..255
  <2>1. tc_msg_ttl \in Seq(1..255) /\ tc_msg_ttl # <<>>
    BY ConstantsAssumption
  <2>2. QED
    BY <2>1, LenProperties, EmptySeq, ElementOfSeq
<1>3. (c % k) + 1 \in 1..k
  <2>1. \A x, y \in Nat : y > 0 => (x % y) + 1 \in 1..y
    OBVIOUS
  <2> HIDE DEF c, k
  <2>2. QED
    BY <1>1, <1>2, <2>1
<1>4. /\ msg.orig = n /\ msg.seq = Next16(msg_seq[n]) /\ msg.ansn = ansn[n]
      /\ msg.adv = mprsel[n] /\ msg.ttl = tc_msg_ttl[(c % k) + 1]
      /\ msg = [orig |-> msg.orig, seq |-> msg.seq, ttl |-> msg.ttl, ansn |-> msg.ansn,
                adv |-> msg.adv]
  BY DEF TcOf
<1> HIDE DEF c, k, msg
<1>5. /\ msg.ttl \in 1..255 /\ msg.seq \in SeqNums /\ msg.ansn \in SeqNums
      /\ msg.adv \in SUBSET Node /\ msg.adv \subseteq Nbs[n]
  BY <1>2, <1>3, <1>4, NextNumber, NbsFacts DEF FInv, NumbersOK, RelaysOK
<1>6. msg \in Tc
  BY <1>4, <1>5 DEF Tc
<1>7. Copy(msg, msg)
  BY <1>5 DEF Copy
<1>8. Genuine(msg, sent \cup {msg})
  BY <1>4, <1>5, <1>6, <1>7 DEF Genuine
<1>9. QED
  BY <1>4, <1>8 DEF msg

LEMMA BufferGrows ==
    ASSUME NEW snt, NEW q, BufferOK(q, snt), NEW m, Genuine(m, snt)
    PROVE  /\ BufferOK(Append(q, m), snt)
           /\ Len(q) \in Nat /\ Len(Append(q, m)) = Len(q) + 1
           /\ \A i \in 1..Len(q) : Append(q, m)[i] = q[i]
           /\ Append(q, m)[Len(q) + 1] = m
<1>1. m \in Tc /\ q \in Seq(Tc)
  BY DEF Genuine, BufferOK
<1>2. /\ Append(q, m) \in Seq(Tc)
      /\ Len(q) \in Nat /\ Len(Append(q, m)) = Len(q) + 1
      /\ \A i \in 1..Len(q) : Append(q, m)[i] = q[i]
      /\ Append(q, m)[Len(q) + 1] = m
  BY <1>1, AppendProperties, LenProperties
<1>3. QED
  BY <1>2 DEF BufferOK

LEMMA SendTcOK ==
    ASSUME FInv, NEW n \in Node, send_tc(n)
    PROVE  FInv'
<1>1. /\ mprsel[n] # {}
      /\ msg_seq' = [msg_seq EXCEPT ![n] = Next16(msg_seq[n])]
      /\ msgs' = [msgs EXCEPT ![n] = Append(@, TcOf(n))]
      /\ sent' = sent \cup {TcOf(n)}
      /\ UNCHANGED <<mprset, mprsel, ansn, dup, topology, rtable, missed, changes, expiries>>
  BY SendTcSteps
<1>2. Genuine(TcOf(n), sent')
  BY <1>1, TcOfOK
<1>3. /\ \A m : Genuine(m, sent) => Genuine(m, sent')
      /\ \A q : BufferOK(q, sent) => BufferOK(q, sent')
      /\ Ids(sent) \subseteq Ids(sent')
  BY <1>1, GenuineStays
<1>4. RelaysOK' /\ CountersOK' /\ RoutesOfNodesOK'
  BY <1>1 DEF FInv, RelaysOK, CountersOK, RoutesOfNodesOK
<1>5. NumbersOK'
  BY <1>1, NextNumber DEF FInv, NumbersOK
<1>6. SentOK'
  <2>1. IsFiniteSet(sent')
    BY <1>1, FS_AddElement DEF FInv, SentOK
  <2>2. \A m \in sent' : Genuine(m, sent')
    BY <1>1, <1>2, <1>3 DEF FInv, SentOK
  <2>3. QED
    BY <1>1, <1>3, <2>1, <2>2 DEF FInv, SentOK
<1>7. NodesOK'
  <2>1. BufferOK(msgs'[n], sent')
    <3>1. BufferOK(msgs[n], sent') /\ msgs'[n] = Append(msgs[n], TcOf(n))
      BY <1>1, <1>3 DEF FInv, NodesOK
    <3>2. QED
      BY <1>2, <3>1, BufferGrows
  <2>2. \A m \in Node : BufferOK(msgs'[m], sent')
    BY <1>1, <1>3, <2>1 DEF FInv, NodesOK
  <2>3. \A m \in Node : dup[m] \subseteq Ids(sent')
    BY <1>3 DEF FInv, NodesOK
  <2>4. QED
    BY <1>1, <2>2, <2>3 DEF FInv, NodesOK
<1>8. QED
  BY <1>4, <1>5, <1>6, <1>7 DEF FInv

LEMMA TopologyExpiresOK ==
    ASSUME FInv, NEW n \in Node, NEW t \in topology[n], TopologyExpires(n, t)
    PROVE  FInv'
<1>1. /\ expiries < MaxExpiries /\ expiries' = expiries + 1
      /\ topology' = [topology EXCEPT ![n] = @ \ {t}]
      /\ UNCHANGED <<mprset, mprsel, ansn, msg_seq, msgs, dup, rtable, sent, missed, changes>>
  BY DEF TopologyExpires
<1>2. RelaysOK' /\ NumbersOK' /\ SentOK'
  BY <1>1 DEF FInv, RelaysOK, NumbersOK, SentOK
<1>3. CountersOK' /\ expiries' # 0
  BY <1>1, ConstantsAssumption DEF FInv, CountersOK
<1>4. NodesOK'
  <2>1. TuplesOK(topology[n] \ {t})
    BY DEF FInv, NodesOK, TuplesOK, LinksOf
  <2>2. QED
    BY <1>1, <2>1 DEF FInv, NodesOK
<1>5. RoutesOfNodesOK'
  BY <1>1, <1>3 DEF FInv, RoutesOfNodesOK
<1>6. QED
  BY <1>2, <1>3, <1>4, <1>5 DEF FInv

\* What send_pkt sends and what it leaves.
PacketOf(n) == SubSeq(msgs[n], 1, IF Len(msgs[n]) < OLSR_MAX_MSGS THEN Len(msgs[n])
                                  ELSE OLSR_MAX_MSGS)
RestOf(n) == SubSeq(msgs[n], Len(PacketOf(n)) + 1, Len(msgs[n]))
Sets(m) == [dup |-> dup[m], topology |-> topology[m], msgs |-> msgs[m]]
SetsAfter(m, n) == Taken(m, n, Sets(m), PacketOf(n))

LEMMA SendPktSteps ==
    ASSUME NEW n \in Node, NEW heard \in SUBSET Nbs[n], send_pkt(n, heard)
    PROVE  /\ msgs[n] # <<>>
           /\ missed' = missed \cup (IF heard = Nbs[n] THEN {}
                                     ELSE {<<m.orig, m.seq>> : m \in ToSet(PacketOf(n))})
           /\ msgs' = [m \in Node |-> IF m = n THEN RestOf(n)
                                      ELSE IF m \in heard THEN SetsAfter(m, n).msgs ELSE msgs[m]]
           /\ dup' = [m \in Node |-> IF m \in heard THEN SetsAfter(m, n).dup ELSE dup[m]]
           /\ topology' = [m \in Node |-> IF m \in heard THEN SetsAfter(m, n).topology
                                          ELSE topology[m]]
           /\ rtable' = [m \in Node |-> IF m \in heard THEN Routes(m, SetsAfter(m, n).topology)
                                        ELSE rtable[m]]
           /\ UNCHANGED <<mprset, mprsel, ansn, msg_seq, sent, changes, expiries>>
<1> DEFINE packet == SubSeq(msgs[n], 1, IF Len(msgs[n]) < OLSR_MAX_MSGS THEN Len(msgs[n])
                                        ELSE OLSR_MAX_MSGS)
           rest == SubSeq(msgs[n], Len(packet) + 1, Len(msgs[n]))
           after == [m \in heard |-> recv_olsr(m, n, packet)]
<1>1. packet = PacketOf(n) /\ rest = RestOf(n)
  BY DEF PacketOf, RestOf
<1>2. \A m \in heard : after[m] = SetsAfter(m, n)
  BY DEF SetsAfter, Sets, recv_olsr, PacketOf
<1>3. /\ msgs[n] # <<>>
      /\ missed' = missed \cup (IF heard = Nbs[n] THEN {}
                                ELSE {<<m.orig, m.seq>> : m \in ToSet(packet)})
      /\ msgs' = [m \in Node |-> IF m = n THEN rest
                                 ELSE IF m \in heard THEN after[m].msgs ELSE msgs[m]]
      /\ dup' = [m \in Node |-> IF m \in heard THEN after[m].dup ELSE dup[m]]
      /\ topology' = [m \in Node |-> IF m \in heard THEN after[m].topology ELSE topology[m]]
      /\ rtable' = [m \in Node |-> IF m \in heard THEN Routes(m, after[m].topology)
                                   ELSE rtable[m]]
      /\ UNCHANGED <<mprset, mprsel, ansn, msg_seq, sent, changes, expiries>>
  BY DEF send_pkt
<1> HIDE DEF packet, rest, after
<1>4. /\ msgs' = [m \in Node |-> IF m = n THEN RestOf(n)
                                ELSE IF m \in heard THEN SetsAfter(m, n).msgs ELSE msgs[m]]
      /\ dup' = [m \in Node |-> IF m \in heard THEN SetsAfter(m, n).dup ELSE dup[m]]
  BY <1>1, <1>2, <1>3
<1>5. topology' = [m \in Node |-> IF m \in heard THEN SetsAfter(m, n).topology
                                  ELSE topology[m]]
  BY <1>2, <1>3
<1>6. rtable' = [m \in Node |-> IF m \in heard THEN Routes(m, SetsAfter(m, n).topology)
                                ELSE rtable[m]]
  BY <1>2, <1>3
<1>7. missed' = missed \cup (IF heard = Nbs[n] THEN {}
                             ELSE {<<m.orig, m.seq>> : m \in ToSet(PacketOf(n))})
  BY <1>1, <1>3
<1>8. QED
  BY <1>3, <1>4, <1>5, <1>6, <1>7

LEMMA PacketFacts ==
    ASSUME FInv, NEW n \in Node, msgs[n] # <<>>
    PROVE  /\ BufferOK(PacketOf(n), sent) /\ BufferOK(RestOf(n), sent)
           /\ Len(msgs[n]) \in Nat /\ Len(PacketOf(n)) \in 1..Len(msgs[n])
           /\ Len(RestOf(n)) = Len(msgs[n]) - Len(PacketOf(n))
           /\ \A i \in 1..Len(PacketOf(n)) : PacketOf(n)[i] = msgs[n][i]
           /\ \A i \in 1..Len(RestOf(n)) : RestOf(n)[i] = msgs[n][i + Len(PacketOf(n))]
<1> DEFINE q == msgs[n]
           k == IF Len(q) < OLSR_MAX_MSGS THEN Len(q) ELSE OLSR_MAX_MSGS
           p == PacketOf(n)
           r == RestOf(n)
<1>1. q \in Seq(Tc) /\ \A i \in 1..Len(q) : Genuine(q[i], sent)
  BY DEF FInv, NodesOK, BufferOK
<1>2. Len(q) \in Nat /\ Len(q) > 0 /\ \A i \in 1..Len(q) : q[i] \in Tc
  BY <1>1, LenProperties, EmptySeq, ElementOfSeq
<1>3. k \in 1..Len(q)
  BY <1>2, ConstantsAssumption
<1> HIDE DEF q, k
<1>4. /\ SubSeq(q, 1, k) \in Seq(Tc) /\ Len(SubSeq(q, 1, k)) = k
      /\ \A i \in 1..k : SubSeq(q, 1, k)[i] = q[i]
  <2>1. \A i \in 1..k : q[i] \in Tc
    BY <1>2, <1>3
  <2>2. /\ SubSeq(q, 1, k) \in Seq(Tc)
        /\ Len(SubSeq(q, 1, k)) = IF 1 <= k THEN k - 1 + 1 ELSE 0
        /\ \A i \in 1..(k - 1 + 1) : SubSeq(q, 1, k)[i] = q[1 + i - 1]
    BY <1>2, <1>3, <2>1, SubSeqProperties
  <2>3. QED
    BY <1>2, <1>3, <2>2
<1>5. p = SubSeq(q, 1, k) /\ r = SubSeq(q, Len(p) + 1, Len(q))
  BY DEF PacketOf, RestOf, q, k
<1> HIDE DEF p, r
<1>6. Len(p) = k
  BY <1>4, <1>5
<1>7. /\ r \in Seq(Tc) /\ Len(r) = Len(q) - k
      /\ \A i \in 1..(Len(q) - k) : r[i] = q[i + k]
  <2>1. \A i \in (k + 1)..Len(q) : q[i] \in Tc
    BY <1>2, <1>3
  <2>2. /\ SubSeq(q, k + 1, Len(q)) \in Seq(Tc)
        /\ Len(SubSeq(q, k + 1, Len(q))) = IF k + 1 <= Len(q) THEN Len(q) - (k + 1) + 1 ELSE 0
        /\ \A i \in 1..(Len(q) - (k + 1) + 1) :
              SubSeq(q, k + 1, Len(q))[i] = q[(k + 1) + i - 1]
    BY <1>2, <1>3, <2>1, SubSeqProperties
  <2>3. \A i \in Int : (k + 1) + i - 1 = i + k
    BY <1>2, <1>3
  <2>4. QED
    BY <1>2, <1>3, <1>5, <1>6, <2>2, <2>3
<1>8. \A i \in 1..Len(p) : p[i] = q[i] /\ Genuine(p[i], sent)
  BY <1>1, <1>2, <1>3, <1>4, <1>5 DEF q
<1>9. \A i \in 1..Len(r) : r[i] = q[i + Len(p)] /\ Genuine(r[i], sent)
  <2> TAKE i \in 1..Len(r)
  <2>1. i + k \in 1..Len(q) /\ r[i] = q[i + k]
    BY <1>2, <1>3, <1>7
  <2>2. QED
    BY <1>1, <1>6, <2>1 DEF q
<1>10. BufferOK(p, sent) /\ BufferOK(r, sent)
  BY <1>4, <1>5, <1>7, <1>8, <1>9 DEF BufferOK
<1>11. QED
  BY <1>2, <1>3, <1>6, <1>7, <1>8, <1>9, <1>10 DEF p, q, r

LEMMA HeardSetsOK ==
    ASSUME FInv, NEW n \in Node, msgs[n] # <<>>, NEW m \in Node
    PROVE  SetsOK(SetsAfter(m, n), sent)
<1>1. BufferOK(PacketOf(n), sent)
  BY PacketFacts
<1>2. SetsOK(Sets(m), sent)
  BY DEF Sets, SetsOK, FInv, NodesOK
<1>3. Len(PacketOf(n)) \in Nat
  BY PacketFacts
<1>4. SetsOK(After(m, n, Sets(m), PacketOf(n))[Len(PacketOf(n))], sent)
  BY <1>1, <1>2, <1>3, AfterOK
<1>5. QED
  BY <1>3, <1>4, AfterSteps DEF SetsAfter

LEMMA SendPktOK ==
    ASSUME FInv, NEW n \in Node, NEW heard \in SUBSET Nbs[n], send_pkt(n, heard)
    PROVE  FInv'
<1>1. /\ msgs[n] # <<>>
      /\ missed' = missed \cup (IF heard = Nbs[n] THEN {}
                                ELSE {<<m.orig, m.seq>> : m \in ToSet(PacketOf(n))})
      /\ msgs' = [m \in Node |-> IF m = n THEN RestOf(n)
                                 ELSE IF m \in heard THEN SetsAfter(m, n).msgs ELSE msgs[m]]
      /\ dup' = [m \in Node |-> IF m \in heard THEN SetsAfter(m, n).dup ELSE dup[m]]
      /\ topology' = [m \in Node |-> IF m \in heard THEN SetsAfter(m, n).topology
                                     ELSE topology[m]]
      /\ rtable' = [m \in Node |-> IF m \in heard THEN Routes(m, SetsAfter(m, n).topology)
                                   ELSE rtable[m]]
      /\ UNCHANGED <<mprset, mprsel, ansn, msg_seq, sent, changes, expiries>>
  BY SendPktSteps
<1>2. \A m \in Node : SetsOK(SetsAfter(m, n), sent)
  BY <1>1, HeardSetsOK
<1>3. RelaysOK' /\ NumbersOK' /\ CountersOK'
  BY <1>1 DEF FInv, RelaysOK, NumbersOK, CountersOK
<1>4. SentOK'
  <2>1. \A m \in ToSet(PacketOf(n)) : <<m.orig, m.seq>> \in Ids(sent)
    <3> TAKE m \in ToSet(PacketOf(n))
    <3>1. BufferOK(PacketOf(n), sent)
      BY <1>1, PacketFacts
    <3>2. PICK i \in 1..Len(PacketOf(n)) : m = PacketOf(n)[i]
      BY <3>1, LenProperties DEF ToSet, BufferOK
    <3>3. Genuine(m, sent)
      BY <3>1, <3>2 DEF BufferOK
    <3>4. QED
      BY <3>3 DEF Genuine, Copy, Ids, Id
  <2>2. missed' \subseteq Ids(sent)
    BY <1>1, <2>1 DEF FInv, SentOK
  <2>3. QED
    BY <1>1, <2>2 DEF FInv, SentOK
<1>5. NodesOK'
  <2>1. DOMAIN msgs' = Node /\ DOMAIN dup' = Node /\ DOMAIN topology' = Node
    BY <1>1
  <2>2. ASSUME NEW m \in Node
        PROVE  BufferOK(msgs'[m], sent) /\ dup'[m] \subseteq Ids(sent) /\ TuplesOK(topology'[m])
    <3>1. BufferOK(RestOf(n), sent)
      BY <1>1, PacketFacts
    <3>2. BufferOK(msgs[m], sent) /\ dup[m] \subseteq Ids(sent) /\ TuplesOK(topology[m])
      BY DEF FInv, NodesOK
    <3>3. /\ BufferOK(SetsAfter(m, n).msgs, sent) /\ SetsAfter(m, n).dup \subseteq Ids(sent)
          /\ TuplesOK(SetsAfter(m, n).topology)
      BY <1>2 DEF SetsOK
    <3>4. /\ msgs'[m] = RestOf(n) \/ msgs'[m] = SetsAfter(m, n).msgs \/ msgs'[m] = msgs[m]
          /\ dup'[m] = SetsAfter(m, n).dup \/ dup'[m] = dup[m]
          /\ topology'[m] = SetsAfter(m, n).topology \/ topology'[m] = topology[m]
      BY <1>1
    <3>5. QED
      BY <3>1, <3>2, <3>3, <3>4
  <2>3. QED
    BY <1>1, <2>1, <2>2 DEF NodesOK
<1>6. RoutesOfNodesOK'
  <2>1. ASSUME NEW m \in Node
        PROVE  RouteOK(rtable'[m], m)
    <3>1. LinksOf(SetsAfter(m, n).topology) \subseteq Link
      BY <1>2 DEF SetsOK, TuplesOK
    <3>2. RouteOK(Routes(m, SetsAfter(m, n).topology), m)
      BY <3>1, RoutesOK DEF RouteOK
    <3>3. rtable'[m] = Routes(m, SetsAfter(m, n).topology) \/ rtable'[m] = rtable[m]
      BY <1>1
    <3>4. QED
      BY <3>2, <3>3 DEF FInv, RoutesOfNodesOK
  <2>2. ASSUME expiries = 0, NEW m \in Node
        PROVE  rtable'[m] = Routes(m, topology'[m])
    BY <1>1, <2>2 DEF FInv, RoutesOfNodesOK
  <2>3. DOMAIN rtable' = Node
    BY <1>1
  <2>4. QED
    BY <1>1, <2>1, <2>2, <2>3 DEF RoutesOfNodesOK
<1>7. QED
  BY <1>3, <1>4, <1>5, <1>6 DEF FInv

LEMMA FloodNextOK == ASSUME FInv, FloodNext PROVE FInv'
BY HelloOK, SelectorExpiresOK, SendTcOK, SendPktOK, TopologyExpiresOK DEF FloodNext

LEMMA FloodIdleOK == ASSUME FInv, UNCHANGED floodVars PROVE FInv'
BY DEF floodVars, FInv, RelaysOK, NumbersOK, SentOK, NodesOK, RoutesOfNodesOK, CountersOK

LEMMA FloodInvariance == FloodSpec => []FInv
BY FloodInitOK, FloodNextOK, FloodIdleOK, PTL DEF FloodSpec

-----------------------------------------------------------------------------
(* OLSRData: data packets *)

FrameOK(f) ==
    /\ f \in [pkt : Flow, from : Node, to : Node, ttl : 1..IP_DEF_TTL]
    /\ f.pkt \in begun

DInv ==
    /\ begun \subseteq Flow /\ selfish \subseteq Egoist
    /\ \A f \in air : FrameOK(f)
    /\ taken \subseteq begun \X Node

\* Packets go to neighbours only.
LEMMA HopsOK ==
    ASSUME FInv, NEW n \in Node, NEW pkt \in Flow, NEW hops \in forward_data(n, pkt)
    PROVE  hops \subseteq Nbs[n] /\ hops \subseteq Node
<1>1. CASE pkt.dst = IP_BROADCAST
  BY <1>1, NbsFacts DEF forward_data
<1>2. CASE pkt.dst # IP_BROADCAST /\ pkt.dst \in DOMAIN rtable[n]
  <2>1. PICK m \in rtable[n][pkt.dst].nexts : hops = {m}
    BY <1>2 DEF forward_data
  <2>2. rtable[n][pkt.dst].nexts \subseteq Nbs[n]
    BY <1>2 DEF FInv, RoutesOfNodesOK, RouteOK, IsTable
  <2>3. QED
    BY <2>1, <2>2, NbsFacts
<1>3. CASE pkt.dst # IP_BROADCAST /\ pkt.dst \notin DOMAIN rtable[n]
  BY <1>3 DEF forward_data
<1>4. QED
  BY <1>1, <1>2, <1>3

LEMMA FlowFacts == \A pkt \in Flow : pkt.src \in Node
BY DataAssumption

LEMMA OriginateOK ==
    ASSUME FInv, DInv, NEW pkt \in Flow, Originate(pkt)
    PROVE  DInv'
<1>1. /\ begun' = begun \cup {pkt} /\ UNCHANGED <<selfish, taken>>
      /\ \E hops \in IF IP_DEF_TTL = 1 THEN {{}} ELSE forward_data(pkt.src, pkt) :
             air' = air \cup Sent(pkt.src, pkt, IP_DEF_TTL - 1, hops)
  BY DEF Originate
<1>2. PICK hops \in IF IP_DEF_TTL = 1 THEN {{}} ELSE forward_data(pkt.src, pkt) :
             air' = air \cup Sent(pkt.src, pkt, IP_DEF_TTL - 1, hops)
  BY <1>1
<1>3. hops \subseteq Node /\ (hops # {} => IP_DEF_TTL # 1)
  BY <1>2, FlowFacts, HopsOK
<1>4. \A f \in Sent(pkt.src, pkt, IP_DEF_TTL - 1, hops) : FrameOK(f)'
  <2> TAKE f \in Sent(pkt.src, pkt, IP_DEF_TTL - 1, hops)
  <2>1. PICK m \in hops : f = [pkt |-> pkt, from |-> pkt.src, to |-> m, ttl |-> IP_DEF_TTL - 1]
    BY DEF Sent
  <2>2. IP_DEF_TTL - 1 \in 1..IP_DEF_TTL
    BY <1>3, <2>1, DataAssumption
  <2>3. QED
    BY <1>1, <1>3, <2>1, <2>2, FlowFacts DEF FrameOK
<1>5. \A f \in air : FrameOK(f)'
  BY <1>1 DEF DInv, FrameOK
<1>6. QED
  BY <1>1, <1>2, <1>4, <1>5 DEF DInv

LEMMA ReceiveOK ==
    ASSUME FInv, DInv, NEW f \in air, Receive(f)
    PROVE  DInv'
<1> DEFINE n == f.to
           mine == f.pkt.dst \in {n, IP_BROADCAST}
<1>1. FrameOK(f) /\ n \in Node /\ f.pkt \in Flow /\ f.pkt \in begun /\ f.ttl \in 1..IP_DEF_TTL
  BY DEF DInv, FrameOK
<1>2. /\ UNCHANGED <<selfish, begun>>
      /\ taken' \subseteq taken \cup {<<f.pkt, n>>}
      /\ \E hops \in IF Refused(n, f) \/ mine THEN {{}} ELSE forward_data(n, f.pkt) :
             air' = (air \ {f}) \cup Sent(n, f.pkt, f.ttl - 1, hops)
  BY DEF Receive
<1>3. PICK hops \in IF Refused(n, f) \/ mine THEN {{}} ELSE forward_data(n, f.pkt) :
             air' = (air \ {f}) \cup Sent(n, f.pkt, f.ttl - 1, hops)
  BY <1>2
<1>4. hops \subseteq Node /\ (hops # {} => f.ttl # 1)
  BY <1>1, <1>3, HopsOK DEF Refused
<1>5. \A g \in Sent(n, f.pkt, f.ttl - 1, hops) : FrameOK(g)'
  <2> TAKE g \in Sent(n, f.pkt, f.ttl - 1, hops)
  <2>1. PICK m \in hops : g = [pkt |-> f.pkt, from |-> n, to |-> m, ttl |-> f.ttl - 1]
    BY DEF Sent
  <2>2. f.ttl - 1 \in 1..IP_DEF_TTL
    BY <1>1, <1>4, <2>1, DataAssumption
  <2>3. QED
    BY <1>1, <1>2, <1>4, <2>1, <2>2 DEF FrameOK
<1>6. \A g \in air : FrameOK(g)'
  BY <1>2 DEF DInv, FrameOK
<1>7. QED
  BY <1>1, <1>2, <1>3, <1>5, <1>6 DEF DInv

LEMMA DataNextOK ==
    ASSUME FInv, DInv, [Next]_vars
    PROVE  FInv' /\ DInv'
<1>1. CASE FloodNext /\ UNCHANGED dataVars
  BY <1>1, FloodNextOK DEF dataVars, DInv, FrameOK
<1>2. ASSUME NEW n \in Egoist, egoista(n)
      PROVE  FInv' /\ DInv'
  <2>1. UNCHANGED floodVars /\ UNCHANGED <<begun, air, taken>> /\ selfish' \subseteq selfish \cup {n}
    BY <1>2 DEF egoista
  <2>2. QED
    BY <2>1, FloodIdleOK DEF DInv, FrameOK
<1>3. ASSUME NEW pkt \in Flow, Originate(pkt)
      PROVE  FInv' /\ DInv'
  <2>1. UNCHANGED floodVars
    BY <1>3 DEF Originate
  <2>2. QED
    BY <1>3, <2>1, FloodIdleOK, OriginateOK
<1>4. ASSUME NEW f \in air, Receive(f)
      PROVE  FInv' /\ DInv'
  <2>1. UNCHANGED floodVars
    BY <1>4 DEF Receive
  <2>2. QED
    BY <1>4, <2>1, FloodIdleOK, ReceiveOK
<1>5. CASE UNCHANGED vars
  BY <1>5, FloodIdleOK DEF vars, dataVars, DInv, FrameOK
<1>6. QED
  BY <1>1, <1>2, <1>3, <1>4, <1>5 DEF Next

LEMMA DataInvariance == Spec => [](FInv /\ DInv)
<1>1. Init => FInv /\ DInv
  BY FloodInitOK DEF Init, DInv
<1>2. QED
  BY <1>1, DataNextOK, PTL DEF Spec

-----------------------------------------------------------------------------
(* The theorems *)

\* The sets of every node keep their types, whatever is flooded, missed or expires, and
\* data on the air is what was originated, with a TTL that is not used up.
THEOREM TypeCorrect == Spec => []TypeOK
<1>1. FInv => FloodTypeOK
  <2> SUFFICES ASSUME FInv PROVE FloodTypeOK
    OBVIOUS
  <2>1. ASSUME NEW n \in Node
        PROVE  /\ \A i \in 1..Len(msgs[n]) : msgs[n][i].ttl \in 1..255
               /\ dup[n] \subseteq {<<m.orig, m.seq>> : m \in sent}
               /\ topology[n] \subseteq [last : Node, dest : Node, seq : 0..OLSR_MAX_SEQ_NUM]
               /\ DOMAIN rtable[n] \subseteq Node
    <3>1. \A i \in 1..Len(msgs[n]) : msgs[n][i].ttl \in 1..255
      BY DEF FInv, NodesOK, BufferOK, Genuine, Tc
    <3>2. dup[n] \subseteq {<<m.orig, m.seq>> : m \in sent}
      BY DEF FInv, NodesOK, Ids, Id
    <3>3. topology[n] \subseteq [last : Node, dest : Node, seq : 0..OLSR_MAX_SEQ_NUM]
      BY DEF FInv, NodesOK, TuplesOK, Tuple, SeqNums
    <3>4. DOMAIN rtable[n] \subseteq Node
      BY DEF FInv, RoutesOfNodesOK, RouteOK, IsTable
    <3>5. QED
      BY <3>1, <3>2, <3>3, <3>4
  <2>2. missed \subseteq {<<m.orig, m.seq>> : m \in sent}
    BY DEF FInv, SentOK, Ids, Id
  <2>3. QED
    BY <2>1, <2>2 DEF FloodTypeOK, FInv, RelaysOK, NumbersOK, SeqNums
<1>2. DInv => /\ selfish \subseteq Egoist
              /\ \A f \in air : f.pkt \in begun /\ f.to \in Node /\ f.ttl \in 1..IP_DEF_TTL
              /\ taken \subseteq begun \X Node
  BY DEF DInv, FrameOK
<1>3. FInv /\ DInv => TypeOK
  BY <1>1, <1>2 DEF TypeOK
<1>4. QED
  BY <1>3, DataInvariance, PTL

-----------------------------------------------------------------------------
(* OLSRData implements Algorithm1 *)

Offered == {<<f.pkt, f.from, f.to>> : f \in air}

\* What a node hands on of packets that it may accept is a Handle.
LEMMA HandsOn ==
    ASSUME FInv, DInv, NEW n \in Node, NEW got \in SUBSET Flow,
           \A p \in got : \/ p.src = n
                          \/ n \notin selfish /\ \E m \in Node : <<p, m, n>> \in Offered,
           UNCHANGED selfish, taken' \subseteq taken \cup (got \X {n}),
           Offered' \subseteq Offered \cup (got \X {n} \X Node)
    PROVE  Algo!Handle(n)
<1>1. got \in SUBSET {p \in Flow : Algo!MayAccept(n, p)}
  BY DEF Algo!MayAccept, Offered
<1>2. got \cup {p \in Flow : <<p, n>> \in {}} = got
  OBVIOUS
<1>3. {} \subseteq {} \cup (got \X {n})
  OBVIOUS
<1>4. QED
  BY <1>1, <1>2, <1>3 DEF Algo!Handle, Offered

LEMMA OfferedOnes ==
    ASSUME NEW n \in Node, NEW pkt, NEW ttl, NEW hops \in SUBSET Node, NEW rest \in SUBSET air,
           air' = rest \cup Sent(n, pkt, ttl, hops)
    PROVE  Offered' \subseteq Offered \cup ({pkt} \X {n} \X Node)
<1> SUFFICES ASSUME NEW f \in air'
             PROVE  <<f.pkt, f.from, f.to>> \in Offered \cup ({pkt} \X {n} \X Node)
  BY DEF Offered
<1>1. CASE f \in air
  BY <1>1 DEF Offered
<1>2. CASE f \in Sent(n, pkt, ttl, hops)
  <2>1. PICK m \in hops : f = [pkt |-> pkt, from |-> n, to |-> m, ttl |-> ttl]
    BY <1>2 DEF Sent
  <2>2. f.pkt = pkt /\ f.from = n /\ f.to = m /\ m \in Node
    BY <2>1
  <2>3. QED
    BY <2>2
<1>3. QED
  BY <1>1, <1>2

LEMMA DataStep ==
    ASSUME FInv, DInv, [Next]_vars
    PROVE  [Algo!Next]_(Algo!vars)
<1>1. CASE FloodNext /\ UNCHANGED dataVars
  BY <1>1 DEF dataVars, Algo!vars
<1>2. ASSUME NEW n \in Egoist, egoista(n)
      PROVE  Algo!Next
  <2>1. n \in Node /\ UNCHANGED <<air, taken>>
        /\ selfish' \in {selfish \cup {n}, selfish \ {n}}
    BY <1>2, DataAssumption DEF egoista
  <2>2. Algo!Switch(n)
    BY <2>1 DEF Algo!Switch
  <2>3. QED
    BY <2>1, <2>2 DEF Algo!Next
<1>3. ASSUME NEW pkt \in Flow, Originate(pkt)
      PROVE  Algo!Next
  <2>1. PICK hops \in IF IP_DEF_TTL = 1 THEN {{}} ELSE forward_data(pkt.src, pkt) :
             air' = air \cup Sent(pkt.src, pkt, IP_DEF_TTL - 1, hops)
    BY <1>3 DEF Originate
  <2>2. UNCHANGED <<selfish, taken>> /\ pkt.src \in Node
    BY <1>3, FlowFacts DEF Originate
  <2>3. hops \in SUBSET Node
    BY <2>1, <2>2, HopsOK
  <2>4. Offered' \subseteq Offered \cup ({pkt} \X {pkt.src} \X Node)
    BY <2>1, <2>2, <2>3, OfferedOnes
  <2>5. Algo!Handle(pkt.src)
    <3> DEFINE got == {pkt}
    <3>1. got \in SUBSET Flow /\ \A p \in got : p.src = pkt.src
      OBVIOUS
    <3>2. QED
      BY <2>2, <2>4, <3>1, HandsOn
  <2>6. QED
    BY <2>2, <2>5 DEF Algo!Next
<1>4. ASSUME NEW f \in air, Receive(f)
      PROVE  Algo!Next
  <2> DEFINE n == f.to
             mine == f.pkt.dst \in {n, IP_BROADCAST}
  <2>1. FrameOK(f) /\ n \in Node /\ f.from \in Node /\ f.pkt \in Flow
    BY DEF DInv, FrameOK
  <2>2. PICK hops \in IF Refused(n, f) \/ mine THEN {{}} ELSE forward_data(n, f.pkt) :
             air' = (air \ {f}) \cup Sent(n, f.pkt, f.ttl - 1, hops)
    BY <1>4 DEF Receive
  <2>3. /\ UNCHANGED selfish
        /\ taken' = IF ~Refused(n, f) /\ mine THEN taken \cup {<<f.pkt, n>>} ELSE taken
    BY <1>4 DEF Receive
  <2>4. hops \in SUBSET Node /\ (Refused(n, f) => hops = {})
    BY <2>1, <2>2, HopsOK
  <2>5. CASE Refused(n, f)
    <3>1. Offered' \subseteq Offered
      BY <2>2, <2>4, <2>5 DEF Offered, Sent
    <3> DEFINE got == {}
    <3>2. /\ got \in SUBSET Flow
          /\ \A p \in got : \/ p.src = n
                            \/ n \notin selfish /\ \E m \in Node : <<p, m, n>> \in Offered
          /\ taken' \subseteq taken \cup (got \X {n})
          /\ Offered' \subseteq Offered \cup (got \X {n} \X Node)
      BY <2>3, <2>5, <3>1
    <3> HIDE DEF got, n
    <3>3. Algo!Handle(n)
      BY <2>1, <2>3, <3>2, HandsOn
    <3>4. QED
      BY <2>1, <3>3 DEF Algo!Next
  <2>6. CASE ~Refused(n, f)
    <3>1. Offered' \subseteq Offered \cup ({f.pkt} \X {n} \X Node)
      <4>1. (air \ {f}) \in SUBSET air
        OBVIOUS
      <4>2. QED
        BY <2>1, <2>2, <2>4, <4>1, OfferedOnes
    <3>2. n \notin selfish /\ <<f.pkt, f.from, n>> \in Offered
      BY <2>6 DEF Refused, Offered
    <3> DEFINE got == {f.pkt}
    <3>3. /\ got \in SUBSET Flow
          /\ \A p \in got : \/ p.src = n
                            \/ n \notin selfish /\ \E m \in Node : <<p, m, n>> \in Offered
          /\ taken' \subseteq taken \cup (got \X {n})
          /\ Offered' \subseteq Offered \cup (got \X {n} \X Node)
      BY <2>1, <2>3, <3>1, <3>2
    <3> HIDE DEF got, n
    <3>4. Algo!Handle(n)
      BY <2>1, <2>3, <3>3, HandsOn
    <3>5. QED
      BY <2>1, <3>4 DEF Algo!Next
  <2>7. QED
    BY <2>5, <2>6
<1>5. CASE UNCHANGED vars
  BY <1>5 DEF vars, dataVars, Algo!vars
<1>6. QED
  BY <1>1, <1>2, <1>3, <1>4, <1>5 DEF Next

\* Data forwarding implements Algorithm 1 of the repository's README in every network,
\* whatever is flooded meanwhile, whenever nodes turn selfish or back: a selfish node drops
\* all data that it did not originate, and no node hands on or delivers what it was not
\* given.
THEOREM SelfishNodesDrop == Spec => SelfishPromise
<1>1. Init => Algo!Init
  BY DEF Init, Algo!Init
<1>2. QED
  BY <1>1, DataInvariance, DataStep, PTL DEF Spec, SelfishPromise, Algo!Spec

-----------------------------------------------------------------------------
(* The numbers of messages tell them apart *)

\* In this many messages no number comes twice.
FewTcs == MaxTcs <= OLSR_MAX_SEQ_NUM

From(n) == {m \in sent : m.orig = n}

UInv ==
    /\ Cardinality(sent) <= MaxTcs
    /\ \A n \in Node :
         /\ From(n) = {} => msg_seq[n] = OLSR_MAX_SEQ_NUM
         /\ From(n) # {} => msg_seq[n] < Cardinality(sent)
         /\ \A m \in From(n) : m.seq <= msg_seq[n]
    /\ \A m, k \in sent : Id(m) = Id(k) => m = k

LEMMA Counted == FInv => Cardinality(sent) \in Nat /\ OLSR_MAX_SEQ_NUM \in Nat /\ MaxTcs \in Nat
BY FS_CardinalityType, ConstantsAssumption DEF FInv, SentOK, OLSR_MAX_SEQ_NUM

LEMMA NextIsNew ==
    ASSUME FewTcs, FInv, UInv, NEW n \in Node, Cardinality(sent) < MaxTcs
    PROVE  /\ Next16(msg_seq[n]) \in Nat /\ Next16(msg_seq[n]) <= Cardinality(sent)
           /\ \A m \in From(n) : m.seq < Next16(msg_seq[n])
<1>1. Cardinality(sent) \in Nat /\ OLSR_MAX_SEQ_NUM \in Nat /\ MaxTcs \in Nat
      /\ MaxTcs <= OLSR_MAX_SEQ_NUM
  BY Counted DEF FewTcs
<1>2. msg_seq[n] \in SeqNums /\ msg_seq[n] \in Nat
  <2>1. msg_seq[n] \in SeqNums
    BY DEF FInv, NumbersOK
  <2>2. QED
    BY <1>1, <2>1 DEF SeqNums
<1>3. CASE From(n) = {}
  <2>1. Next16(msg_seq[n]) = 0
    BY <1>2, <1>3, NextNumber DEF UInv
  <2>2. QED
    BY <1>1, <1>3, <2>1
<1>4. CASE From(n) # {}
  <2>1. msg_seq[n] < Cardinality(sent)
    BY <1>4 DEF UInv
  <2>2. msg_seq[n] < OLSR_MAX_SEQ_NUM
    BY <1>1, <1>2, <2>1
  <2>3. Next16(msg_seq[n]) = msg_seq[n] + 1
    BY <1>2, <2>2, NextNumber
  <2>4. \A m \in From(n) : m.seq \in Nat /\ m.seq <= msg_seq[n]
    <3>1. \A m \in sent : m.seq \in SeqNums
      BY DEF FInv, SentOK, Genuine, Tc
    <3>2. QED
      BY <1>1, <3>1 DEF From, SeqNums, UInv
  <2>5. QED
    BY <1>1, <1>2, <2>1, <2>3, <2>4
<1>5. QED
  BY <1>3, <1>4

LEMMA TcIsNew ==
    ASSUME FewTcs, FInv, UInv, NEW n \in Node, send_tc(n)
    PROVE  Id(TcOf(n)) \notin Ids(sent) /\ TcOf(n) \notin sent
<1>1. mprsel[n] # {} /\ Cardinality(sent) < MaxTcs
  BY SendTcSteps
<1>2. TcOf(n).orig = n /\ TcOf(n).seq = Next16(msg_seq[n])
  BY <1>1, TcOfOK
<1>3. ASSUME NEW m \in sent, Id(m) = Id(TcOf(n))
      PROVE  FALSE
  <2>1. m.orig = n /\ m.seq = Next16(msg_seq[n])
    BY <1>2, <1>3 DEF Id
  <2>2. m \in From(n)
    BY <2>1 DEF From
  <2>3. m.seq < Next16(msg_seq[n]) /\ Next16(msg_seq[n]) \in Nat
    BY <1>1, <2>2, NextIsNew
  <2>4. QED
    BY <2>1, <2>3
<1>4. QED
  BY <1>3 DEF Ids

LEMMA SendTcNumbers ==
    ASSUME FewTcs, FInv, UInv, NEW n \in Node, send_tc(n)
    PROVE  UInv'
<1> DEFINE msg == TcOf(n)
           s == Next16(msg_seq[n])
<1>1. /\ mprsel[n] # {} /\ Cardinality(sent) < MaxTcs
      /\ msg_seq' = [msg_seq EXCEPT ![n] = s]
      /\ sent' = sent \cup {msg}
  BY SendTcSteps
<1>2. msg.orig = n /\ msg.seq = s
  BY <1>1, TcOfOK
<1>3. msg \notin sent /\ Id(msg) \notin Ids(sent)
  BY TcIsNew
<1>4. s \in Nat /\ s <= Cardinality(sent) /\ \A m \in From(n) : m.seq < s
  BY <1>1, NextIsNew
<1> HIDE DEF msg, s
<1>5. Cardinality(sent') = Cardinality(sent) + 1
  BY <1>1, <1>3, FS_AddElement DEF FInv, SentOK
<1>6. Cardinality(sent) \in Nat /\ MaxTcs \in Nat
  BY Counted
<1>7. Cardinality(sent') <= MaxTcs
  BY <1>1, <1>5, <1>6
<1>8. ASSUME NEW l \in Node
      PROVE  /\ From(l)' = {} => msg_seq'[l] = OLSR_MAX_SEQ_NUM
             /\ From(l)' # {} => msg_seq'[l] < Cardinality(sent')
             /\ \A m \in From(l)' : m.seq <= msg_seq'[l]
  <2>1. msg_seq[l] \in Nat
    BY Counted DEF FInv, NumbersOK, SeqNums
  <2>2. CASE l = n
    <3>1. msg_seq'[l] = s /\ From(l)' = From(n) \cup {msg}
      BY <1>1, <1>2, <2>2 DEF From, FInv, NumbersOK
    <3>2. \A m \in From(n) : m.seq \in Nat
      BY Counted DEF FInv, SentOK, Genuine, Tc, From, SeqNums
    <3>3. QED
      BY <1>2, <1>4, <1>5, <1>6, <3>1, <3>2
  <2>3. CASE l # n
    <3>1. msg_seq'[l] = msg_seq[l] /\ From(l)' = From(l)
      BY <1>1, <1>2, <2>3 DEF From, FInv, NumbersOK
    <3>2. QED
      BY <1>5, <1>6, <2>1, <3>1 DEF UInv
  <2>4. QED
    BY <2>2, <2>3
<1>9. \A m, k \in sent' : Id(m) = Id(k) => m = k
  BY <1>1, <1>3 DEF UInv, Ids
<1>10. QED
  BY <1>7, <1>8, <1>9 DEF UInv

LEMMA NumbersNext ==
    ASSUME FewTcs, FInv, UInv, [FloodNext]_floodVars
    PROVE  UInv'
<1>1. ASSUME UNCHANGED <<msg_seq, sent>>
      PROVE  UInv'
  BY <1>1 DEF UInv, From
<1>2. ASSUME NEW m \in Node, NEW R \in RelaySets[m], Hello(m, R)
      PROVE  UInv'
  BY <1>1, <1>2 DEF Hello
<1>3. ASSUME NEW n \in Node, NEW m \in mprsel[n], SelectorExpires(n, m)
      PROVE  UInv'
  BY <1>1, <1>3 DEF SelectorExpires
<1>4. ASSUME NEW n \in Node, send_tc(n)
      PROVE  UInv'
  BY <1>4, SendTcNumbers
<1>5. ASSUME NEW n \in Node, NEW heard \in SUBSET Nbs[n], send_pkt(n, heard)
      PROVE  UInv'
  BY <1>1, <1>5 DEF send_pkt
<1>6. ASSUME NEW n \in Node, NEW t \in topology[n], TopologyExpires(n, t)
      PROVE  UInv'
  BY <1>1, <1>6 DEF TopologyExpires
<1>7. CASE UNCHANGED floodVars
  BY <1>1, <1>7 DEF floodVars
<1>8. QED
  BY <1>2, <1>3, <1>4, <1>5, <1>6, <1>7 DEF FloodNext

LEMMA NumbersInit == FloodInit => UInv
<1> SUFFICES ASSUME FloodInit PROVE UInv
  OBVIOUS
<1>1. sent = {} /\ msg_seq = [n \in Node |-> OLSR_MAX_SEQ_NUM]
  BY DEF FloodInit
<1>2. Cardinality(sent) = 0
  BY <1>1, FS_EmptySet
<1>3. QED
  BY <1>1, <1>2, ConstantsAssumption DEF UInv, From

-----------------------------------------------------------------------------
(* What a node knows of an originator *)

\* Of the messages snt of o, those with their Id in D; those of them with the highest ansn.
KnownOf(o, D, snt) == {m \in snt : m.orig = o /\ Id(m) \in D}
Top(o, D, snt) == {m \in KnownOf(o, D, snt) : \A k \in KnownOf(o, D, snt) : k.ansn <= m.ansn}
Holds(tuples, o) == \E t \in tuples : t.last = o

\* The tuples are what the newest message advertises, all of it where full; where there
\* are none left, nothing older is still on its way (P) to bring back what is over.
Sound(o, D, tuples, snt) ==
    \A t \in tuples : t.last = o => \E m \in Top(o, D, snt) : t.seq = m.ansn /\ t.dest \in m.adv
Complete(o, D, tuples, snt) ==
    \A m \in Top(o, D, snt) : \A d \in m.adv : [last |-> o, dest |-> d, seq |-> m.ansn] \in tuples
NoneOlder(o, D, snt, P) ==
    \A k \in snt : k.orig = o /\ Id(k) \in P /\ Id(k) \notin D =>
        \A m \in KnownOf(o, D, snt) : m.ansn <= k.ansn
Knows(o, D, tuples, snt, P, full) ==
    /\ Sound(o, D, tuples, snt)
    /\ full => Complete(o, D, tuples, snt)
    /\ Holds(tuples, o) \/ NoneOlder(o, D, snt, P)

Numbered(snt) ==
    /\ \A m \in snt : Genuine(m, snt)
    /\ \A m, k \in snt : Id(m) = Id(k) => m = k

LEMMA NumberedFacts ==
    ASSUME NEW snt, Numbered(snt)
    PROVE  \A m \in snt : /\ m.orig \in Node /\ m.ansn \in Nat /\ m.adv # {} /\ m.adv \subseteq Node
                          /\ m.ansn \in SeqNums
<1>1. OLSR_MAX_SEQ_NUM \in Nat
  BY DEF OLSR_MAX_SEQ_NUM
<1>2. QED
  BY <1>1 DEF Numbered, Genuine, Tc, SeqNums

LEMMA TuplesEqual ==
    ASSUME NEW t \in Tuple
    PROVE  /\ t = [last |-> t.last, dest |-> t.dest, seq |-> t.seq]
           /\ t.last \in Node /\ t.dest \in Node /\ t.seq \in Nat
<1>1. OLSR_MAX_SEQ_NUM \in Nat
  BY DEF OLSR_MAX_SEQ_NUM
<1>2. QED
  BY <1>1 DEF Tuple, SeqNums

\* The set of o's tuples after a message of o that is not out of order.
LEMMA Accepted ==
    ASSUME NEW tuples, tuples \subseteq Tuple, NEW m, m.orig \in Node, m.ansn \in Nat,
           \A t \in tuples : t.last = m.orig => t.seq <= m.ansn
    PROVE  LET after == process_tc(tuples, m)
           IN  /\ \A t \in after : t.last # m.orig => t \in tuples
               /\ \A t \in tuples : t.last # m.orig => t \in after
               /\ \A t \in after : t.last = m.orig =>
                    /\ t.seq = m.ansn
                    /\ t \in tuples \/ t.dest \in m.adv
               /\ \A t \in tuples : t.last = m.orig /\ t.seq = m.ansn => t \in after
               /\ \A d \in m.adv : [last |-> m.orig, dest |-> d, seq |-> m.ansn] \in after
<1> DEFINE ofOrig == {t \in tuples : t.last = m.orig}
           current == {t \in ofOrig : t.seq >= m.ansn}
           kept == (tuples \ ofOrig) \cup current
           new == {[last |-> m.orig, dest |-> d, seq |-> m.ansn] :
                       d \in m.adv \ {t.dest : t \in current}}
           after == process_tc(tuples, m)
<1>1. after = kept \cup new
  <2>1. ~ \E t \in ofOrig : t.seq > m.ansn
    BY TuplesEqual
  <2>2. QED
    BY <2>1 DEF process_tc
<1>2. \A t \in current : t \in tuples /\ t.last = m.orig /\ t.seq = m.ansn
  BY TuplesEqual
<1>3. \A t \in new : t.last = m.orig /\ t.seq = m.ansn /\ t.dest \in m.adv
  OBVIOUS
<1>4. \A t \in tuples : t.last = m.orig /\ t.seq = m.ansn => t \in current
  BY TuplesEqual
<1>5. ASSUME NEW d \in m.adv
      PROVE  [last |-> m.orig, dest |-> d, seq |-> m.ansn] \in current \cup new
  <2>1. CASE d \in {t.dest : t \in current}
    <3>1. PICK t \in current : t.dest = d
      BY <2>1
    <3>2. t = [last |-> t.last, dest |-> t.dest, seq |-> t.seq]
      BY <1>2, TuplesEqual
    <3>3. t = [last |-> m.orig, dest |-> d, seq |-> m.ansn]
      BY <1>2, <3>1, <3>2
    <3>4. QED
      BY <3>3
  <2>2. CASE d \notin {t.dest : t \in current}
    BY <2>2
  <2>3. QED
    BY <2>1, <2>2
<1>6. \A t \in kept : t \in tuples /\ (t.last = m.orig => t \in current)
  OBVIOUS
<1>7. \A t \in tuples : t.last # m.orig => t \in kept
  OBVIOUS
<1> HIDE DEF after, current, new
<1>8. \A t \in after : t.last # m.orig => t \in tuples
  BY <1>1, <1>3, <1>6
<1>9. \A t \in after : t.last = m.orig => t.seq = m.ansn /\ (t \in tuples \/ t.dest \in m.adv)
  BY <1>1, <1>2, <1>3, <1>6
<1>10. QED
  BY <1>1, <1>4, <1>5, <1>7, <1>8, <1>9 DEF after

LEMMA TakeInKnows ==
    ASSUME NEW snt, Numbered(snt), NEW P, NEW full \in BOOLEAN, NEW n, NEW from,
           NEW s, s.topology \subseteq Tuple, NEW o, o # n,
           Knows(o, s.dup, s.topology, snt, P, full),
           NEW m, NEW k \in snt, Copy(m, k), m.ttl \in 1..255, Id(m) \in P
    PROVE  LET x == TakeIn(n, from, s, m)
           IN  Knows(o, x.dup, x.topology, snt, P, full)
<1> DEFINE x == TakeIn(n, from, s, m)
<1>1. /\ m.orig = k.orig /\ m.ansn = k.ansn /\ m.adv = k.adv /\ Id(m) = Id(k)
      /\ m.orig \in Node /\ m.ansn \in Nat /\ m.adv # {} /\ m.adv \subseteq Node
  BY NumberedFacts DEF Copy, Id
<1>2. CASE m.ttl <= 0 \/ m.orig = n \/ <<m.orig, m.seq>> \in s.dup
  BY <1>2 DEF TakeIn
<1>3. CASE ~ (m.ttl <= 0 \/ m.orig = n \/ <<m.orig, m.seq>> \in s.dup)
  <2>1. x.dup = s.dup \cup {Id(m)} /\ x.topology = process_tc(s.topology, m) /\ Id(k) \notin s.dup
    BY <1>1, <1>3 DEF TakeIn, Id
  <2> HIDE DEF x
  <2> DEFINE old == KnownOf(o, s.dup, snt)
             now == KnownOf(o, x.dup, snt)
  <2>2. now = IF m.orig = o THEN old \cup {k} ELSE old
    <3>1. \A l \in snt : Id(l) = Id(k) => l = k
      BY DEF Numbered
    <3>2. QED
      BY <1>1, <2>1, <3>1 DEF KnownOf
  <2>3. /\ Top(o, s.dup, snt) = {l \in old : \A j \in old : j.ansn <= l.ansn}
        /\ Top(o, x.dup, snt) = {l \in now : \A j \in now : j.ansn <= l.ansn}
    BY DEF Top
  <2>4. \A l \in old : l \in snt /\ l.orig = o /\ l.ansn \in Nat
    BY NumberedFacts DEF KnownOf
  <2>5. CASE m.orig # o
    <3>1. now = old /\ Top(o, x.dup, snt) = Top(o, s.dup, snt)
      BY <2>2, <2>3, <2>5
    <3>2. \A t : t.last = o => (t \in x.topology <=> t \in s.topology)
      BY <2>1, <2>5 DEF process_tc
    <3>3. \A d, q : LET t == [last |-> o, dest |-> d, seq |-> q]
                    IN  t \in x.topology <=> t \in s.topology
      BY <3>2
    <3>4. s.dup \subseteq x.dup
      BY <2>1
    <3> HIDE DEF old, now
    <3>5. \A t \in x.topology : t.last = o =>
              \E l \in Top(o, x.dup, snt) : t.seq = l.ansn /\ t.dest \in l.adv
      BY <3>1, <3>2 DEF Knows, Sound
    <3>6. full => \A l \in Top(o, x.dup, snt) : \A d \in l.adv :
              [last |-> o, dest |-> d, seq |-> l.ansn] \in x.topology
      BY <3>1, <3>3 DEF Knows, Complete
    <3>7. Holds(x.topology, o) <=> Holds(s.topology, o)
      BY <3>2 DEF Holds
    <3>8. NoneOlder(o, s.dup, snt, P) => NoneOlder(o, x.dup, snt, P)
      <4>1. KnownOf(o, x.dup, snt) = KnownOf(o, s.dup, snt)
        BY <3>1 DEF now, old
      <4>2. QED
        BY <3>4, <4>1 DEF NoneOlder
    <3>9. Sound(o, x.dup, x.topology, snt)
      BY <3>5 DEF Sound
    <3>10. full => Complete(o, x.dup, x.topology, snt)
      BY <3>6 DEF Complete
    <3>11. QED
      BY <3>7, <3>8, <3>9, <3>10 DEF Knows, x
  <2>6. CASE m.orig = o /\ \E t \in s.topology : t.last = o /\ t.seq > m.ansn
    <3>1. x.topology = s.topology
      BY <2>1, <2>6 DEF process_tc
    <3>2. PICK t \in s.topology : t.last = o /\ t.seq > m.ansn
      BY <2>6
    <3>3. PICK l \in Top(o, s.dup, snt) : t.seq = l.ansn
      BY <3>2 DEF Knows, Sound
    <3>4. k.ansn < l.ansn /\ l \in old /\ k.ansn \in Nat /\ l.ansn \in Nat
      BY <1>1, <2>3, <2>4, <3>2, <3>3
    <3>5. Top(o, x.dup, snt) = Top(o, s.dup, snt)
      <4>1. now = old \cup {k}
        BY <2>2, <2>6
      <4>2. ~ \A j \in now : j.ansn <= k.ansn
        BY <3>4, <4>1
      <4>3. \A j \in old : (\A i \in old : i.ansn <= j.ansn) => k.ansn <= j.ansn
        BY <2>4, <3>4
      <4> HIDE DEF old, now
      <4>4. QED
        BY <2>3, <4>1, <4>2, <4>3
    <3>6. Holds(x.topology, o)
      BY <3>1, <3>2 DEF Holds
    <3>7. Sound(o, x.dup, x.topology, snt) <=> Sound(o, s.dup, s.topology, snt)
      BY <3>1, <3>5 DEF Sound
    <3>8. Complete(o, x.dup, x.topology, snt) <=> Complete(o, s.dup, s.topology, snt)
      BY <3>1, <3>5 DEF Complete
    <3>9. QED
      BY <3>6, <3>7, <3>8 DEF Knows, x
  <2>7. CASE m.orig = o /\ ~ \E t \in s.topology : t.last = o /\ t.seq > m.ansn
    <3>1. \A t \in s.topology : t.last = m.orig => t.seq <= m.ansn
      BY <1>1, <2>7, TuplesEqual
    <3>2. /\ \A t \in x.topology : t.last = o => /\ t.seq = m.ansn
                                                 /\ t \in s.topology \/ t.dest \in m.adv
          /\ \A t \in s.topology : t.last = o /\ t.seq = m.ansn => t \in x.topology
          /\ \A d \in m.adv : [last |-> o, dest |-> d, seq |-> m.ansn] \in x.topology
      BY <1>1, <2>1, <2>7, <3>1, Accepted
    <3>3. now = old \cup {k}
      BY <2>2, <2>7
    <3>4. \A l \in old : l.ansn <= k.ansn
      <4>1. CASE Holds(s.topology, o)
        <5>1. PICK t \in s.topology : t.last = o
          BY <4>1 DEF Holds
        <5>2. PICK j \in Top(o, s.dup, snt) : t.seq = j.ansn
          BY <5>1 DEF Knows, Sound
        <5>3. t.seq <= k.ansn
          BY <1>1, <2>7, <3>1, <5>1
        <5>4. j \in old /\ \A l \in old : l.ansn <= j.ansn
          BY <2>3, <5>2
        <5> HIDE DEF old
        <5>5. QED
          BY <1>1, <2>4, <5>2, <5>3, <5>4
      <4>2. CASE ~ Holds(s.topology, o)
        BY <1>1, <2>1, <2>7, <4>2 DEF Knows, NoneOlder
      <4>3. QED
        BY <4>1, <4>2
    <3> HIDE DEF old, now
    <3>5. k \in Top(o, x.dup, snt)
      BY <1>1, <2>3, <3>3, <3>4
    <3>6. \A l \in Top(o, x.dup, snt) :
              l.ansn = k.ansn /\ (l = k \/ l \in Top(o, s.dup, snt))
      <4> TAKE l \in Top(o, x.dup, snt)
      <4>1. l \in now /\ k.ansn <= l.ansn
        BY <2>3, <3>3
      <4>2. CASE l = k
        BY <4>2
      <4>3. CASE l # k
        <5>1. l \in old /\ l.ansn = k.ansn
          BY <1>1, <2>4, <3>3, <3>4, <4>1, <4>3
        <5>2. QED
          BY <2>3, <3>4, <5>1
      <4>4. QED
        BY <4>2, <4>3
    <3>7. \A l \in Top(o, s.dup, snt) : l.ansn = k.ansn => l \in Top(o, x.dup, snt)
      BY <1>1, <2>3, <3>3, <3>4
    <3>8. ASSUME NEW t \in x.topology, t.last = o
          PROVE  \E l \in Top(o, x.dup, snt) : t.seq = l.ansn /\ t.dest \in l.adv
      <4>1. t.seq = k.ansn
        BY <1>1, <3>2, <3>8
      <4>2. CASE t \in s.topology
        <5>1. PICK l \in Top(o, s.dup, snt) : t.seq = l.ansn /\ t.dest \in l.adv
          BY <3>8, <4>2 DEF Knows, Sound
        <5>2. QED
          BY <3>7, <4>1, <5>1
      <4>3. CASE t \notin s.topology
        BY <1>1, <3>2, <3>5, <3>8, <4>1, <4>3
      <4>4. QED
        BY <4>2, <4>3
    <3>9. ASSUME full, NEW l \in Top(o, x.dup, snt), NEW d \in l.adv
          PROVE  [last |-> o, dest |-> d, seq |-> l.ansn] \in x.topology
      <4>1. l.ansn = k.ansn
        BY <3>6
      <4>2. CASE l = k
        BY <1>1, <3>2, <4>2
      <4>3. CASE l # k
        <5> DEFINE t == [last |-> o, dest |-> d, seq |-> l.ansn]
        <5>1. t \in s.topology
          BY <3>6, <3>9, <4>3 DEF Knows, Complete
        <5>2. t.last = o /\ t.seq = l.ansn
          OBVIOUS
        <5> HIDE DEF t
        <5>3. t \in x.topology
          BY <1>1, <3>2, <4>1, <5>1, <5>2
        <5>4. QED
          BY <5>3 DEF t
      <4>4. QED
        BY <4>2, <4>3
    <3>10. Holds(x.topology, o)
      <4>1. PICK d \in m.adv : TRUE
        BY <1>1
      <4> DEFINE t == [last |-> o, dest |-> d, seq |-> m.ansn]
      <4>2. t \in x.topology /\ t.last = o
        BY <3>2
      <4> HIDE DEF t
      <4>3. QED
        BY <4>2 DEF Holds
    <3>11. Sound(o, x.dup, x.topology, snt)
      BY <3>8 DEF Sound
    <3>12. full => Complete(o, x.dup, x.topology, snt)
      BY <3>9 DEF Complete
    <3>13. QED
      BY <3>10, <3>11, <3>12 DEF Knows, x
  <2>8. QED
    BY <2>5, <2>6, <2>7
<1>4. QED
  BY <1>2, <1>3

\* The numbers of what a buffer holds, and of what is on its way.
IdsIn(q) == {Id(q[i]) : i \in 1..Len(q)}
Pending == UNION {IdsIn(msgs[n]) : n \in Node}

\* What a node adds to its buffer is of the packet.
LEMMA TakeInIds ==
    ASSUME NEW snt, NEW m, Genuine(m, snt), NEW n, NEW from, NEW s, SetsOK(s, snt)
    PROVE  IdsIn(TakeIn(n, from, s, m).msgs) \subseteq IdsIn(s.msgs) \cup {Id(m)}
<1> DEFINE x == TakeIn(n, from, s, m)
           f == forward_default(n, from, m)
<1>1. CASE x = s
  BY <1>1
<1>2. CASE x # s
  <2>1. x.msgs = s.msgs \o f
    BY <1>2 DEF TakeIn
  <2>2. BufferOK(s.msgs, snt) /\ BufferOK(f, snt)
    BY ForwardOK DEF SetsOK
  <2>3. \A i \in 1..Len(f) : Id(f[i]) = Id(m)
    <3>1. CASE f = <<>>
      BY <3>1
    <3>2. CASE f # <<>>
      <4>1. f = <<[m EXCEPT !.ttl = @ - 1]>>
        BY <3>2 DEF forward_default
      <4>2. m \in Tc
        BY DEF Genuine
      <4>3. Len(f) = 1 /\ f[1].orig = m.orig /\ f[1].seq = m.seq
        BY <4>1, <4>2 DEF Tc
      <4> HIDE DEF f
      <4>4. QED
        BY <4>3 DEF Id
    <3>3. QED
      BY <3>1, <3>2
  <2> HIDE DEF x, f
  <2>4. /\ Len(x.msgs) = Len(s.msgs) + Len(f) /\ Len(s.msgs) \in Nat /\ Len(f) \in Nat
        /\ \A i \in 1..(Len(s.msgs) + Len(f)) :
              x.msgs[i] = IF i <= Len(s.msgs) THEN s.msgs[i] ELSE f[i - Len(s.msgs)]
    BY <2>1, <2>2, ConcatProperties, LenProperties DEF BufferOK
  <2>5. ASSUME NEW i \in 1..Len(x.msgs)
        PROVE  Id(x.msgs[i]) \in IdsIn(s.msgs) \cup {Id(m)}
    <3>1. CASE i <= Len(s.msgs)
      BY <2>4, <3>1 DEF IdsIn
    <3>2. CASE ~ (i <= Len(s.msgs))
      <4>1. i - Len(s.msgs) \in 1..Len(f) /\ x.msgs[i] = f[i - Len(s.msgs)]
        BY <2>4, <3>2
      <4>2. QED
        BY <2>3, <4>1
    <3>3. QED
      BY <3>1, <3>2
  <2>6. IdsIn(x.msgs) \subseteq IdsIn(s.msgs) \cup {Id(m)}
    BY <2>5 DEF IdsIn
  <2>7. QED
    BY <2>6 DEF x
<1>3. QED
  BY <1>1, <1>2

\* Whole packets: by induction over their messages.
LEMMA AfterKnows ==
    ASSUME NEW snt, Numbered(snt), NEW P, NEW full \in BOOLEAN, NEW n, NEW from,
           NEW packet, BufferOK(packet, snt), NEW s, SetsOK(s, snt),
           IdsIn(packet) \subseteq P, IdsIn(s.msgs) \subseteq P,
           \A o \in Node \ {n} : Knows(o, s.dup, s.topology, snt, P, full)
    PROVE  LET x == Taken(n, from, s, packet)
           IN  /\ \A o \in Node \ {n} : Knows(o, x.dup, x.topology, snt, P, full)
               /\ IdsIn(x.msgs) \subseteq P
<1> DEFINE after == After(n, from, s, packet)
           Good(k) == /\ \A o \in Node \ {n} :
                            Knows(o, after[k].dup, after[k].topology, snt, P, full)
                      /\ IdsIn(after[k].msgs) \subseteq P
           T == {k \in Nat : k <= Len(packet) /\ ~ Good(k)}
<1>1. Len(packet) \in Nat
  BY LenProperties DEF BufferOK
<1>2. /\ after[0] = s
      /\ \A k \in 1..Len(packet) : after[k] = TakeIn(n, from, after[k - 1], packet[k])
      /\ Taken(n, from, s, packet) = after[Len(packet)]
  BY <1>1, AfterSteps
<1>3. T = {}
  <2> SUFFICES ASSUME T # {} PROVE FALSE
    OBVIOUS
  <2>1. PICK k \in T : \A j \in T : k <= j
    <3>1. T \subseteq Nat
      OBVIOUS
    <3> HIDE DEF T
    <3>2. QED
      BY <3>1, LeastNat
  <2>a. \A i \in 0..Len(packet) : SetsOK(after[i], snt)
    BY AfterOK
  <2> HIDE DEF after
  <2>2. k # 0
    BY <1>2
  <2>3. k \in 1..Len(packet) /\ k - 1 \in Nat /\ k - 1 <= Len(packet) /\ ~ (k <= k - 1)
        /\ k - 1 \in 0..Len(packet)
    BY <1>1, <2>2
  <2>4. Good(k - 1)
    BY <2>1, <2>3
  <2> DEFINE r == after[k - 1]
             m == packet[k]
  <2>5. Genuine(m, snt) /\ SetsOK(r, snt) /\ after[k] = TakeIn(n, from, r, m) /\ Id(m) \in P
    BY <1>2, <2>3, <2>a DEF BufferOK, IdsIn
  <2>6. PICK c \in snt : Copy(m, c)
    BY <2>5 DEF Genuine
  <2>7. m.ttl \in 1..255 /\ r.topology \subseteq Tuple
    BY <2>5 DEF Genuine, Tc, SetsOK, TuplesOK
  <2>8. IdsIn(after[k].msgs) \subseteq P
    <3>1. IdsIn(r.msgs) \subseteq P
      BY <2>4
    <3> HIDE DEF r, m
    <3>2. QED
      BY <2>5, <3>1, TakeInIds
  <2>9. \A o \in Node \ {n} : Knows(o, r.dup, r.topology, snt, P, full)
    BY <2>4
  <2> HIDE DEF r, m
  <2>10. ASSUME NEW o \in Node \ {n}
         PROVE  Knows(o, after[k].dup, after[k].topology, snt, P, full)
    BY <2>5, <2>6, <2>7, <2>9, TakeInKnows
  <2>11. Good(k)
    BY <2>8, <2>10
  <2>12. QED
    BY <2>11
<1>4. Good(Len(packet))
  <2> HIDE DEF Good
  <2> QED
    BY <1>1, <1>3
<1> HIDE DEF after
<1>5. QED
  BY <1>2, <1>4

-----------------------------------------------------------------------------
(* Every step keeps what nodes know *)

KInv ==
    \A n \in Node : \A o \in Node \ {n} :
        Knows(o, dup[n], topology[n], sent, Pending, expiries = 0)

LEMMA SentNumbered == ASSUME FInv, UInv PROVE Numbered(sent)
BY DEF FInv, SentOK, UInv, Numbered

LEMMA KnowsOfLess ==
    ASSUME NEW o, NEW D, NEW tuples, NEW snt, NEW P, NEW Q \in SUBSET P,
           NEW full \in BOOLEAN, NEW less \in BOOLEAN, less => full,
           Knows(o, D, tuples, snt, P, full)
    PROVE  Knows(o, D, tuples, snt, Q, less)
<1>1. NoneOlder(o, D, snt, P) => NoneOlder(o, D, snt, Q)
  BY DEF NoneOlder
<1>2. QED
  BY <1>1 DEF Knows

\* A node that has all that the newest message advertises has something of it.
LEMMA SomethingHeld ==
    ASSUME NEW o, NEW D, NEW tuples, NEW snt, Numbered(snt), Complete(o, D, tuples, snt)
    PROVE  Holds(tuples, o) \/ KnownOf(o, D, snt) = {}
<1> SUFFICES ASSUME KnownOf(o, D, snt) # {} PROVE Holds(tuples, o)
  OBVIOUS
<1> DEFINE K == KnownOf(o, D, snt)
           T == {OLSR_MAX_SEQ_NUM - k.ansn : k \in K}
<1>1. \A k \in K : k \in snt /\ k.ansn \in SeqNums
  BY NumberedFacts DEF KnownOf
<1>2. OLSR_MAX_SEQ_NUM \in Nat
  BY DEF OLSR_MAX_SEQ_NUM
<1>3. \A k \in K : k.ansn \in Nat /\ k.ansn <= OLSR_MAX_SEQ_NUM
  BY <1>1, <1>2 DEF SeqNums
<1>4. \A a \in Nat : a <= OLSR_MAX_SEQ_NUM => OLSR_MAX_SEQ_NUM - a \in Nat
  BY <1>2
<1>5. T \subseteq Nat /\ T # {}
  BY <1>3, <1>4
<1>6. PICK x \in T : \A y \in T : x <= y
  <2> HIDE DEF T
  <2> QED
    BY <1>5, LeastNat
<1>7. PICK k \in K : x = OLSR_MAX_SEQ_NUM - k.ansn
  OBVIOUS
<1>8. ASSUME NEW j \in K
      PROVE  j.ansn <= k.ansn
  <2>1. OLSR_MAX_SEQ_NUM - k.ansn <= OLSR_MAX_SEQ_NUM - j.ansn
    BY <1>6, <1>7
  <2>2. \A a, b, c \in Int : c - a <= c - b => b <= a
    OBVIOUS
  <2>3. k.ansn \in Int /\ j.ansn \in Int /\ OLSR_MAX_SEQ_NUM \in Int
    BY <1>2, <1>3
  <2>4. QED
    BY <2>1, <2>2, <2>3
<1> HIDE DEF T
<1>9. k \in Top(o, D, snt)
  BY <1>8 DEF Top
<1>10. PICK d \in k.adv : TRUE
  BY <1>1, NumberedFacts
<1> DEFINE t == [last |-> o, dest |-> d, seq |-> k.ansn]
<1>11. t \in tuples /\ t.last = o
  BY <1>9, <1>10 DEF Complete
<1> HIDE DEF t
<1>12. QED
  BY <1>11 DEF Holds

\* A message that is sent is newer than what is known of its originator, or something is
\* held of what is known.
LEMMA SendTcKnows ==
    ASSUME FewTcs, FInv, UInv, KInv, NEW n \in Node, send_tc(n),
           (\A m \in From(n) : m.ansn <= ansn[n]) \/ expiries = 0
    PROVE  KInv'
<1> DEFINE msg == TcOf(n)
<1>1. /\ mprsel[n] # {}
      /\ msgs' = [msgs EXCEPT ![n] = Append(@, msg)]
      /\ sent' = sent \cup {msg}
      /\ UNCHANGED <<dup, topology, expiries>>
  BY SendTcSteps
<1>2. msg.orig = n /\ msg.ansn = ansn[n] /\ Genuine(msg, sent')
  BY <1>1, TcOfOK
<1>3. Id(msg) \notin Ids(sent)
  BY TcIsNew
<1> HIDE DEF msg
<1>4. Pending' \subseteq Pending \cup {Id(msg)}
  <2>1. ASSUME NEW l \in Node
        PROVE  IdsIn(msgs'[l]) \subseteq Pending \cup {Id(msg)}
    <3>1. CASE l # n
      BY <1>1, <3>1 DEF Pending, FInv, NodesOK
    <3>2. CASE l = n
      <4>1. msgs'[n] = Append(msgs[n], msg) /\ BufferOK(msgs[n], sent')
        BY <1>1, GenuineStays DEF FInv, NodesOK
      <4> DEFINE q == msgs[n]
      <4>2. /\ Len(q) \in Nat /\ Len(Append(q, msg)) = Len(q) + 1
            /\ \A i \in 1..Len(q) : Append(q, msg)[i] = q[i]
            /\ Append(q, msg)[Len(q) + 1] = msg
        BY <1>2, <4>1, BufferGrows
      <4>3. \A i \in 1..(Len(q) + 1) : i \in 1..Len(q) \/ i = Len(q) + 1
        BY <4>2
      <4>4. IdsIn(Append(q, msg)) \subseteq IdsIn(q) \cup {Id(msg)}
        BY <4>2, <4>3 DEF IdsIn
      <4>5. IdsIn(q) \subseteq Pending
        BY DEF Pending
      <4>6. QED
        BY <3>2, <4>1, <4>4, <4>5
    <3>3. QED
      BY <3>1, <3>2
  <2>2. QED
    BY <2>1 DEF Pending
<1>5. ASSUME NEW l \in Node, NEW o \in Node \ {l}
      PROVE  Knows(o, dup[l], topology[l], sent', Pending', expiries = 0)
  <2> DEFINE D == dup[l]
             tuples == topology[l]
  <2>1. Knows(o, D, tuples, sent, Pending, expiries = 0) /\ D \subseteq Ids(sent)
    BY DEF KInv, FInv, NodesOK
  <2>2. KnownOf(o, D, sent') = KnownOf(o, D, sent)
    BY <1>1, <1>3, <2>1 DEF KnownOf
  <2>3. Top(o, D, sent') = Top(o, D, sent)
    BY <2>2 DEF Top
  <2>4. \A k \in sent' : Id(k) \in Pending' => k = msg \/ (k \in sent /\ Id(k) \in Pending)
    BY <1>1, <1>3, <1>4 DEF Ids
  <2>5. expiries # 0 => \A k \in KnownOf(n, D, sent) : k.ansn <= msg.ansn
    BY <1>2 DEF KnownOf, From
  <2> HIDE DEF D, tuples
  <2>a. Holds(tuples, o) \/ \A k \in KnownOf(o, D, sent) : o = n => k.ansn <= msg.ansn
    <3>1. CASE expiries = 0
      <4>1. Complete(o, D, tuples, sent)
        BY <2>1, <3>1 DEF Knows
      <4>2. QED
        BY <4>1, SentNumbered, SomethingHeld
    <3>2. CASE expiries # 0
      BY <2>5, <3>2
    <3>3. QED
      BY <3>1, <3>2
  <2>6. Holds(tuples, o) \/ NoneOlder(o, D, sent', Pending')
    <3>1. SUFFICES ASSUME ~ Holds(tuples, o), NEW k \in sent', k.orig = o,
                          Id(k) \in Pending', Id(k) \notin D,
                          NEW m \in KnownOf(o, D, sent')
                   PROVE  m.ansn <= k.ansn
      BY DEF NoneOlder
    <3>a. NoneOlder(o, D, sent, Pending)
      BY <2>1, <3>1 DEF Knows
    <3>2. CASE k = msg
      BY <1>2, <2>2, <2>a, <3>1, <3>2
    <3>3. CASE k # msg
      BY <2>2, <2>4, <3>1, <3>a, <3>3 DEF NoneOlder
    <3>4. QED
      BY <3>2, <3>3
  <2>7. Sound(o, D, tuples, sent) => Sound(o, D, tuples, sent')
    BY <2>3 DEF Sound
  <2>8. Complete(o, D, tuples, sent) => Complete(o, D, tuples, sent')
    BY <2>3 DEF Complete
  <2>9. Knows(o, D, tuples, sent', Pending', expiries = 0)
    BY <2>1, <2>6, <2>7, <2>8 DEF Knows
  <2>10. QED
    BY <2>9 DEF D, tuples
<1>6. QED
  BY <1>1, <1>5 DEF KInv

LEMMA SendPktKnows ==
    ASSUME FInv, UInv, KInv, NEW n \in Node, NEW heard \in SUBSET Nbs[n], send_pkt(n, heard)
    PROVE  KInv'
<1>1. /\ msgs[n] # <<>>
      /\ msgs' = [m \in Node |-> IF m = n THEN RestOf(n)
                                 ELSE IF m \in heard THEN SetsAfter(m, n).msgs ELSE msgs[m]]
      /\ dup' = [m \in Node |-> IF m \in heard THEN SetsAfter(m, n).dup ELSE dup[m]]
      /\ topology' = [m \in Node |-> IF m \in heard THEN SetsAfter(m, n).topology
                                     ELSE topology[m]]
      /\ UNCHANGED <<sent, expiries>>
  BY SendPktSteps
<1>2. Numbered(sent)
  BY SentNumbered
<1>3. BufferOK(PacketOf(n), sent) /\ IdsIn(PacketOf(n)) \subseteq Pending
      /\ IdsIn(RestOf(n)) \subseteq Pending
  <2>1. /\ BufferOK(PacketOf(n), sent)
        /\ Len(msgs[n]) \in Nat /\ Len(PacketOf(n)) \in 1..Len(msgs[n])
        /\ Len(RestOf(n)) = Len(msgs[n]) - Len(PacketOf(n))
        /\ \A i \in 1..Len(PacketOf(n)) : PacketOf(n)[i] = msgs[n][i]
        /\ \A i \in 1..Len(RestOf(n)) : RestOf(n)[i] = msgs[n][i + Len(PacketOf(n))]
    BY <1>1, PacketFacts
  <2>2. \A i \in 1..Len(PacketOf(n)) : i \in 1..Len(msgs[n])
    BY <2>1
  <2>3. \A i \in 1..Len(RestOf(n)) : i + Len(PacketOf(n)) \in 1..Len(msgs[n])
    BY <2>1
  <2>4. IdsIn(PacketOf(n)) \subseteq IdsIn(msgs[n])
    BY <2>1, <2>2 DEF IdsIn
  <2>5. IdsIn(RestOf(n)) \subseteq IdsIn(msgs[n])
    BY <2>1, <2>3 DEF IdsIn
  <2>6. QED
    BY <2>1, <2>4, <2>5 DEF Pending
<1>4. ASSUME NEW m \in Node
      PROVE  /\ \A o \in Node \ {m} : Knows(o, SetsAfter(m, n).dup, SetsAfter(m, n).topology,
                                            sent, Pending, expiries = 0)
             /\ IdsIn(SetsAfter(m, n).msgs) \subseteq Pending
  <2> DEFINE s == Sets(m)
  <2>1. s.dup = dup[m] /\ s.topology = topology[m] /\ s.msgs = msgs[m]
    BY DEF Sets
  <2>2. SetsOK(s, sent)
    BY <2>1 DEF SetsOK, FInv, NodesOK
  <2>3. IdsIn(s.msgs) \subseteq Pending
    BY <2>1 DEF Pending
  <2> DEFINE full == expiries = 0
  <2>4. \A o \in Node \ {m} : Knows(o, s.dup, s.topology, sent, Pending, full)
    BY <2>1 DEF KInv
  <2>5. full \in BOOLEAN
    OBVIOUS
  <2> HIDE DEF s, full
  <2> DEFINE x == Taken(m, n, s, PacketOf(n))
  <2>6. /\ \A o \in Node \ {m} : Knows(o, x.dup, x.topology, sent, Pending, full)
        /\ IdsIn(x.msgs) \subseteq Pending
    BY <1>2, <1>3, <2>2, <2>3, <2>4, <2>5, AfterKnows
  <2>7. x = SetsAfter(m, n)
    BY DEF SetsAfter, s
  <2> HIDE DEF x
  <2>8. QED
    BY <2>6, <2>7 DEF full
<1>5. Pending' \subseteq Pending
  <2>1. \A m \in Node : IdsIn(msgs'[m]) \subseteq Pending
    BY <1>1, <1>3, <1>4 DEF Pending
  <2>2. QED
    BY <2>1 DEF Pending
<1>6. ASSUME NEW m \in Node, NEW o \in Node \ {m}
      PROVE  Knows(o, dup'[m], topology'[m], sent, Pending', expiries = 0)
  <2>1. Knows(o, dup'[m], topology'[m], sent, Pending, expiries = 0)
    <3>1. CASE m \in heard
      <4>1. dup'[m] = SetsAfter(m, n).dup /\ topology'[m] = SetsAfter(m, n).topology
        BY <1>1, <3>1
      <4>2. QED
        BY <1>4, <4>1
    <3>2. CASE m \notin heard
      BY <1>1, <3>2 DEF KInv
    <3>3. QED
      BY <3>1, <3>2
  <2> DEFINE full == expiries = 0
  <2>2. full \in BOOLEAN
    OBVIOUS
  <2>3. Knows(o, dup'[m], topology'[m], sent, Pending, full)
    BY <2>1
  <2> HIDE DEF full
  <2>4. Knows(o, dup'[m], topology'[m], sent, Pending', full)
    BY <1>5, <2>2, <2>3, KnowsOfLess
  <2>5. QED
    BY <2>4 DEF full
<1>7. QED
  BY <1>1, <1>6 DEF KInv

LEMMA TopologyExpiresKnows ==
    ASSUME FInv, KInv, NEW n \in Node, NEW t \in topology[n], TopologyExpires(n, t)
    PROVE  KInv'
<1>1. /\ expiries < MaxExpiries /\ expiries' = expiries + 1
      /\ \A m \in Node : msgs[m] = <<>>
      /\ topology' = [topology EXCEPT ![n] = @ \ {t}]
      /\ UNCHANGED <<msgs, dup, sent>>
  BY DEF TopologyExpires
<1>2. expiries' # 0
  BY <1>1 DEF FInv, CountersOK
<1>3. \A m \in Node : IdsIn(msgs'[m]) = {}
  BY <1>1 DEF IdsIn
<1>4. Pending' = {}
  BY <1>3 DEF Pending
<1>5. ASSUME NEW m \in Node, NEW o \in Node \ {m}
      PROVE  Knows(o, dup'[m], topology'[m], sent', Pending', expiries' = 0)
  <2>1. topology'[m] \subseteq topology[m]
    BY <1>1 DEF FInv, NodesOK
  <2>2. Sound(o, dup[m], topology[m], sent)
    BY DEF KInv, Knows
  <2>3. Sound(o, dup'[m], topology'[m], sent')
    BY <1>1, <2>1, <2>2 DEF Sound
  <2>4. NoneOlder(o, dup'[m], sent', Pending')
    BY <1>4 DEF NoneOlder
  <2>5. QED
    BY <1>2, <2>3, <2>4 DEF Knows
<1>6. QED
  BY <1>5 DEF KInv

-----------------------------------------------------------------------------
(* Advertised numbers do not wrap around where relays change few times *)

FewChanges == 2 * (Cardinality(Node) + MaxChanges) <= OLSR_MAX_SEQ_NUM

\* The number after the present one counts the changes of a node's selectors: two for
\* a selector that comes and goes.
Changed(n) == Next16(ansn[n])

AInv ==
    /\ changes <= MaxChanges
    /\ \A n \in Node :
         /\ Changed(n) + Cardinality(mprsel[n]) <= 2 * (Cardinality(Node) + changes)
         /\ mprsel[n] # {} => Changed(n) >= 1
         /\ \A m \in From(n) : m.ansn < Changed(n)

LEMMA SelectorsCounted ==
    ASSUME FInv, NEW n \in Node
    PROVE  /\ IsFiniteSet(mprsel[n]) /\ Cardinality(mprsel[n]) \in Nat
           /\ Cardinality(Node) \in Nat /\ Cardinality(mprsel[n]) <= Cardinality(Node)
           /\ ansn[n] \in SeqNums /\ Changed(n) \in SeqNums /\ Changed(n) \in Nat
           /\ changes \in Nat /\ MaxChanges \in Nat /\ OLSR_MAX_SEQ_NUM \in Nat
<1>1. mprsel[n] \subseteq Node /\ ansn[n] \in SeqNums /\ changes \in Nat
  BY DEF FInv, RelaysOK, NumbersOK, CountersOK
<1>2. OLSR_MAX_SEQ_NUM \in Nat /\ MaxChanges \in Nat
  BY ConstantsAssumption DEF OLSR_MAX_SEQ_NUM
<1>3. Changed(n) \in SeqNums
  BY <1>1, NextNumber DEF Changed
<1>4. Changed(n) \in Nat
  BY <1>2, <1>3 DEF SeqNums
<1>5. QED
  BY <1>1, <1>2, <1>3, <1>4, FS_Subset, FS_CardinalityType, ConstantsAssumption

LEMMA NotWrapped ==
    ASSUME FewChanges, FInv, AInv, NEW n \in Node
    PROVE  /\ Cardinality(mprsel[n]) >= 1 => Next16(Changed(n)) = Changed(n) + 1
           /\ Changed(n) + 1 <= OLSR_MAX_SEQ_NUM + 1
           /\ Changed(n) < OLSR_MAX_SEQ_NUM => Next16(Changed(n)) = Changed(n) + 1
           /\ Changed(n) >= 1 => ansn[n] = Changed(n) - 1
<1> DEFINE C == Changed(n)
           N == Cardinality(Node)
           S == Cardinality(mprsel[n])
<1>1. /\ S \in Nat /\ N \in Nat /\ C \in SeqNums /\ C \in Nat /\ ansn[n] \in SeqNums
      /\ changes \in Nat /\ MaxChanges \in Nat /\ OLSR_MAX_SEQ_NUM \in Nat
  BY SelectorsCounted
<1>2. C + S <= 2 * (N + changes) /\ changes <= MaxChanges
      /\ 2 * (N + MaxChanges) <= OLSR_MAX_SEQ_NUM
  BY DEF AInv, FewChanges
<1>3. C < OLSR_MAX_SEQ_NUM => Next16(C) = C + 1
  BY <1>1, NextNumber
<1>4. C >= 1 => ansn[n] = C - 1
  <2>1. ansn[n] < OLSR_MAX_SEQ_NUM => Next16(ansn[n]) = ansn[n] + 1
    BY <1>1, NextNumber
  <2>2. ansn[n] = OLSR_MAX_SEQ_NUM => Next16(ansn[n]) = 0
    BY <1>1, NextNumber
  <2>3. ansn[n] \in Nat /\ ansn[n] <= OLSR_MAX_SEQ_NUM
    BY <1>1 DEF SeqNums
  <2>4. C = Next16(ansn[n])
    BY DEF Changed
  <2> HIDE DEF C
  <2>5. QED
    BY <1>1, <2>1, <2>2, <2>3, <2>4
<1> HIDE DEF C, N, S
<1>5. C + S <= OLSR_MAX_SEQ_NUM
  BY <1>1, <1>2
<1>6. QED
  BY <1>1, <1>3, <1>4, <1>5 DEF C, N, S

LEMMA AdvertisedRise ==
    ASSUME FewChanges, FInv, AInv, NEW n \in Node
    PROVE  \A m \in From(n) : m.ansn <= ansn[n]
<1> TAKE m \in From(n)
<1>1. m.ansn < Changed(n) /\ Changed(n) \in Nat
  BY SelectorsCounted DEF AInv
<1>2. m.ansn \in Nat
  BY Counted DEF FInv, SentOK, Genuine, Tc, From, SeqNums
<1>3. ansn[n] = Changed(n) - 1
  BY <1>1, <1>2, NotWrapped
<1>4. QED
  BY <1>1, <1>2, <1>3

LEMMA HelloChanges ==
    ASSUME FewChanges, FInv, AInv, NEW m \in Node, NEW R \in RelaySets[m], Hello(m, R)
    PROVE  AInv'
<1> DEFINE new == {n \in R : m \notin mprsel[n]}
<1>1. /\ R = mprset[m] \/ changes < MaxChanges
      /\ mprsel' = [n \in Node |-> IF n \in new THEN mprsel[n] \cup {m} ELSE mprsel[n]]
      /\ ansn' = [n \in Node |-> IF n \in new THEN Next16(ansn[n]) ELSE ansn[n]]
      /\ changes' = IF R = mprset[m] THEN changes ELSE changes + 1
      /\ UNCHANGED sent
  BY DEF Hello
<1>2. R = mprset[m] => new = {}
  BY DEF FInv, RelaysOK
<1>3. changes \in Nat /\ MaxChanges \in Nat /\ changes <= MaxChanges
  BY ConstantsAssumption DEF FInv, CountersOK, AInv
<1>4. changes' \in Nat /\ changes <= changes' /\ changes' <= MaxChanges
      /\ (new # {} => changes' = changes + 1)
  BY <1>1, <1>2, <1>3
<1>5. ASSUME NEW n \in Node
      PROVE  /\ Changed(n)' + Cardinality(mprsel'[n]) <= 2 * (Cardinality(Node) + changes')
             /\ mprsel'[n] # {} => Changed(n)' >= 1
             /\ \A k \in From(n)' : k.ansn < Changed(n)'
  <2>0. /\ Cardinality(mprsel[n]) \in Nat /\ Cardinality(Node) \in Nat /\ Changed(n) \in Nat
        /\ IsFiniteSet(mprsel[n]) /\ OLSR_MAX_SEQ_NUM \in Nat
    BY SelectorsCounted
  <2>a. /\ Changed(n) + Cardinality(mprsel[n]) <= 2 * (Cardinality(Node) + changes)
        /\ mprsel[n] # {} => Changed(n) >= 1
        /\ \A k \in From(n) : k.ansn < Changed(n)
    BY DEF AInv
  <2>b. From(n)' = From(n) /\ \A k \in From(n) : k.ansn \in Nat
    BY <1>1, Counted DEF FInv, SentOK, Genuine, Tc, From, SeqNums
  <2>1. CASE n \notin new
    <3>1. mprsel'[n] = mprsel[n] /\ Changed(n)' = Changed(n)
      BY <1>1, <2>1 DEF Changed
    <3>2. QED
      BY <1>3, <1>4, <2>0, <2>a, <2>b, <3>1
  <2>2. CASE n \in new
    <3>1. mprsel'[n] = mprsel[n] \cup {m} /\ Changed(n)' = Next16(Changed(n))
      BY <1>1, <2>2 DEF Changed
    <3>2. Cardinality(mprsel'[n]) = Cardinality(mprsel[n]) + 1
      BY <2>0, <2>2, <3>1, FS_AddElement
    <3>3. changes' = changes + 1
      BY <1>4, <2>2
    <3>4. Changed(n) < OLSR_MAX_SEQ_NUM
      <4>1. 2 * (Cardinality(Node) + MaxChanges) <= OLSR_MAX_SEQ_NUM
        BY DEF FewChanges
      <4>2. changes + 1 <= MaxChanges
        BY <1>3, <1>4, <3>3
      <4>3. QED
        BY <1>3, <2>0, <2>a, <4>1, <4>2
    <3>5. Changed(n)' = Changed(n) + 1
      BY <3>1, <3>4, NotWrapped
    <3>6. QED
      BY <1>3, <2>0, <2>a, <2>b, <3>2, <3>3, <3>5
  <2>3. QED
    BY <2>1, <2>2
<1>6. QED
  BY <1>4, <1>5 DEF AInv

LEMMA SelectorExpiresChanges ==
    ASSUME FewChanges, FInv, AInv, NEW l \in Node, NEW m \in mprsel[l], SelectorExpires(l, m)
    PROVE  AInv'
<1>1. /\ mprsel' = [mprsel EXCEPT ![l] = @ \ {m}]
      /\ ansn' = [ansn EXCEPT ![l] = Next16(@)]
      /\ UNCHANGED <<sent, changes>>
  BY DEF SelectorExpires
<1>2. ASSUME NEW n \in Node
      PROVE  /\ Changed(n)' + Cardinality(mprsel'[n]) <= 2 * (Cardinality(Node) + changes)
             /\ mprsel'[n] # {} => Changed(n)' >= 1
             /\ \A k \in From(n)' : k.ansn < Changed(n)'
  <2>0. /\ Cardinality(mprsel[n]) \in Nat /\ Cardinality(Node) \in Nat /\ Changed(n) \in Nat
        /\ IsFiniteSet(mprsel[n]) /\ OLSR_MAX_SEQ_NUM \in Nat /\ changes \in Nat
    BY SelectorsCounted
  <2>a. /\ Changed(n) + Cardinality(mprsel[n]) <= 2 * (Cardinality(Node) + changes)
        /\ mprsel[n] # {} => Changed(n) >= 1
        /\ \A k \in From(n) : k.ansn < Changed(n)
    BY DEF AInv
  <2>b. From(n)' = From(n) /\ \A k \in From(n) : k.ansn \in Nat
    BY <1>1, Counted DEF FInv, SentOK, Genuine, Tc, From, SeqNums
  <2>1. CASE n # l
    <3>1. mprsel'[n] = mprsel[n] /\ Changed(n)' = Changed(n)
      BY <1>1, <2>1 DEF Changed, FInv, RelaysOK, NumbersOK
    <3>2. QED
      BY <2>a, <2>b, <3>1
  <2>2. CASE n = l
    <3>1. mprsel'[n] = mprsel[n] \ {m} /\ Changed(n)' = Next16(Changed(n))
      BY <1>1, <2>2 DEF Changed, FInv, RelaysOK, NumbersOK
    <3>2. Cardinality(mprsel'[n]) = Cardinality(mprsel[n]) - 1 /\ Cardinality(mprsel[n]) # 0
      BY <2>0, <2>2, <3>1, FS_RemoveElement, FS_EmptySet
    <3>3. Changed(n)' = Changed(n) + 1
      BY <2>0, <3>1, <3>2, NotWrapped
    <3>4. QED
      BY <2>0, <2>a, <2>b, <3>2, <3>3
  <2>3. QED
    BY <2>1, <2>2
<1>3. QED
  BY <1>1, <1>2 DEF AInv

LEMMA SendTcChanges ==
    ASSUME FewChanges, FInv, AInv, NEW l \in Node, send_tc(l)
    PROVE  AInv'
<1>1. mprsel[l] # {} /\ sent' = sent \cup {TcOf(l)} /\ UNCHANGED <<mprsel, ansn, changes>>
  BY SendTcSteps
<1>2. TcOf(l).orig = l /\ TcOf(l).ansn = ansn[l]
  BY <1>1, TcOfOK
<1>3. ansn[l] < Changed(l)
  <2>1. Changed(l) >= 1 /\ Changed(l) \in Nat
    BY <1>1, SelectorsCounted DEF AInv
  <2>2. ansn[l] = Changed(l) - 1
    BY <2>1, NotWrapped
  <2>3. QED
    BY <2>1, <2>2
<1>4. \A n \in Node : From(n)' \subseteq From(n) \cup {TcOf(l)} /\ Changed(n)' = Changed(n)
  BY <1>1 DEF From, Changed
<1>5. \A n \in Node : \A k \in From(n)' : k.ansn < Changed(n)
  <2> TAKE n \in Node
  <2> TAKE k \in From(n)'
  <2>1. k.orig = n
    BY DEF From
  <2>2. QED
    BY <1>2, <1>3, <1>4, <2>1 DEF AInv
<1>6. QED
  BY <1>1, <1>4, <1>5 DEF AInv

LEMMA ChangesNext ==
    ASSUME FewChanges, FInv, AInv, [FloodNext]_floodVars
    PROVE  AInv'
<1>1. ASSUME UNCHANGED <<mprsel, ansn, sent, changes>>
      PROVE  AInv'
  BY <1>1 DEF AInv, From, Changed
<1>2. ASSUME NEW m \in Node, NEW R \in RelaySets[m], Hello(m, R)
      PROVE  AInv'
  BY <1>2, HelloChanges
<1>3. ASSUME NEW n \in Node, NEW m \in mprsel[n], SelectorExpires(n, m)
      PROVE  AInv'
  BY <1>3, SelectorExpiresChanges
<1>4. ASSUME NEW n \in Node, send_tc(n)
      PROVE  AInv'
  BY <1>4, SendTcChanges
<1>5. ASSUME NEW n \in Node, NEW heard \in SUBSET Nbs[n], send_pkt(n, heard)
      PROVE  AInv'
  BY <1>1, <1>5 DEF send_pkt
<1>6. ASSUME NEW n \in Node, NEW t \in topology[n], TopologyExpires(n, t)
      PROVE  AInv'
  BY <1>1, <1>6 DEF TopologyExpires
<1>7. CASE UNCHANGED floodVars
  BY <1>1, <1>7 DEF floodVars
<1>8. QED
  BY <1>2, <1>3, <1>4, <1>5, <1>6, <1>7 DEF FloodNext

LEMMA ChangesInit ==
    ASSUME FewChanges, FloodInit
    PROVE  AInv
<1>1. /\ ansn = [n \in Node |-> (OLSR_MAX_SEQ_NUM + Cardinality(mprsel[n])) % (OLSR_MAX_SEQ_NUM + 1)]
      /\ sent = {} /\ changes = 0
  BY DEF FloodInit
<1>2. FInv
  BY FloodInitOK
<1>3. ASSUME NEW n \in Node
      PROVE  Changed(n) = Cardinality(mprsel[n])
  <2> DEFINE c == Cardinality(mprsel[n])
             a == ansn[n]
             M == OLSR_MAX_SEQ_NUM
  <2>1. c \in Nat /\ M = 65535 /\ Cardinality(Node) \in Nat /\ c <= Cardinality(Node)
        /\ MaxChanges \in Nat
    BY <1>2, SelectorsCounted DEF OLSR_MAX_SEQ_NUM
  <2>2. 2 * (Cardinality(Node) + MaxChanges) <= M
    BY DEF FewChanges
  <2>3. a = (M + c) % (M + 1) /\ a \in SeqNums
    BY <1>1, <1>2 DEF FInv, NumbersOK
  <2> HIDE DEF c, a, M
  <2>4. c < 65535
    BY <2>1, <2>2
  <2>5. a = (65535 + c) % 65536
    BY <2>1, <2>3
  <2>6. c = 0 => a = 65535
    BY <2>5
  <2>7. c >= 1 => a = c - 1
    BY <2>1, <2>4, <2>5
  <2>8. /\ a < M => Next16(a) = a + 1
        /\ a = M => Next16(a) = 0
    BY <2>3, NextNumber DEF M
  <2>9. Next16(a) = c
    BY <2>1, <2>4, <2>6, <2>7, <2>8
  <2>10. QED
    BY <2>9 DEF Changed, a, c
<1>4. ASSUME NEW n \in Node
      PROVE  /\ Changed(n) + Cardinality(mprsel[n]) <= 2 * (Cardinality(Node) + changes)
             /\ mprsel[n] # {} => Changed(n) >= 1
  <2>1. /\ Cardinality(mprsel[n]) \in Nat /\ Cardinality(Node) \in Nat
        /\ Cardinality(mprsel[n]) <= Cardinality(Node) /\ IsFiniteSet(mprsel[n])
    BY <1>2, SelectorsCounted
  <2>2. mprsel[n] # {} => Cardinality(mprsel[n]) # 0
    BY <2>1, FS_EmptySet
  <2>3. QED
    BY <1>1, <1>3, <2>1, <2>2
<1>5. QED
  BY <1>1, <1>4, ConstantsAssumption DEF AInv, From

LEMMA KnowsInit == ASSUME FloodInit PROVE KInv
<1>1. sent = {} /\ topology = [n \in Node |-> {}]
  BY DEF FloodInit
<1>2. ASSUME NEW n \in Node, NEW o \in Node \ {n}
      PROVE  Knows(o, dup[n], topology[n], sent, Pending, expiries = 0)
  <2>1. Top(o, dup[n], sent) = {}
    BY <1>1 DEF Top, KnownOf
  <2>2. Sound(o, dup[n], topology[n], sent) /\ Complete(o, dup[n], topology[n], sent)
    BY <1>1, <2>1 DEF Sound, Complete
  <2>3. NoneOlder(o, dup[n], sent, Pending)
    BY <1>1 DEF NoneOlder
  <2>4. QED
    BY <2>2, <2>3 DEF Knows
<1>3. QED
  BY <1>2 DEF KInv

Rises == FewChanges \/ MaxExpiries = 0
GrowInv == FewChanges => AInv

LEMMA KnowsNext ==
    ASSUME FewTcs, Rises, FInv, UInv, GrowInv, KInv, [FloodNext]_floodVars
    PROVE  KInv'
<1>1. ASSUME UNCHANGED <<dup, topology, sent, msgs, expiries>>
      PROVE  KInv'
  <2>1. Pending' = Pending
    BY <1>1 DEF Pending
  <2>2. QED
    BY <1>1, <2>1 DEF KInv
<1>2. ASSUME NEW m \in Node, NEW R \in RelaySets[m], Hello(m, R)
      PROVE  KInv'
  BY <1>1, <1>2 DEF Hello
<1>3. ASSUME NEW n \in Node, NEW m \in mprsel[n], SelectorExpires(n, m)
      PROVE  KInv'
  BY <1>1, <1>3 DEF SelectorExpires
<1>4. ASSUME NEW n \in Node, send_tc(n)
      PROVE  KInv'
  <2>1. CASE FewChanges
    <3>1. \A m \in From(n) : m.ansn <= ansn[n]
      BY <2>1, AdvertisedRise DEF GrowInv
    <3>2. QED
      BY <1>4, <3>1, SendTcKnows
  <2>2. CASE MaxExpiries = 0
    <3>1. expiries = 0
      BY <2>2 DEF FInv, CountersOK
    <3>2. QED
      BY <1>4, <3>1, SendTcKnows
  <2>3. QED
    BY <2>1, <2>2 DEF Rises
<1>5. ASSUME NEW n \in Node, NEW heard \in SUBSET Nbs[n], send_pkt(n, heard)
      PROVE  KInv'
  BY <1>5, SendPktKnows
<1>6. ASSUME NEW n \in Node, NEW t \in topology[n], TopologyExpires(n, t)
      PROVE  KInv'
  BY <1>6, TopologyExpiresKnows
<1>7. CASE UNCHANGED floodVars
  BY <1>1, <1>7 DEF floodVars
<1>8. QED
  BY <1>2, <1>3, <1>4, <1>5, <1>6, <1>7 DEF FloodNext

\* What a node knows of an originator is what the newest message it has taken in
\* advertises, in every network and whatever the order in which the messages come, as long
\* as there are fewer messages than numbers, and relays change so few times that no number
\* of selectors wraps around, or nothing expires (process_tc has no comparison on the
\* circle of numbers).
THEOREM NewestIsKnown ==
    ASSUME FewTcs, FewChanges \/ MaxExpiries = 0
    PROVE  FloodSpec => []KnowsTheNewest
<1>1. Rises
  BY DEF Rises
<1>2. FloodInit => UInv /\ GrowInv /\ KInv
  BY NumbersInit, ChangesInit, KnowsInit DEF GrowInv
<1>3. FInv /\ UInv /\ GrowInv /\ KInv /\ [FloodNext]_floodVars => UInv' /\ GrowInv' /\ KInv'
  <2>1. FInv /\ GrowInv /\ [FloodNext]_floodVars => GrowInv'
    BY ChangesNext DEF GrowInv, FewChanges
  <2>2. QED
    BY <1>1, <2>1, NumbersNext, KnowsNext
<1>4. FInv /\ KInv => KnowsTheNewest
  <2> SUFFICES ASSUME FInv, KInv, NEW n \in Node, NEW o \in Node \ {n}
               PROVE  LET known == {t \in topology[n] : t.last = o}
                          advertised == UNION {{[last |-> o, dest |-> d, seq |-> m.ansn] : d \in m.adv} :
                                                   m \in Newest(n, o)}
                      IN  known \subseteq advertised /\ (expiries = 0 => known = advertised)
    BY DEF KnowsTheNewest
  <2> DEFINE known == {t \in topology[n] : t.last = o}
             advertised == UNION {{[last |-> o, dest |-> d, seq |-> m.ansn] : d \in m.adv} :
                                      m \in Newest(n, o)}
  <2>1. Newest(n, o) = Top(o, dup[n], sent)
    <3>1. {m \in sent : m.orig = o /\ <<o, m.seq>> \in dup[n]} = KnownOf(o, dup[n], sent)
      BY DEF KnownOf, Id
    <3>2. QED
      BY <3>1 DEF Newest, Top
  <2>2. Knows(o, dup[n], topology[n], sent, Pending, expiries = 0)
    BY DEF KInv
  <2>3. \A t \in topology[n] : t = [last |-> t.last, dest |-> t.dest, seq |-> t.seq]
    BY TuplesEqual DEF FInv, NodesOK, TuplesOK
  <2>4. ASSUME NEW t \in known
        PROVE  t \in advertised
    <3>1. PICK m \in Newest(n, o) : t.seq = m.ansn /\ t.dest \in m.adv
      BY <2>1, <2>2 DEF Knows, Sound
    <3>2. t = [last |-> o, dest |-> t.dest, seq |-> m.ansn]
      BY <2>3, <3>1
    <3>3. QED
      BY <3>1, <3>2
  <2>5. ASSUME expiries = 0, NEW t \in advertised
        PROVE  t \in known
    <3>1. PICK m \in Newest(n, o) : t \in {[last |-> o, dest |-> d, seq |-> m.ansn] : d \in m.adv}
      OBVIOUS
    <3>2. PICK d \in m.adv : t = [last |-> o, dest |-> d, seq |-> m.ansn]
      BY <3>1
    <3>3. [last |-> o, dest |-> d, seq |-> m.ansn] \in topology[n]
      BY <2>1, <2>2, <2>5, <3>1 DEF Knows, Complete
    <3>4. t \in topology[n] /\ t.last = o
      BY <3>2, <3>3
    <3>5. QED
      BY <3>4
  <2> HIDE DEF known, advertised
  <2>6. known \subseteq advertised /\ (expiries = 0 => known = advertised)
    BY <2>4, <2>5
  <2>7. QED
    BY <2>6 DEF known, advertised
<1>5. QED
  BY <1>2, <1>3, <1>4, FloodInvariance, PTL DEF FloodSpec

-----------------------------------------------------------------------------
(* What a packet adds to a buffer *)

Elems(q) == {q[i] : i \in 1..Len(q)}
Distinct(q) == \A i, j \in 1..Len(q) : Id(q[i]) = Id(q[j]) => i = j
Hop(m) == [m EXCEPT !.ttl = @ - 1]

LEMMA IdsOfElems ==
    ASSUME NEW q
    PROVE  \A x : x \in IdsIn(q) <=> \E c \in Elems(q) : x = Id(c)
BY DEF IdsIn, Elems

LEMMA JoinOne ==
    ASSUME NEW snt, NEW q, BufferOK(q, snt), NEW m, Genuine(m, snt)
    PROVE  /\ Elems(q \o <<m>>) = Elems(q) \cup {m}
           /\ Distinct(q) /\ Id(m) \notin IdsIn(q) => Distinct(q \o <<m>>)
<1>1. m \in Tc /\ q \in Seq(Tc) /\ <<m>> \in Seq(Tc) /\ Len(<<m>>) = 1 /\ <<m>>[1] = m
  BY DEF Genuine, BufferOK
<1> DEFINE p == <<m>>
           r == q \o p
<1>2. /\ Len(r) = Len(q) + 1 /\ Len(q) \in Nat
      /\ \A i \in 1..(Len(q) + 1) : r[i] = IF i <= Len(q) THEN q[i] ELSE p[i - Len(q)]
  <2> HIDE DEF p
  <2>1. p \in Seq(Tc) /\ Len(p) = 1
    BY <1>1 DEF p
  <2>2. q \in Seq(Tc) /\ Len(q) \in Nat
    BY <1>1, LenProperties
  <2>3. /\ Len(q \o p) = Len(q) + Len(p)
        /\ \A i \in 1..(Len(q) + Len(p)) : (q \o p)[i] = IF i <= Len(q) THEN q[i] ELSE p[i - Len(q)]
    BY <2>1, <2>2, ConcatProperties
  <2>4. QED
    BY <2>1, <2>2, <2>3
<1>3. /\ \A i \in 1..Len(q) : r[i] = q[i]
      /\ r[Len(q) + 1] = m
      /\ \A i \in 1..(Len(q) + 1) : i \in 1..Len(q) \/ i = Len(q) + 1
      /\ \A i \in 1..Len(q) : i \in 1..(Len(q) + 1)
      /\ Len(q) + 1 \in 1..(Len(q) + 1)
  BY <1>1, <1>2
<1> HIDE DEF r, p
<1>4. Elems(r) = Elems(q) \cup {m}
  <2>1. Elems(r) \subseteq Elems(q) \cup {m}
    BY <1>2, <1>3 DEF Elems
  <2>2. Elems(q) \cup {m} \subseteq Elems(r)
    BY <1>2, <1>3 DEF Elems
  <2>3. QED
    BY <2>1, <2>2
<1>5. ASSUME Distinct(q), Id(m) \notin IdsIn(q)
      PROVE  Distinct(r)
  <2>1. \A i \in 1..Len(q) : Id(q[i]) # Id(m)
    BY <1>5 DEF IdsIn
  <2>2. QED
    BY <1>2, <1>3, <1>5, <2>1 DEF Distinct
<1>6. QED
  BY <1>4, <1>5 DEF r, p

\* A message that is new to the node, and one that is not.
LEMMA TakeInAdds ==
    ASSUME NEW snt, NEW m, Genuine(m, snt), NEW n, NEW from, NEW s, SetsOK(s, snt),
           Distinct(s.msgs), \A x \in IdsIn(s.msgs) : x[1] = n \/ x \in s.dup
    PROVE  LET x == TakeIn(n, from, s, m)
               new == m.orig # n /\ Id(m) \notin s.dup
           IN  /\ x.dup = s.dup \cup (IF m.orig # n THEN {Id(m)} ELSE {})
               /\ Elems(x.msgs) = Elems(s.msgs) \cup
                      (IF new /\ m.ttl > 1 /\ from \in mprsel[n] THEN {Hop(m)} ELSE {})
               /\ Distinct(x.msgs) /\ \A y \in IdsIn(x.msgs) : y[1] = n \/ y \in x.dup
<1> DEFINE x == TakeIn(n, from, s, m)
           f == forward_default(n, from, m)
<1>1. m \in Tc /\ m.ttl \in 1..255 /\ ~ (m.ttl <= 0) /\ Id(m) = <<m.orig, m.seq>>
  BY DEF Genuine, Tc, Id
<1>2. CASE m.orig = n \/ Id(m) \in s.dup
  <2>1. x = s
    BY <1>1, <1>2 DEF TakeIn
  <2> HIDE DEF x
  <2>2. x.dup = s.dup \cup (IF m.orig # n THEN {Id(m)} ELSE {})
    BY <1>2, <2>1
  <2>3. Elems(x.msgs) = Elems(s.msgs) \cup
            (IF m.orig # n /\ Id(m) \notin s.dup /\ m.ttl > 1 /\ from \in mprsel[n]
             THEN {Hop(m)} ELSE {})
    BY <1>2, <2>1
  <2>4. QED
    BY <2>1, <2>2, <2>3 DEF x
<1>3. CASE m.orig # n /\ Id(m) \notin s.dup
  <2>1. x.dup = s.dup \cup {Id(m)} /\ x.msgs = s.msgs \o f
    BY <1>1, <1>3 DEF TakeIn
  <2>2. Id(m) \notin IdsIn(s.msgs) /\ Id(m)[1] = m.orig
    BY <1>1, <1>3
  <2>3. BufferOK(s.msgs, snt)
    BY DEF SetsOK
  <2> HIDE DEF x
  <2>4. CASE m.ttl > 1 /\ from \in mprsel[n]
    <3>1. f = <<Hop(m)>>
      BY <2>4 DEF forward_default, Hop
    <3>2. Hop(m).orig = m.orig /\ Hop(m).seq = m.seq
      BY <1>1 DEF Hop, Tc
    <3>3. Id(Hop(m)) = Id(m)
      BY <3>2 DEF Id
    <3>4. Genuine(Hop(m), snt)
      <4>1. BufferOK(f, snt)
        BY ForwardOK
      <4>2. Len(f) = 1 /\ f[1] = Hop(m)
        BY <3>1
      <4> HIDE DEF f
      <4>3. QED
        BY <4>1, <4>2 DEF BufferOK
    <3>5. Elems(x.msgs) = Elems(s.msgs) \cup {Hop(m)} /\ Distinct(x.msgs)
      BY <2>1, <2>2, <2>3, <3>1, <3>3, <3>4, JoinOne
    <3>6. ASSUME NEW y \in IdsIn(x.msgs)
          PROVE  y[1] = n \/ y \in x.dup
      <4>1. PICK c \in Elems(x.msgs) : y = Id(c)
        BY IdsOfElems
      <4>2. CASE c \in Elems(s.msgs)
        BY <2>1, <4>1, <4>2, IdsOfElems
      <4>3. CASE c = Hop(m)
        BY <2>1, <3>3, <4>1, <4>3
      <4>4. QED
        BY <3>5, <4>2, <4>3
    <3>7. QED
      BY <1>3, <2>1, <2>4, <3>5, <3>6 DEF x
  <2>5. CASE ~ (m.ttl > 1 /\ from \in mprsel[n])
    <3>1. f = <<>>
      BY <2>5 DEF forward_default
    <3>2. s.msgs \in Seq(Tc)
      BY <2>3 DEF BufferOK
    <3>3. x.msgs = s.msgs
      BY <2>1, <3>1, <3>2, ConcatEmptySeq
    <3>4. QED
      BY <1>3, <2>1, <2>5, <3>3 DEF x
  <2>6. QED
    BY <2>4, <2>5
<1>4. QED
  BY <1>2, <1>3

\* The messages of a packet that a node takes in, forwards, and the state it comes to.
First(q, k) == {q[i] : i \in 1..k}
Others(n, cs) == {Id(c) : c \in {b \in cs : b.orig # n}}
Passed(n, from, D, cs) ==
    {Hop(c) : c \in {b \in cs : /\ b.orig # n /\ Id(b) \notin D
                                /\ b.ttl > 1 /\ from \in mprsel[n]}}

LEMMA PacketAdds ==
    ASSUME NEW snt, NEW packet, BufferOK(packet, snt), Distinct(packet),
           NEW n, NEW from, NEW s, SetsOK(s, snt),
           Distinct(s.msgs), \A x \in IdsIn(s.msgs) : x[1] = n \/ x \in s.dup
    PROVE  LET x == Taken(n, from, s, packet)
           IN  /\ x.dup = s.dup \cup Others(n, Elems(packet))
               /\ Elems(x.msgs) = Elems(s.msgs) \cup Passed(n, from, s.dup, Elems(packet))
               /\ Distinct(x.msgs) /\ \A y \in IdsIn(x.msgs) : y[1] = n \/ y \in x.dup
<1> DEFINE after == After(n, from, s, packet)
           Good(k) ==
               /\ after[k].dup = s.dup \cup Others(n, First(packet, k))
               /\ Elems(after[k].msgs)
                     = Elems(s.msgs) \cup Passed(n, from, s.dup, First(packet, k))
               /\ Distinct(after[k].msgs)
               /\ \A y \in IdsIn(after[k].msgs) : y[1] = n \/ y \in after[k].dup
           T == {k \in Nat : k <= Len(packet) /\ ~ Good(k)}
<1>1. Len(packet) \in Nat
  BY LenProperties DEF BufferOK
<1>2. /\ after[0] = s
      /\ \A k \in 1..Len(packet) : after[k] = TakeIn(n, from, after[k - 1], packet[k])
      /\ Taken(n, from, s, packet) = after[Len(packet)]
  BY <1>1, AfterSteps
<1>3. T = {}
  <2> SUFFICES ASSUME T # {} PROVE FALSE
    OBVIOUS
  <2>1. PICK k \in T : \A j \in T : k <= j
    <3>1. T \subseteq Nat
      OBVIOUS
    <3> HIDE DEF T
    <3>2. QED
      BY <3>1, LeastNat
  <2>a. \A i \in 0..Len(packet) : SetsOK(after[i], snt)
    BY AfterOK
  <2> HIDE DEF after
  <2>2. k # 0
    <3>1. First(packet, 0) = {}
      BY DEF First
    <3>2. Others(n, {}) = {} /\ Passed(n, from, s.dup, {}) = {}
      BY DEF Others, Passed
    <3>3. Good(0)
      BY <1>2, <3>1, <3>2
    <3>4. QED
      BY <3>3
  <2>3. k \in 1..Len(packet) /\ k - 1 \in Nat /\ k - 1 <= Len(packet) /\ ~ (k <= k - 1)
        /\ k - 1 \in 0..Len(packet)
    BY <1>1, <2>2
  <2>4. Good(k - 1)
    BY <2>1, <2>3
  <2> DEFINE r == after[k - 1]
             m == packet[k]
             cs == First(packet, k - 1)
             x == TakeIn(n, from, r, m)
  <2>5. Genuine(m, snt) /\ SetsOK(r, snt) /\ after[k] = x
    BY <1>2, <2>3, <2>a DEF BufferOK
  <2>6. First(packet, k) = cs \cup {m}
    <3>1. \A i \in 1..k : i \in 1..(k - 1) \/ i = k
      BY <2>3
    <3>2. \A i \in 1..(k - 1) : i \in 1..k
      BY <2>3
    <3>3. QED
      BY <2>3, <3>1, <3>2 DEF First
  <2>7. \A c \in cs : Id(c) # Id(m)
    <3> SUFFICES ASSUME NEW i \in 1..(k - 1), Id(packet[i]) = Id(m) PROVE FALSE
      BY DEF First
    <3>1. i \in 1..Len(packet) /\ i # k
      BY <1>1, <2>3
    <3>2. QED
      BY <2>3, <3>1 DEF Distinct
  <2>8. /\ r.dup = s.dup \cup Others(n, cs)
        /\ Elems(r.msgs) = Elems(s.msgs) \cup Passed(n, from, s.dup, cs)
        /\ Distinct(r.msgs) /\ \A y \in IdsIn(r.msgs) : y[1] = n \/ y \in r.dup
    BY <2>4
  <2>9. Id(m) \in r.dup <=> Id(m) \in s.dup
    <3>1. Id(m) \notin Others(n, cs)
      BY <2>7 DEF Others
    <3>2. QED
      BY <2>8, <3>1
  <2> HIDE DEF r, m, cs
  <2>10. /\ x.dup = r.dup \cup (IF m.orig # n THEN {Id(m)} ELSE {})
         /\ Elems(x.msgs) = Elems(r.msgs) \cup
                (IF m.orig # n /\ Id(m) \notin r.dup /\ m.ttl > 1 /\ from \in mprsel[n]
                 THEN {Hop(m)} ELSE {})
         /\ Distinct(x.msgs) /\ \A y \in IdsIn(x.msgs) : y[1] = n \/ y \in x.dup
    BY <2>5, <2>8, TakeInAdds
  <2> HIDE DEF x
  <2>11. Others(n, cs \cup {m}) = Others(n, cs) \cup (IF m.orig # n THEN {Id(m)} ELSE {})
    BY DEF Others
  <2>12. Passed(n, from, s.dup, cs \cup {m}) = Passed(n, from, s.dup, cs) \cup
             (IF m.orig # n /\ Id(m) \notin s.dup /\ m.ttl > 1 /\ from \in mprsel[n]
              THEN {Hop(m)} ELSE {})
    BY DEF Passed
  <2>13. after[k].dup = s.dup \cup Others(n, First(packet, k))
    BY <2>5, <2>6, <2>8, <2>10, <2>11
  <2>14. Elems(after[k].msgs) = Elems(s.msgs) \cup Passed(n, from, s.dup, First(packet, k))
    BY <2>5, <2>6, <2>8, <2>9, <2>10, <2>12
  <2>15. Good(k)
    BY <2>5, <2>10, <2>13, <2>14
  <2>16. QED
    BY <2>15
<1>4. Good(Len(packet))
  <2> HIDE DEF Good
  <2> QED
    BY <1>1, <1>3
<1>5. First(packet, Len(packet)) = Elems(packet)
  BY DEF First, Elems
<1> HIDE DEF after
<1>6. QED
  BY <1>2, <1>4, <1>5

-----------------------------------------------------------------------------
(* The flooding of messages with full TTL implements Flooding *)

SmallNetwork == Cardinality(Node) <= 255

Has(x, n) == x[1] = n \/ x \in dup[n]
HoldersOf(x) == {n \in Node : Has(x, n)}

\* Buffers hold no message twice, only what the node holds, and with a TTL that has lost
\* no more than the number of nodes that hold the message.
HInv ==
    \A n \in Node :
        /\ Distinct(msgs[n])
        /\ \A x \in IdsIn(msgs[n]) : Has(x, n)
        /\ \A c \in Elems(msgs[n]) :
              Id(c) \in Full => c.ttl + Cardinality(HoldersOf(Id(c))) >= 256

LEMMA HoldersFinite ==
    ASSUME NEW x
    PROVE  IsFiniteSet(HoldersOf(x)) /\ Cardinality(HoldersOf(x)) \in Nat
<1>1. HoldersOf(x) \subseteq Node
  BY DEF HoldersOf
<1>2. QED
  BY <1>1, FS_Subset, FS_CardinalityType, ConstantsAssumption

LEMMA FullIds == Full = {Id(m) : m \in {k \in sent : k.ttl = 255}}
BY DEF Full, Id

LEMMA FullWere ==
    ASSUME FInv
    PROVE  /\ Full \subseteq Ids(sent)
           /\ \A x \in Ids(sent) : x[1] \in Node /\ x = <<x[1], x[2]>>
<1>1. \A m \in sent : m.orig \in Node
  BY DEF FInv, SentOK, Genuine, Tc
<1>2. QED
  BY <1>1, FullIds DEF Ids, Id

LEMMA BufferElems ==
    ASSUME NEW q, NEW snt, BufferOK(q, snt)
    PROVE  \A c \in Elems(q) : /\ Genuine(c, snt) /\ c \in Tc /\ Id(c) \in Ids(snt)
                               /\ Id(c)[1] = c.orig /\ c.ttl \in 1..255
<1> TAKE c \in Elems(q)
<1>1. Genuine(c, snt)
  BY DEF Elems, BufferOK
<1>2. QED
  BY <1>1 DEF Genuine, Tc, Copy, Ids, Id

\* Sending cuts a buffer in two.
LEMMA PacketElems ==
    ASSUME FInv, HInv, NEW n \in Node, msgs[n] # <<>>
    PROVE  /\ Distinct(PacketOf(n)) /\ Distinct(RestOf(n))
           /\ Elems(msgs[n]) = Elems(PacketOf(n)) \cup Elems(RestOf(n))
           /\ IdsIn(RestOf(n)) = IdsIn(msgs[n]) \ IdsIn(PacketOf(n))
<1> DEFINE q == msgs[n]
           p == PacketOf(n)
           r == RestOf(n)
           k == Len(p)
<1>1. /\ Len(q) \in Nat /\ k \in 1..Len(q) /\ Len(r) = Len(q) - k
      /\ \A i \in 1..k : p[i] = q[i]
      /\ \A i \in 1..Len(r) : r[i] = q[i + k]
  BY PacketFacts
<1>2. Distinct(q)
  BY DEF HInv
<1> HIDE DEF p, q, r, k
<1> USE DEF k
<1>3. \A i \in 1..k : i \in 1..Len(q)
  BY <1>1
<1>4. \A i \in 1..Len(r) : i + k \in 1..Len(q) /\ i \in Nat
  BY <1>1
<1>5. Distinct(p)
  BY <1>1, <1>2, <1>3 DEF Distinct
<1>6. Distinct(r)
  <2> SUFFICES ASSUME NEW i \in 1..Len(r), NEW j \in 1..Len(r), Id(r[i]) = Id(r[j])
               PROVE  i = j
    BY DEF Distinct
  <2>1. i + k = j + k
    BY <1>1, <1>2, <1>4 DEF Distinct
  <2>2. QED
    BY <1>1, <1>4, <2>1
<1>7. \A i \in 1..Len(q) : i \in 1..k \/ (i - k \in 1..Len(r) /\ (i - k) + k = i)
  BY <1>1
<1>8. \A i \in 1..Len(q) : q[i] \in Elems(p) \/ q[i] \in Elems(r)
  <2> TAKE i \in 1..Len(q)
  <2>1. CASE i \in 1..k
    BY <1>1, <2>1 DEF Elems
  <2>2. CASE i - k \in 1..Len(r) /\ (i - k) + k = i
    <3>1. r[i - k] = q[i]
      BY <1>1, <2>2
    <3>2. QED
      BY <2>2, <3>1 DEF Elems
  <2>3. QED
    BY <1>7, <2>1, <2>2
<1>9. Elems(q) = Elems(p) \cup Elems(r)
  <2>1. Elems(p) \subseteq Elems(q)
    BY <1>1, <1>3 DEF Elems
  <2>2. Elems(r) \subseteq Elems(q)
    BY <1>1, <1>4 DEF Elems
  <2>3. Elems(q) \subseteq Elems(p) \cup Elems(r)
    BY <1>8 DEF Elems
  <2>4. QED
    BY <2>1, <2>2, <2>3
<1>10. \A i \in 1..k : \A j \in 1..Len(r) : Id(p[i]) # Id(r[j])
  <2> SUFFICES ASSUME NEW i \in 1..k, NEW j \in 1..Len(r), Id(p[i]) = Id(r[j])
               PROVE  FALSE
    OBVIOUS
  <2>1. i = j + k
    BY <1>1, <1>2, <1>3, <1>4 DEF Distinct
  <2>2. QED
    BY <1>1, <1>4, <2>1
<1>11. IdsIn(r) = IdsIn(q) \ IdsIn(p)
  <2>1. \A x : x \in IdsIn(q) <=> x \in IdsIn(p) \/ x \in IdsIn(r)
    BY <1>9, IdsOfElems
  <2>2. \A x \in IdsIn(p) : x \notin IdsIn(r)
    BY <1>10 DEF IdsIn
  <2>3. QED
    BY <2>1, <2>2
<1>12. QED
  BY <1>5, <1>6, <1>9, <1>11 DEF p, q, r

\* What a neighbour of the sender has after the packet.
LEMMA HeardAdds ==
    ASSUME FInv, HInv, NEW n \in Node, msgs[n] # <<>>, NEW m \in Node
    PROVE  LET x == SetsAfter(m, n)
               cs == Elems(PacketOf(n))
           IN  /\ x.dup = dup[m] \cup Others(m, cs)
               /\ Elems(x.msgs) = Elems(msgs[m]) \cup Passed(m, n, dup[m], cs)
               /\ Distinct(x.msgs) /\ \A y \in IdsIn(x.msgs) : y[1] = m \/ y \in x.dup
<1> DEFINE s == Sets(m)
<1>1. s.dup = dup[m] /\ s.msgs = msgs[m] /\ s.topology = topology[m]
  BY DEF Sets
<1>2. SetsOK(s, sent)
  BY <1>1 DEF SetsOK, FInv, NodesOK
<1>3. Distinct(s.msgs) /\ \A x \in IdsIn(s.msgs) : x[1] = m \/ x \in s.dup
  BY <1>1 DEF HInv, Has
<1>4. BufferOK(PacketOf(n), sent) /\ Distinct(PacketOf(n))
  BY PacketFacts, PacketElems
<1> HIDE DEF s
<1> DEFINE x == Taken(m, n, s, PacketOf(n))
           cs == Elems(PacketOf(n))
<1>5. /\ x.dup = s.dup \cup Others(m, cs)
      /\ Elems(x.msgs) = Elems(s.msgs) \cup Passed(m, n, s.dup, cs)
      /\ Distinct(x.msgs) /\ \A y \in IdsIn(x.msgs) : y[1] = m \/ y \in x.dup
  BY <1>2, <1>3, <1>4, PacketAdds
<1>6. x = SetsAfter(m, n)
  BY DEF SetsAfter, s
<1> HIDE DEF x, cs
<1>7. QED
  BY <1>1, <1>5, <1>6 DEF cs

LEMMA HopOf ==
    ASSUME NEW c \in Tc
    PROVE  Hop(c).ttl = c.ttl - 1 /\ Id(Hop(c)) = Id(c)
BY DEF Hop, Tc, Id

LEMMA SendPktHolds ==
    ASSUME FInv, HInv, NEW n \in Node, NEW heard \in SUBSET Nbs[n], send_pkt(n, heard)
    PROVE  HInv'
<1> DEFINE cs == Elems(PacketOf(n))
<1>1. /\ msgs[n] # <<>>
      /\ msgs' = [m \in Node |-> IF m = n THEN RestOf(n)
                                 ELSE IF m \in heard THEN SetsAfter(m, n).msgs ELSE msgs[m]]
      /\ dup' = [m \in Node |-> IF m \in heard THEN SetsAfter(m, n).dup ELSE dup[m]]
      /\ UNCHANGED sent
  BY SendPktSteps
<1>2. n \notin heard /\ heard \subseteq Node
  BY NbsFacts
<1>3. ASSUME NEW m \in Node
      PROVE  /\ SetsAfter(m, n).dup = dup[m] \cup Others(m, cs)
             /\ Elems(SetsAfter(m, n).msgs) = Elems(msgs[m]) \cup Passed(m, n, dup[m], cs)
             /\ Distinct(SetsAfter(m, n).msgs)
             /\ \A y \in IdsIn(SetsAfter(m, n).msgs) : y[1] = m \/ y \in SetsAfter(m, n).dup
  BY <1>1, HeardAdds
<1>4. /\ Distinct(RestOf(n)) /\ Elems(msgs[n]) = cs \cup Elems(RestOf(n))
      /\ IdsIn(RestOf(n)) \subseteq IdsIn(msgs[n])
  BY <1>1, PacketElems
<1> HIDE DEF cs
<1>5. \A m \in Node : dup[m] \subseteq dup'[m]
  BY <1>1, <1>3
<1>6. ASSUME NEW x
      PROVE  /\ HoldersOf(x) \subseteq HoldersOf(x)'
             /\ IsFiniteSet(HoldersOf(x)') /\ Cardinality(HoldersOf(x)') \in Nat
             /\ Cardinality(HoldersOf(x)) <= Cardinality(HoldersOf(x)')
  <2>1. HoldersOf(x) \subseteq HoldersOf(x)' /\ HoldersOf(x)' \subseteq Node
    BY <1>5 DEF HoldersOf, Has
  <2>2. QED
    BY <2>1, FS_Subset, FS_CardinalityType, ConstantsAssumption
<1>7. ASSUME NEW l \in Node, NEW c \in Elems(msgs[l]), Id(c) \in Full'
      PROVE  c.ttl + Cardinality(HoldersOf(Id(c))') >= 256
  <2>1. Id(c) \in Full
    BY <1>1, <1>7 DEF Full
  <2>2. c.ttl + Cardinality(HoldersOf(Id(c))) >= 256
    BY <2>1 DEF HInv
  <2>3. c.ttl \in Nat /\ Cardinality(HoldersOf(Id(c))) \in Nat
    BY BufferElems, HoldersFinite DEF FInv, NodesOK
  <2> DEFINE a == Cardinality(HoldersOf(Id(c)))
             b == Cardinality(HoldersOf(Id(c))')
  <2>4. a \in Nat /\ b \in Nat /\ a <= b
    BY <1>6, <2>3
  <2> HIDE DEF a, b
  <2>5. c.ttl + a >= 256
    BY <2>2 DEF a
  <2>6. c.ttl + b >= 256
    BY <2>3, <2>4, <2>5
  <2>7. QED
    BY <2>6 DEF b
<1>8. ASSUME NEW m \in Node
      PROVE  /\ Distinct(msgs'[m])
             /\ \A x \in IdsIn(msgs'[m]) : Has(x, m)'
             /\ \A c \in Elems(msgs'[m]) :
                   Id(c) \in Full' => c.ttl + Cardinality(HoldersOf(Id(c))') >= 256
  <2>1. CASE m = n
    <3>1. msgs'[m] = RestOf(n) /\ Elems(RestOf(n)) \subseteq Elems(msgs[n])
      BY <1>1, <1>4, <2>1
    <3>2. \A x \in IdsIn(RestOf(n)) : Has(x, n)'
      BY <1>4, <1>5 DEF HInv, Has
    <3>3. QED
      BY <1>4, <1>7, <2>1, <3>1, <3>2
  <2>2. CASE m \in heard
    <3>1. msgs'[m] = SetsAfter(m, n).msgs /\ dup'[m] = SetsAfter(m, n).dup
      BY <1>1, <1>2, <2>2
    <3>2. \A x \in IdsIn(msgs'[m]) : Has(x, m)'
      BY <1>3, <3>1 DEF Has
    <3>3. ASSUME NEW c \in Elems(msgs'[m]), Id(c) \in Full'
          PROVE  c.ttl + Cardinality(HoldersOf(Id(c))') >= 256
      <4>1. CASE c \in Elems(msgs[m])
        BY <1>7, <3>3, <4>1
      <4>2. CASE c \in Passed(m, n, dup[m], cs)
        <5>1. PICK b \in cs : b.orig # m /\ Id(b) \notin dup[m] /\ c = Hop(b)
          BY <4>2 DEF Passed
        <5>2. b \in Elems(msgs[n]) /\ b \in Tc /\ b.ttl \in Nat /\ Id(b)[1] = b.orig
          <6>1. b \in Elems(msgs[n])
            BY <1>4
          <6>2. BufferOK(msgs[n], sent)
            BY DEF FInv, NodesOK
          <6>3. QED
            BY <6>1, <6>2, BufferElems
        <5>3. c.ttl = b.ttl - 1 /\ Id(c) = Id(b)
          BY <5>1, <5>2, HopOf
        <5>4. b.ttl + Cardinality(HoldersOf(Id(b))) >= 256
          BY <1>1, <3>3, <5>2, <5>3 DEF HInv, Full
        <5> DEFINE x == Id(b)
                   a == Cardinality(HoldersOf(x))
                   z == Cardinality(HoldersOf(x)')
        <5>5. m \notin HoldersOf(x) /\ m \in HoldersOf(x)'
          <6>1. ~ Has(x, m)
            BY <5>1, <5>2 DEF Has
          <6>2. x \in Others(m, cs)
            BY <5>1 DEF Others
          <6>3. Has(x, m)'
            BY <1>3, <3>1, <6>2 DEF Has
          <6>4. QED
            BY <6>1, <6>3 DEF HoldersOf
        <5>6. a \in Nat /\ z \in Nat /\ a + 1 <= z
          <6>1. IsFiniteSet(HoldersOf(x)) /\ a \in Nat
            BY HoldersFinite
          <6>2. Cardinality(HoldersOf(x) \cup {m}) = a + 1
            BY <5>5, <6>1, FS_AddElement
          <6>3. (HoldersOf(x) \cup {m}) \subseteq HoldersOf(x)' /\ IsFiniteSet(HoldersOf(x)')
                /\ z \in Nat
            BY <1>6, <5>5
          <6> HIDE DEF x, a
          <6>4. Cardinality(HoldersOf(x) \cup {m}) <= z
            BY <6>3, FS_Subset
          <6>5. QED
            BY <6>1, <6>2, <6>3, <6>4
        <5>7. b.ttl + a >= 256
          BY <5>4
        <5> HIDE DEF x, a, z
        <5>8. (b.ttl - 1) + z >= 256
          BY <5>2, <5>6, <5>7
        <5>9. QED
          BY <5>3, <5>8 DEF x, z
      <4>3. QED
        BY <1>3, <3>1, <4>1, <4>2
    <3>4. QED
      BY <1>3, <3>1, <3>2, <3>3
  <2>3. CASE m # n /\ m \notin heard
    <3>1. msgs'[m] = msgs[m]
      BY <1>1, <2>3
    <3>2. \A x \in IdsIn(msgs[m]) : Has(x, m)'
      BY <1>5 DEF HInv, Has
    <3>3. QED
      BY <1>7, <3>1, <3>2 DEF HInv
  <2>4. QED
    BY <2>1, <2>2, <2>3
<1>9. QED
  BY <1>8 DEF HInv

LEMMA FullAfter ==
    ASSUME FewTcs, FInv, UInv, NEW n \in Node, send_tc(n)
    PROVE  /\ Full' = IF TcOf(n).ttl = 255 THEN Full \cup {Id(TcOf(n))} ELSE Full
           /\ Id(TcOf(n)) \notin Full /\ Id(TcOf(n)) \notin Ids(sent)
<1>1. sent' = sent \cup {TcOf(n)}
  BY SendTcSteps
<1>2. Id(TcOf(n)) \notin Ids(sent)
  BY TcIsNew
<1>3. Full' = {Id(m) : m \in {k \in sent' : k.ttl = 255}}
  BY DEF Full, Id
<1>4. QED
  BY <1>1, <1>2, <1>3, FullIds, FullWere

LEMMA AppendElems ==
    ASSUME NEW snt, NEW q, BufferOK(q, snt), NEW m, Genuine(m, snt)
    PROVE  /\ Elems(Append(q, m)) = Elems(q) \cup {m}
           /\ Distinct(q) /\ Id(m) \notin IdsIn(q) => Distinct(Append(q, m))
<1>1. q \in Seq(Tc) /\ m \in Tc
  BY DEF BufferOK, Genuine
<1>2. Append(q, m) = q \o <<m>>
  BY <1>1, AppendIsConcat
<1>3. QED
  BY <1>2, JoinOne

LEMMA SendTcHolds ==
    ASSUME FewTcs, FInv, UInv, HInv, NEW n \in Node, send_tc(n)
    PROVE  HInv'
<1>0. PICK msg : msg = TcOf(n)
  OBVIOUS
<1>1. /\ mprsel[n] # {}
      /\ msgs' = [msgs EXCEPT ![n] = Append(@, msg)]
      /\ sent' = sent \cup {msg}
      /\ UNCHANGED dup
  BY <1>0, SendTcSteps
<1>2. msg.orig = n /\ Genuine(msg, sent')
  BY <1>0, <1>1, TcOfOK
<1>3. /\ Full' = IF msg.ttl = 255 THEN Full \cup {Id(msg)} ELSE Full
      /\ Id(msg) \notin Full /\ Id(msg) \notin Ids(sent)
  BY <1>0, FullAfter
<1>4. \A x, m : (Has(x, m)' <=> Has(x, m)) /\ HoldersOf(x)' = HoldersOf(x)
  BY <1>1 DEF Has, HoldersOf
<1>5. ASSUME NEW m \in Node
      PROVE  \A c \in Elems(msgs[m]) :
                Id(c) \in Full' => c.ttl + Cardinality(HoldersOf(Id(c))') >= 256
  <2>1. \A c \in Elems(msgs[m]) : Id(c) \in Ids(sent)
    BY BufferElems DEF FInv, NodesOK
  <2>2. QED
    BY <1>3, <1>4, <2>1 DEF HInv
<1>6. Id(msg)[1] = n /\ msg.ttl \in Nat
  BY <1>2 DEF Id, Genuine, Tc
<1>7. Has(Id(msg), n)
  BY <1>6 DEF Has
<1>8. Id(msg) \in Full' => msg.ttl + Cardinality(HoldersOf(Id(msg))') >= 256
  <2>1. Id(msg) \in Full' => msg.ttl = 255
    BY <1>3
  <2>2. n \in HoldersOf(Id(msg))
    BY <1>7 DEF HoldersOf
  <2>3. Cardinality(HoldersOf(Id(msg))) \in Nat /\ Cardinality(HoldersOf(Id(msg))) # 0
    BY <2>2, HoldersFinite, FS_EmptySet
  <2>4. QED
    BY <1>4, <2>1, <2>3
<1>9. ASSUME NEW m \in Node
      PROVE  /\ Distinct(msgs'[m])
             /\ \A x \in IdsIn(msgs'[m]) : Has(x, m)'
             /\ \A c \in Elems(msgs'[m]) :
                   Id(c) \in Full' => c.ttl + Cardinality(HoldersOf(Id(c))') >= 256
  <2>1. CASE m = n
    <3>1. msgs'[n] = Append(msgs[n], msg) /\ BufferOK(msgs[n], sent')
      BY <1>1, GenuineStays DEF FInv, NodesOK
    <3>2. Id(msg) \notin IdsIn(msgs[n])
      <4>1. \A c \in Elems(msgs[n]) : Id(c) \in Ids(sent)
        BY BufferElems DEF FInv, NodesOK
      <4>2. QED
        BY <1>3, <4>1, IdsOfElems
    <3>3. Elems(msgs'[n]) = Elems(msgs[n]) \cup {msg} /\ Distinct(msgs'[n])
      BY <1>2, <3>1, <3>2, AppendElems DEF HInv
    <3>4. \A x \in IdsIn(msgs'[n]) : Has(x, n)'
      <4> TAKE x \in IdsIn(msgs'[n])
      <4>1. PICK c \in Elems(msgs'[n]) : x = Id(c)
        BY IdsOfElems
      <4>2. CASE c = msg
        BY <1>4, <1>7, <4>1, <4>2
      <4>3. CASE c \in Elems(msgs[n])
        BY <1>4, <4>1, <4>3, IdsOfElems DEF HInv
      <4>4. QED
        BY <3>3, <4>2, <4>3
    <3>5. QED
      BY <1>5, <1>8, <2>1, <3>3, <3>4
  <2>2. CASE m # n
    <3>1. msgs'[m] = msgs[m]
      BY <1>1, <2>2 DEF FInv, NodesOK
    <3>2. QED
      BY <1>4, <1>5, <3>1 DEF HInv
  <2>3. QED
    BY <2>1, <2>2
<1>10. QED
  BY <1>9 DEF HInv

LEMMA HoldsNext ==
    ASSUME FewTcs, FInv, UInv, HInv, [FloodNext]_floodVars
    PROVE  HInv'
<1>1. ASSUME UNCHANGED <<msgs, dup, sent>>
      PROVE  HInv'
  <2>1. Full' = Full /\ \A x, n : (Has(x, n)' <=> Has(x, n)) /\ HoldersOf(x)' = HoldersOf(x)
    BY <1>1 DEF Full, Has, HoldersOf
  <2>2. QED
    BY <1>1, <2>1 DEF HInv
<1>2. ASSUME NEW m \in Node, NEW R \in RelaySets[m], Hello(m, R)
      PROVE  HInv'
  BY <1>1, <1>2 DEF Hello
<1>3. ASSUME NEW n \in Node, NEW m \in mprsel[n], SelectorExpires(n, m)
      PROVE  HInv'
  BY <1>1, <1>3 DEF SelectorExpires
<1>4. ASSUME NEW n \in Node, send_tc(n)
      PROVE  HInv'
  BY <1>4, SendTcHolds
<1>5. ASSUME NEW n \in Node, NEW heard \in SUBSET Nbs[n], send_pkt(n, heard)
      PROVE  HInv'
  BY <1>5, SendPktHolds
<1>6. ASSUME NEW n \in Node, NEW t \in topology[n], TopologyExpires(n, t)
      PROVE  HInv'
  BY <1>1, <1>6 DEF TopologyExpires
<1>7. CASE UNCHANGED floodVars
  BY <1>1, <1>7 DEF floodVars
<1>8. QED
  BY <1>2, <1>3, <1>4, <1>5, <1>6, <1>7 DEF FloodNext

LEMMA HoldsInit == FloodInit => HInv
<1> SUFFICES ASSUME FloodInit, NEW n \in Node
             PROVE  /\ Distinct(msgs[n]) /\ IdsIn(msgs[n]) = {} /\ Elems(msgs[n]) = {}
  BY DEF HInv
<1>1. msgs[n] = <<>> /\ Len(<<>>) = 0
  BY DEF FloodInit
<1>2. QED
  BY <1>1 DEF Distinct, IdsIn, Elems

\* With fewer than 256 nodes a message never loses its whole TTL before every node has it.
LEMMA TtlLasts ==
    ASSUME SmallNetwork, FInv, HInv, NEW n \in Node, NEW c \in Elems(msgs[n]), Id(c) \in Full,
           NEW m \in Node, ~ Has(Id(c), m)
    PROVE  c.ttl > 1
<1> DEFINE H == HoldersOf(Id(c))
<1>1. IsFiniteSet(H) /\ Cardinality(H) \in Nat
  BY HoldersFinite
<1>2. m \notin H /\ H \cup {m} \subseteq Node
  BY DEF HoldersOf
<1>3. Cardinality(H \cup {m}) = Cardinality(H) + 1
  BY <1>1, <1>2, FS_AddElement
<1>4. Cardinality(H \cup {m}) <= Cardinality(Node)
  BY <1>2, FS_Subset, ConstantsAssumption
<1>5. c.ttl + Cardinality(H) >= 256
  BY DEF HInv
<1>6. c.ttl \in Nat
  BY BufferElems DEF FInv, NodesOK
<1>7. Cardinality(Node) <= 255 /\ Cardinality(Node) \in Nat
  BY NodesCounted DEF SmallNetwork
<1> HIDE DEF H
<1>8. QED
  BY <1>1, <1>3, <1>4, <1>5, <1>6, <1>7

LEMMA SendersAre ==
    ASSUME NEW q, NEW snt, BufferOK(q, snt)
    PROVE  \A x : (\E i \in DOMAIN q : LET m == q[i] IN x = <<m.orig, m.seq>>) <=> x \in IdsIn(q)
<1>1. DOMAIN q = 1..Len(q)
  BY LenProperties DEF BufferOK
<1>2. QED
  BY <1>1 DEF IdsIn, Id

\* Who has and who will send a message, as Flooding sees it.
LEMMA AsPairs ==
    ASSUME NodesOK
    PROVE  /\ Senders = {p \in Full \X Node : p[1] \in IdsIn(msgs[p[2]])}
           /\ Holders = {p \in Full \X Node : Has(p[1], p[2])}
<1>1. \A n \in Node : BufferOK(msgs[n], sent)
  BY DEF NodesOK
<1>2. Senders = {p \in Full \X Node : p[1] \in IdsIn(msgs[p[2]])}
  <2>1. \A p \in Full \X Node :
            (\E i \in DOMAIN msgs[p[2]] : LET m == msgs[p[2]][i] IN p[1] = <<m.orig, m.seq>>)
                <=> p[1] \in IdsIn(msgs[p[2]])
    BY <1>1, SendersAre
  <2>2. QED
    BY <2>1 DEF Senders
<1>3. QED
  BY <1>2 DEF Holders, Has

LEMMA AsPairsNext ==
    ASSUME NodesOK'
    PROVE  /\ Senders' = {p \in Full' \X Node : p[1] \in IdsIn(msgs'[p[2]])}
           /\ Holders' = {p \in Full' \X Node : Has(p[1], p[2])'}
<1>1. \A n \in Node : BufferOK(msgs'[n], sent')
  BY DEF NodesOK
<1>2. Senders' = {p \in Full' \X Node : p[1] \in IdsIn(msgs'[p[2]])}
  <2>1. \A p \in Full' \X Node :
            (\E i \in DOMAIN msgs'[p[2]] : LET m == msgs'[p[2]][i] IN p[1] = <<m.orig, m.seq>>)
                <=> p[1] \in IdsIn(msgs'[p[2]])
    BY <1>1, SendersAre
  <2>2. QED
    BY <2>1 DEF Senders
<1>3. QED
  BY <1>2 DEF Holders, Has

\* A packet is a Transmit of the messages with full TTL in it.
LEMMA SendPktTransmits ==
    ASSUME SmallNetwork, FInv, FInv', HInv, NEW n \in Node, NEW heard \in SUBSET Nbs[n],
           send_pkt(n, heard)
    PROVE  \E packet \in SUBSET F!Waiting(n) : F!Transmit(n, packet, heard)
<1> DEFINE cs == Elems(PacketOf(n))
           Pk == IdsIn(PacketOf(n)) \cap Full
<1>1. /\ msgs[n] # <<>>
      /\ missed' = missed \cup (IF heard = Nbs[n] THEN {}
                                ELSE {<<m.orig, m.seq>> : m \in ToSet(PacketOf(n))})
      /\ msgs' = [m \in Node |-> IF m = n THEN RestOf(n)
                                 ELSE IF m \in heard THEN SetsAfter(m, n).msgs ELSE msgs[m]]
      /\ dup' = [m \in Node |-> IF m \in heard THEN SetsAfter(m, n).dup ELSE dup[m]]
      /\ UNCHANGED <<mprset, mprsel, sent>>
  BY SendPktSteps
<1>2. n \notin heard /\ heard \subseteq Node
  BY NbsFacts
<1>3. Full' = Full
  BY <1>1 DEF Full
<1>4. ASSUME NEW m \in Node
      PROVE  /\ SetsAfter(m, n).dup = dup[m] \cup Others(m, cs)
             /\ Elems(SetsAfter(m, n).msgs) = Elems(msgs[m]) \cup Passed(m, n, dup[m], cs)
  BY <1>1, HeardAdds
<1>5. /\ IdsIn(RestOf(n)) = IdsIn(msgs[n]) \ IdsIn(PacketOf(n))
      /\ cs \subseteq Elems(msgs[n])
      /\ IdsIn(PacketOf(n)) \subseteq IdsIn(msgs[n])
  BY <1>1, PacketElems, IdsOfElems
<1>6. \A c \in cs : c \in Tc /\ Id(c)[1] = c.orig /\ c \in Elems(msgs[n])
  BY <1>5, BufferElems DEF FInv, NodesOK
<1>7. \A x : x \in IdsIn(PacketOf(n)) <=> \E c \in cs : x = Id(c)
  BY IdsOfElems
<1> HIDE DEF cs
<1>8. ASSUME NEW x \in Full, NEW l \in Node
      PROVE  x \in IdsIn(msgs'[l]) <=>
                \/ x \in IdsIn(msgs[l]) /\ ~ (x \in Pk /\ l = n)
                \/ x \in Pk /\ l \in heard /\ ~ Has(x, l) /\ n \in mprsel[l]
  <2>1. CASE l = n
    BY <1>1, <1>2, <1>5, <2>1
  <2>2. CASE l \in heard
    <3>1. msgs'[l] = SetsAfter(l, n).msgs /\ l # n
      BY <1>1, <1>2, <2>2
    <3>2. Elems(msgs'[l]) = Elems(msgs[l]) \cup Passed(l, n, dup[l], cs)
      BY <1>4, <3>1
    <3>3. ASSUME x \in Pk, ~ Has(x, l), n \in mprsel[l]
          PROVE  x \in IdsIn(msgs'[l])
      <4>1. PICK b \in cs : x = Id(b)
        BY <1>7, <3>3
      <4>2. b.orig # l /\ Id(b) \notin dup[l]
        BY <1>6, <3>3, <4>1 DEF Has
      <4>3. b.ttl > 1
        BY <1>6, <3>3, <4>1, TtlLasts
      <4>4. Hop(b) \in Passed(l, n, dup[l], cs)
        BY <3>3, <4>2, <4>3 DEF Passed
      <4>5. Id(Hop(b)) = x
        BY <1>6, <4>1, HopOf
      <4>6. QED
        BY <3>2, <4>4, <4>5, IdsOfElems
    <3>4. ASSUME x \in IdsIn(msgs[l])
          PROVE  x \in IdsIn(msgs'[l])
      BY <3>2, <3>4, IdsOfElems
    <3>5. ASSUME x \in IdsIn(msgs'[l])
          PROVE  x \in IdsIn(msgs[l]) \/ (x \in Pk /\ ~ Has(x, l) /\ n \in mprsel[l])
      <4>1. PICK c \in Elems(msgs'[l]) : x = Id(c)
        BY <3>5, IdsOfElems
      <4>2. CASE c \in Elems(msgs[l])
        BY <4>1, <4>2, IdsOfElems
      <4>3. CASE c \in Passed(l, n, dup[l], cs)
        <5>1. PICK b \in cs : /\ c = Hop(b) /\ b.orig # l /\ Id(b) \notin dup[l]
                              /\ n \in mprsel[l]
          BY <4>3 DEF Passed
        <5>2. Id(b) = x
          BY <1>6, <4>1, <5>1, HopOf
        <5>3. QED
          BY <1>6, <1>7, <5>1, <5>2 DEF Has
      <4>4. QED
        BY <3>2, <4>2, <4>3
    <3>6. QED
      BY <2>2, <3>1, <3>3, <3>4, <3>5
  <2>3. CASE l # n /\ l \notin heard
    BY <1>1, <2>3
  <2>4. QED
    BY <2>1, <2>2, <2>3
<1>9. ASSUME NEW x \in Full, NEW l \in Node
      PROVE  Has(x, l)' <=> Has(x, l) \/ (x \in Pk /\ l \in heard)
  <2>1. CASE l \in heard
    <3>1. dup'[l] = dup[l] \cup Others(l, cs)
      BY <1>1, <1>4, <2>1
    <3>2. x \in Others(l, cs) => x \in Pk
      BY <1>7 DEF Others
    <3>3. x \in Pk => x \in Others(l, cs) \/ x[1] = l
      BY <1>6, <1>7 DEF Others
    <3>4. QED
      BY <2>1, <3>1, <3>2, <3>3 DEF Has
  <2>2. CASE l \notin heard
    BY <1>1, <2>2 DEF Has
  <2>3. QED
    BY <2>1, <2>2
<1> HIDE DEF Pk
<1>10. /\ Senders = {p \in Full \X Node : p[1] \in IdsIn(msgs[p[2]])}
       /\ Holders = {p \in Full \X Node : Has(p[1], p[2])}
       /\ Senders' = {p \in Full \X Node : p[1] \in IdsIn(msgs'[p[2]])}
       /\ Holders' = {p \in Full \X Node : Has(p[1], p[2])'}
  BY <1>3, AsPairs, AsPairsNext DEF FInv
<1>11. Pk \subseteq Full
  BY DEF Pk
<1>12. \A p \in Full \X Node : p[1] \in Full /\ p[2] \in Node /\ p = <<p[1], p[2]>>
  OBVIOUS
<1>13. Senders' = (Senders \ (Pk \X {n})) \cup {p \in (Pk \X heard) \ Holders : n \in mprsel[p[2]]}
  <2> DEFINE R == (Senders \ (Pk \X {n})) \cup {p \in (Pk \X heard) \ Holders : n \in mprsel[p[2]]}
  <2>1. R \subseteq Full \X Node
    BY <1>2, <1>10, <1>11
  <2>2. ASSUME NEW p \in Full \X Node
        PROVE  p \in Senders' <=> p \in R
    <3>1. p \in Senders' <=> p[1] \in IdsIn(msgs'[p[2]])
      BY <1>10
    <3>2. p \in Senders <=> p[1] \in IdsIn(msgs[p[2]])
      BY <1>10
    <3>3. p \in Holders <=> Has(p[1], p[2])
      BY <1>10
    <3>4. (p \in Pk \X {n} <=> p[1] \in Pk /\ p[2] = n) /\ (p \in Pk \X heard <=> p[1] \in Pk /\ p[2] \in heard)
      BY <1>12
    <3>5. p[1] \in IdsIn(msgs'[p[2]]) <=>
                \/ p[1] \in IdsIn(msgs[p[2]]) /\ ~ (p[1] \in Pk /\ p[2] = n)
                \/ p[1] \in Pk /\ p[2] \in heard /\ ~ Has(p[1], p[2]) /\ n \in mprsel[p[2]]
      BY <1>8, <1>12
    <3>6. QED
      BY <3>1, <3>2, <3>3, <3>4, <3>5
  <2>3. Senders' \subseteq Full \X Node
    BY <1>10
  <2> HIDE DEF R
  <2>4. Senders' = R
    BY <2>1, <2>2, <2>3
  <2>5. QED
    BY <2>4 DEF R
<1>14. Holders' = Holders \cup (Pk \X heard)
  <2>1. ASSUME NEW p \in Full \X Node
        PROVE  p \in Holders' <=> p \in Holders \/ p \in Pk \X heard
    <3>1. (p \in Holders' <=> Has(p[1], p[2])') /\ (p \in Holders <=> Has(p[1], p[2]))
      BY <1>10
    <3>2. p \in Pk \X heard <=> p[1] \in Pk /\ p[2] \in heard
      BY <1>12
    <3>3. QED
      BY <1>9, <1>12, <3>1, <3>2
  <2>2. Holders' \subseteq Full \X Node /\ Holders \subseteq Full \X Node
        /\ Pk \X heard \subseteq Full \X Node
    BY <1>2, <1>10, <1>11
  <2>3. QED
    BY <2>1, <2>2
<1>15. (missed \cap Full)' = IF heard = Nbs[n] THEN missed \cap Full ELSE (missed \cap Full) \cup Pk
  <2>1. {<<m.orig, m.seq>> : m \in ToSet(PacketOf(n))} = IdsIn(PacketOf(n))
    <3>1. BufferOK(PacketOf(n), sent)
      BY <1>1, PacketFacts
    <3>2. DOMAIN PacketOf(n) = 1..Len(PacketOf(n))
      BY <3>1, LenProperties DEF BufferOK
    <3>3. QED
      BY <3>2 DEF ToSet, IdsIn, Id
  <2>2. QED
    BY <1>1, <1>3, <2>1 DEF Pk
<1>16. Pk \in SUBSET F!Waiting(n)
  <2>1. ASSUME NEW x \in Pk
        PROVE  x \in F!Waiting(n)
    <3>1. x \in Full /\ x \in IdsIn(msgs[n])
      BY <1>5 DEF Pk
    <3> DEFINE p == <<x, n>>
    <3>2. p \in Senders /\ p[1] = x /\ p[2] = n
      BY <1>10, <3>1
    <3> HIDE DEF p
    <3>3. QED
      BY <3>2 DEF F!Waiting
  <2>2. QED
    BY <2>1
<1>17. F!Transmit(n, Pk, heard)
  BY <1>1, <1>13, <1>14, <1>15 DEF F!Transmit, Lost
<1>18. QED
  BY <1>16, <1>17

LEMMA SendTcOriginates ==
    ASSUME FewTcs, FInv, FInv', UInv, UInv', NEW n \in Node, send_tc(n)
    PROVE  \/ \E msg \in Messages : F!Originate(n, msg)
           \/ UNCHANGED F!vars
<1>0. PICK m : m = TcOf(n)
  OBVIOUS
<1>1. /\ mprsel[n] # {}
      /\ msgs' = [msgs EXCEPT ![n] = Append(@, m)]
      /\ sent' = sent \cup {m}
      /\ UNCHANGED <<mprset, mprsel, dup, missed>>
  BY <1>0, SendTcSteps
<1>2. m.orig = n /\ Genuine(m, sent')
  BY <1>0, <1>1, TcOfOK
<1>3. /\ Full' = IF m.ttl = 255 THEN Full \cup {Id(m)} ELSE Full
      /\ Id(m) \notin Full /\ Id(m) \notin Ids(sent)
  BY <1>0, FullAfter
<1> DEFINE x == Id(m)
<1>4. x[1] = n
  BY <1>2 DEF Id
<1>5. \A l \in Node : IdsIn(msgs'[l]) = IF l = n THEN IdsIn(msgs[l]) \cup {x} ELSE IdsIn(msgs[l])
  <2> TAKE l \in Node
  <2>1. CASE l = n
    <3>1. msgs'[n] = Append(msgs[n], m) /\ BufferOK(msgs[n], sent')
      BY <1>1, GenuineStays DEF FInv, NodesOK
    <3>2. Elems(msgs'[n]) = Elems(msgs[n]) \cup {m}
      BY <1>2, <3>1, AppendElems
    <3>3. \A y : y \in IdsIn(msgs'[n]) <=> y \in IdsIn(msgs[n]) \/ y = x
      BY <3>2, IdsOfElems
    <3>4. QED
      BY <2>1, <3>3
  <2>2. CASE l # n
    BY <1>1, <2>2 DEF FInv, NodesOK
  <2>3. QED
    BY <2>1, <2>2
<1>6. \A l \in Node : x \notin dup[l] /\ x \notin IdsIn(msgs[l])
  <2> TAKE l \in Node
  <2>1. \A c \in Elems(msgs[l]) : Id(c) \in Ids(sent)
    BY BufferElems DEF FInv, NodesOK
  <2>2. QED
    BY <1>3, <2>1, IdsOfElems DEF FInv, NodesOK
<1>7. x \notin missed
  BY <1>3 DEF FInv, SentOK
<1>8. \A y, l : Has(y, l)' <=> Has(y, l)
  BY <1>1 DEF Has
<1>9. /\ Senders = {p \in Full \X Node : p[1] \in IdsIn(msgs[p[2]])}
      /\ Holders = {p \in Full \X Node : Has(p[1], p[2])}
      /\ Senders' = {p \in Full' \X Node : p[1] \in IdsIn(msgs'[p[2]])}
      /\ Holders' = {p \in Full' \X Node : Has(p[1], p[2])'}
  BY AsPairs, AsPairsNext DEF FInv
<1>10. x \in Messages
  <2>1. m \in sent' /\ x = <<n, m.seq>>
    BY <1>1, <1>2 DEF Id
  <2>2. m \in From(n)'
    BY <1>2, <2>1 DEF From
  <2>3. m.seq <= msg_seq'[n] /\ msg_seq'[n] < Cardinality(sent') /\ Cardinality(sent') <= MaxTcs
    BY <2>2 DEF UInv
  <2>4. m.seq \in Nat /\ msg_seq'[n] \in Nat /\ Cardinality(sent') \in Nat /\ MaxTcs \in Nat
    <3>1. OLSR_MAX_SEQ_NUM \in Nat
      BY DEF OLSR_MAX_SEQ_NUM
    <3>2. m.seq \in SeqNums /\ msg_seq'[n] \in SeqNums
      BY <1>2 DEF Genuine, Tc, FInv, NumbersOK
    <3>3. Cardinality(sent') \in Nat
      BY FS_CardinalityType DEF FInv, SentOK
    <3>4. QED
      BY <3>1, <3>2, <3>3, ConstantsAssumption DEF SeqNums
  <2>5. m.seq \in 0..MaxTcs
    BY <2>3, <2>4
  <2>6. QED
    BY <2>1, <2>5 DEF Messages
<1> HIDE DEF x
<1>11. CASE m.ttl = 255
  <2>1. Full' = Full \cup {x} /\ x \notin Full
    BY <1>3, <1>11 DEF x
  <2>2. Senders' = Senders \cup {<<x, n>>}
    <3>1. ASSUME NEW p \in Full' \X Node
          PROVE  p \in Senders' <=> p \in Senders \/ p = <<x, n>>
      <4>1. p[1] \in Full' /\ p[2] \in Node /\ p = <<p[1], p[2]>>
        OBVIOUS
      <4>2. p \in Senders' <=> p[1] \in IdsIn(msgs'[p[2]])
        BY <1>9
      <4>3. p[1] \in IdsIn(msgs'[p[2]]) <=> p[1] \in IdsIn(msgs[p[2]]) \/ (p[1] = x /\ p[2] = n)
        BY <1>5, <4>1
      <4>4. p \in Senders <=> p[1] \in IdsIn(msgs[p[2]])
        <5>1. CASE p[1] = x
          BY <1>6, <1>9, <4>1, <5>1
        <5>2. CASE p[1] # x
          BY <1>9, <2>1, <4>1, <5>2
        <5>3. QED
          BY <5>1, <5>2
      <4>5. QED
        BY <4>1, <4>2, <4>3, <4>4
    <3>2. Senders' \subseteq Full' \X Node /\ Senders \subseteq Full' \X Node
          /\ <<x, n>> \in Full' \X Node
      BY <1>9, <2>1
    <3>3. QED
      BY <3>1, <3>2
  <2>3. \A l \in Node : Has(x, l) <=> l = n
    BY <1>4, <1>6 DEF Has
  <2>4. Holders' = Holders \cup {<<x, n>>}
    BY <1>8, <1>9, <2>1, <2>3
  <2>5. (missed \cap Full)' = missed \cap Full
    BY <1>1, <1>7, <2>1
  <2>6. \A l \in Node : <<x, l>> \notin Holders
    BY <1>9, <2>1
  <2>7. F!Originate(n, x)
    BY <1>1, <2>2, <2>4, <2>5, <2>6 DEF F!Originate, Lost
  <2>8. QED
    BY <1>10, <2>7
<1>12. CASE m.ttl # 255
  <2>1. Full' = Full /\ x \notin Full
    BY <1>3, <1>12 DEF x
  <2>2. Senders' = Senders
    BY <1>5, <1>9, <2>1
  <2>3. Holders' = Holders
    BY <1>8, <1>9, <2>1
  <2>4. (missed \cap Full)' = missed \cap Full
    BY <1>1, <2>1
  <2>5. QED
    BY <1>1, <2>2, <2>3, <2>4 DEF F!vars, Lost
<1>13. QED
  BY <1>11, <1>12

LEMMA RelaysCoverFlood ==
    ASSUME FInv
    PROVE  F!RelaysFit
<1>1. ASSUME NEW n \in Node, NEW w \in F!TwoHop(n)
      PROVE  mprset[n] \cap Nbs[n] \cap Nbs[w] # {}
  <2>1. PICK m \in Nbs[n] : w \in Nbs[m]
    BY DEF F!TwoHop
  <2>2. w \in Nbs[m] \ (Nbs[n] \cup {n})
    BY <2>1 DEF F!TwoHop
  <2>3. mprset[n] \in RelaySets[n]
    BY DEF FInv, RelaysOK
  <2>4. PICK r \in mprset[n] : w \in Nbs[r]
    BY <2>2, <2>3, RelaySetFacts
  <2>5. r \in Nbs[n] /\ r \in Node
    BY <2>3, <2>4, RelaySetFacts
  <2>6. w \in Node
    BY <2>4, <2>5, NbsFacts
  <2>7. r \in Nbs[w]
    BY <2>4, <2>5, <2>6, NbsFacts
  <2>8. QED
    BY <2>4, <2>5, <2>7
<1>2. \A n \in Node : \A r \in mprset[n] : n \in mprsel[r]
  BY DEF FInv, RelaysOK
<1>3. QED
  BY <1>1, <1>2 DEF F!RelaysFit

LEMMA FloodStep ==
    ASSUME FewTcs, SmallNetwork, FInv, FInv', UInv, UInv', HInv, [FloodNext]_floodVars
    PROVE  [F!Next]_(F!vars)
<1>1. ASSUME UNCHANGED <<msgs, dup, sent, missed>>
      PROVE  F!Next
  <2>1. UNCHANGED <<Holders, Senders, Lost>>
    BY <1>1 DEF Holders, Senders, Full, Lost
  <2>2. QED
    BY <2>1 DEF F!Next, F!Reselect
<1>2. ASSUME NEW m \in Node, NEW R \in RelaySets[m], Hello(m, R)
      PROVE  F!Next
  BY <1>1, <1>2 DEF Hello
<1>3. ASSUME NEW n \in Node, NEW m \in mprsel[n], SelectorExpires(n, m)
      PROVE  F!Next
  BY <1>1, <1>3 DEF SelectorExpires
<1>4. ASSUME NEW n \in Node, send_tc(n)
      PROVE  F!Next \/ UNCHANGED F!vars
  BY <1>4, SendTcOriginates DEF F!Next
<1>5. ASSUME NEW n \in Node, NEW heard \in SUBSET Nbs[n], send_pkt(n, heard)
      PROVE  F!Next
  BY <1>5, SendPktTransmits DEF F!Next
<1>6. ASSUME NEW n \in Node, NEW t \in topology[n], TopologyExpires(n, t)
      PROVE  F!Next
  BY <1>1, <1>6 DEF TopologyExpires
<1>7. CASE UNCHANGED floodVars
  BY <1>1, <1>7 DEF floodVars
<1>8. QED
  BY <1>2, <1>3, <1>4, <1>5, <1>6, <1>7 DEF FloodNext

LEMMA FloodStart == FloodInit => F!Init
<1> SUFFICES ASSUME FloodInit PROVE F!Init
  OBVIOUS
<1>1. sent = {} /\ missed = {}
  BY DEF FloodInit
<1>2. Full = {}
  BY <1>1 DEF Full
<1>3. QED
  BY <1>1, <1>2 DEF F!Init, Holders, Senders, Lost

\* TC messages with full TTL are flooded as Flooding promises in every network of fewer
\* than 256 nodes, whatever other messages do, however relays change, whatever is missed or
\* expires: the first copy alone decides, only relays repeat it, no copy is sent twice, and
\* no TTL runs out before every node has the message (recv_olsr, forward_default, send_pkt).
THEOREM FloodingImplemented ==
    ASSUME FewTcs, SmallNetwork
    PROVE  FloodSpec => FloodsAsPromised
<1>1. FloodInit => UInv /\ HInv /\ F!Init
  BY NumbersInit, HoldsInit, FloodStart
<1>2. FInv /\ UInv /\ HInv /\ [FloodNext]_floodVars => UInv' /\ HInv'
  BY NumbersNext, HoldsNext
<1>3. FInv /\ FInv' /\ UInv /\ UInv' /\ HInv /\ [FloodNext]_floodVars => [F!Next]_(F!vars)
  BY FloodStep
<1>4. FInv => F!RelaysFit
  BY RelaysCoverFlood
<1>5. QED
  BY <1>1, <1>2, <1>3, <1>4, FloodInvariance, PTL DEF FloodSpec, FloodsAsPromised, F!Spec

-----------------------------------------------------------------------------
(* Floods reach every node *)

\* Where a message has just arrived at a neighbour m of w that lacks it, the relay that
\* the sender n has for w sends it on, or somebody else next to w is about to.
LEMMA ArrivalIsRelayed ==
    ASSUME F!Symmetric, F!RelaysFit, F!IInv,
           NEW n \in Node, NEW packet \in SUBSET F!Waiting(n), F!Transmit(n, packet, Nbs[n]),
           NEW msg \in packet, msg \in Messages \ Lost,
           NEW m \in Nbs[n], NEW w \in Nbs[m], <<msg, w>> \notin Holders'
    PROVE  \E r \in Nbs[w] : <<msg, r>> \in Senders'
<1>1. m \in Node /\ w \in Node /\ m \in Nbs[w]
  BY DEF F!Symmetric
<1>2. <<msg, w>> \notin Holders /\ w \notin Nbs[n]
  BY DEF F!Transmit
<1>3. w # n
  <2>1. <<msg, n>> \in Senders
    BY DEF F!Waiting, F!IInv, F!WaitingIsPairs
  <2> QED
    BY <1>2, <2>1 DEF F!IInv, F!WaitingIsHeld
<1>4. w \in F!TwoHop(n)
  BY <1>2, <1>3 DEF F!TwoHop
<1>5. PICK r \in mprset[n] : r \in Nbs[n] /\ r \in Nbs[w] /\ n \in mprsel[r]
  BY <1>4 DEF F!RelaysFit
<1>6. r \in Node /\ w \in Nbs[r]
  BY <1>1, <1>5 DEF F!Symmetric
<1>7. CASE <<msg, r>> \in Holders
  <2>1. PICK q \in Nbs[w] : <<msg, q>> \in Senders
    BY <1>1, <1>2, <1>5, <1>7 DEF F!IInv, F!Underway
  <2>2. q # n
    BY <1>1, <1>2, <2>1 DEF F!Symmetric
  <2> QED
    BY <2>1, <2>2 DEF F!Transmit
<1>8. CASE <<msg, r>> \notin Holders
  BY <1>5, <1>8 DEF F!Transmit
<1> QED
  BY <1>7, <1>8

\* A transmission keeps the invariant.
LEMMA TransmitKeepsIInv ==
    ASSUME F!Symmetric, F!RelaysFit, F!IInv,
           NEW n \in Node, NEW packet \in SUBSET F!Waiting(n), NEW heard \in SUBSET Nbs[n],
           F!Transmit(n, packet, heard)
    PROVE  F!IInv'
<1>1. F!WaitingIsPairs'
  <2>1. \A p \in packet \X heard : p \in Messages \X Node
    BY DEF F!IInv, F!WaitingIsPairs, F!Waiting, F!Symmetric
  <2> QED
    BY <2>1 DEF F!IInv, F!WaitingIsPairs, F!Transmit
<1>2. F!WaitingIsHeld'
  BY DEF F!IInv, F!WaitingIsHeld, F!Transmit
<1>3. F!Underway'
  <2> SUFFICES ASSUME NEW msg \in Messages, msg \notin Lost', NEW w \in Node, NEW m \in Nbs[w],
                      <<msg, m>> \in Holders', <<msg, w>> \notin Holders'
               PROVE  \E r \in Nbs[w] : <<msg, r>> \in Senders'
    BY DEF F!Underway
  <2>1. msg \notin Lost /\ <<msg, w>> \notin Holders /\ m \in Node /\ w \in Nbs[m]
    BY DEF F!Transmit, F!Symmetric
  <2>2. msg \in packet => heard = Nbs[n]
    BY DEF F!Transmit
  <2>3. CASE <<msg, m>> \in Holders
    <3>1. PICK r \in Nbs[w] : <<msg, r>> \in Senders
      BY <2>1, <2>3 DEF F!IInv, F!Underway
    <3>2. ~(msg \in packet /\ r = n)
      \* Else w, a neighbour of the sender, would have heard the message.
      BY <2>1, <2>2, <3>1 DEF F!Transmit, F!Symmetric
    <3> QED
      BY <3>1, <3>2 DEF F!Transmit
  <2>4. CASE <<msg, m>> \notin Holders
    <3>1. msg \in packet /\ m \in heard
      BY <2>4 DEF F!Transmit
    <3> QED
      BY <2>1, <2>2, <3>1, ArrivalIsRelayed
  <2> QED
    BY <2>3, <2>4
<1> QED
  BY <1>1, <1>2, <1>3 DEF F!IInv

\* While relays fit, the invariant is kept by every step.
LEMMA NextKeepsIInv ==
    ASSUME F!Symmetric, F!RelaysFit, F!IInv, [F!Next]_(F!vars)
    PROVE  F!IInv'
<1>1. CASE F!Reselect
  BY <1>1 DEF F!Reselect, F!IInv, F!WaitingIsPairs, F!WaitingIsHeld, F!Underway
<1>2. ASSUME NEW n \in Node, NEW msg \in Messages, F!Originate(n, msg) PROVE F!IInv'
  <2>1. F!WaitingIsPairs' /\ F!WaitingIsHeld'
    BY <1>2 DEF F!Originate, F!IInv, F!WaitingIsPairs, F!WaitingIsHeld
  <2>2. F!Underway'
    <3> SUFFICES ASSUME NEW k \in Messages \ Lost, NEW w \in Node, NEW m \in Nbs[w],
                        <<k, m>> \in Holders', <<k, w>> \notin Holders'
                 PROVE  \E r \in Nbs[w] : <<k, r>> \in Senders'
      BY <1>2 DEF F!Underway, F!Originate
    <3>1. CASE <<k, m>> \in Holders
      BY <1>2, <3>1 DEF F!Originate, F!IInv, F!Underway
    <3>2. CASE <<k, m>> \notin Holders
      BY <1>2, <3>2 DEF F!Originate
    <3> QED
      BY <3>1, <3>2
  <2> QED
    BY <2>1, <2>2 DEF F!IInv
<1>3. CASE UNCHANGED F!vars
  BY <1>3 DEF F!vars, F!IInv, F!WaitingIsPairs, F!WaitingIsHeld, F!Underway
<1> QED
  BY <1>1, <1>2, <1>3, TransmitKeepsIInv DEF F!Next

\* In a connected network the invariant leaves no message half way.
LEMMA IInvReachesAll ==
    ASSUME F!Symmetric, F!Connected, F!IInv
    PROVE  F!ReachesAll
<1> SUFFICES ASSUME NEW msg \in Messages \ Lost,
                    \A n \in Node : <<msg, n>> \notin Senders,
                    NEW h \in Node, <<msg, h>> \in Holders
             PROVE  \A n \in Node : <<msg, n>> \in Holders
  BY DEF F!ReachesAll
<1> DEFINE S == {n \in Node : <<msg, n>> \in Holders}
<1>1. ASSUME NEW n \in S, NEW w \in Nbs[n] PROVE w \in S
  <2>1. w \in Node /\ n \in Nbs[w] /\ Nbs[w] \subseteq Node
    BY DEF F!Symmetric
  <2> QED
    BY <2>1 DEF F!IInv, F!Underway
<1>2. S = Node
  BY <1>1 DEF F!Connected
<1> QED
  BY <1>2

\* Every message whose transmissions were all heard ends up at every node, though only
\* relays repeat it, and only on a first copy from who chose them (forward_default of
\* OLSR.cc, l.1941-2009).
THEOREM FloodsReachEveryNode == F!Spec => []F!ReachesAll
<1>1. F!Init => F!IInv
  BY DEF F!Init, F!IInv, F!WaitingIsPairs, F!WaitingIsHeld, F!Underway
<1>2. F!RelaysFit /\ F!IInv /\ [F!Next]_(F!vars) => F!IInv'
  BY NextKeepsIInv, NetworkAssumption
<1>3. F!IInv => F!ReachesAll
  BY IInvReachesAll, NetworkAssumption
<1> QED
  BY <1>1, <1>2, <1>3, PTL DEF F!Spec

\* Once no copy of a message with full TTL is left to send, every node has the message,
\* unless some neighbour of a sender missed it (forward_default, recv_olsr).
THEOREM TcsReachEveryNode ==
    ASSUME FewTcs, SmallNetwork
    PROVE  FloodSpec => []F!ReachesAll
<1>1. FloodSpec => F!Spec
  BY FloodingImplemented DEF FloodsAsPromised
<1>2. QED
  BY <1>1, FloodsReachEveryNode, PTL

-----------------------------------------------------------------------------
(* Distances *)

LEMMA ReachedNodes ==
    ASSUME NEW k \in 0..Cardinality(Node), NEW n \in Node
    PROVE  Reached[k][n] \subseteq Node
<1> DEFINE Bad == {h \in Nat : h <= Cardinality(Node) /\ \E m \in Node : ~ (Reached[h][m] \subseteq Node)}
<1>1. Bad = {}
  <2> SUFFICES ASSUME Bad # {} PROVE FALSE
    OBVIOUS
  <2>1. Bad \subseteq Nat
    OBVIOUS
  <2>2. PICK h \in Bad : \A j \in Bad : h <= j
    <3> HIDE DEF Bad
    <3> QED
      BY <2>1, LeastNat
  <2>3. PICK m \in Node : ~ (Reached[h][m] \subseteq Node)
    BY <2>2
  <2>4. h \in Nat /\ h <= Cardinality(Node)
    BY <2>2
  <2>5. h # 0
    BY <2>3, ReachedNone
  <2>6. h \in 1..Cardinality(Node) /\ h - 1 \in Nat /\ h - 1 <= Cardinality(Node) /\ h - 1 < h
    BY <2>4, <2>5, NodesCounted
  <2>7. h - 1 \notin Bad
    <3> HIDE DEF Bad
    <3> QED
      BY <2>1, <2>2, <2>4, <2>6
  <2>8. \A l \in Node : Reached[h - 1][l] \subseteq Node
    BY <2>6, <2>7
  <2>9. Reached[h][m] = UNION {Reached[h - 1][l] : l \in Nbs[m] \cup {m}}
    BY <2>6, ReachedMore
  <2>10. QED
    BY <2>3, <2>8, <2>9, NbsFacts
<1>2. k \in Nat /\ k <= Cardinality(Node)
  BY NodesCounted
<1>3. QED
  BY <1>1, <1>2

\* The last hop.
LEMMA ReachedBefore ==
    ASSUME NEW k \in Nat, k < Cardinality(Node), NEW n \in Node, NEW d \in Reached[k + 1][n]
    PROVE  \E w \in Nbs[d] \cup {d} : w \in Reached[k][n]
<1> DEFINE Before(h) == \A m \in Node : \A c \in Reached[h + 1][m] :
               \E v \in Nbs[c] \cup {c} : v \in Reached[h][m]
           T == {h \in Nat : h < Cardinality(Node) /\ ~ Before(h)}
<1>1. T = {}
  <2> SUFFICES ASSUME T # {} PROVE FALSE
    OBVIOUS
  <2>1. T \subseteq Nat /\ \A h \in T : h < Cardinality(Node)
    OBVIOUS
  <2>2. PICK h \in T : \A j \in T : h <= j
    <3> HIDE DEF T
    <3> QED
      BY <2>1, LeastNat
  <2>3. h \in Nat /\ h < Cardinality(Node) /\ h + 1 \in 1..Cardinality(Node)
    BY <2>1, NodesCounted
  <2>4. PICK m \in Node : \E c \in Reached[h + 1][m] : \A v \in Nbs[c] \cup {c} : v \notin Reached[h][m]
    BY <2>2
  <2>5. PICK c \in Reached[h + 1][m] : \A v \in Nbs[c] \cup {c} : v \notin Reached[h][m]
    BY <2>4
  <2>6. PICK l \in Nbs[m] \cup {m} : c \in Reached[(h + 1) - 1][l]
    BY <2>3, <2>5, ReachedMore
  <2>7. (h + 1) - 1 = h /\ l \in Node
    BY <2>3, NbsFacts
  <2>8. CASE h = 0
    <3>1. c = l
      BY <2>6, <2>7, <2>8, ReachedNone
    <3>2. m \in Nbs[c] \cup {c}
      BY <2>6, <2>7, <3>1, NbsFacts
    <3>3. QED
      BY <2>5, <2>8, <3>2, ReachedNone
  <2>9. CASE h # 0
    <3>1. h \in 1..Cardinality(Node) /\ h - 1 \in Nat /\ h - 1 < Cardinality(Node)
          /\ h - 1 \notin T /\ (h - 1) + 1 = h
      <4> HIDE DEF T
      <4> QED
        BY <2>2, <2>3, <2>9, NodesCounted
    <3>2. PICK v \in Nbs[c] \cup {c} : v \in Reached[h - 1][l]
      BY <2>6, <2>7, <3>1
    <3>3. v \in Reached[h][m]
      BY <2>6, <3>1, <3>2, ReachedMore
    <3>4. QED
      BY <2>5, <3>2, <3>3
  <2>10. QED
    BY <2>8, <2>9
<1>2. Before(k)
  <2> HIDE DEF Before
  <2> QED
    BY <1>1
<1>3. QED
  BY <1>2

\* d is k hops away from n, and not less.
At(n, d, k) ==
    /\ k \in 0..Cardinality(Node)
    /\ d \in Reached[k][n]
    /\ \A j \in 0..(k - 1) : d \notin Reached[j][n]

LEMMA DistanceIsOne ==
    ASSUME NEW n, NEW d, NEW j, NEW k, At(n, d, j), At(n, d, k)
    PROVE  j = k
<1>1. j \in Nat /\ k \in Nat
  BY NodesCounted DEF At
<1>2. ~ (j < k) /\ ~ (k < j)
  BY <1>1 DEF At
<1>3. QED
  BY <1>1, <1>2

\* A neighbour of a node k hops away from which a node at k - 1 hops is seen, or which is
\* nearer, is at k - 1 hops.
LEMMA NearerIsAt ==
    ASSUME NEW n \in Node, NEW k \in Nat, NEW d \in Node, At(n, d, k + 1),
           NEW r \in Nbs[d], r \in Reached[k][n]
    PROVE  At(n, r, k)
<1>1. k < Cardinality(Node) /\ k \in 0..Cardinality(Node)
  BY NodesCounted DEF At
<1>2. ASSUME NEW j \in 0..(k - 1), r \in Reached[j][n]
      PROVE  FALSE
  <2>1. j \in Nat /\ j < Cardinality(Node) /\ j + 1 \in 0..((k + 1) - 1)
    BY <1>1, NodesCounted
  <2>2. r \in Node /\ d \in Nbs[r]
    BY NbsFacts
  <2>3. d \in Reached[j + 1][n]
    BY <1>2, <2>1, <2>2, ReachedBehind
  <2>4. QED
    BY <2>1, <2>3 DEF At
<1>3. QED
  BY <1>1, <1>2 DEF At

LEMMA AtNodes ==
    ASSUME NEW n \in Node, NEW d, NEW k, At(n, d, k)
    PROVE  d \in Node /\ k \in Nat
BY ReachedNodes, NodesCounted DEF At

LEMMA AtBefore ==
    ASSUME NEW n \in Node, NEW k \in Nat, NEW d, At(n, d, k + 1)
    PROVE  \E w \in Nbs[d] : At(n, w, k)
<1>1. d \in Node
  BY AtNodes
<1>2. k < Cardinality(Node) /\ d \in Reached[k + 1][n] /\ k \in 0..((k + 1) - 1)
  BY NodesCounted DEF At
<1>3. PICK w \in Nbs[d] \cup {d} : w \in Reached[k][n]
  BY <1>2, ReachedBefore
<1>4. w # d
  BY <1>2, <1>3 DEF At
<1>5. QED
  BY <1>1, <1>3, <1>4, NearerIsAt

LEMMA AtNone ==
    ASSUME NEW n \in Node
    PROVE  At(n, n, 0) /\ \A d : At(n, d, 0) => d = n
<1>1. 0 \in 0..Cardinality(Node)
  BY NodesCounted
<1>2. QED
  BY <1>1, ReachedNone DEF At

\* Where a node is two hops away or more, a relay of it is one hop nearer.
LEMMA RelayBefore ==
    ASSUME NEW n \in Node, NEW k \in Nat, k >= 1, NEW d \in Node, At(n, d, k + 1),
           NEW R \in RelaySets[d]
    PROVE  \E r \in R : At(n, r, k) /\ r \in Node
<1>1. PICK w \in Nbs[d] : At(n, w, k)
  BY AtBefore
<1>2. k - 1 \in Nat /\ (k - 1) + 1 = k /\ k < Cardinality(Node) /\ k - 1 < Cardinality(Node)
      /\ k \in 0..((k + 1) - 1) /\ k - 1 \in 0..((k + 1) - 1)
  BY NodesCounted DEF At
<1>3. PICK v \in Nbs[w] : At(n, v, k - 1)
  BY <1>1, <1>2, AtBefore
<1>4. v \in Node /\ w \in Node /\ v \in Reached[k - 1][n]
  BY <1>1, <1>3, AtNodes DEF At
<1>5. v # d
  BY <1>2, <1>4 DEF At
<1>6. v \notin Nbs[d]
  <2> SUFFICES ASSUME v \in Nbs[d] PROVE FALSE
    OBVIOUS
  <2>1. d \in Nbs[v]
    BY <1>4, NbsFacts
  <2>2. d \in Reached[(k - 1) + 1][n]
    BY <1>2, <1>4, <2>1, ReachedBehind
  <2>3. QED
    BY <1>2, <2>2 DEF At
<1>7. PICK r \in R : v \in Nbs[r]
  BY <1>3, <1>5, <1>6, RelaySetFacts
<1>8. r \in Nbs[d] /\ r \in Node
  BY RelaySetFacts
<1>9. r \in Nbs[v]
  BY <1>4, <1>7, <1>8, NbsFacts
<1>10. r \in Reached[(k - 1) + 1][n]
  BY <1>2, <1>4, <1>9, ReachedBehind
<1>11. At(n, r, k)
  BY <1>2, <1>8, <1>10, NearerIsAt
<1>12. QED
  BY <1>8, <1>11

\* Some node at every smaller distance.
LEMMA EveryDistance ==
    ASSUME NEW n \in Node, NEW d, NEW k, At(n, d, k)
    PROVE  \A j \in 0..k : \E c : At(n, c, j)
<1> DEFINE T == {i \in Nat : i <= k /\ ~ \E c : At(n, c, k - i)}
<1>1. k \in Nat
  BY AtNodes
<1>2. T = {}
  <2> SUFFICES ASSUME T # {} PROVE FALSE
    OBVIOUS
  <2>1. T \subseteq Nat
    OBVIOUS
  <2>2. PICK i \in T : \A j \in T : i <= j
    <3> HIDE DEF T
    <3> QED
      BY <2>1, LeastNat
  <2>3. i \in Nat /\ i <= k /\ ~ \E c : At(n, c, k - i)
    BY <2>2
  <2>4. i # 0
    <3>1. k - 0 = k
      BY <1>1
    <3>2. QED
      BY <2>3, <3>1
  <2>5. i - 1 \in Nat /\ i - 1 <= k /\ i - 1 < i /\ k - i \in Nat /\ k - (i - 1) = (k - i) + 1
    BY <1>1, <2>3, <2>4
  <2>6. i - 1 \notin T
    <3> HIDE DEF T
    <3> QED
      BY <2>1, <2>2, <2>3, <2>5
  <2>7. PICK c : At(n, c, (k - i) + 1)
    BY <2>5, <2>6
  <2>8. QED
    BY <2>3, <2>5, <2>7, AtBefore
<1>3. ASSUME NEW j \in 0..k PROVE \E c : At(n, c, j)
  <2>1. k - j \in Nat /\ k - j <= k /\ k - (k - j) = j
    BY <1>1
  <2>2. k - j \notin T
    <3> HIDE DEF T
    <3> QED
      BY <1>2
  <2>3. QED
    BY <2>1, <2>2
<1>4. QED
  BY <1>3

\* There are more nodes than distances above 0.
LEMMA DistancesBounded ==
    ASSUME NEW n \in Node, NEW d, NEW k, At(n, d, k)
    PROVE  k < Cardinality(Node)
<1> DEFINE f == [i \in 0..k |-> CHOOSE c : At(n, c, i)]
<1>1. k \in Nat
  BY AtNodes
<1>2. \A i \in 0..k : At(n, f[i], i) /\ f[i] \in Node
  BY EveryDistance, AtNodes
<1>3. f \in Injection(0..k, Node)
  <2>1. f \in [0..k -> Node]
    BY <1>2
  <2>2. \A i, j \in 0..k : f[i] = f[j] => i = j
    BY <1>2, DistanceIsOne
  <2> HIDE DEF f
  <2>3. QED
    BY <2>1, <2>2 DEF Injection, IsInjective
<1>4. IsFiniteSet(0..k) /\ Cardinality(0..k) = k + 1
  BY <1>1, FS_Interval
<1>5. Cardinality(0..k) <= Cardinality(Node)
  <2> HIDE DEF f
  <2> QED
    BY <1>3, FS_Injection, ConstantsAssumption
<1>6. QED
  BY <1>1, <1>4, <1>5, NodesCounted

LEMMA SomeDistance ==
    ASSUME NEW n \in Node, NEW d, NEW k \in 0..Cardinality(Node), d \in Reached[k][n]
    PROVE  \E j \in 0..k : At(n, d, j)
<1> DEFINE T == {j \in Nat : j <= k /\ d \in Reached[j][n]}
<1>1. k \in Nat /\ k <= Cardinality(Node)
  BY NodesCounted
<1>2. T \subseteq Nat /\ k \in T
  BY <1>1
<1>3. PICK j \in T : \A i \in T : j <= i
  <2> HIDE DEF T
  <2> QED
    BY <1>2, LeastNat
<1>4. j \in Nat /\ j <= k /\ d \in Reached[j][n]
  BY <1>3
<1>5. ASSUME NEW i \in 0..(j - 1), d \in Reached[i][n]
      PROVE  FALSE
  <2>1. i \in Nat /\ i <= k /\ i < j
    BY <1>1, <1>4
  <2>2. i \in T
    BY <1>5, <2>1
  <2> HIDE DEF T
  <2>3. QED
    BY <1>3, <1>4, <2>1, <2>2
<1>6. j \in 0..k /\ j \in 0..Cardinality(Node)
  BY <1>1, <1>4, NodesCounted
<1>7. At(n, d, j)
  BY <1>4, <1>5, <1>6 DEF At
<1>8. QED
  BY <1>6, <1>7

\* The network is connected.
LEMMA EveryNodeAt ==
    ASSUME NEW n \in Node, NEW d \in Node
    PROVE  \E k \in Nat : At(n, d, k)
<1> DEFINE S == {c \in Node : \E k \in Nat : At(n, c, k)}
<1>1. n \in S
  BY AtNone
<1>2. ASSUME NEW c \in S, NEW w \in Nbs[c]
      PROVE  w \in S
  <2>1. PICK k \in Nat : At(n, c, k)
    OBVIOUS
  <2>2. k < Cardinality(Node) /\ c \in Reached[k][n] /\ c \in Node
    BY <2>1, DistancesBounded DEF At
  <2>3. w \in Reached[k + 1][n]
    BY <2>2, ReachedBehind
  <2>4. k + 1 \in 0..Cardinality(Node)
    BY <2>2, NodesCounted
  <2>5. PICK j \in 0..(k + 1) : At(n, w, j)
    BY <2>3, <2>4, SomeDistance
  <2>6. j \in Nat /\ w \in Node
    BY <2>2, NbsFacts
  <2>7. QED
    BY <2>5, <2>6
<1>3. S \in SUBSET Node
  OBVIOUS
<1> HIDE DEF S
<1>4. S # {} /\ \A c \in S : Nbs[c] \subseteq S
  BY <1>1, <1>2
<1>5. S = Node
  BY <1>3, <1>4, NetworkAssumption DEF F!Connected
<1>6. QED
  BY <1>5 DEF S

-----------------------------------------------------------------------------
(* Routes over links to selectors are shortest *)

\* Of every node two hops from n or more the tuples show the relays.
ShowRelays(n, tuples, relays) ==
    \A d \in Node : /\ relays[d] \in RelaySets[d]
                    /\ \A r \in relays[d] \ {n} : <<r, d>> \in tuples

LEMMA RelayShown ==
    ASSUME NEW n \in Node, NEW tuples, NEW relays, ShowRelays(n, tuples, relays),
           NEW k \in Nat, k >= 1, NEW d \in Node, At(n, d, k + 1)
    PROVE  \E r \in Node : At(n, r, k) /\ r # n /\ <<r, d>> \in tuples
<1>1. PICK r \in relays[d] : At(n, r, k) /\ r \in Node
  BY RelayBefore DEF ShowRelays
<1>2. r # n
  BY <1>1, AtNone, DistanceIsOne
<1>3. QED
  BY <1>1, <1>2 DEF ShowRelays

\* The number of rings suffices: a tuple leads to some node at every distance above 2.
LEMMA RingsSuffice ==
    ASSUME NEW n \in Node, NEW tuples \in SUBSET Link, NEW relays,
           ShowRelays(n, tuples, relays), NEW d, NEW k, At(n, d, k)
    PROVE  k <= 2 + Cardinality(Dests(tuples))
<1> DEFINE f == [i \in 3..k |-> CHOOSE c \in Dests(tuples) : At(n, c, i)]
<1>1. k \in Nat
  BY AtNodes
<1>2. ASSUME NEW i \in 3..k
      PROVE  \E c \in Dests(tuples) : At(n, c, i)
  <2>1. i \in 0..k /\ i - 1 \in Nat /\ i - 1 >= 1 /\ (i - 1) + 1 = i
    BY <1>1
  <2>2. PICK c : At(n, c, i)
    BY <2>1, EveryDistance
  <2>3. c \in Node
    BY <2>2, AtNodes
  <2>4. PICK r \in Node : <<r, c>> \in tuples
    BY <2>1, <2>2, <2>3, RelayShown
  <2>5. c \in Dests(tuples)
    BY <2>4 DEF Dests
  <2>6. QED
    BY <2>2, <2>5
<1>3. \A i \in 3..k : f[i] \in Dests(tuples) /\ At(n, f[i], i)
  BY <1>2
<1>4. f \in Injection(3..k, Dests(tuples))
  <2>1. f \in [3..k -> Dests(tuples)]
    BY <1>3
  <2>2. \A i, j \in 3..k : f[i] = f[j] => i = j
    BY <1>3, DistanceIsOne
  <2> HIDE DEF f
  <2>3. QED
    BY <2>1, <2>2 DEF Injection, IsInjective
<1>5. Cardinality(3..k) = IF 3 > k THEN 0 ELSE k - 3 + 1
  BY <1>1, FS_Interval
<1>6. Cardinality(3..k) <= Cardinality(Dests(tuples))
  <2> HIDE DEF f
  <2> QED
    BY <1>4, FS_Injection, DestsFinite
<1>7. Cardinality(Dests(tuples)) \in Nat
  BY DestsFinite
<1>8. QED
  BY <1>1, <1>5, <1>6, <1>7

\* After the ring h the routes to nodes up to h hops away are shortest, and every tuple
\* behind a node of an earlier ring has been followed.
Nearest(tb, n, tuples, h) ==
    /\ \A d \in Node \ {n} : \A k \in 1..h :
          At(n, d, k) => d \in DOMAIN tb /\ tb[d].dist <= k
    /\ \A t \in tuples : t[2] # n /\ t[1] \in DOMAIN tb /\ tb[t[1]].dist < h => t[2] \in DOMAIN tb

LEMMA FirstRingNearest ==
    ASSUME NEW n \in Node, NEW tuples \in SUBSET Link
    PROVE  Nearest(FirstRing(n), n, tuples, 2)
<1> DEFINE tb == FirstRing(n)
<1>1. IsTable(tb, n, 2)
  BY FirstRingOK
<1>2. \A m \in Nbs[n] : m \in DOMAIN tb /\ tb[m].dist = 1
  BY FirstRingEntries
<1>3. \A d \in (DOMAIN tb) \ Nbs[n] : tb[d].dist = 2
  BY FirstRingEntries
<1>4. \A m \in Nbs[n] : \A d \in Nbs[m] \ {n} : d \in DOMAIN tb
  BY FirstRingEntries
<1> HIDE DEF tb
<1>5. \A d : At(n, d, 1) => d \in Nbs[n]
  <2> SUFFICES ASSUME NEW d, At(n, d, 1) PROVE d \in Nbs[n]
    OBVIOUS
  <2>1. At(n, d, 0 + 1)
    OBVIOUS
  <2>2. PICK w \in Nbs[d] : At(n, w, 0)
    BY <2>1, AtBefore
  <2>3. QED
    BY <2>2, AtNone, AtNodes, NbsFacts
<1>6. ASSUME NEW d \in Node \ {n}, At(n, d, 2)
      PROVE  d \in DOMAIN tb /\ tb[d].dist <= 2
  <2>1. At(n, d, 1 + 1)
    BY <1>6
  <2>2. PICK w \in Nbs[d] : At(n, w, 1)
    BY <2>1, AtBefore
  <2>3. w \in Nbs[n] /\ d \in Nbs[w]
    BY <1>5, <2>2, AtNodes, NbsFacts
  <2>4. d \in DOMAIN tb
    BY <1>4, <2>3
  <2>5. QED
    BY <1>1, <2>4 DEF IsTable
<1>7. ASSUME NEW d \in Node \ {n}, NEW k \in 1..2, At(n, d, k)
      PROVE  d \in DOMAIN tb /\ tb[d].dist <= k
  <2>1. k = 1 \/ k = 2
    OBVIOUS
  <2>2. CASE k = 1
    <3>1. d \in DOMAIN tb /\ tb[d].dist = 1
      BY <1>2, <1>5, <1>7, <2>2
    <3>2. QED
      BY <2>2, <3>1
  <2>3. CASE k = 2
    BY <1>6, <1>7, <2>3
  <2>4. QED
    BY <2>1, <2>2, <2>3
<1>8. ASSUME NEW t \in tuples, t[2] # n, t[1] \in DOMAIN tb, tb[t[1]].dist < 2
      PROVE  t[2] \in DOMAIN tb
  <2>1. t[1] \in Nbs[n]
    BY <1>3, <1>8
  <2>2. t[2] \in Nbs[t[1]] \ {n}
    BY <1>8, LinkEnds
  <2>3. QED
    BY <1>4, <2>1, <2>2
<1>9. QED
  BY <1>7, <1>8 DEF Nearest, tb

LEMMA RingNearest ==
    ASSUME NEW n \in Node, NEW tuples \in SUBSET Link, NEW relays,
           ShowRelays(n, tuples, relays), NEW h \in Nat, h >= 2,
           NEW tb, IsTable(tb, n, h), Leads(tb), Nearest(tb, n, tuples, h)
    PROVE  Nearest(OneRingMore(tb, tuples, h), n, tuples, h + 1)
<1> DEFINE nx == OneRingMore(tb, tuples, h)
<1>1. /\ DOMAIN tb \subseteq DOMAIN nx
      /\ \A d \in DOMAIN tb : nx[d] = tb[d]
      /\ \A d \in (DOMAIN nx) \ DOMAIN tb : nx[d].dist = h + 1
      /\ \A t \in tuples : t[1] \in DOMAIN tb /\ tb[t[1]].dist = h => t[2] \in DOMAIN nx
  BY RingEntries
<1>2. IsTable(nx, n, h + 1)
  BY RingOK
<1> HIDE DEF nx
<1>3. \A d \in DOMAIN tb : tb[d].dist \in Nat /\ tb[d].dist <= h
  BY DEF IsTable
<1>4. \A d \in DOMAIN nx : nx[d].dist \in Nat /\ nx[d].dist <= h + 1
  BY <1>2 DEF IsTable
<1>5. ASSUME NEW t \in tuples, t[2] # n, t[1] \in DOMAIN tb
      PROVE  t[2] \in DOMAIN nx
  <2>1. tb[t[1]].dist < h \/ tb[t[1]].dist = h
    BY <1>3, <1>5
  <2>2. QED
    BY <1>1, <1>5, <2>1 DEF Nearest
<1>6. ASSUME NEW d \in Node \ {n}, NEW k \in 1..(h + 1), At(n, d, k)
      PROVE  d \in DOMAIN nx /\ nx[d].dist <= k
  <2>1. CASE k # h + 1
    <3>1. k \in 1..h
      BY <2>1
    <3>2. d \in DOMAIN tb /\ tb[d].dist <= k
      BY <1>6, <3>1 DEF Nearest
    <3>3. QED
      BY <1>1, <3>2
  <2>2. CASE k = h + 1
    <3>1. PICK r \in Node : At(n, r, h) /\ r # n /\ <<r, d>> \in tuples
      BY <1>6, <2>2, RelayShown
    <3>2. r \in DOMAIN tb
      BY <3>1 DEF Nearest
    <3>3. d \in DOMAIN nx
      BY <1>5, <3>1, <3>2
    <3>4. QED
      BY <1>4, <2>2, <3>3
  <2>3. QED
    BY <2>1, <2>2
<1>7. ASSUME NEW t \in tuples, t[2] # n, t[1] \in DOMAIN nx, nx[t[1]].dist < h + 1
      PROVE  t[2] \in DOMAIN nx
  <2>1. t[1] \in DOMAIN tb
    BY <1>1, <1>7
  <2>2. QED
    BY <1>5, <1>7, <2>1
<1>8. QED
  BY <1>6, <1>7 DEF Nearest, nx

LEMMA RingsNearest ==
    ASSUME NEW n \in Node, NEW tuples \in SUBSET Link, NEW relays,
           ShowRelays(n, tuples, relays),
           NEW h \in 2..(2 + Cardinality(Dests(tuples)))
    PROVE  Nearest(RingAt(n, tuples, h), n, tuples, h)
<1> DEFINE last == 2 + Cardinality(Dests(tuples))
           Good(k) == Nearest(RingAt(n, tuples, k), n, tuples, k)
           T == {k \in Nat : k \in 2..last /\ ~ Good(k)}
<1>1. last \in Nat
  BY DestsFinite
<1>2. T = {}
  <2> SUFFICES ASSUME T # {} PROVE FALSE
    OBVIOUS
  <2> HIDE DEF last, Good
  <2>1. T \subseteq Nat /\ \A k \in T : k \in 2..last /\ ~ Good(k)
    OBVIOUS
  <2>2. \A k \in 2..last : k \notin T => Good(k)
    BY <1>1
  <2>3. PICK k \in T : \A j \in T : k <= j
    <3> HIDE DEF T
    <3> QED
      BY <2>1, LeastNat
  <2> HIDE DEF T
  <2>4. k \in Nat /\ k \in 2..last /\ ~ Good(k)
    BY <2>1, <2>3
  <2>5. k # 2
    BY <2>4, RingSteps, FirstRingNearest DEF Good
  <2>6. k - 1 \in Nat /\ k - 1 >= 2 /\ k - 1 \in 2..last /\ k \in 3..last
    BY <1>1, <2>4, <2>5
  <2>7. Good(k - 1)
    BY <2>1, <2>2, <2>3, <2>4, <2>6
  <2>8. RingAt(n, tuples, k) = OneRingMore(RingAt(n, tuples, k - 1), tuples, k - 1)
    BY <2>6, RingSteps DEF last
  <2>9. (k - 1) + 1 = k
    BY <2>4
  <2>10. IsTable(RingAt(n, tuples, k - 1), n, k - 1) /\ Leads(RingAt(n, tuples, k - 1))
    BY <2>6, RingsOK DEF last
  <2>11. Good(k)
    BY <2>6, <2>7, <2>8, <2>9, <2>10, RingNearest DEF Good
  <2>12. QED
    BY <2>4, <2>11
<1>3. h \in Nat /\ h \in 2..last
  BY <1>1
<1>4. Good(h)
  <2> HIDE DEF Good, last
  <2>1. QED
    BY <1>2, <1>3
<1>5. QED
  BY <1>4

\* Links to selectors are enough for shortest routes to every node.
LEMMA ShortestOverRelays ==
    ASSUME NEW n \in Node, NEW tuples, LinksOf(tuples) \subseteq Link, NEW relays,
           ShowRelays(n, LinksOf(tuples), relays), NEW d \in Node \ {n}
    PROVE  LET rt == Routes(n, tuples)
           IN  d \in DOMAIN rt /\ d \notin Reached[rt[d].dist - 1][n]
<1> DEFINE L == LinksOf(tuples)
           last == 2 + Cardinality(Dests(L))
           rt == Routes(n, tuples)
<1>1. rt = rtable_default_computation(Nbs[n], Node, nb2hop[n], L)
  BY DEF Routes, LinksOf
<1>2. L \in SUBSET Link /\ ShowRelays(n, L, relays)
  OBVIOUS
<1> HIDE DEF L, rt
<1>3. last \in Nat /\ last \in 2..last
  BY <1>2, DestsFinite
<1>4. rt = RingAt(n, L, last)
  BY <1>1, <1>2, RingSteps
<1>5. IsTable(rt, n, last) /\ Nearest(rt, n, L, last)
  BY <1>2, <1>3, <1>4, RingsOK, RingsNearest
<1>6. PICK k \in Nat : At(n, d, k)
  BY EveryNodeAt
<1>7. k <= last
  BY <1>2, <1>6, RingsSuffice
<1>8. k \in 1..last
  BY <1>3, <1>6, <1>7, AtNone
<1>9. d \in DOMAIN rt /\ rt[d].dist <= k
  BY <1>5, <1>6, <1>8 DEF Nearest
<1>10. rt[d].dist - 1 \in 0..(k - 1)
  BY <1>5, <1>9 DEF IsTable
<1>11. d \notin Reached[rt[d].dist - 1][n]
  BY <1>6, <1>10 DEF At
<1>12. QED
  BY <1>9, <1>11 DEF rt

LEMMA LinksShown ==
    ASSUME FewTcs, FewChanges, FInv, UInv, AInv, KInv, F!ReachesAll, AllTold,
           NEW n \in Node, NEW d \in Node, NEW r \in mprset[d], r # n
    PROVE  <<r, d>> \in LinksOf(topology[n])
<1>1. r \in Node /\ d \in mprsel[r]
  BY DEF FInv, RelaysOK
<1>2. PICK m \in sent : /\ m.orig = r /\ m.ansn = ansn[r] /\ m.adv = mprsel[r]
                        /\ m.ttl = 255
  <2>1. PICK k \in sent \cup {[orig |-> r, ansn |-> ansn[r], adv |-> {}, ttl |-> 255]} :
            k.orig = r /\ k.ansn = ansn[r] /\ k.adv = mprsel[r] /\ k.ttl = 255
    BY <1>1 DEF AllTold
  <2>2. k \in sent
    BY <1>1, <2>1
  <2>3. QED
    BY <2>1, <2>2
<1>3. Id(m) \in Full
  BY <1>2 DEF Full, Id
<1>4. Id(m) \in Messages \ Lost
  <2>1. m \in From(r) /\ From(r) # {}
    BY <1>2 DEF From
  <2>2. m.seq <= msg_seq[r] /\ msg_seq[r] < Cardinality(sent) /\ Cardinality(sent) <= MaxTcs
    BY <1>1, <2>1 DEF UInv
  <2>3. m.seq \in Nat /\ msg_seq[r] \in Nat
    <3>1. m.seq \in SeqNums /\ msg_seq[r] \in SeqNums
      BY <1>1 DEF FInv, SentOK, Genuine, Tc, NumbersOK
    <3>2. QED
      BY <3>1, Counted DEF SeqNums
  <2>4. m.seq \in 0..MaxTcs
    BY <2>2, <2>3, Counted
  <2>5. QED
    BY <1>1, <1>2, <2>4 DEF Id, AllTold, Messages, Lost
<1>5. \A l \in Node : <<Id(m), l>> \notin Senders
  <2> SUFFICES ASSUME NEW l \in Node, <<Id(m), l>> \in Senders PROVE FALSE
    OBVIOUS
  <2>1. \E i \in DOMAIN msgs[l] : TRUE
    BY DEF Senders
  <2>2. msgs[l] = <<>>
    BY DEF AllTold, Quiet
  <2>3. QED
    BY <2>1, <2>2
<1>6. <<Id(m), r>> \in Holders
  BY <1>1, <1>2, <1>3 DEF Holders, Id
<1>7. <<Id(m), n>> \in Holders
  BY <1>1, <1>4, <1>5, <1>6 DEF F!ReachesAll
<1>8. Id(m) \in dup[n]
  BY <1>2, <1>7 DEF Holders, Id
<1>9. m \in KnownOf(r, dup[n], sent)
  BY <1>2, <1>8 DEF KnownOf
<1>10. \A k \in KnownOf(r, dup[n], sent) : k.ansn <= m.ansn
  BY <1>1, <1>2, AdvertisedRise DEF KnownOf, From
<1>11. m \in Top(r, dup[n], sent)
  BY <1>9, <1>10 DEF Top
<1>12. Complete(r, dup[n], topology[n], sent)
  BY <1>1 DEF KInv, Knows, AllTold
<1>13. [last |-> r, dest |-> d, seq |-> m.ansn] \in topology[n]
  BY <1>1, <1>2, <1>11, <1>12 DEF Complete
<1>14. QED
  BY <1>13 DEF LinksOf

\* Every next hop is a neighbour from which the destination is as near as the route
\* says, and once every relay has advertised its selectors, and all have heard it, every
\* node has a shortest route to every other one, in every connected network: that only
\* links to selectors are advertised costs no hop (rtable_default_computation).
THEOREM ShortestRoutes ==
    ASSUME FewTcs, FewChanges, SmallNetwork
    PROVE  FloodSpec => []RoutesAreShortest
<1>1. FloodInit => UInv /\ AInv /\ KInv
  BY NumbersInit, ChangesInit, KnowsInit
<1>2. FInv /\ UInv /\ AInv /\ KInv /\ [FloodNext]_floodVars => UInv' /\ AInv' /\ KInv'
  BY NumbersNext, ChangesNext, KnowsNext DEF Rises, GrowInv
<1>3. FInv /\ UInv /\ AInv /\ KInv /\ F!ReachesAll => RoutesAreShortest
  <2> SUFFICES ASSUME FInv, UInv, AInv, KInv, F!ReachesAll, NEW n \in Node
               PROVE  /\ \A d \in (DOMAIN rtable[n]) \ {n} :
                            \A m \in rtable[n][d].nexts :
                                m \in Nbs[n] /\ d \in Reached[rtable[n][d].dist - 1][m]
                      /\ AllTold => \A d \in Node \ {n} :
                            d \in DOMAIN rtable[n] /\ d \notin Reached[rtable[n][d].dist - 1][n]
    BY DEF RoutesAreShortest
  <2>1. (\E h \in Nat : IsTable(rtable[n], n, h)) /\ Leads(rtable[n])
    BY DEF FInv, RoutesOfNodesOK, RouteOK
  <2>2. \A d \in DOMAIN rtable[n] : \A m \in rtable[n][d].nexts :
            m \in Nbs[n] /\ d \in Reached[rtable[n][d].dist - 1][m]
    BY <2>1 DEF IsTable, Leads
  <2>3. ASSUME AllTold, NEW d \in Node \ {n}
        PROVE  d \in DOMAIN rtable[n] /\ d \notin Reached[rtable[n][d].dist - 1][n]
    <3>1. rtable[n] = Routes(n, topology[n])
      BY <2>3 DEF AllTold, FInv, RoutesOfNodesOK
    <3>2. LinksOf(topology[n]) \subseteq Link
      BY DEF FInv, NodesOK, TuplesOK
    <3>3. ShowRelays(n, LinksOf(topology[n]), mprset)
      BY <2>3, LinksShown DEF ShowRelays, FInv, RelaysOK
    <3>4. QED
      BY <3>1, <3>2, <3>3, ShortestOverRelays
  <2>4. QED
    BY <2>2, <2>3
<1>4. QED
  BY <1>1, <1>2, <1>3, FloodInvariance, TcsReachEveryNode, PTL DEF FloodSpec
=============================================================================
