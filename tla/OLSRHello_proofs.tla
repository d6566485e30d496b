-------------------------- MODULE OLSRHello_proofs --------------------------
(***************************************************************************)
(* Proofs about OLSRHello, for all nodes, links, losses and holding times. *)
(*                                                                         *)
(* RelaysFit needs the first hops of the routes, which say of whom the MAC *)
(* layer may report a failure.  HeardLately is about the times of a tuple  *)
(* only through the timer that will look at them: the invariant bounds     *)
(* every time that is left by the age of what it was set for.              *)
(***************************************************************************)
EXTENDS OLSRHello, FiniteSetTheorems, TLAPS

-----------------------------------------------------------------------------
(* The inductive invariant *)

LinksOK(lk, n) ==
    /\ DOMAIN lk \subseteq Node \ {n}
    /\ \A m \in DOMAIN lk : lk[m] \in LinkTuple

Nb2hopOK(nb, n) ==
    /\ DOMAIN nb \subseteq Node \X (Node \ {n})
    /\ \A p \in DOMAIN nb : nb[p] \in Left

MprSelOK(sel) ==
    /\ DOMAIN sel \subseteq Node
    /\ \A m \in DOMAIN sel : sel[m] \in Left

SetsOK(s, n) == LinksOK(s.link, n) /\ Nb2hopOK(s.nb2hop, n) /\ MprSelOK(s.mprsel)

Domains ==
    /\ DOMAIN link = Node /\ DOMAIN nb2hop = Node /\ DOMAIN mprsel = Node
    /\ DOMAIN rtable = Node /\ DOMAIN hello = Node /\ DOMAIN since = Node
    /\ mprset \in [Node -> SUBSET Node]

Counters == sent \subseteq Node /\ unfit \subseteq Node /\ faults \in 0..MaxFaults

TuplesOK == \A n \in Node : SetsOK(SetsOf(n), n)

Near(rt)   == {m \in DOMAIN rt : rt[m].dist = 1}
Firsts(rt) == UNION {rt[d].nexts : d \in DOMAIN rt}

\* The relays R and the routes rt were made for the sets s of n.
MadeFor(s, n, R, rt) ==
    /\ R \subseteq Sym(s) /\ Covered(R, s)
    /\ DOMAIN rt \subseteq Node \ {n} /\ Near(rt) = Sym(s) /\ Firsts(rt) \subseteq Sym(s)

\* What is left of that when tuples have gone.
StillFits(s, n, R, rt) ==
    /\ R \cap DOMAIN s.link \subseteq Sym(s)
    /\ DOMAIN rt \subseteq Node \ {n}
    /\ Near(rt) \cap DOMAIN s.link = Sym(s)
    /\ Firsts(rt) \cap DOMAIN s.link \subseteq Sym(s)

Fitting ==
    \A n \in Node :
        /\ StillFits(SetsOf(n), n, mprset[n], rtable[n])
        /\ n \notin unfit => MadeFor(SetsOf(n), n, mprset[n], rtable[n])

SinceOK ==
    \A n \in Node :
        /\ DOMAIN since[n] \subseteq Node
        /\ \A m \in DOMAIN since[n] : since[n][m] \in Nat
        /\ DOMAIN link[n] \subseteq DOMAIN since[n]

\* h is a HELLO of m, and those it lists as heard were heard by m lately; sn holds
\* how long ago.
HelloOK(h, m, sn) ==
    /\ DOMAIN h \subseteq Node \ {m}
    /\ \A n \in DOMAIN h :
        /\ h[n] \in Entry
        /\ h[n].lt # "LOST" => n \in DOMAIN sn /\ sn[n] <= HOLD

HellosOK == \A m \in Node : hello[m] # None => HelloOK(hello[m], m, since[m])

Limit(l) == IF UseMac /\ l.status = "NOT_SYM" THEN 3 * HOLD ELSE 2 * HOLD

\* The times of a tuple l, and the time a since the last HELLO of its neighbour.
Aged(l, a) ==
    /\ l.asym >= 0 => l.asym + a <= HOLD
    /\ l.sym >= 0 => l.sym + a <= HOLD
    /\ l.time >= 0 => l.time + a <= Limit(l)
    /\ l.timer >= 0 => l.timer + a <= Limit(l)

\* The times of a tuple l, and the time b since its neighbour last heard this node.
Mutual(l, b) ==
    /\ l.sym >= 0 => l.sym + b <= 2 * HOLD
    /\ l.time >= 0 => l.time + b <= 3 * HOLD
    /\ l.timer >= 0 => l.timer + b <= 3 * HOLD

Believed(l) == l.sym >= 0 \/ l.status = "SYM"

TimesOK ==
    \A n \in Node : \A m \in DOMAIN link[n] :
        /\ Aged(link[n][m], since[n][m])
        /\ Believed(link[n][m]) => n \in DOMAIN since[m] /\ Mutual(link[n][m], since[m][n])

IInv == Domains /\ Counters /\ TuplesOK /\ Fitting /\ SinceOK /\ HellosOK /\ TimesOK

-----------------------------------------------------------------------------
(* Helpers on functions *)

LEMMA OverFacts ==
    ASSUME NEW g, NEW f
    PROVE  /\ DOMAIN Over(g, f) = DOMAIN g \cup DOMAIN f
           /\ \A x \in DOMAIN g : Over(g, f)[x] = g[x]
           /\ \A x \in DOMAIN f \ DOMAIN g : Over(g, f)[x] = f[x]
BY DEF Over

LEMMA WithFacts ==
    ASSUME NEW f, NEW x, NEW v
    PROVE  /\ DOMAIN With(f, x, v) = DOMAIN f \cup {x}
           /\ With(f, x, v)[x] = v
           /\ \A y \in DOMAIN f \ {x} : With(f, x, v)[y] = f[y]
BY DEF With, Over

LEMMA WithoutFacts ==
    ASSUME NEW f, NEW S
    PROVE  /\ DOMAIN Without(f, S) = DOMAIN f \ S
           /\ \A x \in DOMAIN f \ S : Without(f, S)[x] = f[x]
BY DEF Without

-----------------------------------------------------------------------------
(* The routes of a node that knows no topology *)

LEMMA NoTopology ==
    ASSUME NEW sym, NEW willing, NEW pairs
    PROVE  rtable_default_computation(sym, willing, pairs, {})
             = Over(Neighbours(sym), BehindNeighbours(sym, willing, pairs))
<1> DEFINE base == Over(Neighbours(sym), BehindNeighbours(sym, willing, pairs))
           last == 2 + Cardinality({t[2] : t \in {}})
           rings[h \in 2..last] == IF h = 2 THEN base ELSE OneRingMore(rings[h - 1], {}, h - 1)
<1>1. last = 2
  BY FS_EmptySet
<1>2. rings = [h \in 2..last |-> IF h = 2 THEN base ELSE OneRingMore(rings[h - 1], {}, h - 1)]
  <2> DEFINE f == [h \in 2..last |-> base]
  <2> HIDE DEF last, base
  <2>1. f = [h \in 2..last |-> IF h = 2 THEN base ELSE OneRingMore(f[h - 1], {}, h - 1)]
    BY <1>1
  <2> HIDE DEF f
  <2>2. QED
    BY <2>1
<1>3. rings[last] = base
  <2> HIDE DEF rings, base
  <2>1. QED
    BY <1>1, <1>2
<1>4. QED
  BY <1>3 DEF rtable_default_computation

LEMMA RoutesFit ==
    ASSUME NEW n \in Node, NEW s, SetsOK(s, n)
    PROVE  /\ DOMAIN Routes(s) \subseteq Node \ {n}
           /\ Near(Routes(s)) = Sym(s)
           /\ Firsts(Routes(s)) \subseteq Sym(s)
<1> DEFINE near == Neighbours(Sym(s))
           far  == BehindNeighbours(Sym(s), Node \ Unwilling, DOMAIN s.nb2hop)
           N2   == {p \in DOMAIN s.nb2hop : p[1] \in Sym(s) \cap (Node \ Unwilling) /\ p[2] \notin Sym(s)}
<1>1. Routes(s) = Over(near, far)
  BY NoTopology DEF Routes
<1>2. Sym(s) \subseteq Node \ {n}
  BY DEF Sym, SetsOK, LinksOK
<1>3. /\ DOMAIN near = Sym(s)
      /\ \A m \in Sym(s) : near[m].dist = 1 /\ near[m].nexts = {m}
  BY DEF Neighbours
<1>4. N2 \subseteq Node \X (Node \ {n})
  BY DEF SetsOK, Nb2hopOK
<1>5. far = [d \in {p[2] : p \in N2} |-> [dist |-> 2, nexts |-> {p[1] : p \in {q \in N2 : q[2] = d}}]]
  BY DEF BehindNeighbours
<1>6. /\ DOMAIN far = {p[2] : p \in N2}
      /\ \A d \in DOMAIN far : far[d].dist = 2 /\ far[d].nexts \subseteq Sym(s)
  <2> HIDE DEF far
  <2>1. \A p \in N2 : p[1] \in Sym(s)
    OBVIOUS
  <2> HIDE DEF N2
  <2>2. QED
    BY <1>5, <2>1
<1>7. DOMAIN far \subseteq Node \ {n} /\ DOMAIN far \cap Sym(s) = {}
  BY <1>4, <1>6
<1> HIDE DEF near, far, N2
<1>8. /\ DOMAIN Routes(s) = Sym(s) \cup DOMAIN far
      /\ \A m \in Sym(s) : Routes(s)[m] = near[m]
      /\ \A d \in DOMAIN far : Routes(s)[d] = far[d]
  <2>1. /\ DOMAIN Over(near, far) = DOMAIN near \cup DOMAIN far
        /\ \A x \in DOMAIN near : Over(near, far)[x] = near[x]
        /\ \A x \in DOMAIN far \ DOMAIN near : Over(near, far)[x] = far[x]
    BY OverFacts
  <2>2. \A d \in DOMAIN far : d \in DOMAIN far \ DOMAIN near
    BY <1>3, <1>7
  <2>3. QED
    BY <1>1, <1>3, <2>1, <2>2
<1>9. DOMAIN Routes(s) \subseteq Node \ {n}
  BY <1>2, <1>7, <1>8
<1>10. \A d \in DOMAIN Routes(s) : /\ Routes(s)[d].dist = 1 <=> d \in Sym(s)
                                  /\ Routes(s)[d].nexts \subseteq Sym(s)
  <2> SUFFICES ASSUME NEW d \in DOMAIN Routes(s)
               PROVE  /\ Routes(s)[d].dist = 1 <=> d \in Sym(s)
                      /\ Routes(s)[d].nexts \subseteq Sym(s)
    OBVIOUS
  <2>1. CASE d \in Sym(s)
    <3>1. Routes(s)[d].dist = 1 /\ Routes(s)[d].nexts = {d}
      BY <2>1, <1>3, <1>8
    <3>2. QED
      BY <2>1, <3>1
  <2>2. CASE d \in DOMAIN far
    <3>1. Routes(s)[d].dist = 2 /\ Routes(s)[d].nexts \subseteq Sym(s)
      BY <2>2, <1>6, <1>8
    <3>2. QED
      BY <2>2, <3>1, <1>7
  <2>3. QED
    BY <2>1, <2>2, <1>8
<1>11. QED
  BY <1>8, <1>9, <1>10 DEF Near, Firsts

-----------------------------------------------------------------------------
(* Relays and routes found again *)

LEMMA SameSets ==
    ASSUME NEW s, NEW u, s.link = u.link, s.nb2hop = u.nb2hop,
           NEW n, NEW R, NEW rt, MadeFor(s, n, R, rt)
    PROVE  MadeFor(u, n, R, rt)
BY DEF MadeFor, Sym, TwoHop, Covered

LEMMA MadeStillFits ==
    ASSUME NEW s, NEW n, NEW R, NEW rt, MadeFor(s, n, R, rt)
    PROVE  StillFits(s, n, R, rt)
<1>1. Sym(s) \subseteq DOMAIN s.link
  BY DEF Sym
<1>2. QED
  BY <1>1 DEF MadeFor, StillFits

LEMMA RelaysMade ==
    ASSUME NEW n \in Node, NEW s, SetsOK(s, n), NEW R \in RelaySets(s)
    PROVE  MadeFor(s, n, R, Routes(s))
<1>1. R \subseteq Sym(s) /\ Covered(R, s)
  BY DEF RelaySets
<1>2. QED
  BY <1>1, RoutesFit DEF MadeFor

\* The sets of the nodes in to are those of new, those of others as they were.
Remade(new, to) ==
    /\ DOMAIN link' = Node /\ DOMAIN nb2hop' = Node /\ DOMAIN mprsel' = Node
    /\ DOMAIN rtable' = Node /\ mprset' \in [Node -> SUBSET Node]
    /\ unfit' \subseteq Node
    /\ TuplesOK' /\ Fitting'
    /\ \A n \in to : link'[n] = new[n].link
    /\ \A n \in Node \ to : link'[n] = link[n]

LEMMA BecomeFits ==
    ASSUME Domains, Counters, TuplesOK, Fitting,
           NEW new, NEW to, to \subseteq Node, \A n \in to : SetsOK(new[n], n), Become(new, to)
    PROVE  Remade(new, to)
<1>1. /\ link'   = [n \in Node |-> IF n \in to THEN new[n].link ELSE link[n]]
      /\ nb2hop' = [n \in Node |-> IF n \in to THEN new[n].nb2hop ELSE nb2hop[n]]
      /\ mprsel' = [n \in Node |-> IF n \in to THEN new[n].mprsel ELSE mprsel[n]]
      /\ rtable' = [n \in Node |-> IF n \in to THEN Routes(new[n]) ELSE rtable[n]]
      /\ unfit'  = unfit \ to
  BY DEF Become
<1>2. PICK R \in [to -> UNION {RelaySets(new[n]) : n \in to}] :
          /\ \A n \in to : R[n] \in RelaySets(new[n])
          /\ mprset' = Over(R, mprset)
  BY DEF Become
<1>3. DOMAIN R = to /\ DOMAIN mprset = Node
  BY DEF Domains
<1>4. \A n \in to : MadeFor(new[n], n, R[n], Routes(new[n]))
  BY <1>2, RelaysMade
<1>5. \A n \in to : R[n] \subseteq Node
  BY <1>4 DEF MadeFor, SetsOK, LinksOK, Sym
<1>6. /\ mprset' \in [Node -> SUBSET Node]
      /\ \A n \in to : mprset'[n] = R[n]
      /\ \A n \in Node \ to : mprset'[n] = mprset[n]
  <2>1. mprset' = [n \in Node |-> IF n \in to THEN R[n] ELSE mprset[n]]
    BY <1>2, <1>3 DEF Over
  <2>2. QED
    BY <2>1, <1>5 DEF Domains
<1>7. ASSUME NEW n \in to
      PROVE  /\ SetsOK(SetsOf(n)', n)
             /\ MadeFor(SetsOf(n)', n, mprset'[n], rtable'[n])
  <2>1. /\ n \in Node
        /\ SetsOf(n)' = [link |-> new[n].link, nb2hop |-> new[n].nb2hop, mprsel |-> new[n].mprsel]
        /\ rtable'[n] = Routes(new[n])
    BY <1>1, <1>7 DEF SetsOf
  <2>2. SetsOK(SetsOf(n)', n)
    BY <1>7, <2>1 DEF SetsOK
  <2>3. MadeFor(new[n], n, mprset'[n], rtable'[n])
    BY <1>4, <1>6, <1>7, <2>1
  <2>4. SetsOf(n)'.link = new[n].link /\ SetsOf(n)'.nb2hop = new[n].nb2hop
    BY <2>1
  <2>5. QED
    BY <2>2, <2>3, <2>4, SameSets
<1>8. ASSUME NEW n \in Node \ to
      PROVE  /\ SetsOf(n)' = SetsOf(n)
             /\ mprset'[n] = mprset[n] /\ rtable'[n] = rtable[n]
             /\ n \in unfit' <=> n \in unfit
  BY <1>1, <1>6, <1>8 DEF SetsOf
<1>9. TuplesOK'
  <2>1. \A n \in Node : SetsOK(SetsOf(n)', n)
    BY <1>7, <1>8 DEF TuplesOK
  <2>2. QED
    BY <2>1 DEF TuplesOK, SetsOK, LinksOK, Nb2hopOK, MprSelOK
<1>10. Fitting'
  <2>1. ASSUME NEW n \in Node
        PROVE  /\ StillFits(SetsOf(n)', n, mprset'[n], rtable'[n])
               /\ n \notin unfit' => MadeFor(SetsOf(n)', n, mprset'[n], rtable'[n])
    <3>1. CASE n \in to
      BY <1>7, <3>1, MadeStillFits
    <3>2. CASE n \notin to
      BY <1>8, <3>2 DEF Fitting
    <3>3. QED
      BY <3>1, <3>2
  <2>2. QED
    BY <2>1 DEF Fitting, StillFits, MadeFor, Near, Firsts, Covered, Sym, TwoHop
<1>11. QED
  BY <1>1, <1>6, <1>9, <1>10 DEF Remade, Counters

-----------------------------------------------------------------------------
(* One link tuple *)

\* k takes the place of l in the same tick, and no time of it reaches further.
Follows(l, k) ==
    /\ Believed(k) => Believed(l)
    /\ \A a \in Nat : /\ Aged(l, a) => Aged(k, a)
                      /\ Believed(k) /\ Mutual(l, a) => Mutual(k, a)

LEMMA HoldNat == HOLD \in Nat /\ HOLD >= 1
BY ConstantsAssumption

LEMMA TupleFields ==
    ASSUME NEW l \in LinkTuple
    PROVE  /\ l.sym \in Left /\ l.asym \in Left /\ l.lost \in Left
           /\ l.time \in Int /\ l.time >= -1 /\ l.time <= 2 * HOLD
           /\ l.timer \in Int /\ l.timer >= -1 /\ l.timer <= 2 * HOLD
           /\ l.sym \in Int /\ l.sym <= HOLD /\ l.asym \in Int /\ l.asym <= HOLD
           /\ l.lost \in Int /\ l.sym >= -1
           /\ l.status \in {"SYM", "NOT_SYM"} /\ l.first_time \in BOOLEAN
BY HoldNat DEF LinkTuple, Left

LEMMA Updated ==
    ASSUME NEW l \in LinkTuple
    PROVE  LET k == updated_link_tuple(l) IN
           /\ k \in LinkTuple
           /\ k.sym = l.sym /\ k.asym = l.asym /\ k.time = l.time /\ k.timer = l.timer
           /\ k.status = IF (UseMac /\ l.lost >= 0) \/ l.sym < 0 THEN "NOT_SYM" ELSE "SYM"
BY TupleFields DEF updated_link_tuple, LinkTuple

LEMMA SparedFollows ==
    ASSUME NEW l \in LinkTuple, l.timer < 0, l.time >= 0
    PROVE  LET k == [l EXCEPT !.first_time = FALSE, !.timer = l.time] IN
           k \in LinkTuple /\ k.status = l.status /\ Follows(l, k)
<1> DEFINE k == [l EXCEPT !.first_time = FALSE, !.timer = l.time]
<1>1. /\ k \in LinkTuple
      /\ k.sym = l.sym /\ k.asym = l.asym /\ k.time = l.time /\ k.timer = l.time
      /\ k.status = l.status
  BY DEF LinkTuple
<1> HIDE DEF k
<1>2. Limit(k) = Limit(l)
  BY <1>1 DEF Limit
<1>3. Follows(l, k)
  BY <1>1, <1>2 DEF Follows, Believed, Aged, Mutual
<1>4. QED
  BY <1>1, <1>3 DEF k

LEMMA LivesFollows ==
    ASSUME NEW l \in LinkTuple, l.time >= 0, l.sym >= 0
    PROVE  LET k == [l EXCEPT !.timer = Lesser(l.time, l.sym)] IN
           k \in LinkTuple /\ k.status = l.status /\ Follows(l, k)
<1> DEFINE k == [l EXCEPT !.timer = Lesser(l.time, l.sym)]
<1>1. Lesser(l.time, l.sym) \in -1..(2 * HOLD) /\ Lesser(l.time, l.sym) <= l.time
  BY TupleFields, HoldNat DEF Lesser
<1>2. /\ k \in LinkTuple
      /\ k.sym = l.sym /\ k.asym = l.asym /\ k.time = l.time
      /\ k.timer = Lesser(l.time, l.sym) /\ k.status = l.status
  BY <1>1 DEF LinkTuple
<1> HIDE DEF k
<1>3. Limit(k) = Limit(l) /\ Limit(l) \in Nat
  BY <1>2, HoldNat DEF Limit
<1>4. l.time \in Int /\ l.time >= 0 /\ k.timer \in Int /\ k.timer <= l.time
  BY <1>1, <1>2, TupleFields
<1>5. Believed(k) <=> Believed(l)
  BY <1>2 DEF Believed
<1>6. ASSUME NEW a \in Nat, Aged(l, a)
      PROVE  Aged(k, a)
  BY <1>2, <1>3, <1>4, <1>6 DEF Aged
<1>7. ASSUME NEW a \in Nat, Mutual(l, a)
      PROVE  Mutual(k, a)
  BY <1>2, <1>4, <1>7, HoldNat DEF Mutual
<1>8. QED
  BY <1>2, <1>5, <1>6, <1>7 DEF k, Follows

LEMMA LossFollows ==
    ASSUME NEW l \in LinkTuple, l.timer < 0, l.time >= 0, l.sym < 0
    PROVE  LET k == updated_link_tuple([l EXCEPT !.timer = l.time]) IN
           k \in LinkTuple /\ k.status = "NOT_SYM" /\ Follows(l, k)
<1> DEFINE j == [l EXCEPT !.timer = l.time]
           k == updated_link_tuple(j)
<1>1. /\ j \in LinkTuple
      /\ j.sym = l.sym /\ j.asym = l.asym /\ j.time = l.time /\ j.timer = l.time
  BY DEF LinkTuple
<1> HIDE DEF j
<1>2. /\ k \in LinkTuple
      /\ k.sym = l.sym /\ k.asym = l.asym /\ k.time = l.time /\ k.timer = l.time
      /\ k.status = "NOT_SYM"
  BY <1>1, Updated
<1> HIDE DEF k
<1>3. Limit(l) \in Nat /\ Limit(k) \in Nat /\ Limit(l) <= Limit(k)
  BY <1>2, HoldNat DEF Limit
<1>4. Follows(l, k)
  BY <1>2, <1>3, TupleFields, HoldNat DEF Follows, Believed, Aged, Mutual
<1>5. QED
  BY <1>2, <1>4 DEF k, j

LEMMA FailureFollows ==
    ASSUME NEW l \in LinkTuple, l.timer >= 0, l.status = "SYM", UseMac
    PROVE  LET k == updated_link_tuple([l EXCEPT !.lost = HOLD, !.time = HOLD]) IN
           k \in LinkTuple /\ k.status = "NOT_SYM" /\ Follows(l, k)
<1> DEFINE j == [l EXCEPT !.lost = HOLD, !.time = HOLD]
           k == updated_link_tuple(j)
<1>1. /\ j \in LinkTuple
      /\ j.sym = l.sym /\ j.asym = l.asym /\ j.time = HOLD /\ j.timer = l.timer /\ j.lost = HOLD
  <2>1. HOLD \in Left /\ HOLD \in -1..(2 * HOLD)
    BY HoldNat DEF Left
  <2>2. QED
    BY <2>1 DEF LinkTuple
<1> HIDE DEF j
<1>2. /\ k \in LinkTuple
      /\ k.sym = l.sym /\ k.asym = l.asym /\ k.time = HOLD /\ k.timer = l.timer
      /\ k.status = "NOT_SYM"
  BY <1>1, Updated, HoldNat
<1> HIDE DEF k
<1>3. Limit(l) = 2 * HOLD /\ Limit(k) = 3 * HOLD
  BY <1>2 DEF Limit
<1>4. Follows(l, k)
  BY <1>2, <1>3, TupleFields, HoldNat DEF Follows, Believed, Aged, Mutual
<1>5. QED
  BY <1>2, <1>4 DEF k, j

\* One tick later.
Aging(l) == [l EXCEPT !.sym = Down(@), !.asym = Down(@), !.lost = Down(@),
                      !.time = Down(@), !.timer = Down(@)]

LEMMA DownFacts ==
    ASSUME NEW u \in Nat, NEW i \in -1..u
    PROVE  Down(i) \in -1..u /\ (i >= 0 => Down(i) = i - 1) /\ (i < 0 => Down(i) = i)
BY DEF Down

LEMMA AgingFacts ==
    ASSUME NEW l \in LinkTuple
    PROVE  LET k == Aging(l) IN
           /\ k \in LinkTuple
           /\ k.sym = Down(l.sym) /\ k.asym = Down(l.asym)
           /\ k.time = Down(l.time) /\ k.timer = Down(l.timer) /\ k.status = l.status
<1>1. /\ Down(l.sym) \in Left /\ Down(l.asym) \in Left /\ Down(l.lost) \in Left
  BY HoldNat, DownFacts DEF LinkTuple, Left
<1>2. 2 * HOLD \in Nat
  BY HoldNat
<1>3. Down(l.time) \in -1..(2 * HOLD) /\ Down(l.timer) \in -1..(2 * HOLD)
  BY <1>2, DownFacts DEF LinkTuple
<1>4. QED
  BY <1>1, <1>3 DEF Aging, LinkTuple

LEMMA AgingAged ==
    ASSUME NEW l \in LinkTuple, NEW a \in Nat, NEW b \in Nat, b <= a + 1
    PROVE  /\ Aged(l, a) => Aged(Aging(l), b)
           /\ Mutual(l, a) => Mutual(Aging(l), b)
           /\ Believed(Aging(l)) => Believed(l)
<1> DEFINE k == Aging(l)
<1>1. /\ k.sym = Down(l.sym) /\ k.asym = Down(l.asym)
      /\ k.time = Down(l.time) /\ k.timer = Down(l.timer) /\ k.status = l.status
  BY AgingFacts
<1> HIDE DEF k
<1>2. Limit(k) = Limit(l) /\ Limit(l) \in Nat
  BY <1>1, HoldNat DEF Limit
<1>3. /\ (k.sym >= 0 => l.sym >= 0 /\ k.sym = l.sym - 1)
      /\ (k.asym >= 0 => l.asym >= 0 /\ k.asym = l.asym - 1)
      /\ (k.time >= 0 => l.time >= 0 /\ k.time = l.time - 1)
      /\ (k.timer >= 0 => l.timer >= 0 /\ k.timer = l.timer - 1)
  BY <1>1, TupleFields DEF Down
<1>4. l.sym \in Int /\ l.asym \in Int /\ l.time \in Int /\ l.timer \in Int
  BY TupleFields
<1>5. Aged(l, a) => Aged(k, b)
  BY <1>2, <1>3, <1>4, HoldNat DEF Aged
<1>6. Mutual(l, a) => Mutual(k, b)
  BY <1>3, <1>4, HoldNat DEF Mutual
<1>7. Believed(k) => Believed(l)
  BY <1>1, <1>3 DEF Believed
<1>8. QED
  BY <1>5, <1>6, <1>7 DEF k

-----------------------------------------------------------------------------
(* A HELLO is heard *)

LEMMA SaysWhat ==
    ASSUME NEW h, NEW m, NEW sn, HelloOK(h, m, sn), NEW n
    PROVE  /\ Says(h, n) \in {"nothing", "LOST", "SYM", "ASYM"}
           /\ Says(h, n) \in {"SYM", "ASYM"} => n \in DOMAIN sn /\ sn[n] <= HOLD
BY DEF HelloOK, Says, Entry

\* The tuple after the content of the HELLO was looked at, before its timer is set.
Told(old, h, n) ==
    LET heard == [old EXCEPT !.asym = HOLD]
        told  == CASE Says(h, n) = "LOST" -> [heard EXCEPT !.sym = -1]
                   [] Says(h, n) \in {"SYM", "ASYM"} ->
                        [heard EXCEPT !.sym = HOLD, !.time = 2 * HOLD, !.lost = -1]
                   [] OTHER -> heard
    IN  [told EXCEPT !.time = Greater(@, told.asym)]

LEMMA ToldFacts ==
    ASSUME NEW h, NEW n, NEW old \in LinkTuple,
           Says(h, n) \in {"nothing", "LOST", "SYM", "ASYM"}
    PROVE  LET k == Told(old, h, n) IN
           /\ k \in LinkTuple
           /\ k.asym = HOLD /\ k.timer = old.timer /\ k.status = old.status
           /\ Says(h, n) = "LOST" => k.sym = -1
           /\ Says(h, n) \in {"SYM", "ASYM"} => k.sym = HOLD
           /\ Says(h, n) = "nothing" => k.sym = old.sym /\ k.time = Greater(old.time, HOLD)
<1> DEFINE heard == [old EXCEPT !.asym = HOLD]
           told  == CASE Says(h, n) = "LOST" -> [heard EXCEPT !.sym = -1]
                      [] Says(h, n) \in {"SYM", "ASYM"} ->
                           [heard EXCEPT !.sym = HOLD, !.time = 2 * HOLD, !.lost = -1]
                      [] OTHER -> heard
           k == [told EXCEPT !.time = Greater(@, told.asym)]
<1>0. /\ HOLD \in Left /\ -1 \in Left
      /\ HOLD \in -1..(2 * HOLD) /\ 2 * HOLD \in -1..(2 * HOLD)
  BY HoldNat DEF Left
<1>1. /\ heard \in LinkTuple /\ heard.asym = HOLD /\ heard.sym = old.sym
      /\ heard.time = old.time /\ heard.timer = old.timer /\ heard.status = old.status
  BY <1>0 DEF LinkTuple
<1> HIDE DEF heard
<1>2. /\ told \in LinkTuple /\ told.asym = HOLD
      /\ told.timer = old.timer /\ told.status = old.status
      /\ Says(h, n) = "LOST" => told.sym = -1
      /\ Says(h, n) \in {"SYM", "ASYM"} => told.sym = HOLD
      /\ Says(h, n) = "nothing" => told.sym = old.sym /\ told.time = old.time
  <2>1. CASE Says(h, n) = "LOST"
    <3>1. told = [heard EXCEPT !.sym = -1]
      BY <2>1
    <3> HIDE DEF told
    <3>2. QED
      BY <2>1, <3>1, <1>0, <1>1 DEF LinkTuple
  <2>2. CASE Says(h, n) \in {"SYM", "ASYM"}
    <3>1. told = [heard EXCEPT !.sym = HOLD, !.time = 2 * HOLD, !.lost = -1]
      BY <2>2
    <3> HIDE DEF told
    <3>2. QED
      BY <2>2, <3>1, <1>0, <1>1 DEF LinkTuple
  <2>3. CASE Says(h, n) = "nothing"
    <3>1. told = heard
      BY <2>3
    <3> HIDE DEF told
    <3>2. QED
      BY <2>3, <3>1, <1>1
  <2>4. QED
    BY <2>1, <2>2, <2>3
<1> HIDE DEF told
<1>3. Greater(told.time, told.asym) \in -1..(2 * HOLD)
  BY <1>0, <1>2 DEF Greater, LinkTuple
<1>4. /\ k \in LinkTuple /\ k.time = Greater(told.time, told.asym)
      /\ k.sym = told.sym /\ k.asym = told.asym
      /\ k.timer = told.timer /\ k.status = told.status
  BY <1>2, <1>3 DEF LinkTuple
<1>5. k = Told(old, h, n)
  BY DEF Told, told, heard
<1> HIDE DEF k
<1>6. QED
  BY <1>2, <1>4, <1>5

LEMMA Sensed ==
    ASSUME NEW n, NEW h, NEW m, NEW sn, HelloOK(h, m, sn),
           \A x \in DOMAIN sn : sn[x] \in Nat,
           NEW created \in BOOLEAN, NEW old \in LinkTuple, created => old = NewLink,
           ~created /\ Believed(old) => n \in DOMAIN sn /\ Mutual(old, sn[n])
    PROVE  LET k == link_sensing(created, old, h, n) IN
           /\ k \in LinkTuple /\ Aged(k, 0)
           /\ Believed(k) => n \in DOMAIN sn /\ Mutual(k, sn[n])
<1> DEFINE kept == Told(old, h, n)
           new  == IF created /\ Says(h, n) = "nothing" THEN kept ELSE updated_link_tuple(kept)
           k    == IF created THEN [new EXCEPT !.timer = Lesser(new.time, new.sym)] ELSE new
<1>1. /\ Says(h, n) \in {"nothing", "LOST", "SYM", "ASYM"}
      /\ Says(h, n) \in {"SYM", "ASYM"} => n \in DOMAIN sn /\ sn[n] <= HOLD
  BY SaysWhat
<1>2. /\ kept \in LinkTuple
      /\ kept.asym = HOLD /\ kept.timer = old.timer /\ kept.status = old.status
      /\ Says(h, n) = "LOST" => kept.sym = -1
      /\ Says(h, n) \in {"SYM", "ASYM"} => kept.sym = HOLD
      /\ Says(h, n) = "nothing" => kept.sym = old.sym /\ kept.time = Greater(old.time, HOLD)
  BY <1>1, ToldFacts
<1>3. k = link_sensing(created, old, h, n)
  BY DEF link_sensing, Told
<1>4. created => old.sym = -1 /\ old.status = "NOT_SYM"
  BY DEF NewLink
<1> HIDE DEF kept
<1>5. /\ new \in LinkTuple
      /\ new.sym = kept.sym /\ new.asym = kept.asym /\ new.time = kept.time /\ new.timer = kept.timer
      /\ new.status = "SYM" => kept.sym >= 0
  <2>1. CASE created /\ Says(h, n) = "nothing"
    BY <2>1, <1>2, <1>4
  <2>2. CASE ~(created /\ Says(h, n) = "nothing")
    BY <2>2, <1>2, Updated, TupleFields
  <2>3. QED
    BY <2>1, <2>2
<1> HIDE DEF new
<1>6. /\ Lesser(new.time, new.sym) \in -1..(2 * HOLD)
  BY <1>5, HoldNat DEF Lesser, LinkTuple, Left
<1>7. /\ k \in LinkTuple
      /\ k.sym = kept.sym /\ k.asym = HOLD /\ k.time = kept.time /\ k.status = new.status
      /\ k.timer = IF created THEN Lesser(new.time, new.sym) ELSE old.timer
  BY <1>2, <1>5, <1>6 DEF LinkTuple
<1> HIDE DEF k
<1>8. Aged(k, 0)
  BY <1>7, TupleFields, HoldNat DEF Aged, Limit
<1>9. ASSUME Believed(k)
      PROVE  n \in DOMAIN sn /\ Mutual(k, sn[n])
  <2>1. k.sym >= 0 /\ Says(h, n) # "LOST"
    BY <1>9, <1>2, <1>5, <1>7 DEF Believed
  <2>2. CASE Says(h, n) \in {"SYM", "ASYM"}
    <3>1. n \in DOMAIN sn /\ sn[n] \in Nat /\ sn[n] <= HOLD
      BY <2>2, <1>1
    <3>2. Mutual(k, sn[n])
      BY <3>1, <1>7, TupleFields, HoldNat DEF Mutual
    <3>3. QED
      BY <3>1, <3>2
  <2>3. CASE Says(h, n) = "nothing"
    <3>1. ~created /\ old.sym >= 0
      BY <2>1, <2>3, <1>2, <1>4, <1>7
    <3>2. n \in DOMAIN sn /\ Mutual(old, sn[n]) /\ sn[n] \in Nat
      BY <3>1 DEF Believed
    <3>3. k.sym = old.sym /\ k.time = Greater(old.time, HOLD) /\ k.timer = old.timer
      BY <2>3, <3>1, <1>2, <1>7
    <3>4. sn[n] <= 2 * HOLD
      BY <3>1, <3>2, TupleFields, HoldNat DEF Mutual
    <3>5. Mutual(k, sn[n])
      BY <3>1, <3>2, <3>3, <3>4, TupleFields, HoldNat DEF Mutual, Greater
    <3>6. QED
      BY <3>2, <3>5
  <2>4. QED
    BY <2>1, <2>2, <2>3, <1>1
<1>10. QED
  BY <1>3, <1>7, <1>8, <1>9

-----------------------------------------------------------------------------
(* Steps of one node *)

LEMMA FollowsSelf == ASSUME NEW l PROVE Follows(l, l)
BY DEF Follows

LEMMA TimesStep ==
    ASSUME SinceOK, HellosOK, TimesOK, NEW n \in Node, UNCHANGED <<since, hello>>,
           \A j \in Node \ {n} : link'[j] = link[j],
           DOMAIN link'[n] \subseteq DOMAIN link[n],
           \A m \in DOMAIN link'[n] : Follows(link[n][m], link'[n][m])
    PROVE  SinceOK' /\ HellosOK' /\ TimesOK'
<1>1. \A j \in Node : DOMAIN link'[j] \subseteq DOMAIN link[j]
  OBVIOUS
<1>2. ASSUME NEW j \in Node, NEW m \in DOMAIN link'[j]
      PROVE  Follows(link[j][m], link'[j][m])
  BY <1>2, FollowsSelf
<1>3. SinceOK'
  BY <1>1 DEF SinceOK
<1>4. HellosOK'
  BY DEF HellosOK, HelloOK
<1>5. ASSUME NEW j \in Node, NEW m \in DOMAIN link'[j]
      PROVE  /\ Aged(link'[j][m], since[j][m])
             /\ Believed(link'[j][m]) => j \in DOMAIN since[m] /\ Mutual(link'[j][m], since[m][j])
  <2>1. /\ m \in DOMAIN link[j] /\ m \in Node /\ since[j][m] \in Nat
        /\ j \in DOMAIN since[m] => since[m][j] \in Nat
    BY <1>1, <1>5 DEF SinceOK
  <2>2. /\ Aged(link[j][m], since[j][m])
        /\ Believed(link[j][m]) => j \in DOMAIN since[m] /\ Mutual(link[j][m], since[m][j])
    BY <2>1 DEF TimesOK
  <2>3. Follows(link[j][m], link'[j][m])
    BY <1>2, <1>5
  <2>4. QED
    BY <2>1, <2>2, <2>3 DEF Follows
<1>6. TimesOK'
  BY <1>5 DEF TimesOK, Aged, Mutual, Believed, Limit
<1>7. QED
  BY <1>3, <1>4, <1>6

LEMMA SetsStep ==
    ASSUME Domains, TuplesOK, Fitting, NEW n \in Node, UNCHANGED <<mprset, rtable>>,
           \A j \in Node \ {n} : SetsOf(j)' = SetsOf(j) /\ (j \in unfit' <=> j \in unfit),
           SetsOK(SetsOf(n)', n),
           StillFits(SetsOf(n)', n, mprset[n], rtable[n]),
           n \notin unfit' => MadeFor(SetsOf(n)', n, mprset[n], rtable[n])
    PROVE  TuplesOK' /\ Fitting'
<1>1. \A j \in Node : SetsOK(SetsOf(j)', j)
  BY DEF TuplesOK
<1>2. \A j \in Node : /\ StillFits(SetsOf(j)', j, mprset'[j], rtable'[j])
                      /\ j \notin unfit' => MadeFor(SetsOf(j)', j, mprset'[j], rtable'[j])
  BY DEF Fitting
<1>3. TuplesOK'
  BY <1>1 DEF TuplesOK, SetsOK, LinksOK, Nb2hopOK, MprSelOK
<1>4. Fitting'
  BY <1>2 DEF Fitting, StillFits, MadeFor, Near, Firsts, Covered, Sym, TwoHop
<1>5. QED
  BY <1>3, <1>4

LEMMA LinkExpiresOK ==
    ASSUME IInv, NEW n \in Node, NEW m \in Node, LinkExpires(n, m)
    PROVE  IInv'
<1>1. /\ m \in DOMAIN link[n]
      /\ link' = [link EXCEPT ![n] = Without(@, {m})]
      /\ unfit' = IF link[n][m].status = "SYM" THEN unfit \cup {n} ELSE unfit
      /\ UNCHANGED <<nb2hop, mprset, mprsel, rtable, hello, sent, faults, since>>
  BY DEF LinkExpires, LinkDue
<1>2. /\ Domains /\ Counters /\ TuplesOK /\ Fitting /\ SinceOK /\ HellosOK /\ TimesOK
  BY DEF IInv
<1>3. Domains' /\ Counters'
  BY <1>1, <1>2 DEF Domains, Counters
<1>4. /\ link'[n] = Without(link[n], {m})
      /\ \A j \in Node \ {n} : link'[j] = link[j]
  BY <1>1, <1>2 DEF Domains
<1>5. /\ DOMAIN link'[n] = DOMAIN link[n] \ {m}
      /\ \A k \in DOMAIN link[n] \ {m} : link'[n][k] = link[n][k]
  BY <1>4 DEF Without
<1>6. SinceOK' /\ HellosOK' /\ TimesOK'
  <2>1. \A k \in DOMAIN link'[n] : Follows(link[n][k], link'[n][k])
    BY <1>5, FollowsSelf
  <2>2. QED
    BY <1>1, <1>2, <1>4, <1>5, <2>1, TimesStep
<1> DEFINE s == SetsOf(n)
           u == SetsOf(n)'
<1>7. /\ u.link = link'[n] /\ s.link = link[n]
      /\ u.nb2hop = s.nb2hop /\ u.mprsel = s.mprsel
  BY <1>1 DEF SetsOf
<1>8. SetsOK(s, n) /\ StillFits(s, n, mprset[n], rtable[n])
  BY <1>2 DEF TuplesOK, Fitting
<1>9. n \notin unfit => MadeFor(s, n, mprset[n], rtable[n])
  BY <1>2 DEF Fitting
<1>10. \A j \in Node \ {n} : SetsOf(j)' = SetsOf(j) /\ (j \in unfit' <=> j \in unfit)
  BY <1>1, <1>4 DEF SetsOf
<1> HIDE DEF s, u
<1>11. SetsOK(u, n)
  BY <1>5, <1>7, <1>8 DEF SetsOK, LinksOK
<1>12. Sym(u) = Sym(s) \ {m}
  BY <1>5, <1>7 DEF Sym
<1>13. StillFits(u, n, mprset[n], rtable[n])
  BY <1>5, <1>7, <1>8, <1>12 DEF StillFits
<1>14. n \notin unfit' => MadeFor(u, n, mprset[n], rtable[n])
  <2> SUFFICES ASSUME n \notin unfit' PROVE MadeFor(u, n, mprset[n], rtable[n])
    OBVIOUS
  <2>1. n \notin unfit /\ link[n][m].status # "SYM"
    BY <1>1
  <2>2. Sym(u) = Sym(s)
    BY <2>1, <1>7, <1>12 DEF Sym
  <2>3. QED
    BY <2>1, <2>2, <1>7, <1>9 DEF MadeFor, Covered, TwoHop
<1>15. TuplesOK' /\ Fitting'
  BY <1>1, <1>2, <1>10, <1>11, <1>13, <1>14, SetsStep DEF u
<1>16. QED
  BY <1>3, <1>6, <1>15 DEF IInv

LEMMA TupleStep ==
    ASSUME IInv, NEW n \in Node, NEW m \in DOMAIN link[n], NEW k \in LinkTuple,
           Follows(link[n][m], k), k.status = link[n][m].status,
           link' = [link EXCEPT ![n] = [link[n] EXCEPT ![m] = k]],
           UNCHANGED <<nb2hop, mprset, mprsel, rtable, hello, sent, faults, since, unfit>>
    PROVE  IInv'
<1>2. /\ Domains /\ Counters /\ TuplesOK /\ Fitting /\ SinceOK /\ HellosOK /\ TimesOK
  BY DEF IInv
<1>3. Domains' /\ Counters'
  BY <1>2 DEF Domains, Counters
<1>4. /\ link'[n] = [link[n] EXCEPT ![m] = k]
      /\ \A j \in Node \ {n} : link'[j] = link[j]
  BY <1>2 DEF Domains
<1>5. /\ DOMAIN link'[n] = DOMAIN link[n] /\ link'[n][m] = k
      /\ \A j \in DOMAIN link[n] \ {m} : link'[n][j] = link[n][j]
  BY <1>4
<1>6. SinceOK' /\ HellosOK' /\ TimesOK'
  <2>1. \A j \in DOMAIN link'[n] : Follows(link[n][j], link'[n][j])
    BY <1>5, FollowsSelf
  <2>2. QED
    BY <1>2, <1>4, <1>5, <2>1, TimesStep
<1> DEFINE s == SetsOf(n)
           u == SetsOf(n)'
<1>7. /\ u.link = link'[n] /\ s.link = link[n]
      /\ u.nb2hop = s.nb2hop /\ u.mprsel = s.mprsel
  BY DEF SetsOf
<1>8. SetsOK(s, n) /\ StillFits(s, n, mprset[n], rtable[n])
  BY <1>2 DEF TuplesOK, Fitting
<1>9. n \notin unfit => MadeFor(s, n, mprset[n], rtable[n])
  BY <1>2 DEF Fitting
<1>10. \A j \in Node \ {n} : SetsOf(j)' = SetsOf(j) /\ (j \in unfit' <=> j \in unfit)
  BY <1>4 DEF SetsOf
<1> HIDE DEF s, u
<1>11. SetsOK(u, n)
  BY <1>5, <1>7, <1>8 DEF SetsOK, LinksOK
<1>12. Sym(u) = Sym(s)
  BY <1>5, <1>7 DEF Sym
<1>13. StillFits(u, n, mprset[n], rtable[n])
  BY <1>5, <1>7, <1>8, <1>12 DEF StillFits
<1>14. n \notin unfit' => MadeFor(u, n, mprset[n], rtable[n])
  BY <1>7, <1>9, <1>12 DEF MadeFor, Covered, TwoHop
<1>15. TuplesOK' /\ Fitting'
  BY <1>2, <1>10, <1>11, <1>13, <1>14, SetsStep DEF u
<1>16. QED
  BY <1>3, <1>6, <1>15 DEF IInv

LEMMA LinkLivesOK ==
    ASSUME IInv, NEW n \in Node, NEW m \in Node, LinkLives(n, m)
    PROVE  IInv'
<1> DEFINE l == link[n][m]
           k == [l EXCEPT !.timer = Lesser(l.time, l.sym)]
<1>1. m \in DOMAIN link[n] /\ l.time >= 0 /\ l.sym >= 0 /\ l \in LinkTuple
  BY DEF LinkLives, LinkDue, IInv, TuplesOK, SetsOK, LinksOK, SetsOf
<1>2. link' = [link EXCEPT ![n] = [link[n] EXCEPT ![m] = k]]
  BY DEF LinkLives
<1>3. UNCHANGED <<nb2hop, mprset, mprsel, rtable, hello, sent, faults, since, unfit>>
  BY DEF LinkLives
<1>4. k \in LinkTuple /\ k.status = l.status /\ Follows(l, k)
  BY <1>1, LivesFollows
<1> HIDE DEF k
<1>5. QED
  BY <1>1, <1>2, <1>3, <1>4, TupleStep

LEMMA SparedOK ==
    ASSUME IInv, NEW n \in Node, NEW m \in Node, m \in LinkDue(n), link[n][m].time >= 0,
           link' = [link EXCEPT ![n][m].first_time = FALSE, ![n][m].timer = link[n][m].time],
           UNCHANGED <<nb2hop, mprset, mprsel, rtable, hello, sent, faults, since, unfit>>
    PROVE  IInv'
<1> DEFINE l == link[n][m]
           k == [l EXCEPT !.first_time = FALSE, !.timer = l.time]
<1>1. m \in DOMAIN link[n] /\ l.time >= 0 /\ l.timer < 0 /\ l \in LinkTuple
  BY DEF LinkDue, IInv, TuplesOK, SetsOK, LinksOK, SetsOf
<1>2. link' = [link EXCEPT ![n] = [link[n] EXCEPT ![m] = k]]
  OBVIOUS
<1>3. k \in LinkTuple /\ k.status = l.status /\ Follows(l, k)
  BY <1>1, SparedFollows
<1> HIDE DEF k
<1>4. QED
  BY <1>1, <1>2, <1>3, TupleStep

LEMMA Nb2hopExpiresOK ==
    ASSUME IInv, NEW n \in Node, NEW p, Nb2hopExpires(n, p)
    PROVE  IInv'
<1>1. /\ p \in DOMAIN nb2hop[n]
      /\ nb2hop' = [nb2hop EXCEPT ![n] = Without(@, {p})]
      /\ unfit' = IF p \in TwoHop(SetsOf(n)) /\ p[1] \in mprset[n] THEN unfit \cup {n} ELSE unfit
      /\ UNCHANGED <<link, mprset, mprsel, rtable, hello, sent, faults, since>>
  BY DEF Nb2hopExpires, Nb2hopDue
<1>2. /\ Domains /\ Counters /\ TuplesOK /\ Fitting /\ SinceOK /\ HellosOK /\ TimesOK
  BY DEF IInv
<1>3. Domains' /\ Counters'
  BY <1>1, <1>2 DEF Domains, Counters
<1>4. SinceOK' /\ HellosOK' /\ TimesOK'
  BY <1>1, <1>2, FollowsSelf, TimesStep
<1>5. /\ nb2hop'[n] = Without(nb2hop[n], {p})
      /\ \A j \in Node \ {n} : nb2hop'[j] = nb2hop[j]
  BY <1>1, <1>2 DEF Domains
<1>6. /\ DOMAIN nb2hop'[n] = DOMAIN nb2hop[n] \ {p}
      /\ \A q \in DOMAIN nb2hop[n] \ {p} : nb2hop'[n][q] = nb2hop[n][q]
  BY <1>5 DEF Without
<1> DEFINE s == SetsOf(n)
           u == SetsOf(n)'
<1>7. /\ u.nb2hop = nb2hop'[n] /\ s.nb2hop = nb2hop[n]
      /\ u.link = s.link /\ u.mprsel = s.mprsel
  BY <1>1 DEF SetsOf
<1>8. SetsOK(s, n) /\ StillFits(s, n, mprset[n], rtable[n])
  BY <1>2 DEF TuplesOK, Fitting
<1>9. n \notin unfit => MadeFor(s, n, mprset[n], rtable[n])
  BY <1>2 DEF Fitting
<1>10. \A j \in Node \ {n} : SetsOf(j)' = SetsOf(j) /\ (j \in unfit' <=> j \in unfit)
  BY <1>1, <1>5 DEF SetsOf
<1>11. n \notin unfit' => n \notin unfit /\ ~(p \in TwoHop(s) /\ p[1] \in mprset[n])
  BY <1>1
<1> HIDE DEF s, u
<1>12. SetsOK(u, n)
  BY <1>6, <1>7, <1>8 DEF SetsOK, Nb2hopOK
<1>13. Sym(u) = Sym(s) /\ TwoHop(u) = TwoHop(s) \ {p}
  BY <1>6, <1>7 DEF Sym, TwoHop
<1>14. StillFits(u, n, mprset[n], rtable[n])
  BY <1>7, <1>8, <1>13 DEF StillFits
<1>15. n \notin unfit' => MadeFor(u, n, mprset[n], rtable[n])
  <2> SUFFICES ASSUME n \notin unfit' PROVE MadeFor(u, n, mprset[n], rtable[n])
    OBVIOUS
  <2>1. MadeFor(s, n, mprset[n], rtable[n]) /\ ~(p \in TwoHop(s) /\ p[1] \in mprset[n])
    BY <1>9, <1>11
  <2>2. Covered(mprset[n], u)
    BY <2>1, <1>13 DEF MadeFor, Covered
  <2>3. QED
    BY <2>1, <2>2, <1>13 DEF MadeFor
<1>16. TuplesOK' /\ Fitting'
  BY <1>1, <1>2, <1>10, <1>12, <1>14, <1>15, SetsStep DEF u
<1>17. QED
  BY <1>3, <1>4, <1>16 DEF IInv

LEMMA MprSelExpiresOK ==
    ASSUME IInv, NEW n \in Node, NEW m \in Node, MprSelExpires(n, m)
    PROVE  IInv'
<1>1. /\ mprsel' = [mprsel EXCEPT ![n] = Without(@, {m})]
      /\ UNCHANGED <<link, nb2hop, mprset, rtable, hello, sent, faults, since, unfit>>
  BY DEF MprSelExpires
<1>2. /\ Domains /\ Counters /\ TuplesOK /\ Fitting /\ SinceOK /\ HellosOK /\ TimesOK
  BY DEF IInv
<1>3. Domains' /\ Counters'
  BY <1>1, <1>2 DEF Domains, Counters
<1>4. SinceOK' /\ HellosOK' /\ TimesOK'
  BY <1>1, <1>2, FollowsSelf, TimesStep
<1>5. /\ mprsel'[n] = Without(mprsel[n], {m})
      /\ \A j \in Node \ {n} : mprsel'[j] = mprsel[j]
  BY <1>1, <1>2 DEF Domains
<1>6. /\ DOMAIN mprsel'[n] = DOMAIN mprsel[n] \ {m}
      /\ \A q \in DOMAIN mprsel[n] \ {m} : mprsel'[n][q] = mprsel[n][q]
  BY <1>5 DEF Without
<1> DEFINE s == SetsOf(n)
           u == SetsOf(n)'
<1>7. /\ u.nb2hop = s.nb2hop /\ u.link = s.link
      /\ u.mprsel = mprsel'[n] /\ s.mprsel = mprsel[n]
  BY <1>1 DEF SetsOf
<1>8. /\ SetsOK(s, n) /\ StillFits(s, n, mprset[n], rtable[n])
      /\ n \notin unfit => MadeFor(s, n, mprset[n], rtable[n])
  BY <1>2 DEF TuplesOK, Fitting
<1>9. \A j \in Node \ {n} : SetsOf(j)' = SetsOf(j) /\ (j \in unfit' <=> j \in unfit)
  BY <1>1, <1>5 DEF SetsOf
<1> HIDE DEF s, u
<1>10. SetsOK(u, n)
  BY <1>6, <1>7, <1>8 DEF SetsOK, MprSelOK
<1>11. StillFits(u, n, mprset[n], rtable[n])
  BY <1>7, <1>8 DEF StillFits, Sym
<1>12. n \notin unfit' => MadeFor(u, n, mprset[n], rtable[n])
  BY <1>1, <1>7, <1>8, SameSets
<1>13. TuplesOK' /\ Fitting'
  BY <1>1, <1>2, <1>9, <1>10, <1>11, <1>12, SetsStep DEF u
<1>14. QED
  BY <1>3, <1>4, <1>13 DEF IInv

LEMMA SendHelloOK ==
    ASSUME IInv, NEW n \in Node, SendHello(n)
    PROVE  IInv'
<1> DEFINE h == [m \in {m \in DOMAIN link[n] : link[n][m].time >= 0} |->
                    [lt |-> LinkType(link[n][m]), nt |-> NeighbourType(n, m)]]
<1>1. /\ sent' = sent \cup {n}
      /\ hello' = [hello EXCEPT ![n] = h]
      /\ UNCHANGED <<link, nb2hop, mprset, mprsel, rtable, faults, since, unfit>>
  BY DEF SendHello
<1>2. /\ Domains /\ Counters /\ TuplesOK /\ Fitting /\ SinceOK /\ HellosOK /\ TimesOK
  BY DEF IInv
<1>3. DOMAIN h \subseteq Node \ {n} /\ DOMAIN h \subseteq DOMAIN link[n]
  BY <1>2 DEF TuplesOK, SetsOK, LinksOK, SetsOf
<1>4. ASSUME NEW m \in DOMAIN h
      PROVE  /\ h[m] \in Entry
             /\ h[m].lt # "LOST" => m \in DOMAIN since[n] /\ since[n][m] <= HOLD
  <2> DEFINE l == link[n][m]
  <2>1. h[m] = [lt |-> LinkType(l), nt |-> NeighbourType(n, m)]
    BY <1>4
  <2>2. m \in DOMAIN link[n] /\ l \in LinkTuple
    BY <1>3, <1>4, <1>2 DEF TuplesOK, SetsOK, LinksOK, SetsOf
  <2>3. m \in DOMAIN since[n] /\ since[n][m] \in Nat /\ Aged(l, since[n][m])
    BY <2>2, <1>2 DEF SinceOK, TimesOK
  <2> HIDE DEF h, l
  <2>4. LinkType(l) \in {"LOST", "SYM", "ASYM"} /\ NeighbourType(n, m) \in {"NOT", "SYM", "MPR"}
    BY DEF LinkType, NeighbourType
  <2>5. LinkType(l) # "LOST" => l.sym >= 0 \/ l.asym >= 0
    BY DEF LinkType
  <2>6. LinkType(l) # "LOST" => since[n][m] <= HOLD
    BY <2>2, <2>3, <2>5, TupleFields, HoldNat DEF Aged
  <2>7. QED
    BY <2>1, <2>3, <2>4, <2>6 DEF Entry
<1>5. HelloOK(h, n, since[n])
  <2> HIDE DEF h
  <2>1. QED
    BY <1>3, <1>4 DEF HelloOK
<1> HIDE DEF h
<1>6. Domains' /\ Counters'
  BY <1>1, <1>2 DEF Domains, Counters
<1>7. HellosOK'
  <2>1. \A m \in Node : hello'[m] = (IF m = n THEN h ELSE hello[m])
    BY <1>1, <1>2 DEF Domains
  <2>2. \A m \in Node : hello'[m] # None => HelloOK(hello'[m], m, since'[m])
    BY <2>1, <1>1, <1>2, <1>5 DEF HellosOK
  <2>3. QED
    BY <2>2 DEF HellosOK, HelloOK
<1>8. TuplesOK' /\ Fitting' /\ SinceOK' /\ TimesOK'
  BY <1>1, <1>2 DEF TuplesOK, SetsOK, LinksOK, Nb2hopOK, MprSelOK, Fitting, StillFits, MadeFor,
       Near, Firsts, Covered, Sym, TwoHop, SinceOK, TimesOK, Aged, Mutual, Believed, Limit, SetsOf
<1>9. QED
  BY <1>6, <1>7, <1>8 DEF IInv

LEMMA LossStep ==
    ASSUME IInv, NEW n \in Node, NEW m \in DOMAIN link[n], NEW j \in LinkTuple,
           Follows(link[n][m], updated_link_tuple(j)),
           NEW s, s = [SetsOf(n) EXCEPT !.link = [link[n] EXCEPT ![m] = j]],
           Become([k \in {n} |-> nb_loss(s, m)], {n}),
           UNCHANGED <<hello, sent, since>>, faults' \in 0..MaxFaults
    PROVE  IInv'
<1> DEFINE new == [k \in {n} |-> nb_loss(s, m)]
           i == updated_link_tuple(j)
<1>1. /\ Domains /\ Counters /\ TuplesOK /\ Fitting /\ SinceOK /\ HellosOK /\ TimesOK
  BY DEF IInv
<1>2. /\ s.link = [link[n] EXCEPT ![m] = j] /\ s.nb2hop = nb2hop[n] /\ s.mprsel = mprsel[n]
      /\ SetsOK(SetsOf(n), n)
  BY <1>1 DEF SetsOf, TuplesOK
<1>3. i \in LinkTuple
  BY Updated
<1>4. /\ s.link[m] = j /\ DOMAIN s.link = DOMAIN link[n]
      /\ [s.link EXCEPT ![m] = updated_link_tuple(@)] = [link[n] EXCEPT ![m] = i]
  BY <1>2
<1>5. /\ new[n].link = [link[n] EXCEPT ![m] = i]
      /\ new[n].nb2hop = Without(nb2hop[n], {m} \X Node)
      /\ new[n].mprsel = Without(mprsel[n], {m})
  BY <1>2, <1>4 DEF nb_loss
<1> HIDE DEF i, new
<1>6. SetsOK(new[n], n)
  <2>1. LinksOK(link[n], n) /\ Nb2hopOK(nb2hop[n], n) /\ MprSelOK(mprsel[n])
    BY <1>2 DEF SetsOK, SetsOf
  <2>2. LinksOK(new[n].link, n)
    BY <1>3, <1>5, <2>1 DEF LinksOK
  <2>3. Nb2hopOK(new[n].nb2hop, n)
    BY <1>5, <2>1 DEF Nb2hopOK, Without
  <2>4. MprSelOK(new[n].mprsel)
    BY <1>5, <2>1 DEF MprSelOK, Without
  <2>5. QED
    BY <2>2, <2>3, <2>4 DEF SetsOK
<1>7. Remade(new, {n})
  <2>1. Become(new, {n})
    BY DEF new
  <2>2. QED
    BY <1>1, <1>6, <2>1, BecomeFits
<1>8. /\ link'[n] = [link[n] EXCEPT ![m] = i]
      /\ \A k \in Node \ {n} : link'[k] = link[k]
      /\ TuplesOK' /\ Fitting'
  BY <1>5, <1>7 DEF Remade
<1>9. SinceOK' /\ HellosOK' /\ TimesOK'
  <2>1. \A k \in DOMAIN link'[n] : Follows(link[n][k], link'[n][k])
    BY <1>8, FollowsSelf DEF i
  <2>2. DOMAIN link'[n] = DOMAIN link[n]
    BY <1>8
  <2>3. QED
    BY <1>1, <1>8, <2>1, <2>2, TimesStep
<1>10. Domains' /\ Counters'
  BY <1>1, <1>7 DEF Domains, Counters, Remade
<1>11. QED
  BY <1>8, <1>9, <1>10 DEF IInv

LEMMA SymExpiresOK ==
    ASSUME IInv, NEW n \in Node, NEW m \in Node, SymExpires(n, m)
    PROVE  IInv'
<1> DEFINE l == link[n][m]
           j == [l EXCEPT !.timer = l.time]
           s == [SetsOf(n) EXCEPT !.link[m].timer = l.time]
<1>1. /\ m \in LinkDue(n) /\ l.time >= 0 /\ l.sym < 0
      /\ UNCHANGED <<hello, sent, faults, since>>
  BY DEF SymExpires
<1>2. m \in DOMAIN link[n] /\ l \in LinkTuple /\ l.timer < 0
  BY <1>1 DEF LinkDue, IInv, TuplesOK, SetsOK, LinksOK, SetsOf
<1>3. CASE l.first_time
  <2>1. /\ link' = [link EXCEPT ![n][m].first_time = FALSE, ![n][m].timer = l.time]
        /\ UNCHANGED <<nb2hop, mprset, mprsel, rtable, unfit>>
    BY <1>3 DEF SymExpires
  <2>2. QED
    BY <1>1, <2>1, SparedOK
<1>4. CASE ~l.first_time
  <2>1. Become([k \in {n} |-> nb_loss(s, m)], {n})
    BY <1>4 DEF SymExpires
  <2>2. s = [SetsOf(n) EXCEPT !.link = [link[n] EXCEPT ![m] = j]]
    BY DEF SetsOf
  <2>3. j \in LinkTuple
    BY <1>2 DEF LinkTuple
  <2>4. Follows(l, updated_link_tuple(j))
    BY <1>1, <1>2, LossFollows
  <2>5. faults' \in 0..MaxFaults
    BY <1>1 DEF IInv, Counters
  <2> HIDE DEF s, j
  <2>6. QED
    BY <1>1, <1>2, <2>1, <2>2, <2>3, <2>4, <2>5, LossStep DEF l
<1>5. QED
  BY <1>3, <1>4

LEMMA FailureOK ==
    ASSUME IInv, NEW n \in Node, NEW m \in Node, mac_failed(n, m)
    PROVE  IInv'
<1> DEFINE l == link[n][m]
           j == [l EXCEPT !.lost = HOLD, !.time = HOLD]
           s == [SetsOf(n) EXCEPT !.link[m].lost = HOLD, !.link[m].time = HOLD]
<1>1. /\ NothingDue /\ UseMac /\ faults < MaxFaults /\ faults' = faults + 1
      /\ \E d \in DOMAIN rtable[n] : m \in rtable[n][d].nexts
      /\ m \in DOMAIN link[n]
      /\ Become([k \in {n} |-> nb_loss(s, m)], {n})
      /\ UNCHANGED <<hello, sent, since>>
  BY DEF mac_failed
<1>2. l \in LinkTuple
  BY <1>1 DEF IInv, TuplesOK, SetsOK, LinksOK, SetsOf
<1>3. l.timer >= 0
  BY <1>1, <1>2, TupleFields DEF NothingDue, LinkDue
  \* Only a node that still counts as symmetric is the first hop of a route.
<1>4. l.status = "SYM"
  <2>1. m \in Firsts(rtable[n])
    BY <1>1 DEF Firsts
  <2>2. Firsts(rtable[n]) \cap DOMAIN link[n] \subseteq Sym(SetsOf(n))
    BY DEF IInv, Fitting, StillFits, SetsOf
  <2>3. QED
    BY <1>1, <2>1, <2>2 DEF Sym, SetsOf
<1>5. s = [SetsOf(n) EXCEPT !.link = [link[n] EXCEPT ![m] = j]]
  BY DEF SetsOf
<1>6. j \in LinkTuple
  <2>1. HOLD \in Left /\ HOLD \in -1..(2 * HOLD)
    BY HoldNat DEF Left
  <2>2. QED
    BY <1>2, <2>1 DEF LinkTuple
<1>7. Follows(l, updated_link_tuple(j))
  BY <1>1, <1>2, <1>3, <1>4, FailureFollows
<1>8. faults' \in 0..MaxFaults
  BY <1>1, ConstantsAssumption DEF IInv, Counters
<1> HIDE DEF s, j
<1>9. QED
  BY <1>1, <1>5, <1>6, <1>7, <1>8, LossStep DEF l

LEMMA ProcessedOK ==
    ASSUME IInv, NEW n \in Node, NEW m \in Node, m # n, hello[m] # None
    PROVE  LET u == process_hello(n, m, hello[m]) IN
           /\ SetsOK(u, n)
           /\ DOMAIN u.link = DOMAIN link[n] \cup {m}
           /\ \A k \in DOMAIN link[n] \ {m} : u.link[k] = link[n][k]
           /\ Aged(u.link[m], 0)
           /\ Believed(u.link[m]) => n \in DOMAIN since[m] /\ Mutual(u.link[m], since[m][n])
<1> DEFINE h == hello[m]
           created == m \notin DOMAIN link[n]
           old == IF created THEN NewLink ELSE link[n][m]
           l == link_sensing(created, old, h, n)
           u == process_hello(n, m, h)
<1>1. HelloOK(h, m, since[m]) /\ \A x \in DOMAIN since[m] : since[m][x] \in Nat
  BY DEF IInv, HellosOK, SinceOK
<1>2. /\ LinksOK(link[n], n) /\ Nb2hopOK(nb2hop[n], n) /\ MprSelOK(mprsel[n])
  BY DEF IInv, TuplesOK, SetsOK, SetsOf
<1>3. old \in LinkTuple /\ (created => old = NewLink)
  <2>1. -1 \in Left /\ -1 \in -1..(2 * HOLD) /\ HOLD \in -1..(2 * HOLD)
    BY HoldNat DEF Left
  <2>2. NewLink \in LinkTuple
    BY <2>1 DEF NewLink, LinkTuple
  <2>3. QED
    BY <1>2, <2>2 DEF LinksOK
<1>4. ~created /\ Believed(old) => n \in DOMAIN since[m] /\ Mutual(old, since[m][n])
  BY DEF IInv, TimesOK
<1>5. created \in BOOLEAN
  OBVIOUS
<1> HIDE DEF old, created, h
<1>6. /\ l \in LinkTuple /\ Aged(l, 0)
      /\ Believed(l) => n \in DOMAIN since[m] /\ Mutual(l, since[m][n])
  <2> DEFINE sn == since[m]
  <2>1. /\ HelloOK(h, m, sn) /\ \A x \in DOMAIN sn : sn[x] \in Nat
        /\ ~created /\ Believed(old) => n \in DOMAIN sn /\ Mutual(old, sn[n])
    BY <1>1, <1>4
  <2> HIDE DEF sn
  <2>2. /\ l \in LinkTuple /\ Aged(l, 0)
        /\ Believed(l) => n \in DOMAIN sn /\ Mutual(l, sn[n])
    BY <1>3, <1>5, <2>1, Sensed
  <2>3. QED
    BY <2>2 DEF sn
<1>7. /\ u.link = With(link[n], m, l)
      /\ u.nb2hop = IF l.sym >= 0 THEN populate_nb2hopset(nb2hop[n], m, h, n) ELSE nb2hop[n]
      /\ u.mprsel = populate_mprselset(mprsel[n], m, h, n)
  BY DEF process_hello, old, created, h
<1> HIDE DEF l, u
<1>8. /\ DOMAIN u.link = DOMAIN link[n] \cup {m} /\ u.link[m] = l
      /\ \A k \in DOMAIN link[n] \ {m} : u.link[k] = link[n][k]
  BY <1>7 DEF With, Over
<1>9. LinksOK(u.link, n)
  BY <1>2, <1>6, <1>8 DEF LinksOK
<1>10. Nb2hopOK(u.nb2hop, n)
  <2> DEFINE erased == {m} \X {f \in DOMAIN h : h[f].nt = "NOT"}
             heard  == {m} \X {f \in (DOMAIN h) \ {n} : h[f].nt # "NOT"}
             nb     == [p \in DOMAIN nb2hop[n] \ erased |-> nb2hop[n][p]]
             v      == [p \in heard \cup DOMAIN nb |-> IF p \in heard THEN HOLD ELSE nb[p]]
  <2>1. populate_nb2hopset(nb2hop[n], m, h, n) = v
    BY DEF populate_nb2hopset, Over, Without
  <2>2. DOMAIN h \subseteq Node
    BY <1>1 DEF HelloOK
  <2>3. heard \subseteq Node \X (Node \ {n})
    BY <2>2
  <2>4. HOLD \in Left
    BY HoldNat DEF Left
  <2> HIDE DEF erased, heard
  <2>5. Nb2hopOK(v, n)
    BY <1>2, <2>3, <2>4 DEF Nb2hopOK
  <2>6. QED
    BY <1>2, <1>7, <2>1, <2>5
<1>11. MprSelOK(u.mprsel)
  <2>1. HOLD \in Left
    BY HoldNat DEF Left
  <2>2. QED
    BY <1>2, <1>7, <2>1 DEF MprSelOK, populate_mprselset, With, Over
<1>12. QED
  BY <1>6, <1>8, <1>9, <1>10, <1>11 DEF SetsOK, u, h

LEMMA HeardStill ==
    ASSUME NEW h, NEW k, NEW sn, HelloOK(h, k, sn), NEW m
    PROVE  HelloOK(h, k, With(sn, m, 0))
BY HoldNat DEF HelloOK, With, Over

LEMMA MutualNow ==
    ASSUME NEW l \in LinkTuple
    PROVE  Mutual(l, 0)
BY TupleFields, HoldNat DEF Mutual

LEMMA HearOK ==
    ASSUME IInv, NEW m \in Node, Hear(m)
    PROVE  IInv'
<1>1. /\ Domains /\ Counters /\ TuplesOK /\ Fitting /\ SinceOK /\ HellosOK /\ TimesOK
  BY DEF IInv
<1>2. /\ hello[m] # None /\ hello' = [hello EXCEPT ![m] = None] /\ sent' = sent
  BY DEF Hear
<1>3. PICK missing \in SUBSET {n \in Node : <<m, n>> \in Lossy} :
          LET to == {n \in Node : <<m, n>> \in Link} \ missing IN
          /\ faults' = faults + Cardinality(missing)
          /\ faults' <= MaxFaults
          /\ Become([n \in to |-> process_hello(n, m, hello[m])], to)
          /\ since' = [n \in Node |-> IF n \in to THEN With(since[n], m, 0) ELSE since[n]]
  BY DEF Hear
<1> DEFINE to  == {n \in Node : <<m, n>> \in Link} \ missing
           new == [n \in to |-> process_hello(n, m, hello[m])]
<1>4. /\ faults' = faults + Cardinality(missing) /\ faults' <= MaxFaults
      /\ Become(new, to)
      /\ since' = [n \in Node |-> IF n \in to THEN With(since[n], m, 0) ELSE since[n]]
  BY <1>3
<1>5. to \subseteq Node /\ m \notin to
  BY ConstantsAssumption
<1>6. faults' \in 0..MaxFaults
  <2>1. Cardinality(missing) \in Nat
    <3>1. IsFiniteSet(missing)
      BY ConstantsAssumption, FS_Subset
    <3>2. QED
      BY <3>1, FS_CardinalityType
  <2>2. QED
    BY <1>1, <1>4, <2>1, ConstantsAssumption DEF Counters
<1>7. ASSUME NEW n \in to
      PROVE  /\ SetsOK(new[n], n)
             /\ DOMAIN new[n].link = DOMAIN link[n] \cup {m}
             /\ \A k \in DOMAIN link[n] \ {m} : new[n].link[k] = link[n][k]
             /\ Aged(new[n].link[m], 0)
             /\ Believed(new[n].link[m]) =>
                    n \in DOMAIN since[m] /\ Mutual(new[n].link[m], since[m][n])
  <2>1. new[n] = process_hello(n, m, hello[m]) /\ n \in Node /\ m # n
    BY <1>5, <1>7
  <2>2. QED
    BY <1>2, <2>1, ProcessedOK
<1> HIDE DEF to, new
<1>8. Remade(new, to)
  BY <1>1, <1>4, <1>5, <1>7, BecomeFits
<1>9. /\ DOMAIN since' = Node
      /\ \A n \in to : /\ DOMAIN since'[n] = DOMAIN since[n] \cup {m}
                       /\ since'[n][m] = 0
                       /\ \A k \in DOMAIN since[n] \ {m} : since'[n][k] = since[n][k]
      /\ \A n \in Node \ to : since'[n] = since[n]
  BY <1>4, <1>5 DEF With, Over
<1>10. /\ \A n \in to : link'[n] = new[n].link
       /\ \A n \in Node \ to : link'[n] = link[n]
       /\ TuplesOK' /\ Fitting'
  BY <1>8 DEF Remade
<1>11. Domains' /\ Counters'
  BY <1>1, <1>2, <1>6, <1>8, <1>9 DEF Domains, Counters, Remade
<1>12. SinceOK'
  <2>1. ASSUME NEW n \in Node
        PROVE  /\ DOMAIN since'[n] \subseteq Node
               /\ \A k \in DOMAIN since'[n] : since'[n][k] \in Nat
               /\ DOMAIN link'[n] \subseteq DOMAIN since'[n]
    <3>1. CASE n \in to
      BY <3>1, <1>1, <1>7, <1>9, <1>10 DEF SinceOK
    <3>2. CASE n \notin to
      BY <3>2, <1>1, <1>9, <1>10 DEF SinceOK
    <3>3. QED
      BY <3>1, <3>2
  <2>2. QED
    BY <2>1 DEF SinceOK
<1>13. HellosOK'
  <2>1. ASSUME NEW k \in Node, hello'[k] # None
        PROVE  HelloOK(hello'[k], k, since'[k])
    <3>1. hello'[k] = hello[k] /\ hello[k] # None
      BY <2>1, <1>1, <1>2 DEF Domains
    <3>2. HelloOK(hello[k], k, since[k])
      BY <3>1, <1>1 DEF HellosOK
    <3>3. since'[k] = With(since[k], m, 0) \/ since'[k] = since[k]
      BY <1>4
    <3>4. QED
      BY <3>1, <3>2, <3>3, HeardStill
  <2>2. QED
    BY <2>1 DEF HellosOK, HelloOK
<1>14. TimesOK'
  <2>1. ASSUME NEW n \in Node, NEW k \in DOMAIN link'[n]
        PROVE  /\ Aged(link'[n][k], since'[n][k])
               /\ Believed(link'[n][k]) =>
                      n \in DOMAIN since'[k] /\ Mutual(link'[n][k], since'[k][n])
    <3>1. CASE n \in to /\ k = m
      <4>1. since'[n][k] = 0 /\ since'[k] = since[k] /\ link'[n][k] = new[n].link[m]
        BY <3>1, <1>5, <1>9, <1>10
      <4>2. QED
        BY <3>1, <4>1, <1>7
    <3>2. CASE ~(n \in to /\ k = m)
      <4>1. k \in DOMAIN link[n] /\ link'[n][k] = link[n][k] /\ k \in Node /\ link[n][k] \in LinkTuple
        <5>1. k \in DOMAIN link[n] /\ link'[n][k] = link[n][k]
          BY <2>1, <3>2, <1>7, <1>10
        <5>2. QED
          BY <5>1, <1>1 DEF TuplesOK, SetsOK, LinksOK, SetsOf
      <4>2. since'[n][k] = since[n][k]
        BY <3>2, <4>1, <1>1, <1>9 DEF SinceOK
      <4>3. /\ Aged(link[n][k], since[n][k])
            /\ Believed(link[n][k]) => n \in DOMAIN since[k] /\ Mutual(link[n][k], since[k][n])
        BY <4>1, <1>1 DEF TimesOK
      <4>4. n \in DOMAIN since[k] =>
                n \in DOMAIN since'[k] /\ (since'[k][n] = since[k][n] \/ since'[k][n] = 0)
        BY <4>1, <1>9
      <4>5. QED
        BY <4>1, <4>2, <4>3, <4>4, MutualNow
    <3>3. QED
      BY <3>1, <3>2
  <2>2. QED
    BY <2>1 DEF TimesOK, Aged, Mutual, Believed, Limit
<1>15. QED
  BY <1>10, <1>11, <1>12, <1>13, <1>14 DEF IInv

LEMMA TickOK ==
    ASSUME IInv, Tick
    PROVE  IInv'
<1>1. /\ Domains /\ Counters /\ TuplesOK /\ Fitting /\ SinceOK /\ HellosOK /\ TimesOK
  BY DEF IInv
<1>2. /\ \A n \in Node : hello[n] = None
      /\ link' = [n \in Node |-> [m \in DOMAIN link[n] |-> Aging(link[n][m])]]
      /\ nb2hop' = [n \in Node |-> [p \in DOMAIN nb2hop[n] |-> Down(nb2hop[n][p])]]
      /\ mprsel' = [n \in Node |-> [m \in DOMAIN mprsel[n] |-> Down(mprsel[n][m])]]
      /\ since' = [n \in Node |-> [m \in DOMAIN since[n] |-> Lesser(since[n][m] + 1, 3 * HOLD + 1)]]
      /\ sent' = {}
      /\ UNCHANGED <<mprset, rtable, hello, faults, unfit>>
  BY DEF Tick, Aging
<1>3. Domains' /\ Counters'
  BY <1>1, <1>2 DEF Domains, Counters
<1>4. ASSUME NEW n \in Node
      PROVE  /\ DOMAIN since'[n] = DOMAIN since[n]
             /\ \A m \in DOMAIN since[n] : /\ since[n][m] \in Nat /\ since'[n][m] \in Nat
                                           /\ since'[n][m] <= since[n][m] + 1
  <2>1. \A m \in DOMAIN since[n] : since[n][m] \in Nat
    BY <1>1 DEF SinceOK
  <2>2. QED
    BY <1>2, <2>1, HoldNat DEF Lesser
<1>5. ASSUME NEW n \in Node
      PROVE  /\ DOMAIN link'[n] = DOMAIN link[n]
             /\ \A m \in DOMAIN link[n] : /\ link[n][m] \in LinkTuple /\ m \in Node \ {n}
                                          /\ link'[n][m] = Aging(link[n][m])
  <2>1. LinksOK(link[n], n)
    BY <1>1 DEF TuplesOK, SetsOK, SetsOf
  <2>2. QED
    BY <1>2, <2>1 DEF LinksOK
<1>6. SinceOK'
  BY <1>1, <1>4, <1>5 DEF SinceOK
<1>7. HellosOK'
  BY <1>2 DEF HellosOK
<1>8. TimesOK'
  <2>1. ASSUME NEW n \in Node, NEW m \in DOMAIN link'[n]
        PROVE  /\ Aged(link'[n][m], since'[n][m])
               /\ Believed(link'[n][m]) =>
                      n \in DOMAIN since'[m] /\ Mutual(link'[n][m], since'[m][n])
    <3> DEFINE l == link[n][m]
    <3>1. l \in LinkTuple /\ link'[n][m] = Aging(l) /\ m \in Node /\ m \in DOMAIN link[n]
      BY <2>1, <1>5
    <3>2. /\ m \in DOMAIN since[n] /\ since[n][m] \in Nat
          /\ since'[n][m] \in Nat /\ since'[n][m] <= since[n][m] + 1
      BY <3>1, <1>1, <1>4 DEF SinceOK
    <3>3. /\ Aged(l, since[n][m])
          /\ Believed(l) => n \in DOMAIN since[m] /\ Mutual(l, since[m][n])
      BY <3>1, <1>1 DEF TimesOK
    <3>4. n \in DOMAIN since[m] =>
              /\ n \in DOMAIN since'[m] /\ since[m][n] \in Nat
              /\ since'[m][n] \in Nat /\ since'[m][n] <= since[m][n] + 1
      BY <3>1, <1>4
    <3> HIDE DEF l
    <3>5. Aged(Aging(l), since'[n][m]) /\ (Believed(Aging(l)) => Believed(l))
      BY <3>1, <3>2, <3>3, AgingAged
    <3>6. Believed(l) => n \in DOMAIN since'[m] /\ Mutual(Aging(l), since'[m][n])
      BY <3>1, <3>3, <3>4, AgingAged
    <3>7. QED
      BY <3>1, <3>5, <3>6
  <2>2. QED
    BY <2>1 DEF TimesOK, Aged, Mutual, Believed, Limit
<1>9. ASSUME NEW n \in Node
      PROVE  /\ SetsOK(SetsOf(n)', n)
             /\ StillFits(SetsOf(n)', n, mprset[n], rtable[n])
             /\ n \notin unfit => MadeFor(SetsOf(n)', n, mprset[n], rtable[n])
  <2> DEFINE s == SetsOf(n)
             u == SetsOf(n)'
  <2>1. /\ u.link = link'[n] /\ s.link = link[n]
        /\ u.nb2hop = nb2hop'[n] /\ s.nb2hop = nb2hop[n]
        /\ u.mprsel = mprsel'[n] /\ s.mprsel = mprsel[n]
    BY DEF SetsOf
  <2>2. /\ SetsOK(s, n) /\ StillFits(s, n, mprset[n], rtable[n])
        /\ n \notin unfit => MadeFor(s, n, mprset[n], rtable[n])
    BY <1>1 DEF TuplesOK, Fitting
  <2>3. /\ nb2hop'[n] = [p \in DOMAIN nb2hop[n] |-> Down(nb2hop[n][p])]
        /\ mprsel'[n] = [m \in DOMAIN mprsel[n] |-> Down(mprsel[n][m])]
    BY <1>2
  <2> HIDE DEF s, u
  <2>4. /\ DOMAIN u.link = DOMAIN s.link
        /\ \A m \in DOMAIN s.link : u.link[m] \in LinkTuple /\ u.link[m].status = s.link[m].status
    BY <1>5, <2>1, AgingFacts
  <2>5. LinksOK(u.link, n)
    BY <2>2, <2>4 DEF SetsOK, LinksOK
  <2>6. \A i \in Left : Down(i) \in Left
    BY HoldNat, DownFacts DEF Left
  <2>7. Nb2hopOK(u.nb2hop, n) /\ MprSelOK(u.mprsel) /\ DOMAIN u.nb2hop = DOMAIN s.nb2hop
    BY <2>1, <2>2, <2>3, <2>6 DEF SetsOK, Nb2hopOK, MprSelOK
  <2>8. Sym(u) = Sym(s)
    BY <2>4 DEF Sym
  <2>9. TwoHop(u) = TwoHop(s)
    BY <2>7, <2>8 DEF TwoHop
  <2>10. StillFits(u, n, mprset[n], rtable[n])
    BY <2>2, <2>4, <2>8 DEF StillFits
  <2>11. n \notin unfit => MadeFor(u, n, mprset[n], rtable[n])
    BY <2>2, <2>8, <2>9 DEF MadeFor, Covered
  <2>12. QED
    BY <2>5, <2>7, <2>10, <2>11 DEF SetsOK, u
<1>10. TuplesOK'
  BY <1>9 DEF TuplesOK, SetsOK, LinksOK, Nb2hopOK, MprSelOK
<1>11. Fitting'
  BY <1>2, <1>9 DEF Fitting, StillFits, MadeFor, Near, Firsts, Covered, Sym, TwoHop
<1>12. QED
  BY <1>3, <1>6, <1>7, <1>8, <1>10, <1>11 DEF IInv

-----------------------------------------------------------------------------
(* The theorems *)

LEMMA InitOK == Init => IInv
<1> SUFFICES ASSUME Init PROVE IInv
  OBVIOUS
<1>1. /\ link = [n \in Node |-> <<>>] /\ nb2hop = [n \in Node |-> <<>>]
      /\ mprset = [n \in Node |-> {}] /\ mprsel = [n \in Node |-> <<>>]
      /\ rtable = [n \in Node |-> <<>>] /\ hello = [n \in Node |-> None]
      /\ sent = {} /\ faults = 0 /\ since = [n \in Node |-> <<>>] /\ unfit = {}
  BY DEF Init
<1>2. DOMAIN <<>> = {}
  OBVIOUS
<1>3. Domains /\ Counters
  BY <1>1, ConstantsAssumption DEF Domains, Counters
<1>4. TuplesOK
  BY <1>1, <1>2 DEF TuplesOK, SetsOK, LinksOK, Nb2hopOK, MprSelOK, SetsOf
<1>5. ASSUME NEW n \in Node
      PROVE  MadeFor(SetsOf(n), n, mprset[n], rtable[n])
  <2> DEFINE s == SetsOf(n)
  <2>1. s.link = <<>> /\ s.nb2hop = <<>> /\ mprset[n] = {} /\ rtable[n] = <<>>
    BY <1>1 DEF SetsOf
  <2> HIDE DEF s
  <2>2. Sym(s) = {} /\ TwoHop(s) = {}
    BY <1>2, <2>1 DEF Sym, TwoHop
  <2>3. Near(rtable[n]) = {} /\ Firsts(rtable[n]) = {}
    BY <1>2, <2>1 DEF Near, Firsts
  <2>4. Covered(mprset[n], s)
    BY <2>2 DEF Covered
  <2>5. MadeFor(s, n, mprset[n], rtable[n])
    BY <1>2, <2>1, <2>2, <2>3, <2>4 DEF MadeFor
  <2>6. QED
    BY <2>5 DEF s
<1>6. Fitting
  BY <1>5, MadeStillFits DEF Fitting
<1>7. SinceOK /\ HellosOK /\ TimesOK
  BY <1>1, <1>2 DEF SinceOK, HellosOK, TimesOK
<1>8. QED
  BY <1>3, <1>4, <1>6, <1>7 DEF IInv

LEMMA IdleOK == ASSUME IInv, UNCHANGED vars PROVE IInv'
BY DEF vars, IInv, Domains, Counters, TuplesOK, SetsOK, LinksOK, Nb2hopOK, MprSelOK, Fitting,
       StillFits, MadeFor, Near, Firsts, Covered, Sym, TwoHop, SinceOK, HellosOK, HelloOK, TimesOK,
       Aged, Mutual, Believed, Limit, SetsOf

LEMMA NextOK == ASSUME IInv, [Next]_vars PROVE IInv'
<1>1. CASE UNCHANGED vars
  BY <1>1, IdleOK
<1>2. ASSUME NEW n \in Node, NEW m \in Node, Timers(n, m) \/ mac_failed(n, m)
      PROVE  IInv'
  <2>1. CASE LinkExpires(n, m)
    BY <2>1, LinkExpiresOK
  <2>2. CASE SymExpires(n, m)
    BY <2>2, SymExpiresOK
  <2>3. CASE LinkLives(n, m)
    BY <2>3, LinkLivesOK
  <2>4. CASE MprSelExpires(n, m)
    BY <2>4, MprSelExpiresOK
  <2>5. ASSUME NEW f \in Node, Nb2hopExpires(n, <<m, f>>)
        PROVE  IInv'
    BY <2>5, Nb2hopExpiresOK
  <2>6. CASE mac_failed(n, m)
    BY <2>6, FailureOK
  <2>7. QED
    BY <1>2, <2>1, <2>2, <2>3, <2>4, <2>5, <2>6 DEF Timers
<1>3. ASSUME NEW n \in Node, SendHello(n) \/ Hear(n)
      PROVE  IInv'
  BY <1>3, SendHelloOK, HearOK
<1>4. CASE Tick
  BY <1>4, TickOK
<1>5. QED
  BY <1>1, <1>2, <1>3, <1>4 DEF Next

LEMMA Invariance == Spec => []IInv
BY InitOK, NextOK, PTL DEF Spec

\* The sets of every node keep their types, whatever is lost and whenever timers
\* expire, and no node is its own neighbour, 2-hop neighbour or destination.
THEOREM TypeCorrect == Spec => []TypeOK
<1>1. IInv => TypeOK
  <2> SUFFICES ASSUME IInv PROVE TypeOK
    OBVIOUS
  <2>1. ASSUME NEW n \in Node
        PROVE  /\ DOMAIN link[n] \subseteq Node
               /\ \A m \in DOMAIN link[n] : link[n][m] \in LinkTuple
               /\ DOMAIN nb2hop[n] \subseteq Node \X (Node \ {n})
               /\ \A p \in DOMAIN nb2hop[n] : nb2hop[n][p] \in Left
               /\ DOMAIN mprsel[n] \subseteq Node
               /\ \A m \in DOMAIN mprsel[n] : mprsel[n][m] \in Left
    BY DEF IInv, TuplesOK, SetsOK, LinksOK, Nb2hopOK, MprSelOK, SetsOf
  <2>2. ASSUME NEW n \in Node
        PROVE  /\ DOMAIN rtable[n] \subseteq Node \ {n}
               /\ hello[n] # None => \A m \in DOMAIN hello[n] : hello[n][m] \in Entry
    BY DEF IInv, Fitting, StillFits, HellosOK, HelloOK
  <2>3. QED
    BY <2>1, <2>2 DEF TypeOK, IInv, Domains, Counters
<1>2. QED
  BY <1>1, Invariance, PTL

\* Relays and routes of length one are the symmetric neighbours, and relays lead to
\* everyone two hops away, but for what a timer has taken since the last look at
\* them (l.334, l.358).
THEOREM RelaysServe == Spec => []RelaysFit
<1>1. IInv => RelaysFit
  BY DEF IInv, Fitting, StillFits, MadeFor, Near, RelaysFit, SetsOf
<1>2. QED
  BY <1>1, Invariance, PTL

\* For every holding time and in every network: no link tuple outlives the last
\* HELLO by more than two holding times, or three with use_mac_, and no neighbour
\* counts as symmetric more than three after it last heard the node.
THEOREM NeighboursAreRecent == Spec => []HeardLately
<1>1. IInv => HeardLately
  <2> SUFFICES ASSUME IInv, NothingDue, NEW n \in Node, NEW m \in DOMAIN link[n]
               PROVE  /\ since[n][m] <= (IF UseMac THEN 3 ELSE 2) * HOLD
                      /\ m \in Sym(SetsOf(n)) => since[m][n] <= 3 * HOLD
    BY DEF HeardLately, Sym, SetsOf
  <2> DEFINE l == link[n][m]
  <2>1. l \in LinkTuple /\ m \in Node
    BY DEF IInv, TuplesOK, SetsOK, LinksOK, SetsOf
  <2>2. l.timer >= 0
    BY <2>1, TupleFields DEF NothingDue, LinkDue
  <2>3. /\ since[n][m] \in Nat /\ Aged(l, since[n][m])
        /\ Believed(l) => since[m][n] \in Nat /\ Mutual(l, since[m][n])
    BY <2>1 DEF IInv, SinceOK, TimesOK
  <2>4. m \in Sym(SetsOf(n)) => Believed(l)
    BY DEF Sym, SetsOf, Believed
  <2> HIDE DEF l
  <2>5. since[n][m] <= Limit(l)
    BY <2>1, <2>2, <2>3, TupleFields, HoldNat DEF Aged, Limit
  <2>6. Limit(l) <= (IF UseMac THEN 3 ELSE 2) * HOLD /\ Limit(l) \in Nat
    BY HoldNat DEF Limit
  <2>7. since[n][m] <= (IF UseMac THEN 3 ELSE 2) * HOLD
    BY <2>3, <2>5, <2>6, HoldNat
  <2>8. Believed(l) => since[m][n] <= 3 * HOLD
    BY <2>1, <2>2, <2>3, TupleFields, HoldNat DEF Mutual
  <2>9. QED
    BY <2>4, <2>7, <2>8
<1>2. QED
  BY <1>1, Invariance, PTL
=============================================================================
