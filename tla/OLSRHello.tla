----------------------------- MODULE OLSRHello -----------------------------
(***************************************************************************)
(* Neighbourhoods of OLSR agents (OLSR.cc): HELLO messages, link sensing,  *)
(* the neighbour and 2-hop sets, relays and selectors, loss of neighbours. *)
(*                                                                         *)
(* Time goes in ticks of one hello interval.  A time of the code that is   *)
(* compared with the current time is the number of ticks that are left, -1 *)
(* once it is over.  The code checks times DELAY, one microsecond, after   *)
(* they are over: what is due happens before anything else does.           *)
(*                                                                         *)
(* A link tuple and the neighbour tuple to the same node are made and      *)
(* erased together (l.2996-3055) and are one record.                       *)
(***************************************************************************)
EXTENDS Integers, FiniteSets, OLSRRouting

CONSTANTS
    Node,
    Link,        \* pairs <<n, m>>: m can hear n
    Lossy,       \* those of them whose transmissions may be lost
    HOLD,        \* OLSR_NEIGHB_HOLD_TIME, the validity time of a HELLO, in ticks
    Unwilling,   \* nodes with WILL_NEVER
    UseMac,      \* use_mac_
    MaxFaults,   \* bound: receptions that are lost, failures that the MAC layer reports
    None

ASSUME ConstantsAssumption ==
    /\ IsFiniteSet(Node)
    /\ Link \subseteq Node \X Node
    /\ Lossy \subseteq Link
    /\ \A p \in Link : p[1] # p[2]
    /\ HOLD \in Nat \ {0}
    /\ Unwilling \subseteq Node
    /\ UseMac \in BOOLEAN
    /\ MaxFaults \in Nat
    /\ None \notin Node

VARIABLES
    link,     \* link and neighbour set of a node: tuples by neighbour
    nb2hop,   \* ticks left of its 2-hop tuples, by <<neighbour, far node>>
    mprset,
    mprsel,   \* ticks left of its selector tuples, by selector
    rtable,
    hello,    \* the HELLO that waits in msgs_
    sent,     \* nodes that sent their HELLO of this tick
    faults,
    since,    \* ticks since n last took in a HELLO of m
    unfit     \* a symmetric neighbour, or what a relay led to, went without a look at the relays

vars == <<link, nb2hop, mprset, mprsel, rtable, hello, sent, faults, since, unfit>>

Left == -1..HOLD
LinkTuple == [sym : Left, asym : Left, lost : Left, time : -1..(2 * HOLD),
              status : {"SYM", "NOT_SYM"}, timer : -1..(2 * HOLD), first_time : BOOLEAN]
Entry == [lt : {"ASYM", "SYM", "LOST"}, nt : {"NOT", "SYM", "MPR"}]

Init ==
    /\ link = [n \in Node |-> <<>>]
    /\ nb2hop = [n \in Node |-> <<>>]
    /\ mprset = [n \in Node |-> {}]
    /\ mprsel = [n \in Node |-> <<>>]
    /\ rtable = [n \in Node |-> <<>>]
    /\ hello = [n \in Node |-> None]
    /\ sent = {}
    /\ faults = 0
    /\ since = [n \in Node |-> <<>>]
    /\ unfit = {}

-----------------------------------------------------------------------------
(* The sets of one node: s has the fields link, nb2hop and mprsel *)

Without(f, S) == [x \in (DOMAIN f) \ S |-> f[x]]
With(f, x, v) == Over([y \in {x} |-> v], f)

Sym(s) == {m \in DOMAIN s.link : s.link[m].status = "SYM"}

TwoHop(s) == {p \in DOMAIN s.nb2hop : p[1] \in Sym(s) \ Unwilling /\ p[2] \notin Sym(s)}

Covered(R, s) == \A p \in TwoHop(s) : \E q \in TwoHop(s) : q[1] \in R /\ q[2] = p[2]

\* What OLSRMpr guarantees of mprset, whichever algorithm is set.
RelaySets(s) ==
    {R \in SUBSET (Sym(s) \ Unwilling) :
        Covered(R, s) /\ Cardinality(R) <= Cardinality({p[2] : p \in TwoHop(s)})}

Routes(s) == rtable_default_computation(Sym(s), Node \ Unwilling, DOMAIN s.nb2hop, {})

updated_link_tuple(l) ==
    [l EXCEPT !.status = IF (UseMac /\ l.lost >= 0) \/ l.sym < 0 THEN "NOT_SYM" ELSE "SYM"]

SetsOf(n) == [link |-> link[n], nb2hop |-> nb2hop[n], mprsel |-> mprsel[n]]

nb_loss(s, m) ==
    [link   |-> [s.link EXCEPT ![m] = updated_link_tuple(@)],
     nb2hop |-> Without(s.nb2hop, {m} \X Node),
     mprsel |-> Without(s.mprsel, {m})]

Become_RelaysFirst(new, to) ==
    /\ link'   = [n \in Node |-> IF n \in to THEN new[n].link ELSE link[n]]
    /\ nb2hop' = [n \in Node |-> IF n \in to THEN new[n].nb2hop ELSE nb2hop[n]]
    /\ mprsel' = [n \in Node |-> IF n \in to THEN new[n].mprsel ELSE mprsel[n]]
    /\ \E R \in [to -> UNION {RelaySets(SetsOf(n)) : n \in to}] :
        /\ \A n \in to : R[n] \in RelaySets(SetsOf(n))
        /\ mprset' = Over(R, mprset)
    /\ rtable' = [n \in Node |-> IF n \in to THEN Routes(new[n]) ELSE rtable[n]]
    /\ unfit'  = unfit \ to

\* The sets of the nodes in to are new; relays and routes are found again.
Become(new, to) ==
    /\ link'   = [n \in Node |-> IF n \in to THEN new[n].link ELSE link[n]]
    /\ nb2hop' = [n \in Node |-> IF n \in to THEN new[n].nb2hop ELSE nb2hop[n]]
    /\ mprsel' = [n \in Node |-> IF n \in to THEN new[n].mprsel ELSE mprsel[n]]
    /\ \E R \in [to -> UNION {RelaySets(new[n]) : n \in to}] :
        /\ \A n \in to : R[n] \in RelaySets(new[n])
        /\ mprset' = Over(R, mprset)
    /\ rtable' = [n \in Node |-> IF n \in to THEN Routes(new[n]) ELSE rtable[n]]
    /\ unfit'  = unfit \ to

-----------------------------------------------------------------------------
(* Timers *)

LinkDue(n)   == {m \in DOMAIN link[n] : link[n][m].timer < 0}
Nb2hopDue(n) == {p \in DOMAIN nb2hop[n] : nb2hop[n][p] < 0}
MprSelDue(n) == {m \in DOMAIN mprsel[n] : mprsel[n][m] < 0}

NothingDue == \A n \in Node : LinkDue(n) = {} /\ Nb2hopDue(n) = {} /\ MprSelDue(n) = {}

Lesser(i, j) == IF i < j THEN i ELSE j
Greater(i, j) == IF i < j THEN j ELSE i

\* OLSR_LinkTupleTimer::expire: a tuple whose time is over goes.
LinkExpires(n, m) ==
    /\ m \in LinkDue(n) /\ link[n][m].time < 0
    /\ link' = [link EXCEPT ![n] = Without(@, {m})]
    /\ unfit' = IF link[n][m].status = "SYM" THEN unfit \cup {n} ELSE unfit
    /\ UNCHANGED <<nb2hop, mprset, mprsel, rtable, hello, sent, faults, since>>

\* The symmetric time is over: the neighbour is lost, but not the first time.
SymExpires(n, m) ==
    /\ m \in LinkDue(n)
    /\ LET l == link[n][m] IN
        /\ l.time >= 0 /\ l.sym < 0
        /\ \/ /\ l.first_time
              /\ link' = [link EXCEPT ![n][m].first_time = FALSE, ![n][m].timer = l.time]
              /\ UNCHANGED <<nb2hop, mprset, mprsel, rtable, unfit>>
           \/ /\ ~l.first_time
              /\ LET s == [SetsOf(n) EXCEPT !.link[m].timer = l.time]
                 IN  Become([k \in {n} |-> nb_loss(s, m)], {n})
    /\ UNCHANGED <<hello, sent, faults, since>>

LinkLives(n, m) ==
    /\ m \in LinkDue(n)
    /\ LET l == link[n][m] IN
        /\ l.time >= 0 /\ l.sym >= 0
        /\ link' = [link EXCEPT ![n][m].timer = Lesser(l.time, l.sym)]
    /\ UNCHANGED <<nb2hop, mprset, mprsel, rtable, hello, sent, faults, since, unfit>>

\* OLSR_Nb2hopTupleTimer, OLSR_MprSelTupleTimer: nothing else is looked at.
Nb2hopExpires(n, p) ==
    /\ p \in Nb2hopDue(n)
    /\ nb2hop' = [nb2hop EXCEPT ![n] = Without(@, {p})]
    /\ unfit' = IF p \in TwoHop(SetsOf(n)) /\ p[1] \in mprset[n] THEN unfit \cup {n} ELSE unfit
    /\ UNCHANGED <<link, mprset, mprsel, rtable, hello, sent, faults, since>>

MprSelExpires(n, m) ==
    /\ m \in MprSelDue(n)
    /\ mprsel' = [mprsel EXCEPT ![n] = Without(@, {m})]
    /\ UNCHANGED <<link, nb2hop, mprset, rtable, hello, sent, faults, since, unfit>>

-----------------------------------------------------------------------------
(* HELLO messages *)

LinkType_Remembered(l) ==
    CASE UseMac /\ l.lost >= 0 -> "LOST"
      [] l.sym >= 0            -> "SYM"
      [] OTHER                 -> "ASYM"

LinkType(l) ==
    CASE UseMac /\ l.lost >= 0 -> "LOST"
      [] l.sym >= 0            -> "SYM"
      [] l.asym >= 0           -> "ASYM"
      [] OTHER                 -> "LOST"

NeighbourType(n, m) ==
    CASE m \in mprset[n]              -> "MPR"
      [] link[n][m].status = "SYM"    -> "SYM"
      [] OTHER                        -> "NOT"

\* The content is fixed now; it goes out with the next packet.
SendHello(n) ==
    /\ NothingDue
    /\ n \notin sent
    /\ sent' = sent \cup {n}
    /\ hello' = [hello EXCEPT ![n] =
                  [m \in {m \in DOMAIN link[n] : link[n][m].time >= 0} |->
                      [lt |-> LinkType(link[n][m]), nt |-> NeighbourType(n, m)]]]
    /\ UNCHANGED <<link, nb2hop, mprset, mprsel, rtable, faults, since, unfit>>

\* What the HELLO h says of n, unless it must be skipped.
Says(h, n) ==
    IF n \notin DOMAIN h \/ (h[n].lt = "SYM" /\ h[n].nt = "NOT") THEN "nothing"
    ELSE h[n].lt

NewLink == [sym |-> -1, asym |-> -1, lost |-> -1, time |-> HOLD, status |-> "NOT_SYM",
            timer |-> -1, first_time |-> TRUE]

\* The tuple of n for the sender of h, where there was none or old.
link_sensing(created, old, h, n) ==
    LET heard == [old EXCEPT !.asym = HOLD]
        told  == CASE Says(h, n) = "LOST" -> [heard EXCEPT !.sym = -1]
                   [] Says(h, n) \in {"SYM", "ASYM"} ->
                        [heard EXCEPT !.sym = HOLD, !.time = 2 * HOLD, !.lost = -1]
                   [] OTHER -> heard
        kept  == [told EXCEPT !.time = Greater(@, told.asym)]
        new   == IF created /\ Says(h, n) = "nothing" THEN kept ELSE updated_link_tuple(kept)
    IN  IF created THEN [new EXCEPT !.timer = Lesser(new.time, new.sym)] ELSE new

\* The 2-hop tuples of n through m, the sender of h, with a link that is symmetric.
populate_nb2hopset(tuples, m, h, n) ==
    LET erased == {m} \X {f \in DOMAIN h : h[f].nt = "NOT"}
        heard  == {m} \X {f \in (DOMAIN h) \ {n} : h[f].nt # "NOT"}
    IN  Over([p \in heard |-> HOLD], Without(tuples, erased))

populate_mprselset_OnlyNew(tuples, m, h, n) ==
    IF n \in DOMAIN h /\ h[n].nt = "MPR" /\ m \notin DOMAIN tuples THEN With(tuples, m, HOLD)
    ELSE tuples

populate_mprselset(tuples, m, h, n) ==
    IF n \in DOMAIN h /\ h[n].nt = "MPR" THEN With(tuples, m, HOLD) ELSE tuples

\* process_hello at n of the HELLO h of m; the relays are found before the
\* selector is looked at, which makes no difference to either.
process_hello(n, m, h) ==
    LET created == m \notin DOMAIN link[n]
        l == link_sensing(created, IF created THEN NewLink ELSE link[n][m], h, n)
    IN  [link   |-> With(link[n], m, l),
         nb2hop |-> IF l.sym >= 0 THEN populate_nb2hopset(nb2hop[n], m, h, n) ELSE nb2hop[n],
         mprsel |-> populate_mprselset(mprsel[n], m, h, n)]

\* The packet of m reaches those around it that do not lose it, all at once.
Hear(m) ==
    /\ NothingDue
    /\ hello[m] # None
    /\ \E missing \in SUBSET {n \in Node : <<m, n>> \in Lossy} :
        LET to == {n \in Node : <<m, n>> \in Link} \ missing IN
        /\ faults' = faults + Cardinality(missing)
        /\ faults' <= MaxFaults
        /\ Become([n \in to |-> process_hello(n, m, hello[m])], to)
        /\ since' = [n \in Node |-> IF n \in to THEN With(since[n], m, 0) ELSE since[n]]
    /\ hello' = [hello EXCEPT ![m] = None]
    /\ UNCHANGED sent

-----------------------------------------------------------------------------
(* The MAC layer, and time *)

\* mac_failed: the packet that n sent to m, or its acknowledgement, was lost.
mac_failed(n, m) ==
    /\ NothingDue
    /\ UseMac /\ faults < MaxFaults /\ {<<n, m>>, <<m, n>>} \cap Lossy # {}
    /\ \E d \in DOMAIN rtable[n] : m \in rtable[n][d].nexts
    /\ m \in DOMAIN link[n]
    /\ faults' = faults + 1
    /\ LET s == [SetsOf(n) EXCEPT !.link[m].lost = HOLD, !.link[m].time = HOLD]
       IN  Become([k \in {n} |-> nb_loss(s, m)], {n})
    /\ UNCHANGED <<hello, sent, since>>

Down_Unbounded(i) == i - 1

Down(i) == IF i > -1 THEN i - 1 ELSE -1

\* Each node has sent one HELLO since the last tick, and it was on the air.
Tick ==
    /\ NothingDue
    /\ sent = Node /\ \A n \in Node : hello[n] = None
    /\ sent' = {}
    /\ link' = [n \in Node |-> [m \in DOMAIN link[n] |->
                  [link[n][m] EXCEPT !.sym = Down(@), !.asym = Down(@), !.lost = Down(@),
                                     !.time = Down(@), !.timer = Down(@)]]]
    /\ nb2hop' = [n \in Node |-> [p \in DOMAIN nb2hop[n] |-> Down(nb2hop[n][p])]]
    /\ mprsel' = [n \in Node |-> [m \in DOMAIN mprsel[n] |-> Down(mprsel[n][m])]]
    /\ since' = [n \in Node |-> [m \in DOMAIN since[n] |-> Lesser(since[n][m] + 1, 3 * HOLD + 1)]]
    /\ UNCHANGED <<mprset, rtable, hello, faults, unfit>>

Timers(n, m) ==
    \/ LinkExpires(n, m) \/ SymExpires(n, m) \/ LinkLives(n, m) \/ MprSelExpires(n, m)
    \/ \E f \in Node : Nb2hopExpires(n, <<m, f>>)

Next ==
    \/ \E n, m \in Node : Timers(n, m) \/ mac_failed(n, m)
    \/ \E n \in Node : SendHello(n) \/ Hear(n)
    \/ Tick

\* The simulator handles every event it has scheduled: time goes on.
TimePasses == []<><<Tick>>_vars

Spec == Init /\ [][Next]_vars /\ TimePasses

-----------------------------------------------------------------------------
(* Properties *)

TypeOK ==
    /\ \A n \in Node :
        /\ DOMAIN link[n] \subseteq Node
        /\ \A m \in DOMAIN link[n] : link[n][m] \in LinkTuple
        /\ DOMAIN nb2hop[n] \subseteq Node \X (Node \ {n})
        /\ \A p \in DOMAIN nb2hop[n] : nb2hop[n][p] \in Left
        /\ DOMAIN mprsel[n] \subseteq Node
        /\ \A m \in DOMAIN mprsel[n] : mprsel[n][m] \in Left
        /\ DOMAIN rtable[n] \subseteq Node \ {n}
        /\ hello[n] # None => \A m \in DOMAIN hello[n] : hello[n][m] \in Entry
    /\ mprset \in [Node -> SUBSET Node]
    /\ sent \subseteq Node /\ unfit \subseteq Node
    /\ faults \in 0..MaxFaults

\* A link is believed in for a bounded time only.  A tuple stays two holding times
\* after the last HELLO, three if the MAC layer prolongs it (l.2901); a neighbour
\* counts as symmetric at most three holding times after it last heard of this
\* node: one until it stops saying so, one until that is no longer believed
\* (l.2672), and one more where the timer spares it (l.337).
HeardLately ==
    NothingDue =>
        \A n \in Node :
            /\ \A m \in DOMAIN link[n] : since[n][m] <= (IF UseMac THEN 3 ELSE 2) * HOLD
            /\ \A m \in Sym(SetsOf(n)) : since[m][n] <= 3 * HOLD

\* Relays, and the nodes with routes of length one, are the symmetric neighbours,
\* and relays lead to everyone two hops away.  The sets change in six places and
\* relays and routes are found again in two (l.1764-1786, l.2956-2986); two changes
\* escape: the removal of a tuple that was still symmetric (l.334), which leaves
\* its node among relays and routes, and the expiry of the 2-hop tuple by which a
\* relay leads to a node (l.358).
RelaysFit ==
    \A n \in Node :
        LET s    == SetsOf(n)
            near == {m \in DOMAIN rtable[n] : rtable[n][m].dist = 1}
        IN
        /\ mprset[n] \cap DOMAIN link[n] \subseteq Sym(s)
        /\ near \cap DOMAIN link[n] = Sym(s)
        /\ n \notin unfit => mprset[n] \cup near \subseteq Sym(s) /\ Covered(mprset[n], s)

\* Every neighbour is symmetric on both sides, relays know who chose them, and
\* there are routes to all nodes two hops away.
Settled ==
    /\ \A p \in Link : p[2] \in Sym(SetsOf(p[1]))
    /\ \A n, m \in Node : m \in mprset[n] <=> n \in DOMAIN mprsel[m]
    /\ \A p, q \in Link :
        (p[2] = q[1] /\ p[1] # q[2] /\ <<p[1], q[2]>> \notin Link) =>
            q[2] \in DOMAIN rtable[p[1]] /\ rtable[p[1]][q[2]].dist = 2

\* Whatever was lost before, the neighbourhoods come to agree for good by the
\* exchange of HELLOs alone (l.1757-1788, l.2242-2364).
Settles == <>[]Settled

\* "Else if symmetric time has expired then it is assumed a neighbor loss and
\* agent_->nb_loss() is called" (l.317-319): no neighbour counts as symmetric
\* whose symmetric time is over.
LossIsNoticed ==
    NothingDue => \A n \in Node : \A m \in Sym(SetsOf(n)) : link[n][m].sym >= 0
=============================================================================
