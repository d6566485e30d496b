------------------------------ MODULE OLSRMpr ------------------------------
(***************************************************************************)
(* Selection of the multipoint relays of one OLSR node: the computations   *)
(* of OLSR.cc (l.650-1459), from one neighbour set and one 2-hop set, loop *)
(* by loop.  The 2-hop set is a vector whose order the first loop depends  *)
(* on; a tuple is named by its position, and n2 holds the positions that   *)
(* have not been erased.  The order of the neighbour set only breaks ties, *)
(* which are broken in any way.                                            *)
(***************************************************************************)
EXTENDS Naturals, Sequences, FiniteSets

CONSTANTS
    Nb,           \* main addresses of neighbours
    Far,          \* main addresses of nodes that are not neighbours
    Willingness,  \* OLSR_WILL_NEVER .. OLSR_WILL_ALWAYS, or some of them
    Algorithms,   \* the values of mpr_algorithm_ that are looked at
    LinkQuality,  \* link_quality_: "NONE", "ETX" or "ML"
    Etx,          \* etx() of the link to a neighbour
    Nb2hopSets    \* the 2-hop sets, as vectors, that are looked at

WILL_NEVER  == 0
WILL_ALWAYS == 7

Nb2hop == [nb : Nb, far : Nb \cup Far]

ASSUME ConstantsAssumption ==
    /\ Nb \cap Far = {}
    /\ Willingness \subseteq WILL_NEVER..WILL_ALWAYS
    /\ Algorithms \subseteq {"RFC", "R1", "R2", "QOLSR", "OLSRD"}
    /\ LinkQuality \in {"NONE", "ETX", "ML"}
    /\ Etx \in [Nb -> Nat]
    /\ Nb2hopSets \subseteq Seq(Nb2hop)

VARIABLES
    mpr_algorithm, \* which computation runs
    sym,           \* neighbours whose status is OLSR_STATUS_SYM
    willingness,   \* of each neighbour
    nb2hopset,     \* the vector of 2-hop tuples
    pc,            \* "start", "single", "greedy" or "done"
    n2,            \* N2: positions of nb2hopset
    it,            \* the iterator of the first loop
    foundset,      \* far nodes known to have several neighbours in N
    mprset

inputs == <<mpr_algorithm, sym, willingness, nb2hopset>>
vars == <<inputs, pc, n2, it, foundset, mprset>>

Init ==
    /\ nb2hopset \in Nb2hopSets
    /\ mpr_algorithm \in Algorithms
    /\ sym \in SUBSET Nb
    /\ willingness \in [Nb -> Willingness]
    /\ pc = "start" /\ n2 = {} /\ it = 1 /\ foundset = {} /\ mprset = {}

-----------------------------------------------------------------------------
(* N, N2 and the members of N that are always taken *)

nb(k)  == nb2hopset[k].nb
far(k) == nb2hopset[k].far

\* What olsrd_mpr_computation chooses.
Willing == {m \in sym : willingness[m] # WILL_NEVER}

\* The first two leave members with WILL_NEVER in N.
N == IF mpr_algorithm \in {"RFC", "R1"} THEN sym ELSE Willing

Uncovered_ThroughAnyone == {k \in DOMAIN nb2hopset :
                               nb(k) \in sym /\ far(k) \notin sym}

Uncovered == {k \in DOMAIN nb2hopset :
                 /\ nb(k) \in sym
                 /\ willingness[nb(k)] # WILL_NEVER
                 /\ far(k) \notin sym}

Always_OfAnyStatus == {m \in Nb : willingness[m] = WILL_ALWAYS}

Always == {m \in N : willingness[m] = WILL_ALWAYS}

Start ==
    /\ pc = "start"
    /\ CASE mpr_algorithm = "OLSRD" ->
              mprset' = Willing /\ n2' = {} /\ pc' = "done"
         [] mpr_algorithm \in {"R2", "QOLSR"} ->
              mprset' = {} /\ n2' = Uncovered /\ pc' = "greedy"
         [] OTHER ->
              mprset' = Always /\ n2' = Uncovered /\ pc' = "single"
    /\ UNCHANGED <<inputs, it, foundset>>

-----------------------------------------------------------------------------
(* The first loop: neighbours that are the only way to a far node *)

HasBackup_NextOnly(k) == \E j \in n2 : j = k + 1 /\ far(j) = far(k)

\* Another tuple behind this one leads to the same far node.
HasBackup(k) == \E j \in n2 : j > k /\ far(j) = far(k)

AlsoReached_OfAnyNeighbour(k) == {far(j) : j \in {j \in n2 : j > k}}

\* Far nodes that tuples behind this one reach through the same neighbour.
AlsoReached(k) == {far(j) : j \in {j \in n2 : j > k /\ nb(j) = nb(k)}}

Remaining(k) ==
    {j \in n2 : j # k /\ ~(j > k /\ nb(j) = nb(k)) /\ far(j) \notin AlsoReached(k)}

\* A backup link was erased, and the loop begins again.
BeginsAgain(k) ==
    \E j \in n2 : /\ j # k /\ ~(j > k /\ nb(j) = nb(k))
                  /\ far(j) \in AlsoReached(k)

NextOne(k) == k \in n2 /\ k >= it /\ \A j \in n2 : j >= it => k <= j

Single ==
    /\ pc = "single"
    /\ \E k \in n2 :
         /\ NextOne(k)
         /\ \/ /\ far(k) \in foundset \/ HasBackup(k)
               /\ foundset' = foundset \cup {far(k)}
               /\ it' = k + 1
               /\ UNCHANGED <<n2, mprset>>
            \/ /\ far(k) \notin foundset /\ ~HasBackup(k)
               /\ mprset' = mprset \cup {nb(k)}
               /\ n2' = Remaining(k)
               /\ it' = IF BeginsAgain(k) THEN 1 ELSE k + 1
               /\ UNCHANGED foundset
    /\ UNCHANGED <<inputs, pc>>

SingleDone ==
    /\ pc = "single"
    /\ \A k \in n2 : k < it
    /\ pc' = "greedy"
    /\ UNCHANGED <<inputs, n2, it, foundset, mprset>>

-----------------------------------------------------------------------------
(* The second loop: one more relay until nothing is left to cover *)

Reachability == [m \in Nb |-> Cardinality({k \in n2 : nb(k) = m})]

Candidates_OfNoUse == N

Candidates == {m \in N : \E k \in n2 : nb(k) = m}

\* The degree of m: of its 2-hop tuples those whose nb_main_addr, which is m
\* itself, is not in the neighbour set.
degree ==
    [m \in Nb |-> Cardinality({k \in DOMAIN nb2hopset : nb(k) = m /\ nb(k) \notin Nb})]

Best(S, rank) == {m \in S : \A o \in S : rank[o] <= rank[m]}

\* olsr_mpr_computation, olsr_r1_mpr_computation: willingness, then reachability.
\* R1 compares links only where both link tuples are missing (l.1035).
ByWillingness ==
    Best(Best(Best(Candidates, willingness), Reachability), degree)

\* olsr_r2_mpr_computation: the first one found is replaced only when link tuples
\* are missing (l.1179), so that the smallest reachability remains.
ByFirstFound ==
    {m \in Candidates : \A o \in Candidates : Reachability[m] <= Reachability[o]}

\* qolsr_mpr_computation: only neighbours of the far node at the front of N2, by
\* quality of the link, then reachability.
ByQuality ==
    LET z == far(CHOOSE k \in n2 : \A j \in n2 : k <= j)
        ways == {m \in Candidates : \E k \in n2 : nb(k) = m /\ far(k) = z}
        best == CASE LinkQuality = "ETX" -> {m \in ways : \A o \in ways : Etx[m] <= Etx[o]}
                  [] LinkQuality = "ML"  -> {m \in ways : \A o \in ways : Etx[m] >= Etx[o]}
                  [] OTHER -> ways
    IN  Best(Best(best, Reachability), degree)

Selectable ==
    CASE mpr_algorithm \in {"RFC", "R1"} -> ByWillingness
      [] mpr_algorithm = "R2" -> ByFirstFound
      [] OTHER -> ByQuality

\* Erased are the tuples of the new relay and all others to the same far nodes.
CoveredBy(m) == {k \in n2 : \E j \in n2 : nb(j) = m /\ far(j) = far(k)}

Greedy ==
    /\ pc = "greedy" /\ n2 # {}
    /\ \E m \in Selectable :
         /\ mprset' = mprset \cup {m}
         /\ n2' = n2 \ CoveredBy(m)
    /\ UNCHANGED <<inputs, pc, it, foundset>>

GreedyDone ==
    /\ pc = "greedy" /\ n2 = {}
    /\ pc' = "done"
    /\ UNCHANGED <<inputs, n2, it, foundset, mprset>>

Next == Start \/ Single \/ SingleDone \/ Greedy \/ GreedyDone

Spec == Init /\ [][Next]_vars /\ WF_vars(Next)

-----------------------------------------------------------------------------
(* Properties *)

\* What the variables hold: in particular relays are members of N, and what is
\* left of N2 is part of what it was made of (l.657-689).
TypeOK ==
    /\ mpr_algorithm \in Algorithms
    /\ sym \subseteq Nb
    /\ willingness \in [Nb -> Willingness]
    /\ nb2hopset \in Seq(Nb2hop)
    /\ pc \in {"start", "single", "greedy", "done"}
    /\ n2 \subseteq Uncovered
    /\ it \in 1..(Len(nb2hopset) + 1)
    /\ foundset \subseteq Nb \cup Far
    /\ mprset \subseteq N

\* A relay was chosen for the far node of tuple k.
Relayed(k) == \E j \in Uncovered : nb(j) \in mprset /\ far(j) = far(k)

\* What the relays are for (RFC 3626, 8.3.1): a tuple leaves N2 only when some
\* relay leads to its far node, so that in the end every node two hops away,
\* except behind the unwilling, hears what this node sends through its relays.
\* Both loops erase tuples that they did not choose (l.739-770, l.841-855).
Covers ==
    /\ pc # "start" => \A k \in Uncovered \ n2 : Relayed(k)
    /\ pc = "done"  => n2 = {}

\* Nobody is made a relay who announced WILL_NEVER, although N has such members
\* (l.658-660) and selection goes through N (l.805-816).
NeverUnwilling == \A m \in mprset : m \in sym /\ willingness[m] # WILL_NEVER

FarNodes(K) == {far(k) : k \in K}

\* Each relay is chosen for a far node that no relay was chosen for before: there
\* are never more relays than far nodes, but for those with WILL_ALWAYS.  The
\* first loop looks for other ways only behind the tuple at hand (l.728) and
\* begins again in the middle (l.767).
RelaysEarnTheirPlace ==
    (mpr_algorithm # "OLSRD" /\ pc # "start") =>
        Cardinality(mprset \ Always) + Cardinality(FarNodes(n2))
            <= Cardinality(FarNodes(Uncovered))

\* The loops end: the first although it begins again (l.767), the second although
\* it has no other exit than an empty N2 (l.776).
Ends == <>(pc = "done")
=============================================================================
