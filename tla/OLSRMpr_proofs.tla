-------------------------- MODULE OLSRMpr_proofs ---------------------------
(***************************************************************************)
(* What holds of the selection of relays for every neighbour set, every    *)
(* 2-hop set and every willingness.                                        *)
(***************************************************************************)
EXTENDS OLSRMpr, FiniteSetTheorems, TLAPS

LEMMA NbOfTuple ==
    ASSUME nb2hopset \in Seq(Nb2hop), NEW k \in DOMAIN nb2hopset
    PROVE  /\ nb(k) \in Nb /\ far(k) \in Nb \cup Far /\ k \in Nat
           /\ k \in 1..Len(nb2hopset)
  <1>1. nb2hopset[k] \in Nb2hop /\ k \in 1..Len(nb2hopset)
    OBVIOUS
  <1>2. k \in Nat
    BY <1>1
  <1> QED
    BY <1>1, <1>2 DEF Nb2hop, nb, far

LEMMA UncoveredInN ==
    ASSUME nb2hopset \in Seq(Nb2hop), NEW k \in Uncovered
    PROVE  k \in DOMAIN nb2hopset /\ nb(k) \in N
  BY DEF Uncovered, N, Willing

\* Whichever rule selects, it selects someone who leads to a tuple of N2.
LEMMA SelectableAreCandidates == Selectable \subseteq Candidates
  BY DEF Selectable, ByWillingness, ByFirstFound, ByQuality, Best

-----------------------------------------------------------------------------
\* The variables keep their types in every step (l.650-1459).
LEMMA TypeInit == Init => TypeOK
  <1> SUFFICES ASSUME Init PROVE TypeOK
    OBVIOUS
  <1> USE ConstantsAssumption
  <1>1. nb2hopset \in Seq(Nb2hop)
    BY DEF Init
  <1>2. it \in 1..(Len(nb2hopset) + 1)
    BY <1>1 DEF Init
  <1> QED
    BY <1>1, <1>2 DEF Init, TypeOK

LEMMA TypeStart == TypeOK /\ Start => TypeOK'
  <1> SUFFICES ASSUME TypeOK, Start PROVE TypeOK'
    OBVIOUS
  <1>1. UNCHANGED <<mpr_algorithm, sym, willingness, nb2hopset, it, foundset>>
    BY DEF Start, inputs
  <1>2. Uncovered' = Uncovered /\ N' = N
    BY <1>1 DEF Uncovered, N, Willing, nb, far
  <1>3. CASE mpr_algorithm = "OLSRD"
    <2>1. mprset' = Willing /\ pc' = "done" /\ n2' = {}
      BY <1>3 DEF Start
    <2>2. mprset' \subseteq N
      BY <1>3, <2>1 DEF N, Willing
    <2> QED
      BY <1>1, <1>2, <2>1, <2>2 DEF TypeOK
  <1>4. CASE mpr_algorithm \in {"R2", "QOLSR"}
    <2>1. mprset' = {} /\ n2' = Uncovered /\ pc' = "greedy"
      BY <1>4 DEF Start
    <2> QED
      BY <1>1, <1>2, <2>1 DEF TypeOK
  <1>5. CASE mpr_algorithm \notin {"R2", "QOLSR", "OLSRD"}
    <2>1. mprset' = Always /\ n2' = Uncovered /\ pc' = "single"
      BY <1>5 DEF Start
    <2>2. mprset' \subseteq N
      BY <2>1 DEF Always
    <2> QED
      BY <1>1, <1>2, <2>1, <2>2 DEF TypeOK
  <1> QED
    BY <1>3, <1>4, <1>5

LEMMA TypeSingle == TypeOK /\ Single => TypeOK'
  <1> SUFFICES ASSUME TypeOK, Single PROVE TypeOK'
    OBVIOUS
  <1>1. UNCHANGED <<mpr_algorithm, sym, willingness, nb2hopset, pc>>
    BY DEF Single, inputs
  <1>2. Uncovered' = Uncovered /\ N' = N
    BY <1>1 DEF Uncovered, N, Willing, nb, far
  <1>3. PICK k \in n2 :
          /\ \/ foundset' = foundset \cup {far(k)} /\ UNCHANGED <<n2, mprset>>
             \/ mprset' = mprset \cup {nb(k)} /\ n2' = Remaining(k) /\ UNCHANGED foundset
          /\ it' \in {1, k + 1}
    BY DEF Single
  <1>4. /\ k \in DOMAIN nb2hopset /\ nb(k) \in N /\ far(k) \in Nb \cup Far
        /\ k \in 1..Len(nb2hopset)
    BY UncoveredInN, NbOfTuple DEF TypeOK
  <1>5. it' \in 1..(Len(nb2hopset) + 1)
    BY <1>3, <1>4 DEF TypeOK
  <1>6. n2' \subseteq Uncovered
    BY <1>3 DEF TypeOK, Remaining
  <1>7. mprset' \subseteq N /\ foundset' \subseteq Nb \cup Far
    BY <1>3, <1>4 DEF TypeOK
  <1> QED
    BY <1>1, <1>2, <1>5, <1>6, <1>7 DEF TypeOK

LEMMA TypeGreedy == TypeOK /\ Greedy => TypeOK'
  <1> SUFFICES ASSUME TypeOK, Greedy PROVE TypeOK'
    OBVIOUS
  <1>1. UNCHANGED <<mpr_algorithm, sym, willingness, nb2hopset, pc, it, foundset>>
    BY DEF Greedy, inputs
  <1>2. Uncovered' = Uncovered /\ N' = N
    BY <1>1 DEF Uncovered, N, Willing, nb, far
  <1>3. PICK m \in Selectable : mprset' = mprset \cup {m} /\ n2' = n2 \ CoveredBy(m)
    BY DEF Greedy
  <1>4. m \in N
    BY SelectableAreCandidates DEF Candidates
  <1> QED
    BY <1>1, <1>2, <1>3, <1>4 DEF TypeOK

LEMMA TypeDone == TypeOK /\ (SingleDone \/ GreedyDone \/ UNCHANGED vars) => TypeOK'
  <1> SUFFICES ASSUME TypeOK, SingleDone \/ GreedyDone \/ UNCHANGED vars PROVE TypeOK'
    OBVIOUS
  <1>1. /\ UNCHANGED <<mpr_algorithm, sym, willingness, nb2hopset, n2, it, foundset, mprset>>
        /\ pc' \in {"greedy", "done", pc}
    BY DEF SingleDone, GreedyDone, vars, inputs
  <1>2. Uncovered' = Uncovered /\ N' = N
    BY <1>1 DEF Uncovered, N, Willing, nb, far
  <1> QED
    BY <1>1, <1>2 DEF TypeOK

\* The type invariant holds of every selection of relays (l.650-1459).
THEOREM TypeCorrect == Spec => []TypeOK
  <1>1. TypeOK /\ [Next]_vars => TypeOK'
    BY TypeStart, TypeSingle, TypeGreedy, TypeDone DEF Next
  <1> QED
    BY TypeInit, <1>1, PTL DEF Spec

-----------------------------------------------------------------------------
\* Each step that takes tuples out of N2 leaves a relay for their far nodes.
LEMMA CoversSingle == TypeOK /\ Covers /\ Single => Covers'
  <1> SUFFICES ASSUME TypeOK, Covers, Single PROVE Covers'
    OBVIOUS
  <1>1. UNCHANGED <<mpr_algorithm, sym, willingness, nb2hopset, pc>> /\ pc = "single"
    BY DEF Single, inputs
  <1>2. Uncovered' = Uncovered /\ mprset \subseteq mprset'
    BY <1>1 DEF Uncovered, nb, far, Single
  <1>3. ASSUME NEW h \in Uncovered, h \notin n2'
        PROVE  \E j \in Uncovered : nb(j) \in mprset' /\ far(j) = far(h)
    <2>1. CASE h \notin n2
      BY <1>1, <1>2, <2>1 DEF Covers, Relayed
    <2>2. CASE h \in n2
      <3>1. PICK k \in n2 : mprset' = mprset \cup {nb(k)} /\ n2' = Remaining(k)
        BY <1>3, <2>2 DEF Single
      <3>2. \/ h = k \/ nb(h) = nb(k) \/ far(h) \in AlsoReached(k)
        BY <1>3, <2>2, <3>1 DEF Remaining
      <3>3. CASE h = k \/ nb(h) = nb(k)
        BY <1>3, <3>1, <3>3
      <3>4. CASE far(h) \in AlsoReached(k)
        <4>1. PICK j \in n2 : nb(j) = nb(k) /\ far(j) = far(h)
          BY <3>4 DEF AlsoReached
        <4> QED
          BY <3>1, <4>1 DEF TypeOK
      <3> QED
        BY <3>2, <3>3, <3>4
    <2> QED
      BY <2>1, <2>2
  <1> QED
    BY <1>1, <1>2, <1>3 DEF Covers, Relayed, nb, far

LEMMA CoversGreedy == TypeOK /\ Covers /\ Greedy => Covers'
  <1> SUFFICES ASSUME TypeOK, Covers, Greedy PROVE Covers'
    OBVIOUS
  <1>1. UNCHANGED <<mpr_algorithm, sym, willingness, nb2hopset, pc>> /\ pc = "greedy"
    BY DEF Greedy, inputs
  <1>2. PICK m \in Selectable : mprset' = mprset \cup {m} /\ n2' = n2 \ CoveredBy(m)
    BY DEF Greedy
  <1>3. Uncovered' = Uncovered
    BY <1>1 DEF Uncovered, nb, far
  <1>4. ASSUME NEW h \in Uncovered, h \notin n2'
        PROVE  \E j \in Uncovered : nb(j) \in mprset' /\ far(j) = far(h)
    <2>1. CASE h \notin n2
      BY <1>1, <1>2, <2>1 DEF Covers, Relayed
    <2>2. CASE h \in n2
      <3>1. PICK j \in n2 : nb(j) = m /\ far(j) = far(h)
        BY <1>2, <1>4, <2>2 DEF CoveredBy
      <3> QED
        BY <1>2, <3>1 DEF TypeOK
    <2> QED
      BY <2>1, <2>2
  <1> QED
    BY <1>1, <1>3, <1>4 DEF Covers, Relayed, nb, far

LEMMA CoversStart == TypeOK /\ Covers /\ Start => Covers'
  <1> SUFFICES ASSUME TypeOK, Start PROVE Covers'
    OBVIOUS
  <1> USE DEF Start
  <1>1. UNCHANGED <<mpr_algorithm, sym, willingness, nb2hopset>>
    BY DEF inputs
  <1>2. Uncovered' = Uncovered
    BY <1>1 DEF Uncovered, nb, far
  <1>3. CASE mpr_algorithm = "OLSRD"
    <2>1. mprset' = Willing /\ pc' = "done" /\ n2' = {}
      BY <1>3
    <2>2. \A k \in Uncovered : nb(k) \in mprset'
      BY <2>1 DEF Uncovered, Willing
    <2> QED
      BY <1>1, <1>2, <2>1, <2>2 DEF Covers, Relayed, nb, far
  <1>4. CASE mpr_algorithm # "OLSRD"
    <2>1. n2' = Uncovered /\ pc' # "done"
      BY <1>4
    <2> QED
      BY <1>2, <2>1 DEF Covers
  <1> QED
    BY <1>3, <1>4

LEMMA CoversDone ==
    TypeOK /\ Covers /\ (SingleDone \/ GreedyDone \/ UNCHANGED vars) => Covers'
  <1> SUFFICES ASSUME TypeOK, Covers, SingleDone \/ GreedyDone \/ UNCHANGED vars
               PROVE  Covers'
    OBVIOUS
  <1>1. UNCHANGED <<mpr_algorithm, sym, willingness, nb2hopset, n2, mprset>>
    BY DEF SingleDone, GreedyDone, vars, inputs
  <1>2. (pc' # "start" => pc # "start") /\ (pc' = "done" => n2 = {})
    BY DEF SingleDone, GreedyDone, vars, Covers
  <1> QED
    BY <1>1, <1>2 DEF Covers, Relayed, Uncovered, nb, far

\* Whatever the neighbourhood, whichever of the algorithms runs, every node two
\* hops away that is not only behind the unwilling has a relay when the selection
\* ends (l.650-1459).
THEOREM RelaysCover == Spec => []Covers
  <1>1. TypeOK /\ Covers /\ [Next]_vars => Covers'
    BY CoversStart, CoversSingle, CoversGreedy, CoversDone DEF Next
  <1>2. Init => Covers
    BY DEF Init, Covers
  <1> QED
    BY TypeCorrect, <1>1, <1>2, PTL DEF Spec

-----------------------------------------------------------------------------
\* Nobody who announced WILL_NEVER is ever made a relay, although the first two
\* algorithms leave such neighbours in N (l.658-660, l.873-875).
THEOREM UnwillingSpared == Spec => []NeverUnwilling
  <1>1. TypeOK /\ NeverUnwilling /\ [Next]_vars => NeverUnwilling'
    <2> SUFFICES ASSUME TypeOK, NeverUnwilling, [Next]_vars PROVE NeverUnwilling'
      OBVIOUS
    <2>1. UNCHANGED <<mpr_algorithm, sym, willingness, nb2hopset>>
      BY DEF Next, Start, Single, SingleDone, Greedy, GreedyDone, vars, inputs
    <2>2. \A k \in Uncovered : nb(k) \in sym /\ willingness[nb(k)] # WILL_NEVER
      BY DEF Uncovered
    <2>3. ASSUME NEW m \in mprset' PROVE m \in sym /\ willingness[m] # WILL_NEVER
      <3>1. CASE m \in mprset
        BY <3>1 DEF NeverUnwilling
      <3>2. CASE Start
        <4>1. CASE mpr_algorithm = "OLSRD"
          BY <3>2, <4>1, <2>3 DEF Start, Willing
        <4>2. CASE mpr_algorithm # "OLSRD"
          <5>1. m \in Always
            BY <3>2, <4>2, <2>3 DEF Start
          <5> QED
            BY <5>1 DEF Always, N, Willing, WILL_ALWAYS, WILL_NEVER
        <4> QED
          BY <4>1, <4>2
      <3>3. CASE Single /\ m \notin mprset
        <4>1. PICK k \in n2 : m = nb(k)
          BY <3>3, <2>3 DEF Single
        <4> QED
          BY <4>1, <2>2 DEF TypeOK
      <3>4. CASE Greedy /\ m \notin mprset
        <4>1. m \in Candidates
          BY <3>4, <2>3, SelectableAreCandidates DEF Greedy
        <4> QED
          BY <4>1, <2>2 DEF Candidates, TypeOK
      <3>5. CASE SingleDone \/ GreedyDone \/ UNCHANGED vars
        BY <2>3, <3>1, <3>5 DEF SingleDone, GreedyDone, vars
      <3> QED
        BY <3>1, <3>2, <3>3, <3>4, <3>5 DEF Next
    <2> QED
      BY <2>1, <2>3 DEF NeverUnwilling
  <1>2. Init => NeverUnwilling
    BY DEF Init, NeverUnwilling
  <1> QED
    BY TypeCorrect, <1>1, <1>2, PTL DEF Spec

-----------------------------------------------------------------------------
(* Each relay is chosen for a far node of its own *)

\* The tuples that the first loop has passed and left in N2 lead to far nodes it
\* knows to have several neighbours: what is neither there nor behind the tuple at
\* hand is nowhere else in N2.
PassedIsFound ==
    /\ pc = "start"  => it = 1
    /\ pc = "single" => \A j \in n2 : j < it => far(j) \in foundset

Earned ==
    (mpr_algorithm # "OLSRD" /\ pc # "start") =>
        /\ IsFiniteSet(mprset \ Always)
        /\ Cardinality(mprset \ Always) + Cardinality(FarNodes(n2))
               <= Cardinality(FarNodes(Uncovered))

EInv == TypeOK /\ PassedIsFound /\ Earned

LEMMA FarNodesFinite ==
    ASSUME TypeOK, NEW K \in SUBSET Uncovered
    PROVE  IsFiniteSet(FarNodes(K)) /\ Cardinality(FarNodes(K)) \in Nat
  <1> DEFINE D == 1..Len(nb2hopset)
             f == [k \in K |-> far(k)]
  <1>1. Len(nb2hopset) \in Nat /\ K \subseteq D
    BY DEF TypeOK, Uncovered
  <1>2. IsFiniteSet(D)
    BY <1>1, FS_Interval
  <1> HIDE DEF D
  <1>3. IsFiniteSet(K)
    BY <1>1, <1>2, FS_Subset
  <1>4. f \in Surjection(K, FarNodes(K))
    BY DEF Surjection, FarNodes
  <1> HIDE DEF f
  <1>5. IsFiniteSet(FarNodes(K))
    BY <1>3, <1>4, FS_Surjection
  <1> QED
    BY <1>5, FS_CardinalityType

\* One relay more, one far node less.
LEMMA OneForOne ==
    ASSUME TypeOK, NEW R, IsFiniteSet(R), NEW m, NEW K \in SUBSET Uncovered,
           NEW K2 \in SUBSET K, NEW y \in FarNodes(K), y \notin FarNodes(K2),
           NEW R2, R2 \subseteq R \cup {m},
           NEW c \in Nat, Cardinality(R) + Cardinality(FarNodes(K)) <= c
    PROVE  IsFiniteSet(R2) /\ Cardinality(R2) + Cardinality(FarNodes(K2)) <= c
  <1> DEFINE F  == FarNodes(K)
             F2 == FarNodes(K2)
  <1>1. /\ IsFiniteSet(F) /\ Cardinality(F) \in Nat
        /\ IsFiniteSet(F2) /\ Cardinality(F2) \in Nat
    BY FarNodesFinite
  <1>2. F2 \subseteq F \ {y} /\ y \in F
    BY DEF FarNodes
  <1> HIDE DEF F, F2
  <1>3. Cardinality(F2) <= Cardinality(F) - 1
    <2>1. IsFiniteSet(F \ {y}) /\ Cardinality(F \ {y}) = Cardinality(F) - 1
      BY <1>1, <1>2, FS_RemoveElement
    <2>2. Cardinality(F2) <= Cardinality(F \ {y})
      BY <1>2, <2>1, FS_Subset
    <2> QED
      BY <1>1, <2>1, <2>2
  <1>4. /\ IsFiniteSet(R2) /\ Cardinality(R) \in Nat /\ Cardinality(R2) \in Nat
        /\ Cardinality(R2) <= Cardinality(R) + 1
    <2>1. /\ Cardinality(R) \in Nat
          /\ IsFiniteSet(R \cup {m})
          /\ Cardinality(R \cup {m}) \in {Cardinality(R), Cardinality(R) + 1}
      BY FS_AddElement, FS_CardinalityType
    <2>2. IsFiniteSet(R2) /\ Cardinality(R2) <= Cardinality(R \cup {m})
      BY <2>1, FS_Subset
    <2>3. Cardinality(R2) \in Nat
      BY <2>2, FS_CardinalityType
    <2> QED
      BY <2>1, <2>2, <2>3
  <1>5. Cardinality(R) + Cardinality(F) <= c
    BY DEF F
  <1>6. Cardinality(R2) + Cardinality(F2) <= c
    BY <1>1, <1>3, <1>4, <1>5
  <1> QED
    BY <1>4, <1>6 DEF F2

LEMMA EarnedStart == EInv /\ Start => PassedIsFound' /\ Earned'
  <1> SUFFICES ASSUME TypeOK, PassedIsFound, Start PROVE PassedIsFound' /\ Earned'
    BY DEF EInv
  <1>1. UNCHANGED <<mpr_algorithm, sym, willingness, nb2hopset, it, foundset>> /\ pc = "start"
    BY DEF Start, inputs
  <1>2. Uncovered' = Uncovered /\ Always' = Always
    BY <1>1 DEF Uncovered, Always, N, Willing, nb, far
  <1>3. CASE mpr_algorithm = "OLSRD"
    BY <1>1, <1>3 DEF Start, PassedIsFound, Earned
  <1>4. CASE mpr_algorithm # "OLSRD"
    <2>1. n2' = Uncovered /\ mprset' \in {{}, Always} /\ pc' \in {"single", "greedy"}
      BY <1>4 DEF Start
    <2>2. mprset' \ Always = {}
      BY <2>1
    <2>3. FarNodes(n2)' = FarNodes(Uncovered) /\ FarNodes(Uncovered)' = FarNodes(Uncovered)
      BY <1>1, <1>2, <2>1 DEF FarNodes, far
    <2>4. Cardinality(FarNodes(Uncovered)) \in Nat
      BY FarNodesFinite
    <2>5. Earned'
      BY <1>2, <2>2, <2>3, <2>4, FS_EmptySet DEF Earned
    <2>6. PassedIsFound'
      <3>1. \A j \in Uncovered : j \in Nat /\ ~(j < 1)
        BY NbOfTuple DEF TypeOK, Uncovered
      <3>2. it' = 1
        BY <1>1 DEF PassedIsFound
      <3> QED
        BY <2>1, <3>1, <3>2 DEF PassedIsFound
    <2> QED
      BY <2>5, <2>6
  <1> QED
    BY <1>3, <1>4

LEMMA EarnedSingle == EInv /\ Single => PassedIsFound' /\ Earned'
  <1> SUFFICES ASSUME TypeOK, PassedIsFound, Earned, Single PROVE PassedIsFound' /\ Earned'
    BY DEF EInv
  <1>1. /\ UNCHANGED <<mpr_algorithm, sym, willingness, nb2hopset, pc>> /\ pc = "single"
        /\ n2 \subseteq Uncovered
    BY DEF Single, inputs, TypeOK
  <1>2. Uncovered' = Uncovered /\ Always' = Always /\ \A j : far(j)' = far(j)
    BY <1>1 DEF Uncovered, Always, N, Willing, nb, far
  <1>3. PICK k \in n2 :
          /\ NextOne(k)
          /\ \/ /\ foundset' = foundset \cup {far(k)} /\ it' = k + 1
                /\ UNCHANGED <<n2, mprset>>
             \/ /\ far(k) \notin foundset /\ ~HasBackup(k)
                /\ mprset' = mprset \cup {nb(k)} /\ n2' = Remaining(k)
                /\ it' \in {1, k + 1} /\ UNCHANGED foundset
    BY DEF Single
  <1>4. it \in Nat /\ \A j \in n2 : j \in Nat /\ j >= 1
    BY <1>1, NbOfTuple DEF TypeOK, Uncovered
  <1>5. \A j \in n2 : j < k => far(j) \in foundset
    BY <1>1, <1>3, <1>4 DEF NextOne, PassedIsFound
  <1>6. CASE foundset' = foundset \cup {far(k)} /\ it' = k + 1 /\ UNCHANGED <<n2, mprset>>
    <2>1. PassedIsFound'
      <3>1. ASSUME NEW j \in n2, j < k + 1 PROVE far(j) \in foundset'
        <4>1. j < k \/ j = k
          BY <1>3, <1>4, <3>1
        <4> QED
          BY <1>5, <1>6, <4>1
      <3> QED
        BY <1>1, <1>2, <1>6, <3>1 DEF PassedIsFound
    <2>2. FarNodes(n2)' = FarNodes(n2) /\ FarNodes(Uncovered)' = FarNodes(Uncovered)
      BY <1>2, <1>6 DEF FarNodes
    <2> QED
      BY <1>1, <1>2, <1>6, <2>1, <2>2 DEF Earned
  <1>7. CASE /\ far(k) \notin foundset /\ ~HasBackup(k)
             /\ mprset' = mprset \cup {nb(k)} /\ n2' = Remaining(k)
             /\ it' \in {1, k + 1} /\ UNCHANGED foundset
    <2>1. n2' \subseteq n2 /\ k \notin n2'
      BY <1>7 DEF Remaining
    <2>2. \A j \in n2 : far(j) = far(k) => j = k
      BY <1>3, <1>4, <1>5, <1>7 DEF HasBackup
    <2>3. PassedIsFound'
      <3>1. ASSUME NEW j \in n2', j < it' PROVE far(j) \in foundset'
        <4>1. j \in Nat /\ j >= 1 /\ j # k /\ k \in Nat
          BY <1>3, <1>4, <2>1
        <4>2. j < k
          BY <1>7, <3>1, <4>1
        <4> QED
          BY <1>5, <1>7, <2>1, <4>2
      <3> QED
        BY <1>1, <1>2, <3>1 DEF PassedIsFound
    <2>4. Earned'
      <3> DEFINE R == mprset \ Always
                 R2 == mprset' \ Always
                 c == Cardinality(FarNodes(Uncovered))
                 y == far(k)
                 m == nb(k)
      <3>1. SUFFICES ASSUME mpr_algorithm # "OLSRD"
                     PROVE  IsFiniteSet(R2) /\ Cardinality(R2) + Cardinality(FarNodes(n2')) <= c
        <4>1. FarNodes(n2)' = FarNodes(n2') /\ FarNodes(Uncovered)' = FarNodes(Uncovered)
          BY <1>2 DEF FarNodes
        <4> QED
          BY <1>1, <1>2, <3>1, <4>1 DEF Earned
      <3>2. IsFiniteSet(R) /\ Cardinality(R) + Cardinality(FarNodes(n2)) <= c /\ c \in Nat
        BY <1>1, <3>1, FarNodesFinite DEF Earned
      <3>3. R2 \subseteq R \cup {m}
        BY <1>7
      <3>4. y \in FarNodes(n2) /\ y \notin FarNodes(n2')
        BY <1>3, <2>1, <2>2 DEF FarNodes
      <3> HIDE DEF R, R2, c, y, m
      <3> QED
        BY <1>1, <2>1, <3>2, <3>3, <3>4, OneForOne
    <2> QED
      BY <2>3, <2>4
  <1> QED
    BY <1>3, <1>6, <1>7

LEMMA EarnedGreedy == EInv /\ Greedy => PassedIsFound' /\ Earned'
  <1> SUFFICES ASSUME TypeOK, PassedIsFound, Earned, Greedy PROVE PassedIsFound' /\ Earned'
    BY DEF EInv
  <1>1. /\ UNCHANGED <<mpr_algorithm, sym, willingness, nb2hopset, pc>> /\ pc = "greedy"
        /\ n2 \subseteq Uncovered
    BY DEF Greedy, inputs, TypeOK
  <1>2. Uncovered' = Uncovered /\ Always' = Always /\ \A j : far(j)' = far(j)
    BY <1>1 DEF Uncovered, Always, N, Willing, nb, far
  <1>3. PICK m \in Selectable : mprset' = mprset \cup {m} /\ n2' = n2 \ CoveredBy(m)
    BY DEF Greedy
  <1>4. PICK k \in n2 : nb(k) = m
    BY SelectableAreCandidates DEF Candidates
  <1>5. Earned'
    <2> DEFINE R == mprset \ Always
               R2 == mprset' \ Always
               c == Cardinality(FarNodes(Uncovered))
               y == far(k)
    <2>1. SUFFICES ASSUME mpr_algorithm # "OLSRD"
                   PROVE  IsFiniteSet(R2) /\ Cardinality(R2) + Cardinality(FarNodes(n2')) <= c
      <3>1. FarNodes(n2)' = FarNodes(n2') /\ FarNodes(Uncovered)' = FarNodes(Uncovered)
        BY <1>2 DEF FarNodes
      <3> QED
        BY <1>1, <1>2, <2>1, <3>1 DEF Earned
    <2>2. IsFiniteSet(R) /\ Cardinality(R) + Cardinality(FarNodes(n2)) <= c /\ c \in Nat
      BY <1>1, <2>1, FarNodesFinite DEF Earned
    <2>3. R2 \subseteq R \cup {m} /\ n2' \subseteq n2
      BY <1>3
    <2>4. y \in FarNodes(n2) /\ y \notin FarNodes(n2')
      <3>1. \A j \in n2 : far(j) = far(k) => j \in CoveredBy(m)
        BY <1>4 DEF CoveredBy
      <3> QED
        BY <1>3, <1>4, <3>1 DEF FarNodes
    <2> HIDE DEF R, R2, c, y
    <2> QED
      BY <1>1, <2>2, <2>3, <2>4, OneForOne
  <1> QED
    BY <1>1, <1>5 DEF PassedIsFound

LEMMA EarnedDone ==
    EInv /\ (SingleDone \/ GreedyDone \/ UNCHANGED vars) => PassedIsFound' /\ Earned'
  <1> SUFFICES ASSUME TypeOK, PassedIsFound, Earned,
                      SingleDone \/ GreedyDone \/ UNCHANGED vars
               PROVE  PassedIsFound' /\ Earned'
    BY DEF EInv
  <1>1. /\ UNCHANGED <<mpr_algorithm, sym, willingness, nb2hopset, n2, it, foundset, mprset>>
        /\ pc' \in {"greedy", "done"} \/ pc' = pc
        /\ pc' # "start" => pc # "start"
    BY DEF SingleDone, GreedyDone, vars, inputs
  <1>2. /\ Uncovered' = Uncovered /\ Always' = Always
        /\ FarNodes(n2)' = FarNodes(n2) /\ FarNodes(Uncovered)' = FarNodes(Uncovered)
        /\ \A j : far(j)' = far(j)
    BY <1>1 DEF Uncovered, Always, N, Willing, nb, far, FarNodes
  <1> QED
    BY <1>1, <1>2 DEF PassedIsFound, Earned

\* Every relay but those with WILL_ALWAYS has a far node to itself, in the count:
\* there are never more of them than nodes two hops away (l.700-855).
THEOREM RelaysAreFew == Spec => []RelaysEarnTheirPlace
  <1>1. Init => EInv
    <2>1. Init => PassedIsFound /\ Earned
      BY DEF Init, PassedIsFound, Earned
    <2> QED
      BY <2>1, TypeInit DEF EInv
  <1>2. EInv /\ [Next]_vars => EInv'
    <2>1. EInv /\ [Next]_vars => TypeOK'
      BY TypeStart, TypeSingle, TypeGreedy, TypeDone DEF Next, EInv
    <2>2. EInv /\ [Next]_vars => PassedIsFound' /\ Earned'
      BY EarnedStart, EarnedSingle, EarnedGreedy, EarnedDone DEF Next
    <2> QED
      BY <2>1, <2>2 DEF EInv
  <1>3. EInv => RelaysEarnTheirPlace
    BY DEF EInv, Earned, RelaysEarnTheirPlace
  <1> QED
    BY <1>1, <1>2, <1>3, PTL DEF Spec
=============================================================================
