---------------------- MODULE SelfishGenerator_proofs ----------------------
(***************************************************************************)
(* For every command line: the generator names distinct, existing nodes,   *)
(* and draws only while some node is left.                                 *)
(***************************************************************************)
EXTENDS SelfishGenerator, FiniteSetTheorems, TLAPS

\* The loop invariant of the comparison, and what the guard of l.25 leaves.
Compared ==
    /\ pc = "compare" => n < INTERVALO /\ \A k \in 1..j : val[k] # n
    /\ pc \in {"draw", "compare"} => NSelfish <= INTERVALO

IInv == TypeOK /\ DistinctNodes /\ Compared

LEMMA InitOK == Init => IInv
  BY ArgsAssumption DEF Init, IInv, TypeOK, DistinctNodes, Compared

LEMMA NextOK == IInv /\ [Next]_vars => IInv'
<1> SUFFICES ASSUME IInv, [Next]_vars PROVE IInv'
  OBVIOUS
<1> USE DEF IInv, TypeOK, DistinctNodes, Compared
<1>1. CASE LoopHead
  BY <1>1 DEF LoopHead, LoopDone, TooMany
<1>2. ASSUME NEW r \in 0..(INTERVALO - 1), Draw(r) PROVE IInv'
  BY <1>2 DEF Draw
<1>3. CASE Compare
  BY <1>3 DEF Compare, Used
<1>4. CASE Accept
  <2>1. /\ val' = Append(val, n) /\ pc' = "for" /\ j' = j /\ n' = n
        /\ UNCHANGED <<NSelfish, INTERVALO>> /\ pc = "compare" /\ j = Len(val)
    BY <1>4 DEF Accept, AllCompared
  <2>2. /\ Len(val') = Len(val) + 1 /\ val'[Len(val) + 1] = n
        /\ \A k \in 1..Len(val) : val'[k] = val[k]
    BY <2>1
  <2>3. DOMAIN val = 1..Len(val) /\ DOMAIN val' = 1..(Len(val) + 1)
    BY <2>1, <2>2
  <2>4. DistinctNodes'
    BY <2>1, <2>2, <2>3
  <2> QED
    BY <2>1, <2>2, <2>4
<1>5. CASE UNCHANGED vars
  BY <1>5 DEF vars
<1> QED
  BY <1>1, <1>2, <1>3, <1>4, <1>5 DEF Next

\* IInv is inductive.
LEMMA Invariance == Spec => []IInv
  BY InitOK, NextOK, PTL DEF Spec

\* Every variable keeps its type, and val is never written past its end.
THEOREM TypeCorrect == Spec => []TypeOK
<1>1. IInv => TypeOK
  BY DEF IInv
<1> QED
  BY <1>1, Invariance, PTL

\* No node is named twice, and every one exists, for any arguments and any rand().
THEOREM Distinct == Spec => []DistinctNodes
<1>1. IInv => DistinctNodes
  BY DEF IInv
<1> QED
  BY <1>1, Invariance, PTL

\* Fewer than INTERVALO numbers are taken whenever one is drawn.
LEMMA RoomInv == IInv => RoomToDraw
<1> SUFFICES ASSUME IInv, pc = "draw",
                    \A r \in 0..(INTERVALO - 1) : \E x \in DOMAIN val : val[x] = r
             PROVE  FALSE
  BY DEF RoomToDraw
<1> DEFINE Taken == {val[x] : x \in 1..Len(val)}
<1>1. /\ INTERVALO \in Nat /\ NSelfish \in Nat /\ Len(val) \in Nat
      /\ Len(val) < NSelfish /\ NSelfish <= INTERVALO /\ DOMAIN val = 1..Len(val)
  BY DEF IInv, TypeOK, Compared
<1>2. 0..(INTERVALO - 1) \subseteq Taken
  BY <1>1
<1>3. IsFiniteSet(1..Len(val)) /\ Cardinality(1..Len(val)) = Len(val)
  <2> DEFINE l == Len(val)
  <2> HIDE DEF l
  <2>1. l \in Nat
    BY <1>1 DEF l
  <2>2. IsFiniteSet(1..l) /\ Cardinality(1..l) = IF 1 > l THEN 0 ELSE l - 1 + 1
    BY <2>1, FS_Interval
  <2>3. IsFiniteSet(1..l) /\ Cardinality(1..l) = l
    BY <2>1, <2>2
  <2> QED
    BY <2>3 DEF l
<1>4. IsFiniteSet(Taken) /\ Cardinality(Taken) <= Len(val)
  <2>1. [x \in 1..Len(val) |-> val[x]] \in Surjection(1..Len(val), Taken)
    BY DEF Surjection
  <2> DEFINE dom == 1..Len(val)
             f   == [x \in 1..Len(val) |-> val[x]]
  <2>2. f \in Surjection(dom, Taken) /\ IsFiniteSet(dom) /\ Cardinality(dom) = Len(val)
    BY <2>1, <1>3
  <2> HIDE DEF dom, f, Taken
  <2>3. IsFiniteSet(Taken) /\ Cardinality(Taken) <= Cardinality(dom)
    BY <2>2, FS_Surjection
  <2> QED
    BY <2>2, <2>3
<1>5. Cardinality(0..(INTERVALO - 1)) = INTERVALO
  <2> DEFINE last == INTERVALO - 1
  <2> HIDE DEF last
  <2>1. last \in Int /\ last + 1 = INTERVALO /\ last >= 0
    BY <1>1 DEF last
  <2>2. Cardinality(0..last) = IF 0 > last THEN 0 ELSE last - 0 + 1
    BY <2>1, FS_Interval
  <2>3. Cardinality(0..last) = INTERVALO
    BY <2>1, <2>2
  <2> QED
    BY <2>3 DEF last
<1>6. Cardinality(0..(INTERVALO - 1)) <= Cardinality(Taken)
  BY <1>2, <1>4, FS_Subset
<1>7. Cardinality(Taken) \in Nat
  BY <1>4, FS_CardinalityType
<1> QED
  BY <1>1, <1>4, <1>5, <1>6, <1>7

\* rand() % INTERVALO never divides by zero, and a draw can always succeed.
THEOREM Room == Spec => []RoomToDraw
  BY RoomInv, Invariance, PTL
=============================================================================
