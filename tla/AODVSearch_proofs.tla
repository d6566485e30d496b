-------------------------- MODULE AODVSearch_proofs --------------------------
(***************************************************************************)
(* Proofs about AODVSearch for every value of its constants.  The counter  *)
(* of the code counts every flood since the last pause or answer; that it  *)
(* stays within bounds needs that a search never starts once the test of   *)
(* sendRequest has failed, and that an entry which was never searched has  *)
(* a counter of zero.                                                      *)
(***************************************************************************)
EXTENDS AODVSearch, TLAPS

\* The counter keeps up with the floods, and is untouched before the first one.
Counted == wide <= rt.cnt /\ (rt.timer = "zero" => rt.cnt = 0)

IInv == TypeOK /\ FlagsMatch /\ Counted

\* A request has some way to go, and never farther than the network is wide.
LEMMA TtlBounds ==
    ASSUME NEW e \in Entry
    PROVE  Ttl(e) \in 1..NETWORK_DIAMETER /\ LastTtl(e) \in Nat
<1>1. LastTtl(e) \in Nat
  BY DEF LastTtl, Larger, Entry
<1>2. Ttl(e) \in 1..NETWORK_DIAMETER
  BY <1>1, ConstantsAssumption DEF Ttl
<1>3. QED
  BY <1>1, <1>2

LEMMA InitOK == Init => IInv
BY ConstantsAssumption DEF Init, IInv, TypeOK, FlagsMatch, Counted, Entry

\* sendRequest keeps the invariant when it is called with an entry that differs
\* from the one in the table at most in its flags.
LEMMA SendRequestOK ==
    ASSUME IInv,
           NEW e \in Entry, NEW q \in 0..MaxQueued,
           SendRequest(e, q),
           e.cnt = rt.cnt, e.timer = rt.timer,
           e.flags = "RTF_DOWN" <=> e.hops = INFINITY2,
           e.flags # "RTF_UP"
    PROVE  IInv'
<1>1. /\ rt.cnt \in 0..(RREQ_RETRIES + 1) /\ wide \in Nat /\ wide <= rt.cnt
      /\ rt.timer = "zero" => rt.cnt = 0
      /\ ring \in 0..NETWORK_DIAMETER
  BY DEF IInv, TypeOK, Counted
<1>2. RREQ_RETRIES \in Nat /\ MaxQueued \in Nat /\ NETWORK_DIAMETER \in Nat
  BY ConstantsAssumption
<1>3. CASE e.timer = "future"
  <2>1. rt' = e /\ queued' = q /\ ring' = ring /\ wide' = wide
    BY <1>3 DEF SendRequest
  <2>2. QED
    BY <2>1, <1>1, <1>2 DEF IInv, TypeOK, FlagsMatch, Counted
<1>4. CASE e.timer # "future" /\ GivesUp(e)
  <2>1. /\ rt' = [e EXCEPT !.timer = "future", !.cnt = 0]
        /\ queued' = 0 /\ wide' = 0 /\ ring' = ring
    BY <1>4 DEF SendRequest
  <2>2. /\ rt' \in Entry /\ rt'.cnt = 0 /\ rt'.timer = "future"
        /\ rt'.flags = e.flags /\ rt'.hops = e.hops
    BY <2>1 DEF Entry
  <2>3. QED
    BY <2>1, <2>2, <1>1, <1>2 DEF IInv, TypeOK, FlagsMatch, Counted
<1>5. CASE e.timer # "future" /\ ~GivesUp(e)
  <2> DEFINE more == IF IsWide(e) THEN e.cnt + 1 ELSE e.cnt
  <2>1. /\ rt' = [e EXCEPT !.timer = "future", !.lastTtl = Ttl(e), !.cnt = more]
        /\ queued' = q /\ ring' = Ttl(e)
        /\ wide' = IF IsWide(e) THEN wide + 1 ELSE wide
    BY <1>5 DEF SendRequest
  <2>2. more \in 0..(RREQ_RETRIES + 1) /\ wide' \in Nat /\ wide' <= more
    BY <2>1, <1>1, <1>2, <1>5 DEF GivesUp
  <2>3. Ttl(e) \in Nat /\ Ttl(e) \in 0..NETWORK_DIAMETER
    BY TtlBounds, <1>2
  <2>4. /\ rt' \in Entry /\ rt'.cnt = more /\ rt'.timer = "future"
        /\ rt'.flags = e.flags /\ rt'.hops = e.hops
    <3> HIDE DEF more
    <3>1. more \in Nat
      BY <2>2, <1>2
    <3>2. QED
      BY <2>1, <2>3, <3>1 DEF Entry
  <2>5. QED
    <3> HIDE DEF more
    <3>1. QED
      BY <2>1, <2>2, <2>3, <2>4, <1>2 DEF IInv, TypeOK, FlagsMatch, Counted
<1>6. QED
  BY <1>3, <1>4, <1>5

\* Every step keeps the invariant: one case per action.
LEMMA NextOK == IInv /\ [Next]_vars => IInv'
<1> SUFFICES ASSUME IInv, [Next]_vars
             PROVE  IInv'
  OBVIOUS
<1>1. /\ rt \in Entry /\ queued \in 0..MaxQueued
      /\ rt.flags = "RTF_DOWN" <=> rt.hops = INFINITY2
      /\ rt.flags = "RTF_UP" => queued = 0
  BY DEF IInv, TypeOK, FlagsMatch
<1>2. MaxQueued \in Nat /\ RREQ_RETRIES \in Nat /\ NETWORK_DIAMETER \in Nat
  BY ConstantsAssumption
<1>3. CASE Resolve
  <2>1. rt.flags # "RTF_UP" /\ queued + 1 \in 0..MaxQueued /\ SendRequest(rt, queued + 1)
    BY <1>1, <1>2, <1>3 DEF Resolve
  <2>2. QED
    BY <2>1, <1>1, SendRequestOK
<1>4. CASE ResolveInRepair
  BY <1>1, <1>2, <1>4 DEF ResolveInRepair, IInv, TypeOK, FlagsMatch, Counted
<1>5. CASE Purge
  BY <1>1, <1>5, SendRequestOK DEF Purge
<1>6. CASE RequestTimeout
  <2>1. /\ rt' \in Entry /\ rt'.flags = rt.flags /\ rt'.hops = rt.hops
        /\ rt'.cnt = rt.cnt /\ rt'.timer = "past"
    BY <1>1, <1>6 DEF RequestTimeout, Entry
  <2>2. QED
    BY <2>1, <1>6 DEF RequestTimeout, IInv, TypeOK, FlagsMatch, Counted
<1>7. CASE Lost \/ RepairTimeout
  <2>1. rt' = RtDown(rt) /\ UNCHANGED <<queued, ring, wide>>
    BY <1>7 DEF Lost, RepairTimeout
  <2>2. INFINITY2 \in Nat
    BY ConstantsAssumption
  <2>3. /\ rt' \in Entry /\ rt'.flags = "RTF_DOWN" /\ rt'.hops = INFINITY2
        /\ rt'.cnt = rt.cnt /\ rt'.timer = rt.timer
    BY <1>1, <2>1, <2>2 DEF RtDown, Entry
  <2>4. QED
    BY <2>1, <2>3 DEF IInv, TypeOK, FlagsMatch, Counted
<1>8. CASE LocalRepair
  <2> DEFINE e == [rt EXCEPT !.flags = "RTF_IN_REPAIR"]
  <2>1. /\ rt.hops # INFINITY2 /\ queued + 1 \in 0..MaxQueued /\ SendRequest(e, queued + 1)
    BY <1>1, <1>2, <1>8 DEF LocalRepair
  <2>2. /\ e \in Entry /\ e.flags = "RTF_IN_REPAIR" /\ e.hops = rt.hops
        /\ e.cnt = rt.cnt /\ e.timer = rt.timer
    BY <1>1 DEF Entry
  <2>3. QED
    <3> HIDE DEF e
    <3>1. QED
      BY <2>1, <2>2, SendRequestOK
<1>9. ASSUME NEW h \in Hops, Reply(h) \/ ReverseRoute(h)
      PROVE  IInv'
  <2>1. h \in Nat /\ h # INFINITY2
    BY ConstantsAssumption
  <2>2. rt.timer = "zero" => rt.cnt = 0
    BY DEF IInv, Counted
  <2>3. queued' = 0 /\ ring' = 0 /\ wide' = 0
    BY <1>9 DEF Reply, ReverseRoute
  <2>4. CASE Reply(h) \/ rt.timer # "zero"
    <3>1. rt' = [rt EXCEPT !.flags = "RTF_UP", !.hops = h, !.cnt = 0, !.timer = "zero",
                           !.lastTtl = h]
      BY <1>9, <2>4 DEF Reply, ReverseRoute
    <3>2. rt' \in Entry /\ rt'.flags = "RTF_UP" /\ rt'.hops = h /\ rt'.cnt = 0
      BY <1>1, <2>1, <3>1 DEF Entry
    <3>3. QED
      BY <2>1, <2>3, <3>2, <1>2 DEF IInv, TypeOK, FlagsMatch, Counted
  <2>5. CASE ~Reply(h) /\ rt.timer = "zero"
    <3>1. rt' = [rt EXCEPT !.flags = "RTF_UP", !.hops = h]
      BY <1>9, <2>5 DEF ReverseRoute
    <3>2. rt' \in Entry /\ rt'.flags = "RTF_UP" /\ rt'.hops = h /\ rt'.cnt = 0
      BY <1>1, <2>1, <2>2, <2>5, <3>1 DEF Entry
    <3>3. QED
      BY <2>1, <2>3, <3>2, <1>2 DEF IInv, TypeOK, FlagsMatch, Counted
  <2>6. QED
    BY <2>4, <2>5
<1>10. CASE UNCHANGED vars
  BY <1>10 DEF vars, IInv, TypeOK, FlagsMatch, Counted
<1>11. QED
  BY <1>3, <1>4, <1>5, <1>6, <1>7, <1>8, <1>9, <1>10 DEF Next

THEOREM Invariance == Spec => []IInv
BY InitOK, NextOK, PTL DEF Spec

\* The state of a search keeps its type; its counter cannot run away.
THEOREM TypeCorrect == Spec => []TypeOK
<1>1. IInv => TypeOK
  BY DEF IInv
<1>2. QED
  BY Invariance, <1>1, PTL

\* At most RREQ_RETRIES + 1 requests flood the network before a pause or an
\* answer, for every choice of the ring constants of aodv.h.
THEOREM FloodsBounded == Spec => []FloodsAreBounded
<1>1. IInv => FloodsAreBounded
  BY ConstantsAssumption DEF IInv, TypeOK, Counted, FloodsAreBounded
<1>2. QED
  BY Invariance, <1>1, PTL

\* No packet waits behind a route that is up, and a route is down exactly when
\* its hop count says so.
THEOREM FlagsAgree == Spec => []FlagsMatch
<1>1. IInv => FlagsMatch
  BY DEF IInv
<1>2. QED
  BY Invariance, <1>1, PTL

\* The search resumes from the reach of the last request.
Resumes == ring = 0 \/ ring = rt.lastTtl

LEMMA TtlGrows ==
    ASSUME NEW e \in Entry
    PROVE  \/ Ttl(e) = NETWORK_DIAMETER
           \/ Ttl(e) > e.lastTtl /\ Ttl(e) > e.lastHopCount
<1>1. e.lastTtl \in Nat /\ e.lastHopCount \in Nat
  BY DEF Entry
<1>2. LastTtl(e) \in Nat /\ LastTtl(e) >= e.lastTtl /\ LastTtl(e) >= e.lastHopCount
  BY <1>1 DEF LastTtl, Larger
<1>3. QED
  BY <1>1, <1>2, ConstantsAssumption DEF Ttl

\* What one step does to the reach.
Expands == ring' # 0 =>
               /\ ring' >= ring
               /\ ring' # ring => ring' > rt.lastHopCount \/ ring' = NETWORK_DIAMETER

LEMMA SendRequestExpands ==
    ASSUME IInv, Resumes, NEW e \in Entry, NEW q, SendRequest(e, q),
           e.lastTtl = rt.lastTtl, e.lastHopCount = rt.lastHopCount
    PROVE  Expands /\ Resumes'
<1>1. ring \in Nat /\ ring <= NETWORK_DIAMETER /\ NETWORK_DIAMETER \in Nat
  BY ConstantsAssumption DEF IInv, TypeOK
<1>2. CASE ring' = ring /\ rt'.lastTtl = e.lastTtl
  BY <1>1, <1>2 DEF Expands, Resumes
<1>3. CASE ring' = Ttl(e) /\ rt' = [e EXCEPT !.timer = "future", !.lastTtl = Ttl(e),
                                          !.cnt = IF IsWide(e) THEN e.cnt + 1 ELSE e.cnt]
  <2>1. rt'.lastTtl = ring'
    BY <1>3 DEF Entry
  <2>2. Ttl(e) \in Nat /\ e.lastTtl \in Nat /\ e.lastHopCount \in Nat
    BY TtlBounds DEF Entry
  <2>3. Expands
    BY <1>1, <1>3, <2>2, TtlGrows DEF Expands, Resumes
  <2>4. QED
    BY <2>1, <2>3 DEF Resumes
<1>4. CASE rt' = e /\ ring' = ring
  BY <1>2, <1>4
<1>5. CASE rt' = [e EXCEPT !.timer = "future", !.cnt = 0] /\ ring' = ring
  <2>1. rt'.lastTtl = e.lastTtl
    BY <1>5 DEF Entry
  <2>2. QED
    BY <1>2, <1>5, <2>1
<1>6. QED
  BY <1>3, <1>4, <1>5 DEF SendRequest

LEMMA NextExpands ==
    ASSUME IInv, Resumes, [Next]_vars
    PROVE  Expands /\ Resumes'
<1>1. rt \in Entry /\ ring \in Nat
  BY ConstantsAssumption DEF IInv, TypeOK
<1>2. ASSUME UNCHANGED ring, rt'.lastTtl = rt.lastTtl
      PROVE  Expands /\ Resumes'
  BY <1>1, <1>2 DEF Expands, Resumes
<1>3. CASE Resolve \/ Purge
  BY <1>1, <1>3, SendRequestExpands DEF Resolve, Purge
<1>4. CASE LocalRepair
  <2> DEFINE e == [rt EXCEPT !.flags = "RTF_IN_REPAIR"]
  <2>1. SendRequest(e, queued + 1)
    BY <1>4 DEF LocalRepair
  <2>2. e \in Entry /\ e.lastTtl = rt.lastTtl /\ e.lastHopCount = rt.lastHopCount
    BY <1>1 DEF Entry
  <2> HIDE DEF e
  <2>3. QED
    BY <2>1, <2>2, SendRequestExpands
<1>5. CASE ResolveInRepair \/ UNCHANGED vars
  BY <1>2, <1>5 DEF ResolveInRepair, vars
<1>6. CASE RequestTimeout
  <2>1. rt'.lastTtl = rt.lastTtl
    BY <1>1, <1>6 DEF RequestTimeout, Entry
  <2>2. QED
    BY <1>2, <1>6, <2>1 DEF RequestTimeout
<1>7. CASE Lost \/ RepairTimeout
  <2>1. rt' = RtDown(rt) /\ UNCHANGED ring
    BY <1>7 DEF Lost, RepairTimeout
  <2>2. rt'.lastTtl = rt.lastTtl
    BY <1>1, <2>1 DEF RtDown, Entry
  <2>3. QED
    BY <1>2, <2>1, <2>2
<1>8. ASSUME NEW h \in Hops, Reply(h) \/ ReverseRoute(h)
      PROVE  Expands /\ Resumes'
  <2>1. ring' = 0
    BY <1>8 DEF Reply, ReverseRoute
  <2>2. QED
    BY <2>1 DEF Expands, Resumes
<1>9. QED
  BY <1>3, <1>4, <1>5, <1>6, <1>7, <1>8 DEF Next

\* As long as there is no answer, every request of a search reaches as far as the one
\* before, and farther than the lost route did or as far as the network is wide,
\* whatever pauses, repairs and timeouts come in between (sendRequest).
THEOREM SearchesExpand == Spec => RingExpands
<1>1. Init => Resumes
  BY DEF Init, Resumes
<1>2. IInv /\ Resumes /\ [Next]_vars => Resumes'
  BY NextExpands
<1>3. IInv /\ Resumes /\ [Next]_vars => [Expands]_vars
  BY NextExpands
<1>4. QED
  BY <1>1, <1>2, <1>3, Invariance, PTL DEF Spec, RingExpands, Expands
=============================================================================
