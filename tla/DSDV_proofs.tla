----------------------------- MODULE DSDV_proofs -----------------------------
(***************************************************************************)
(* Proofs about DSDV, for any set of nodes, links, flows and any values of *)
(* the other constants.                                                    *)
(***************************************************************************)
EXTENDS DSDV, WellFoundedInduction, TLAPS

-----------------------------------------------------------------------------
(* The operators keep the types of entries, rows of the table and messages *)

LEMMA FreshType ==
    ASSUME NEW hop \in Node, NEW metric \in Metric, NEW seqnum \in Nat
    PROVE  LET x == Fresh(hop, metric, seqnum)
           IN  /\ x \in Entry
               /\ x.hop = hop /\ x.metric = metric /\ x.seqnum = seqnum
               /\ x.q = <<>> /\ ~x.timeout
BY ConstantsAssumption DEF Fresh, Entry, Metric

LEMMA CandidateType ==
    ASSUME NEW e \in Entry \cup {None}, NEW d \in Node, NEW s \in Node,
           NEW line \in Advert
    PROVE  LET r == Candidate(e, d, s, line)
           IN  /\ r \in Entry
               /\ r.hop = s /\ r.seqnum = line.seqnum
               /\ r.metric = IF line.metric = BIG THEN BIG ELSE line.metric + 1
               /\ e # None => /\ r.q = e.q /\ r.lastMetric = e.lastMetric
                              /\ r.timeout = e.timeout
               /\ e = None => r.q = <<>>
<1> DEFINE m   == IF line.metric = BIG THEN BIG ELSE line.metric + 1
           old == IF e = None THEN Fresh(s, BIG, 0) ELSE e
           o   == IF m # BIG /\ (e = None \/ e.metric # BIG) THEN "settling" ELSE "now"
<1>1. m \in Metric
  BY ConstantsAssumption DEF Metric, Advert
<1>2. old \in Entry /\ (e = None => old.q = <<>>)
  <2>1. BIG \in Metric
    BY ConstantsAssumption DEF Metric
  <2>2. QED
    BY <2>1, FreshType
<1>3. o \in {"now", "settling", "never"}
  OBVIOUS
<1>4. line.seqnum \in Nat
  BY DEF Advert
<1>5. Candidate(e, d, s, line) =
          [old EXCEPT !.hop = s, !.metric = m, !.seqnum = line.seqnum, !.ok = o]
  BY DEF Candidate
<1> HIDE DEF m, old, o
<1>6. /\ Candidate(e, d, s, line) \in Entry
      /\ Candidate(e, d, s, line).q = old.q
      /\ Candidate(e, d, s, line).hop = s
      /\ Candidate(e, d, s, line).metric = m
      /\ Candidate(e, d, s, line).seqnum = line.seqnum
      /\ Candidate(e, d, s, line).lastMetric = old.lastMetric
      /\ Candidate(e, d, s, line).timeout = old.timeout
  BY <1>1, <1>2, <1>3, <1>4, <1>5 DEF Entry
<1>7. QED
  BY <1>2, <1>6 DEF m, old

LEMMA AnnouncedType ==
    ASSUME NEW e \in Entry \cup {None}, NEW r \in Entry
    PROVE  LET x == Announced(e, r)
           IN  /\ x \in Entry
               /\ x.hop = r.hop /\ x.metric = r.metric /\ x.seqnum = r.seqnum
               /\ x.q = r.q /\ x.timeout = r.timeout
<1> DEFINE am == IF e = None THEN r.metric < BIG ELSE r.metric # e.lastMetric
           as == r.advSeqnum \/ Fresher(e, r)
           x(u, v) == [r EXCEPT !.advMetric = u, !.advSeqnum = v]
<1>1. ASSUME NEW u \in BOOLEAN, NEW v \in BOOLEAN
      PROVE  /\ x(u, v) \in Entry
             /\ x(u, v).hop = r.hop /\ x(u, v).metric = r.metric
             /\ x(u, v).seqnum = r.seqnum
             /\ x(u, v).q = r.q /\ x(u, v).timeout = r.timeout
  BY DEF Entry
<1>2. am \in BOOLEAN /\ as \in BOOLEAN
  <2>1. CASE e = None
    BY <2>1
  <2>2. CASE e # None
    BY <2>2
  <2>3. QED
    BY <2>1, <2>2
<1>3. Announced(e, r) = x(am, as)
  BY Zenon DEF Announced
<1> HIDE DEF am, as, x
<1>4. QED
  BY <1>1, <1>2, <1>3

LEMMA ScheduledType ==
    ASSUME NEW r \in Entry
    PROVE  LET x == Scheduled(r)
           IN  /\ x \in Entry
               /\ x.hop = r.hop /\ x.metric = r.metric /\ x.seqnum = r.seqnum
               /\ x.q = r.q /\ x.timeout = r.timeout
BY DEF Entry, Scheduled

LEMMA EducatedType ==
    ASSUME NEW e \in Entry
    PROVE  LET x == Educated(e)
           IN  /\ x \in Entry
               /\ x.hop = e.hop /\ x.metric = e.metric /\ x.seqnum = e.seqnum
               /\ x.q = e.q /\ x.timeout = e.timeout
BY DEF Entry, Educated

LEMMA SetQueueType ==
    ASSUME NEW e \in Entry, NEW q \in Seq(Packet)
    PROVE  LET x == [e EXCEPT !.q = q]
           IN  /\ x \in Entry
               /\ x.hop = e.hop /\ x.metric = e.metric /\ x.seqnum = e.seqnum
               /\ x.q = q /\ x.timeout = e.timeout
BY DEF Entry

LEMMA SetTimeoutType ==
    ASSUME NEW e \in Entry, NEW b \in BOOLEAN
    PROVE  LET x == [e EXCEPT !.timeout = b]
           IN  /\ x \in Entry
               /\ x.hop = e.hop /\ x.metric = e.metric /\ x.seqnum = e.seqnum
               /\ x.q = e.q /\ x.timeout = b
BY DEF Entry

LEMMA SetOkQueueType ==
    ASSUME NEW e \in Entry, NEW q \in Seq(Packet)
    PROVE  LET x == [e EXCEPT !.ok = "never", !.q = q]
           IN  /\ x \in Entry
               /\ x.hop = e.hop /\ x.metric = e.metric /\ x.seqnum = e.seqnum
               /\ x.q = q /\ x.timeout = e.timeout
BY DEF Entry

LEMMA SetOkTimeoutType ==
    ASSUME NEW e \in Entry
    PROVE  LET x == [e EXCEPT !.ok = "never", !.timeout = TRUE]
           IN  /\ x \in Entry
               /\ x.hop = e.hop /\ x.metric = e.metric /\ x.seqnum = e.seqnum
               /\ x.q = e.q /\ x.timeout
BY DEF Entry

LEMMA SetAdvSeqnumType ==
    ASSUME NEW e \in Entry
    PROVE  LET x == [e EXCEPT !.advSeqnum = TRUE]
           IN  /\ x \in Entry
               /\ x.hop = e.hop /\ x.metric = e.metric /\ x.seqnum = e.seqnum
               /\ x.q = e.q /\ x.timeout = e.timeout
BY DEF Entry

LEMMA EmptySeq == <<>> \in Seq(Packet)
OBVIOUS

\* What processUpdate leaves in an entry is the candidate or the old entry, up
\* to flags; the queue is the candidate's, or empty once it was flushed.
LEMMA LearnedType ==
    ASSUME NEW e \in Entry \cup {None}, NEW r \in Entry,
           e # None => r.q = e.q /\ r.timeout = e.timeout
    PROVE  LET x == Learned(e, r)
           IN  /\ x \in Entry
               /\ x.timeout = r.timeout
               /\ \/ /\ Accepts(e, r) \/ Flushes(r)
                     /\ x.hop = r.hop /\ x.metric = r.metric /\ x.seqnum = r.seqnum
                  \/ /\ e # None /\ ~Accepts(e, r) /\ ~Flushes(r)
                     /\ x.hop = e.hop /\ x.metric = e.metric /\ x.seqnum = e.seqnum
               /\ IF Flushes(r) THEN x.q = <<>> ELSE x.q = r.q
<1>1. CASE Flushes(r)
  <2> DEFINE rte == IF Accepts(e, r) THEN Announced(e, r) ELSE r
             y   == IF WantsTrigger(e, r) /\ e.trigger # "none" THEN Scheduled(rte) ELSE rte
  <2>1. /\ rte \in Entry /\ rte.timeout = r.timeout
        /\ rte.hop = r.hop /\ rte.metric = r.metric /\ rte.seqnum = r.seqnum
    BY AnnouncedType
  <2>2. Learned(e, r) = [y EXCEPT !.q = <<>>]
    BY <1>1 DEF Learned, Flushed
  <2> HIDE DEF rte
  <2>3. /\ y \in Entry /\ y.timeout = r.timeout
        /\ y.hop = r.hop /\ y.metric = r.metric /\ y.seqnum = r.seqnum
    BY <2>1, ScheduledType
  <2> HIDE DEF y
  <2> DEFINE z == [y EXCEPT !.q = <<>>]
  <2>4. /\ z \in Entry /\ z.q = <<>>
        /\ z.hop = y.hop /\ z.metric = y.metric /\ z.seqnum = y.seqnum
        /\ z.timeout = y.timeout
    BY <2>3, SetQueueType, EmptySeq
  <2> HIDE DEF z
  <2>5. Learned(e, r) = z
    BY <2>2 DEF z
  <2>6. QED
    BY <1>1, <2>3, <2>4, <2>5
<1>2. CASE ~Flushes(r)
  <2>1. Learned(e, r) = Updated(e, r)
    BY <1>2 DEF Learned
  <2>2. CASE Accepts(e, r)
    BY <1>2, <2>1, <2>2, AnnouncedType, ScheduledType DEF Updated
  <2>3. CASE ~Accepts(e, r)
    <3>1. e \in Entry
      BY <2>3 DEF Accepts
    <3>2. QED
      BY <1>2, <2>1, <2>3, <3>1, EducatedType DEF Updated, Accepts
  <2>4. QED
    BY <2>2, <2>3
<1>3. QED
  BY <1>1, <1>2

LEMMA LostType ==
    ASSUME NEW e \in Entry
    PROVE  LET b == Lost(e)
           IN  /\ b \in Entry
               /\ b.q = e.q /\ b.timeout = e.timeout /\ b.hop = e.hop
               /\ b.metric = BIG /\ b.seqnum = e.seqnum + 1
<1>1. ASSUME NEW m \in Metric, NEW s \in Nat
      PROVE  LET b == [e EXCEPT !.metric = m, !.seqnum = s, !.ok = "now",
                                !.advMetric = TRUE, !.advSeqnum = TRUE,
                                !.trigger = "due"]
             IN  /\ b \in Entry
                 /\ b.q = e.q /\ b.timeout = e.timeout /\ b.hop = e.hop
                 /\ b.metric = m /\ b.seqnum = s
  BY DEF Entry
<1>2. e.seqnum + 1 \in Nat /\ BIG \in Metric
  BY ConstantsAssumption DEF Entry, Metric
<1>3. QED
  BY <1>1, <1>2 DEF Lost

LEMMA BrokenType ==
    ASSUME NEW t \in Row, NEW h \in Node
    PROVE  /\ Broken(t, h) \in Row
           /\ \A d \in Node :
                 LET b == Broken(t, h)[d]
                 IN  /\ b = None <=> t[d] = None
                     /\ t[d] # None =>
                          /\ b.q = t[d].q /\ b.timeout = t[d].timeout /\ b.hop = t[d].hop
                          /\ IF t[d].hop = h /\ t[d].metric # BIG
                             THEN b.metric = BIG /\ b.seqnum = t[d].seqnum + 1
                             ELSE b = t[d]
<1>1. ASSUME NEW d \in Node
      PROVE  /\ t[d] \in Entry \cup {None}
             /\ Broken(t, h)[d] =
                  IF t[d] # None /\ t[d].hop = h /\ t[d].metric # BIG
                  THEN Lost(t[d]) ELSE t[d]
  BY DEF Broken, Row
<1>2. \A d \in Node : Broken(t, h)[d] \in Entry \cup {None}
  BY <1>1, LostType
<1>3. Broken(t, h) \in Row
  BY <1>2 DEF Row, Broken
<1>4. QED
  BY <1>1, <1>3, LostType, NoneAssumption

-----------------------------------------------------------------------------
(* What each operation does to a row: routes, queues and timeouts *)

\* y is the same route as x, whatever became of its flags, queue and timeout.
SameRoute(x, y) == x.hop = y.hop /\ x.metric = y.metric /\ x.seqnum = y.seqnum

\* Row t2 has the routes, queues and timeouts of row t1.
Preserves(t1, t2) ==
    /\ t2 \in Row
    /\ \A d \in Node : /\ t2[d] = None <=> t1[d] = None
                       /\ t1[d] # None => /\ SameRoute(t1[d], t2[d])
                                          /\ t2[d].q = t1[d].q
                                          /\ t2[d].timeout = t1[d].timeout

LEMMA SetTriggerType ==
    ASSUME NEW e \in Entry, NEW x \in {"none", "settling", "due", "deferred"}
    PROVE  LET y == [e EXCEPT !.trigger = x]
           IN  y \in Entry /\ SameRoute(e, y) /\ y.q = e.q /\ y.timeout = e.timeout
BY DEF Entry, SameRoute

LEMMA SetOkType ==
    ASSUME NEW e \in Entry
    PROVE  LET y == [e EXCEPT !.ok = "now"]
           IN  y \in Entry /\ SameRoute(e, y) /\ y.q = e.q /\ y.timeout = e.timeout
BY DEF Entry, SameRoute

LEMMA SetTriggerRow ==
    ASSUME NEW t \in Row, NEW d \in Node, t[d] # None
    PROVE  Preserves(t, [t EXCEPT ![d].trigger = "none"])
<1> DEFINE f(e) == [e EXCEPT !.trigger = "none"]
<1>1. t[d] \in Entry
  BY DEF Row
<1>2. /\ f(t[d]) \in Entry /\ SameRoute(t[d], f(t[d]))
      /\ f(t[d]).q = t[d].q /\ f(t[d]).timeout = t[d].timeout
  BY <1>1, SetTriggerType
<1>3. [t EXCEPT ![d].trigger = "none"] = [t EXCEPT ![d] = f(t[d])]
  BY DEF Row
<1> HIDE DEF f
<1>4. Preserves(t, [t EXCEPT ![d] = f(t[d])])
  BY <1>2, NoneAssumption DEF Preserves, SameRoute, Row
<1>5. QED
  BY <1>3, <1>4

LEMMA SettleRow ==
    ASSUME NEW t \in Row, NEW d \in Node, t[d] # None
    PROVE  Preserves(t, [t EXCEPT ![d].ok = "now"])
<1> DEFINE f(e) == [e EXCEPT !.ok = "now"]
<1>1. t[d] \in Entry
  BY DEF Row
<1>2. /\ f(t[d]) \in Entry /\ SameRoute(t[d], f(t[d]))
      /\ f(t[d]).q = t[d].q /\ f(t[d]).timeout = t[d].timeout
  BY <1>1, SetOkType
<1>3. [t EXCEPT ![d].ok = "now"] = [t EXCEPT ![d] = f(t[d])]
  BY DEF Row
<1> HIDE DEF f
<1>4. Preserves(t, [t EXCEPT ![d] = f(t[d])])
  BY <1>2, NoneAssumption DEF Preserves, SameRoute, Row
<1>5. QED
  BY <1>3, <1>4

LEMMA PutOffRow ==
    ASSUME NEW t \in Row, NEW d \in Node, t[d] # None, NEW gone \in SUBSET Known(t)
    PROVE  Preserves(t, PutOff(t, d, gone))
<1> DEFINE f(x) == [t[x] EXCEPT !.trigger = "deferred"]
           g(x) == [t[x] EXCEPT !.trigger = "none"]
<1>1. ASSUME NEW x \in Node, t[x] # None
      PROVE  /\ f(x) \in Entry /\ SameRoute(t[x], f(x))
             /\ f(x).q = t[x].q /\ f(x).timeout = t[x].timeout
             /\ g(x) \in Entry /\ SameRoute(t[x], g(x))
             /\ g(x).q = t[x].q /\ g(x).timeout = t[x].timeout
  <2>1. t[x] \in Entry
    BY <1>1 DEF Row
  <2>2. QED
    BY <2>1, SetTriggerType
<1>2. PutOff(t, d, gone) =
          [x \in Node |-> IF x = d THEN f(x) ELSE IF x \in gone THEN g(x) ELSE t[x]]
  BY DEF PutOff
<1> HIDE DEF f, g
<1>3. QED
  BY <1>1, <1>2, NoneAssumption DEF Preserves, SameRoute, Row, Known

LEMMA AdvertisedRow ==
    ASSUME NEW t \in Row, NEW full \in BOOLEAN
    PROVE  Preserves(t, Advertised(t, full))
<1> DEFINE still(d) == ~full /\ t[d].advMetric
           f(d) == [t[d] EXCEPT !.lastMetric = t[d].metric, !.advSeqnum = FALSE,
                                !.advMetric = still(d)]
<1>1. ASSUME NEW e \in Entry, NEW m \in Metric, NEW b \in BOOLEAN
      PROVE  LET y == [e EXCEPT !.lastMetric = m, !.advSeqnum = FALSE, !.advMetric = b]
             IN  y \in Entry /\ SameRoute(e, y) /\ y.q = e.q /\ y.timeout = e.timeout
  BY DEF Entry, SameRoute
<1>2. ASSUME NEW d \in Node, t[d] # None
      PROVE  /\ f(d) \in Entry /\ SameRoute(t[d], f(d))
             /\ f(d).q = t[d].q /\ f(d).timeout = t[d].timeout
  <2>1. t[d] \in Entry
    BY <1>2 DEF Row
  <2>2. t[d].metric \in Metric
    BY <2>1 DEF Entry
  <2>3. still(d) \in BOOLEAN
    OBVIOUS
  <2> HIDE DEF still
  <2>4. QED
    BY <1>1, <2>1, <2>2, <2>3
<1>3. Included(t, full) \subseteq Known(t)
  BY DEF Included, Changed
<1>4. Advertised(t, full) =
          [d \in Node |-> IF d \in Included(t, full) THEN f(d) ELSE t[d]]
  BY DEF Advertised
<1> HIDE DEF f
<1>5. QED
  BY <1>2, <1>3, <1>4, NoneAssumption DEF Preserves, SameRoute, Row, Known

LEMMA ContentsType ==
    ASSUME NEW t \in Row, NEW full \in BOOLEAN
    PROVE  LET c == Contents(t, full)
           IN  /\ c \in [Node -> Advert \cup {None}]
               /\ \A d \in Node : c[d] # None =>
                      t[d] # None /\ c[d].metric = t[d].metric /\ c[d].seqnum = t[d].seqnum
<1>1. Included(t, full) \subseteq Known(t)
  BY DEF Included, Changed
<1>2. ASSUME NEW d \in Node, t[d] # None
      PROVE  [metric |-> t[d].metric, seqnum |-> t[d].seqnum] \in Advert
  <2>1. t[d] \in Entry
    BY <1>2 DEF Row
  <2>2. QED
    BY <2>1 DEF Entry, Advert
<1>3. QED
  BY <1>1, <1>2 DEF Contents, Known

-----------------------------------------------------------------------------
(* The inductive invariant *)

\* What an entry or a line with these two fields may say of a destination that
\* has given itself the numbers up to own.
CoveredBy(x, own) ==
    IF x.metric # BIG THEN x.seqnum % 2 = 0 /\ x.seqnum <= own ELSE x.seqnum <= own + 1

\* A queue for destination d behind a route of this metric.
QueueOK(q, d, metric) ==
    /\ \A i \in DOMAIN q : q[i].dst = d
    /\ q # <<>> => metric = BIG /\ Len(q) <= MAX_QUEUE_LENGTH

\* The entry e of node n for d, when d is at number own.
EntryOK(n, d, e, own) ==
    /\ e \in Entry
    /\ IF d = n THEN e.hop = n /\ e.metric = 0 /\ ~e.timeout ELSE e.hop # n /\ e.metric > 0
    /\ CoveredBy(e, own)
    /\ QueueOK(e.q, d, e.metric)

\* Row t of node n, when the destinations are at the numbers own.
RowOK(n, t, own) ==
    /\ t \in Row
    /\ t[n] # None
    /\ \A d \in Node : t[d] # None => EntryOK(n, d, t[d], own[d])

\* Every usable route of row t has its next hop watched.
TimedRow(n, t) ==
    \A d \in Node \ {n} :
        HasRoute(t, d) => t[t[d].hop] # None /\ t[t[d].hop].timeout

Own == [d \in Node |-> table[d][d].seqnum]

TableOK ==
    /\ table \in [Node -> Row]
    /\ \A n \in Node : RowOK(n, table[n], Own) /\ TimedRow(n, table[n])

SeqnoOK ==
    /\ seqno \in [Node -> Nat]
    /\ \A n \in Node : /\ seqno[n] % 2 = 0
                       /\ table[n][n].seqnum \in {seqno[n], seqno[n] - 2}

UpdateOK(u) ==
    /\ u \in Update /\ u.from # u.to
    /\ \A d \in Node : u.routes[d] # None => CoveredBy(u.routes[d], Own[d])

FrameOK(f) == f \in DataFrame /\ f.from # f.to /\ f.from # f.pkt.dst

AirOK ==
    /\ \A u \in updates : UpdateOK(u)
    /\ \A f \in frames : FrameOK(f)

RestOK ==
    /\ recent \in [Node -> BOOLEAN] /\ orphan \in [Node -> BOOLEAN]
    /\ selfish \in [Node -> BOOLEAN]
    /\ sent \in Nat /\ lapses \in Nat /\ fault \in {"none", "loop", "assert"}

\* Provenance, queues and timeouts only hold together: a lost link must not
\* break a node's route to itself (so no frame or update goes to its sender),
\* and a number is covered only because its source made it.
IInv == TableOK /\ SeqnoOK /\ AirOK /\ RestOK

-----------------------------------------------------------------------------
(* Each operation on a row keeps it in order *)

LEMMA OwnNat ==
    ASSUME TableOK
    PROVE  /\ Own \in [Node -> Nat]
           /\ \A d \in Node : table[d][d] \in Entry /\ Own[d] = table[d][d].seqnum
<1>1. ASSUME NEW d \in Node
      PROVE  table[d][d] \in Entry
  BY DEF TableOK, RowOK, EntryOK
<1>2. ASSUME NEW d \in Node
      PROVE  table[d][d].seqnum \in Nat
  BY <1>1 DEF Entry
<1>3. QED
  BY <1>1, <1>2 DEF Own

LEMMA PreservesOK ==
    ASSUME NEW n \in Node, NEW own \in [Node -> Nat], NEW t, NEW t2,
           RowOK(n, t, own), TimedRow(n, t), Preserves(t, t2)
    PROVE  RowOK(n, t2, own) /\ TimedRow(n, t2) /\ t2[n].seqnum = t[n].seqnum
<1>1. t2 \in Row /\ t2[n] # None
  BY DEF RowOK, Preserves
<1>2. ASSUME NEW d \in Node, t2[d] # None
      PROVE  EntryOK(n, d, t2[d], own[d])
  <2>1. /\ t[d] # None /\ EntryOK(n, d, t[d], own[d])
        /\ SameRoute(t[d], t2[d]) /\ t2[d].q = t[d].q /\ t2[d].timeout = t[d].timeout
    BY <1>2 DEF Preserves, RowOK
  <2>2. t2[d] \in Entry
    BY <1>1, <1>2 DEF Row
  <2>3. QED
    BY <2>1, <2>2 DEF EntryOK, SameRoute, CoveredBy
<1>3. ASSUME NEW d \in Node \ {n}, HasRoute(t2, d)
      PROVE  t2[t2[d].hop] # None /\ t2[t2[d].hop].timeout
  <2>1. t[d] # None /\ SameRoute(t[d], t2[d])
    BY <1>3 DEF Preserves, HasRoute
  <2>2. HasRoute(t, d)
    BY <1>3, <2>1 DEF HasRoute, SameRoute
  <2>3. t[t[d].hop] # None /\ t[t[d].hop].timeout
    BY <2>2 DEF TimedRow
  <2>4. t[d].hop \in Node
    <3>1. t[d] \in Entry
      BY <2>1 DEF RowOK, EntryOK
    <3>2. QED
      BY <3>1 DEF Entry
  <2>5. QED
    BY <2>1, <2>3, <2>4 DEF Preserves, SameRoute
<1>4. t2[n].seqnum = t[n].seqnum
  BY DEF Preserves, RowOK, SameRoute
<1>5. QED
  BY <1>1, <1>2, <1>3, <1>4 DEF RowOK, TimedRow

LEMMA OwnGrows ==
    ASSUME NEW n \in Node, NEW t, NEW own \in [Node -> Nat], NEW own2 \in [Node -> Nat],
           RowOK(n, t, own), \A d \in Node : own[d] <= own2[d]
    PROVE  RowOK(n, t, own2)
<1>1. ASSUME NEW d \in Node, t[d] # None
      PROVE  EntryOK(n, d, t[d], own2[d])
  <2>1. EntryOK(n, d, t[d], own[d])
    BY <1>1 DEF RowOK
  <2>2. t[d].seqnum \in Nat
    BY <2>1 DEF EntryOK, Entry
  <2>3. own[d] \in Nat /\ own2[d] \in Nat /\ own[d] <= own2[d]
    OBVIOUS
  <2>4. CoveredBy(t[d], own2[d])
    BY <2>1, <2>2, <2>3 DEF EntryOK, CoveredBy
  <2>5. QED
    BY <2>1, <2>4 DEF EntryOK
<1>2. QED
  BY <1>1 DEF RowOK

LEMMA OwnRowOK ==
    ASSUME NEW n \in Node, NEW t, NEW own \in [Node -> Nat], NEW own2 \in [Node -> Nat],
           RowOK(n, t, own), TimedRow(n, t),
           seqno[n] \in Nat, seqno[n] % 2 = 0, own[n] <= seqno[n] + 2,
           own2[n] = seqno[n] + 2, \A m \in Node \ {n} : own2[m] = own[m]
    PROVE  LET t2 == WithOwnRoute(t, n)
           IN  RowOK(n, t2, own2) /\ TimedRow(n, t2) /\ t2[n].seqnum = own2[n]
<1> DEFINE s == seqno[n] + 2
           x == [Fresh(n, 0, s) EXCEPT !.advSeqnum = TRUE]
           t2 == [t EXCEPT ![n] = x]
<1>0. s \in Nat /\ s % 2 = 0 /\ own[n] <= s /\ own2[n] = s /\ WithOwnRoute(t, n) = t2
  BY DEF WithOwnRoute
<1> HIDE DEF s
<1>1. /\ x \in Entry /\ x.hop = n /\ x.metric = 0 /\ x.seqnum = s
      /\ ~x.timeout /\ x.q = <<>>
  <2>1. 0 \in Metric
    BY ConstantsAssumption DEF Metric
  <2>2. QED
    BY <1>0, <2>1, FreshType, SetAdvSeqnumType
<1>2. \A d \in Node : own[d] <= own2[d]
  <2>1. own[n] \in Nat /\ own[n] <= own2[n]
    BY <1>0
  <2>2. QED
    BY <2>1
<1>3. RowOK(n, t, own2)
  BY <1>2, OwnGrows
<1>4. EntryOK(n, n, x, s)
  <2>1. CoveredBy(x, s)
    BY <1>0, <1>1, ConstantsAssumption DEF CoveredBy
  <2>2. QED
    BY <1>1, <2>1 DEF EntryOK, QueueOK
<1>5. x # None
  BY <1>1, NoneAssumption
<1> HIDE DEF x
<1>6. t \in Row /\ t2 \in Row /\ t2[n] = x
  BY <1>1 DEF RowOK, Row
<1>7. RowOK(n, t2, own2)
  BY <1>0, <1>3, <1>4, <1>5, <1>6 DEF RowOK, Row
<1>8. ASSUME NEW d \in Node \ {n}, HasRoute(t2, d)
      PROVE  t2[t2[d].hop] # None /\ t2[t2[d].hop].timeout
  <2>1. t2[d] = t[d] /\ HasRoute(t, d)
    BY <1>6, <1>8 DEF Row, HasRoute
  <2>2. EntryOK(n, d, t[d], own[d])
    BY <2>1 DEF RowOK, HasRoute
  <2>3. t[d].hop \in Node \ {n}
    BY <2>2 DEF EntryOK, Entry
  <2>4. QED
    BY <1>6, <2>1, <2>3 DEF TimedRow, Row
<1>9. QED
  BY <1>0, <1>1, <1>6, <1>7, <1>8 DEF x, TimedRow

\* A timeout takes down the routes through h and clears the timeout of h, no more.
TimesOut(t, h, t2) ==
    /\ t2 \in Row
    /\ \A d \in Node : t2[d] = None <=> t[d] = None
    /\ \A d \in Node : t2[d] # None =>
          /\ t2[d] \in Entry
          /\ t2[d].hop = t[d].hop /\ t2[d].q = t[d].q
          /\ (d = h => ~t2[d].timeout) /\ (d # h => t2[d].timeout = t[d].timeout)
          /\ IF t[d].hop = h /\ t[d].metric # BIG
             THEN t2[d].metric = BIG /\ t2[d].seqnum = t[d].seqnum + 1
             ELSE t2[d].metric = t[d].metric /\ t2[d].seqnum = t[d].seqnum

LEMMA TimedOutType ==
    ASSUME NEW t \in Row, NEW h \in Node, t[h] # None
    PROVE  TimesOut(t, h, TimedOut(t, h))
<1> DEFINE b == Broken(t, h)
           x == [b[h] EXCEPT !.timeout = FALSE]
           t2 == [b EXCEPT ![h] = x]
<1>2. /\ b \in Row
      /\ \A d \in Node :
            /\ b[d] = None <=> t[d] = None
            /\ t[d] # None =>
                  /\ b[d].q = t[d].q /\ b[d].timeout = t[d].timeout /\ b[d].hop = t[d].hop
                  /\ IF t[d].hop = h /\ t[d].metric # BIG
                     THEN b[d].metric = BIG /\ b[d].seqnum = t[d].seqnum + 1
                     ELSE b[d] = t[d]
  BY BrokenType
<1>3. TimedOut(t, h) = t2
  BY <1>2 DEF TimedOut, Row
<1> HIDE DEF b
<1>4. b[h] \in Entry
  BY <1>2 DEF Row
<1>5. /\ x \in Entry /\ x.hop = b[h].hop /\ x.metric = b[h].metric
      /\ x.seqnum = b[h].seqnum /\ x.q = b[h].q /\ ~x.timeout
  BY <1>4, SetTimeoutType
<1>6. x # None
  BY <1>5, NoneAssumption
<1> HIDE DEF x
<1>7. t2 \in Row /\ t2[h] = x /\ \A d \in Node \ {h} : t2[d] = b[d]
  BY <1>2, <1>5 DEF Row
<1> HIDE DEF t2
<1>8. ASSUME NEW d \in Node, t2[d] # None
      PROVE  /\ t[d] # None /\ t2[d] \in Entry
             /\ t2[d].hop = t[d].hop /\ t2[d].q = t[d].q
             /\ (d = h => ~t2[d].timeout) /\ (d # h => t2[d].timeout = t[d].timeout)
             /\ IF t[d].hop = h /\ t[d].metric # BIG
                THEN t2[d].metric = BIG /\ t2[d].seqnum = t[d].seqnum + 1
                ELSE t2[d].metric = t[d].metric /\ t2[d].seqnum = t[d].seqnum
  <2>1. t[d] # None
    BY <1>2, <1>7, <1>8
  <2>2. t2[d] \in Entry
    BY <1>7, <1>8 DEF Row
  <2>3. QED
    BY <1>2, <1>5, <1>7, <2>1, <2>2
<1>9. \A d \in Node : t2[d] = None <=> t[d] = None
  BY <1>2, <1>6, <1>7
<1>10. QED
  BY <1>3, <1>7, <1>8, <1>9 DEF TimesOut

LEMMA TimedOutOK ==
    ASSUME NEW n \in Node, NEW t, NEW own \in [Node -> Nat], NEW h \in Node \ {n},
           RowOK(n, t, own), TimedRow(n, t), t[h] # None
    PROVE  /\ RowOK(n, TimedOut(t, h), own) /\ TimedRow(n, TimedOut(t, h))
           /\ TimedOut(t, h)[n].seqnum = t[n].seqnum
<1> DEFINE t2 == TimedOut(t, h)
<1>1. t \in Row
  BY DEF RowOK
<1>2. TimesOut(t, h, t2)
  BY <1>1, TimedOutType
<1> HIDE DEF t2
<1>8. ASSUME NEW d \in Node, t2[d] # None
      PROVE  /\ t[d] # None /\ t2[d] \in Entry
             /\ t2[d].hop = t[d].hop /\ t2[d].q = t[d].q
             /\ (d = h => ~t2[d].timeout) /\ (d # h => t2[d].timeout = t[d].timeout)
             /\ IF t[d].hop = h /\ t[d].metric # BIG
                THEN t2[d].metric = BIG /\ t2[d].seqnum = t[d].seqnum + 1
                ELSE t2[d].metric = t[d].metric /\ t2[d].seqnum = t[d].seqnum
  BY <1>2, <1>8 DEF TimesOut
<1>9. ASSUME NEW d \in Node, t2[d] # None
      PROVE  EntryOK(n, d, t2[d], own[d])
  <2>1. t[d] # None /\ EntryOK(n, d, t[d], own[d])
    BY <1>8, <1>9 DEF RowOK
  <2>2. t[d].seqnum \in Nat /\ own[d] \in Nat /\ BIG \in Nat /\ BIG > 1
    BY <2>1, ConstantsAssumption DEF EntryOK, Entry
  <2>3. CoveredBy(t2[d], own[d])
    BY <1>8, <1>9, <2>1, <2>2 DEF EntryOK, CoveredBy
  <2>4. QueueOK(t2[d].q, d, t2[d].metric)
    BY <1>8, <1>9, <2>1 DEF EntryOK, QueueOK
  <2>5. IF d = n THEN t2[d].hop = n /\ t2[d].metric = 0 /\ ~t2[d].timeout
                 ELSE t2[d].hop # n /\ t2[d].metric > 0
    BY <1>8, <1>9, <2>1, <2>2 DEF EntryOK
  <2>6. QED
    BY <1>8, <1>9, <2>3, <2>4, <2>5 DEF EntryOK
<1>10. RowOK(n, t2, own)
  BY <1>2, <1>9 DEF RowOK, TimesOut
<1>11. ASSUME NEW d \in Node \ {n}, HasRoute(t2, d)
       PROVE  t2[t2[d].hop] # None /\ t2[t2[d].hop].timeout
  <2>1. t[d] # None /\ t2[d].hop = t[d].hop /\ t[d].hop # h /\ t[d].metric # BIG
    BY <1>8, <1>11 DEF HasRoute
  <2>2. t[d].hop \in Node
    BY <2>1 DEF RowOK, EntryOK, Entry
  <2>3. t[t[d].hop] # None /\ t[t[d].hop].timeout
    BY <2>1 DEF TimedRow, HasRoute
  <2>4. QED
    BY <1>2, <1>8, <2>1, <2>2, <2>3 DEF TimesOut
<1>12. t2[n].seqnum = t[n].seqnum
  <2>1. t[n] # None /\ t[n].hop # h /\ t2[n] # None
    BY <1>10 DEF RowOK, EntryOK
  <2>2. QED
    BY <1>8, <2>1
<1>13. QED
  BY <1>10, <1>11, <1>12 DEF TimedRow, t2

LEMMA EnqueueType ==
    ASSUME NEW d \in Node, NEW q \in Seq(Packet), NEW p \in Packet, p.dst = d,
           \A i \in DOMAIN q : q[i].dst = d,
           q # <<>> => Len(q) <= MAX_QUEUE_LENGTH
    PROVE  /\ Enqueue(q, p) \in Seq(Packet)
           /\ \A i \in DOMAIN Enqueue(q, p) : Enqueue(q, p)[i].dst = d
           /\ Len(Enqueue(q, p)) <= MAX_QUEUE_LENGTH
<1> DEFINE l == Append(q, p)
<1>1. /\ l \in Seq(Packet) /\ Len(l) = Len(q) + 1 /\ Len(q) \in Nat
      /\ \A i \in 1..Len(l) : l[i].dst = d
  OBVIOUS
<1>2. Len(q) <= MAX_QUEUE_LENGTH /\ MAX_QUEUE_LENGTH \in Nat \ {0}
  BY ConstantsAssumption
<1> HIDE DEF l
<1>3. l # <<>>
  BY <1>1
<1>4. CASE Len(l) > MAX_QUEUE_LENGTH
  <2>1. /\ Tail(l) \in Seq(Packet) /\ Len(Tail(l)) = Len(l) - 1
        /\ \A i \in 1..Len(Tail(l)) : Tail(l)[i] = l[i + 1] /\ i + 1 \in 1..Len(l)
    BY <1>1, <1>3
  <2>2. QED
    BY <1>1, <1>2, <1>4, <2>1 DEF Enqueue, l
<1>5. CASE ~(Len(l) > MAX_QUEUE_LENGTH)
  BY <1>1, <1>2, <1>5 DEF Enqueue, l
<1>6. QED
  BY <1>4, <1>5

\* A row with one entry replaced by x, a route that is lost or was there before.
LEMMA ReplaceOK ==
    ASSUME NEW n \in Node, NEW t, NEW own \in [Node -> Nat], NEW d \in Node, NEW x, NEW t2,
           RowOK(n, t, own), EntryOK(n, d, x, own[d]),
           t2 \in Row, t2[d] = x, \A c \in Node \ {d} : t2[c] = t[c]
    PROVE  RowOK(n, t2, own)
<1>1. x # None
  BY NoneAssumption DEF EntryOK
<1>2. QED
  BY <1>1 DEF RowOK

\* A packet that is kept changes nothing but the queue of a lost route.
Keeps(t, d, t2) ==
    /\ \A c \in Node \ {d} : t2[c] = t[c]
    /\ t2[d] # None /\ t2[d].metric = BIG
    /\ t[d] # None => t2[d].seqnum = t[d].seqnum

LEMMA KeepOK ==
    ASSUME NEW n \in Node, NEW t, NEW own \in [Node -> Nat], NEW p \in Packet,
           p.dst \in Node \ {n}, RowOK(n, t, own), TimedRow(n, t), ~HasRoute(t, p.dst)
    PROVE  /\ RowOK(n, Keep(t, p), own) /\ TimedRow(n, Keep(t, p))
           /\ Keep(t, p)[n].seqnum = t[n].seqnum
           /\ Keeps(t, p.dst, Keep(t, p))
<1> DEFINE d == p.dst
           x == IF t[d] = None
                THEN [Fresh(d, BIG, 0) EXCEPT !.ok = "never", !.q = <<p>>]
                ELSE [t[d] EXCEPT !.q = Enqueue(t[d].q, p)]
<1>1. BIG \in Metric /\ BIG \in Nat /\ BIG > 1 /\ 0 \in Nat /\ own[d] \in Nat
  BY ConstantsAssumption DEF Metric
<1>2. t \in Row /\ \A c \in Node : t[c] # None => EntryOK(n, c, t[c], own[c])
  BY DEF RowOK
<1>3. /\ EntryOK(n, d, x, own[d]) /\ x.metric = BIG
      /\ t[d] # None => x.timeout = t[d].timeout /\ x.seqnum = t[d].seqnum
  <2>1. CASE t[d] = None
    <3>1. <<p>> \in Seq(Packet) /\ Len(<<p>>) = 1 /\ \A i \in DOMAIN <<p>> : <<p>>[i].dst = d
      OBVIOUS
    <3> DEFINE f == Fresh(d, BIG, 0)
    <3>2. f \in Entry /\ f.hop = d /\ f.metric = BIG /\ f.seqnum = 0
      BY <1>1, FreshType
    <3>3. x = [f EXCEPT !.ok = "never", !.q = <<p>>]
      BY <2>1
    <3> HIDE DEF x, f
    <3>4. /\ x \in Entry /\ x.hop = d /\ x.metric = BIG /\ x.seqnum = 0 /\ x.q = <<p>>
      BY <3>1, <3>2, <3>3, SetOkQueueType
    <3>5. QueueOK(x.q, d, x.metric)
      BY <3>1, <3>4, ConstantsAssumption DEF QueueOK
    <3>6. QED
      BY <1>1, <2>1, <3>4, <3>5 DEF EntryOK, CoveredBy
  <2>2. CASE t[d] # None
    <3>1. EntryOK(n, d, t[d], own[d]) /\ t[d] \in Entry /\ t[d].metric = BIG
      BY <1>2, <2>2 DEF EntryOK, HasRoute
    <3>2. t[d].q \in Seq(Packet)
      BY <3>1 DEF Entry
    <3>3. /\ Enqueue(t[d].q, p) \in Seq(Packet)
          /\ \A i \in DOMAIN Enqueue(t[d].q, p) : Enqueue(t[d].q, p)[i].dst = d
          /\ Len(Enqueue(t[d].q, p)) <= MAX_QUEUE_LENGTH
      BY <3>1, <3>2, EnqueueType DEF EntryOK, QueueOK
    <3>4. /\ x \in Entry /\ x.hop = t[d].hop /\ x.metric = BIG /\ x.seqnum = t[d].seqnum
          /\ x.q = Enqueue(t[d].q, p) /\ x.timeout = t[d].timeout
      BY <2>2, <3>1, <3>3, SetQueueType
    <3>5. QueueOK(x.q, d, x.metric)
      BY <3>3, <3>4 DEF QueueOK
    <3> HIDE DEF x
    <3>6. QED
      BY <3>1, <3>4, <3>5 DEF EntryOK, CoveredBy
  <2>3. QED
    BY <2>1, <2>2
<1>4. Keep(t, p) = [t EXCEPT ![d] = x]
  BY Zenon DEF Keep
<1> HIDE DEF x
<1>5. /\ RowOK(n, Keep(t, p), own)
      /\ Keep(t, p)[d] = x /\ \A c \in Node \ {d} : Keep(t, p)[c] = t[c]
  <2>1. x \in Entry
    BY <1>3 DEF EntryOK
  <2>2. /\ Keep(t, p) \in Row /\ Keep(t, p)[d] = x
        /\ \A c \in Node \ {d} : Keep(t, p)[c] = t[c]
    BY <1>2, <1>4, <2>1 DEF Row
  <2>3. QED
    BY <1>3, <2>2, ReplaceOK
<1>6. ASSUME NEW c \in Node \ {n}, HasRoute(Keep(t, p), c)
      PROVE  Keep(t, p)[Keep(t, p)[c].hop] # None /\ Keep(t, p)[Keep(t, p)[c].hop].timeout
  <2>1. c # d /\ Keep(t, p)[c] = t[c] /\ HasRoute(t, c)
    BY <1>3, <1>5, <1>6 DEF HasRoute
  <2>2. t[t[c].hop] # None /\ t[t[c].hop].timeout
    BY <2>1 DEF TimedRow
  <2>3. t[c].hop \in Node
    BY <1>2, <2>1 DEF HasRoute, EntryOK, Entry
  <2>4. x # None
    BY <1>3, NoneAssumption DEF EntryOK
  <2>5. QED
    BY <1>3, <1>5, <2>1, <2>2, <2>3, <2>4
<1>7. Keeps(t, d, Keep(t, p))
  BY <1>3, <1>5, NoneAssumption DEF Keeps, EntryOK
<1>8. QED
  BY <1>5, <1>6, <1>7 DEF TimedRow

LEMMA LearnedOK ==
    ASSUME NEW n \in Node, NEW d \in Node \ {n}, NEW s \in Node \ {n}, NEW own \in Nat,
           NEW e, e = None \/ EntryOK(n, d, e, own),
           NEW line \in Advert, CoveredBy(line, own),
           NEW x, x = Learned(e, Candidate(e, d, s, line))
    PROVE  /\ EntryOK(n, d, x, own)
           /\ e # None => x.timeout = e.timeout
           /\ x.hop = s \/ (e # None /\ x.hop = e.hop /\ x.metric = e.metric)
<1> DEFINE r == Candidate(e, d, s, line)
<1>1. e \in Entry \cup {None}
  BY DEF EntryOK
<1>2. /\ r \in Entry /\ r.hop = s /\ r.seqnum = line.seqnum
      /\ r.metric = IF line.metric = BIG THEN BIG ELSE line.metric + 1
      /\ e # None => r.q = e.q /\ r.timeout = e.timeout
      /\ e = None => r.q = <<>>
  BY <1>1, CandidateType
<1>. x = Learned(e, r)
  OBVIOUS
<1> HIDE DEF r
<1>3. /\ x \in Entry /\ x.timeout = r.timeout
      /\ \/ x.hop = r.hop /\ x.metric = r.metric /\ x.seqnum = r.seqnum
         \/ /\ e # None /\ ~Accepts(e, r) /\ ~Flushes(r)
            /\ x.hop = e.hop /\ x.metric = e.metric /\ x.seqnum = e.seqnum
      /\ IF Flushes(r) THEN x.q = <<>> ELSE x.q = r.q
  BY <1>1, <1>2, LearnedType
<1>4. CoveredBy(r, own) /\ r.metric > 0
  <2>1. line.metric \in Nat /\ line.seqnum \in Nat /\ BIG \in Nat /\ BIG > 1
    BY ConstantsAssumption DEF Advert, Metric
  <2>2. QED
    BY <1>2, <2>1 DEF CoveredBy
<1>5. CASE x.hop = r.hop /\ x.metric = r.metric /\ x.seqnum = r.seqnum
  <2>1. QueueOK(x.q, d, x.metric)
    <3>1. CASE Flushes(r)
      BY <1>3, <3>1 DEF QueueOK
    <3>2. CASE ~Flushes(r) /\ e = None
      BY <1>2, <1>3, <3>2 DEF QueueOK
    <3>3. CASE ~Flushes(r) /\ e # None
      BY <1>2, <1>3, <1>5, <3>3 DEF QueueOK, Flushes, EntryOK
    <3>4. QED
      BY <3>1, <3>2, <3>3
  <2>2. EntryOK(n, d, x, own)
    BY <1>2, <1>3, <1>4, <1>5, <2>1 DEF EntryOK, CoveredBy
  <2>3. QED
    BY <1>2, <1>3, <1>5, <2>2 DEF r
<1>6. CASE /\ e # None /\ ~Flushes(r)
           /\ x.hop = e.hop /\ x.metric = e.metric /\ x.seqnum = e.seqnum
  <2>1. EntryOK(n, d, x, own)
    BY <1>2, <1>3, <1>6 DEF EntryOK, CoveredBy
  <2>2. QED
    BY <1>2, <1>3, <1>6, <2>1 DEF r
<1>7. QED
  BY <1>3, <1>5, <1>6

LEMMA AfterUpdateOK ==
    ASSUME TableOK, NEW u, UpdateOK(u)
    PROVE  /\ RowOK(u.to, AfterUpdate(u), Own) /\ TimedRow(u.to, AfterUpdate(u))
           /\ AfterUpdate(u)[u.to].seqnum = table[u.to][u.to].seqnum
<1> DEFINE n == u.to
           s == u.from
           t == table[u.to]
           mid == [d \in Node |-> IF d \in Lines(u) THEN Learned(t[d], Heard(u, d)) ELSE t[d]]
           x == IF mid[s] = None
                THEN [Fresh(s, 1, 0) EXCEPT !.ok = "never", !.timeout = TRUE]
                ELSE [mid[s] EXCEPT !.timeout = TRUE]
           t2 == AfterUpdate(u)
<1>1. /\ n \in Node /\ s \in Node \ {n} /\ u.routes \in [Node -> Advert \cup {None}]
      /\ \A d \in Lines(u) : /\ d \in Node \ {n} /\ u.routes[d] \in Advert
                             /\ CoveredBy(u.routes[d], Own[d])
  BY DEF UpdateOK, Update, Lines
<1>2. /\ t \in Row /\ t[n] # None
      /\ \A d \in Node : t[d] # None => EntryOK(n, d, t[d], Own[d])
      /\ \A d \in Node \ {n} : HasRoute(t, d) => t[t[d].hop] # None /\ t[t[d].hop].timeout
  BY <1>1 DEF TableOK, RowOK, TimedRow
<1>3. Own \in [Node -> Nat]
  BY OwnNat
<1>4. ASSUME NEW d \in Lines(u)
      PROVE  /\ mid[d] # None /\ EntryOK(n, d, mid[d], Own[d])
             /\ t[d] # None => mid[d].timeout = t[d].timeout
             /\ \/ mid[d].hop = s
                \/ t[d] # None /\ mid[d].hop = t[d].hop /\ mid[d].metric = t[d].metric
  <2>1. /\ d \in Node \ {n} /\ u.routes[d] \in Advert /\ CoveredBy(u.routes[d], Own[d])
        /\ Own[d] \in Nat
    BY <1>1, <1>3
  <2>2. t[d] = None \/ EntryOK(n, d, t[d], Own[d])
    BY <1>2, <2>1
  <2>3. mid[d] = Learned(t[d], Candidate(t[d], d, s, u.routes[d]))
    BY <2>1 DEF Heard
  <2> HIDE DEF mid, t, s, n
  <2>4. /\ EntryOK(n, d, mid[d], Own[d])
        /\ t[d] # None => mid[d].timeout = t[d].timeout
        /\ \/ mid[d].hop = s
           \/ t[d] # None /\ mid[d].hop = t[d].hop /\ mid[d].metric = t[d].metric
    BY <1>1, <2>1, <2>2, <2>3, LearnedOK
  <2>5. mid[d] # None
    BY <2>4, NoneAssumption DEF EntryOK
  <2>6. QED
    BY <2>4, <2>5
<1>5. ASSUME NEW d \in Node \ Lines(u)
      PROVE  mid[d] = t[d]
  OBVIOUS
<1>6. RowOK(n, mid, Own)
  <2>1. n \notin Lines(u)
    BY <1>1
  <2>2. mid \in Row
    <3>1. ASSUME NEW d \in Node
          PROVE  mid[d] \in Entry \cup {None}
      BY <1>2, <1>4, <1>5 DEF EntryOK
    <3>2. QED
      BY <3>1 DEF Row
  <2> HIDE DEF mid
  <2>3. QED
    BY <1>1, <1>2, <1>4, <1>5, <2>1, <2>2 DEF RowOK
<1>7. EntryOK(n, s, x, Own[s]) /\ x.timeout /\ (mid[s] = None => x.hop = s)
      /\ (mid[s] # None => x.hop = mid[s].hop /\ x.metric = mid[s].metric)
  <2> HIDE DEF mid, n
  <2>1. CASE mid[s] = None
    <3> DEFINE f == Fresh(s, 1, 0)
    <3>1. f \in Entry /\ f.hop = s /\ f.metric = 1 /\ f.seqnum = 0 /\ f.q = <<>>
      <4>1. 1 \in Metric
        BY ConstantsAssumption DEF Metric
      <4>2. QED
        BY <1>1, <4>1, FreshType
    <3>2. x = [f EXCEPT !.ok = "never", !.timeout = TRUE]
      BY <2>1
    <3> HIDE DEF f, x, s
    <3>3. /\ x \in Entry /\ x.hop = s /\ x.metric = 1 /\ x.seqnum = 0 /\ x.q = <<>>
          /\ x.timeout
      BY <3>1, <3>2, SetOkTimeoutType
    <3>4. 0 <= Own[s] /\ BIG > 1
      BY <1>1, <1>3, ConstantsAssumption
    <3>5. QED
      BY <1>1, <2>1, <3>3, <3>4 DEF EntryOK, CoveredBy, QueueOK
  <2>2. CASE mid[s] # None
    <3>1. EntryOK(n, s, mid[s], Own[s])
      BY <1>1, <1>6, <2>2 DEF RowOK
    <3>2. x = [mid[s] EXCEPT !.timeout = TRUE]
      BY <2>2
    <3> HIDE DEF x
    <3>3. /\ x \in Entry /\ x.hop = mid[s].hop /\ x.metric = mid[s].metric
          /\ x.seqnum = mid[s].seqnum /\ x.q = mid[s].q /\ x.timeout
      BY <3>1, <3>2, SetTimeoutType DEF EntryOK
    <3>4. QED
      BY <1>1, <2>2, <3>1, <3>3 DEF EntryOK, CoveredBy
  <2>3. QED
    BY <2>1, <2>2
<1>8. t2 = [mid EXCEPT ![s] = x]
  BY Zenon DEF AfterUpdate, WithTimeout
<1> HIDE DEF mid, x, t2, n, t, s
<1>9. t2 \in Row /\ t2[s] = x /\ \A d \in Node \ {s} : t2[d] = mid[d]
  <2>1. x \in Entry /\ mid \in Row
    BY <1>6, <1>7 DEF EntryOK, RowOK
  <2>2. QED
    BY <1>1, <1>8, <2>1 DEF Row
<1>10. RowOK(n, t2, Own)
  BY <1>1, <1>3, <1>6, <1>7, <1>9, ReplaceOK
<1>11. ASSUME NEW d \in Node, t[d] # None, t[d].timeout
       PROVE  t2[d] # None /\ t2[d].timeout
  <2>1. mid[d] # None /\ mid[d].timeout
    BY <1>4, <1>5, <1>11
  <2>2. x # None
    BY <1>7, NoneAssumption DEF EntryOK
  <2>3. QED
    BY <1>7, <1>9, <2>1, <2>2
<1>12. ASSUME NEW d \in Node \ {n}, HasRoute(t2, d)
       PROVE  t2[t2[d].hop] # None /\ t2[t2[d].hop].timeout
  <2>1. t2[d].hop = s \/ (t[d] # None /\ t2[d].hop = t[d].hop /\ t2[d].metric = t[d].metric)
    BY <1>1, <1>4, <1>5, <1>7, <1>9, <1>12 DEF HasRoute
  <2>2. CASE t2[d].hop = s
    BY <1>7, <1>9, <1>10, <2>2, NoneAssumption DEF EntryOK
  <2>3. CASE t[d] # None /\ t2[d].hop = t[d].hop /\ t2[d].metric = t[d].metric
    <3>1. t[t[d].hop] # None /\ t[t[d].hop].timeout
      BY <1>2, <1>12, <2>3 DEF HasRoute
    <3>2. t[d].hop \in Node
      BY <1>2, <2>3 DEF EntryOK, Entry
    <3>3. QED
      BY <1>11, <2>3, <3>1, <3>2
  <2>4. QED
    BY <2>1, <2>2, <2>3
<1>13. t2[n] = t[n]
  BY <1>1, <1>5, <1>9 DEF Lines
<1>14. QED
  BY <1>10, <1>12, <1>13 DEF TimedRow, n, t, t2

-----------------------------------------------------------------------------
(* Messages *)

\* What is sent to the neighbours of a node comes from another node.
LEMMA NeighbourOther ==
    ASSUME NEW n \in Node, NEW m \in Neighbours(n)
    PROVE  m \in Node /\ m # n
BY DEF Neighbours

LEMMA StampedType ==
    ASSUME NEW n \in Node, NEW p \in Packet, ~Refused(n, p)
    PROVE  Stamped(n, p) \in Packet /\ Stamped(n, p).dst = p.dst
<1> DEFINE l == IF p.src = n THEN IP_DEF_TTL ELSE p.ttl - 1
<1>1. p.ttl \in 1..IP_DEF_TTL /\ IP_DEF_TTL \in Nat \ {0}
  BY ConstantsAssumption DEF Packet
<1>2. l \in 1..IP_DEF_TTL
  <2>1. CASE p.src = n
    BY <1>1, <2>1
  <2>2. CASE p.src # n
    <3>1. p.ttl # 1
      BY <2>2 DEF Refused
    <3>2. QED
      BY <1>1, <2>2, <3>1
  <2>3. QED
    BY <2>1, <2>2
<1>3. Stamped(n, p) = [p EXCEPT !.ttl = l]
  BY DEF Stamped
<1> HIDE DEF l
<1>4. QED
  BY <1>2, <1>3 DEF Packet

LEMMA FrameType ==
    ASSUME NEW n \in Node, NEW t, NEW p \in Packet, p.dst \in Node \ {n},
           t[p.dst].hop \in Node \ {n}, ~Refused(n, p)
    PROVE  FrameOK(Frame(n, t, p))
<1> DEFINE k == Stamped(n, p)
           h == NextHop(t, p.dst)
<1>1. k \in Packet /\ k.dst = p.dst
  BY StampedType
<1>2. h \in Node /\ h # n
  BY DEF NextHop
<1>3. Frame(n, t, p) = [from |-> n, to |-> h, pkt |-> k]
  BY DEF Frame
<1> HIDE DEF k, h
<1>4. QED
  BY <1>1, <1>2, <1>3 DEF FrameOK, DataFrame

LEMMA UpdateGrows ==
    ASSUME NEW u, UpdateOK(u), Own \in [Node -> Nat], Own' \in [Node -> Nat],
           \A d \in Node : Own[d] <= Own'[d]
    PROVE  UpdateOK(u)'
<1>1. ASSUME NEW d \in Node, u.routes[d] # None
      PROVE  CoveredBy(u.routes[d], Own'[d])
  <2>1. CoveredBy(u.routes[d], Own[d])
    BY <1>1 DEF UpdateOK
  <2>2. u.routes[d] \in Advert
    BY <1>1 DEF UpdateOK, Update
  <2>3. u.routes[d].seqnum \in Nat
    BY <2>2 DEF Advert
  <2>4. Own[d] \in Nat /\ Own'[d] \in Nat /\ Own[d] <= Own'[d]
    OBVIOUS
  <2>5. QED
    BY <2>1, <2>3, <2>4 DEF CoveredBy
<1>2. QED
  BY <1>1 DEF UpdateOK

-----------------------------------------------------------------------------
(* Steps that change one row *)

\* The row of n becomes t2, which says the same of n itself.
LEMMA RowStep ==
    ASSUME TableOK, NEW n \in Node, NEW t2, RowOK(n, t2, Own), TimedRow(n, t2),
           t2[n].seqnum = table[n][n].seqnum, table' = [table EXCEPT ![n] = t2]
    PROVE  TableOK' /\ Own' = Own /\ \A m \in Node : table'[m][m].seqnum = table[m][m].seqnum
<1>1. table \in [Node -> Row] /\ t2 \in Row
  BY DEF TableOK, RowOK
<1>2. table' \in [Node -> Row] /\ table'[n] = t2 /\ \A m \in Node \ {n} : table'[m] = table[m]
  BY <1>1
<1>3. \A m \in Node : table'[m][m].seqnum = table[m][m].seqnum
  BY <1>2
<1>4. Own' = Own
  BY <1>3 DEF Own
<1>5. ASSUME NEW m \in Node
      PROVE  RowOK(m, table'[m], Own') /\ TimedRow(m, table'[m])
  BY <1>2, <1>4 DEF TableOK
<1>6. QED
  BY <1>2, <1>3, <1>4, <1>5 DEF TableOK

LEMMA RecvDataOK ==
    ASSUME TableOK, NEW n \in Node, NEW t, RowOK(n, t, Own), TimedRow(n, t),
           t[n].seqnum = table[n][n].seqnum,
           NEW p \in Packet, p.dst \in Node \ {n},
           NEW air, \A f \in air : FrameOK(f),
           RecvData(n, t, p, air)
    PROVE  /\ TableOK' /\ Own' = Own /\ \A f \in frames' : FrameOK(f)
           /\ \A m \in Node : table'[m][m].seqnum = table[m][m].seqnum
<1>1. CASE Refused(n, p) /\ table' = [table EXCEPT ![n] = t] /\ frames' = air
  BY <1>1, RowStep
<1>2. CASE /\ ~Refused(n, p) /\ HasRoute(t, p.dst)
           /\ table' = [table EXCEPT ![n] = t] /\ frames' = air \cup {Frame(n, t, p)}
  <2>1. EntryOK(n, p.dst, t[p.dst], Own[p.dst])
    BY <1>2 DEF RowOK, HasRoute
  <2>2. t[p.dst].hop \in Node \ {n}
    BY <2>1 DEF EntryOK, Entry
  <2>3. FrameOK(Frame(n, t, p))
    BY <1>2, <2>2, FrameType
  <2>4. QED
    BY <1>2, <2>3, RowStep
<1>3. CASE /\ ~Refused(n, p) /\ ~HasRoute(t, p.dst)
           /\ table' = [table EXCEPT ![n] = Keep(t, Stamped(n, p))] /\ frames' = air
  <2> DEFINE k == Stamped(n, p)
             t2 == Keep(t, k)
  <2>1. k \in Packet /\ k.dst \in Node \ {n} /\ ~HasRoute(t, k.dst)
    BY <1>3, StampedType
  <2>2. Own \in [Node -> Nat]
    BY OwnNat
  <2> HIDE DEF k
  <2>3. RowOK(n, t2, Own) /\ TimedRow(n, t2) /\ t2[n].seqnum = t[n].seqnum
    BY <2>1, <2>2, KeepOK
  <2>4. table' = [table EXCEPT ![n] = t2] /\ frames' = air
    BY <1>3 DEF k
  <2> HIDE DEF t2
  <2>5. t2[n].seqnum = table[n][n].seqnum
    BY <2>3
  <2>6. QED
    BY <2>3, <2>4, <2>5, RowStep
<1>4. QED
  BY <1>1, <1>2, <1>3 DEF RecvData

\* An update of n with the contents of a row in order.
LEMMA ContentsOK ==
    ASSUME NEW n \in Node, NEW m \in Node \ {n}, NEW t, NEW own \in [Node -> Nat],
           RowOK(n, t, own), NEW full \in BOOLEAN, NEW u,
           u = [from |-> n, to |-> m, routes |-> Contents(t, full)]
    PROVE  /\ u \in Update /\ u.from # u.to
           /\ \A d \in Node : u.routes[d] # None => CoveredBy(u.routes[d], own[d])
<1> DEFINE c == Contents(t, full)
<1>1. t \in Row /\ \A d \in Node : t[d] # None => CoveredBy(t[d], own[d])
  BY DEF RowOK, EntryOK
<1>2. /\ c \in [Node -> Advert \cup {None}]
      /\ \A d \in Node : c[d] # None =>
             t[d] # None /\ c[d].metric = t[d].metric /\ c[d].seqnum = t[d].seqnum
  BY <1>1, ContentsType
<1>3. u = [from |-> n, to |-> m, routes |-> c]
  OBVIOUS
<1> HIDE DEF c
<1>4. u \in Update /\ u.from # u.to /\ u.routes = c
  BY <1>2, <1>3 DEF Update
<1>5. ASSUME NEW d \in Node, c[d] # None
      PROVE  CoveredBy(c[d], own[d])
  BY <1>1, <1>2, <1>5 DEF CoveredBy
<1>6. QED
  BY <1>4, <1>5

LEMMA SendUpdateOK ==
    ASSUME TableOK, SeqnoOK, \A u \in updates : UpdateOK(u),
           NEW n \in Node, NEW t, RowOK(n, t, Own), TimedRow(n, t),
           t[n].seqnum = table[n][n].seqnum, NEW periodic \in BOOLEAN,
           recent \in [Node -> BOOLEAN], SendUpdate(n, t, periodic)
    PROVE  /\ TableOK' /\ SeqnoOK' /\ \A u \in updates' : UpdateOK(u)'
           /\ recent' \in [Node -> BOOLEAN]
           /\ \A m \in Node : Own[m] <= Own'[m]
<1> DEFINE full == IsFull(t, periodic)
           base == IF full THEN WithOwnRoute(t, n) ELSE t
           t2   == Advertised(base, full)
           c    == Contents(base, full)
<1>1. full \in BOOLEAN
  BY DEF IsFull
<1>2. Own \in [Node -> Nat] /\ \A d \in Node : Own[d] = table[d][d].seqnum
  BY OwnNat
<1>3. seqno[n] \in Nat /\ seqno[n] % 2 = 0 /\ Own[n] \in {seqno[n], seqno[n] - 2}
  BY <1>2 DEF SeqnoOK
<1>4. CASE full \/ Changed(t) # {}
  <2>1. /\ \E heard \in SUBSET Neighbours(n) : Broadcast(n, c, heard)
        /\ seqno' = [seqno EXCEPT ![n] = IF full THEN seqno[n] + 2 ELSE seqno[n]]
        /\ table' = [table EXCEPT ![n] = t2]
        /\ recent' = [recent EXCEPT ![n] = TRUE]
    BY <1>4 DEF SendUpdate
  <2> DEFINE s == IF full THEN seqno[n] + 2 ELSE Own[n]
             own2 == [Own EXCEPT ![n] = s]
  <2>2. /\ RowOK(n, base, own2) /\ TimedRow(n, base) /\ base[n].seqnum = s
        /\ s \in Nat /\ Own[n] <= s
    <3>1. CASE full
      <4>1. s = seqno[n] + 2 /\ s \in Nat /\ Own[n] <= s /\ base = WithOwnRoute(t, n)
        BY <1>3, <3>1
      <4>2. own2 \in [Node -> Nat] /\ own2[n] = s /\ \A m \in Node \ {n} : own2[m] = Own[m]
        BY <1>2, <4>1
      <4> HIDE DEF s, own2, base
      <4>3. RowOK(n, base, own2) /\ TimedRow(n, base) /\ base[n].seqnum = own2[n]
        BY <1>2, <1>3, <4>1, <4>2, OwnRowOK
      <4>4. QED
        BY <4>1, <4>2, <4>3
    <3>2. CASE ~full
      <4>1. own2 = Own /\ base = t /\ s = Own[n]
        BY <1>2, <3>2
      <4> HIDE DEF s, own2, base
      <4>2. QED
        BY <1>2, <4>1
    <3>3. QED
      BY <3>1, <3>2
  <2> HIDE DEF s
  <2>3. own2 \in [Node -> Nat] /\ own2[n] = s /\ (\A m \in Node : Own[m] <= own2[m])
        /\ \A m \in Node \ {n} : own2[m] = Own[m]
    BY <1>2, <2>2
  <2> HIDE DEF own2, base, full
  <2>4. Preserves(base, t2)
    BY <1>1, <2>2, AdvertisedRow DEF RowOK
  <2> HIDE DEF t2
  <2>5. RowOK(n, t2, own2) /\ TimedRow(n, t2) /\ t2[n].seqnum = s
    BY <2>2, <2>3, <2>4, PreservesOK
  <2>6. table' \in [Node -> Row] /\ table'[n] = t2 /\ \A m \in Node \ {n} : table'[m] = table[m]
    BY <2>1, <2>5 DEF TableOK, RowOK
  <2>7. \A m \in Node : table'[m][m].seqnum = own2[m]
    BY <1>2, <2>3, <2>5, <2>6
  <2>8. Own' = own2
    BY <2>3, <2>7 DEF Own
  <2>9. ASSUME NEW m \in Node
        PROVE  RowOK(m, table'[m], own2) /\ TimedRow(m, table'[m])
    <3>1. CASE m = n
      BY <2>5, <2>6, <3>1
    <3>2. CASE m # n
      <4>1. RowOK(m, table[m], Own) /\ TimedRow(m, table[m]) /\ table'[m] = table[m]
        BY <2>6, <3>2 DEF TableOK
      <4>2. QED
        BY <1>2, <2>3, <4>1, OwnGrows
    <3>3. QED
      BY <3>1, <3>2
  <2>10. TableOK'
    BY <2>6, <2>8, <2>9 DEF TableOK
  <2>11. SeqnoOK'
    <3>1. seqno' \in [Node -> Nat] /\ \A m \in Node \ {n} : seqno'[m] = seqno[m]
      BY <1>3, <2>1 DEF SeqnoOK
    <3>2. seqno'[n] = IF full THEN seqno[n] + 2 ELSE seqno[n]
      BY <2>1 DEF SeqnoOK
    <3>3. seqno'[n] % 2 = 0 /\ s \in {seqno'[n], seqno'[n] - 2}
      BY <1>3, <3>2 DEF s
    <3>4. \A m \in Node \ {n} : table'[m][m].seqnum = table[m][m].seqnum
      BY <2>6
    <3>5. table'[n][n].seqnum = s
      BY <2>5, <2>6
    <3>6. QED
      BY <3>1, <3>3, <3>4, <3>5 DEF SeqnoOK
  <2>12. ASSUME NEW u \in updates'
         PROVE  UpdateOK(u)'
    <3>1. CASE u \in updates
      BY <1>2, <2>3, <2>8, <3>1, UpdateGrows
    <3>2. CASE \E m \in Neighbours(n) : u = [from |-> n, to |-> m, routes |-> c]
      <4>1. PICK m \in Neighbours(n) : u = [from |-> n, to |-> m, routes |-> c]
        BY <3>2
      <4>2. m \in Node \ {n}
        BY NeighbourOther
      <4>3. /\ u \in Update /\ u.from # u.to
            /\ \A d \in Node : u.routes[d] # None => CoveredBy(u.routes[d], own2[d])
        BY <1>1, <2>2, <2>3, <4>1, <4>2, ContentsOK
      <4>4. QED
        BY <2>8, <4>3 DEF UpdateOK
    <3>3. QED
      BY <2>1, <3>1, <3>2 DEF Broadcast
  <2>13. QED
    BY <2>1, <2>3, <2>8, <2>10, <2>11, <2>12
<1>5. CASE ~(full \/ Changed(t) # {})
  <2>1. table' = [table EXCEPT ![n] = t] /\ UNCHANGED <<seqno, recent, updates>>
    BY <1>5 DEF SendUpdate
  <2>2. TableOK' /\ Own' = Own /\ \A m \in Node : table'[m][m].seqnum = table[m][m].seqnum
    BY <2>1, RowStep
  <2>3. SeqnoOK'
    BY <2>1, <2>2 DEF SeqnoOK
  <2>4. \A u \in updates' : UpdateOK(u)'
    BY <2>1, <2>2 DEF UpdateOK
  <2>5. QED
    BY <1>2, <2>1, <2>2, <2>3, <2>4
<1>6. QED
  BY <1>4, <1>5

-----------------------------------------------------------------------------
(* The invariant is inductive *)

LEMMA InitOK == Init => IInv
<1> SUFFICES ASSUME Init PROVE IInv
  OBVIOUS
<1> DEFINE own(n) == [Fresh(n, 0, 0) EXCEPT !.advSeqnum = TRUE, !.advMetric = TRUE]
<1>1. ASSUME NEW n \in Node
      PROVE  /\ own(n) \in Entry /\ own(n).hop = n /\ own(n).metric = 0
             /\ own(n).seqnum = 0 /\ own(n).q = <<>> /\ ~own(n).timeout
  <2> DEFINE f == Fresh(n, 0, 0)
  <2>1. 0 \in Metric
    BY ConstantsAssumption DEF Metric
  <2>2. /\ f \in Entry /\ f.hop = n /\ f.metric = 0 /\ f.seqnum = 0
        /\ f.q = <<>> /\ ~f.timeout
    BY <2>1, FreshType
  <2> HIDE DEF f
  <2>3. LET y == [f EXCEPT !.advSeqnum = TRUE, !.advMetric = TRUE]
        IN  /\ y \in Entry /\ y.hop = f.hop /\ y.metric = f.metric
            /\ y.seqnum = f.seqnum /\ y.q = f.q /\ y.timeout = f.timeout
    BY <2>2 DEF Entry
  <2>4. QED
    BY <2>2, <2>3 DEF f
<1>2. table = [n \in Node |-> [d \in Node |-> IF d = n THEN own(n) ELSE None]]
  BY DEF Init
<1> HIDE DEF own
<1>3. /\ table \in [Node -> Row]
      /\ \A n \in Node : table[n][n] = own(n)
      /\ \A n \in Node : \A d \in Node \ {n} : table[n][d] = None
  BY <1>1, <1>2 DEF Row
<1>4. ASSUME NEW n \in Node
      PROVE  RowOK(n, table[n], Own) /\ TimedRow(n, table[n])
  <2>1. Own[n] = 0
    BY <1>1, <1>3 DEF Own
  <2>2. EntryOK(n, n, table[n][n], Own[n])
    BY <1>1, <1>3, <2>1, ConstantsAssumption DEF EntryOK, CoveredBy, QueueOK
  <2>3. table[n][n] # None
    BY <1>1, <1>3, NoneAssumption
  <2>4. QED
    BY <1>3, <2>2, <2>3 DEF RowOK, TimedRow, HasRoute
<1>5. SeqnoOK
  <2>1. seqno = [n \in Node |-> 2]
    BY DEF Init
  <2>2. ASSUME NEW n \in Node
        PROVE  seqno[n] = 2 /\ table[n][n].seqnum = 0
    BY <1>1, <1>3, <2>1
  <2>3. QED
    BY <2>1, <2>2 DEF SeqnoOK
<1>6. AirOK /\ RestOK
  BY DEF Init, AirOK, RestOK
<1>7. QED
  BY <1>3, <1>4, <1>5, <1>6 DEF IInv, TableOK

\* What holds of a step that leaves sequence numbers and updates alone.
LEMMA QuietStep ==
    ASSUME IInv, TableOK', Own' = Own,
           \A m \in Node : table'[m][m].seqnum = table[m][m].seqnum,
           UNCHANGED seqno, updates' \subseteq updates,
           \A f \in frames' : FrameOK(f), RestOK'
    PROVE  IInv'
<1>1. SeqnoOK'
  BY DEF IInv, SeqnoOK
<1>2. \A u \in updates' : UpdateOK(u)'
  BY DEF IInv, AirOK, UpdateOK
<1>3. \A f \in frames' : FrameOK(f)'
  BY DEF FrameOK, DataFrame
<1>4. QED
  BY <1>1, <1>2, <1>3 DEF IInv, AirOK

\* A step of one node that changes flags of its row only.
LEMMA FlagStep ==
    ASSUME IInv, NEW n \in Node, NEW t2, Preserves(table[n], t2),
           table' = [table EXCEPT ![n] = t2],
           UNCHANGED <<seqno, updates, frames>>, RestOK'
    PROVE  IInv'
<1>1. TableOK /\ RowOK(n, table[n], Own) /\ TimedRow(n, table[n]) /\ Own \in [Node -> Nat]
  BY OwnNat DEF IInv, TableOK
<1>2. RowOK(n, t2, Own) /\ TimedRow(n, t2) /\ t2[n].seqnum = table[n][n].seqnum
  BY <1>1, PreservesOK
<1>3. TableOK' /\ Own' = Own /\ \A m \in Node : table'[m][m].seqnum = table[m][m].seqnum
  BY <1>1, <1>2, RowStep
<1>4. QED
  BY <1>3, QuietStep DEF IInv, AirOK

\* A step that leaves the table, the numbers and the updates alone.
LEMMA FramesStep ==
    ASSUME IInv, UNCHANGED <<table, seqno, updates>>,
           \A f \in frames' : FrameOK(f), RestOK'
    PROVE  IInv'
<1>1. TableOK' /\ Own' = Own
  BY DEF IInv, TableOK, Own
<1>2. QED
  BY <1>1, QuietStep

LEMMA RestSame ==
    ASSUME IInv, UNCHANGED <<orphan, selfish>>, recent' \in [Node -> BOOLEAN],
           sent' \in Nat, lapses' \in Nat, fault' \in {"none", "loop", "assert"}
    PROVE  RestOK'
BY DEF IInv, RestOK

LEMMA PeriodicOK ==
    ASSUME IInv, NEW n \in Node, Periodic(n)
    PROVE  IInv'
<1>1. /\ TableOK /\ SeqnoOK /\ recent \in [Node -> BOOLEAN]
      /\ \A u \in updates : UpdateOK(u)
      /\ RowOK(n, table[n], Own) /\ TimedRow(n, table[n])
      /\ \A f \in frames : FrameOK(f)
  BY DEF IInv, TableOK, AirOK, RestOK
<1>2. /\ TableOK' /\ SeqnoOK' /\ \A u \in updates' : UpdateOK(u)'
      /\ recent' \in [Node -> BOOLEAN]
  BY <1>1, SendUpdateOK DEF Periodic
<1>3. RestOK'
  BY <1>2 DEF IInv, RestOK, Periodic
<1>4. \A f \in frames' : FrameOK(f)'
  BY <1>1 DEF Periodic, FrameOK, DataFrame
<1>5. QED
  BY <1>2, <1>3, <1>4 DEF IInv, AirOK

LEMMA FireTriggerOK ==
    ASSUME IInv, NEW n \in Node, NEW d \in Node, FireTrigger(n, d)
    PROVE  IInv'
<1> DEFINE t == [table[n] EXCEPT ![d].trigger = "none"]
<1>1. /\ TableOK /\ SeqnoOK /\ recent \in [Node -> BOOLEAN]
      /\ \A u \in updates : UpdateOK(u)
      /\ RowOK(n, table[n], Own) /\ TimedRow(n, table[n])
      /\ (\A f \in frames : FrameOK(f)) /\ Own \in [Node -> Nat]
  BY OwnNat DEF IInv, TableOK, AirOK, RestOK
<1>2. Preserves(table[n], t)
  BY <1>1, SetTriggerRow DEF RowOK, FireTrigger, Fires
<1>3. SendUpdate(n, t, FALSE)
  BY DEF FireTrigger
<1> HIDE DEF t
<1>4. RowOK(n, t, Own) /\ TimedRow(n, t) /\ t[n].seqnum = table[n][n].seqnum
  BY <1>1, <1>2, PreservesOK
<1>5. /\ TableOK' /\ SeqnoOK' /\ \A u \in updates' : UpdateOK(u)'
      /\ recent' \in [Node -> BOOLEAN]
  BY <1>1, <1>3, <1>4, SendUpdateOK
<1>6. RestOK'
  BY <1>5 DEF IInv, RestOK, FireTrigger
<1>7. \A f \in frames' : FrameOK(f)'
  BY <1>1 DEF FireTrigger, FrameOK, DataFrame
<1>8. QED
  BY <1>5, <1>6, <1>7 DEF IInv, AirOK

LEMMA DeferTriggerOK ==
    ASSUME IInv, NEW n \in Node, NEW d \in Node, DeferTrigger(n, d)
    PROVE  IInv'
<1>1. table \in [Node -> Row] /\ table[n] \in Row /\ table[n][d] # None
  BY DEF IInv, TableOK, DeferTrigger, Fires
<1>2. PICK gone \in SUBSET Known(table[n]) : table' = [table EXCEPT ![n] = PutOff(table[n], d, gone)]
  <2>1. PICK early \in SUBSET {x \in Known(table[n]) \ {d} :
                                   table[n][x].trigger \in {"settling", "deferred"}} :
            LET due == {x \in Known(table[n]) \ {d} : table[n][x].trigger = "due"}
            IN  table' = [table EXCEPT ![n] = PutOff(@, d, early \cup due)]
    BY DEF DeferTrigger
  <2> DEFINE g == early \cup {x \in Known(table[n]) \ {d} : table[n][x].trigger = "due"}
  <2>2. g \in SUBSET Known(table[n])
    OBVIOUS
  <2>3. table' = [table EXCEPT ![n] = PutOff(table[n], d, g)]
    BY <2>1
  <2>4. QED
    BY <2>2, <2>3
<1> DEFINE t2 == PutOff(table[n], d, gone)
<1>3. Preserves(table[n], t2)
  BY <1>1, PutOffRow
<1>4. table' = [table EXCEPT ![n] = t2]
  BY <1>2
<1> HIDE DEF t2
<1>5. UNCHANGED <<seqno, updates, frames>> /\ RestOK'
  BY DEF DeferTrigger, IInv, RestOK
<1>6. QED
  BY <1>3, <1>4, <1>5, FlagStep

LEMMA SettleOK ==
    ASSUME IInv, NEW n \in Node, NEW d \in Node, Settle(n, d)
    PROVE  IInv'
<1> DEFINE t2 == [table[n] EXCEPT ![d].ok = "now"]
<1>1. table \in [Node -> Row] /\ table[n] \in Row /\ table[n][d] # None
  BY DEF IInv, TableOK, Settle
<1>2. Preserves(table[n], t2)
  BY <1>1, SettleRow
<1>3. table' = [table EXCEPT ![n] = t2]
  BY DEF Settle
<1> HIDE DEF t2
<1>4. UNCHANGED <<seqno, updates, frames>> /\ RestOK'
  BY DEF Settle, IInv, RestOK
<1>5. QED
  BY <1>2, <1>3, <1>4, FlagStep

LEMMA NeighbourTimeoutOK ==
    ASSUME IInv, NEW n \in Node, NEW h \in Node, NeighbourTimeout(n, h)
    PROVE  IInv'
<1> DEFINE t2 == TimedOut(table[n], h)
<1>1. /\ TableOK /\ RowOK(n, table[n], Own) /\ TimedRow(n, table[n]) /\ Own \in [Node -> Nat]
      /\ \A f \in frames : FrameOK(f)
  BY OwnNat DEF IInv, TableOK, AirOK
<1>2. table[n][h] # None /\ table[n][h].timeout /\ table' = [table EXCEPT ![n] = t2]
  BY DEF NeighbourTimeout
<1>3. h # n
  BY <1>1, <1>2 DEF RowOK, EntryOK
<1>4. RowOK(n, t2, Own) /\ TimedRow(n, t2) /\ t2[n].seqnum = table[n][n].seqnum
  BY <1>1, <1>2, <1>3, TimedOutOK
<1> HIDE DEF t2
<1>5. TableOK' /\ Own' = Own /\ \A m \in Node : table'[m][m].seqnum = table[m][m].seqnum
  BY <1>1, <1>2, <1>4, RowStep
<1>6. UNCHANGED <<seqno, updates, frames>> /\ RestOK'
  BY DEF NeighbourTimeout, IInv, RestOK
<1>7. QED
  BY <1>1, <1>5, <1>6, QuietStep

\* The frames of a drained queue leave for another node, with time to live.
LEMMA DrainedOK ==
    ASSUME TableOK, NEW u, UpdateOK(u), NEW f \in Drained(u)
    PROVE  FrameOK(f)
<1> DEFINE n == u.to
           s == u.from
           D == {d \in Lines(u) : Flushes(Heard(u, d)) /\ Accepts(table[n][d], Heard(u, d))}
           t == [d \in Node |-> IF d \in D THEN Heard(u, d) ELSE table[n][d]]
<1>1. /\ n \in Node /\ s \in Node \ {n}
      /\ \A d \in Lines(u) : d \in Node \ {n} /\ u.routes[d] \in Advert
  BY DEF UpdateOK, Update, Lines
<1>2. PICK d \in D : \E i \in {j \in DOMAIN table[n][d].q : ~Refused(n, table[n][d].q[j])} :
          f = Frame(n, t, table[n][d].q[i])
  BY DEF Drained
<1>3. PICK i \in DOMAIN table[n][d].q : /\ ~Refused(n, table[n][d].q[i])
                                        /\ f = Frame(n, t, table[n][d].q[i])
  BY <1>2
<1>4. d \in Lines(u) /\ d \in Node \ {n} /\ u.routes[d] \in Advert /\ t[d] = Heard(u, d)
  BY <1>1, <1>2
<1>5. table[n][d] = None \/ EntryOK(n, d, table[n][d], Own[d])
  BY <1>1, <1>4 DEF TableOK, RowOK
<1>6. table[n][d] # None
  <2>1. SUFFICES ASSUME table[n][d] = None PROVE FALSE
    OBVIOUS
  <2>2. Heard(u, d).q = <<>>
    BY <1>1, <1>4, <2>1, CandidateType DEF Heard
  <2>3. QED
    BY <1>2, <2>2 DEF Flushes
<1>7. Heard(u, d).hop = s
  <2>1. table[n][d] \in Entry \cup {None}
    BY <1>5 DEF EntryOK
  <2>2. QED
    BY <1>1, <1>4, <2>1, CandidateType DEF Heard
<1> HIDE DEF t, D
<1> DEFINE p == table[n][d].q[i]
<1>8. p \in Packet /\ p.dst = d
  <2>1. table[n][d].q \in Seq(Packet) /\ \A j \in DOMAIN table[n][d].q : table[n][d].q[j].dst = d
    BY <1>5, <1>6 DEF EntryOK, QueueOK, Entry
  <2>2. QED
    BY <1>3, <2>1
<1>9. f = Frame(n, t, p) /\ ~Refused(n, p)
  BY <1>3
<1> HIDE DEF p, n, s
<1>10. QED
  BY <1>1, <1>4, <1>7, <1>8, <1>9, FrameType

LEMMA ProcessUpdateOK ==
    ASSUME IInv, NEW u \in updates, ProcessUpdate(u)
    PROVE  IInv'
<1> DEFINE t2 == AfterUpdate(u)
<1>1. TableOK /\ UpdateOK(u) /\ u.to \in Node
  BY DEF IInv, AirOK, UpdateOK, Update
<1>2. RowOK(u.to, t2, Own) /\ TimedRow(u.to, t2) /\ t2[u.to].seqnum = table[u.to][u.to].seqnum
  BY <1>1, AfterUpdateOK
<1>3. table' = [table EXCEPT ![u.to] = t2]
  BY DEF ProcessUpdate
<1> HIDE DEF t2
<1>4. TableOK' /\ Own' = Own /\ \A m \in Node : table'[m][m].seqnum = table[m][m].seqnum
  BY <1>1, <1>2, <1>3, RowStep
<1>5. \A f \in frames' : FrameOK(f)
  BY <1>1, DrainedOK DEF ProcessUpdate, IInv, AirOK
<1>6. RestOK'
  <2> DEFINE b == orphan[u.to] \/ \E d \in Lines(u) :
                      ForgetsTrigger(table[u.to][d], Heard(u, d))
  <2>1. b \in BOOLEAN
    OBVIOUS
  <2>2. orphan' = [orphan EXCEPT ![u.to] = b]
    BY DEF ProcessUpdate
  <2> HIDE DEF b
  <2>3. orphan' \in [Node -> BOOLEAN]
    BY <2>1, <2>2 DEF IInv, RestOK
  <2>4. QED
    BY <2>3 DEF ProcessUpdate, IInv, RestOK
<1>7. UNCHANGED seqno /\ updates' \subseteq updates
  BY DEF ProcessUpdate
<1>8. QED
  BY <1>4, <1>5, <1>6, <1>7, QuietStep

\* The packet an application hands over for a flow.
LEMMA FlowPacket ==
    ASSUME NEW flow \in Flows
    PROVE  /\ flow.src \in Node /\ flow.dst \in Node \cup {IP_BROADCAST}
           /\ [src |-> flow.src, dst |-> flow.dst, ptype |-> flow.ptype,
               ttl |-> IP_DEF_TTL] \in Packet
<1>1. flow \in [src : Node, dst : Node \cup {IP_BROADCAST}, ptype : {"cbr", "message"}]
  BY ConstantsAssumption
<1>2. IP_DEF_TTL \in 1..IP_DEF_TTL
  BY ConstantsAssumption
<1>3. QED
  BY <1>1, <1>2 DEF Packet

LEMMA OriginateOK ==
    ASSUME IInv, NEW flow \in Flows, Originate(flow)
    PROVE  IInv'
<1> DEFINE n == flow.src
           p == [src |-> flow.src, dst |-> flow.dst, ptype |-> flow.ptype, ttl |-> IP_DEF_TTL]
<1>1. n \in Node /\ p \in Packet /\ p.dst \in Node \ {n}
  BY FlowPacket DEF Originate
<1>2. RecvData(n, table[n], p, frames)
  BY DEF Originate
<1> HIDE DEF n, p
<1>3. /\ TableOK /\ RowOK(n, table[n], Own) /\ TimedRow(n, table[n])
      /\ \A f \in frames : FrameOK(f)
  BY <1>1 DEF IInv, TableOK, AirOK
<1>4. /\ TableOK' /\ Own' = Own /\ \A f \in frames' : FrameOK(f)
      /\ \A m \in Node : table'[m][m].seqnum = table[m][m].seqnum
  BY <1>1, <1>2, <1>3, RecvDataOK
<1>5. UNCHANGED <<seqno, updates>> /\ RestOK'
  BY DEF Originate, IInv, RestOK
<1>6. QED
  BY <1>4, <1>5, QuietStep

LEMMA OriginateBroadcastOK ==
    ASSUME IInv, NEW flow \in Flows, OriginateBroadcast(flow)
    PROVE  IInv'
<1> DEFINE p == [src |-> flow.src, dst |-> IP_BROADCAST, ptype |-> flow.ptype,
                 ttl |-> IP_DEF_TTL]
<1>1. flow.src \in Node /\ p \in Packet /\ p.dst \notin Node
  BY FlowPacket, ConstantsAssumption DEF OriginateBroadcast
<1>2. PICK heard \in SUBSET Neighbours(flow.src) :
          frames' = frames \cup {[from |-> flow.src, to |-> m, pkt |-> p] : m \in heard}
  BY DEF OriginateBroadcast
<1> HIDE DEF p
<1>3. ASSUME NEW m \in heard
      PROVE  FrameOK([from |-> flow.src, to |-> m, pkt |-> p])
  <2>1. m \in Node /\ m # flow.src
    BY <1>1, NeighbourOther
  <2>2. QED
    BY <1>1, <2>1 DEF FrameOK, DataFrame
<1>4. \A f \in frames' : FrameOK(f)
  BY <1>2, <1>3 DEF IInv, AirOK
<1>5. UNCHANGED <<table, seqno, updates>> /\ RestOK'
  BY DEF OriginateBroadcast, routing, IInv, RestOK
<1>6. QED
  BY <1>4, <1>5, FramesStep

LEMMA RelayOK ==
    ASSUME IInv, NEW f \in frames, Relay(f)
    PROVE  IInv'
<1> DEFINE n == f.to
           air == frames \ {f}
<1>1. n \in Node /\ f.pkt \in Packet /\ f.pkt.dst \in Node \ {n}
  BY DEF IInv, AirOK, FrameOK, DataFrame, Relay, EndsHere, Packet
<1>2. RecvData(n, table[n], f.pkt, air)
  BY DEF Relay
<1>3. /\ TableOK /\ RowOK(n, table[n], Own) /\ TimedRow(n, table[n])
      /\ \A g \in air : FrameOK(g)
  BY <1>1 DEF IInv, TableOK, AirOK
<1> HIDE DEF n, air
<1>4. /\ TableOK' /\ Own' = Own /\ \A g \in frames' : FrameOK(g)
      /\ \A m \in Node : table'[m][m].seqnum = table[m][m].seqnum
  BY <1>1, <1>2, <1>3, RecvDataOK
<1>5. UNCHANGED <<seqno, updates>> /\ RestOK'
  BY DEF Relay, IInv, RestOK
<1>6. QED
  BY <1>4, <1>5, QuietStep

LEMMA LostLinkOK ==
    ASSUME IInv, NEW f \in frames, LostLink(f)
    PROVE  IInv'
<1> DEFINE n == f.from
           e == table[n][f.to]
           air == frames \ {f}
           t == IF e.timeout \/ e.metric # BIG THEN TimedOut(table[n], f.to) ELSE table[n]
<1>1. /\ n \in Node /\ f.to \in Node \ {n} /\ f.pkt \in Packet
      /\ f.pkt.dst \in Node \ {n}
  BY DEF IInv, AirOK, FrameOK, DataFrame, LostLink, Packet
<1>2. /\ TableOK /\ RowOK(n, table[n], Own) /\ TimedRow(n, table[n])
      /\ (\A g \in air : FrameOK(g)) /\ Own \in [Node -> Nat]
  BY <1>1, OwnNat DEF IInv, TableOK, AirOK
<1>3. UNCHANGED <<seqno, updates>> /\ RestOK'
  BY DEF LostLink, IInv, RestOK
<1>4. CASE UseMac /\ e # None
  <2>1. RecvData(n, t, f.pkt, air)
    BY <1>4 DEF LostLink
  <2>2. RowOK(n, t, Own) /\ TimedRow(n, t) /\ t[n].seqnum = table[n][n].seqnum
    <3>1. CASE e.timeout \/ e.metric # BIG
      BY <1>1, <1>2, <1>4, <3>1, TimedOutOK
    <3>2. CASE ~(e.timeout \/ e.metric # BIG)
      BY <1>2, <3>2
    <3>3. QED
      BY <3>1, <3>2
  <2> HIDE DEF n, air, t, e
  <2>3. /\ TableOK' /\ Own' = Own /\ \A g \in frames' : FrameOK(g)
        /\ \A m \in Node : table'[m][m].seqnum = table[m][m].seqnum
    BY <1>1, <1>2, <2>1, <2>2, RecvDataOK
  <2>4. QED
    BY <1>3, <2>3, QuietStep
<1>5. CASE ~(UseMac /\ e # None)
  <2>1. frames' = air /\ UNCHANGED table
    BY <1>5 DEF LostLink
  <2>2. QED
    BY <1>2, <1>3, <2>1, FramesStep
<1>6. QED
  BY <1>4, <1>5

LEMMA NextOK == IInv /\ [Next]_vars => IInv'
<1> SUFFICES ASSUME IInv, [Next]_vars PROVE IInv'
  OBVIOUS
<1>1. ASSUME NEW n \in Node, Periodic(n) PROVE IInv'
  BY <1>1, PeriodicOK
<1>2. ASSUME NEW n \in Node, FireOrphan(n) PROVE IInv'
  <2>1. UNCHANGED <<table, seqno, updates, frames>>
    BY <1>2 DEF FireOrphan, routing
  <2>2. RestOK'
    BY <1>2 DEF FireOrphan, routing, IInv, RestOK
  <2>3. QED
    BY <2>1, <2>2, FramesStep DEF IInv, AirOK
<1>3. ASSUME NEW n \in Node, PeriodElapses(n) PROVE IInv'
  <2>1. UNCHANGED <<table, seqno, updates, frames>>
    BY <1>3 DEF PeriodElapses
  <2>2. RestOK'
    BY <1>3 DEF PeriodElapses, IInv, RestOK
  <2>3. QED
    BY <2>1, <2>2, FramesStep DEF IInv, AirOK
<1>4. ASSUME NEW n \in Node, Egoista(n) PROVE IInv'
  <2>1. UNCHANGED <<table, seqno, updates, frames>>
    BY <1>4 DEF Egoista, routing
  <2>2. selfish' \in [Node -> BOOLEAN]
    <3> DEFINE b == ~selfish[n]
    <3>1. b \in BOOLEAN
      OBVIOUS
    <3>2. selfish' = [selfish EXCEPT ![n] = b]
      BY <1>4 DEF Egoista
    <3> HIDE DEF b
    <3>3. QED
      BY <3>1, <3>2 DEF IInv, RestOK
  <2>3. RestOK'
    BY <1>4, <2>2 DEF Egoista, routing, IInv, RestOK
  <2>4. QED
    BY <2>1, <2>3, FramesStep DEF IInv, AirOK
<1>5. ASSUME NEW n \in Node, NEW d \in Node, FireTrigger(n, d) PROVE IInv'
  BY <1>5, FireTriggerOK
<1>6. ASSUME NEW n \in Node, NEW d \in Node, DeferTrigger(n, d) PROVE IInv'
  BY <1>6, DeferTriggerOK
<1>7. ASSUME NEW n \in Node, NEW d \in Node, Settle(n, d) PROVE IInv'
  BY <1>7, SettleOK
<1>8. ASSUME NEW n \in Node, NEW d \in Node, NeighbourTimeout(n, d) PROVE IInv'
  BY <1>8, NeighbourTimeoutOK
<1>9. ASSUME NEW u \in updates, ProcessUpdate(u) PROVE IInv'
  BY <1>9, ProcessUpdateOK
<1>10. ASSUME NEW u \in updates, ProcessUpdateLoops(u) PROVE IInv'
  <2>1. UNCHANGED <<table, seqno, updates, frames>>
    BY <1>10 DEF ProcessUpdateLoops, routing
  <2>2. RestOK'
    BY <1>10 DEF ProcessUpdateLoops, routing, IInv, RestOK
  <2>3. QED
    BY <2>1, <2>2, FramesStep DEF IInv, AirOK
<1>11. ASSUME NEW flow \in Flows, Originate(flow) PROVE IInv'
  BY <1>11, OriginateOK
<1>12. ASSUME NEW flow \in Flows, OriginateBroadcast(flow) PROVE IInv'
  BY <1>12, OriginateBroadcastOK
<1>13. ASSUME NEW f \in frames, Arrive(f) PROVE IInv'
  <2>1. UNCHANGED <<table, seqno, updates>> /\ frames' \subseteq frames
    BY <1>13 DEF Arrive, routing
  <2>2. RestOK'
    BY <1>13 DEF Arrive, routing, IInv, RestOK
  <2>3. QED
    BY <2>1, <2>2, FramesStep DEF IInv, AirOK
<1>14. ASSUME NEW f \in frames, Relay(f) PROVE IInv'
  BY <1>14, RelayOK
<1>15. ASSUME NEW f \in frames, LostLink(f) PROVE IInv'
  BY <1>15, LostLinkOK
<1>16. CASE UNCHANGED vars
  <2>1. UNCHANGED <<table, seqno, updates, frames>>
    BY <1>16 DEF vars
  <2>2. RestOK'
    BY <1>16 DEF vars, IInv, RestOK
  <2>3. QED
    BY <2>1, <2>2, FramesStep DEF IInv, AirOK
<1>17. ASSUME NEW n \in Node, NodeStep(n) PROVE IInv'
  BY <1>1, <1>2, <1>3, <1>4, <1>5, <1>6, <1>7, <1>8, <1>17 DEF NodeStep
<1>18. QED
  BY <1>9, <1>10, <1>11, <1>12, <1>13, <1>14, <1>15, <1>16, <1>17 DEF Next

-----------------------------------------------------------------------------
(* The theorems *)

\* The invariant holds in every reachable state.
THEOREM Invariance == Spec => []IInv
<1>1. QED
  BY InitOK, NextOK, PTL DEF Spec

\* The variables of the agent keep their types, and a queue its destination.
THEOREM TypeCorrect == Spec => []TypeOK
<1>1. IInv => TypeOK
  <2> SUFFICES ASSUME IInv PROVE TypeOK
    OBVIOUS
  <2>1. /\ table \in [Node -> Row]
        /\ \A n \in Node : table[n][n] # None /\ QueuesMatch(table[n])
    BY DEF IInv, TableOK, RowOK, EntryOK, QueueOK, QueuesMatch
  <2>2. updates \subseteq Update /\ frames \subseteq DataFrame
    BY DEF IInv, AirOK, UpdateOK, FrameOK
  <2>3. QED
    BY <2>1, <2>2 DEF IInv, RestOK, SeqnoOK, TypeOK
<1>2. QED
  BY Invariance, <1>1, PTL

\* No table and no update in the air is ahead of the destination it speaks of,
\* and no node loses or inherits the route to itself.
THEOREM Provenance == Spec => []SeqnoProvenance
<1>1. IInv => SeqnoProvenance
  <2> SUFFICES ASSUME IInv PROVE SeqnoProvenance
    OBVIOUS
  <2>1. \A d \in Node : Own[d] = table[d][d].seqnum
    BY DEF Own
  <2>2. ASSUME NEW n \in Node, NEW d \in Node, table[n][d] # None
        PROVE  Covered(table[n][d], d)
    <3>1. CoveredBy(table[n][d], Own[d])
      BY <2>2 DEF IInv, TableOK, RowOK, EntryOK
    <3>2. QED
      BY <2>1, <3>1 DEF CoveredBy, Covered
  <2>3. ASSUME NEW u \in updates, NEW d \in Node, u.routes[d] # None
        PROVE  Covered(u.routes[d], d)
    <3>1. CoveredBy(u.routes[d], Own[d])
      BY <2>3 DEF IInv, AirOK, UpdateOK
    <3>2. QED
      BY <2>1, <3>1 DEF CoveredBy, Covered
  <2>4. ASSUME NEW n \in Node
        PROVE  table[n][n].metric = 0 /\ table[n][n].seqnum \in {seqno[n], seqno[n] - 2}
    BY DEF IInv, TableOK, RowOK, EntryOK, SeqnoOK
  <2>5. QED
    BY <2>2, <2>3, <2>4 DEF SeqnoProvenance
<1>2. QED
  BY Invariance, <1>1, PTL

\* A packet waits only for a lost route, in a queue of bounded length.
THEOREM NoPacketStranded == Spec => []NoStrandedPacket
<1>1. IInv => NoStrandedPacket
  BY DEF IInv, TableOK, RowOK, EntryOK, QueueOK, NoStrandedPacket
<1>2. QED
  BY Invariance, <1>1, PTL

\* Every usable route hangs on a neighbour whose timeout is pending.
THEOREM Timed == Spec => []RoutesAreTimed
<1>1. IInv => RoutesAreTimed
  <2> SUFFICES ASSUME IInv, NEW n \in Node, NEW d \in Node \ {n}, HasRoute(table[n], d)
               PROVE  LET e == table[n][d] IN /\ table[n][e.hop] # None
                                              /\ table[n][e.hop].timeout
                                              /\ e.metric > 0
    BY DEF RoutesAreTimed
  <2>1. RowOK(n, table[n], Own) /\ TimedRow(n, table[n])
    BY DEF IInv, TableOK
  <2>2. QED
    BY <2>1 DEF RowOK, EntryOK, TimedRow, HasRoute
<1>2. QED
  BY Invariance, <1>1, PTL

-----------------------------------------------------------------------------
(* Selfish nodes hand on nothing *)

\* What may be put on the air at present.
MayLeave(f) == f.pkt.src # f.from /\ f.pkt.ptype # "message" => ~selfish[f.from]

\* A packet that recv has not refused leaves only a node that may hand it on.
LEMMA UnrefusedLeaves ==
    ASSUME NEW n \in Node, NEW t, NEW p \in Packet, ~Refused(n, p)
    PROVE  MayLeave(Frame(n, t, p))
<1>1. Stamped(n, p).src = p.src /\ Stamped(n, p).ptype = p.ptype
  BY DEF Stamped, Packet
<1>2. Frame(n, t, p).from = n /\ Frame(n, t, p).pkt = Stamped(n, p)
  BY DEF Frame
<1>3. QED
  BY <1>1, <1>2 DEF Refused, MayLeave

LEMMA RecvDataLeaves ==
    ASSUME NEW n \in Node, NEW t, NEW p \in Packet, NEW air \in SUBSET frames,
           RecvData(n, t, p, air)
    PROVE  \A f \in frames' \ frames : MayLeave(f)
<1>1. CASE Refused(n, p)
  BY <1>1 DEF RecvData
<1>2. CASE ~Refused(n, p)
  BY <1>2, UnrefusedLeaves DEF RecvData
<1>3. QED
  BY <1>1, <1>2

LEMMA DrainedLeaves ==
    ASSUME TypeOK, NEW u \in updates
    PROVE  \A f \in Drained(u) : MayLeave(f)
<1> DEFINE n == u.to
           D == {d \in Lines(u) : Flushes(Heard(u, d)) /\ Accepts(table[n][d], Heard(u, d))}
           t == [d \in Node |-> IF d \in D THEN Heard(u, d) ELSE table[n][d]]
           out(d) == {Frame(n, t, table[n][d].q[i]) :
                        i \in {j \in DOMAIN table[n][d].q : ~Refused(n, table[n][d].q[j])}}
<1>1. Drained(u) = UNION {out(d) : d \in D}
  BY DEF Drained
<1>2. n \in Node /\ \A d \in D : d \in Node
  BY DEF TypeOK, Update, Lines
<1>3. \A d \in D : table[n][d].q # <<>> /\ (table[n][d] # None)
  \* A candidate over no entry has an empty queue.
  <2> SUFFICES ASSUME NEW d \in D PROVE table[n][d].q # <<>> /\ table[n][d] # None
    OBVIOUS
  <2>1. Heard(u, d).q # <<>>
    BY DEF Flushes
  <2>2. table[n][d] # None
    BY <2>1 DEF Heard, Candidate, Fresh
  <2>3. table[n][d] \in Entry
    BY <1>2, <2>2 DEF TypeOK, Row
  <2>4. Heard(u, d).q = table[n][d].q
    BY <2>2, <2>3 DEF Heard, Candidate, Entry
  <2>5. QED
    BY <2>1, <2>2, <2>4
<1>4. ASSUME NEW d \in D, NEW f \in out(d)
      PROVE  MayLeave(f)
  <2>1. PICK i \in DOMAIN table[n][d].q :
            ~Refused(n, table[n][d].q[i]) /\ f = Frame(n, t, table[n][d].q[i])
    BY <1>4
  <2>2. table[n][d] \in Entry
    BY <1>2, <1>3 DEF TypeOK, Row
  <2>3. table[n][d].q[i] \in Packet
    BY <2>2, <2>1 DEF Entry
  <2> HIDE DEF t
  <2>4. QED
    BY <1>2, <2>1, <2>3, UnrefusedLeaves
<1>5. QED
  BY <1>1, <1>4

\* A node that behaves selfishly puts no data of another node on the air, whatever its
\* route, its queues and its MAC layer do, but for packets of type PT_MESSAGE (recv,
\* forwardPacket, processUpdate, lost_link).
THEOREM SelfishHandOnNothing == Spec => SelfishForwardsNothing
<1>1. TypeOK /\ [Next]_vars => [\A f \in frames' \ frames : MayLeave(f)]_vars
  <2> SUFFICES ASSUME TypeOK, Next PROVE \A f \in frames' \ frames : MayLeave(f)
    OBVIOUS
  <2>1. ASSUME NEW n \in Node, NodeStep(n)
        PROVE  \A f \in frames' \ frames : MayLeave(f)
    <3>1. frames' = frames
      BY <2>1 DEF NodeStep, Periodic, FireOrphan, PeriodElapses, Egoista, FireTrigger,
                  DeferTrigger, Settle, NeighbourTimeout
    <3>2. QED
      BY <3>1
  <2>2. ASSUME NEW u \in updates, ProcessUpdate(u) \/ ProcessUpdateLoops(u)
        PROVE  \A f \in frames' \ frames : MayLeave(f)
    BY <2>2, DrainedLeaves DEF ProcessUpdate, ProcessUpdateLoops
  <2>3. ASSUME NEW flow \in Flows, Originate(flow)
        PROVE  \A f \in frames' \ frames : MayLeave(f)
    <3> DEFINE p == [src |-> flow.src, dst |-> flow.dst, ptype |-> flow.ptype, ttl |-> IP_DEF_TTL]
    <3>1. p \in Packet /\ flow.src \in Node
      BY ConstantsAssumption DEF Packet
    <3>2. RecvData(flow.src, table[flow.src], p, frames)
      BY <2>3 DEF Originate
    <3> HIDE DEF p
    <3>3. QED
      BY <3>1, <3>2, RecvDataLeaves
  <2>4. ASSUME NEW flow \in Flows, OriginateBroadcast(flow)
        PROVE  \A f \in frames' \ frames : MayLeave(f)
    BY <2>4 DEF OriginateBroadcast, MayLeave
  <2>5. ASSUME NEW f \in frames, Arrive(f)
        PROVE  \A g \in frames' \ frames : MayLeave(g)
    BY <2>5 DEF Arrive
  <2>6. ASSUME NEW f \in frames, Relay(f)
        PROVE  \A g \in frames' \ frames : MayLeave(g)
    <3>1. f.to \in Node /\ f.pkt \in Packet /\ frames \ {f} \in SUBSET frames
      BY DEF TypeOK, DataFrame
    <3>2. QED
      BY <2>6, <3>1, RecvDataLeaves DEF Relay
  <2>7. ASSUME NEW f \in frames, LostLink(f)
        PROVE  \A g \in frames' \ frames : MayLeave(g)
    <3>1. f.from \in Node /\ f.pkt \in Packet /\ frames \ {f} \in SUBSET frames
      BY DEF TypeOK, DataFrame
    <3>2. frames' = frames \ {f} \/ \E t : RecvData(f.from, t, f.pkt, frames \ {f})
      BY <2>7 DEF LostLink
    <3>3. QED
      BY <3>1, <3>2, RecvDataLeaves
  <2>8. QED
    BY <2>1, <2>2, <2>3, <2>4, <2>5, <2>6, <2>7 DEF Next
<1>2. QED
  BY <1>1, TypeCorrect, PTL DEF Spec, SelfishForwardsNothing, MayLeave

-----------------------------------------------------------------------------
(* The order along next hops, in behaviours without a stale write-back *)

\* An update flushes a queue for a line that is rejected: the older rte is
\* written over the entry.
StaleWriteBack(u) ==
    /\ ProcessUpdate(u)
    /\ \E d \in Lines(u) : Flushes(Heard(u, d)) /\ ~Accepts(table[u.to][d], Heard(u, d))

NoStaleWriteBack == [][\A u \in updates : ~StaleWriteBack(u)]_vars

Ahead(g, sn, m)   == g # None /\ (g.seqnum > sn \/ (g.seqnum = sn /\ g.metric < m))
AtLeast(g, sn, m) == g # None /\ (g.seqnum > sn \/ (g.seqnum = sn /\ g.metric <= m))

\* An entry x takes the place of e without falling behind it.
NotBehind(e, x) == e # None => AtLeast(x, e.seqnum, e.metric)

\* The next hop of an entry x for d, as the tables are, is ahead of it.
Led(x, d) == x.hop \in Node /\ Ahead(table[x.hop][d], x.seqnum, x.metric)

\* A row t of n is not behind the one in the table and follows it in order.
InOrder(n, t) ==
    \A d \in Node : NotBehind(table[n][d], t[d]) /\ (d # n /\ HasRoute(t, d) => Led(t[d], d))

\* An update says what the row t of its sender n does.
Tells(u, n, t) ==
    /\ u.from = n
    /\ \A d \in Node : u.routes[d] # None =>
           t[d] # None /\ u.routes[d].metric = t[d].metric /\ u.routes[d].seqnum = t[d].seqnum

\* No row falls behind itself.
NoneBehind == \A n, d \in Node : NotBehind(table[n][d], table'[n][d])

LEMMA EntryNat ==
    ASSUME NEW t \in Row, NEW d \in Node, t[d] # None
    PROVE  t[d] \in Entry /\ t[d].seqnum \in Nat /\ t[d].metric \in Nat /\ t[d].hop \in Node
BY ConstantsAssumption DEF Row, Entry, Metric

LEMMA NotBehindTransitive ==
    ASSUME NEW t1 \in Row, NEW t2 \in Row, NEW t3 \in Row, NEW d \in Node,
           NotBehind(t1[d], t2[d]), NotBehind(t2[d], t3[d])
    PROVE  NotBehind(t1[d], t3[d])
<1> SUFFICES ASSUME t1[d] # None PROVE AtLeast(t3[d], t1[d].seqnum, t1[d].metric)
  BY DEF NotBehind
<1>1. t2[d] # None /\ t3[d] # None
  BY DEF NotBehind, AtLeast
<1>2. /\ t1[d].seqnum \in Nat /\ t2[d].seqnum \in Nat /\ t3[d].seqnum \in Nat
      /\ t1[d].metric \in Nat /\ t2[d].metric \in Nat /\ t3[d].metric \in Nat
  BY <1>1, EntryNat
<1>3. QED
  BY <1>1, <1>2 DEF NotBehind, AtLeast

LEMMA SameRouteNotBehind ==
    ASSUME NEW t1 \in Row, NEW d \in Node, NEW x, t1[d] # None => x # None /\ SameRoute(t1[d], x)
    PROVE  NotBehind(t1[d], x)
<1>1. CASE t1[d] # None
  <2>1. t1[d].seqnum \in Nat /\ t1[d].metric \in Nat
    BY <1>1, EntryNat
  <2>2. QED
    BY <1>1, <2>1 DEF NotBehind, AtLeast, SameRoute
<1>2. CASE t1[d] = None
  BY <1>2 DEF NotBehind
<1>3. QED
  BY <1>1, <1>2

\* The rows of the table are in order to begin with.
LEMMA OwnRowInOrder ==
    ASSUME TableOK, HopOrder, NEW n \in Node
    PROVE  table[n] \in Row /\ InOrder(n, table[n])
<1>1. table[n] \in Row
  BY DEF TableOK
<1>2. ASSUME NEW d \in Node
      PROVE  NotBehind(table[n][d], table[n][d])
  BY <1>1, SameRouteNotBehind DEF SameRoute
<1>3. ASSUME NEW d \in Node \ {n}, HasRoute(table[n], d)
      PROVE  Led(table[n][d], d)
  <2>1. table[n][d].hop \in Node
    BY <1>1, <1>3, EntryNat DEF HasRoute
  <2>2. HopKnowsBetter(n, d)
    BY <1>3 DEF HopOrder
  <2>3. QED
    BY <2>1, <2>2 DEF HopKnowsBetter, Led, Ahead
<1>4. QED
  BY <1>1, <1>2, <1>3 DEF InOrder

LEMMA PreservesInOrder ==
    ASSUME TableOK, NEW n \in Node, NEW t \in Row, InOrder(n, t), NEW t2, Preserves(t, t2)
    PROVE  t2 \in Row /\ InOrder(n, t2)
<1>1. t2 \in Row /\ table[n] \in Row
  BY DEF Preserves, TableOK
<1>2. ASSUME NEW d \in Node
      PROVE  NotBehind(table[n][d], t2[d])
  <2>1. NotBehind(t[d], t2[d])
    BY SameRouteNotBehind DEF Preserves
  <2>2. NotBehind(table[n][d], t[d])
    BY DEF InOrder
  <2>3. QED
    BY <1>1, <2>1, <2>2, NotBehindTransitive
<1>3. ASSUME NEW d \in Node \ {n}, HasRoute(t2, d)
      PROVE  Led(t2[d], d)
  <2>1. t[d] # None /\ SameRoute(t[d], t2[d])
    BY <1>3 DEF Preserves, HasRoute
  <2>2. HasRoute(t, d)
    BY <1>3, <2>1 DEF HasRoute, SameRoute
  <2>3. Led(t[d], d)
    BY <2>2 DEF InOrder
  <2>4. QED
    BY <2>1, <2>3 DEF Led, SameRoute
<1>4. QED
  BY <1>1, <1>2, <1>3 DEF InOrder

LEMMA WithOwnRouteInOrder ==
    ASSUME TableOK, SeqnoOK, NEW n \in Node, NEW t \in Row, InOrder(n, t)
    PROVE  WithOwnRoute(t, n) \in Row /\ InOrder(n, WithOwnRoute(t, n))
<1> DEFINE s == seqno[n] + 2
           f == Fresh(n, 0, s)
           x == [f EXCEPT !.advSeqnum = TRUE]
           t2 == [t EXCEPT ![n] = x]
<1>1. s \in Nat /\ table[n][n] # None /\ table[n][n].seqnum < s /\ WithOwnRoute(t, n) = t2
  <2>1. seqno[n] \in Nat /\ table[n][n].seqnum \in {seqno[n], seqno[n] - 2}
    BY DEF SeqnoOK
  <2>2. table[n][n] # None
    BY DEF TableOK, RowOK
  <2>3. QED
    BY <2>1, <2>2 DEF WithOwnRoute
<1> HIDE DEF s
<1>2. f \in Entry /\ f.seqnum = s
  <2>1. 0 \in Metric
    BY ConstantsAssumption DEF Metric
  <2>2. QED
    BY <1>1, <2>1, FreshType
<1> HIDE DEF f
<1>3. x \in Entry /\ x.seqnum = s /\ x # None
  BY <1>2, SetAdvSeqnumType, NoneAssumption
<1> HIDE DEF x
<1>4. t2 \in Row /\ t2[n] = x /\ \A d \in Node \ {n} : t2[d] = t[d]
  BY <1>3 DEF Row
<1> HIDE DEF t2
<1>5. NotBehind(table[n][n], t2[n])
  BY <1>1, <1>3, <1>4 DEF NotBehind, AtLeast
<1>6. QED
  BY <1>1, <1>4, <1>5 DEF InOrder, HasRoute

LEMMA TimedOutInOrder ==
    ASSUME TableOK, NEW n \in Node, NEW t \in Row, InOrder(n, t), NEW h \in Node, t[h] # None
    PROVE  TimedOut(t, h) \in Row /\ InOrder(n, TimedOut(t, h))
<1> DEFINE t2 == TimedOut(t, h)
<1>1. TimesOut(t, h, t2)
  BY TimedOutType
<1> HIDE DEF t2
<1>2. t2 \in Row /\ table[n] \in Row
  BY <1>1 DEF TimesOut, TableOK
<1>3. ASSUME NEW d \in Node
      PROVE  NotBehind(table[n][d], t2[d])
  <2>1. NotBehind(t[d], t2[d])
    <3>1. CASE t[d] # None
      <4>1. t2[d] # None /\ t[d].seqnum \in Nat /\ t[d].metric \in Nat
        BY <1>1, <3>1, EntryNat DEF TimesOut
      <4>2. \/ t2[d].seqnum = t[d].seqnum + 1
            \/ t2[d].metric = t[d].metric /\ t2[d].seqnum = t[d].seqnum
        BY <1>1, <4>1 DEF TimesOut
      <4>3. QED
        BY <4>1, <4>2 DEF NotBehind, AtLeast
    <3>2. CASE t[d] = None
      BY <3>2 DEF NotBehind
    <3>3. QED
      BY <3>1, <3>2
  <2>2. NotBehind(table[n][d], t[d])
    BY DEF InOrder
  <2>3. QED
    BY <1>2, <2>1, <2>2, NotBehindTransitive
<1>4. ASSUME NEW d \in Node \ {n}, HasRoute(t2, d)
      PROVE  Led(t2[d], d)
  <2>1. /\ t[d] # None /\ t2[d].hop = t[d].hop /\ t2[d].metric = t[d].metric
        /\ t2[d].seqnum = t[d].seqnum /\ HasRoute(t, d)
    BY <1>1, <1>4 DEF TimesOut, HasRoute
  <2>2. Led(t[d], d)
    BY <2>1 DEF InOrder
  <2>3. QED
    BY <2>1, <2>2 DEF Led
<1>5. QED
  BY <1>2, <1>3, <1>4 DEF t2, InOrder

LEMMA KeepInOrder ==
    ASSUME TableOK, NEW n \in Node, NEW t \in Row, InOrder(n, t), NEW d \in Node,
           ~HasRoute(t, d), NEW t2 \in Row, Keeps(t, d, t2)
    PROVE  InOrder(n, t2)
<1>1. table[n] \in Row
  BY DEF TableOK
<1>2. NotBehind(table[n][d], t2[d])
  <2>1. NotBehind(t[d], t2[d])
    <3>1. CASE t[d] # None
      <4>1. t[d].metric = BIG /\ t[d].metric \in Nat /\ t[d].seqnum \in Nat
        BY <3>1, EntryNat DEF HasRoute
      <4>2. QED
        BY <3>1, <4>1 DEF Keeps, NotBehind, AtLeast
    <3>2. CASE t[d] = None
      BY <3>2 DEF NotBehind
    <3>3. QED
      BY <3>1, <3>2
  <2>2. NotBehind(table[n][d], t[d])
    BY DEF InOrder
  <2>3. QED
    BY <1>1, <2>1, <2>2, NotBehindTransitive
<1>3. QED
  BY <1>2 DEF InOrder, Keeps, HasRoute

\* A line that is accepted, or whose receiver flushes no queue for it, leaves the
\* old route or one over the sender, and nothing older than there was.
LEMMA LearnedRoute ==
    ASSUME NEW d \in Node, NEW s \in Node, NEW line \in Advert, NEW e \in Entry \cup {None},
           Flushes(Candidate(e, d, s, line)) => Accepts(e, Candidate(e, d, s, line))
    PROVE  LET x == Learned(e, Candidate(e, d, s, line))
           IN  /\ x \in Entry /\ NotBehind(e, x)
               /\ \/ e # None /\ SameRoute(e, x)
                  \/ x.metric = BIG
                  \/ /\ line.metric # BIG
                     /\ x.hop = s /\ x.metric = line.metric + 1 /\ x.seqnum = line.seqnum
<1> DEFINE r == Candidate(e, d, s, line)
           x == Learned(e, r)
<1>1. /\ r \in Entry /\ r.hop = s /\ r.seqnum = line.seqnum
      /\ r.metric = IF line.metric = BIG THEN BIG ELSE line.metric + 1
      /\ e # None => r.q = e.q /\ r.timeout = e.timeout
  BY CandidateType
<1>2. Flushes(r) => Accepts(e, r)
  OBVIOUS
<1> HIDE DEF r
<1>3. /\ x \in Entry
      /\ \/ /\ Accepts(e, r)
            /\ x.hop = r.hop /\ x.metric = r.metric /\ x.seqnum = r.seqnum
         \/ e # None /\ SameRoute(e, x)
  <2>1. \/ /\ Accepts(e, r) \/ Flushes(r)
           /\ x.hop = r.hop /\ x.metric = r.metric /\ x.seqnum = r.seqnum
        \/ /\ e # None /\ ~Accepts(e, r) /\ ~Flushes(r)
           /\ x.hop = e.hop /\ x.metric = e.metric /\ x.seqnum = e.seqnum
    BY <1>1, LearnedType
  <2>2. x \in Entry
    BY <1>1, LearnedType
  <2>3. QED
    BY <1>2, <2>1, <2>2 DEF SameRoute
<1> HIDE DEF x
<1>4. x # None /\ line.metric \in Nat /\ line.seqnum \in Nat /\ BIG \in Nat
  BY <1>3, NoneAssumption, ConstantsAssumption DEF Advert, Metric
<1>5. e # None => e.metric \in Nat /\ e.seqnum \in Nat
  BY ConstantsAssumption DEF Entry, Metric
<1>6. NotBehind(e, x)
  BY <1>1, <1>3, <1>4, <1>5 DEF NotBehind, AtLeast, Accepts, Fresher, SameSeqno, SameRoute
<1>7. QED
  BY <1>1, <1>3, <1>6 DEF x, r

LEMMA AfterUpdateInOrder ==
    ASSUME TableOK, HopOrder, NEW u \in updates, UpdateOK(u),
           \A d \in Lines(u) : Flushes(Heard(u, d)) => Accepts(table[u.to][d], Heard(u, d))
    PROVE  AfterUpdate(u) \in Row /\ InOrder(u.to, AfterUpdate(u))
<1> DEFINE n == u.to
           s == u.from
           t == table[u.to]
           mid == [d \in Node |-> IF d \in Lines(u) THEN Learned(t[d], Heard(u, d)) ELSE t[d]]
           x == IF mid[s] = None
                THEN [Fresh(s, 1, 0) EXCEPT !.ok = "never", !.timeout = TRUE]
                ELSE [mid[s] EXCEPT !.timeout = TRUE]
           t2 == AfterUpdate(u)
<1>1. /\ n \in Node /\ s \in Node /\ n # s /\ u.routes \in [Node -> Advert \cup {None}]
      /\ \A d \in Lines(u) : d \in Node \ {n} /\ u.routes[d] \in Advert
  BY DEF UpdateOK, Update, Lines
<1>2. t \in Row /\ InOrder(n, t)
  BY <1>1, OwnRowInOrder
<1>3. ASSUME NEW d \in Lines(u)
      PROVE  /\ mid[d] \in Entry /\ NotBehind(t[d], mid[d])
             /\ mid[d].metric # BIG => Led(mid[d], d)
  <2> DEFINE e == t[d]
             r == Heard(u, d)
             line == u.routes[d]
  <2>1. /\ d \in Node \ {n} /\ line \in Advert /\ e \in Entry \cup {None} /\ e = table[n][d]
        /\ r = Candidate(e, d, s, line) /\ (Flushes(r) => Accepts(e, r))
        /\ mid[d] = Learned(e, r)
    BY <1>1, <1>2 DEF Row, Heard
  <2> DEFINE y == Learned(e, Candidate(e, d, s, line))
  <2>2. y = mid[d] /\ (Flushes(Candidate(e, d, s, line)) => Accepts(e, Candidate(e, d, s, line)))
    BY <2>1
  <2>3. HasRoute(table[n], d) => Led(e, d)
    BY <1>2, <2>1 DEF InOrder
  <2>4. table[n][d] = e
    BY <2>1
  <2> HIDE DEF r, line, mid
  <2>5. /\ y \in Entry /\ NotBehind(e, y)
        /\ \/ e # None /\ SameRoute(e, y)
           \/ y.metric = BIG
           \/ /\ line.metric # BIG
              /\ y.hop = s /\ y.metric = line.metric + 1 /\ y.seqnum = line.seqnum
    BY <1>1, <2>1, <2>2, LearnedRoute
  <2> HIDE DEF y, e, n, s
  <2>6. ASSUME y.metric # BIG PROVE Led(y, d)
    <3>1. CASE e # None /\ SameRoute(e, y)
      BY <2>3, <2>4, <2>6, <3>1 DEF HasRoute, SameRoute, Led
    <3>2. CASE /\ line.metric # BIG
               /\ y.hop = s /\ y.metric = line.metric + 1 /\ y.seqnum = line.seqnum
      <4>1. u.routes[d] # None
        BY <2>1, NoneAssumption DEF line
      <4>2. SenderStandsBy(u, d)
        BY <2>1, <3>2, <4>1 DEF HopOrder, HasRoute, line
      <4>3. AtLeast(table[s][d], line.seqnum, line.metric)
        BY <4>2 DEF SenderStandsBy, AtLeast, line, s
      <4>4. table[s] \in Row /\ table[s][d] # None
        BY <1>1, <4>3 DEF TableOK, AtLeast
      <4>5. table[s][d].metric \in Nat /\ table[s][d].seqnum \in Nat
        BY <2>1, <4>4, EntryNat
      <4>6. line.metric \in Nat /\ line.seqnum \in Nat
        BY <2>1, ConstantsAssumption DEF Advert, Metric
      <4>7. QED
        BY <1>1, <3>2, <4>3, <4>5, <4>6 DEF Led, Ahead, AtLeast
    <3>3. QED
      BY <2>5, <2>6, <3>1, <3>2
  <2>7. QED
    BY <2>2, <2>5, <2>6 DEF e
<1>4. ASSUME NEW d \in Node \ Lines(u)
      PROVE  mid[d] = t[d]
  OBVIOUS
<1>5. mid \in Row
  <2>1. ASSUME NEW d \in Node
        PROVE  mid[d] \in Entry \cup {None}
    BY <1>2, <1>3, <1>4 DEF Row
  <2>2. QED
    BY <2>1 DEF Row
<1>6. t2 = [mid EXCEPT ![s] = x]
  BY Zenon DEF AfterUpdate, WithTimeout
<1>7. ASSUME NEW d \in Node
      PROVE  NotBehind(t[d], mid[d]) /\ (d # n /\ HasRoute(mid, d) => Led(mid[d], d))
  <2>1. CASE d \in Lines(u)
    BY <1>3, <2>1 DEF HasRoute
  <2>2. CASE d \notin Lines(u)
    <3>1. mid[d] = t[d]
      BY <1>4, <2>2
    <3> HIDE DEF mid, t, n
    <3>2. NotBehind(t[d], mid[d])
      BY <1>2, <3>1, SameRouteNotBehind DEF SameRoute
    <3>3. HasRoute(mid, d) => HasRoute(t, d)
      BY <3>1 DEF HasRoute
    <3>4. QED
      BY <1>2, <3>1, <3>2, <3>3 DEF InOrder
  <2>3. QED
    BY <2>1, <2>2
<1> HIDE DEF mid
<1>8. /\ x \in Entry /\ x # None
      /\ mid[s] # None => SameRoute(mid[s], x)
      /\ mid[s] = None => x.hop = s /\ x.metric = 1 /\ x.seqnum = 0
  <2>1. CASE mid[s] = None
    <3> DEFINE f == Fresh(s, 1, 0)
    <3>1. f \in Entry /\ f.hop = s /\ f.metric = 1 /\ f.seqnum = 0
      <4>1. 1 \in Metric
        BY ConstantsAssumption DEF Metric
      <4>2. QED
        BY <1>1, <4>1, FreshType
    <3>2. x = [f EXCEPT !.ok = "never", !.timeout = TRUE]
      BY <2>1
    <3> HIDE DEF f, x, s
    <3>3. x \in Entry /\ x.hop = s /\ x.metric = 1 /\ x.seqnum = 0
      BY <3>1, <3>2, SetOkTimeoutType
    <3>4. QED
      BY <2>1, <3>3, NoneAssumption
  <2>2. CASE mid[s] # None
    <3>1. mid[s] \in Entry /\ x = [mid[s] EXCEPT !.timeout = TRUE]
      BY <1>1, <1>5, <2>2 DEF Row
    <3> HIDE DEF x
    <3>2. QED
      BY <2>2, <3>1, SetTimeoutType, NoneAssumption DEF SameRoute
  <2>3. QED
    BY <2>1, <2>2
<1> HIDE DEF x, t2, n, t, s
<1>9. t2 \in Row /\ t2[s] = x /\ \A d \in Node \ {s} : t2[d] = mid[d]
  BY <1>1, <1>5, <1>6, <1>8 DEF Row
<1>10. NotBehind(t[s], x)
  <2>1. t[s] # None => mid[s] # None
    BY <1>1, <1>7 DEF NotBehind, AtLeast
  <2>2. CASE t[s] # None
    BY <1>7, <1>1, <1>8, <2>1, <2>2 DEF NotBehind, AtLeast, SameRoute
  <2>3. CASE t[s] = None
    BY <2>3 DEF NotBehind
  <2>4. QED
    BY <2>2, <2>3
<1>11. x.metric # BIG => Led(x, s)
  <2>1. CASE mid[s] = None
    <3>1. x.hop = s /\ x.metric = 1 /\ x.seqnum = 0
      BY <1>8, <2>1
    <3>2. table[s][s] # None /\ table[s][s].metric = 0 /\ table[s][s].seqnum \in Nat
      BY <1>1 DEF TableOK, RowOK, EntryOK, Entry
    <3>3. QED
      BY <1>1, <3>1, <3>2 DEF Led, Ahead
  <2>2. CASE mid[s] # None
    BY <1>1, <1>7, <1>8, <2>2 DEF HasRoute, SameRoute, Led
  <2>3. QED
    BY <2>1, <2>2
<1>12. ASSUME NEW d \in Node
       PROVE  NotBehind(t[d], t2[d]) /\ (d # n /\ HasRoute(t2, d) => Led(t2[d], d))
  BY <1>7, <1>9, <1>10, <1>11 DEF HasRoute
<1>13. InOrder(n, t2)
  BY <1>12 DEF InOrder, t, n
<1>14. QED
  BY <1>9, <1>13 DEF n, t2

\* The step that replaces the row of n by t2, which is in order, and sends only
\* what t2 says.
LEMMA OrderStep ==
    ASSUME TableOK, HopOrder, \A u \in updates : UpdateOK(u), NEW n \in Node,
           NEW t2 \in Row, InOrder(n, t2), table' = [table EXCEPT ![n] = t2],
           \A u \in updates' : u \in updates \/ Tells(u, n, t2)
    PROVE  HopOrder' /\ NoneBehind
<1>1. /\ table \in [Node -> Row] /\ table' \in [Node -> Row]
      /\ table'[n] = t2 /\ \A m \in Node \ {n} : table'[m] = table[m]
  BY DEF TableOK
<1>2. ASSUME NEW m \in Node
      PROVE  InOrder(m, table'[m])
  <2>1. CASE m = n
    BY <1>1, <2>1
  <2>2. CASE m # n
    BY <1>1, <2>2, OwnRowInOrder
  <2>3. QED
    BY <2>1, <2>2
<1>3. ASSUME NEW m \in Node, NEW d \in Node
      PROVE  NotBehind(table[m][d], table'[m][d])
  BY <1>2 DEF InOrder
<1>4. ASSUME NEW m \in Node, NEW d \in Node, table[m][d] # None
      PROVE  /\ table'[m][d] # None /\ AtLeast(table'[m][d], table[m][d].seqnum, table[m][d].metric)
             /\ table[m][d].seqnum \in Nat /\ table[m][d].metric \in Nat
             /\ table'[m][d].seqnum \in Nat /\ table'[m][d].metric \in Nat
  <2>1. table[m] \in Row /\ table'[m] \in Row
    BY <1>1
  <2>2. AtLeast(table'[m][d], table[m][d].seqnum, table[m][d].metric)
    BY <1>3, <1>4 DEF NotBehind
  <2>3. table'[m][d] # None
    BY <2>2 DEF AtLeast
  <2>4. QED
    BY <1>4, <2>1, <2>2, <2>3, EntryNat
<1>5. ASSUME NEW m \in Node, NEW d \in Node \ {m}, HasRoute(table'[m], d)
      PROVE  HopKnowsBetter(m, d)'
  <2> DEFINE e == table'[m][d]
  <2>1. Led(e, d)
    BY <1>2, <1>5 DEF InOrder
  <2>2. e.seqnum \in Nat /\ e.metric \in Nat
    BY <1>1, <1>5, EntryNat DEF HasRoute
  <2> DEFINE h == e.hop
  <2>3. h \in Node /\ Ahead(table[h][d], e.seqnum, e.metric)
    BY <2>1 DEF Led
  <2> HIDE DEF e, h
  <2>4. Ahead(table'[h][d], e.seqnum, e.metric)
    <3>1. table[h][d] # None
      BY <2>3 DEF Ahead
    <3>2. QED
      BY <1>4, <2>2, <2>3, <3>1 DEF Ahead, AtLeast
  <2>5. QED
    BY <2>4 DEF e, h, HopKnowsBetter, Ahead
<1>6. ASSUME NEW u \in updates', NEW d \in Node, HasRoute(u.routes, d)
      PROVE  SenderStandsBy(u, d)'
  <2> DEFINE x == u.routes[d]
  <2>1. x # None
    BY <1>6 DEF HasRoute
  <2>2. CASE u \in updates
    <3>1. u.from \in Node /\ x \in Advert
      BY <2>1, <2>2 DEF UpdateOK, Update
    <3>2. x.seqnum \in Nat /\ x.metric \in Nat
      BY <3>1, ConstantsAssumption DEF Advert, Metric
    <3>3. AtLeast(table[u.from][d], x.seqnum, x.metric)
      BY <1>6, <2>2 DEF HopOrder, SenderStandsBy, AtLeast
    <3> HIDE DEF x
    <3>4. AtLeast(table'[u.from][d], x.seqnum, x.metric)
      <4>1. table[u.from][d] # None
        BY <3>3 DEF AtLeast
      <4>2. QED
        BY <1>4, <3>1, <3>2, <3>3, <4>1 DEF AtLeast
    <3>5. QED
      BY <3>4 DEF x, SenderStandsBy, AtLeast
  <2>3. CASE Tells(u, n, t2)
    <3>1. /\ table'[u.from][d] # None /\ x.metric = table'[u.from][d].metric
          /\ x.seqnum = table'[u.from][d].seqnum
      BY <1>1, <2>1, <2>3 DEF Tells
    <3>2. table'[u.from][d].metric \in Nat
      BY <1>1, <2>3, <3>1, EntryNat DEF Tells
    <3>3. QED
      BY <3>1, <3>2 DEF SenderStandsBy
  <2>4. QED
    BY <2>2, <2>3
<1>7. QED
  BY <1>3, <1>5, <1>6 DEF HopOrder, NoneBehind

\* A step that leaves the tables alone and sends no update.
LEMMA IdleStep ==
    ASSUME TableOK, HopOrder, UNCHANGED table, updates' \subseteq updates
    PROVE  HopOrder' /\ NoneBehind
<1>1. HopOrder'
  BY DEF HopOrder, HopKnowsBetter, SenderStandsBy
<1>2. NoneBehind
  BY OwnRowInOrder DEF InOrder, NoneBehind
<1>3. QED
  BY <1>1, <1>2

LEMMA SendUpdateOrdered ==
    ASSUME TableOK, SeqnoOK, HopOrder, \A u \in updates : UpdateOK(u),
           NEW n \in Node, NEW t \in Row, InOrder(n, t), NEW periodic \in BOOLEAN,
           SendUpdate(n, t, periodic)
    PROVE  HopOrder' /\ NoneBehind
<1> DEFINE full == IsFull(t, periodic)
           base == IF full THEN WithOwnRoute(t, n) ELSE t
           t2   == Advertised(base, full)
           c    == Contents(base, full)
<1>1. full \in BOOLEAN
  BY DEF IsFull
<1>2. CASE full \/ Changed(t) # {}
  <2>1. /\ \E heard \in SUBSET Neighbours(n) : Broadcast(n, c, heard)
        /\ table' = [table EXCEPT ![n] = t2]
    BY <1>2 DEF SendUpdate
  <2>2. base \in Row /\ InOrder(n, base)
    <3>1. CASE full
      BY <3>1, WithOwnRouteInOrder
    <3>2. CASE ~full
      BY <3>2
    <3>3. QED
      BY <3>1, <3>2
  <2> HIDE DEF base, full
  <2>3. Preserves(base, t2)
    BY <1>1, <2>2, AdvertisedRow
  <2> HIDE DEF t2
  <2>4. t2 \in Row /\ InOrder(n, t2)
    BY <2>2, <2>3, PreservesInOrder
  <2>5. \A d \in Node : c[d] # None =>
            base[d] # None /\ c[d].metric = base[d].metric /\ c[d].seqnum = base[d].seqnum
    BY <1>1, <2>2, ContentsType
  <2> HIDE DEF c
  <2>6. \A d \in Node : c[d] # None =>
            t2[d] # None /\ c[d].metric = t2[d].metric /\ c[d].seqnum = t2[d].seqnum
    BY <2>3, <2>5 DEF Preserves, SameRoute
  <2>7. \A u \in updates' : u \in updates \/ Tells(u, n, t2)
    BY <2>1, <2>6 DEF Broadcast, Tells
  <2>8. QED
    BY <2>1, <2>4, <2>7, OrderStep
<1>3. CASE ~(full \/ Changed(t) # {})
  <2>1. table' = [table EXCEPT ![n] = t] /\ UNCHANGED updates
    BY <1>3 DEF SendUpdate
  <2>2. QED
    BY <2>1, OrderStep
<1>4. QED
  BY <1>2, <1>3

LEMMA RecvDataOrdered ==
    ASSUME TableOK, HopOrder, \A u \in updates : UpdateOK(u), UNCHANGED updates,
           NEW n \in Node, NEW t, RowOK(n, t, Own), TimedRow(n, t), InOrder(n, t),
           NEW p \in Packet, p.dst \in Node \ {n}, NEW air, RecvData(n, t, p, air)
    PROVE  HopOrder' /\ NoneBehind
<1>1. t \in Row /\ Own \in [Node -> Nat]
  BY OwnNat DEF RowOK
<1>2. CASE table' = [table EXCEPT ![n] = t]
  BY <1>1, <1>2, OrderStep
<1>3. CASE /\ ~Refused(n, p) /\ ~HasRoute(t, p.dst)
           /\ table' = [table EXCEPT ![n] = Keep(t, Stamped(n, p))]
  <2> DEFINE k == Stamped(n, p)
             t2 == Keep(t, k)
  <2>1. k \in Packet /\ k.dst = p.dst
    BY <1>3, StampedType
  <2>2. k.dst \in Node \ {n} /\ ~HasRoute(t, k.dst) /\ table' = [table EXCEPT ![n] = t2]
    BY <1>3, <2>1
  <2> HIDE DEF k
  <2>3. RowOK(n, t2, Own) /\ Keeps(t, k.dst, t2)
    BY <1>1, <2>1, <2>2, KeepOK
  <2> HIDE DEF t2
  <2>4. t2 \in Row
    BY <2>3 DEF RowOK
  <2>5. InOrder(n, t2)
    BY <1>1, <2>2, <2>3, <2>4, KeepInOrder
  <2>6. QED
    BY <2>2, <2>4, <2>5, OrderStep
<1>4. QED
  BY <1>2, <1>3 DEF RecvData

LEMMA FlagsOrdered ==
    ASSUME IInv, HopOrder, NEW n \in Node, NEW t2, Preserves(table[n], t2),
           table' = [table EXCEPT ![n] = t2], UNCHANGED updates
    PROVE  HopOrder' /\ NoneBehind
<1>1. TableOK /\ \A u \in updates : UpdateOK(u)
  BY DEF IInv, AirOK
<1>2. table[n] \in Row /\ InOrder(n, table[n])
  BY <1>1, OwnRowInOrder
<1>3. t2 \in Row /\ InOrder(n, t2)
  BY <1>1, <1>2, PreservesInOrder
<1>4. QED
  BY <1>1, <1>3, OrderStep

LEMMA TriggerOrdered ==
    ASSUME IInv, HopOrder, NEW n \in Node, NEW d \in Node, FireTrigger(n, d)
    PROVE  HopOrder' /\ NoneBehind
<1> DEFINE t == [table[n] EXCEPT ![d].trigger = "none"]
<1>1. TableOK /\ SeqnoOK /\ \A u \in updates : UpdateOK(u)
  BY DEF IInv, AirOK
<1>2. table[n] \in Row /\ InOrder(n, table[n])
  BY <1>1, OwnRowInOrder
<1>3. Preserves(table[n], t)
  BY <1>2, SetTriggerRow DEF FireTrigger, Fires
<1>4. SendUpdate(n, t, FALSE)
  BY DEF FireTrigger
<1> HIDE DEF t
<1>5. t \in Row /\ InOrder(n, t)
  BY <1>1, <1>2, <1>3, PreservesInOrder
<1>6. QED
  BY <1>1, <1>4, <1>5, SendUpdateOrdered

LEMMA DeferOrdered ==
    ASSUME IInv, HopOrder, NEW n \in Node, NEW d \in Node, DeferTrigger(n, d)
    PROVE  HopOrder' /\ NoneBehind
<1>1. table[n] \in Row /\ table[n][d] # None
  BY DEF IInv, TableOK, DeferTrigger, Fires
<1>2. PICK gone \in SUBSET Known(table[n]) : table' = [table EXCEPT ![n] = PutOff(table[n], d, gone)]
  <2>1. PICK early \in SUBSET {x \in Known(table[n]) \ {d} :
                                   table[n][x].trigger \in {"settling", "deferred"}} :
            LET due == {x \in Known(table[n]) \ {d} : table[n][x].trigger = "due"}
            IN  table' = [table EXCEPT ![n] = PutOff(@, d, early \cup due)]
    BY DEF DeferTrigger
  <2> DEFINE g == early \cup {x \in Known(table[n]) \ {d} : table[n][x].trigger = "due"}
  <2>2. g \in SUBSET Known(table[n])
    OBVIOUS
  <2>3. table' = [table EXCEPT ![n] = PutOff(table[n], d, g)]
    BY <2>1
  <2>4. QED
    BY <2>2, <2>3
<1> DEFINE t2 == PutOff(table[n], d, gone)
<1>3. Preserves(table[n], t2)
  BY <1>1, PutOffRow
<1>4. table' = [table EXCEPT ![n] = t2] /\ UNCHANGED updates
  BY <1>2 DEF DeferTrigger
<1> HIDE DEF t2
<1>5. QED
  BY <1>3, <1>4, FlagsOrdered

LEMMA TimeoutOrdered ==
    ASSUME IInv, HopOrder, NEW n \in Node, NEW h \in Node, NeighbourTimeout(n, h)
    PROVE  HopOrder' /\ NoneBehind
<1> DEFINE t2 == TimedOut(table[n], h)
<1>1. TableOK /\ \A u \in updates : UpdateOK(u)
  BY DEF IInv, AirOK
<1>2. table[n] \in Row /\ InOrder(n, table[n])
  BY <1>1, OwnRowInOrder
<1>3. t2 \in Row /\ InOrder(n, t2)
  BY <1>1, <1>2, TimedOutInOrder DEF NeighbourTimeout
<1>4. table' = [table EXCEPT ![n] = t2] /\ UNCHANGED updates
  BY DEF NeighbourTimeout
<1> HIDE DEF t2
<1>5. QED
  BY <1>1, <1>3, <1>4, OrderStep

LEMMA UpdateOrdered ==
    ASSUME IInv, HopOrder, NEW u \in updates, ProcessUpdate(u), ~StaleWriteBack(u)
    PROVE  HopOrder' /\ NoneBehind
<1> DEFINE t2 == AfterUpdate(u)
<1>1. /\ TableOK /\ UpdateOK(u) /\ u.to \in Node
      /\ \A v \in updates : UpdateOK(v)
  BY DEF IInv, AirOK, UpdateOK, Update
<1>2. \A d \in Lines(u) : Flushes(Heard(u, d)) => Accepts(table[u.to][d], Heard(u, d))
  BY DEF StaleWriteBack
<1>3. t2 \in Row /\ InOrder(u.to, t2)
  BY <1>1, <1>2, AfterUpdateInOrder
<1>4. table' = [table EXCEPT ![u.to] = t2] /\ updates' \subseteq updates
  BY DEF ProcessUpdate
<1> HIDE DEF t2
<1>5. QED
  BY <1>1, <1>3, <1>4, OrderStep

LEMMA OriginateOrdered ==
    ASSUME IInv, HopOrder, NEW flow \in Flows, Originate(flow)
    PROVE  HopOrder' /\ NoneBehind
<1> DEFINE n == flow.src
           p == [src |-> flow.src, dst |-> flow.dst, ptype |-> flow.ptype, ttl |-> IP_DEF_TTL]
<1>1. n \in Node /\ p \in Packet /\ p.dst \in Node \ {n}
  BY FlowPacket DEF Originate
<1>2. RecvData(n, table[n], p, frames) /\ UNCHANGED updates
  BY DEF Originate
<1> HIDE DEF n, p
<1>3. /\ TableOK /\ RowOK(n, table[n], Own) /\ TimedRow(n, table[n])
      /\ \A u \in updates : UpdateOK(u)
  BY <1>1 DEF IInv, TableOK, AirOK
<1>4. InOrder(n, table[n])
  BY <1>1, <1>3, OwnRowInOrder
<1>5. QED
  BY <1>1, <1>2, <1>3, <1>4, RecvDataOrdered

LEMMA RelayOrdered ==
    ASSUME IInv, HopOrder, NEW f \in frames, Relay(f)
    PROVE  HopOrder' /\ NoneBehind
<1> DEFINE n == f.to
           air == frames \ {f}
<1>1. n \in Node /\ f.pkt \in Packet /\ f.pkt.dst \in Node \ {n}
  BY DEF IInv, AirOK, FrameOK, DataFrame, Relay, EndsHere, Packet
<1>2. RecvData(n, table[n], f.pkt, air) /\ UNCHANGED updates
  BY DEF Relay
<1> HIDE DEF n, air
<1>3. /\ TableOK /\ RowOK(n, table[n], Own) /\ TimedRow(n, table[n])
      /\ \A u \in updates : UpdateOK(u)
  BY <1>1 DEF IInv, TableOK, AirOK
<1>4. InOrder(n, table[n])
  BY <1>1, <1>3, OwnRowInOrder
<1>5. QED
  BY <1>1, <1>2, <1>3, <1>4, RecvDataOrdered

LEMMA LostLinkOrdered ==
    ASSUME IInv, HopOrder, NEW f \in frames, LostLink(f)
    PROVE  HopOrder' /\ NoneBehind
<1> DEFINE n == f.from
           e == table[n][f.to]
           air == frames \ {f}
           t == IF e.timeout \/ e.metric # BIG THEN TimedOut(table[n], f.to) ELSE table[n]
<1>1. /\ n \in Node /\ f.to \in Node \ {n} /\ f.pkt \in Packet
      /\ f.pkt.dst \in Node \ {n}
  BY DEF IInv, AirOK, FrameOK, DataFrame, LostLink, Packet
<1>2. /\ TableOK /\ RowOK(n, table[n], Own) /\ TimedRow(n, table[n])
      /\ (\A u \in updates : UpdateOK(u)) /\ Own \in [Node -> Nat]
  BY <1>1, OwnNat DEF IInv, TableOK, AirOK
<1>3. table[n] \in Row /\ InOrder(n, table[n])
  BY <1>1, <1>2, OwnRowInOrder
<1>4. CASE UseMac /\ e # None
  <2>1. RecvData(n, t, f.pkt, air) /\ UNCHANGED updates
    BY <1>4 DEF LostLink
  <2>2. RowOK(n, t, Own) /\ TimedRow(n, t) /\ InOrder(n, t)
    <3>1. CASE e.timeout \/ e.metric # BIG
      BY <1>1, <1>2, <1>3, <1>4, <3>1, TimedOutOK, TimedOutInOrder
    <3>2. CASE ~(e.timeout \/ e.metric # BIG)
      BY <1>2, <1>3, <3>2
    <3>3. QED
      BY <3>1, <3>2
  <2> HIDE DEF n, air, t, e
  <2>3. QED
    BY <1>1, <1>2, <2>1, <2>2, RecvDataOrdered
<1>5. CASE ~(UseMac /\ e # None)
  <2>1. UNCHANGED <<table, updates>>
    BY <1>5 DEF LostLink
  <2>2. QED
    BY <1>2, <2>1, IdleStep
<1>6. QED
  BY <1>4, <1>5

LEMMA NextOrdered ==
    ASSUME IInv, HopOrder, [Next]_vars, \A u \in updates : ~StaleWriteBack(u)
    PROVE  HopOrder' /\ NoneBehind
<1>1. TableOK /\ SeqnoOK /\ \A u \in updates : UpdateOK(u)
  BY DEF IInv, AirOK
<1>2. ASSUME NEW n \in Node, NodeStep(n) PROVE HopOrder' /\ NoneBehind
  <2>1. CASE Periodic(n)
    <3>1. table[n] \in Row /\ InOrder(n, table[n])
      BY <1>1, OwnRowInOrder
    <3>2. QED
      BY <1>1, <2>1, <3>1, SendUpdateOrdered DEF Periodic
  <2>2. CASE FireOrphan(n) \/ PeriodElapses(n) \/ Egoista(n)
    <3>1. UNCHANGED <<table, updates>>
      BY <2>2 DEF FireOrphan, PeriodElapses, Egoista, routing
    <3>2. QED
      BY <1>1, <3>1, IdleStep
  <2>3. ASSUME NEW d \in Node, FireTrigger(n, d) PROVE HopOrder' /\ NoneBehind
    BY <2>3, TriggerOrdered
  <2>4. ASSUME NEW d \in Node, DeferTrigger(n, d) PROVE HopOrder' /\ NoneBehind
    BY <2>4, DeferOrdered
  <2>5. ASSUME NEW d \in Node, Settle(n, d) PROVE HopOrder' /\ NoneBehind
    <3> DEFINE t2 == [table[n] EXCEPT ![d].ok = "now"]
    <3>1. Preserves(table[n], t2)
      BY <1>1, <2>5, SettleRow DEF Settle, TableOK
    <3>2. table' = [table EXCEPT ![n] = t2] /\ UNCHANGED updates
      BY <2>5 DEF Settle
    <3> HIDE DEF t2
    <3>3. QED
      BY <3>1, <3>2, FlagsOrdered
  <2>6. ASSUME NEW d \in Node, NeighbourTimeout(n, d) PROVE HopOrder' /\ NoneBehind
    BY <2>6, TimeoutOrdered
  <2>7. QED
    BY <1>2, <2>1, <2>2, <2>3, <2>4, <2>5, <2>6 DEF NodeStep
<1>3. ASSUME NEW u \in updates, ProcessUpdate(u) \/ ProcessUpdateLoops(u)
      PROVE  HopOrder' /\ NoneBehind
  <2>1. CASE ProcessUpdate(u)
    BY <2>1, UpdateOrdered
  <2>2. CASE ProcessUpdateLoops(u)
    BY <1>1, <2>2, IdleStep DEF ProcessUpdateLoops, routing
  <2>3. QED
    BY <1>3, <2>1, <2>2
<1>4. ASSUME NEW flow \in Flows, Originate(flow) \/ OriginateBroadcast(flow)
      PROVE  HopOrder' /\ NoneBehind
  <2>1. CASE Originate(flow)
    BY <2>1, OriginateOrdered
  <2>2. CASE OriginateBroadcast(flow)
    BY <1>1, <2>2, IdleStep DEF OriginateBroadcast, routing
  <2>3. QED
    BY <1>4, <2>1, <2>2
<1>5. ASSUME NEW f \in frames, Arrive(f) \/ Relay(f) \/ LostLink(f)
      PROVE  HopOrder' /\ NoneBehind
  <2>1. CASE Arrive(f)
    BY <1>1, <2>1, IdleStep DEF Arrive, routing
  <2>2. CASE Relay(f)
    BY <2>2, RelayOrdered
  <2>3. CASE LostLink(f)
    BY <2>3, LostLinkOrdered
  <2>4. QED
    BY <1>5, <2>1, <2>2, <2>3
<1>6. CASE UNCHANGED vars
  BY <1>1, <1>6, IdleStep DEF vars
<1>7. QED
  BY <1>2, <1>3, <1>4, <1>5, <1>6 DEF Next

LEMMA InitOrdered == Init => HopOrder
<1> SUFFICES ASSUME Init PROVE HopOrder
  OBVIOUS
<1>1. \A n \in Node : \A d \in Node \ {n} : table[n][d] = None
  BY DEF Init
<1>2. updates = {}
  BY DEF Init
<1>3. QED
  BY <1>1, <1>2 DEF HopOrder, HasRoute

\* As long as no rejected line is written back over an entry, the next hop of a
\* route knows the destination by a newer number or a shorter route, and no update
\* in the air promises more than its sender keeps: whatever data is sent, whatever
\* is lost, and with callbacks from the MAC.
THEOREM OrderAlongHops == Spec /\ NoStaleWriteBack => []HopOrder
<1>1. IInv /\ HopOrder /\ [Next]_vars /\ [\A u \in updates : ~StaleWriteBack(u)]_vars => HopOrder'
  <2> SUFFICES ASSUME IInv, HopOrder, [Next]_vars, [\A u \in updates : ~StaleWriteBack(u)]_vars
               PROVE  HopOrder'
    OBVIOUS
  <2>1. CASE \A u \in updates : ~StaleWriteBack(u)
    BY <2>1, NextOrdered
  <2>2. CASE UNCHANGED vars
    BY <2>2, IdleStep DEF vars, IInv
  <2>3. QED
    BY <2>1, <2>2
<1>2. QED
  BY <1>1, InitOrdered, Invariance, PTL DEF Spec, NoStaleWriteBack

\* As long as no rejected line is written back, no number and no route a node has
\* learned of is forgotten for an older one.
THEOREM NumbersNeverFall == Spec /\ NoStaleWriteBack => NeverOlder
<1>1. /\ IInv /\ IInv' /\ HopOrder /\ [Next]_vars
      /\ [\A u \in updates : ~StaleWriteBack(u)]_vars
      => [\A n, d \in Node : table[n][d] # None =>
              table'[n][d] # None /\ table'[n][d].seqnum >= table[n][d].seqnum]_vars
  <2> SUFFICES ASSUME IInv, IInv', HopOrder, [Next]_vars, \A u \in updates : ~StaleWriteBack(u),
                      NEW n \in Node, NEW d \in Node, table[n][d] # None
               PROVE  table'[n][d] # None /\ table'[n][d].seqnum >= table[n][d].seqnum
    BY Zenon
  <2>1. AtLeast(table'[n][d], table[n][d].seqnum, table[n][d].metric)
    BY NextOrdered DEF NoneBehind, NotBehind
  <2>2. table[n] \in Row /\ table'[n] \in Row /\ table'[n][d] # None
    BY <2>1 DEF IInv, TableOK, AtLeast
  <2>3. table[n][d].seqnum \in Nat /\ table'[n][d].seqnum \in Nat
    BY <2>2, EntryNat
  <2>4. QED
    BY <2>1, <2>2, <2>3 DEF AtLeast
<1>2. QED
  BY <1>1, Invariance, OrderAlongHops, PTL DEF Spec, NoStaleWriteBack, NeverOlder

LEMMA LeastNat ==
    ASSUME NEW T, T \subseteq Nat, T # {}
    PROVE  \E x \in T : \A y \in T : x <= y
<1> DEFINE R == OpToRel(<, Nat)
<1>1. IsWellFoundedOn(R, Nat)
  BY NatLessThanWellFounded
<1>2. \A x, y \in Nat : x < y => <<x, y>> \in R
  BY DEF OpToRel
<1> HIDE DEF R
<1>3. PICK x \in T : \A y \in T : ~ (<<y, x>> \in R)
  BY <1>1, WFMin
<1>4. ASSUME NEW y \in T PROVE x <= y
  <2>1. x \in Nat /\ y \in Nat
    OBVIOUS
  <2>2. ~ (y < x)
    BY <1>2, <1>3, <2>1
  <2>3. QED
    BY <2>1, <2>2
<1>5. QED
  BY <1>4

\* Among the nodes of a circle, take those that know the newest number (numbers are
\* bounded by the destination's own) and of these one with the smallest metric: its
\* next hop, also on the circle, would have to know better.
LEMMA NoCircle == IInv /\ HopOrder => LoopFree
<1> SUFFICES ASSUME IInv, HopOrder,
                    NEW d \in Node, NEW S \in SUBSET (Node \ {d}), S # {},
                    \A n \in S : HasRoute(table[n], d) /\ table[n][d].hop \in S
             PROVE  FALSE
  BY DEF LoopFree
<1> DEFINE e(n) == table[n][d]
           age(n) == Own[d] - e(n).seqnum
<1>1. TableOK /\ Own[d] \in Nat
  BY OwnNat DEF IInv
<1>2. ASSUME NEW n \in S
      PROVE  /\ e(n).seqnum \in Nat /\ e(n).metric \in Nat /\ age(n) \in Nat
             /\ e(n).hop \in S
             /\ Ahead(e(e(n).hop), e(n).seqnum, e(n).metric)
  <2>1. /\ n \in Node /\ d # n /\ HasRoute(table[n], d) /\ e(n).hop \in S
        /\ table[n] \in Row /\ e(n) # None /\ e(n).metric # BIG
    BY <1>1 DEF TableOK, HasRoute
  <2>2. e(n).seqnum \in Nat /\ e(n).metric \in Nat
    BY <2>1, EntryNat
  <2>3. e(n).seqnum <= Own[d]
    BY <1>1, <2>1 DEF TableOK, RowOK, EntryOK, CoveredBy
  <2>4. HopKnowsBetter(n, d)
    BY <2>1 DEF HopOrder
  <2>5. QED
    BY <1>1, <2>1, <2>2, <2>3, <2>4 DEF HopKnowsBetter, Ahead
<1> HIDE DEF e
<1>3. PICK a \in S : \A n \in S : age(a) <= age(n)
  <2> DEFINE T == {age(n) : n \in S}
  <2>1. T \subseteq Nat /\ T # {}
    BY <1>2
  <2> HIDE DEF T
  <2>2. PICK x \in T : \A y \in T : x <= y
    BY <2>1, LeastNat
  <2>3. QED
    BY <2>2 DEF T
<1>4. \A n \in S : e(n).seqnum <= e(a).seqnum
  <2> TAKE n \in S
  <2>1. age(a) <= age(n) /\ e(a).seqnum \in Nat /\ e(n).seqnum \in Nat
    BY <1>2, <1>3
  <2>2. QED
    BY <1>1, <2>1
<1> DEFINE newest == {n \in S : e(n).seqnum = e(a).seqnum}
<1>5. PICK b \in newest : \A n \in newest : e(b).metric <= e(n).metric
  <2> DEFINE T == {e(n).metric : n \in newest}
  <2>1. T \subseteq Nat /\ T # {}
    BY <1>2
  <2> HIDE DEF T
  <2>2. PICK x \in T : \A y \in T : x <= y
    BY <2>1, LeastNat
  <2>3. QED
    BY <2>2 DEF T
<1> DEFINE c == e(b).hop
<1>6. c \in S /\ Ahead(e(c), e(b).seqnum, e(b).metric)
  BY <1>2
<1>7. /\ e(c).seqnum \in Nat /\ e(c).metric \in Nat /\ e(b).metric \in Nat
      /\ e(b).seqnum = e(a).seqnum /\ e(a).seqnum \in Nat /\ e(c).seqnum <= e(a).seqnum
  BY <1>2, <1>4, <1>6
<1>8. e(c).seqnum = e(a).seqnum /\ e(c).metric < e(b).metric
  BY <1>6, <1>7 DEF Ahead
<1>9. e(b).metric <= e(c).metric
  BY <1>5, <1>6, <1>8
<1>10. QED
  BY <1>7, <1>8, <1>9

\* As long as no rejected line is written back, no set of nodes passes packets for
\* a destination around in a circle, in any network.
THEOREM LoopFreedom == Spec /\ NoStaleWriteBack => []LoopFree
BY Invariance, OrderAlongHops, NoCircle, PTL

-----------------------------------------------------------------------------
(* Without data nothing is queued, and nothing written back *)

Unqueued(t) == \A d \in Node : t[d] # None => t[d].q = <<>>

NothingQueued == frames = {} /\ \A n \in Node : Unqueued(table[n])

LEMMA PreservesUnqueued ==
    ASSUME NEW t, Unqueued(t), NEW t2, Preserves(t, t2)
    PROVE  Unqueued(t2)
BY DEF Unqueued, Preserves

LEMMA AfterUpdateUnqueued ==
    ASSUME IInv, NEW u \in updates, Unqueued(table[u.to])
    PROVE  Unqueued(AfterUpdate(u)) /\ \A d \in Lines(u) : ~Flushes(Heard(u, d))
<1> DEFINE n == u.to
           s == u.from
           t == table[u.to]
           mid == [d \in Node |-> IF d \in Lines(u) THEN Learned(t[d], Heard(u, d)) ELSE t[d]]
           x == IF mid[s] = None
                THEN [Fresh(s, 1, 0) EXCEPT !.ok = "never", !.timeout = TRUE]
                ELSE [mid[s] EXCEPT !.timeout = TRUE]
<1>1. /\ n \in Node /\ s \in Node /\ t \in Row
      /\ \A d \in Lines(u) : d \in Node \ {n} /\ u.routes[d] \in Advert
  BY DEF IInv, TableOK, AirOK, UpdateOK, Update, Lines
<1>2. ASSUME NEW d \in Lines(u)
      PROVE  ~Flushes(Heard(u, d)) /\ mid[d] \in Entry /\ mid[d].q = <<>>
  <2> DEFINE e == t[d]
             line == u.routes[d]
             r == Candidate(e, d, s, line)
  <2>1. d \in Node /\ line \in Advert /\ e \in Entry \cup {None} /\ (e # None => e.q = <<>>)
    BY <1>1 DEF Row, Unqueued
  <2>2. r = Heard(u, d) /\ mid[d] = Learned(e, r)
    BY <2>1 DEF Heard
  <2> HIDE DEF e, line, mid
  <2>3. /\ r \in Entry /\ r.q = <<>>
        /\ e # None => r.q = e.q /\ r.timeout = e.timeout
    <3>1. /\ r \in Entry
          /\ e # None => r.q = e.q /\ r.lastMetric = e.lastMetric /\ r.timeout = e.timeout
          /\ e = None => r.q = <<>>
      BY <1>1, <2>1, CandidateType
    <3>2. QED
      BY <2>1, <3>1
  <2> HIDE DEF r
  <2>4. LET y == Learned(e, r)
        IN  y \in Entry /\ IF Flushes(r) THEN y.q = <<>> ELSE y.q = r.q
    BY <2>1, <2>3, LearnedType
  <2>5. QED
    BY <2>2, <2>3, <2>4 DEF Flushes
<1>3. ASSUME NEW d \in Node, mid[d] # None
      PROVE  mid[d] \in Entry /\ mid[d].q = <<>>
  <2>1. CASE d \in Lines(u)
    BY <1>2, <2>1
  <2>2. CASE d \notin Lines(u)
    BY <1>1, <1>3, <2>2 DEF Row, Unqueued
  <2>3. QED
    BY <2>1, <2>2
<1>4. AfterUpdate(u) = [mid EXCEPT ![s] = x]
  BY Zenon DEF AfterUpdate, WithTimeout
<1>5. \A d \in Node \ {s} : AfterUpdate(u)[d] = mid[d]
  BY <1>4
<1>6. AfterUpdate(u)[s] = x
  BY <1>1, <1>4
<1> HIDE DEF mid
<1>7. x.q = <<>>
  <2>1. CASE mid[s] = None
    <3> DEFINE f == Fresh(s, 1, 0)
    <3>1. f \in Entry /\ f.q = <<>>
      <4>1. 1 \in Metric
        BY ConstantsAssumption DEF Metric
      <4>2. QED
        BY <1>1, <4>1, FreshType
    <3>2. x = [f EXCEPT !.ok = "never", !.timeout = TRUE]
      BY <2>1
    <3> HIDE DEF f, x
    <3>3. QED
      BY <3>1, <3>2, SetOkTimeoutType
  <2>2. CASE mid[s] # None
    <3>1. mid[s] \in Entry /\ mid[s].q = <<>> /\ x = [mid[s] EXCEPT !.timeout = TRUE]
      BY <1>1, <1>3, <2>2
    <3> HIDE DEF x
    <3>2. QED
      BY <3>1, SetTimeoutType
  <2>3. QED
    BY <2>1, <2>2
<1> HIDE DEF x
<1>8. QED
  BY <1>2, <1>3, <1>5, <1>6, <1>7 DEF Unqueued

\* A step that replaces the row of n by one without queues.
LEMMA UnqueuedStep ==
    ASSUME NothingQueued, TableOK, NEW n \in Node, NEW t2, Unqueued(t2),
           table' = [table EXCEPT ![n] = t2], frames' = {}
    PROVE  NothingQueued'
<1>1. table'[n] = t2 /\ \A m \in Node \ {n} : table'[m] = table[m]
  BY DEF TableOK
<1>2. \A m \in Node : Unqueued(table'[m])
  BY <1>1 DEF NothingQueued
<1>3. QED
  BY <1>2 DEF NothingQueued, Unqueued

LEMMA SendUpdateUnqueued ==
    ASSUME IInv, NothingQueued, NEW n \in Node, NEW t \in Row, Unqueued(t),
           NEW periodic \in BOOLEAN, SendUpdate(n, t, periodic), UNCHANGED frames
    PROVE  NothingQueued'
<1> DEFINE full == IsFull(t, periodic)
           base == IF full THEN WithOwnRoute(t, n) ELSE t
           t2   == Advertised(base, full)
<1>1. TableOK /\ frames' = {} /\ full \in BOOLEAN
  BY DEF IInv, NothingQueued, IsFull
<1>2. base \in Row /\ Unqueued(base)
  <2>1. CASE full
    <3> DEFINE s == seqno[n] + 2
               f == Fresh(n, 0, s)
               x == [f EXCEPT !.advSeqnum = TRUE]
    <3>1. s \in Nat /\ 0 \in Metric
      BY ConstantsAssumption DEF IInv, SeqnoOK, Metric
    <3>2. base = [t EXCEPT ![n] = x]
      BY <2>1 DEF WithOwnRoute
    <3> HIDE DEF s
    <3>3. f \in Entry /\ f.q = <<>>
      BY <3>1, FreshType
    <3> HIDE DEF f
    <3>4. x \in Entry /\ x.q = <<>>
      BY <3>3, SetAdvSeqnumType
    <3> HIDE DEF x, base
    <3>5. QED
      BY <3>2, <3>4 DEF Unqueued, Row
  <2>2. CASE ~full
    BY <2>2
  <2>3. QED
    BY <2>1, <2>2
<1>3. CASE full \/ Changed(t) # {}
  <2>1. table' = [table EXCEPT ![n] = t2]
    BY <1>3 DEF SendUpdate
  <2> HIDE DEF base, full
  <2>2. Preserves(base, t2)
    BY <1>1, <1>2, AdvertisedRow
  <2> HIDE DEF t2
  <2>3. QED
    BY <1>1, <1>2, <2>1, <2>2, PreservesUnqueued, UnqueuedStep
<1>4. CASE ~(full \/ Changed(t) # {})
  <2>1. table' = [table EXCEPT ![n] = t]
    BY <1>4 DEF SendUpdate
  <2>2. QED
    BY <1>1, <2>1, UnqueuedStep
<1>5. QED
  BY <1>3, <1>4

LEMMA NextUnqueued ==
    ASSUME Flows = {}, IInv, NothingQueued, [Next]_vars
    PROVE  NothingQueued' /\ \A u \in updates : ~StaleWriteBack(u)
<1>1. ASSUME NEW n \in Node
      PROVE  table[n] \in Row /\ Unqueued(table[n])
  BY DEF IInv, TableOK, NothingQueued
<1>2. TableOK /\ frames = {}
  BY DEF IInv, NothingQueued
<1>3. ASSUME NEW u \in updates
      PROVE  ~StaleWriteBack(u) /\ Unqueued(AfterUpdate(u)) /\ u.to \in Node
  <2>1. u.to \in Node
    BY DEF IInv, AirOK, UpdateOK, Update
  <2>2. Unqueued(AfterUpdate(u)) /\ \A d \in Lines(u) : ~Flushes(Heard(u, d))
    BY <1>1, <2>1, AfterUpdateUnqueued
  <2>3. QED
    BY <2>1, <2>2 DEF StaleWriteBack
<1>4. ASSUME UNCHANGED <<table, frames>> PROVE NothingQueued'
  BY <1>4 DEF NothingQueued, Unqueued
<1>5. ASSUME NEW n \in Node, NodeStep(n) PROVE NothingQueued'
  <2>1. CASE Periodic(n)
    BY <1>1, <2>1, SendUpdateUnqueued DEF Periodic
  <2>2. CASE FireOrphan(n) \/ PeriodElapses(n) \/ Egoista(n)
    BY <1>4, <2>2 DEF FireOrphan, PeriodElapses, Egoista, routing
  <2>3. ASSUME NEW d \in Node, FireTrigger(n, d) PROVE NothingQueued'
    <3> DEFINE t == [table[n] EXCEPT ![d].trigger = "none"]
    <3>1. SendUpdate(n, t, FALSE) /\ UNCHANGED frames
      BY <2>3 DEF FireTrigger
    <3>2. Preserves(table[n], t)
      BY <1>1, <2>3, SetTriggerRow DEF FireTrigger, Fires
    <3> HIDE DEF t
    <3>3. t \in Row /\ Unqueued(t)
      BY <1>1, <3>2, PreservesUnqueued DEF Preserves
    <3>4. QED
      BY <3>1, <3>3, SendUpdateUnqueued
  <2>4. ASSUME NEW d \in Node, DeferTrigger(n, d) PROVE NothingQueued'
    <3>1. PICK early \in SUBSET {x \in Known(table[n]) \ {d} :
                                     table[n][x].trigger \in {"settling", "deferred"}} :
              LET due == {x \in Known(table[n]) \ {d} : table[n][x].trigger = "due"}
              IN  table' = [table EXCEPT ![n] = PutOff(@, d, early \cup due)]
      BY <2>4 DEF DeferTrigger
    <3> DEFINE gone == early \cup {x \in Known(table[n]) \ {d} : table[n][x].trigger = "due"}
               t2   == PutOff(table[n], d, gone)
    <3>2. gone \in SUBSET Known(table[n]) /\ table' = [table EXCEPT ![n] = t2]
      BY <3>1
    <3> HIDE DEF gone
    <3>3. Preserves(table[n], t2)
      BY <1>1, <2>4, <3>2, PutOffRow DEF DeferTrigger, Fires
    <3> HIDE DEF t2
    <3>4. frames' = {}
      BY <1>2, <2>4 DEF DeferTrigger
    <3>5. QED
      BY <1>1, <1>2, <3>2, <3>3, <3>4, PreservesUnqueued, UnqueuedStep
  <2>5. ASSUME NEW d \in Node, Settle(n, d) PROVE NothingQueued'
    <3> DEFINE t2 == [table[n] EXCEPT ![d].ok = "now"]
    <3>1. Preserves(table[n], t2)
      BY <1>1, <2>5, SettleRow DEF Settle
    <3>2. table' = [table EXCEPT ![n] = t2] /\ frames' = {}
      BY <1>2, <2>5 DEF Settle
    <3> HIDE DEF t2
    <3>3. QED
      BY <1>1, <1>2, <3>1, <3>2, PreservesUnqueued, UnqueuedStep
  <2>6. ASSUME NEW h \in Node, NeighbourTimeout(n, h) PROVE NothingQueued'
    <3> DEFINE t2 == TimedOut(table[n], h)
    <3>1. TimesOut(table[n], h, t2)
      BY <1>1, <2>6, TimedOutType DEF NeighbourTimeout
    <3>2. table' = [table EXCEPT ![n] = t2] /\ frames' = {}
      BY <1>2, <2>6 DEF NeighbourTimeout
    <3> HIDE DEF t2
    <3>3. Unqueued(t2)
      BY <1>1, <3>1 DEF Unqueued, TimesOut
    <3>4. QED
      BY <1>2, <3>2, <3>3, UnqueuedStep
  <2>7. QED
    BY <1>5, <2>1, <2>2, <2>3, <2>4, <2>5, <2>6 DEF NodeStep
<1>6. ASSUME NEW u \in updates, ProcessUpdate(u) \/ ProcessUpdateLoops(u)
      PROVE  NothingQueued'
  <2>1. CASE ProcessUpdate(u)
    <3> DEFINE t2 == AfterUpdate(u)
    <3>1. table' = [table EXCEPT ![u.to] = t2]
      BY <2>1 DEF ProcessUpdate
    <3>2. frames' = {}
      <4>1. \A d \in Lines(u) : ~Flushes(Heard(u, d))
        BY <1>1, <1>3, AfterUpdateUnqueued
      <4>2. Drained(u) = {}
        BY <4>1 DEF Drained
      <4>3. QED
        BY <1>2, <2>1, <4>2 DEF ProcessUpdate
    <3>3. Unqueued(t2)
      BY <1>3
    <3> HIDE DEF t2
    <3>4. QED
      BY <1>2, <1>3, <3>1, <3>2, <3>3, UnqueuedStep
  <2>2. CASE ProcessUpdateLoops(u)
    BY <1>4, <2>2 DEF ProcessUpdateLoops, routing
  <2>3. QED
    BY <1>6, <2>1, <2>2
<1>7. ASSUME UNCHANGED vars PROVE NothingQueued'
  BY <1>4, <1>7 DEF vars
<1>8. NothingQueued'
  BY <1>2, <1>5, <1>6, <1>7 DEF Next
<1>9. QED
  BY <1>3, <1>8

LEMMA InitUnqueued == Init => NothingQueued
<1> SUFFICES ASSUME Init, NEW n \in Node, NEW d \in Node, table[n][d] # None
             PROVE  frames = {} /\ table[n][d].q = <<>>
  BY DEF NothingQueued, Unqueued, Init
<1>1. table[n][d] = [Fresh(n, 0, 0) EXCEPT !.advSeqnum = TRUE, !.advMetric = TRUE]
  BY DEF Init
<1>2. Fresh(n, 0, 0).q = <<>>
  BY DEF Fresh
<1>3. QED
  BY <1>1, <1>2 DEF Fresh, Init

\* Where no application sends data, no hypothesis is needed: every behaviour keeps
\* the order along next hops, is free of loops and forgets nothing.
THEOREM RoutingAlone ==
    ASSUME Flows = {}
    PROVE  Spec => [](HopOrder /\ LoopFree) /\ NeverOlder
<1>1. IInv /\ NothingQueued /\ [Next]_vars => NothingQueued' /\ \A u \in updates : ~StaleWriteBack(u)
  BY NextUnqueued
<1>2. Spec => NoStaleWriteBack
  BY <1>1, InitUnqueued, Invariance, PTL DEF Spec, NoStaleWriteBack
<1>3. QED
  BY <1>2, OrderAlongHops, NumbersNeverFall, LoopFreedom, PTL
=============================================================================
