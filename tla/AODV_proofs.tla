----------------------------- MODULE AODV_proofs -----------------------------
(***************************************************************************)
(* Proofs about AODV, for every finite set of nodes and all links, flows,  *)
(* selfish nodes and other constants, with local repair and without it.    *)
(*                                                                         *)
(* None of the invariants is inductive alone: the number a route carries   *)
(* depends on the numbers of the requests, replies and errors in the air,  *)
(* a packet on the air may come back into the queue of its sender (local   *)
(* repair), and a route whose hop count is INFINITY2 is up without being   *)
(* usable.  IInv joins them.                                               *)
(***************************************************************************)
EXTENDS AODV, FiniteSetTheorems, WellFoundedInduction, TLAPS

Row == Entry \cup {None}

\* What a table may say of a destination whose own number is s.
RowOK(e, s) ==
    /\ e \in Row
    /\ e # None => IF Up(e) \/ Usable(e) THEN e.seqno % 2 = 0 /\ e.seqno <= s
                   ELSE e.seqno <= s + 1

\* A row x takes the place of e without knowing less.
NotOlder(e, x) == e # None => x # None /\ x.seqno >= e.seqno

\* Two rows that differ at most in their soft state and precursors.
Alike(e, x) ==
    /\ e = None <=> x = None
    /\ e # None => /\ x.seqno = e.seqno /\ x.hops = e.hops
                   /\ x.nexthop = e.nexthop /\ x.flags = e.flags

NumbersOK == seqno \in [Node -> Nat] /\ \A n \in Node : seqno[n] % 2 = 0

RowsOK ==
    /\ table \in [Node -> [Node -> Row]]
    /\ \A n, d \in Node : RowOK(table[n][d], seqno[d])

\* The packets p may wait at a node with the table t.
MayWait(p, t) == p \in Packet /\ t[p.dst] # None /\ ~Up(t[p.dst])

QueuesOK ==
    /\ queue \in [Node -> SUBSET Packet]
    /\ \A n \in Node : \A p \in queue[n] : MayWait(p, table[n])

FrameOK(f, t) == f \in DataFrame /\ t[f.from][f.pkt.dst] # None

FramesOK == \A f \in frames : FrameOK(f, table)

RequestOK(r, sq) ==
    /\ r \in Request
    /\ r.srcSeqno % 2 = 0 /\ r.srcSeqno <= sq[r.src] /\ r.dstSeqno <= sq[r.dst] + 1

ReplyOK(r, sq) ==
    r \in Reply /\ r.dstSeqno % 2 = 0 /\ r.dstSeqno <= sq[r.dst]

ErrorOK(r, sq) ==
    /\ r \in Error
    /\ \A d \in Node : r.unreachable[d] # None => r.unreachable[d] <= sq[d] + 1

RequestsOK == \A r \in requests : RequestOK(r, seqno)
RepliesOK  == \A r \in replies : ReplyOK(r, seqno)
ErrorsOK   == \A r \in errors : ErrorOK(r, seqno)

RestOK ==
    /\ seen \in [Node -> SUBSET (Node \X Nat)]
    /\ repairs \in [Node -> [Node -> Nat]]
    /\ selfish \in [Node -> BOOLEAN]
    /\ sent \in Nat /\ failures \in Nat
    /\ fault \in {"none", "handle_link_failure", "recvReply", "recvError"}

\* The inductive invariant.
IInv == /\ NumbersOK /\ RowsOK /\ QueuesOK /\ FramesOK
        /\ RequestsOK /\ RepliesOK /\ ErrorsOK /\ RestOK

\* What every step does besides: no number falls, no row gets older, and a
\* selfish node takes nothing new.
Grows == \A n \in Node : seqno'[n] >= seqno[n]
Ages  == \A n, d \in Node : NotOlder(table[n][d], table'[n][d])
Keeps ==
    /\ \A f \in frames' \ frames :
          f.pkt.src # f.from /\ selfish[f.from] => f.pkt \in queue[f.from]
    /\ \A n \in Node : \A p \in queue'[n] \ queue[n] :
          p.src # n /\ selfish[n] => \E f \in frames : f.from = n /\ f.pkt = p

StepOK == IInv' /\ Ages /\ Keeps

-----------------------------------------------------------------------------
LEMMA InvImplies == IInv => TypeOK /\ SeqnoProvenance /\ NoStrandedPacket
<1> SUFFICES ASSUME IInv PROVE TypeOK /\ SeqnoProvenance /\ NoStrandedPacket
  OBVIOUS
<1> USE DEF IInv
<1>1. TypeOK
  BY DEF TypeOK, NumbersOK, RowsOK, Row, QueuesOK, MayWait, FramesOK, FrameOK,
         RequestsOK, RequestOK, RepliesOK, ReplyOK, ErrorsOK, ErrorOK, RestOK
<1>2. SeqnoProvenance
  <2>1. \A n, d \in Node : table[n][d] # None =>
            IF Usable(table[n][d]) THEN Given(table[n][d].seqno, d)
            ELSE Heard(table[n][d].seqno, d)
    <3> TAKE n, d \in Node
    <3> HAVE table[n][d] # None
    <3>1. /\ RowOK(table[n][d], seqno[d]) /\ table[n][d] \in Entry /\ seqno[d] \in Nat
      BY DEF RowsOK, Row, NumbersOK
    <3>2. table[n][d].seqno \in Nat
      BY <3>1 DEF Entry
    <3>3. QED
      BY <3>1, <3>2 DEF RowOK, Given, Heard
  <2>2. \A r \in requests : Given(r.srcSeqno, r.src) /\ Heard(r.dstSeqno, r.dst)
    BY DEF RequestsOK, RequestOK, Given, Heard
  <2>3. \A r \in replies : Given(r.dstSeqno, r.dst)
    BY DEF RepliesOK, ReplyOK, Given
  <2>4. \A r \in errors, d \in Node :
            r.unreachable[d] # None => Heard(r.unreachable[d], d)
    BY DEF ErrorsOK, ErrorOK, Heard
  <2>5. QED
    BY <2>1, <2>2, <2>3, <2>4 DEF SeqnoProvenance, NumbersOK
<1>3. NoStrandedPacket
  BY DEF NoStrandedPacket, QueuesOK, MayWait
<1>4. QED
  BY <1>1, <1>2, <1>3

LEMMA InitOK == Init => IInv
<1> SUFFICES ASSUME Init PROVE IInv
  OBVIOUS
<1>1. NumbersOK /\ RowsOK
  BY DEF Init, NumbersOK, RowsOK, RowOK, Row
<1>2. QueuesOK /\ FramesOK /\ RequestsOK /\ RepliesOK /\ ErrorsOK
  BY DEF Init, QueuesOK, FramesOK, RequestsOK, RepliesOK, ErrorsOK
<1>3. RestOK
  BY DEF Init, RestOK
<1>4. QED
  BY <1>1, <1>2, <1>3 DEF IInv

-----------------------------------------------------------------------------
(* The operators on a row *)

LEMMA RowType ==
    ASSUME NEW e, NEW s \in Nat, RowOK(e, s), e # None
    PROVE  /\ e \in Entry /\ e.seqno \in Nat /\ e.hops \in Nat /\ e.nexthop \in Node
           /\ e.seqno <= s + 1
           /\ Up(e) \/ Usable(e) => e.seqno % 2 = 0 /\ e.seqno <= s
BY DEF RowOK, Row, Entry

LEMMA Retries == 0 \in 0..(RREQ_RETRIES + 1) /\ INFINITY2 \in Nat /\ Zero \in Node
BY ConstantsAssumption

LEMMA NewEntryRow ==
    ASSUME NEW s \in Nat
    PROVE  /\ NewEntry \in Entry /\ NewEntry # None /\ NewEntry.seqno = 0
           /\ RowOK(NewEntry, s) /\ ~Up(NewEntry) /\ NewEntry.flags = "RTF_DOWN"
           /\ ~Usable(NewEntry)
<1>1. /\ NewEntry \in Entry /\ NewEntry.seqno = 0 /\ NewEntry.flags = "RTF_DOWN"
      /\ NewEntry.hops = INFINITY2
  BY Retries DEF NewEntry, Entry
<1>2. NewEntry # None
  BY <1>1, NoneAssumption
<1>3. QED
  BY <1>1, <1>2 DEF RowOK, Row, Up, Usable

LEMMA RtUpdateRow ==
    ASSUME NEW e \in Entry, NEW s \in Nat, NEW sn \in Nat, NEW hops \in Nat,
           NEW m \in Node, sn % 2 = 0, sn <= s
    PROVE  LET x == RtUpdate(e, sn, hops, m)
           IN  /\ x \in Entry /\ RowOK(x, s) /\ x # None
               /\ x.seqno = sn /\ x.hops = hops /\ x.nexthop = m /\ Up(x)
               /\ Better(sn, hops, e) => NotOlder(e, x)
<1> DEFINE x == RtUpdate(e, sn, hops, m)
<1>1. /\ x \in Entry /\ x.seqno = sn /\ x.hops = hops /\ x.nexthop = m
      /\ x.flags = "RTF_UP"
  BY Retries DEF RtUpdate, Entry
<1>2. e.seqno \in Nat
  BY DEF Entry
<1> HIDE DEF x
<1>3. x # None
  BY <1>1, NoneAssumption
<1>4. RowOK(x, s)
  BY <1>1 DEF RowOK, Row
<1>5. Better(sn, hops, e) => NotOlder(e, x)
  BY <1>1, <1>2, <1>3 DEF Better, NotOlder
<1>6. QED
  BY <1>1, <1>3, <1>4, <1>5 DEF x, Up

LEMMA RtDownRow ==
    ASSUME NEW e \in Entry, NEW s \in Nat, RowOK(e, s)
    PROVE  LET x == RtDown(e)
           IN  /\ x \in Entry /\ RowOK(x, s) /\ x # None /\ x.seqno = e.seqno
               /\ ~Up(x) /\ NotOlder(e, x)
<1> DEFINE x == RtDown(e)
<1>1. e # None /\ e.seqno \in Nat /\ e.seqno <= s + 1
  BY NoneAssumption, RowType
<1>2. /\ x \in Entry /\ x.seqno = e.seqno /\ x.flags = "RTF_DOWN"
      /\ x = e \/ x.hops = INFINITY2
  BY Retries DEF RtDown, Entry
<1> HIDE DEF x
<1>3. x # None
  BY <1>2, NoneAssumption
<1>4. RowOK(x, s)
  BY <1>1, <1>2, <1>3 DEF RowOK, Row, Up, Usable
<1>5. QED
  BY <1>1, <1>2, <1>3, <1>4 DEF x, Up, NotOlder

LEMMA InvalidatedRow ==
    ASSUME NEW e \in Entry, NEW s \in Nat, RowOK(e, s), Up(e)
    PROVE  LET x == Invalidated(e)
           IN  /\ x \in Entry /\ RowOK(x, s) /\ x # None /\ x.seqno = e.seqno + 1
               /\ ~Up(x) /\ NotOlder(e, x)
<1> DEFINE x == Invalidated(e)
<1>1. /\ e # None /\ e.seqno \in Nat /\ e.seqno <= s /\ e.flags = "RTF_UP"
  BY NoneAssumption, RowType DEF Up
<1>2. /\ x \in Entry /\ x.seqno = e.seqno + 1 /\ x.flags = "RTF_DOWN"
      /\ x.hops = INFINITY2
  <2> DEFINE y == [e EXCEPT !.seqno = e.seqno + 1]
  <2>1. y \in Entry /\ y.seqno = e.seqno + 1 /\ y.flags = "RTF_UP"
    BY <1>1 DEF Entry
  <2>2. Invalidated(e) = [y EXCEPT !.hops = INFINITY2, !.flags = "RTF_DOWN", !.nexthop = Zero]
    BY <2>1 DEF Invalidated, RtDown
  <2> HIDE DEF y
  <2>3. QED
    BY <2>1, <2>2, Retries DEF Entry
<1> HIDE DEF x
<1>3. x # None
  BY <1>2, NoneAssumption
<1>4. RowOK(x, s)
  BY <1>1, <1>2, <1>3 DEF RowOK, Row, Up, Usable
<1>5. QED
  BY <1>1, <1>2, <1>3, <1>4 DEF x, Up, NotOlder

\* Operators that touch only the soft state or the precursors of a route.
LEMMA SoftRow ==
    ASSUME NEW e \in Entry, NEW x \in Entry, NEW s \in Nat, RowOK(e, s),
           x.seqno = e.seqno, x.hops = e.hops, x.flags = e.flags
    PROVE  /\ RowOK(x, s) /\ x # None /\ NotOlder(e, x)
           /\ Up(x) <=> Up(e)
BY NoneAssumption DEF RowOK, Row, Up, Usable, NotOlder, Entry

LEMMA SearchingRow ==
    ASSUME NEW e \in Entry, NEW wide \in BOOLEAN
    PROVE  /\ MayFlood(e) =>
                LET x == Searching(e, wide)
                IN  /\ x \in Entry /\ x.seqno = e.seqno /\ x.hops = e.hops
                    /\ x.nexthop = e.nexthop /\ x.flags = e.flags
           /\ LET x == GivingUp(e)
              IN  /\ x \in Entry /\ x.seqno = e.seqno /\ x.hops = e.hops
                  /\ x.nexthop = e.nexthop /\ x.flags = e.flags
<1>1. RREQ_RETRIES \in Nat
  BY ConstantsAssumption
<1>2. ASSUME MayFlood(e)
      PROVE  LET x == Searching(e, wide)
             IN  /\ x \in Entry /\ x.seqno = e.seqno /\ x.hops = e.hops
                 /\ x.nexthop = e.nexthop /\ x.flags = e.flags
  <2> DEFINE c == IF wide THEN e.cnt + 1 ELSE e.cnt
  <2>1. c \in 0..(RREQ_RETRIES + 1)
    BY <1>1, <1>2 DEF MayFlood, Entry
  <2>2. Searching(e, wide) = [e EXCEPT !.waiting = TRUE, !.cnt = c]
    BY DEF Searching
  <2> HIDE DEF c
  <2>3. QED
    BY <2>1, <2>2 DEF Entry
<1>3. LET x == GivingUp(e)
      IN  /\ x \in Entry /\ x.seqno = e.seqno /\ x.hops = e.hops
          /\ x.nexthop = e.nexthop /\ x.flags = e.flags
  BY Retries DEF GivingUp, Entry
<1>4. QED
  BY <1>2, <1>3

LEMMA WithEntryRow ==
    ASSUME NEW t \in [Node -> Row], NEW d \in Node
    PROVE  LET u == WithEntry(t, d)
           IN  /\ u \in [Node -> Row] /\ u[d] \in Entry /\ u[d] # None
               /\ t[d] # None => u[d] = t[d]
               /\ t[d] = None => u[d] = NewEntry
               /\ \A c \in Node \ {d} : u[c] = t[c]
BY NewEntryRow, NoneAssumption, 0 \in Nat DEF WithEntry, Row

LEMMA WithPrecursorRow ==
    ASSUME NEW t \in [Node -> Row], NEW d \in Node, NEW m \in Node, t[d] # None
    PROVE  LET u == WithPrecursor(t, d, m)
           IN  /\ u \in [Node -> Row] /\ u[d] \in Entry
               /\ u[d].seqno = t[d].seqno /\ u[d].hops = t[d].hops
               /\ u[d].nexthop = t[d].nexthop /\ u[d].flags = t[d].flags
               /\ \A c \in Node \ {d} : u[c] = t[c]
<1> DEFINE x == [t[d] EXCEPT !.pre = t[d].pre \cup {m}]
<1>1. t[d] \in Entry
  BY DEF Row
<1>2. /\ x \in Entry /\ x.seqno = t[d].seqno /\ x.hops = t[d].hops
      /\ x.nexthop = t[d].nexthop /\ x.flags = t[d].flags
  BY <1>1 DEF Entry
<1>3. WithPrecursor(t, d, m) = [t EXCEPT ![d] = x]
  BY DEF WithPrecursor
<1> HIDE DEF x
<1>4. QED
  BY <1>2, <1>3 DEF Row

LEMMA WithoutPrecursorRow ==
    ASSUME NEW e \in Row, NEW m \in Node, NEW s \in Nat, RowOK(e, s)
    PROVE  LET x == WithoutPrecursor(e, m)
           IN  RowOK(x, s) /\ NotOlder(e, x) /\ (Up(x) <=> Up(e))
<1>1. CASE e = None
  BY <1>1 DEF WithoutPrecursor, NotOlder
<1>2. CASE e # None
  <2> DEFINE x == [e EXCEPT !.pre = @ \ {m}]
  <2>1. e \in Entry
    BY <1>2 DEF Row
  <2>2. /\ x \in Entry /\ x.seqno = e.seqno /\ x.hops = e.hops /\ x.flags = e.flags
    BY <2>1 DEF Entry
  <2>3. WithoutPrecursor(e, m) = x
    BY <1>2 DEF WithoutPrecursor
  <2> HIDE DEF x
  <2>4. QED
    BY <2>1, <2>2, <2>3, SoftRow
<1>3. QED
  BY <1>1, <1>2

-----------------------------------------------------------------------------
(* What is right stays right while numbers grow *)

LEMMA Carried ==
    ASSUME NumbersOK, seqno' \in [Node -> Nat], Grows
    PROVE  /\ \A d \in Node : \A e : RowOK(e, seqno[d]) => RowOK(e, seqno'[d])
           /\ \A r : RequestOK(r, seqno) => RequestOK(r, seqno')
           /\ \A r : ReplyOK(r, seqno) => ReplyOK(r, seqno')
           /\ \A r : ErrorOK(r, seqno) => ErrorOK(r, seqno')
<1>1. \A d \in Node : seqno[d] \in Nat /\ seqno'[d] \in Nat /\ seqno[d] <= seqno'[d]
  BY DEF NumbersOK, Grows
<1>2. ASSUME NEW d \in Node, NEW e, RowOK(e, seqno[d])
      PROVE  RowOK(e, seqno'[d])
  <2>1. CASE e = None
    BY <2>1, <1>2 DEF RowOK
  <2>2. CASE e # None
    BY <2>2, <1>1, <1>2, RowType DEF RowOK
  <2>3. QED
    BY <2>1, <2>2
<1>3. ASSUME NEW r, RequestOK(r, seqno) PROVE RequestOK(r, seqno')
  <2>1. r.srcSeqno \in Nat /\ r.dstSeqno \in Nat /\ r.src \in Node /\ r.dst \in Node
    BY <1>3 DEF RequestOK, Request
  <2>2. QED
    BY <2>1, <1>1, <1>3 DEF RequestOK
<1>4. ASSUME NEW r, ReplyOK(r, seqno) PROVE ReplyOK(r, seqno')
  <2>1. r.dstSeqno \in Nat /\ r.dst \in Node
    BY <1>4 DEF ReplyOK, Reply
  <2>2. QED
    BY <2>1, <1>1, <1>4 DEF ReplyOK
<1>5. ASSUME NEW r, ErrorOK(r, seqno) PROVE ErrorOK(r, seqno')
  <2>1. \A d \in Node : r.unreachable[d] \in Nat \cup {None}
    BY <1>5 DEF ErrorOK, Error
  <2>2. QED
    BY <2>1, <1>1, <1>5 DEF ErrorOK
<1>6. QED
  BY <1>2, <1>3, <1>4, <1>5

LEMMA SameNumbers ==
    ASSUME NumbersOK, UNCHANGED seqno
    PROVE  NumbersOK' /\ Grows
BY DEF NumbersOK, Grows

\* What a node puts into its own row of the table.
LEMMA TablePut ==
    ASSUME NumbersOK, NumbersOK', Grows, RowsOK,
           NEW n \in Node, NEW u \in [Node -> Row],
           table' = [table EXCEPT ![n] = u],
           \A d \in Node : RowOK(u[d], seqno'[d]) /\ NotOlder(table[n][d], u[d])
    PROVE  /\ RowsOK' /\ Ages /\ table'[n] = u
           /\ \A m \in Node \ {n} : table'[m] = table[m]
<1>1. /\ table \in [Node -> [Node -> Row]]
      /\ table'[n] = u /\ \A m \in Node \ {n} : table'[m] = table[m]
      /\ table' \in [Node -> [Node -> Row]]
  BY DEF RowsOK
<1>2. \A m, d \in Node : RowOK(table[m][d], seqno'[d])
  BY Carried DEF RowsOK, NumbersOK
<1>3. \A m, d \in Node : NotOlder(table[m][d], table[m][d])
  <2> TAKE m, d \in Node
  <2>1. table[m][d] # None => table[m][d].seqno \in Nat
    BY DEF RowsOK, Row, Entry
  <2>2. QED
    BY <2>1 DEF NotOlder
<1>4. RowsOK'
  BY <1>1, <1>2 DEF RowsOK
<1>5. Ages
  BY <1>1, <1>3 DEF Ages
<1>6. QED
  BY <1>1, <1>4, <1>5

LEMMA SameTable ==
    ASSUME NumbersOK, NumbersOK', Grows, RowsOK, UNCHANGED table
    PROVE  RowsOK' /\ Ages
<1>1. \A m, d \in Node : RowOK(table[m][d], seqno'[d])
  BY Carried DEF RowsOK, NumbersOK
<1>2. \A m, d \in Node : NotOlder(table[m][d], table[m][d])
  <2> TAKE m, d \in Node
  <2>1. table[m][d] # None => table[m][d].seqno \in Nat
    BY DEF RowsOK, Row, Entry
  <2>2. QED
    BY <2>1 DEF NotOlder
<1>3. QED
  BY <1>1, <1>2 DEF RowsOK, Ages

\* Messages and frames that were there remain right.
LEMMA AirStaysOK ==
    ASSUME NumbersOK, NumbersOK', Grows, RowsOK, Ages
    PROVE  /\ RequestsOK => \A r \in requests : RequestOK(r, seqno')
           /\ RepliesOK => \A r \in replies : ReplyOK(r, seqno')
           /\ ErrorsOK => \A r \in errors : ErrorOK(r, seqno')
           /\ FramesOK => \A f \in frames : FrameOK(f, table')
<1>1. seqno' \in [Node -> Nat]
  BY DEF NumbersOK
<1>2. ASSUME FramesOK, NEW f \in frames PROVE FrameOK(f, table')
  <2>1. f \in DataFrame /\ table[f.from][f.pkt.dst] # None
    BY <1>2 DEF FramesOK, FrameOK
  <2>2. f.from \in Node /\ f.pkt.dst \in Node
    BY <2>1 DEF DataFrame, Packet
  <2>3. QED
    BY <2>1, <2>2 DEF FrameOK, Ages, NotOlder
<1>3. QED
  BY <1>1, <1>2, Carried DEF RequestsOK, RepliesOK, ErrorsOK

\* A frame sent by n over its table.
LEMMA FrameType ==
    ASSUME NEW n \in Node, NEW t \in [Node -> Row], NEW p \in Packet, t[p.dst] # None
    PROVE  /\ Frame(n, t, p) \in DataFrame
           /\ Frame(n, t, p).from = n /\ Frame(n, t, p).pkt = p
           /\ Frame(n, t, p).to = t[p.dst].nexthop
<1>1. p.dst \in Node
  BY DEF Packet
<1>2. t[p.dst].nexthop \in Node
  BY <1>1 DEF Row, Entry
<1>3. QED
  BY <1>2 DEF Frame, DataFrame

\* What sendRequest leaves behind when it has worked on the table t and the
\* queue q of n.
Searched(n, t, q) ==
    /\ NumbersOK' /\ Grows /\ RequestsOK' /\ RowsOK' /\ Ages
    /\ \A m \in Node \ {n} : table'[m] = table[m] /\ queue'[m] = queue[m]
    /\ \A d \in Node : /\ NotOlder(t[d], table'[n][d]) /\ Alike(t[d], table'[n][d])
                       /\ Up(table'[n][d]) <=> Up(t[d])
    /\ \A r \in requests' \ requests : r.from = n /\ r.src = n /\ r.srcSeqno > 0
    /\ queue' \in [Node -> SUBSET Packet] /\ queue'[n] \subseteq q

LEMMA SendRequestsOK ==
    ASSUME NumbersOK, RequestsOK, RowsOK, queue \in [Node -> SUBSET Packet],
           NEW n \in Node, NEW t \in [Node -> Row], NEW q \in SUBSET Packet,
           NEW D \in SUBSET Node,
           \A d \in Node : RowOK(t[d], seqno[d]) /\ NotOlder(table[n][d], t[d]),
           \A d \in D : t[d] # None,
           SendRequests(n, t, q, D)
    PROVE  Searched(n, t, q)
<1> DEFINE ready  == {d \in D : MaySearch(t[d])}
           search == {d \in ready : MayFlood(t[d])}
           giveUp == ready \ search
           u(wide) == [d \in Node |-> IF d \in search THEN Searching(t[d], d \in wide)
                                      ELSE IF d \in giveUp THEN GivingUp(t[d])
                                      ELSE t[d]]
           asked(heard, turn) ==
               UNION {{[from |-> n, to |-> m, src |-> n,
                        srcSeqno |-> seqno[n] + 2 * turn[d], dst |-> d,
                        dstSeqno |-> t[d].seqno, hops |-> 1] : m \in heard[d]} :
                           d \in search}
<1>1. PICK wide \in SUBSET search, heard \in [search -> SUBSET Neighbours(n)],
           turn \in [search -> 1..Cardinality(search)] :
           /\ requests' = requests \cup asked(heard, turn)
           /\ table' = [table EXCEPT ![n] = u(wide)]
  BY DEF SendRequests
<1>2. /\ seqno' = [seqno EXCEPT ![n] = seqno[n] + 2 * Cardinality(search)]
      /\ queue' = [queue EXCEPT ![n] = {p \in q : p.dst \notin giveUp}]
  BY DEF SendRequests
<1>3. search \subseteq Node /\ giveUp \subseteq Node /\ search \subseteq D /\ giveUp \subseteq D
  OBVIOUS
<1>4. Cardinality(search) \in Nat
  BY <1>3, ConstantsAssumption, FS_Subset, FS_CardinalityType
<1>5. NumbersOK' /\ Grows
  <2>1. /\ seqno' \in [Node -> Nat]
        /\ seqno'[n] = seqno[n] + 2 * Cardinality(search)
        /\ \A m \in Node \ {n} : seqno'[m] = seqno[m]
    BY <1>2, <1>4 DEF NumbersOK
  <2>2. seqno[n] \in Nat /\ seqno[n] % 2 = 0
    BY DEF NumbersOK
  <2>3. seqno'[n] % 2 = 0 /\ seqno'[n] >= seqno[n]
    BY <2>1, <2>2, <1>4
  <2>4. QED
    BY <2>1, <2>3 DEF NumbersOK, Grows
<1>6. \A d \in D : t[d] \in Entry
  BY DEF Row
<1>7. \A d \in Node : /\ u(wide)[d] \in Row
                      /\ RowOK(u(wide)[d], seqno[d])
                      /\ NotOlder(t[d], u(wide)[d])
                      /\ Alike(t[d], u(wide)[d])
                      /\ Up(u(wide)[d]) <=> Up(t[d])
  <2> TAKE d \in Node
  <2>0. seqno[d] \in Nat /\ RowOK(t[d], seqno[d])
    BY DEF NumbersOK
  <2>1. CASE d \in search
    <3>1. u(wide)[d] = Searching(t[d], d \in wide) /\ MayFlood(t[d]) /\ t[d] \in Entry
      BY <2>1, <1>3, <1>6
    <3> HIDE DEF u, search, giveUp, ready
    <3>2. (d \in wide) \in BOOLEAN
      OBVIOUS
    <3> DEFINE x == Searching(t[d], d \in wide)
    <3>3. /\ x \in Entry /\ x.seqno = t[d].seqno /\ x.hops = t[d].hops
          /\ x.nexthop = t[d].nexthop /\ x.flags = t[d].flags
      BY <3>1, <3>2, SearchingRow
    <3> HIDE DEF x
    <3>4. RowOK(x, seqno[d]) /\ NotOlder(t[d], x) /\ (Up(x) <=> Up(t[d]))
      BY <2>0, <3>1, <3>3, SoftRow
    <3>5. x # None /\ t[d] # None
      BY <3>1, <3>3, NoneAssumption
    <3>6. QED
      BY <3>1, <3>3, <3>4, <3>5 DEF x, Row, Alike
  <2>2. CASE d \in giveUp
    <3>1. u(wide)[d] = GivingUp(t[d]) /\ t[d] \in Entry
      BY <2>2, <1>3, <1>6
    <3> HIDE DEF u, search, giveUp, ready
    <3> DEFINE x == GivingUp(t[d])
    <3>2. /\ x \in Entry /\ x.seqno = t[d].seqno /\ x.hops = t[d].hops
          /\ x.nexthop = t[d].nexthop /\ x.flags = t[d].flags
      BY <3>1, SearchingRow, TRUE \in BOOLEAN
    <3> HIDE DEF x
    <3>3. RowOK(x, seqno[d]) /\ NotOlder(t[d], x) /\ (Up(x) <=> Up(t[d]))
      BY <2>0, <3>1, <3>2, SoftRow
    <3>4. x # None /\ t[d] # None
      BY <3>1, <3>2, NoneAssumption
    <3>5. QED
      BY <3>1, <3>2, <3>3, <3>4 DEF x, Row, Alike
  <2>3. CASE d \notin search /\ d \notin giveUp
    <3>1. u(wide)[d] = t[d]
      BY <2>3
    <3> HIDE DEF u, search, giveUp, ready
    <3>2. t[d] # None => t[d].seqno \in Nat
      BY DEF Row, Entry
    <3>3. QED
      BY <2>0, <3>1, <3>2 DEF NotOlder, Alike
  <2>4. QED
    BY <2>1, <2>2, <2>3
<1>8. u(wide) \in [Node -> Row]
  BY <1>7
<1>9. \A r \in asked(heard, turn) :
           RequestOK(r, seqno') /\ r.from = n /\ r.src = n /\ r.srcSeqno > 0
  <2> TAKE r \in asked(heard, turn)
  <2>1. PICK d \in search : \E m \in heard[d] :
            r = [from |-> n, to |-> m, src |-> n,
                 srcSeqno |-> seqno[n] + 2 * turn[d], dst |-> d,
                 dstSeqno |-> t[d].seqno, hops |-> 1]
    OBVIOUS
  <2>2. PICK m \in heard[d] :
            r = [from |-> n, to |-> m, src |-> n,
                 srcSeqno |-> seqno[n] + 2 * turn[d], dst |-> d,
                 dstSeqno |-> t[d].seqno, hops |-> 1]
    BY <2>1
  <2>3. m \in Node /\ d \in Node /\ t[d] \in Entry
    BY <1>3, <1>6 DEF Neighbours
  <2>4. turn[d] \in 1..Cardinality(search)
    OBVIOUS
  <2> HIDE DEF asked, search, giveUp, ready, u
  <2>5. turn[d] \in Nat /\ turn[d] > 0 /\ turn[d] <= Cardinality(search)
    BY <2>4, <1>4
  <2>6. seqno[n] \in Nat /\ seqno[n] % 2 = 0 /\ seqno[d] \in Nat /\ seqno'[d] \in Nat
        /\ seqno'[d] >= seqno[d]
        /\ seqno'[n] = seqno[n] + 2 * Cardinality(search)
    BY <2>3, <1>2, <1>5 DEF NumbersOK, Grows
  <2>7. t[d].seqno \in Nat /\ t[d].seqno <= seqno[d] + 1
    BY <2>3, <2>6, RowType, NoneAssumption
  <2>8. /\ seqno[n] + 2 * turn[d] \in Nat /\ (seqno[n] + 2 * turn[d]) % 2 = 0
        /\ seqno[n] + 2 * turn[d] > 0
        /\ seqno[n] + 2 * turn[d] <= seqno'[n]
    BY <2>5, <2>6, <1>4
  <2>9. r \in Request
    BY <2>2, <2>3, <2>7, <2>8 DEF Request
  <2>10. QED
    BY <2>2, <2>6, <2>7, <2>8, <2>9 DEF RequestOK
<1>10. \A p \in q : p \in Packet
  OBVIOUS
<1> HIDE DEF asked, search, giveUp, ready, u
<1>11. \A d \in Node : RowOK(u(wide)[d], seqno'[d]) /\ NotOlder(table[n][d], u(wide)[d])
  <2> TAKE d \in Node
  <2>1. RowOK(u(wide)[d], seqno'[d])
    BY <1>5, <1>7, Carried DEF NumbersOK
  <2>2. NotOlder(table[n][d], t[d]) /\ NotOlder(t[d], u(wide)[d])
    BY <1>7
  <2>3. /\ table[n][d] # None => table[n][d].seqno \in Nat
        /\ t[d] # None => t[d].seqno \in Nat
        /\ u(wide)[d] # None => u(wide)[d].seqno \in Nat
    BY <1>7 DEF RowsOK, Row, Entry
  <2>4. NotOlder(table[n][d], u(wide)[d])
    BY <2>2, <2>3 DEF NotOlder
  <2>5. QED
    BY <2>1, <2>4
<1>12. /\ RowsOK' /\ Ages /\ table'[n] = u(wide)
       /\ \A m \in Node \ {n} : table'[m] = table[m]
  BY <1>1, <1>5, <1>8, <1>11, TablePut
<1>13. RequestsOK'
  <2>1. \A r \in requests : RequestOK(r, seqno')
    BY <1>5, Carried DEF RequestsOK, NumbersOK
  <2>2. QED
    BY <1>1, <1>9, <2>1 DEF RequestsOK
<1>14. /\ queue' \in [Node -> SUBSET Packet] /\ queue'[n] \subseteq q
       /\ \A m \in Node \ {n} : queue'[m] = queue[m]
  BY <1>2
<1>15. QED
  BY <1>1, <1>5, <1>7, <1>9, <1>12, <1>13, <1>14 DEF Searched

-----------------------------------------------------------------------------
(* Queues, flushes and errors *)

LEMMA QueuePut ==
    ASSUME QueuesOK, NEW n \in Node, queue' \in [Node -> SUBSET Packet],
           \A m \in Node \ {n} : table'[m] = table[m] /\ queue'[m] = queue[m],
           \A p \in queue'[n] : MayWait(p, table'[n])
    PROVE  QueuesOK'
BY DEF QueuesOK

LEMMA FlushOK ==
    ASSUME queue \in [Node -> SUBSET Packet], NEW n \in Node,
           NEW t \in [Node -> Row], NEW d \in Node, t[d] # None
    PROVE  \A f \in Flush(n, t, d) :
              /\ f \in DataFrame /\ f.from = n
              /\ f.pkt \in queue[n] /\ f.pkt.dst = d
<1> SUFFICES ASSUME NEW f \in Flush(n, t, d)
             PROVE  /\ f \in DataFrame /\ f.from = n
                    /\ f.pkt \in queue[n] /\ f.pkt.dst = d
  OBVIOUS
<1>1. PICK p \in queue[n] : p.dst = d /\ f = Frame(n, t, p)
  BY DEF Flush, Waiting
<1>2. QED
  BY <1>1, FrameType

LEMMA SendErrorOK ==
    ASSUME \A r \in errors : ErrorOK(r, seqno'),
           NEW n \in Node, NEW lost \in [Node -> Nat \cup {None}],
           \A d \in Node : lost[d] # None => lost[d] <= seqno'[d] + 1,
           SendError(n, lost)
    PROVE  ErrorsOK'
<1>1. CASE errors' = errors
  BY <1>1 DEF ErrorsOK
<1>2. CASE errors' # errors
  <2>1. PICK heard \in SUBSET Neighbours(n) :
            errors' = errors \cup
                {[from |-> n, to |-> m, unreachable |-> lost] : m \in heard}
    BY <1>2 DEF SendError
  <2>2. ASSUME NEW m \in heard
        PROVE  ErrorOK([from |-> n, to |-> m, unreachable |-> lost], seqno')
    BY DEF Neighbours, ErrorOK, Error
  <2>3. QED
    BY <2>1, <2>2 DEF ErrorsOK
<1>3. QED
  BY <1>1, <1>2

LEMMA WithEntryRows ==
    ASSUME NumbersOK, RowsOK, NEW n \in Node, NEW d \in Node
    PROVE  LET t == WithEntry(table[n], d)
           IN  /\ t \in [Node -> Row] /\ t[d] # None
               /\ \A c \in Node : /\ RowOK(t[c], seqno[c])
                                  /\ NotOlder(table[n][c], t[c])
                                  /\ Up(t[c]) <=> Up(table[n][c])
               /\ table[n][d] # None => t[d] = table[n][d]
               /\ table[n][d] = None => t[d] = NewEntry
               /\ \A c \in Node \ {d} : t[c] = table[n][c]
<1> DEFINE t == WithEntry(table[n], d)
<1>1. table[n] \in [Node -> Row]
  BY DEF RowsOK
<1>2. /\ t \in [Node -> Row] /\ t[d] # None
      /\ table[n][d] # None => t[d] = table[n][d]
      /\ table[n][d] = None => t[d] = NewEntry
      /\ \A c \in Node \ {d} : t[c] = table[n][c]
  BY <1>1, WithEntryRow
<1> HIDE DEF t
<1>3. \A c \in Node : seqno[c] \in Nat /\ RowOK(table[n][c], seqno[c])
  BY DEF NumbersOK, RowsOK
<1>4. \A c \in Node : NotOlder(table[n][c], table[n][c])
  BY <1>1 DEF NotOlder, Row, Entry
<1>5. \A c \in Node : t[c] = table[n][c] \/ (table[n][c] = None /\ t[c] = NewEntry)
  BY <1>2
<1>6. ASSUME NEW c \in Node
      PROVE  /\ RowOK(t[c], seqno[c]) /\ NotOlder(table[n][c], t[c])
             /\ Up(t[c]) <=> Up(table[n][c])
  <2>1. CASE t[c] = table[n][c]
    BY <2>1, <1>3, <1>4
  <2>2. CASE table[n][c] = None /\ t[c] = NewEntry
    BY <2>2, <1>3, NewEntryRow DEF NotOlder, Up
  <2>3. QED
    BY <2>1, <2>2, <1>5
<1>7. QED
  BY <1>2, <1>6 DEF t

-----------------------------------------------------------------------------
(* Data packets *)

\* What rt_resolve leaves behind when it has handled the packet p at n.
Resolved(n, p) ==
    /\ NumbersOK' /\ Grows /\ RowsOK' /\ Ages
    /\ QueuesOK' /\ FramesOK' /\ RequestsOK' /\ ErrorsOK'
    /\ \A f \in frames' \ frames : f.from = n /\ f.pkt = p
    /\ \A m \in Node \ {n} : queue'[m] = queue[m]
    /\ queue'[n] \subseteq queue[n] \cup {p}

LEMMA ResolveOK ==
    ASSUME IInv, NEW n \in Node, NEW p \in Packet, NEW air \in SUBSET frames,
           Resolve(n, p, air)
    PROVE  Resolved(n, p)
<1> DEFINE t == WithEntry(table[n], p.dst)
<1> USE DEF IInv
<1>0. p.dst \in Node
  BY DEF Packet
<1>1. /\ t \in [Node -> Row] /\ t[p.dst] # None
      /\ \A c \in Node : /\ RowOK(t[c], seqno[c])
                         /\ NotOlder(table[n][c], t[c])
                         /\ Up(t[c]) <=> Up(table[n][c])
      /\ table[n][p.dst] # None => t[p.dst] = table[n][p.dst]
      /\ table[n][p.dst] = None => t[p.dst] = NewEntry
  BY <1>0, WithEntryRows
<1> HIDE DEF t
<1>2. QueuesOK /\ queue \in [Node -> SUBSET Packet] /\ table \in [Node -> [Node -> Row]]
  BY DEF QueuesOK, RowsOK
<1>3. CASE /\ Up(t[p.dst])
           /\ frames' = air \cup {Frame(n, t, p)}
           /\ UNCHANGED <<table, seqno, queue, requests, errors>>
  <2>1. NumbersOK' /\ Grows
    BY <1>3, SameNumbers
  <2>2. RowsOK' /\ Ages
    BY <1>3, <2>1, SameTable
  <2>3. QueuesOK'
    BY <1>3 DEF QueuesOK
  <2>4. RequestsOK' /\ ErrorsOK'
    BY <1>3 DEF RequestsOK, ErrorsOK
  <2>5. table[n][p.dst] # None
    BY <1>0, <1>1, <1>3 DEF Up
  <2>6. /\ Frame(n, t, p) \in DataFrame
        /\ Frame(n, t, p).from = n /\ Frame(n, t, p).pkt = p
    BY <1>1, FrameType
  <2>7. FramesOK'
    BY <1>3, <2>5, <2>6 DEF FramesOK, FrameOK
  <2>8. \A f \in frames' \ frames : f.from = n /\ f.pkt = p
    BY <1>3, <2>6
  <2>9. QED
    BY <1>3, <2>1, <2>2, <2>3, <2>4, <2>7, <2>8 DEF Resolved
<1>4. CASE /\ ~Up(t[p.dst]) /\ p.src = n
           /\ SendRequests(n, t, queue[n] \cup {p}, {p.dst})
           /\ frames' = air
           /\ UNCHANGED errors
  <2>1. queue[n] \cup {p} \in SUBSET Packet
    BY <1>2
  <2>2. {p.dst} \in SUBSET Node /\ \A d \in {p.dst} : t[d] # None
    BY <1>0, <1>1
  <2>3. /\ NumbersOK' /\ Grows /\ RequestsOK' /\ RowsOK' /\ Ages
        /\ \A m \in Node \ {n} : table'[m] = table[m] /\ queue'[m] = queue[m]
        /\ \A d \in Node : /\ NotOlder(t[d], table'[n][d])
                           /\ Up(table'[n][d]) <=> Up(t[d])
        /\ queue' \in [Node -> SUBSET Packet] /\ queue'[n] \subseteq queue[n] \cup {p}
    <3> DEFINE q == queue[n] \cup {p}
               D == {p.dst}
    <3>1. q \in SUBSET Packet /\ D \in SUBSET Node /\ \A d \in D : t[d] # None
      BY <2>1, <2>2
    <3>2. SendRequests(n, t, q, D)
      BY <1>4
    <3> HIDE DEF q, D
    <3>3. NumbersOK /\ RequestsOK /\ RowsOK /\ t \in [Node -> Row]
      BY <1>1
    <3>4. \A d \in Node : RowOK(t[d], seqno[d]) /\ NotOlder(table[n][d], t[d])
      BY <1>1
    <3>5. Searched(n, t, q)
      BY <1>2, <3>1, <3>2, <3>3, <3>4, SendRequestsOK
    <3>6. QED
      BY <3>5 DEF q, Searched
  <2>4. ASSUME NEW x \in queue'[n] PROVE MayWait(x, table'[n])
    <3>1. x \in Packet /\ x.dst \in Node
      BY <2>1, <2>3 DEF Packet
    <3>2. CASE x = p
      BY <3>1, <3>2, <2>3, <1>0, <1>1, <1>4 DEF MayWait, NotOlder
    <3>3. CASE x \in queue[n]
      <4>1. table[n][x.dst] # None /\ ~Up(table[n][x.dst])
        BY <3>3 DEF QueuesOK, MayWait
      <4>2. QED
        BY <3>1, <4>1, <2>3, <1>1 DEF MayWait, NotOlder
    <3>4. QED
      BY <3>2, <3>3, <2>3
  <2>5. QueuesOK'
    BY <1>2, <2>3, <2>4, QueuePut
  <2>6. FramesOK' /\ ErrorsOK'
    BY <1>4, <2>3, AirStaysOK DEF FramesOK, ErrorsOK
  <2>7. QED
    BY <1>4, <2>3, <2>5, <2>6 DEF Resolved
<1>5. CASE /\ t[p.dst].flags = "RTF_IN_REPAIR" /\ p.src # n
           /\ queue' = [queue EXCEPT ![n] = @ \cup {p}]
           /\ frames' = air
           /\ UNCHANGED <<table, seqno, requests, errors>>
  <2>1. NumbersOK' /\ Grows
    BY <1>5, SameNumbers
  <2>2. RowsOK' /\ Ages
    BY <1>5, <2>1, SameTable
  <2>3. RequestsOK' /\ ErrorsOK' /\ FramesOK'
    BY <1>5 DEF RequestsOK, ErrorsOK, FramesOK
  <2>4. /\ queue' \in [Node -> SUBSET Packet] /\ queue'[n] = queue[n] \cup {p}
        /\ \A m \in Node \ {n} : queue'[m] = queue[m]
    BY <1>2, <1>5
  <2>5. t[p.dst] # NewEntry
    <3>1. NewEntry.flags = "RTF_DOWN"
      BY DEF NewEntry
    <3>2. QED
      BY <3>1, <1>5
  <2>6. MayWait(p, table'[n])
    <3>1. table[n][p.dst] # None /\ t[p.dst] = table[n][p.dst]
      BY <2>5, <1>1
    <3>2. QED
      BY <3>1, <1>5 DEF MayWait, Up
  <2>7. QueuesOK'
    BY <1>2, <1>5, <2>4, <2>6, QueuePut DEF QueuesOK
  <2>8. QED
    BY <1>5, <2>1, <2>2, <2>3, <2>4, <2>7 DEF Resolved
<1>6. CASE /\ t[p.dst].flags = "RTF_DOWN" /\ p.src # n
           /\ SendError(n, [NothingLost EXCEPT ![p.dst] = t[p.dst].seqno])
           /\ table' = [table EXCEPT ![n] = t]
           /\ frames' = air
           /\ UNCHANGED <<seqno, queue, requests>>
  <2>1. NumbersOK' /\ Grows
    BY <1>6, SameNumbers
  <2>2. /\ RowsOK' /\ Ages /\ table'[n] = t
        /\ \A m \in Node \ {n} : table'[m] = table[m]
    <3>1. \A d \in Node : RowOK(t[d], seqno'[d]) /\ NotOlder(table[n][d], t[d])
      BY <1>1, <1>6
    <3>2. QED
      BY <3>1, <1>1, <1>6, <2>1, TablePut
  <2>3. ASSUME NEW x \in queue'[n] PROVE MayWait(x, table'[n])
    <3>1. x \in queue[n]
      BY <1>6
    <3>2. x \in Packet /\ table[n][x.dst] # None /\ ~Up(table[n][x.dst])
      BY <3>1 DEF QueuesOK, MayWait
    <3>3. x.dst \in Node
      BY <3>2 DEF Packet
    <3>4. t[x.dst] # None /\ ~Up(t[x.dst])
      BY <3>2, <3>3, <1>1 DEF NotOlder
    <3>5. QED
      BY <3>2, <3>4, <2>2 DEF MayWait
  <2>4. QueuesOK'
    BY <1>2, <1>6, <2>2, <2>3, QueuePut
  <2>5. RequestsOK' /\ FramesOK' /\ \A r \in errors : ErrorOK(r, seqno')
    BY <1>6, <2>1, <2>2, AirStaysOK DEF RequestsOK, FramesOK
  <2> DEFINE lost == [NothingLost EXCEPT ![p.dst] = t[p.dst].seqno]
  <2>6. t[p.dst].seqno \in Nat /\ t[p.dst].seqno <= seqno'[p.dst] + 1
    BY <1>0, <1>1, <1>6, RowType DEF NumbersOK
  <2>7. /\ lost \in [Node -> Nat \cup {None}]
        /\ \A d \in Node : lost[d] # None => lost[d] <= seqno'[d] + 1
    BY <2>6 DEF NothingLost
  <2> HIDE DEF lost
  <2>8. ErrorsOK'
    <3>1. SendError(n, lost)
      BY <1>6 DEF lost
    <3>2. QED
      BY <3>1, <2>5, <2>7, SendErrorOK
  <2>9. QED
    BY <1>6, <2>1, <2>2, <2>4, <2>5, <2>8 DEF Resolved
<1>7. QED
  BY <1>3, <1>4, <1>5, <1>6, Zenon DEF Resolve, t

LEMMA OriginateOK ==
    ASSUME IInv, NEW flow \in Flows, Originate(flow)
    PROVE  StepOK
<1> DEFINE n == flow.src
           p == [id |-> sent, src |-> flow.src, dst |-> flow.dst, fwds |-> 0]
<1>1. flow.src \in Node /\ flow.dst \in Node
  BY ConstantsAssumption
<1>2. sent \in Nat
  BY DEF IInv, RestOK
<1>3. n \in Node /\ p \in Packet /\ p.src = n
  BY <1>1, <1>2 DEF Packet
<1>4. Resolve(n, p, frames)
  BY DEF Originate
<1>5. /\ sent' = sent + 1
      /\ UNCHANGED <<seen, repairs, selfish, replies, failures, fault>>
  BY DEF Originate
<1> HIDE DEF n, p
<1>6. Resolved(n, p)
  BY <1>3, <1>4, ResolveOK
<1>7. RepliesOK'
  BY <1>5, <1>6, AirStaysOK DEF Resolved, IInv, RepliesOK
<1>8. RestOK'
  BY <1>2, <1>5 DEF RestOK, IInv
<1>9. Keeps
  BY <1>3, <1>6 DEF Resolved, Keeps
<1>10. QED
  BY <1>6, <1>7, <1>8, <1>9 DEF Resolved, StepOK, IInv

LEMMA ReceiveOK ==
    ASSUME IInv, NEW f \in frames, Receive(f)
    PROVE  StepOK
<1>1. f \in DataFrame /\ f.to \in Node /\ f.pkt \in Packet
  BY DEF IInv, FramesOK, FrameOK, DataFrame
<1>2. /\ UNCHANGED <<seen, repairs, selfish, replies, sent, failures, fault>>
      /\ RestOK'
  BY DEF Receive, IInv, RestOK
<1>3. CASE /\ frames' = frames \ {f}
           /\ UNCHANGED <<table, seqno, queue, requests, errors>>
  <2>1. NumbersOK' /\ Grows
    BY <1>3, SameNumbers DEF IInv
  <2>2. RowsOK' /\ Ages
    BY <1>3, <2>1, SameTable DEF IInv
  <2>3. QueuesOK' /\ FramesOK' /\ RequestsOK' /\ RepliesOK' /\ ErrorsOK'
    BY <1>2, <1>3 DEF IInv, QueuesOK, FramesOK, RequestsOK, RepliesOK, ErrorsOK
  <2>4. Keeps
    BY <1>3 DEF Keeps
  <2>5. QED
    BY <1>2, <2>1, <2>2, <2>3, <2>4 DEF StepOK, IInv
<1>4. CASE /\ ~Refused(f.to, Hop(f.pkt))
           /\ Resolve(f.to, Hop(f.pkt), frames \ {f})
  <2> DEFINE n == f.to
             p == Hop(f.pkt)
             air == frames \ {f}
  <2>1. n \in Node /\ p \in Packet /\ air \in SUBSET frames
    BY <1>1 DEF Hop, Packet
  <2>2. ~selfish[n]
    BY <1>4 DEF Refused
  <2>3. Resolve(n, p, air)
    BY <1>4
  <2> HIDE DEF n, p, air
  <2>4. Resolved(n, p)
    BY <2>1, <2>3, ResolveOK
  <2>5. RepliesOK'
    BY <1>2, <2>4, AirStaysOK DEF Resolved, IInv, RepliesOK
  <2>6. Keeps
    BY <2>1, <2>2, <2>4 DEF Resolved, Keeps
  <2>7. QED
    BY <1>2, <2>4, <2>5, <2>6 DEF Resolved, StepOK, IInv
<1>5. QED
  BY <1>3, <1>4 DEF Receive

LEMMA LocalRepairOK ==
    ASSUME IInv, NEW f \in frames, LocalRepair(f)
    PROVE  StepOK
<1> DEFINE n == f.from
           d == f.pkt.dst
           x == [table[n][d] EXCEPT !.flags = "RTF_IN_REPAIR"]
           t == [table[n] EXCEPT ![d] = x]
           q == queue[n] \cup {f.pkt}
           D == {d}
<1>1. n \in Node /\ d \in Node /\ f.pkt \in Packet /\ table[n][d] # None
  BY DEF IInv, FramesOK, FrameOK, DataFrame, Packet
<1>2. /\ table[n] \in [Node -> Row] /\ table[n][d] \in Entry
      /\ \A c \in Node : seqno[c] \in Nat /\ RowOK(table[n][c], seqno[c])
  BY <1>1 DEF IInv, NumbersOK, RowsOK, Row
<1>3. /\ failures' = failures + 1
      /\ SendRequests(n, t, q, D)
      /\ frames' = frames \ {f}
      /\ repairs' = [repairs EXCEPT ![n][d] = @ + 1]
      /\ UNCHANGED <<seen, selfish, replies, errors, sent, fault>>
  BY DEF LocalRepair
<1>4. /\ x \in Entry /\ x.seqno = table[n][d].seqno /\ x.hops = table[n][d].hops
      /\ x.flags = "RTF_IN_REPAIR"
  BY <1>2 DEF Entry
<1>5. D \in SUBSET Node /\ q \in SUBSET Packet
  BY <1>1 DEF IInv, QueuesOK
<1> HIDE DEF n, d, x, q, D
<1>6. /\ x # None /\ ~Up(x) /\ RowOK(x, seqno[d]) /\ NotOlder(table[n][d], x)
  <2>1. table[n][d].seqno \in Nat
    BY <1>2 DEF Entry
  <2>2. x # None /\ ~Up(x)
    BY <1>4, NoneAssumption DEF Up
  <2>3. RowOK(table[n][d], seqno[d]) /\ seqno[d] \in Nat
    BY <1>1, <1>2
  <2>4. QED
    BY <1>1, <1>2, <1>4, <2>1, <2>2, <2>3 DEF RowOK, Row, Usable, NotOlder
<1>7. t \in [Node -> Row] /\ t[d] = x /\ \A c \in Node \ {d} : t[c] = table[n][c]
  BY <1>1, <1>2, <1>4 DEF Row
<1> HIDE DEF t
<1>8. \A c \in Node : NotOlder(table[n][c], table[n][c])
  BY <1>2 DEF NotOlder, Row, Entry
<1>9. \A c \in Node : RowOK(t[c], seqno[c]) /\ NotOlder(table[n][c], t[c])
  BY <1>2, <1>6, <1>7, <1>8
<1>10. /\ NumbersOK /\ RequestsOK /\ RowsOK /\ queue \in [Node -> SUBSET Packet]
       /\ \A c \in D : t[c] # None
  BY <1>6, <1>7 DEF IInv, QueuesOK, D
<1>11. Searched(n, t, q)
  BY <1>1, <1>3, <1>5, <1>7, <1>9, <1>10, SendRequestsOK
<1>12. ASSUME NEW y \in queue'[n] PROVE MayWait(y, table'[n])
  <2>1. y \in q /\ y \in Packet /\ y.dst \in Node
    BY <1>5, <1>11 DEF Searched, Packet
  <2>2. t[y.dst] # None /\ ~Up(t[y.dst])
    <3>1. CASE y.dst = d
      BY <3>1, <1>6, <1>7
    <3>2. CASE y.dst # d
      <4>1. y \in queue[n]
        BY <2>1, <3>2 DEF q, d
      <4>2. table[n][y.dst] # None /\ ~Up(table[n][y.dst])
        BY <1>1, <4>1 DEF IInv, QueuesOK, MayWait
      <4>3. QED
        BY <2>1, <3>2, <4>2, <1>7
    <3>3. QED
      BY <3>1, <3>2
  <2>3. QED
    BY <2>1, <2>2, <1>11 DEF Searched, MayWait, NotOlder
<1>13. QueuesOK'
  BY <1>1, <1>11, <1>12, QueuePut DEF Searched, IInv
<1>14. FramesOK' /\ RepliesOK' /\ ErrorsOK'
  BY <1>3, <1>11, AirStaysOK DEF Searched, IInv, FramesOK, RepliesOK, ErrorsOK
<1>15. RestOK'
  <2>1. repairs' \in [Node -> [Node -> Nat]]
    BY <1>1, <1>3 DEF IInv, RestOK
  <2>2. QED
    BY <1>3, <2>1 DEF IInv, RestOK
<1>16. Keeps
  <2>1. \A m \in Node \ {n} : queue'[m] = queue[m]
    BY <1>11 DEF Searched
  <2>2. queue'[n] \subseteq queue[n] \cup {f.pkt}
    BY <1>11 DEF Searched, q
  <2>3. QED
    BY <1>3, <2>1, <2>2 DEF Keeps, n
<1>17. QED
  BY <1>11, <1>13, <1>14, <1>15, <1>16 DEF Searched, StepOK, IInv

\* A step that leaves numbers and tables alone keeps what is said about them.
LEMMA QuietStep ==
    ASSUME IInv, UNCHANGED <<table, seqno>>
    PROVE  NumbersOK' /\ Grows /\ RowsOK' /\ Ages
<1>1. NumbersOK' /\ Grows
  BY SameNumbers DEF IInv
<1>2. QED
  BY <1>1, SameTable DEF IInv

LEMMA LinkFailureOK ==
    ASSUME IInv, NEW f \in frames, LinkFailure(f)
    PROVE  StepOK
<1> DEFINE n == f.from
           D == Through(n, f.to)
<1>1. n \in Node /\ f.to \in Node /\ D \subseteq Node
  BY DEF IInv, FramesOK, FrameOK, DataFrame, Through
<1>2. /\ failures' = failures + 1
      /\ UNCHANGED <<queue, seen, repairs, selfish, requests, replies, sent>>
  BY DEF LinkFailure
<1>3. CASE /\ UpAndEven(n, D)
           /\ FilterQueue(n, f.to, frames \ {f})
           /\ seqno' = [seqno EXCEPT ![n] = @ + 2]
           /\ table' = [table EXCEPT ![n] = [d \in Node |->
                  WithoutPrecursor(IF d \in D THEN Invalidated(table[n][d])
                                   ELSE table[n][d], f.to)]]
           /\ SendError(n, [d \in Node |-> IF d \in D THEN table[n][d].seqno + 1 ELSE None])
           /\ UNCHANGED fault
  <2> DEFINE x(d) == IF d \in D THEN Invalidated(table[n][d]) ELSE table[n][d]
             u == [d \in Node |-> WithoutPrecursor(x(d), f.to)]
             lost == [d \in Node |-> IF d \in D THEN table[n][d].seqno + 1 ELSE None]
  <2>1. NumbersOK' /\ Grows
    <3>1. /\ seqno' \in [Node -> Nat] /\ seqno'[n] = seqno[n] + 2
          /\ \A m \in Node \ {n} : seqno'[m] = seqno[m]
          /\ seqno[n] \in Nat /\ seqno[n] % 2 = 0
      BY <1>1, <1>3 DEF IInv, NumbersOK
    <3>2. seqno'[n] % 2 = 0
      BY <3>1
    <3>3. QED
      BY <3>1, <3>2 DEF IInv, NumbersOK, Grows
  <2>2. \A d \in Node : /\ seqno[d] \in Nat /\ seqno'[d] \in Nat
                        /\ RowOK(table[n][d], seqno[d]) /\ RowOK(table[n][d], seqno'[d])
                        /\ table[n][d] \in Row
    BY <1>1, <2>1, Carried DEF IInv, NumbersOK, RowsOK
  <2>3. \A d \in D : Up(table[n][d]) /\ table[n][d] \in Entry
    BY <1>1, <1>3, <2>2 DEF UpAndEven, Up, Row
  <2>4. ASSUME NEW d \in Node
        PROVE  /\ x(d) \in Row /\ RowOK(x(d), seqno'[d])
               /\ NotOlder(table[n][d], x(d)) /\ (Up(x(d)) => Up(table[n][d]))
    <3>1. CASE d \in D
      <4>1. x(d) = Invalidated(table[n][d])
        BY <3>1
      <4>2. QED
        BY <3>1, <4>1, <2>2, <2>3, InvalidatedRow DEF Row
    <3>2. CASE d \notin D
      <4>1. table[n][d] # None => table[n][d].seqno \in Nat
        BY <2>2 DEF Row, Entry
      <4>2. x(d) = table[n][d]
        BY <3>2
      <4>3. QED
        BY <4>1, <4>2, <2>2 DEF NotOlder
    <3>3. QED
      BY <3>1, <3>2
  <2>5. \A d \in Node : u[d] = WithoutPrecursor(x(d), f.to)
    OBVIOUS
  <2>6. table' = [table EXCEPT ![n] = u]
    BY <1>3
  <2>7. SendError(n, lost)
    BY <1>3
  <2>8. /\ lost \in [Node -> Nat \cup {None}]
        /\ \A d \in Node : lost[d] # None => lost[d] <= seqno'[d] + 1
    <3>1. \A d \in D : /\ table[n][d].seqno + 1 \in Nat
                       /\ table[n][d].seqno + 1 <= seqno'[d] + 1
      <4> TAKE d \in D
      <4>1. /\ Up(table[n][d]) /\ table[n][d] # None
            /\ RowOK(table[n][d], seqno'[d]) /\ seqno'[d] \in Nat
        BY <1>1, <2>2, <2>3 DEF Up
      <4>2. table[n][d].seqno \in Nat /\ table[n][d].seqno <= seqno'[d]
        BY <4>1, RowType
      <4>3. QED
        BY <4>1, <4>2
    <3>2. QED
      BY <1>1, <3>1
  <2> HIDE DEF D, x, u, lost
  <2>9. \A d \in Node : /\ RowOK(u[d], seqno'[d]) /\ NotOlder(table[n][d], u[d])
                        /\ Up(u[d]) => Up(table[n][d])
    <3> TAKE d \in Node
    <3>1. /\ RowOK(u[d], seqno'[d]) /\ NotOlder(x(d), u[d]) /\ (Up(u[d]) <=> Up(x(d)))
      BY <1>1, <2>2, <2>4, <2>5, WithoutPrecursorRow
    <3>2. /\ u[d] \in Row /\ x(d) \in Row /\ table[n][d] \in Row
      BY <2>2, <2>4, <3>1 DEF RowOK
    <3>3. NotOlder(table[n][d], u[d])
      BY <2>4, <3>1, <3>2 DEF NotOlder, Row, Entry
    <3>4. QED
      BY <3>1, <3>3, <2>4
  <2>10. u \in [Node -> Row]
    <3>1. u = [d \in Node |-> u[d]]
      BY DEF u
    <3>2. QED
      BY <3>1, <2>9 DEF RowOK
  <2>11. /\ RowsOK' /\ Ages /\ table'[n] = u
         /\ \A m \in Node \ {n} : table'[m] = table[m]
    BY <1>1, <2>1, <2>6, <2>9, <2>10, TablePut DEF IInv
  <2>12. frames' \subseteq frames
    BY <1>3 DEF FilterQueue
  <2>13. /\ RequestsOK' /\ RepliesOK' /\ FramesOK'
         /\ \A r \in errors : ErrorOK(r, seqno')
    BY <1>2, <2>1, <2>11, <2>12, AirStaysOK DEF IInv, RequestsOK, RepliesOK, FramesOK
  <2>14. ErrorsOK'
    BY <1>1, <2>7, <2>8, <2>13, SendErrorOK
  <2>15. \A p \in queue'[n] : MayWait(p, table'[n])
    <3> TAKE p \in queue'[n]
    <3>1. p \in Packet /\ p.dst \in Node /\ table[n][p.dst] # None /\ ~Up(table[n][p.dst])
      BY <1>1, <1>2 DEF IInv, QueuesOK, MayWait, Packet
    <3>2. QED
      BY <3>1, <2>9, <2>11 DEF MayWait, NotOlder
  <2>16. QueuesOK'
    BY <1>1, <1>2, <2>11, <2>15, QueuePut DEF IInv, QueuesOK
  <2>17. RestOK' /\ Keeps
    BY <1>2, <1>3, <2>12 DEF IInv, RestOK, Keeps
  <2>18. QED
    BY <2>1, <2>11, <2>13, <2>14, <2>16, <2>17 DEF StepOK, IInv
<1>4. CASE /\ fault' = "handle_link_failure"
           /\ UNCHANGED <<table, seqno, errors, frames>>
  <2>1. NumbersOK' /\ Grows /\ RowsOK' /\ Ages
    BY <1>4, QuietStep
  <2>2. QueuesOK' /\ FramesOK' /\ RequestsOK' /\ RepliesOK' /\ ErrorsOK'
    BY <1>2, <1>4 DEF IInv, QueuesOK, FramesOK, RequestsOK, RepliesOK, ErrorsOK
  <2>3. RestOK' /\ Keeps
    BY <1>2, <1>4 DEF IInv, RestOK, Keeps
  <2>4. QED
    BY <2>1, <2>2, <2>3 DEF StepOK, IInv
<1>5. QED
  BY <1>3, <1>4, Zenon DEF LinkFailure

-----------------------------------------------------------------------------
(* Requests *)

LEMMA IgnoreRequestOK ==
    ASSUME IInv, NEW r \in requests, IgnoreRequest(r)
    PROVE  StepOK
<1>1. /\ requests' = requests \ {r}
      /\ UNCHANGED <<table, seqno, queue, seen, repairs, selfish, replies, errors,
                     frames, sent, failures, fault>>
  BY DEF IgnoreRequest
<1>2. NumbersOK' /\ Grows /\ RowsOK' /\ Ages
  BY <1>1, QuietStep
<1>3. QueuesOK' /\ FramesOK' /\ RequestsOK' /\ RepliesOK' /\ ErrorsOK'
  BY <1>1 DEF IInv, QueuesOK, FramesOK, RequestsOK, RepliesOK, ErrorsOK
<1>4. RestOK' /\ Keeps
  BY <1>1 DEF IInv, RestOK, Keeps
<1>5. QED
  BY <1>2, <1>3, <1>4 DEF StepOK, IInv

\* A route to d from n has just been brought up or left as it was (improves says
\* which): what waited for it leaves the queue.
LEMMA FlushedOK ==
    ASSUME IInv, NEW n \in Node, NEW d \in Node, NEW improves \in BOOLEAN,
           NEW t \in [Node -> Row], t[d] # None, Ages, RowsOK',
           \A m \in Node \ {n} : table'[m] = table[m],
           \A c \in Node \ {d} : Up(table'[n][c]) => Up(table[n][c]),
           ~improves => (Up(table'[n][d]) => Up(table[n][d])),
           table'[n][d] # None,
           frames' = IF improves THEN frames \cup Flush(n, t, d) ELSE frames,
           queue' = [queue EXCEPT ![n] = IF improves THEN @ \ Waiting(n, d) ELSE @]
    PROVE  QueuesOK' /\ FramesOK' /\ Keeps
<1>1. queue \in [Node -> SUBSET Packet]
  BY DEF IInv, QueuesOK
<1>2. /\ queue' \in [Node -> SUBSET Packet] /\ queue'[n] \subseteq queue[n]
      /\ \A m \in Node \ {n} : queue'[m] = queue[m]
      /\ improves => queue'[n] = queue[n] \ Waiting(n, d)
  BY <1>1
<1>3. ASSUME NEW p \in queue'[n] PROVE MayWait(p, table'[n])
  <2>1. /\ p \in queue[n] /\ p \in Packet /\ p.dst \in Node
        /\ table[n][p.dst] # None /\ ~Up(table[n][p.dst])
    BY <1>2 DEF IInv, QueuesOK, MayWait, Packet
  <2>2. improves => p.dst # d
    BY <1>2, <2>1 DEF Waiting
  <2>3. ~Up(table'[n][p.dst])
    BY <2>1, <2>2
  <2>4. QED
    BY <2>1, <2>3 DEF Ages, NotOlder, MayWait
<1>4. QueuesOK'
  BY <1>2, <1>3, QueuePut DEF IInv
<1>5. \A f \in Flush(n, t, d) : /\ f \in DataFrame /\ f.from = n
                                /\ f.pkt \in queue[n] /\ f.pkt.dst = d
  BY <1>1, FlushOK
<1>6. ASSUME NEW f \in frames PROVE FrameOK(f, table')
  <2>1. f \in DataFrame /\ f.from \in Node /\ f.pkt.dst \in Node
        /\ table[f.from][f.pkt.dst] # None
    BY DEF IInv, FramesOK, FrameOK, DataFrame, Packet
  <2>2. QED
    BY <2>1 DEF FrameOK, Ages, NotOlder
<1>7. FramesOK'
  BY <1>5, <1>6 DEF FramesOK, FrameOK
<1>8. Keeps
  BY <1>2, <1>5 DEF Keeps
<1>9. QED
  BY <1>4, <1>7, <1>8

\* The table of n after a message from its neighbour m has told of a route to d.
Told(n, d, m, sn, hops) ==
    LET t0 == WithEntry(table[n], d)
    IN  IF Better(sn, hops, t0[d])
        THEN [t0 EXCEPT ![d] = RtUpdate(t0[d], sn, hops, m)]
        ELSE t0

\* The table t of n has come from table[n] by learning about d alone.
Learned(n, d, t, improves) ==
    /\ t \in [Node -> Row] /\ t[d] # None
    /\ \A c \in Node \ {d} : t[c] = table[n][c]
    /\ \A c \in Node : RowOK(t[c], seqno[c]) /\ NotOlder(table[n][c], t[c])
    /\ ~improves => (Up(t[d]) => Up(table[n][d]))

LEMMA ToldRow ==
    ASSUME NumbersOK, RowsOK, NEW n \in Node, NEW d \in Node, NEW m \in Node,
           NEW sn \in Nat, NEW hops \in Nat, sn % 2 = 0, sn <= seqno[d]
    PROVE  Learned(n, d, Told(n, d, m, sn, hops),
                   Better(sn, hops, WithEntry(table[n], d)[d]))
<1> DEFINE t0 == WithEntry(table[n], d)
           improves == Better(sn, hops, t0[d])
           t == Told(n, d, m, sn, hops)
           x == RtUpdate(t0[d], sn, hops, m)
<1>0. t = IF improves THEN [t0 EXCEPT ![d] = x] ELSE t0
  BY DEF Told
<1>1. /\ t0 \in [Node -> Row] /\ t0[d] # None
      /\ \A c \in Node : /\ RowOK(t0[c], seqno[c])
                         /\ NotOlder(table[n][c], t0[c])
                         /\ Up(t0[c]) <=> Up(table[n][c])
      /\ table[n][d] = None => t0[d] = NewEntry
      /\ table[n][d] # None => t0[d] = table[n][d]
      /\ \A c \in Node \ {d} : t0[c] = table[n][c]
  BY WithEntryRows
<1>2. t0[d] \in Entry /\ seqno[d] \in Nat
  BY <1>1 DEF Row, NumbersOK
<1>3. /\ x \in Entry /\ RowOK(x, seqno[d]) /\ x # None
      /\ improves => NotOlder(t0[d], x)
  BY <1>2, RtUpdateRow
<1> HIDE DEF t0, improves, t, x
<1>4. CASE ~improves
  BY <1>0, <1>1, <1>4 DEF Learned, t, improves, t0
<1>5. CASE improves
  <2>1. t = [t0 EXCEPT ![d] = x]
    BY <1>0, <1>5
  <2>2. t \in [Node -> Row] /\ t[d] = x /\ \A c \in Node \ {d} : t[c] = table[n][c]
    BY <1>1, <1>3, <2>1 DEF Row
  <2>3. NotOlder(table[n][d], x)
    BY <1>1, <1>3, <1>5 DEF NotOlder
  <2>4. \A c \in Node : RowOK(t[c], seqno[c]) /\ NotOlder(table[n][c], t[c])
    BY <1>1, <1>3, <2>2, <2>3
  <2>5. Learned(n, d, t, improves)
    BY <1>3, <1>5, <2>2, <2>4 DEF Learned
  <2>6. QED
    BY <2>5 DEF t, improves, t0
<1>6. QED
  BY <1>4, <1>5

\* A reply is sent to a neighbour, or is lost.
LEMMA SendReplyOK ==
    ASSUME NEW n \in Node, NEW t \in [Node -> Row], NEW ipdst \in Node, NEW dst \in Node,
           NEW sn \in Nat, NEW hops \in Nat, t[ipdst] # None,
           sn % 2 = 0, sn <= seqno'[dst],
           \A r \in replies : ReplyOK(r, seqno'),
           SendReply(n, t, ipdst, dst, sn, hops)
    PROVE  RepliesOK'
<1> DEFINE r == [from |-> n, to |-> t[ipdst].nexthop, ipdst |-> ipdst,
                 dst |-> dst, dstSeqno |-> sn, hops |-> hops]
<1>1. t[ipdst].nexthop \in Node
  BY DEF Row, Entry
<1>2. ReplyOK(r, seqno')
  BY <1>1 DEF ReplyOK, Reply
<1>3. replies' = replies \cup Reaching(n, r)
  BY DEF SendReply
<1>4. Reaching(n, r) \subseteq {r}
  BY DEF Reaching
<1> HIDE DEF r
<1>5. QED
  BY <1>2, <1>3, <1>4 DEF RepliesOK

LEMMA NextEvenOK ==
    ASSUME NEW x \in Nat, NEW y \in Nat
    PROVE  LET z == NextEven(Larger(x, y)) IN z \in Nat /\ z % 2 = 0 /\ z >= x
BY DEF NextEven, Larger

LEMMA RecvRequestOK ==
    ASSUME IInv, NEW r \in requests, RecvRequest(r)
    PROVE  StepOK
<1> DEFINE n == r.to
           t0 == WithEntry(table[n], r.src)
           improves == Better(r.srcSeqno, r.hops, t0[r.src])
           t == WithReverse(r, improves)
           e == t[r.dst]
<1>1. /\ RequestOK(r, seqno) /\ r \in Request
      /\ r.from \in Node /\ n \in Node /\ r.src \in Node /\ r.dst \in Node
      /\ r.srcSeqno \in Nat /\ r.dstSeqno \in Nat /\ r.hops \in Nat
      /\ r.srcSeqno % 2 = 0 /\ r.srcSeqno <= seqno[r.src]
  BY DEF IInv, RequestsOK, RequestOK, Request
<1>2. /\ frames' = IF improves THEN frames \cup Flush(n, t, r.src) ELSE frames
      /\ queue' = [queue EXCEPT ![n] = IF improves THEN @ \ Waiting(n, r.src) ELSE @]
      /\ seen' = [seen EXCEPT ![n] = @ \cup {<<r.src, r.srcSeqno>>}]
      /\ UNCHANGED <<repairs, selfish, errors, sent, failures, fault>>
  BY DEF RecvRequest
<1>3. \/ /\ r.dst = n
         /\ seqno' = [seqno EXCEPT ![n] = NextEven(Larger(@, r.dstSeqno))]
         /\ SendReply(n, t, r.src, n, seqno'[n], 1)
         /\ table' = [table EXCEPT ![n] = t]
         /\ requests' = requests \ {r}
      \/ /\ r.dst # n /\ CanAnswer(e, r)
         /\ SendReply(n, t, r.src, r.dst, e.seqno, e.hops + 1)
         /\ table' = [table EXCEPT ![n] =
                WithPrecursor(WithPrecursor(t, r.dst, t[r.src].nexthop), r.src, e.nexthop)]
         /\ requests' = requests \ {r}
         /\ UNCHANGED seqno
      \/ /\ r.dst # n /\ ~CanAnswer(e, r)
         /\ \E heard \in SUBSET Neighbours(n) :
               requests' = (requests \ {r}) \cup {Forwarded(n, t, r, m) : m \in heard}
         /\ table' = [table EXCEPT ![n] = t]
         /\ UNCHANGED <<seqno, replies>>
  BY Zenon DEF RecvRequest
<1>4. /\ t = Told(n, r.src, r.from, r.srcSeqno, r.hops)
      /\ improves = Better(r.srcSeqno, r.hops, WithEntry(table[n], r.src)[r.src])
  BY DEF WithReverse, Told
<1>5. improves \in BOOLEAN
  BY DEF Better
<1> HIDE DEF n, t0, improves, t
<1>6. Learned(n, r.src, t, improves)
  BY <1>1, <1>4, ToldRow DEF IInv
<1>7. /\ t \in [Node -> Row] /\ t[r.src] # None
      /\ \A c \in Node \ {r.src} : t[c] = table[n][c]
      /\ \A c \in Node : RowOK(t[c], seqno[c]) /\ NotOlder(table[n][c], t[c])
      /\ ~improves => (Up(t[r.src]) => Up(table[n][r.src]))
  BY <1>6 DEF Learned
<1>8. seqno \in [Node -> Nat] /\ \A c \in Node : seqno[c] \in Nat /\ seqno[c] % 2 = 0
  BY DEF IInv, NumbersOK
<1>9. RestOK'
  <2>1. seen' \in [Node -> SUBSET (Node \X Nat)]
    BY <1>1, <1>2 DEF IInv, RestOK
  <2>2. QED
    BY <1>2, <2>1 DEF IInv, RestOK
  \* The rest of the step, from the table u of n it ends with.
<1>10. ASSUME NumbersOK', Grows, NEW u \in [Node -> Row],
              table' = [table EXCEPT ![n] = u],
              \A c \in Node : /\ RowOK(u[c], seqno[c]) /\ NotOlder(t[c], u[c])
                              /\ Up(u[c]) <=> Up(t[c])
       PROVE  RowsOK' /\ Ages /\ QueuesOK' /\ FramesOK' /\ Keeps
  <2>1. \A c \in Node : RowOK(u[c], seqno'[c])
    BY <1>8, <1>10, Carried DEF IInv, NumbersOK
  <2>2. \A c \in Node : NotOlder(table[n][c], u[c])
    <3> TAKE c \in Node
    <3>1. NotOlder(table[n][c], t[c]) /\ NotOlder(t[c], u[c])
      BY <1>7, <1>10
    <3>2. table[n][c] \in Row /\ t[c] \in Row /\ u[c] \in Row
      BY <1>1, <1>7 DEF IInv, RowsOK
    <3>3. QED
      BY <3>1, <3>2 DEF NotOlder, Row, Entry
  <2>3. /\ RowsOK' /\ Ages /\ table'[n] = u
        /\ \A m \in Node \ {n} : table'[m] = table[m]
    BY <1>1, <1>10, <2>1, <2>2, TablePut DEF IInv
  <2>4. \A c \in Node \ {r.src} : Up(table'[n][c]) => Up(table[n][c])
    BY <1>7, <1>10, <2>3
  <2>5. /\ ~improves => (Up(table'[n][r.src]) => Up(table[n][r.src]))
        /\ table'[n][r.src] # None
    BY <1>1, <1>7, <1>10, <2>3 DEF NotOlder
  <2>6. QED
    BY <1>1, <1>2, <1>5, <1>7, <2>3, <2>4, <2>5, FlushedOK
<1>11. \A c \in Node : NotOlder(t[c], t[c])
  BY <1>7 DEF NotOlder, Row, Entry
<1>12. CASE /\ r.dst = n
            /\ seqno' = [seqno EXCEPT ![n] = NextEven(Larger(@, r.dstSeqno))]
            /\ SendReply(n, t, r.src, n, seqno'[n], 1)
            /\ table' = [table EXCEPT ![n] = t]
            /\ requests' = requests \ {r}
  <2>1. NumbersOK' /\ Grows
    <3>1. /\ seqno'[n] \in Nat /\ seqno'[n] % 2 = 0 /\ seqno'[n] >= seqno[n]
          /\ seqno' \in [Node -> Nat]
          /\ \A m \in Node \ {n} : seqno'[m] = seqno[m]
      BY <1>1, <1>8, <1>12, NextEvenOK
    <3>2. QED
      BY <1>8, <3>1 DEF NumbersOK, Grows
  <2>2. RowsOK' /\ Ages /\ QueuesOK' /\ FramesOK' /\ Keeps
    BY <1>7, <1>10, <1>11, <1>12, <2>1
  <2>3. /\ RequestsOK' /\ ErrorsOK' /\ \A x \in replies : ReplyOK(x, seqno')
    BY <1>2, <1>12, <2>1, <2>2, AirStaysOK DEF IInv, RequestsOK, ErrorsOK
  <2>4. RepliesOK'
    <3> DEFINE k == seqno'[n]
    <3>1. k \in Nat /\ k % 2 = 0 /\ k <= seqno'[n] /\ 1 \in Nat
      BY <1>1, <2>1 DEF NumbersOK
    <3>2. SendReply(n, t, r.src, n, k, 1)
      BY <1>12
    <3> HIDE DEF k
    <3>3. QED
      BY <1>1, <1>7, <2>3, <3>1, <3>2, SendReplyOK
  <2>5. QED
    BY <1>9, <2>1, <2>2, <2>3, <2>4 DEF StepOK, IInv
<1>13. CASE /\ r.dst # n /\ CanAnswer(e, r)
            /\ SendReply(n, t, r.src, r.dst, e.seqno, e.hops + 1)
            /\ table' = [table EXCEPT ![n] =
                   WithPrecursor(WithPrecursor(t, r.dst, t[r.src].nexthop), r.src, e.nexthop)]
            /\ requests' = requests \ {r}
            /\ UNCHANGED seqno
  <2> DEFINE v == WithPrecursor(t, r.dst, t[r.src].nexthop)
             u == WithPrecursor(v, r.src, e.nexthop)
  <2>1. NumbersOK' /\ Grows
    BY <1>13, SameNumbers DEF IInv
  <2>2. /\ e # None /\ Usable(e) /\ e \in Entry /\ e.nexthop \in Node /\ e.hops \in Nat
        /\ e.seqno \in Nat /\ e.seqno % 2 = 0 /\ e.seqno <= seqno[r.dst]
        /\ t[r.src].nexthop \in Node
    BY <1>1, <1>7, <1>8, <1>13, RowType DEF CanAnswer, Usable
  <2>3. /\ v \in [Node -> Row] /\ v[r.dst] \in Entry
        /\ v[r.dst].seqno = t[r.dst].seqno /\ v[r.dst].hops = t[r.dst].hops
        /\ v[r.dst].flags = t[r.dst].flags
        /\ \A c \in Node \ {r.dst} : v[c] = t[c]
    BY <1>1, <1>7, <2>2, WithPrecursorRow
  <2>4. table' = [table EXCEPT ![n] = u] /\ SendReply(n, t, r.src, r.dst, e.seqno, e.hops + 1)
    BY <1>13
  <2> HIDE DEF v, u, e
  <2>5. \A c \in Node : /\ RowOK(v[c], seqno[c]) /\ NotOlder(t[c], v[c])
                        /\ Up(v[c]) <=> Up(t[c])
    <3> TAKE c \in Node
    <3>1. CASE c = r.dst
      <4>1. t[c] \in Entry
        BY <2>2, <3>1 DEF e
      <4>2. QED
        BY <1>7, <1>8, <2>3, <3>1, <4>1, SoftRow
    <3>2. CASE c # r.dst
      BY <1>7, <1>11, <2>3, <3>2
    <3>3. QED
      BY <3>1, <3>2
  <2>6. v[r.src] # None
    BY <1>1, <1>7, <2>5 DEF NotOlder
  <2>7. /\ u \in [Node -> Row] /\ u[r.src] \in Entry
        /\ u[r.src].seqno = v[r.src].seqno /\ u[r.src].hops = v[r.src].hops
        /\ u[r.src].flags = v[r.src].flags
        /\ \A c \in Node \ {r.src} : u[c] = v[c]
    BY <1>1, <2>2, <2>3, <2>6, WithPrecursorRow DEF u
  <2>8. \A c \in Node : /\ RowOK(u[c], seqno[c]) /\ NotOlder(t[c], u[c])
                        /\ Up(u[c]) <=> Up(t[c])
    <3> TAKE c \in Node
    <3>1. CASE c = r.src
      <4>1. v[c] \in Entry /\ RowOK(v[c], seqno[c]) /\ seqno[c] \in Nat
        BY <1>1, <1>8, <2>3, <2>5, <2>6, <3>1 DEF Row
      <4>2. /\ RowOK(u[c], seqno[c]) /\ NotOlder(v[c], u[c])
            /\ Up(u[c]) <=> Up(v[c])
        BY <2>7, <3>1, <4>1, SoftRow
      <4>3. NotOlder(t[c], v[c]) /\ (Up(v[c]) <=> Up(t[c]))
        BY <2>5
      <4>4. t[c] \in Row /\ v[c] \in Row /\ u[c] \in Row
        BY <1>7, <2>3, <2>7
      <4>5. NotOlder(t[c], u[c])
        BY <4>2, <4>3, <4>4 DEF NotOlder, Row, Entry
      <4>6. QED
        BY <4>2, <4>3, <4>5
    <3>2. CASE c # r.src
      BY <2>5, <2>7, <3>2
    <3>3. QED
      BY <3>1, <3>2
  <2>9. RowsOK' /\ Ages /\ QueuesOK' /\ FramesOK' /\ Keeps
    BY <1>10, <2>1, <2>4, <2>7, <2>8
  <2>10. /\ RequestsOK' /\ ErrorsOK' /\ \A x \in replies : ReplyOK(x, seqno')
    BY <1>2, <1>13, <2>1, <2>9, AirStaysOK DEF IInv, RequestsOK, ErrorsOK
  <2>11. RepliesOK'
    <3>1. e.hops + 1 \in Nat /\ e.seqno <= seqno'[r.dst]
      BY <1>13, <2>2
    <3>2. QED
      BY <1>1, <1>7, <2>2, <2>4, <2>10, <3>1, SendReplyOK
  <2>12. QED
    BY <1>9, <2>1, <2>9, <2>10, <2>11 DEF StepOK, IInv
<1>14. CASE /\ r.dst # n /\ ~CanAnswer(e, r)
            /\ \E heard \in SUBSET Neighbours(n) :
                  requests' = (requests \ {r}) \cup {Forwarded(n, t, r, m) : m \in heard}
            /\ table' = [table EXCEPT ![n] = t]
            /\ UNCHANGED <<seqno, replies>>
  <2>1. NumbersOK' /\ Grows
    BY <1>14, SameNumbers DEF IInv
  <2>2. RowsOK' /\ Ages /\ QueuesOK' /\ FramesOK' /\ Keeps
    BY <1>7, <1>10, <1>11, <1>14, <2>1
  <2>3. /\ RepliesOK' /\ ErrorsOK' /\ \A x \in requests : RequestOK(x, seqno')
    BY <1>2, <1>14, <2>1, <2>2, AirStaysOK DEF IInv, RepliesOK, ErrorsOK
  <2>4. PICK heard \in SUBSET Neighbours(n) :
            requests' = (requests \ {r}) \cup {Forwarded(n, t, r, m) : m \in heard}
    BY <1>14
  <2>5. ASSUME NEW m \in heard PROVE RequestOK(Forwarded(n, t, r, m), seqno')
    <3> DEFINE k == IF t[r.dst] = None THEN r.dstSeqno
                    ELSE Larger(t[r.dst].seqno, r.dstSeqno)
    <3>1. m \in Node
      BY DEF Neighbours
    <3>2. Forwarded(n, t, r, m) = [r EXCEPT !.from = n, !.to = m, !.hops = r.hops + 1,
                                            !.dstSeqno = k]
      BY DEF Forwarded
    <3>3. seqno'[r.dst] = seqno[r.dst] /\ seqno'[r.src] = seqno[r.src]
      BY <1>14
    <3>4. k \in Nat /\ k <= seqno[r.dst] + 1
      <4>1. r.dstSeqno <= seqno[r.dst] + 1
        BY <1>1 DEF RequestOK
      <4>2. t[r.dst] # None => /\ t[r.dst].seqno \in Nat
                               /\ t[r.dst].seqno <= seqno[r.dst] + 1
        BY <1>1, <1>7, <1>8, RowType
      <4>3. QED
        BY <1>1, <4>1, <4>2 DEF Larger
    <3> HIDE DEF k
    <3>5. Forwarded(n, t, r, m) \in Request
      <4>1. r.hops + 1 \in Nat /\ k \in Nat /\ r \in Request /\ n \in Node
        BY <1>1, <3>4
      <4>2. QED
        BY <4>1, <3>1, <3>2 DEF Request
    <3>6. QED
      BY <1>1, <3>2, <3>3, <3>4, <3>5 DEF RequestOK, Request
  <2>6. RequestsOK'
    BY <2>3, <2>4, <2>5 DEF RequestsOK
  <2>7. QED
    BY <1>9, <2>1, <2>2, <2>3, <2>6 DEF StepOK, IInv
<1>15. QED
  BY <1>3, <1>12, <1>13, <1>14

-----------------------------------------------------------------------------
(* Replies and errors *)

LEMMA RecvReplyOK ==
    ASSUME IInv, NEW r \in replies, RecvReply(r)
    PROVE  StepOK
<1> DEFINE n == r.to
           t0 == WithEntry(table[n], r.dst)
           improves == Better(r.dstSeqno, r.hops, t0[r.dst])
           t == IF improves
                THEN [t0 EXCEPT ![r.dst] = RtUpdate(t0[r.dst], r.dstSeqno, r.hops, r.from)]
                ELSE t0
           back == t[r.ipdst]
           passOn == improves /\ r.ipdst # n /\ Usable(back)
           u == IF passOn THEN WithPrecursor(t, r.dst, back.nexthop) ELSE t
           on == [r EXCEPT !.from = n, !.to = back.nexthop, !.hops = r.hops + 1]
<1>1. /\ ReplyOK(r, seqno) /\ r \in Reply
      /\ r.from \in Node /\ n \in Node /\ r.ipdst \in Node /\ r.dst \in Node
      /\ r.dstSeqno \in Nat /\ r.hops \in Nat
      /\ r.dstSeqno % 2 = 0 /\ r.dstSeqno <= seqno[r.dst]
  BY DEF IInv, RepliesOK, ReplyOK, Reply
<1>2. UNCHANGED <<seqno, seen, repairs, selfish, requests, errors, sent, failures>>
  BY DEF RecvReply
<1>3. \/ /\ fault' = "recvReply"
         /\ UNCHANGED <<table, queue, replies, frames>>
      \/ /\ table' = [table EXCEPT ![n] = u]
         /\ replies' = (replies \ {r}) \cup (IF passOn THEN Reaching(n, on) ELSE {})
         /\ frames' = IF improves THEN frames \cup Flush(n, t, r.dst) ELSE frames
         /\ queue' = [queue EXCEPT ![n] = IF improves THEN @ \ Waiting(n, r.dst) ELSE @]
         /\ UNCHANGED fault
  BY Zenon DEF RecvReply
<1>4. /\ t = Told(n, r.dst, r.from, r.dstSeqno, r.hops)
      /\ improves = Better(r.dstSeqno, r.hops, WithEntry(table[n], r.dst)[r.dst])
      /\ improves \in BOOLEAN
  BY DEF Told, Better
<1> HIDE DEF n, t0, improves, t, u, on
<1>5. Learned(n, r.dst, t, improves)
  BY <1>1, <1>4, ToldRow DEF IInv
<1>6. /\ t \in [Node -> Row] /\ t[r.dst] # None
      /\ \A c \in Node \ {r.dst} : t[c] = table[n][c]
      /\ \A c \in Node : RowOK(t[c], seqno[c]) /\ NotOlder(table[n][c], t[c])
      /\ ~improves => (Up(t[r.dst]) => Up(table[n][r.dst]))
  BY <1>5 DEF Learned
<1>7. NumbersOK' /\ Grows /\ \A c \in Node : seqno[c] \in Nat /\ seqno'[c] = seqno[c]
  BY <1>2, SameNumbers DEF IInv, NumbersOK
<1>8. passOn => back \in Entry /\ back.nexthop \in Node
  BY <1>1, <1>6 DEF Usable, Row, Entry
<1>9. /\ u \in [Node -> Row]
      /\ \A c \in Node : /\ RowOK(u[c], seqno[c]) /\ NotOlder(t[c], u[c])
                         /\ Up(u[c]) <=> Up(t[c])
  <2>1. \A c \in Node : NotOlder(t[c], t[c])
    BY <1>6 DEF NotOlder, Row, Entry
  <2>2. CASE ~passOn
    BY <2>1, <2>2, <1>6 DEF u
  <2>3. CASE passOn
    <3>1. u = WithPrecursor(t, r.dst, back.nexthop)
      BY <2>3 DEF u
    <3> HIDE DEF back, passOn
    <3>2. /\ u \in [Node -> Row] /\ u[r.dst] \in Entry
          /\ u[r.dst].seqno = t[r.dst].seqno /\ u[r.dst].hops = t[r.dst].hops
          /\ u[r.dst].flags = t[r.dst].flags
          /\ \A c \in Node \ {r.dst} : u[c] = t[c]
      BY <1>1, <1>6, <1>8, <2>3, <3>1, WithPrecursorRow
    <3>3. t[r.dst] \in Entry
      BY <1>1, <1>6 DEF Row
    <3>4. ASSUME NEW c \in Node
          PROVE  /\ RowOK(u[c], seqno[c]) /\ NotOlder(t[c], u[c])
                 /\ Up(u[c]) <=> Up(t[c])
      <4>1. CASE c = r.dst
        BY <1>6, <1>7, <3>2, <3>3, <4>1, SoftRow
      <4>2. CASE c # r.dst
        BY <1>6, <2>1, <3>2, <4>2
      <4>3. QED
        BY <4>1, <4>2
    <3>5. QED
      BY <3>2, <3>4
  <2>4. QED
    BY <2>2, <2>3
<1>10. CASE /\ fault' = "recvReply"
            /\ UNCHANGED <<table, queue, replies, frames>>
  <2>1. NumbersOK' /\ Grows /\ RowsOK' /\ Ages
    BY <1>2, <1>10, QuietStep
  <2>2. QueuesOK' /\ FramesOK' /\ RequestsOK' /\ RepliesOK' /\ ErrorsOK'
    BY <1>2, <1>10 DEF IInv, QueuesOK, FramesOK, RequestsOK, RepliesOK, ErrorsOK
  <2>3. RestOK' /\ Keeps
    BY <1>2, <1>10 DEF IInv, RestOK, Keeps
  <2>4. QED
    BY <2>1, <2>2, <2>3 DEF StepOK, IInv
<1>11. CASE /\ table' = [table EXCEPT ![n] = u]
            /\ replies' = (replies \ {r}) \cup (IF passOn THEN Reaching(n, on) ELSE {})
            /\ frames' = IF improves THEN frames \cup Flush(n, t, r.dst) ELSE frames
            /\ queue' = [queue EXCEPT ![n] = IF improves THEN @ \ Waiting(n, r.dst) ELSE @]
            /\ UNCHANGED fault
  <2>1. \A c \in Node : RowOK(u[c], seqno'[c])
    BY <1>7, <1>9
  <2>2. \A c \in Node : NotOlder(table[n][c], u[c])
    <3> TAKE c \in Node
    <3>1. NotOlder(table[n][c], t[c]) /\ NotOlder(t[c], u[c])
      BY <1>6, <1>9
    <3>2. table[n][c] \in Row /\ t[c] \in Row /\ u[c] \in Row
      BY <1>1, <1>6, <1>9 DEF IInv, RowsOK
    <3>3. QED
      BY <3>1, <3>2 DEF NotOlder, Row, Entry
  <2>3. /\ RowsOK' /\ Ages /\ table'[n] = u
        /\ \A m \in Node \ {n} : table'[m] = table[m]
    BY <1>1, <1>7, <1>9, <1>11, <2>1, <2>2, TablePut DEF IInv
  <2>4. /\ \A c \in Node \ {r.dst} : Up(table'[n][c]) => Up(table[n][c])
        /\ ~improves => (Up(table'[n][r.dst]) => Up(table[n][r.dst]))
        /\ table'[n][r.dst] # None
    BY <1>1, <1>6, <1>9, <2>3 DEF NotOlder
  <2>5. QueuesOK' /\ FramesOK' /\ Keeps
    BY <1>1, <1>4, <1>6, <1>11, <2>3, <2>4, FlushedOK
  <2>6. /\ RequestsOK' /\ ErrorsOK' /\ \A x \in replies : ReplyOK(x, seqno')
    BY <1>2, <1>7, <2>3, AirStaysOK DEF IInv, RequestsOK, ErrorsOK
  <2>7. passOn => ReplyOK(on, seqno')
    <3>1. r.hops + 1 \in Nat
      BY <1>1
    <3> HIDE DEF back, passOn
    <3>2. passOn => on \in Reply /\ on.dst = r.dst /\ on.dstSeqno = r.dstSeqno
      BY <1>1, <1>8, <3>1 DEF on, Reply
    <3>3. QED
      BY <1>1, <1>7, <3>2 DEF ReplyOK
  <2>8. RepliesOK'
    <3>1. Reaching(n, on) \subseteq {on}
      BY DEF Reaching
    <3>2. QED
      BY <1>11, <2>6, <2>7, <3>1 DEF RepliesOK
  <2>9. RestOK'
    BY <1>2, <1>11 DEF IInv, RestOK
  <2>10. QED
    BY <1>7, <2>3, <2>5, <2>6, <2>8, <2>9 DEF StepOK, IInv
<1>12. QED
  BY <1>3, <1>10, <1>11

LEMMA LoseReplyOK ==
    ASSUME IInv, NEW r \in replies, LoseReply(r)
    PROVE  StepOK
<1>1. /\ replies' = replies \ {r}
      /\ UNCHANGED <<table, seqno, queue, seen, repairs, selfish, requests, errors,
                     frames, sent, failures, fault>>
  BY DEF LoseReply
<1>2. NumbersOK' /\ Grows /\ RowsOK' /\ Ages
  BY <1>1, QuietStep
<1>3. QueuesOK' /\ FramesOK' /\ RequestsOK' /\ RepliesOK' /\ ErrorsOK'
  BY <1>1 DEF IInv, QueuesOK, FramesOK, RequestsOK, RepliesOK, ErrorsOK
<1>4. RestOK' /\ Keeps
  BY <1>1 DEF IInv, RestOK, Keeps
<1>5. QED
  BY <1>2, <1>3, <1>4 DEF StepOK, IInv

\* A route that an error takes away takes over the number of the error.
LEMMA TakenRow ==
    ASSUME NEW e \in Entry, NEW s \in Nat, Up(e), NEW k \in Nat,
           e.seqno <= k, k <= s + 1
    PROVE  LET x == [RtDown([e EXCEPT !.seqno = k]) EXCEPT !.pre = {}]
           IN  x \in Row /\ RowOK(x, s) /\ NotOlder(e, x) /\ ~Up(x)
<1> DEFINE y == [e EXCEPT !.seqno = k]
           z == RtDown(y)
           x == [z EXCEPT !.pre = {}]
<1>1. y \in Entry /\ y.seqno = k /\ y.flags = "RTF_UP"
  BY DEF Up, Entry
<1>2. z = [y EXCEPT !.hops = INFINITY2, !.flags = "RTF_DOWN", !.nexthop = Zero]
  BY <1>1 DEF RtDown
<1> HIDE DEF y, z
<1>3. z \in Entry /\ z.seqno = k /\ z.flags = "RTF_DOWN" /\ z.hops = INFINITY2
  BY <1>1, <1>2, Retries DEF Entry
<1>4. x \in Entry /\ x.seqno = k /\ x.flags = "RTF_DOWN" /\ x.hops = INFINITY2
  BY <1>3 DEF Entry
<1> HIDE DEF x
<1>5. x # None
  BY <1>4, NoneAssumption
<1>6. x \in Row /\ RowOK(x, s) /\ NotOlder(e, x) /\ ~Up(x)
  BY <1>4, <1>5 DEF RowOK, Row, Up, Usable, NotOlder
<1>7. QED
  BY <1>6 DEF x, z, y

LEMMA RecvErrorOK ==
    ASSUME IInv, NEW r \in errors, RecvError(r)
    PROVE  StepOK
<1> DEFINE n == r.to
           D == Concerned(r)
           tell == {d \in D : table[n][d].pre # {}}
           x(d) == [RtDown([table[n][d] EXCEPT !.seqno = r.unreachable[d]]) EXCEPT !.pre = {}]
           u == [d \in Node |-> IF d \in D THEN x(d) ELSE table[n][d]]
           lost == [d \in Node |-> IF d \in tell THEN r.unreachable[d] ELSE None]
<1>1. /\ ErrorOK(r, seqno) /\ r \in Error /\ r.from \in Node /\ n \in Node
      /\ r.unreachable \in [Node -> Nat \cup {None}]
      /\ D \subseteq Node /\ tell \subseteq Node
  BY DEF IInv, ErrorsOK, ErrorOK, Error, Concerned, Through
<1>2. UNCHANGED <<seqno, queue, seen, repairs, selfish, requests, replies, sent, failures>>
  BY DEF RecvError
<1>3. NumbersOK' /\ Grows /\ \A c \in Node : seqno[c] \in Nat /\ seqno'[c] = seqno[c]
  BY <1>2, SameNumbers DEF IInv, NumbersOK
<1>4. CASE /\ fault' = "recvError"
           /\ UNCHANGED <<table, errors, frames>>
  <2>1. NumbersOK' /\ Grows /\ RowsOK' /\ Ages
    BY <1>2, <1>4, QuietStep
  <2>2. QueuesOK' /\ FramesOK' /\ RequestsOK' /\ RepliesOK' /\ ErrorsOK'
    BY <1>2, <1>4 DEF IInv, QueuesOK, FramesOK, RequestsOK, RepliesOK, ErrorsOK
  <2>3. RestOK' /\ Keeps
    BY <1>2, <1>4 DEF IInv, RestOK, Keeps
  <2>4. QED
    BY <2>1, <2>2, <2>3 DEF StepOK, IInv
<1>5. CASE /\ UpAndEven(n, D)
           /\ table' = [table EXCEPT ![n] = u]
           /\ \E heard \in SUBSET Neighbours(n) :
                 errors' = (errors \ {r}) \cup
                    {[from |-> n, to |-> m, unreachable |-> lost] :
                         m \in IF tell = {} THEN {} ELSE heard}
           /\ IF D = {} THEN frames' = frames ELSE FilterQueue(n, r.from, frames)
           /\ UNCHANGED fault
  <2>1. \A c \in Node : /\ table[n][c] \in Row /\ RowOK(table[n][c], seqno[c])
                        /\ NotOlder(table[n][c], table[n][c])
    BY <1>1 DEF IInv, RowsOK, NotOlder, Row, Entry
  <2>2. ASSUME NEW d \in Node
        PROVE  /\ u[d] \in Row /\ RowOK(u[d], seqno'[d]) /\ NotOlder(table[n][d], u[d])
               /\ Up(u[d]) => Up(table[n][d])
    <3>1. CASE d \in D
      <4>1. /\ Up(table[n][d]) /\ table[n][d] \in Entry
            /\ r.unreachable[d] \in Nat /\ table[n][d].seqno <= r.unreachable[d]
            /\ r.unreachable[d] <= seqno[d] + 1
        BY <1>1, <1>5, <2>1, <3>1 DEF UpAndEven, Up, Row, Concerned, ErrorOK
      <4>2. u[d] = x(d)
        BY <3>1
      <4>3. QED
        BY <1>3, <4>1, <4>2, TakenRow
    <3>2. CASE d \notin D
      <4>1. u[d] = table[n][d]
        BY <3>2
      <4>2. QED
        BY <1>3, <2>1, <4>1
    <3>3. QED
      BY <3>1, <3>2
  <2>3. u \in [Node -> Row]
    BY <2>2
  <2>4. table' = [table EXCEPT ![n] = u]
    BY <1>5
  <2>5. /\ lost \in [Node -> Nat \cup {None}]
        /\ \A d \in Node : lost[d] # None => lost[d] <= seqno'[d] + 1
    BY <1>1, <1>3 DEF ErrorOK
  <2>6. PICK heard \in SUBSET Neighbours(n) :
                 errors' = (errors \ {r}) \cup
                    {[from |-> n, to |-> m, unreachable |-> lost] :
                         m \in IF tell = {} THEN {} ELSE heard}
    BY <1>5
  <2> HIDE DEF D, tell, x, u, lost
  <2>7. /\ RowsOK' /\ Ages /\ table'[n] = u
        /\ \A m \in Node \ {n} : table'[m] = table[m]
    BY <1>1, <1>3, <2>2, <2>3, <2>4, TablePut DEF IInv
  <2>8. frames' \subseteq frames
    BY <1>5 DEF FilterQueue
  <2>9. /\ RequestsOK' /\ RepliesOK' /\ FramesOK'
        /\ \A y \in errors : ErrorOK(y, seqno')
    BY <1>2, <1>3, <2>7, <2>8, AirStaysOK DEF IInv, RequestsOK, RepliesOK, FramesOK
  <2>10. ASSUME NEW m \in Node
         PROVE  ErrorOK([from |-> n, to |-> m, unreachable |-> lost], seqno')
    BY <1>1, <2>5 DEF ErrorOK, Error
  <2>11. ErrorsOK'
    <3>1. heard \subseteq Node
      BY DEF Neighbours
    <3>2. QED
      BY <2>6, <2>9, <2>10, <3>1 DEF ErrorsOK
  <2>12. \A p \in queue'[n] : MayWait(p, table'[n])
    <3> TAKE p \in queue'[n]
    <3>1. p \in Packet /\ p.dst \in Node /\ table[n][p.dst] # None /\ ~Up(table[n][p.dst])
      BY <1>1, <1>2 DEF IInv, QueuesOK, MayWait, Packet
    <3>2. QED
      BY <3>1, <2>2, <2>7 DEF MayWait, NotOlder
  <2>13. QueuesOK'
    BY <1>1, <1>2, <2>7, <2>12, QueuePut DEF IInv, QueuesOK
  <2>14. RestOK' /\ Keeps
    BY <1>2, <1>5, <2>8 DEF IInv, RestOK, Keeps
  <2>15. QED
    BY <1>3, <2>7, <2>9, <2>11, <2>13, <2>14 DEF StepOK, IInv
<1>6. QED
  BY <1>4, <1>5, Zenon DEF RecvError

-----------------------------------------------------------------------------
(* Timers and the selfish switch *)

\* One row of n is replaced; nothing comes up.
LEMMA RowReplaced ==
    ASSUME IInv, NEW n \in Node, NEW d \in Node, NEW x,
           table' = [table EXCEPT ![n][d] = x],
           RowOK(x, seqno[d]), NotOlder(table[n][d], x), Up(x) => Up(table[n][d]),
           UNCHANGED <<seqno, queue, requests, replies, errors, frames>>
    PROVE  /\ NumbersOK' /\ RowsOK' /\ Ages /\ QueuesOK' /\ FramesOK'
           /\ RequestsOK' /\ RepliesOK' /\ ErrorsOK' /\ Keeps
<1> DEFINE u == [table[n] EXCEPT ![d] = x]
<1>1. NumbersOK' /\ Grows
  BY SameNumbers DEF IInv
<1>2. table \in [Node -> [Node -> Row]] /\ x \in Row
  BY DEF IInv, RowsOK, RowOK
<1>3. /\ table' = [table EXCEPT ![n] = u] /\ u \in [Node -> Row]
      /\ u[d] = x /\ \A c \in Node \ {d} : u[c] = table[n][c]
  BY <1>2
<1> HIDE DEF u
<1>4. \A c \in Node : NotOlder(table[n][c], table[n][c]) /\ RowOK(table[n][c], seqno'[c])
  <2> TAKE c \in Node
  <2>1. table[n][c] \in Row
    BY <1>2
  <2>2. NotOlder(table[n][c], table[n][c])
    BY <2>1 DEF NotOlder, Row, Entry
  <2>3. QED
    BY <2>2 DEF IInv, RowsOK
<1>5. \A c \in Node : RowOK(u[c], seqno'[c]) /\ NotOlder(table[n][c], u[c])
  BY <1>3, <1>4
<1>6. /\ RowsOK' /\ Ages /\ table'[n] = u
      /\ \A m \in Node \ {n} : table'[m] = table[m]
  BY <1>1, <1>3, <1>5, TablePut DEF IInv
<1>7. \A p \in queue'[n] : MayWait(p, table'[n])
  <2> TAKE p \in queue'[n]
  <2>1. p \in Packet /\ p.dst \in Node /\ table[n][p.dst] # None /\ ~Up(table[n][p.dst])
    BY DEF IInv, QueuesOK, MayWait, Packet
  <2>2. QED
    BY <2>1, <1>3, <1>5, <1>6 DEF MayWait, NotOlder
<1>8. QueuesOK'
  BY <1>6, <1>7, QueuePut DEF IInv, QueuesOK
<1>9. FramesOK' /\ RequestsOK' /\ RepliesOK' /\ ErrorsOK'
  BY <1>1, <1>6, AirStaysOK DEF IInv, FramesOK, RequestsOK, RepliesOK, ErrorsOK
<1>10. Keeps
  BY DEF Keeps
<1>11. QED
  BY <1>1, <1>6, <1>8, <1>9, <1>10

LEMMA RepairTimeoutOK ==
    ASSUME IInv, NEW n \in Node, NEW d \in Node, RepairTimeout(n, d)
    PROVE  StepOK
<1> DEFINE e == table[n][d]
           x == IF e # None /\ ~Up(e) THEN RepairFails(e) ELSE e
<1>1. /\ repairs[n][d] > 0
      /\ repairs' = [repairs EXCEPT ![n][d] = @ - 1]
      /\ UNCHANGED <<seqno, queue, seen, selfish, requests, replies, errors, frames,
                     sent, failures, fault>>
  BY DEF RepairTimeout
<1>2. table' = [table EXCEPT ![n][d] = x]
  BY DEF RepairTimeout, IInv, RowsOK
<1>3. e \in Row /\ RowOK(e, seqno[d]) /\ seqno[d] \in Nat
  BY DEF IInv, RowsOK, NumbersOK
<1>4. RowOK(x, seqno[d]) /\ NotOlder(e, x) /\ (Up(x) => Up(e))
  <2>1. CASE e # None /\ ~Up(e)
    BY <2>1, <1>3, RtDownRow DEF RepairFails, Row
  <2>2. CASE ~(e # None /\ ~Up(e))
    BY <2>2, <1>3 DEF NotOlder, Row, Entry
  <2>3. QED
    BY <2>1, <2>2
<1> HIDE DEF x
<1>5. /\ NumbersOK' /\ RowsOK' /\ Ages /\ QueuesOK' /\ FramesOK'
      /\ RequestsOK' /\ RepliesOK' /\ ErrorsOK' /\ Keeps
  BY <1>1, <1>2, <1>4, RowReplaced
<1>6. RestOK'
  <2>1. repairs[n][d] - 1 \in Nat
    BY <1>1 DEF IInv, RestOK
  <2>2. repairs' \in [Node -> [Node -> Nat]]
    BY <1>1, <2>1 DEF IInv, RestOK
  <2>3. QED
    BY <1>1, <2>2 DEF IInv, RestOK
<1>7. QED
  BY <1>5, <1>6 DEF StepOK, IInv

LEMMA RequestTimeoutOK ==
    ASSUME IInv, NEW n \in Node, NEW d \in Node, RequestTimeout(n, d)
    PROVE  StepOK
<1> DEFINE e == table[n][d]
           x == [e EXCEPT !.waiting = FALSE]
<1>1. /\ e # None
      /\ UNCHANGED <<seqno, queue, seen, repairs, selfish, requests, replies, errors,
                     frames, sent, failures, fault>>
  BY DEF RequestTimeout
<1>2. table' = [table EXCEPT ![n][d] = x]
  BY DEF RequestTimeout, IInv, RowsOK
<1>3. e \in Entry /\ RowOK(e, seqno[d]) /\ seqno[d] \in Nat
  BY <1>1 DEF IInv, RowsOK, NumbersOK, Row
<1>4. x \in Entry /\ x.seqno = e.seqno /\ x.hops = e.hops /\ x.flags = e.flags
  BY <1>3 DEF Entry
<1> HIDE DEF x
<1>5. RowOK(x, seqno[d]) /\ NotOlder(e, x) /\ (Up(x) => Up(e))
  BY <1>3, <1>4, SoftRow
<1>6. /\ NumbersOK' /\ RowsOK' /\ Ages /\ QueuesOK' /\ FramesOK'
      /\ RequestsOK' /\ RepliesOK' /\ ErrorsOK' /\ Keeps
  BY <1>1, <1>2, <1>5, RowReplaced
<1>7. RestOK'
  BY <1>1 DEF IInv, RestOK
<1>8. QED
  BY <1>6, <1>7 DEF StepOK, IInv

LEMMA EgoistaOK ==
    ASSUME IInv, NEW n \in Node, Egoista(n)
    PROVE  StepOK
<1>1. /\ selfish' = [selfish EXCEPT ![n] = ~@]
      /\ UNCHANGED <<table, seqno, queue, seen, repairs, requests, replies, errors,
                     frames, sent, failures, fault>>
  BY DEF Egoista
<1>2. NumbersOK' /\ Grows /\ RowsOK' /\ Ages
  BY <1>1, QuietStep
<1>3. QueuesOK' /\ FramesOK' /\ RequestsOK' /\ RepliesOK' /\ ErrorsOK'
  BY <1>1 DEF IInv, QueuesOK, FramesOK, RequestsOK, RepliesOK, ErrorsOK
<1>4. RestOK' /\ Keeps
  BY <1>1 DEF IInv, RestOK, Keeps
<1>5. QED
  BY <1>2, <1>3, <1>4 DEF StepOK, IInv

LEMMA PurgeOK ==
    ASSUME IInv, NEW n \in Node,
           NEW expired \in SUBSET {d \in Node : Up(table[n][d])}, Purge(n, expired)
    PROVE  StepOK
<1> DEFINE up == {d \in Node : Up(table[n][d])}
           t  == [d \in Node |-> IF d \in expired THEN Invalidated(table[n][d])
                                 ELSE table[n][d]]
           q  == {p \in queue[n] : p.dst \notin up}
           D  == {p.dst : p \in q}
<1>1. /\ failures' = failures + Cardinality(expired)
      /\ frames' = frames \cup UNION {Flush(n, t, d) : d \in up \ expired}
      /\ SendRequests(n, t, q, D)
      /\ UNCHANGED <<seen, repairs, selfish, replies, errors, sent, fault>>
  BY DEF Purge
<1>2. queue \in [Node -> SUBSET Packet] /\ q \in SUBSET Packet /\ D \in SUBSET Node
  BY DEF IInv, QueuesOK, Packet
<1>3. \A c \in Node : /\ table[n][c] \in Row /\ RowOK(table[n][c], seqno[c])
                      /\ seqno[c] \in Nat /\ NotOlder(table[n][c], table[n][c])
  BY DEF IInv, RowsOK, NumbersOK, NotOlder, Row, Entry
<1>4. ASSUME NEW c \in Node
      PROVE  /\ t[c] \in Row /\ RowOK(t[c], seqno[c]) /\ NotOlder(table[n][c], t[c])
             /\ c \notin expired => t[c] = table[n][c]
  <2>1. CASE c \in expired
    <3>1. t[c] = Invalidated(table[n][c]) /\ Up(table[n][c]) /\ table[n][c] \in Entry
      BY <2>1, <1>3 DEF Up, Row
    <3>2. QED
      BY <2>1, <3>1, <1>3, InvalidatedRow DEF Row
  <2>2. CASE c \notin expired
    BY <2>2, <1>3
  <2>3. QED
    BY <2>1, <2>2
<1>5. t \in [Node -> Row]
  BY <1>4
<1>6. expired \subseteq up /\ up \subseteq Node
  OBVIOUS
<1>7. \A p \in q : p \in queue[n] /\ p \in Packet /\ p.dst \in Node /\ p.dst \notin up
  BY <1>2 DEF Packet
<1>8. \A p \in q : t[p.dst] # None /\ ~Up(t[p.dst])
  BY <1>4, <1>6, <1>7 DEF IInv, QueuesOK, MayWait
<1>9. \A c \in D : t[c] # None
  BY <1>8
<1> HIDE DEF t, q, D
<1>10. NumbersOK /\ RequestsOK /\ RowsOK
  BY DEF IInv
<1>11. \A c \in Node : RowOK(t[c], seqno[c]) /\ NotOlder(table[n][c], t[c])
  BY <1>4
<1>12. Searched(n, t, q)
  BY <1>1, <1>2, <1>5, <1>9, <1>10, <1>11, SendRequestsOK
<1>13. ASSUME NEW p \in queue'[n] PROVE MayWait(p, table'[n])
  <2>1. p \in q
    BY <1>12 DEF Searched
  <2>2. QED
    BY <2>1, <1>7, <1>8, <1>12 DEF Searched, MayWait, NotOlder
<1>14. QueuesOK'
  BY <1>12, <1>13, QueuePut DEF Searched, IInv
<1>15. /\ RepliesOK' /\ ErrorsOK' /\ \A f \in frames : FrameOK(f, table')
  BY <1>1, <1>12, AirStaysOK DEF Searched, IInv, RepliesOK, ErrorsOK
<1>16. \A f \in frames' \ frames :
           /\ f \in DataFrame /\ f.from = n
           /\ f.pkt \in queue[n] /\ f.pkt.dst \in Node /\ table[n][f.pkt.dst] # None
  <2> TAKE f \in frames' \ frames
  <2>1. PICK d \in up \ expired : f \in Flush(n, t, d)
    BY <1>1
  <2>2. d \in Node /\ t[d] = table[n][d] /\ t[d] # None
    BY <1>4 DEF Up
  <2>3. QED
    BY <1>2, <1>5, <2>1, <2>2, FlushOK
<1>17. FramesOK'
  BY <1>12, <1>15, <1>16 DEF Searched, FramesOK, FrameOK, Ages, NotOlder
<1>18. Keeps
  BY <1>2, <1>12, <1>16 DEF Searched, Keeps, q
<1>19. RestOK'
  <2>1. Cardinality(expired) \in Nat
    BY <1>6, ConstantsAssumption, FS_Subset, FS_CardinalityType
  <2>2. QED
    BY <1>1, <2>1 DEF IInv, RestOK
<1>20. QED
  BY <1>12, <1>14, <1>15, <1>17, <1>18, <1>19 DEF Searched, StepOK, IInv

-----------------------------------------------------------------------------
(* Every step *)

LEMMA StutterOK ==
    ASSUME IInv, UNCHANGED vars
    PROVE  StepOK
<1>1. NumbersOK' /\ Grows /\ RowsOK' /\ Ages
  BY QuietStep DEF vars
<1>2. QueuesOK' /\ FramesOK' /\ RequestsOK' /\ RepliesOK' /\ ErrorsOK'
  BY DEF vars, IInv, QueuesOK, FramesOK, RequestsOK, RepliesOK, ErrorsOK
<1>3. RestOK' /\ Keeps
  BY DEF vars, IInv, RestOK, Keeps
<1>4. QED
  BY <1>1, <1>2, <1>3 DEF StepOK, IInv

LEMMA EveryStepOK == IInv /\ [Next]_vars => StepOK
<1> SUFFICES ASSUME IInv, [Next]_vars PROVE StepOK
  OBVIOUS
<1>1. ASSUME NEW n \in Node, NodeStep(n) PROVE StepOK
  BY <1>1, EgoistaOK, RepairTimeoutOK, RequestTimeoutOK, PurgeOK DEF NodeStep
<1>2. ASSUME NEW flow \in Flows, Originate(flow) PROVE StepOK
  BY <1>2, OriginateOK
<1>3. ASSUME NEW f \in frames, Receive(f) \/ LocalRepair(f) \/ LinkFailure(f)
      PROVE  StepOK
  BY <1>3, ReceiveOK, LocalRepairOK, LinkFailureOK
<1>4. ASSUME NEW r \in requests, IgnoreRequest(r) \/ RecvRequest(r) PROVE StepOK
  BY <1>4, IgnoreRequestOK, RecvRequestOK
<1>5. ASSUME NEW r \in replies, RecvReply(r) \/ LoseReply(r) PROVE StepOK
  BY <1>5, RecvReplyOK, LoseReplyOK
<1>6. ASSUME NEW r \in errors, RecvError(r) PROVE StepOK
  BY <1>6, RecvErrorOK
<1>7. CASE UNCHANGED vars
  BY <1>7, StutterOK
<1>8. QED
  BY <1>1, <1>2, <1>3, <1>4, <1>5, <1>6, <1>7 DEF Next

LEMMA Invariant == Spec => []IInv
<1>1. IInv /\ [Next]_vars => IInv'
  BY EveryStepOK DEF StepOK
<1>2. QED
  BY <1>1, InitOK, PTL DEF Spec

\* Every reachable state is well typed, and a packet waits only for a destination
\* the table has a row for (l.1097).
THEOREM TypeCorrect == Spec => []TypeOK
BY Invariant, InvImplies, PTL

\* Only a destination makes usable numbers for itself; errors, expiry and failed
\* links run ahead of it by one at most, whatever is lost, repeated or overtaken
\* on the way (l.375, l.376, l.535, l.536, l.980).
THEOREM Provenance == Spec => []SeqnoProvenance
BY Invariant, InvImplies, PTL

\* No packet waits for a route that is up: whoever brings it up sends what has
\* waited (l.727-733, l.905-914).
THEOREM NoPacketStranded == Spec => []NoStrandedPacket
BY Invariant, InvImplies, PTL

\* No step makes a row older or forgets it, local repair and errors included.
THEOREM NumbersNeverFall == Spec => NeverOlder
<1>1. IInv /\ [Next]_vars =>
          [\A n, d \in Node : table[n][d] # None =>
              table'[n][d] # None /\ table'[n][d].seqno >= table[n][d].seqno]_vars
  BY EveryStepOK DEF StepOK, Ages, NotOlder
<1>2. QED
  BY <1>1, Invariant, PTL DEF Spec, NeverOlder

\* A selfish node passes on nothing that arrives after it turned selfish
\* (l.603-606): new data of others on the air or in its queue were its own charge
\* before.
THEOREM SelfishTakesNothing == Spec => SelfishKeepsNothingNew
<1>1. IInv /\ [Next]_vars =>
          [/\ \A f \in frames' \ frames :
                 f.pkt.src # f.from /\ selfish[f.from] => f.pkt \in queue[f.from]
           /\ \A n \in Node : \A p \in queue'[n] \ queue[n] :
                 p.src # n /\ selfish[n] => \E f \in frames : f.from = n /\ f.pkt = p]_vars
  BY EveryStepOK DEF StepOK, Keeps
<1>2. QED
  BY <1>1, Invariant, PTL DEF Spec, SelfishKeepsNothingNew

-----------------------------------------------------------------------------
(* Behaviours in which no route is repaired locally: the assertions hold,  *)
(* what a node promises it keeps, and there are no loops.                  *)

\* The row g is ahead of what (sn, hops) promises.
Ahead(g, sn, hops) == g # None /\ (g.seqno > sn \/ (g.seqno = sn /\ g.hops < hops))

\* A row x takes the place of e without falling behind it.
NotBehind(e, x) ==
    e # None => x # None /\ (x.seqno > e.seqno \/ (x.seqno = e.seqno /\ x.hops <= e.hops))

\* A number that tells of a loss: that of a route never known, or an odd one.
Mark(sn) == sn = 0 \/ sn % 2 = 1

FlagsOK(e) ==
    e # None => /\ e.flags # "RTF_IN_REPAIR"
                /\ e.flags = "RTF_UP" => e.seqno > 0
                /\ e.flags = "RTF_DOWN" => e.hops = INFINITY2 /\ Mark(e.seqno)

\* Whoever uses a neighbour for d is told the truth by it.
Ordered(e, d, tb) ==
    Up(e) /\ e.nexthop # d => Ahead(tb[e.nexthop][d], e.seqno, e.hops)

RequestKept(r, tb) ==
    r.srcSeqno > 0 /\ (r.from # r.src => Ahead(tb[r.from][r.src], r.srcSeqno, r.hops))

ReplyKept(r, tb) ==
    r.dstSeqno > 0 /\ (r.from # r.dst => Ahead(tb[r.from][r.dst], r.dstSeqno, r.hops))

ErrorMarked(r) == \A d \in Node : r.unreachable[d] # None => Mark(r.unreachable[d])

\* What is invariant as long as no route is repaired locally.
LInv ==
    /\ \A n, d \in Node : FlagsOK(table[n][d]) /\ Ordered(table[n][d], d, table)
    /\ \A r \in requests : RequestKept(r, table)
    /\ \A r \in replies : ReplyKept(r, table)
    /\ \A r \in errors : ErrorMarked(r)
    /\ \A n, d \in Node : repairs[n][d] = 0
    /\ fault = "none"

\* What may become of the row e of destination d: nothing that matters, a loss,
\* or a better route that its next hop stands by.
RowMove(d, e, x) ==
    \/ Alike(e, x)
    \/ /\ x # None /\ x.flags = "RTF_DOWN" /\ x.hops = INFINITY2 /\ Mark(x.seqno)
       /\ e # None => x.seqno > e.seqno
    \/ /\ x # None /\ x.flags = "RTF_UP" /\ x.seqno > 0 /\ NotBehind(e, x)
       /\ x.nexthop # d => Ahead(table[x.nexthop][d], x.seqno, x.hops)

Moves == \A n, d \in Node : RowMove(d, table[n][d], table'[n][d])

LStep ==
    /\ Moves
    /\ \A r \in requests' \ requests : RequestKept(r, table')
    /\ \A r \in replies' \ replies : ReplyKept(r, table')
    /\ \A r \in errors' \ errors : ErrorMarked(r)
    /\ UNCHANGED <<repairs, fault>>

LEMMA LInitOK == Init => LInv
<1> SUFFICES ASSUME Init PROVE LInv
  OBVIOUS
<1>1. \A n, d \in Node : table[n][d] = None /\ repairs[n][d] = 0
  BY DEF Init
<1>2. \A n, d \in Node : FlagsOK(table[n][d]) /\ Ordered(table[n][d], d, table)
  BY <1>1 DEF FlagsOK, Ordered, Up
<1>3. requests = {} /\ replies = {} /\ errors = {} /\ fault = "none"
  BY DEF Init
<1>4. QED
  BY <1>1, <1>2, <1>3 DEF LInv

\* Rows only get ahead, so what is ahead of a promise stays ahead.
LEMMA AheadStays ==
    ASSUME NEW e \in Row, NEW x \in Row, NEW sn \in Nat, NEW hops \in Nat,
           NotBehind(e, x), Ahead(e, sn, hops)
    PROVE  Ahead(x, sn, hops)
BY DEF NotBehind, Ahead, Row, Entry

LEMMA MoveAdvances ==
    ASSUME NEW d \in Node, NEW e \in Row, NEW x \in Row, RowMove(d, e, x)
    PROVE  NotBehind(e, x)
BY DEF RowMove, Alike, NotBehind, Row, Entry

LEMMA LStepOK ==
    ASSUME IInv, IInv', LInv, LStep
    PROVE  LInv'
<1>1. \A n, d \in Node : /\ table[n][d] \in Row /\ table'[n][d] \in Row
                         /\ RowMove(d, table[n][d], table'[n][d])
  BY DEF IInv, RowsOK, LStep, Moves
<1>2. \A n, d \in Node : NotBehind(table[n][d], table'[n][d])
  BY <1>1, MoveAdvances
<1>3. ASSUME NEW n \in Node, NEW d \in Node, NEW sn \in Nat, NEW hops \in Nat,
             Ahead(table[n][d], sn, hops)
      PROVE  Ahead(table'[n][d], sn, hops)
  BY <1>1, <1>2, <1>3, AheadStays
<1>4. ASSUME NEW n \in Node, NEW d \in Node
      PROVE  FlagsOK(table'[n][d]) /\ Ordered(table'[n][d], d, table')
  <2> DEFINE e == table[n][d]
             x == table'[n][d]
  <2>1. /\ FlagsOK(e) /\ Ordered(e, d, table) /\ RowMove(d, e, x)
        /\ e \in Row /\ x \in Row
    BY <1>1 DEF LInv
  <2>2. x # None => x.seqno \in Nat /\ x.hops \in Nat /\ x.nexthop \in Node
    BY <2>1 DEF Row, Entry
  <2>3. Up(x) /\ x.nexthop # d => Ahead(table[x.nexthop][d], x.seqno, x.hops)
    <3> HIDE DEF e, x
    <3>1. CASE Alike(e, x)
      BY <2>1, <3>1 DEF Alike, Ordered, Up
    <3>2. CASE ~Alike(e, x)
      BY <2>1, <3>2 DEF RowMove, Up
    <3>3. QED
      BY <3>1, <3>2
  <2>4. Ordered(x, d, table')
    BY <1>3, <2>2, <2>3 DEF Ordered, Up
  <2>5. FlagsOK(x)
    <3> HIDE DEF e, x
    <3>1. QED
      BY <2>1 DEF FlagsOK, RowMove, Alike
  <2>6. QED
    BY <2>4, <2>5
<1>5. ASSUME NEW r \in requests' PROVE RequestKept(r, table')
  <2>1. CASE r \in requests
    <3>1. /\ r.from \in Node /\ r.src \in Node /\ r.srcSeqno \in Nat /\ r.hops \in Nat
      BY <2>1 DEF IInv, RequestsOK, RequestOK, Request
    <3>2. QED
      BY <1>3, <2>1, <3>1 DEF LInv, RequestKept
  <2>2. CASE r \notin requests
    BY <2>2 DEF LStep
  <2>3. QED
    BY <2>1, <2>2
<1>6. ASSUME NEW r \in replies' PROVE ReplyKept(r, table')
  <2>1. CASE r \in replies
    <3>1. /\ r.from \in Node /\ r.dst \in Node /\ r.dstSeqno \in Nat /\ r.hops \in Nat
      BY <2>1 DEF IInv, RepliesOK, ReplyOK, Reply
    <3>2. QED
      BY <1>3, <2>1, <3>1 DEF LInv, ReplyKept
  <2>2. CASE r \notin replies
    BY <2>2 DEF LStep
  <2>3. QED
    BY <2>1, <2>2
<1>7. \A r \in errors' : ErrorMarked(r)
  BY DEF LInv, LStep
<1>8. (\A n, d \in Node : repairs'[n][d] = 0) /\ fault' = "none"
  BY DEF LInv, LStep
<1>9. QED
  BY <1>4, <1>5, <1>6, <1>7, <1>8 DEF LInv

LEMMA AlikeSelf == ASSUME NEW e PROVE Alike(e, e)
BY DEF Alike

LEMMA MoveThenAlike ==
    ASSUME NEW d, NEW e, NEW y, NEW x, RowMove(d, e, y), Alike(y, x)
    PROVE  RowMove(d, e, x)
BY DEF RowMove, Alike, NotBehind

\* Moves of one row of the table.
LEMMA PutMoves ==
    ASSUME IInv, NEW n \in Node,
           \A m \in Node \ {n} : table'[m] = table[m],
           \A d \in Node : RowMove(d, table[n][d], table'[n][d])
    PROVE  Moves
<1>1. \A m, d \in Node : RowMove(d, table[m][d], table[m][d])
  BY AlikeSelf DEF RowMove
<1>2. QED
  BY <1>1 DEF Moves

LEMMA SameTableMoves ==
    ASSUME UNCHANGED table
    PROVE  Moves
BY AlikeSelf DEF Moves, RowMove

\* A usable route is up, and carries a number that its destination has made.
LEMMA UsableIsUp ==
    ASSUME NEW e, NEW s \in Nat, RowOK(e, s), FlagsOK(e), Usable(e)
    PROVE  Up(e) /\ e.seqno % 2 = 0 /\ e.seqno > 0 /\ e \in Entry
BY DEF RowOK, Row, Entry, FlagsOK, Usable, Up

LEMMA WithEntryMoves ==
    ASSUME IInv, LInv, NEW n \in Node, NEW d \in Node
    PROVE  \A c \in Node : /\ RowMove(c, table[n][c], WithEntry(table[n], d)[c])
                           /\ FlagsOK(WithEntry(table[n], d)[c])
<1> DEFINE t == WithEntry(table[n], d)
<1>1. /\ table[n][d] # None => t[d] = table[n][d]
      /\ table[n][d] = None => t[d] = NewEntry
      /\ \A c \in Node \ {d} : t[c] = table[n][c]
  BY WithEntryRows DEF IInv
<1> HIDE DEF t
<1>2. \A c \in Node : t[c] = table[n][c] \/ (table[n][c] = None /\ t[c] = NewEntry)
  BY <1>1
<1>3. /\ NewEntry # None /\ NewEntry.seqno = 0 /\ NewEntry.flags = "RTF_DOWN"
      /\ NewEntry.hops = INFINITY2
  BY NewEntryRow, 0 \in Nat DEF NewEntry
<1>4. \A c \in Node : RowMove(c, table[n][c], t[c]) /\ FlagsOK(t[c])
  BY <1>2, <1>3, AlikeSelf DEF RowMove, LInv, FlagsOK, Mark
<1>5. QED
  BY <1>4 DEF t

LEMMA ResolveMoves ==
    ASSUME IInv, LInv, NEW n \in Node, NEW p \in Packet, NEW air,
           Resolve(n, p, air)
    PROVE  /\ Moves
           /\ \A r \in requests' \ requests : RequestKept(r, table')
           /\ \A r \in errors' \ errors : ErrorMarked(r)
<1> DEFINE t == WithEntry(table[n], p.dst)
<1>0. p.dst \in Node
  BY DEF Packet
<1>1. /\ t \in [Node -> Row] /\ t[p.dst] # None
      /\ \A c \in Node : RowOK(t[c], seqno[c]) /\ NotOlder(table[n][c], t[c])
  BY <1>0, WithEntryRows DEF IInv
<1>2. \A c \in Node : RowMove(c, table[n][c], t[c]) /\ FlagsOK(t[c])
  BY <1>0, WithEntryMoves
<1> HIDE DEF t
<1>3. CASE UNCHANGED <<table, requests, errors>>
  BY <1>3, SameTableMoves
<1>4. CASE SendRequests(n, t, queue[n] \cup {p}, {p.dst}) /\ UNCHANGED errors
  <2> DEFINE q == queue[n] \cup {p}
             D == {p.dst}
  <2>1. q \in SUBSET Packet /\ D \in SUBSET Node /\ \A d \in D : t[d] # None
    BY <1>0, <1>1 DEF IInv, QueuesOK
  <2>2. SendRequests(n, t, q, D)
    BY <1>4
  <2> HIDE DEF q, D
  <2>3. NumbersOK /\ RequestsOK /\ RowsOK /\ queue \in [Node -> SUBSET Packet]
    BY DEF IInv, QueuesOK
  <2>4. Searched(n, t, q)
    BY <1>1, <2>1, <2>2, <2>3, SendRequestsOK
  <2>5. \A c \in Node : RowMove(c, table[n][c], table'[n][c])
    BY <1>2, <2>4, MoveThenAlike DEF Searched
  <2>6. Moves
    BY <2>4, <2>5, PutMoves DEF Searched
  <2>7. QED
    BY <1>4, <2>4, <2>6 DEF Searched, RequestKept
<1>5. CASE /\ t[p.dst].flags = "RTF_DOWN"
           /\ SendError(n, [NothingLost EXCEPT ![p.dst] = t[p.dst].seqno])
           /\ table' = [table EXCEPT ![n] = t]
           /\ UNCHANGED requests
  <2> DEFINE lost == [NothingLost EXCEPT ![p.dst] = t[p.dst].seqno]
  <2>1. table'[n] = t /\ \A m \in Node \ {n} : table'[m] = table[m]
    BY <1>5 DEF IInv, RowsOK
  <2>2. Moves
    BY <1>2, <2>1, PutMoves
  <2>3. Mark(t[p.dst].seqno)
    BY <1>0, <1>1, <1>2, <1>5 DEF FlagsOK
  <2>4. \A d \in Node : lost[d] # None => Mark(lost[d])
    BY <2>3 DEF NothingLost
  <2>5. SendError(n, lost)
    BY <1>5
  <2> HIDE DEF lost
  <2>6. \A r \in errors' \ errors : r.unreachable = lost
    BY <2>5 DEF SendError
  <2>7. \A r \in errors' \ errors : ErrorMarked(r)
    BY <2>4, <2>6 DEF ErrorMarked
  <2>8. QED
    BY <1>5, <2>2, <2>7
<1>6. QED
  <2>1. \/ UNCHANGED <<table, requests, errors>>
        \/ SendRequests(n, t, queue[n] \cup {p}, {p.dst}) /\ UNCHANGED errors
        \/ /\ t[p.dst].flags = "RTF_DOWN"
           /\ SendError(n, [NothingLost EXCEPT ![p.dst] = t[p.dst].seqno])
           /\ table' = [table EXCEPT ![n] = t]
           /\ UNCHANGED requests
    BY Zenon DEF Resolve, t
  <2>2. QED
    BY <2>1, <1>3, <1>4, <1>5

LEMMA OriginateMoves ==
    ASSUME IInv, LInv, NEW flow \in Flows, Originate(flow)
    PROVE  LStep
<1> DEFINE n == flow.src
           p == [id |-> sent, src |-> flow.src, dst |-> flow.dst, fwds |-> 0]
<1>1. n \in Node /\ flow.dst \in Node /\ sent \in Nat
  BY ConstantsAssumption DEF IInv, RestOK
<1>2. p \in Packet
  BY <1>1 DEF Packet
<1>3. Resolve(n, p, frames) /\ UNCHANGED <<repairs, replies, fault>>
  BY DEF Originate
<1> HIDE DEF n, p
<1>4. QED
  BY <1>1, <1>2, <1>3, ResolveMoves DEF LStep

LEMMA ReceiveMoves ==
    ASSUME IInv, LInv, NEW f \in frames, Receive(f)
    PROVE  LStep
<1>1. UNCHANGED <<repairs, replies, fault>>
  BY DEF Receive
<1>2. CASE UNCHANGED <<table, requests, errors>>
  BY <1>1, <1>2, SameTableMoves DEF LStep
<1>3. CASE Resolve(f.to, Hop(f.pkt), frames \ {f})
  <2>1. f.to \in Node /\ Hop(f.pkt) \in Packet
    BY DEF IInv, FramesOK, FrameOK, DataFrame, Packet, Hop
  <2>2. QED
    BY <1>1, <1>3, <2>1, ResolveMoves DEF LStep
<1>4. QED
  BY <1>2, <1>3 DEF Receive

\* The rows of a link failure and an expiry.
LEMMA InvalidatedMove ==
    ASSUME NEW d, NEW e \in Entry, NEW s \in Nat, RowOK(e, s), Up(e)
    PROVE  RowMove(d, e, Invalidated(e)) /\ Mark(e.seqno + 1)
<1> DEFINE x == Invalidated(e)
           y == [e EXCEPT !.seqno = e.seqno + 1]
<1>1. /\ e # None /\ e.seqno \in Nat /\ e.seqno % 2 = 0 /\ e.flags = "RTF_UP"
  BY NoneAssumption, RowType DEF Up
<1>2. y \in Entry /\ y.seqno = e.seqno + 1 /\ y.flags = "RTF_UP"
  BY <1>1 DEF Entry
<1>3. x = [y EXCEPT !.hops = INFINITY2, !.flags = "RTF_DOWN", !.nexthop = Zero]
  BY <1>2 DEF Invalidated, RtDown
<1> HIDE DEF x, y
<1>4. x \in Entry /\ x.seqno = e.seqno + 1 /\ x.flags = "RTF_DOWN" /\ x.hops = INFINITY2
  BY <1>2, <1>3, Retries DEF Entry
<1>5. Mark(e.seqno + 1) /\ x # None
  BY <1>1, <1>4, NoneAssumption DEF Mark
<1>6. RowMove(d, e, x)
  BY <1>1, <1>4, <1>5 DEF RowMove
<1>7. QED
  BY <1>5, <1>6 DEF x

LEMMA WithoutPrecursorAlike ==
    ASSUME NEW e \in Row, NEW m \in Node
    PROVE  Alike(e, WithoutPrecursor(e, m))
<1>1. CASE e = None
  BY <1>1 DEF WithoutPrecursor, Alike
<1>2. CASE e # None
  <2> DEFINE x == [e EXCEPT !.pre = @ \ {m}]
  <2>1. e \in Entry
    BY <1>2 DEF Row
  <2>2. /\ x \in Entry /\ x.seqno = e.seqno /\ x.hops = e.hops
        /\ x.nexthop = e.nexthop /\ x.flags = e.flags
    BY <2>1 DEF Entry
  <2>3. WithoutPrecursor(e, m) = x
    BY <1>2 DEF WithoutPrecursor
  <2> HIDE DEF x
  <2>4. QED
    BY <1>2, <2>1, <2>2, <2>3, NoneAssumption DEF Alike
<1>3. QED
  BY <1>1, <1>2

\* The routes through a neighbour satisfy the assertions.
LEMMA ThroughUp ==
    ASSUME IInv, LInv, NEW n \in Node, NEW D, NEW m, D \subseteq Through(n, m)
    PROVE  /\ UpAndEven(n, D)
           /\ \A d \in D : /\ d \in Node /\ table[n][d] \in Entry /\ Up(table[n][d])
                           /\ table[n][d].seqno % 2 = 0 /\ table[n][d].seqno > 0
                           /\ RowOK(table[n][d], seqno[d]) /\ seqno[d] \in Nat
<1>1. ASSUME NEW d \in D
      PROVE  /\ d \in Node /\ table[n][d] \in Entry /\ Up(table[n][d])
             /\ table[n][d].seqno % 2 = 0 /\ table[n][d].seqno > 0
             /\ RowOK(table[n][d], seqno[d]) /\ seqno[d] \in Nat
  <2>1. /\ d \in Node /\ Usable(table[n][d]) /\ FlagsOK(table[n][d])
        /\ RowOK(table[n][d], seqno[d]) /\ seqno[d] \in Nat
    BY DEF Through, LInv, IInv, RowsOK, NumbersOK
  <2>2. QED
    BY <2>1, UsableIsUp
<1>2. QED
  BY <1>1 DEF UpAndEven

LEMMA LinkFailureMoves ==
    ASSUME IInv, LInv, NEW f \in frames, LinkFailure(f)
    PROVE  LStep
<1> DEFINE n == f.from
           D == Through(n, f.to)
           x(d) == IF d \in D THEN Invalidated(table[n][d]) ELSE table[n][d]
           u == [d \in Node |-> WithoutPrecursor(x(d), f.to)]
           lost == [d \in Node |-> IF d \in D THEN table[n][d].seqno + 1 ELSE None]
<1>1. n \in Node /\ f.to \in Node
  BY DEF IInv, FramesOK, FrameOK, DataFrame
<1>2. /\ UpAndEven(n, D)
      /\ \A d \in D : /\ d \in Node /\ table[n][d] \in Entry /\ Up(table[n][d])
                      /\ RowOK(table[n][d], seqno[d]) /\ seqno[d] \in Nat
  BY <1>1, ThroughUp
<1>3. /\ table' = [table EXCEPT ![n] = u]
      /\ SendError(n, lost)
      /\ UNCHANGED <<repairs, requests, replies, fault>>
  BY <1>2 DEF LinkFailure
<1>4. \A d \in D : /\ RowMove(d, table[n][d], Invalidated(table[n][d]))
                   /\ Invalidated(table[n][d]) \in Row
                   /\ Mark(table[n][d].seqno + 1)
  BY <1>2, InvalidatedMove, InvalidatedRow DEF Row
<1>5. \A d \in Node : table[n][d] \in Row /\ RowMove(d, table[n][d], table[n][d])
  BY <1>1, AlikeSelf DEF IInv, RowsOK, RowMove
<1>6. \A d \in Node : x(d) \in Row /\ RowMove(d, table[n][d], x(d))
  BY <1>4, <1>5
<1>7. \A d \in Node : u[d] = WithoutPrecursor(x(d), f.to)
  OBVIOUS
<1>8. \A d \in Node : lost[d] # None => Mark(lost[d])
  BY <1>4
<1> HIDE DEF D, x, u, lost
<1>9. \A d \in Node : RowMove(d, table[n][d], u[d])
  BY <1>1, <1>6, <1>7, WithoutPrecursorAlike, MoveThenAlike
<1>10. table'[n] = u /\ \A m \in Node \ {n} : table'[m] = table[m]
  BY <1>1, <1>3 DEF IInv, RowsOK
<1>11. Moves
  BY <1>1, <1>9, <1>10, PutMoves
<1>12. \A r \in errors' \ errors : r.unreachable = lost
  BY <1>3 DEF SendError
<1>13. \A r \in errors' \ errors : ErrorMarked(r)
  BY <1>8, <1>12 DEF ErrorMarked
<1>14. QED
  BY <1>3, <1>11, <1>13 DEF LStep

\* What a node has learned is at least as good as what it was told.
LEMMA ToldMove ==
    ASSUME IInv, LInv, NEW n \in Node, NEW d \in Node, NEW m \in Node,
           NEW sn \in Nat, NEW hops \in Nat, sn % 2 = 0, sn <= seqno[d], sn > 0,
           m # d => Ahead(table[m][d], sn, hops)
    PROVE  /\ \A c \in Node : /\ RowMove(c, table[n][c], Told(n, d, m, sn, hops)[c])
                              /\ FlagsOK(Told(n, d, m, sn, hops)[c])
           /\ Ahead(Told(n, d, m, sn, hops)[d], sn, hops + 1)
           /\ Better(sn, hops, WithEntry(table[n], d)[d]) =>
                 /\ Told(n, d, m, sn, hops)[d].seqno = sn
                 /\ Told(n, d, m, sn, hops)[d].hops = hops
<1> DEFINE t0 == WithEntry(table[n], d)
           improves == Better(sn, hops, t0[d])
           t == Told(n, d, m, sn, hops)
           x == RtUpdate(t0[d], sn, hops, m)
<1>1. t = IF improves THEN [t0 EXCEPT ![d] = x] ELSE t0
  BY DEF Told
<1>2. /\ t0 \in [Node -> Row] /\ t0[d] \in Entry /\ t0[d] # None
      /\ table[n][d] # None => t0[d] = table[n][d]
  BY WithEntryRows DEF IInv, Row
<1>3. \A c \in Node : RowMove(c, table[n][c], t0[c]) /\ FlagsOK(t0[c])
  BY WithEntryMoves
<1>4. /\ x \in Entry /\ x # None /\ x.seqno = sn /\ x.hops = hops /\ x.nexthop = m
      /\ Up(x)
  <2>1. seqno[d] \in Nat
    BY DEF IInv, NumbersOK
  <2>2. QED
    BY <1>2, <2>1, RtUpdateRow
<1>5. t0[d].seqno \in Nat /\ t0[d].hops \in Nat
  BY <1>2 DEF Entry
<1> HIDE DEF t0, improves, t, x
<1>6. CASE ~improves
  <2>1. t = t0
    BY <1>1, <1>6
  <2>2. Ahead(t[d], sn, hops + 1)
    BY <1>2, <1>5, <1>6, <2>1 DEF improves, Better, Ahead
  <2>3. QED
    BY <1>3, <1>6, <2>1, <2>2 DEF t, improves, t0
<1>7. CASE improves
  <2>1. /\ t[d] = x /\ \A c \in Node \ {d} : t[c] = t0[c]
    BY <1>1, <1>2, <1>7
  <2>2. NotBehind(table[n][d], x)
    BY <1>2, <1>4, <1>5, <1>7 DEF NotBehind, improves, Better
  <2>3. RowMove(d, table[n][d], x)
    BY <1>4, <2>2 DEF RowMove, Up
  <2>4. FlagsOK(x)
    BY <1>4 DEF FlagsOK, Up
  <2>5. Ahead(x, sn, hops + 1)
    BY <1>4 DEF Ahead
  <2>6. /\ \A c \in Node : RowMove(c, table[n][c], t[c]) /\ FlagsOK(t[c])
        /\ Ahead(t[d], sn, hops + 1) /\ t[d].seqno = sn /\ t[d].hops = hops
    BY <1>3, <1>4, <2>1, <2>3, <2>4, <2>5
  <2>7. QED
    BY <2>6 DEF t
<1>8. QED
  BY <1>6, <1>7

LEMMA WithPrecursorAlike ==
    ASSUME NEW t \in [Node -> Row], NEW d \in Node, NEW m \in Node, t[d] # None
    PROVE  /\ WithPrecursor(t, d, m) \in [Node -> Row]
           /\ \A c \in Node : Alike(t[c], WithPrecursor(t, d, m)[c])
<1> DEFINE u == WithPrecursor(t, d, m)
<1>1. /\ u \in [Node -> Row] /\ u[d] \in Entry
      /\ u[d].seqno = t[d].seqno /\ u[d].hops = t[d].hops
      /\ u[d].nexthop = t[d].nexthop /\ u[d].flags = t[d].flags
      /\ \A c \in Node \ {d} : u[c] = t[c]
  BY WithPrecursorRow
<1> HIDE DEF u
<1>2. Alike(t[d], u[d])
  BY <1>1, NoneAssumption DEF Alike
<1>3. \A c \in Node : Alike(t[c], u[c])
  BY <1>1, <1>2, AlikeSelf
<1>4. QED
  BY <1>1, <1>3 DEF u

\* An operator that keeps rows alike changes no promise.
LEMMA AlikeAhead ==
    ASSUME NEW e, NEW x, NEW sn, NEW hops, Alike(e, x), Ahead(e, sn, hops)
    PROVE  Ahead(x, sn, hops)
BY DEF Alike, Ahead

LEMMA AlikeTwice ==
    ASSUME NEW e, NEW y, NEW x, Alike(e, y), Alike(y, x)
    PROVE  Alike(e, x)
BY DEF Alike

LEMMA RecvRequestMoves ==
    ASSUME IInv, LInv, NEW r \in requests, RecvRequest(r)
    PROVE  LStep
<1> DEFINE n == r.to
           improves == Better(r.srcSeqno, r.hops, WithEntry(table[n], r.src)[r.src])
           t == WithReverse(r, improves)
           e == t[r.dst]
<1>1. /\ r \in Request /\ r.from \in Node /\ n \in Node /\ r.src \in Node /\ r.dst \in Node
      /\ r.srcSeqno \in Nat /\ r.dstSeqno \in Nat /\ r.hops \in Nat
      /\ r.srcSeqno % 2 = 0 /\ r.srcSeqno <= seqno[r.src]
  BY DEF IInv, RequestsOK, RequestOK, Request
<1>2. r.srcSeqno > 0 /\ (r.from # r.src => Ahead(table[r.from][r.src], r.srcSeqno, r.hops))
  BY DEF LInv, RequestKept
<1>3. \/ /\ r.dst = n
         /\ seqno' = [seqno EXCEPT ![n] = NextEven(Larger(@, r.dstSeqno))]
         /\ SendReply(n, t, r.src, n, seqno'[n], 1)
         /\ table' = [table EXCEPT ![n] = t]
         /\ requests' = requests \ {r}
      \/ /\ r.dst # n /\ CanAnswer(e, r)
         /\ SendReply(n, t, r.src, r.dst, e.seqno, e.hops + 1)
         /\ table' = [table EXCEPT ![n] =
                WithPrecursor(WithPrecursor(t, r.dst, t[r.src].nexthop), r.src, e.nexthop)]
         /\ requests' = requests \ {r}
      \/ /\ \E heard \in SUBSET Neighbours(n) :
               requests' = (requests \ {r}) \cup {Forwarded(n, t, r, m) : m \in heard}
         /\ table' = [table EXCEPT ![n] = t]
         /\ UNCHANGED replies
  BY Zenon DEF RecvRequest
<1>4. UNCHANGED <<repairs, errors, fault>>
  BY DEF RecvRequest
<1>5. t = Told(n, r.src, r.from, r.srcSeqno, r.hops)
  BY DEF WithReverse, Told
<1> HIDE DEF n, improves, t
<1>6. /\ \A c \in Node : RowMove(c, table[n][c], t[c]) /\ FlagsOK(t[c])
      /\ Ahead(t[r.src], r.srcSeqno, r.hops + 1)
  BY <1>1, <1>2, <1>5, ToldMove
<1>7. t \in [Node -> Row] /\ t[r.src] # None /\ \A c \in Node : RowOK(t[c], seqno[c])
  BY <1>1, <1>5, ToldRow DEF IInv, Learned
  \* The rest of the step, from the table u of n it ends with.
<1>8. ASSUME NEW u \in [Node -> Row], table' = [table EXCEPT ![n] = u],
             \A c \in Node : Alike(t[c], u[c])
      PROVE  /\ Moves
             /\ \A c \in Node : \A sn, hops : Ahead(t[c], sn, hops) => Ahead(table'[n][c], sn, hops)
  <2>1. table'[n] = u /\ \A m \in Node \ {n} : table'[m] = table[m]
    BY <1>1, <1>8 DEF IInv, RowsOK
  <2>2. \A c \in Node : RowMove(c, table[n][c], u[c])
    BY <1>6, <1>8, MoveThenAlike
  <2>3. Moves
    BY <1>1, <2>1, <2>2, PutMoves
  <2>4. QED
    BY <1>8, <2>1, <2>3, AlikeAhead
<1>9. \A c \in Node : Alike(t[c], t[c])
  BY AlikeSelf
<1>10. CASE /\ r.dst = n
            /\ seqno' = [seqno EXCEPT ![n] = NextEven(Larger(@, r.dstSeqno))]
            /\ SendReply(n, t, r.src, n, seqno'[n], 1)
            /\ table' = [table EXCEPT ![n] = t]
            /\ requests' = requests \ {r}
  <2>1. Moves
    BY <1>7, <1>8, <1>9, <1>10
  <2>2. seqno'[n] > 0
    <3>1. seqno \in [Node -> Nat]
      BY DEF IInv, NumbersOK
    <3>2. seqno'[n] = NextEven(Larger(seqno[n], r.dstSeqno)) /\ seqno[n] \in Nat
      BY <1>1, <1>10, <3>1
    <3>3. QED
      BY <1>1, <3>2 DEF NextEven, Larger
  <2>3. \A x \in replies' \ replies : x.from = n /\ x.dst = n /\ x.dstSeqno = seqno'[n]
    BY <1>10 DEF SendReply, Reaching
  <2>4. \A x \in replies' \ replies : ReplyKept(x, table')
    BY <2>2, <2>3 DEF ReplyKept
  <2>5. QED
    BY <1>4, <1>10, <2>1, <2>4 DEF LStep
<1>11. CASE /\ r.dst # n /\ CanAnswer(e, r)
            /\ SendReply(n, t, r.src, r.dst, e.seqno, e.hops + 1)
            /\ table' = [table EXCEPT ![n] =
                   WithPrecursor(WithPrecursor(t, r.dst, t[r.src].nexthop), r.src, e.nexthop)]
            /\ requests' = requests \ {r}
  <2> DEFINE v == WithPrecursor(t, r.dst, t[r.src].nexthop)
             u == WithPrecursor(v, r.src, e.nexthop)
  <2>1. /\ e # None /\ e \in Entry /\ e.nexthop \in Node /\ e.hops \in Nat /\ e.seqno \in Nat
        /\ e.seqno > 0 /\ t[r.src].nexthop \in Node
    <3>1. Usable(e) /\ RowOK(e, seqno[r.dst]) /\ FlagsOK(e) /\ seqno[r.dst] \in Nat
      BY <1>1, <1>6, <1>7, <1>11 DEF CanAnswer, IInv, NumbersOK
    <3>2. e \in Entry /\ e.seqno > 0 /\ e # None
      BY <3>1, UsableIsUp DEF Usable
    <3>3. t[r.src] \in Entry
      BY <1>1, <1>7 DEF Row
    <3>4. QED
      BY <3>2, <3>3 DEF Entry
  <2>2. table' = [table EXCEPT ![n] = u] /\ SendReply(n, t, r.src, r.dst, e.seqno, e.hops + 1)
    BY <1>11
  <2>3. v \in [Node -> Row] /\ \A c \in Node : Alike(t[c], v[c])
    BY <1>1, <1>7, <2>1, WithPrecursorAlike
  <2> HIDE DEF v
  <2>4. v[r.src] # None
    BY <1>1, <1>7, <2>3 DEF Alike
  <2>5. u \in [Node -> Row] /\ \A c \in Node : Alike(v[c], u[c])
    BY <1>1, <2>1, <2>3, <2>4, WithPrecursorAlike
  <2> HIDE DEF u
  <2>6. \A c \in Node : Alike(t[c], u[c])
    BY <2>3, <2>5, AlikeTwice
  <2>7. /\ Moves
        /\ \A c \in Node : \A sn, hops : Ahead(t[c], sn, hops) => Ahead(table'[n][c], sn, hops)
    BY <1>8, <2>2, <2>5, <2>6
  <2>8. Ahead(table'[n][r.dst], e.seqno, e.hops + 1)
    <3>1. Ahead(e, e.seqno, e.hops + 1)
      BY <2>1 DEF Ahead
    <3>2. QED
      BY <1>1, <2>7, <3>1
  <2> HIDE DEF e
  <2>9. \A x \in replies' \ replies :
            x.from = n /\ x.dst = r.dst /\ x.dstSeqno = e.seqno /\ x.hops = e.hops + 1
    BY <2>2 DEF SendReply, Reaching
  <2>10. \A x \in replies' \ replies : ReplyKept(x, table')
    BY <2>1, <2>8, <2>9 DEF ReplyKept
  <2>11. QED
    BY <1>4, <1>11, <2>7, <2>10 DEF LStep
<1>12. CASE /\ \E heard \in SUBSET Neighbours(n) :
                  requests' = (requests \ {r}) \cup {Forwarded(n, t, r, m) : m \in heard}
            /\ table' = [table EXCEPT ![n] = t]
            /\ UNCHANGED replies
  <2>1. /\ Moves
        /\ \A c \in Node : \A sn, hops : Ahead(t[c], sn, hops) => Ahead(table'[n][c], sn, hops)
    BY <1>7, <1>8, <1>9, <1>12
  <2>2. PICK heard \in SUBSET Neighbours(n) :
            requests' = (requests \ {r}) \cup {Forwarded(n, t, r, m) : m \in heard}
    BY <1>12
  <2>3. ASSUME NEW m \in heard
        PROVE  RequestKept(Forwarded(n, t, r, m), table')
    <3> DEFINE x == Forwarded(n, t, r, m)
    <3>1. /\ x.from = n /\ x.src = r.src /\ x.srcSeqno = r.srcSeqno /\ x.hops = r.hops + 1
      BY <1>1 DEF Forwarded, Request
    <3> HIDE DEF x
    <3>2. RequestKept(x, table')
      BY <1>1, <1>2, <1>6, <2>1, <3>1 DEF RequestKept
    <3>3. QED
      BY <3>2 DEF x
  <2>4. \A x \in requests' \ requests : RequestKept(x, table')
    BY <2>2, <2>3
  <2>5. QED
    BY <1>4, <1>12, <2>1, <2>4 DEF LStep
<1>13. QED
  BY <1>3, <1>10, <1>11, <1>12

LEMMA RecvReplyMoves ==
    ASSUME IInv, LInv, NEW r \in replies, RecvReply(r)
    PROVE  LStep
<1> DEFINE n == r.to
           t0 == WithEntry(table[n], r.dst)
           improves == Better(r.dstSeqno, r.hops, t0[r.dst])
           t == IF improves
                THEN [t0 EXCEPT ![r.dst] = RtUpdate(t0[r.dst], r.dstSeqno, r.hops, r.from)]
                ELSE t0
           back == t[r.ipdst]
           passOn == improves /\ r.ipdst # n /\ Usable(back)
           u == IF passOn THEN WithPrecursor(t, r.dst, back.nexthop) ELSE t
           on == [r EXCEPT !.from = n, !.to = back.nexthop, !.hops = r.hops + 1]
<1>1. /\ r \in Reply /\ r.from \in Node /\ n \in Node /\ r.ipdst \in Node /\ r.dst \in Node
      /\ r.dstSeqno \in Nat /\ r.hops \in Nat
      /\ r.dstSeqno % 2 = 0 /\ r.dstSeqno <= seqno[r.dst]
  BY DEF IInv, RepliesOK, ReplyOK, Reply
<1>2. r.dstSeqno > 0 /\ (r.from # r.dst => Ahead(table[r.from][r.dst], r.dstSeqno, r.hops))
  BY DEF LInv, ReplyKept
<1>3. UNCHANGED <<requests, errors, repairs>>
  BY DEF RecvReply
<1>4. \/ passOn /\ ~Up(back)
      \/ /\ table' = [table EXCEPT ![n] = u]
         /\ replies' = (replies \ {r}) \cup (IF passOn THEN Reaching(n, on) ELSE {})
         /\ UNCHANGED fault
  BY Zenon DEF RecvReply
<1>5. t = Told(n, r.dst, r.from, r.dstSeqno, r.hops)
  BY DEF Told
<1> HIDE DEF n, t0, improves, t, u, on
<1>6. /\ \A c \in Node : RowMove(c, table[n][c], t[c]) /\ FlagsOK(t[c])
      /\ Ahead(t[r.dst], r.dstSeqno, r.hops + 1)
  BY <1>1, <1>2, <1>5, ToldMove
<1>7. /\ t \in [Node -> Row] /\ t[r.dst] # None
      /\ \A c \in Node : RowOK(t[c], seqno[c]) /\ seqno[c] \in Nat
  <2>1. NumbersOK /\ RowsOK /\ \A c \in Node : seqno[c] \in Nat
    BY DEF IInv, NumbersOK
  <2>2. Learned(n, r.dst, t, Better(r.dstSeqno, r.hops, WithEntry(table[n], r.dst)[r.dst]))
    BY <1>1, <1>5, <2>1, ToldRow
  <2>3. QED
    BY <2>1, <2>2 DEF Learned
<1>8. passOn => Up(back) /\ back \in Entry /\ back.nexthop \in Node
  <2>1. RowOK(back, seqno[r.ipdst]) /\ FlagsOK(back) /\ seqno[r.ipdst] \in Nat
    BY <1>1, <1>6, <1>7
  <2>2. Usable(back) => Up(back) /\ back \in Entry
    BY <2>1, UsableIsUp
  <2>3. QED
    BY <2>2 DEF Entry
<1>9. /\ table' = [table EXCEPT ![n] = u]
      /\ replies' = (replies \ {r}) \cup (IF passOn THEN Reaching(n, on) ELSE {})
      /\ UNCHANGED fault
  BY <1>4, <1>8
<1>10. u \in [Node -> Row] /\ \A c \in Node : Alike(t[c], u[c])
  <2>1. CASE ~passOn
    BY <2>1, <1>7, AlikeSelf DEF u
  <2>2. CASE passOn
    BY <2>2, <1>1, <1>7, <1>8, WithPrecursorAlike DEF u
  <2>3. QED
    BY <2>1, <2>2
<1>11. table'[n] = u /\ \A m \in Node \ {n} : table'[m] = table[m]
  BY <1>1, <1>9 DEF IInv, RowsOK
<1>12. \A c \in Node : RowMove(c, table[n][c], table'[n][c])
  BY <1>6, <1>10, <1>11, MoveThenAlike
<1>13. Moves
  BY <1>1, <1>11, <1>12, PutMoves
<1>14. Ahead(table'[n][r.dst], r.dstSeqno, r.hops + 1)
  BY <1>1, <1>6, <1>10, <1>11, AlikeAhead
<1>15. on.from = n /\ on.dst = r.dst /\ on.dstSeqno = r.dstSeqno /\ on.hops = r.hops + 1
  BY <1>1 DEF on, Reply
<1>16. ReplyKept(on, table')
  BY <1>2, <1>14, <1>15 DEF ReplyKept
<1>17. \A x \in replies' \ replies : ReplyKept(x, table')
  <2>1. Reaching(n, on) \subseteq {on}
    BY DEF Reaching
  <2>2. QED
    BY <1>9, <1>16, <2>1
<1>18. QED
  BY <1>3, <1>9, <1>13, <1>17 DEF LStep

LEMMA TakenMove ==
    ASSUME NEW d, NEW e \in Entry, Up(e), e.seqno % 2 = 0, e.seqno > 0,
           NEW k \in Nat, e.seqno <= k, Mark(k)
    PROVE  RowMove(d, e, [RtDown([e EXCEPT !.seqno = k]) EXCEPT !.pre = {}])
<1> DEFINE y == [e EXCEPT !.seqno = k]
           z == RtDown(y)
           x == [z EXCEPT !.pre = {}]
<1>1. y \in Entry /\ y.seqno = k /\ y.flags = "RTF_UP"
  BY DEF Up, Entry
<1>2. z = [y EXCEPT !.hops = INFINITY2, !.flags = "RTF_DOWN", !.nexthop = Zero]
  BY <1>1 DEF RtDown
<1> HIDE DEF y, z
<1>3. z \in Entry /\ z.seqno = k /\ z.flags = "RTF_DOWN" /\ z.hops = INFINITY2
  BY <1>1, <1>2, Retries DEF Entry
<1>4. x \in Entry /\ x.seqno = k /\ x.flags = "RTF_DOWN" /\ x.hops = INFINITY2
  BY <1>3 DEF Entry
<1>5. e.seqno \in Nat
  BY DEF Entry
<1>6. k # e.seqno
  BY <1>5 DEF Mark
<1> HIDE DEF x
<1>7. x # None /\ k > e.seqno
  BY <1>4, <1>5, <1>6, NoneAssumption
<1>8. RowMove(d, e, x)
  BY <1>4, <1>7 DEF RowMove
<1>9. QED
  BY <1>8 DEF x, z, y

LEMMA RecvErrorMoves ==
    ASSUME IInv, LInv, NEW r \in errors, RecvError(r)
    PROVE  LStep
<1> DEFINE n == r.to
           D == Concerned(r)
           tell == {d \in D : table[n][d].pre # {}}
           x(d) == [RtDown([table[n][d] EXCEPT !.seqno = r.unreachable[d]]) EXCEPT !.pre = {}]
           u == [d \in Node |-> IF d \in D THEN x(d) ELSE table[n][d]]
           lost == [d \in Node |-> IF d \in tell THEN r.unreachable[d] ELSE None]
<1>1. /\ r \in Error /\ n \in Node
      /\ r.unreachable \in [Node -> Nat \cup {None}]
      /\ \A d \in Node : r.unreachable[d] # None => Mark(r.unreachable[d])
  BY DEF IInv, LInv, ErrorsOK, ErrorOK, ErrorMarked, Error
<1>2. D \subseteq Through(n, r.from)
  BY DEF Concerned
<1>3. /\ UpAndEven(n, D)
      /\ \A d \in D : /\ d \in Node /\ table[n][d] \in Entry /\ Up(table[n][d])
                      /\ table[n][d].seqno % 2 = 0 /\ table[n][d].seqno > 0
  BY <1>1, <1>2, ThroughUp
<1>4. /\ table' = [table EXCEPT ![n] = u]
      /\ \E heard \in SUBSET Neighbours(n) :
             errors' = (errors \ {r}) \cup
                {[from |-> n, to |-> m, unreachable |-> lost] :
                     m \in IF tell = {} THEN {} ELSE heard}
      /\ UNCHANGED <<requests, replies, repairs, fault>>
  BY <1>3 DEF RecvError
<1>5. \A d \in D : /\ r.unreachable[d] \in Nat /\ Mark(r.unreachable[d])
                   /\ table[n][d].seqno <= r.unreachable[d]
  BY <1>1, <1>3 DEF Concerned
<1>6. \A d \in D : RowMove(d, table[n][d], x(d))
  BY <1>3, <1>5, TakenMove
<1>7. \A d \in Node : RowMove(d, table[n][d], u[d])
  <2> TAKE d \in Node
  <2>1. CASE d \in D
    <3>1. u[d] = x(d)
      BY <2>1
    <3>2. QED
      BY <2>1, <3>1, <1>6
  <2>2. CASE d \notin D
    <3>1. u[d] = table[n][d]
      BY <2>2
    <3>2. QED
      BY <3>1, AlikeSelf DEF RowMove
  <2>3. QED
    BY <2>1, <2>2
<1>8. \A d \in Node : lost[d] # None => Mark(lost[d])
  BY <1>1
<1> HIDE DEF D, tell, x, u, lost
<1>9. table'[n] = u /\ \A m \in Node \ {n} : table'[m] = table[m]
  BY <1>1, <1>4 DEF IInv, RowsOK
<1>10. Moves
  BY <1>1, <1>7, <1>9, PutMoves
<1>11. \A y \in errors' \ errors : y.unreachable = lost
  BY <1>4
<1>12. \A y \in errors' \ errors : ErrorMarked(y)
  BY <1>8, <1>11 DEF ErrorMarked
<1>13. QED
  BY <1>4, <1>10, <1>12 DEF LStep

LEMMA PurgeMoves ==
    ASSUME IInv, LInv, NEW n \in Node,
           NEW expired \in SUBSET {d \in Node : Up(table[n][d])}, Purge(n, expired)
    PROVE  LStep
<1> DEFINE up == {d \in Node : Up(table[n][d])}
           t  == [d \in Node |-> IF d \in expired THEN Invalidated(table[n][d])
                                 ELSE table[n][d]]
           q  == {p \in queue[n] : p.dst \notin up}
           D  == {p.dst : p \in q}
<1>1. SendRequests(n, t, q, D) /\ UNCHANGED <<repairs, replies, errors, fault>>
  BY DEF Purge
<1>2. q \in SUBSET Packet /\ D \in SUBSET Node
  BY DEF IInv, QueuesOK, Packet
<1>3. \A c \in Node : /\ table[n][c] \in Row /\ RowOK(table[n][c], seqno[c])
                      /\ seqno[c] \in Nat /\ NotOlder(table[n][c], table[n][c])
                      /\ RowMove(c, table[n][c], table[n][c])
  BY AlikeSelf DEF IInv, RowsOK, NumbersOK, NotOlder, Row, Entry, RowMove
<1>4. ASSUME NEW c \in Node
      PROVE  /\ t[c] \in Row /\ RowOK(t[c], seqno[c]) /\ NotOlder(table[n][c], t[c])
             /\ RowMove(c, table[n][c], t[c])
  <2>1. CASE c \in expired
    <3>1. t[c] = Invalidated(table[n][c]) /\ Up(table[n][c]) /\ table[n][c] \in Entry
      BY <2>1, <1>3 DEF Up, Row
    <3>2. QED
      BY <2>1, <3>1, <1>3, InvalidatedRow, InvalidatedMove DEF Row
  <2>2. CASE c \notin expired
    BY <2>2, <1>3
  <2>3. QED
    BY <2>1, <2>2
<1>5. t \in [Node -> Row]
  BY <1>4
<1>6. \A c \in D : t[c] # None
  BY <1>2, <1>4 DEF IInv, QueuesOK, MayWait, NotOlder
<1> HIDE DEF t, q, D
<1>7. NumbersOK /\ RequestsOK /\ RowsOK /\ queue \in [Node -> SUBSET Packet]
  BY DEF IInv, QueuesOK
<1>8. \A c \in Node : RowOK(t[c], seqno[c]) /\ NotOlder(table[n][c], t[c])
  BY <1>4
<1>9. Searched(n, t, q)
  BY <1>1, <1>2, <1>5, <1>6, <1>7, <1>8, SendRequestsOK
<1>10. \A c \in Node : RowMove(c, table[n][c], table'[n][c])
  BY <1>4, <1>9, MoveThenAlike DEF Searched
<1>11. Moves
  BY <1>9, <1>10, PutMoves DEF Searched
<1>12. QED
  BY <1>1, <1>9, <1>11 DEF LStep, Searched, RequestKept

LEMMA RequestTimeoutMoves ==
    ASSUME IInv, LInv, NEW n \in Node, NEW d \in Node, RequestTimeout(n, d)
    PROVE  LStep
<1> DEFINE e == table[n][d]
           x == [e EXCEPT !.waiting = FALSE]
<1>1. e # None /\ UNCHANGED <<repairs, requests, replies, errors, fault>>
  BY DEF RequestTimeout
<1>2. /\ table' = [table EXCEPT ![n] = [@ EXCEPT ![d] = x]]
      /\ table \in [Node -> [Node -> Row]] /\ e \in Entry
  BY <1>1 DEF RequestTimeout, IInv, RowsOK, Row
<1>3. Alike(e, x)
  <2>1. /\ x \in Entry /\ x.seqno = e.seqno /\ x.hops = e.hops
        /\ x.nexthop = e.nexthop /\ x.flags = e.flags
    BY <1>2 DEF Entry
  <2> HIDE DEF x
  <2>2. QED
    BY <1>2, <2>1, NoneAssumption DEF Alike
<1> HIDE DEF x
<1>4. /\ \A m \in Node \ {n} : table'[m] = table[m]
      /\ table'[n][d] = x /\ \A c \in Node \ {d} : table'[n][c] = table[n][c]
  BY <1>2
<1>5. \A c \in Node : RowMove(c, table[n][c], table'[n][c])
  BY <1>3, <1>4, AlikeSelf DEF RowMove
<1>6. Moves
  BY <1>4, <1>5, PutMoves
<1>7. QED
  BY <1>1, <1>6 DEF LStep

\* As long as no route is repaired locally.
NoLocalRepair == [][\A f \in frames : ~LocalRepair(f)]_vars

LEMMA EveryStepMoves ==
    ASSUME IInv, LInv, [Next]_vars, [\A f \in frames : ~LocalRepair(f)]_vars
    PROVE  LStep
<1>1. ASSUME NEW n \in Node, NodeStep(n) PROVE LStep
  <2>1. CASE Egoista(n)
    BY <2>1, SameTableMoves DEF Egoista, LStep
  <2>2. ASSUME NEW d \in Node, RepairTimeout(n, d) PROVE LStep
    <3>1. repairs[n][d] = 0 /\ repairs[n][d] > 0
      BY <2>2 DEF LInv, RepairTimeout
    <3>2. QED
      BY <3>1
  <2>3. ASSUME NEW d \in Node, RequestTimeout(n, d) PROVE LStep
    BY <2>3, RequestTimeoutMoves
  <2>4. ASSUME NEW expired \in SUBSET {d \in Node : Up(table[n][d])}, Purge(n, expired)
        PROVE  LStep
    BY <2>4, PurgeMoves
  <2>5. QED
    BY <1>1, <2>1, <2>2, <2>3, <2>4 DEF NodeStep
<1>2. ASSUME NEW flow \in Flows, Originate(flow) PROVE LStep
  BY <1>2, OriginateMoves
<1>3. ASSUME NEW f \in frames, Receive(f) \/ LinkFailure(f) PROVE LStep
  BY <1>3, ReceiveMoves, LinkFailureMoves
<1>4. ASSUME NEW r \in requests, IgnoreRequest(r) \/ RecvRequest(r) PROVE LStep
  <2>1. CASE IgnoreRequest(r)
    BY <2>1, SameTableMoves DEF IgnoreRequest, LStep
  <2>2. CASE RecvRequest(r)
    BY <2>2, RecvRequestMoves
  <2>3. QED
    BY <1>4, <2>1, <2>2
<1>5. ASSUME NEW r \in replies, RecvReply(r) \/ LoseReply(r) PROVE LStep
  <2>1. CASE LoseReply(r)
    BY <2>1, SameTableMoves DEF LoseReply, LStep
  <2>2. CASE RecvReply(r)
    BY <2>2, RecvReplyMoves
  <2>3. QED
    BY <1>5, <2>1, <2>2
<1>6. ASSUME NEW r \in errors, RecvError(r) PROVE LStep
  BY <1>6, RecvErrorMoves
<1>7. CASE UNCHANGED vars
  BY <1>7, SameTableMoves DEF vars, LStep
<1>8. CASE Next /\ ~UNCHANGED vars
  <2>1. \A f \in frames : ~LocalRepair(f)
    BY <1>8
  <2>2. QED
    BY <1>1, <1>2, <1>3, <1>4, <1>5, <1>6, <1>8, <2>1 DEF Next
<1>9. QED
  BY <1>7, <1>8

LEMMA LInvariant == Spec /\ NoLocalRepair => [](IInv /\ LInv)
<1>1. Init => IInv /\ LInv
  BY InitOK, LInitOK
<1>2. IInv /\ LInv /\ [Next]_vars /\ [\A f \in frames : ~LocalRepair(f)]_vars
          => (IInv /\ LInv)'
  BY EveryStepOK, EveryStepMoves, LStepOK DEF StepOK
<1>3. QED
  BY <1>1, <1>2, PTL DEF Spec, NoLocalRepair

\* As long as no route is repaired locally, no handler runs into one of its
\* assertions on the flags and the number of a route (l.374, l.942, l.979): the
\* disagreement that a run finds needs a route in repair.
THEOREM AssertionsStand == Spec /\ NoLocalRepair => []AssertionsHold
<1>1. LInv => AssertionsHold
  BY DEF LInv, AssertionsHold
<1>2. QED
  BY <1>1, LInvariant, PTL

LEMMA OrderHolds == IInv /\ LInv => HopOrder
<1> SUFFICES ASSUME IInv, LInv PROVE HopOrder
  OBVIOUS
<1>1. ASSUME NEW n \in Node, NEW d \in Node \ {n}, Usable(table[n][d])
      PROVE  HopKnowsBetter(n, d)
  <2>1. /\ RowOK(table[n][d], seqno[d]) /\ FlagsOK(table[n][d]) /\ seqno[d] \in Nat
        /\ Ordered(table[n][d], d, table)
    BY DEF IInv, LInv, RowsOK, NumbersOK
  <2>2. /\ Up(table[n][d]) /\ table[n][d] # None
        /\ table[n][d].seqno \in Nat /\ table[n][d].seqno <= seqno[d]
    BY <1>1, <2>1, UsableIsUp, RowType DEF Usable
  <2>3. QED
    BY <2>1, <2>2 DEF HopKnowsBetter, Ordered, Ahead
<1>2. \A r \in replies : SenderStandsBy(r)
  BY DEF LInv, ReplyKept, SenderStandsBy, Ahead
<1>3. QED
  BY <1>1, <1>2 DEF HopOrder

\* As long as no route is repaired locally, the next hop of a usable route knows
\* the destination by a newer number or a shorter route, and every reply in the
\* air promises no more than its sender keeps, whatever is lost and overtaken.
THEOREM OrderAlongHops == Spec /\ NoLocalRepair => []HopOrder
BY LInvariant, OrderHolds, PTL

LEMMA LeastNat ==
    ASSUME NEW T, T \subseteq Nat, T # {}
    PROVE  \E x \in T : \A y \in T : x <= y
<1> DEFINE R == OpToRel(<, Nat)
<1>1. IsWellFoundedOn(R, Nat)
  BY NatLessThanWellFounded
<1>2. \A x, y \in Nat : x < y => <<x, y>> \in R
  BY DEF OpToRel
<1> HIDE DEF R
<1>3. PICK x \in T : \A y \in T : ~ (<<y, x>> \in R)
  BY <1>1, WFMin
<1>4. ASSUME NEW y \in T PROVE x <= y
  <2>1. x \in Nat /\ y \in Nat
    OBVIOUS
  <2>2. ~ (y < x)
    BY <1>2, <1>3, <2>1
  <2>3. QED
    BY <2>1, <2>2
<1>5. QED
  BY <1>4

\* On a circle there would be a node with the newest number and, among those, one
\* with the shortest route; its next hop would have to be ahead of it.
LEMMA NoCircle == IInv /\ LInv => LoopFree
<1> SUFFICES ASSUME IInv, LInv,
                    NEW d \in Node, NEW S \in SUBSET (Node \ {d}), S # {},
                    \A n \in S : Up(table[n][d]) /\ table[n][d].nexthop \in S
             PROVE  FALSE
  BY DEF LoopFree
<1> DEFINE e(n) == table[n][d]
           age(n) == seqno[d] - e(n).seqno
<1>1. ASSUME NEW n \in S
      PROVE  /\ n \in Node /\ e(n).seqno \in Nat /\ e(n).hops \in Nat /\ age(n) \in Nat
             /\ e(n).nexthop \in S
             /\ Ahead(e(e(n).nexthop), e(n).seqno, e(n).hops)
  <2>1. /\ RowOK(e(n), seqno[d]) /\ seqno[d] \in Nat /\ Ordered(e(n), d, table)
        /\ Up(e(n)) /\ e(n) # None /\ e(n).nexthop \in S /\ e(n).nexthop # d
    BY DEF IInv, LInv, RowsOK, NumbersOK, Up
  <2>2. e(n).seqno \in Nat /\ e(n).hops \in Nat /\ e(n).seqno <= seqno[d]
    BY <2>1, RowType
  <2>3. QED
    BY <2>1, <2>2 DEF Ordered
<1>2. seqno[d] \in Nat
  BY DEF IInv, NumbersOK
<1> HIDE DEF e
<1>3. PICK a \in S : \A n \in S : age(a) <= age(n)
  <2> DEFINE T == {age(n) : n \in S}
  <2>1. T \subseteq Nat /\ T # {}
    BY <1>1
  <2> HIDE DEF T
  <2>2. PICK x \in T : \A y \in T : x <= y
    BY <2>1, LeastNat
  <2>3. QED
    BY <2>2 DEF T
<1>4. \A n \in S : e(n).seqno <= e(a).seqno
  <2> TAKE n \in S
  <2>1. age(a) <= age(n) /\ e(a).seqno \in Nat /\ e(n).seqno \in Nat
    BY <1>1, <1>3
  <2>2. QED
    BY <1>2, <2>1
<1> DEFINE newest == {n \in S : e(n).seqno = e(a).seqno}
<1>5. PICK b \in newest : \A n \in newest : e(b).hops <= e(n).hops
  <2> DEFINE T == {e(n).hops : n \in newest}
  <2>1. T \subseteq Nat /\ T # {}
    BY <1>1
  <2> HIDE DEF T
  <2>2. PICK x \in T : \A y \in T : x <= y
    BY <2>1, LeastNat
  <2>3. QED
    BY <2>2 DEF T
<1> DEFINE c == e(b).nexthop
<1>6. c \in S /\ Ahead(e(c), e(b).seqno, e(b).hops)
  BY <1>1
<1>7. /\ e(c).seqno \in Nat /\ e(c).hops \in Nat /\ e(b).hops \in Nat
      /\ e(b).seqno = e(a).seqno /\ e(a).seqno \in Nat /\ e(c).seqno <= e(a).seqno
  BY <1>1, <1>4, <1>6
<1>8. e(c).seqno = e(a).seqno /\ e(c).hops < e(b).hops
  BY <1>6, <1>7 DEF Ahead
<1>9. e(b).hops <= e(c).hops
  BY <1>5, <1>6, <1>8
<1>10. QED
  BY <1>7, <1>8, <1>9

\* As long as no route is repaired locally, no set of nodes passes packets for a
\* destination around in a circle: in no network, and for any number of losses,
\* expiries and failed links.
THEOREM LoopFreedom == Spec /\ NoLocalRepair => []LoopFree
BY LInvariant, NoCircle, PTL

\* Without local repair compiled in, no hypothesis is needed: the order, the
\* assertions and freedom from loops hold in every behaviour.
THEOREM WithoutLocalRepair ==
    ASSUME AODV_LOCAL_REPAIR = FALSE
    PROVE  Spec => [](HopOrder /\ LoopFree /\ AssertionsHold)
<1>1. \A f \in frames : ~LocalRepair(f)
  BY DEF LocalRepair, Repairable
<1>2. NoLocalRepair
  BY <1>1, PTL DEF NoLocalRepair
<1>3. QED
  BY <1>2, OrderAlongHops, LoopFreedom, AssertionsStand, PTL
=============================================================================
