-------------------------------- MODULE AODV --------------------------------
(***************************************************************************)
(* The AODV routing agent of aodv.cc / aodv.h: on-demand routes found by   *)
(* flooded requests (RREQ) and unicast replies (RREP), errors (RERR), link *)
(* failures reported by the MAC, local repair, and the selfish data plane  *)
(* of AODV::recv.  The macros AODV_LINK_LAYER_DETECTION (hello messages    *)
(* are not sent) and, as a constant, AODV_LOCAL_REPAIR are those of aodv.h.*)
(*                                                                         *)
(* Time is abstracted: a route may be found expired whenever the purge     *)
(* timer runs, a request times out and a repair timer fires at any moment. *)
(* The time to live of requests is left out: a request that does not reach *)
(* far enough is one that the radio lost.  bid grows only in sendRequest,  *)
(* where seqno grows too, so <<rq_src, rq_src_seqno>> identifies a request;*)
(* the cache of identifiers outlives (6 s) every copy of a request.        *)
(***************************************************************************)
EXTENDS Integers, FiniteSets

CONSTANTS
    Node,               \* the mobile nodes
    Zero,               \* the node with address 0, where a reset rt_nexthop points
    Link,               \* ordered pairs of nodes that may hear each other
    INFINITY2,          \* rt_hops of a route that is down
    NETWORK_DIAMETER,   \* time to live of a packet that starts its journey
    RREQ_RETRIES,       \* network-wide searches before the long pause
    AODV_LOCAL_REPAIR,  \* is local repair compiled in?
    Flows,              \* [src, dst] of the data the applications send
    Egoists,            \* the nodes the scripts switch to selfish behaviour
    None,               \* no routing table entry
    MaxSeqno,           \* bound: per node, no request once the own number has come to this
    MaxRequests,        \* bound: copies of requests in the air
    MaxFailures,        \* bound: link failures and expired routes
    MaxPackets          \* bound: packets the applications originate

ASSUME ConstantsAssumption ==
    /\ IsFiniteSet(Node) /\ Zero \in Node
    /\ Link \subseteq Node \X Node /\ Egoists \subseteq Node
    /\ INFINITY2 \in Nat /\ INFINITY2 > 1
    /\ NETWORK_DIAMETER \in Nat \ {0} /\ RREQ_RETRIES \in Nat
    /\ AODV_LOCAL_REPAIR \in BOOLEAN
    /\ Flows \subseteq {f \in [src : Node, dst : Node] : f.src # f.dst}
    /\ MaxSeqno \in [Node -> Nat] /\ MaxRequests \in Nat
    /\ MaxFailures \in Nat /\ MaxPackets \in Nat

VARIABLES
    table,      \* rtable: per node and destination an entry or None
    seqno,      \* the sequence number a node gives itself
    queue,      \* rqueue: per node the packets that wait for a route
    seen,       \* bihead: per node the requests it has handled
    repairs,    \* lrtimer: pending local repair timers per node and destination
    selfish,    \* the egoista_on / egoista_off switch
    requests,   \* RREQ in the air, one record per receiver
    replies,    \* RREP on their way to the next hop
    errors,     \* RERR in the air, one record per receiver
    frames,     \* data on their way to the next hop (interface queue and air)
    sent,       \* packets originated so far (bounds the model, names a packet)
    failures,   \* link failures and expiries so far (bounds the model only)
    fault       \* "none", or the handler whose assertion has failed

vars == <<table, seqno, queue, seen, repairs, selfish, requests, replies, errors,
          frames, sent, failures, fault>>

-----------------------------------------------------------------------------
(* Data *)

\* A data packet; fwds is num_forwards, and ttl_ = NETWORK_DIAMETER - fwds.
Packet == [id : Nat, src : Node, dst : Node, fwds : Nat]

\* aodv_rt_entry: pre is the list of precursors; waiting says that
\* rt_req_timeout lies in the future.
Entry == [seqno : Nat, hops : Nat, nexthop : Node,
          flags : {"RTF_UP", "RTF_DOWN", "RTF_IN_REPAIR"},
          pre : SUBSET Node, cnt : 0..(RREQ_RETRIES + 1), waiting : BOOLEAN]

Request == [from : Node, to : Node, src : Node, srcSeqno : Nat,
            dst : Node, dstSeqno : Nat, hops : Nat]
Reply   == [from : Node, to : Node, ipdst : Node, dst : Node, dstSeqno : Nat, hops : Nat]
Error   == [from : Node, to : Node, unreachable : [Node -> Nat \cup {None}]]

ASSUME NoneAssumption == None \notin Entry \cup Nat

\* rt_add
NewEntry == [seqno |-> 0, hops |-> INFINITY2, nexthop |-> Zero, flags |-> "RTF_DOWN",
             pre |-> {}, cnt |-> 0, waiting |-> FALSE]

WithEntry(t, d) == [t EXCEPT ![d] = IF t[d] = None THEN NewEntry ELSE t[d]]

Up(e)     == e # None /\ e.flags = "RTF_UP"
Usable(e) == e # None /\ e.hops # INFINITY2

Neighbours(n) == {m \in Node : m # n /\ <<n, m>> \in Link}

\* A unicast message whose next hop is out of reach is lost.
Reaching(n, msg) == IF msg.to \in Neighbours(n) THEN {msg} ELSE {}

-----------------------------------------------------------------------------
(* Route table operations *)

\* rt_update, with the soft state of the route request reset by its callers.
RtUpdate(e, sn, hops, nexthop) ==
    [e EXCEPT !.seqno = sn, !.hops = hops, !.nexthop = nexthop,
              !.flags = "RTF_UP", !.cnt = 0, !.waiting = FALSE]

RtDown(e) ==
    IF e.flags = "RTF_DOWN" THEN e
    ELSE [e EXCEPT !.hops = INFINITY2, !.flags = "RTF_DOWN", !.nexthop = Zero]

Invalidated_SameNumber(e) == RtDown(e)

\* rt_seqno++ before a route is brought down.
Invalidated(e) == RtDown([e EXCEPT !.seqno = e.seqno + 1])

\* A newer route, or a shorter one of the same age.
Better(sn, hops, e) == sn > e.seqno \/ (sn = e.seqno /\ hops < e.hops)

\* forward, of a data packet over a route that is up.
Frame(n, t, p) == [from |-> n, to |-> t[p.dst].nexthop, pkt |-> p]

Waiting_OldestOnly(n, d) ==
    {p \in queue[n] : p.dst = d /\ \A q \in queue[n] : q.dst = d => p.id <= q.id}

Waiting(n, d) == {p \in queue[n] : p.dst = d}

\* The packets for d leave the queue of n over table t.
Flush(n, t, d) == {Frame(n, t, p) : p \in Waiting(n, d)}

-----------------------------------------------------------------------------
(* sendRequest for every destination in D, in some order; t and q are the  *)
(* routing table and the queue of n.                                       *)

MaySearch(e) == ~Up(e) /\ ~e.waiting

Searching_CountsTwice(e, wide) ==
    [e EXCEPT !.waiting = TRUE, !.cnt = IF wide THEN e.cnt + 2 ELSE e.cnt]

\* Network-wide searches are counted, those of the expanding ring are not.
Searching(e, wide) ==
    [e EXCEPT !.waiting = TRUE, !.cnt = IF wide THEN e.cnt + 1 ELSE e.cnt]

MayFlood(e) == e.cnt <= RREQ_RETRIES

GivingUp(e) == [e EXCEPT !.waiting = TRUE, !.cnt = 0]

SendRequests(n, t, q, D) ==
    LET ready  == {d \in D : MaySearch(t[d])}
        search == {d \in ready : MayFlood(t[d])}
        giveUp == ready \ search
    IN  /\ search # {} => seqno[n] < MaxSeqno[n]
        /\ \E wide \in SUBSET search, heard \in [search -> SUBSET Neighbours(n)],
              turn \in [search -> 1..Cardinality(search)] :
              /\ \A d, e \in search : turn[d] = turn[e] => d = e
              /\ requests' = requests \cup
                    UNION {{[from |-> n, to |-> m, src |-> n,
                             srcSeqno |-> seqno[n] + 2 * turn[d], dst |-> d,
                             dstSeqno |-> t[d].seqno, hops |-> 1] : m \in heard[d]} :
                                d \in search}
              /\ Cardinality(requests') <= MaxRequests
              /\ table' = [table EXCEPT ![n] = [d \in Node |->
                    IF d \in search THEN Searching(t[d], d \in wide)
                    ELSE IF d \in giveUp THEN GivingUp(t[d])
                    ELSE t[d]]]
        /\ seqno' = [seqno EXCEPT ![n] = seqno[n] + 2 * Cardinality(search)]
        /\ queue' = [queue EXCEPT ![n] = {p \in q : p.dst \notin giveUp}]

\* sendError: lost tells the number of each unreachable destination.
SendError(n, lost) ==
    IF \E d \in Node : lost[d] # None
    THEN \E heard \in SUBSET Neighbours(n) :
            errors' = errors \cup
                {[from |-> n, to |-> m, unreachable |-> lost] : m \in heard}
    ELSE errors' = errors

NothingLost == [d \in Node |-> None]

-----------------------------------------------------------------------------
(* Data packets: recv, rt_resolve, rt_ll_failed *)

\* rt_resolve at n; air: the frames in the air.
Resolve(n, p, air) ==
    LET t == WithEntry(table[n], p.dst)
        e == t[p.dst]
    IN  \/ /\ Up(e)
           /\ frames' = air \cup {Frame(n, t, p)}
           /\ UNCHANGED <<table, seqno, queue, requests, errors>>
        \/ /\ ~Up(e) /\ p.src = n
           /\ SendRequests(n, t, queue[n] \cup {p}, {p.dst})
           /\ frames' = air
           /\ UNCHANGED errors
        \/ /\ e.flags = "RTF_IN_REPAIR" /\ p.src # n
           /\ queue' = [queue EXCEPT ![n] = @ \cup {p}]
           /\ frames' = air
           /\ UNCHANGED <<table, seqno, requests, errors>>
        \/ /\ e.flags = "RTF_DOWN" /\ p.src # n
           /\ SendError(n, [NothingLost EXCEPT ![p.dst] = e.seqno])
           /\ table' = [table EXCEPT ![n] = t]
           /\ frames' = air
           /\ UNCHANGED <<seqno, queue, requests>>

\* An application hands data to the agent of its node.
Originate(flow) ==
    /\ sent < MaxPackets /\ sent' = sent + 1
    /\ Resolve(flow.src, [id |-> sent, src |-> flow.src, dst |-> flow.dst, fwds |-> 0], frames)
    /\ UNCHANGED <<seen, repairs, selfish, replies, failures, fault>>

Hop(p) == [p EXCEPT !.fwds = p.fwds + 1]

Refused_NeverSelfish(n, p) == p.src = n \/ p.fwds = NETWORK_DIAMETER

\* What recv drops of a packet that comes from the network: the node's own,
\* one whose time to live is over, any if the node is selfish.
Refused(n, p) == p.src = n \/ p.fwds = NETWORK_DIAMETER \/ selfish[n]

\* The classifier has the packet of a node's own applications before recv.
Receive(f) ==
    /\ \/ /\ f.to = f.pkt.dst \/ Refused(f.to, Hop(f.pkt))
          /\ frames' = frames \ {f}
          /\ UNCHANGED <<table, seqno, queue, requests, errors>>
       \/ /\ f.to # f.pkt.dst /\ ~Refused(f.to, Hop(f.pkt))
          /\ Resolve(f.to, Hop(f.pkt), frames \ {f})
    /\ UNCHANGED <<seen, repairs, selfish, replies, sent, failures, fault>>

\* rt_ll_failed: is the broken link closer to the destination than to the
\* source?  Entries are never deleted, so rt_lookup finds one.
Repairable(n, p) == AODV_LOCAL_REPAIR /\ p.fwds > table[n][p.dst].hops

LocalRepair(f) ==
    LET n == f.from
        d == f.pkt.dst
        t == [table[n] EXCEPT ![d] = [table[n][d] EXCEPT !.flags = "RTF_IN_REPAIR"]]
    IN  /\ failures < MaxFailures /\ failures' = failures + 1
        /\ Repairable(n, f.pkt)
        /\ SendRequests(n, t, queue[n] \cup {f.pkt}, {d})
        /\ frames' = frames \ {f}
        /\ repairs' = [repairs EXCEPT ![n][d] = @ + 1]
        /\ UNCHANGED <<seen, selfish, replies, errors, sent, fault>>

\* The routes of n that use neighbour m.
Through(n, m) == {d \in Node : Usable(table[n][d]) /\ table[n][d].nexthop = m}

\* assert(rt->rt_flags == RTF_UP); assert((rt->rt_seqno % 2) == 0)
UpAndEven(n, D) == \A d \in D : Up(table[n][d]) /\ table[n][d].seqno % 2 = 0

\* The interface queue is searched for packets to m (ifqueue->filter).
FilterQueue(n, m, air) ==
    \E gone \in SUBSET {f \in air : f.from = n /\ f.to = m} : frames' = air \ gone

WithoutPrecursor(e, m) == IF e = None THEN None ELSE [e EXCEPT !.pre = @ \ {m}]

\* rt_ll_failed, otherwise: nb_delete and handle_link_failure.
LinkFailure(f) ==
    LET n == f.from
        D == Through(n, f.to)
    IN  /\ failures < MaxFailures /\ failures' = failures + 1
        /\ ~Repairable(n, f.pkt)
        /\ \/ /\ UpAndEven(n, D)
              /\ FilterQueue(n, f.to, frames \ {f})
              /\ seqno' = [seqno EXCEPT ![n] = @ + 2]
              /\ table' = [table EXCEPT ![n] = [d \in Node |->
                    WithoutPrecursor(IF d \in D THEN Invalidated(table[n][d])
                                     ELSE table[n][d], f.to)]]
              /\ SendError(n, [d \in Node |-> IF d \in D THEN table[n][d].seqno + 1 ELSE None])
              /\ UNCHANGED fault
           \/ /\ ~UpAndEven(n, D)
              /\ fault' = "handle_link_failure"
              /\ UNCHANGED <<table, seqno, errors, frames>>
        /\ UNCHANGED <<queue, seen, repairs, selfish, requests, replies, sent>>

-----------------------------------------------------------------------------
(* recvRequest *)

NextEven_Odd(sn) == sn + 1

\* seqno = ... + 1; if (seqno % 2) seqno++
NextEven(sn) == IF (sn + 1) % 2 = 0 THEN sn + 1 ELSE sn + 2

Larger(x, y) == IF x > y THEN x ELSE y

SendReply(n, t, ipdst, dst, sn, hops) ==
    replies' = replies \cup
        Reaching(n, [from |-> n, to |-> t[ipdst].nexthop, ipdst |-> ipdst,
                     dst |-> dst, dstSeqno |-> sn, hops |-> hops])

\* I am not the destination, but I may have a fresh enough route.
CanAnswer(e, r) == Usable(e) /\ e.seqno >= r.dstSeqno

WithPrecursor(t, d, m) == [t EXCEPT ![d] = [t[d] EXCEPT !.pre = t[d].pre \cup {m}]]

\* The table after the reverse route has been put in.
WithReverse(r, improves) ==
    LET t == WithEntry(table[r.to], r.src)
    IN  IF improves
        THEN [t EXCEPT ![r.src] = RtUpdate(t[r.src], r.srcSeqno, r.hops, r.from)]
        ELSE t

Forwarded(n, t, r, m) ==
    [r EXCEPT !.from = n, !.to = m, !.hops = r.hops + 1,
              !.dstSeqno = IF t[r.dst] = None THEN r.dstSeqno
                           ELSE Larger(t[r.dst].seqno, r.dstSeqno)]

\* My own request, or one I have heard before.
IgnoreRequest(r) ==
    /\ r.src = r.to \/ <<r.src, r.srcSeqno>> \in seen[r.to]
    /\ requests' = requests \ {r}
    /\ UNCHANGED <<table, seqno, queue, seen, repairs, selfish, replies, errors, frames,
                   sent, failures, fault>>

RecvRequest(r) ==
    LET n == r.to
        improves == Better(r.srcSeqno, r.hops, WithEntry(table[n], r.src)[r.src])
        t == WithReverse(r, improves)
        e == t[r.dst]
    IN  /\ r.src # n /\ <<r.src, r.srcSeqno>> \notin seen[n]
        /\ seen' = [seen EXCEPT ![n] = @ \cup {<<r.src, r.srcSeqno>>}]
        /\ frames' = IF improves THEN frames \cup Flush(n, t, r.src) ELSE frames
        /\ queue' = [queue EXCEPT ![n] = IF improves THEN @ \ Waiting(n, r.src) ELSE @]
        /\ \/ /\ r.dst = n
              /\ seqno' = [seqno EXCEPT ![n] = NextEven(Larger(@, r.dstSeqno))]
              /\ SendReply(n, t, r.src, n, seqno'[n], 1)
              /\ table' = [table EXCEPT ![n] = t]
              /\ requests' = requests \ {r}
           \/ /\ r.dst # n /\ CanAnswer(e, r)
              /\ SendReply(n, t, r.src, r.dst, e.seqno, e.hops + 1)
              /\ table' = [table EXCEPT ![n] =
                    WithPrecursor(WithPrecursor(t, r.dst, t[r.src].nexthop), r.src, e.nexthop)]
              /\ requests' = requests \ {r}
              /\ UNCHANGED seqno
           \/ /\ r.dst # n /\ ~CanAnswer(e, r)
              /\ \E heard \in SUBSET Neighbours(n) :
                    requests' = (requests \ {r}) \cup {Forwarded(n, t, r, m) : m \in heard}
              /\ Cardinality(requests') <= MaxRequests
              /\ table' = [table EXCEPT ![n] = t]
              /\ UNCHANGED <<seqno, replies>>
        /\ UNCHANGED <<repairs, selfish, errors, sent, failures, fault>>

-----------------------------------------------------------------------------
(* recvReply, recvError, timers *)

RecvReply(r) ==
    LET n == r.to
        t0 == WithEntry(table[n], r.dst)
        improves == Better(r.dstSeqno, r.hops, t0[r.dst])
        t == IF improves
             THEN [t0 EXCEPT ![r.dst] = RtUpdate(t0[r.dst], r.dstSeqno, r.hops, r.from)]
             ELSE t0
        back == t[r.ipdst]
        passOn == improves /\ r.ipdst # n /\ Usable(back)
    IN  /\ \/ /\ passOn /\ ~Up(back)
              /\ fault' = "recvReply"
              /\ UNCHANGED <<table, queue, replies, frames>>
           \/ /\ passOn => Up(back)
              /\ table' = [table EXCEPT ![n] =
                    IF passOn THEN WithPrecursor(t, r.dst, back.nexthop) ELSE t]
              /\ replies' = (replies \ {r}) \cup
                    (IF passOn
                     THEN Reaching(n, [r EXCEPT !.from = n, !.to = back.nexthop,
                                                !.hops = r.hops + 1])
                     ELSE {})
              /\ frames' = IF improves THEN frames \cup Flush(n, t, r.dst) ELSE frames
              /\ queue' = [queue EXCEPT ![n] = IF improves THEN @ \ Waiting(n, r.dst) ELSE @]
              /\ UNCHANGED fault
        /\ UNCHANGED <<seqno, seen, repairs, selfish, requests, errors, sent, failures>>

\* The radio loses a reply, or its next hop is gone: rt_ll_failed drops it.
LoseReply(r) ==
    /\ replies' = replies \ {r}
    /\ UNCHANGED <<table, seqno, queue, seen, repairs, selfish, requests, errors, frames,
                   sent, failures, fault>>

Concerned_AnyAge(r) == {d \in Through(r.to, r.from) : r.unreachable[d] # None}

\* The routes that the error r takes away from its receiver.
Concerned(r) ==
    {d \in Through(r.to, r.from) : /\ r.unreachable[d] # None
                                   /\ table[r.to][d].seqno <= r.unreachable[d]}

RecvError(r) ==
    LET n == r.to
        D == Concerned(r)
        tell == {d \in D : table[n][d].pre # {}}
    IN  /\ \/ /\ ~UpAndEven(n, D)
              /\ fault' = "recvError"
              /\ UNCHANGED <<table, errors, frames>>
           \/ /\ UpAndEven(n, D)
              /\ table' = [table EXCEPT ![n] = [d \in Node |->
                    IF d \in D
                    THEN [RtDown([table[n][d] EXCEPT !.seqno = r.unreachable[d]])
                            EXCEPT !.pre = {}]
                    ELSE table[n][d]]]
              /\ \E heard \in SUBSET Neighbours(n) :
                    errors' = (errors \ {r}) \cup
                       {[from |-> n, to |-> m,
                         unreachable |-> [d \in Node |-> IF d \in tell THEN r.unreachable[d]
                                                         ELSE None]] :
                            m \in IF tell = {} THEN {} ELSE heard}
              /\ IF D = {} THEN frames' = frames ELSE FilterQueue(n, r.from, frames)
              /\ UNCHANGED fault
        /\ UNCHANGED <<seqno, queue, seen, repairs, selfish, requests, replies, sent, failures>>

RepairFails(e) == RtDown(e)

\* LocalRepairTimer::handle
RepairTimeout(n, d) ==
    /\ repairs[n][d] > 0
    /\ repairs' = [repairs EXCEPT ![n][d] = @ - 1]
    /\ table' = [table EXCEPT ![n][d] =
                    IF @ # None /\ ~Up(@) THEN RepairFails(@) ELSE @]
    /\ UNCHANGED <<seqno, queue, seen, selfish, requests, replies, errors, frames, sent,
                   failures, fault>>

\* rt_req_timeout has come.
RequestTimeout(n, d) ==
    /\ table[n][d] # None /\ table[n][d].waiting
    /\ table' = [table EXCEPT ![n][d].waiting = FALSE]
    /\ UNCHANGED <<seqno, queue, seen, repairs, selfish, requests, replies, errors, frames,
                   sent, failures, fault>>

\* rt_purge: expired is the set of routes whose lifetime is over.
Purge(n, expired) ==
    LET up == {d \in Node : Up(table[n][d])}
        t  == [d \in Node |-> IF d \in expired THEN Invalidated(table[n][d]) ELSE table[n][d]]
        q  == {p \in queue[n] : p.dst \notin up}
    IN  /\ failures + Cardinality(expired) <= MaxFailures
        /\ failures' = failures + Cardinality(expired)
        /\ frames' = frames \cup UNION {Flush(n, t, d) : d \in up \ expired}
        /\ SendRequests(n, t, q, {p.dst : p \in q})
        /\ UNCHANGED <<seen, repairs, selfish, replies, errors, sent, fault>>

\* command: egoista_on, egoista_off.
Egoista(n) ==
    /\ n \in Egoists
    /\ selfish' = [selfish EXCEPT ![n] = ~@]
    /\ UNCHANGED <<table, seqno, queue, seen, repairs, requests, replies, errors, frames,
                   sent, failures, fault>>

-----------------------------------------------------------------------------
Init ==
    /\ table = [n \in Node |-> [d \in Node |-> None]]
    /\ seqno = [n \in Node |-> 2]
    /\ queue = [n \in Node |-> {}]
    /\ seen = [n \in Node |-> {}]
    /\ repairs = [n \in Node |-> [d \in Node |-> 0]]
    /\ selfish = [n \in Node |-> FALSE]
    /\ requests = {} /\ replies = {} /\ errors = {} /\ frames = {}
    /\ sent = 0 /\ failures = 0 /\ fault = "none"

NodeStep(n) ==
    \/ Egoista(n)
    \/ \E d \in Node : RepairTimeout(n, d) \/ RequestTimeout(n, d)
    \/ \E expired \in SUBSET {d \in Node : Up(table[n][d])} : Purge(n, expired)

Next ==
    /\ fault = "none"
    /\ \/ \E n \in Node : NodeStep(n)
       \/ \E flow \in Flows : Originate(flow)
       \/ \E f \in frames : Receive(f) \/ LocalRepair(f) \/ LinkFailure(f)
       \/ \E r \in requests : IgnoreRequest(r) \/ RecvRequest(r)
       \/ \E r \in replies : RecvReply(r) \/ LoseReply(r)
       \/ \E r \in errors : RecvError(r)

Spec == Init /\ [][Next]_vars

-----------------------------------------------------------------------------
(* Correctness *)

DataFrame == [from : Node, to : Node, pkt : Packet]

\* Types of the variables; a queued packet waits for a destination the table
\* knows, as sendRequest assumes (assert(rt), l.1097).
TypeOK ==
    /\ table \in [Node -> [Node -> Entry \cup {None}]]
    /\ seqno \in [Node -> Nat]
    /\ \A n \in Node : \A p \in queue[n] : p \in Packet /\ table[n][p.dst] # None
    /\ seen \in [Node -> SUBSET (Node \X Nat)]
    /\ repairs \in [Node -> [Node -> Nat]]
    /\ selfish \in [Node -> BOOLEAN]
    /\ requests \subseteq Request /\ replies \subseteq Reply
    /\ errors \subseteq Error /\ frames \subseteq DataFrame
    /\ sent \in Nat /\ failures \in Nat
    /\ fault \in {"none", "handle_link_failure", "recvReply", "recvError"}

\* A number that a usable route to d, or a reply about d, may carry: one that d
\* has given itself.
Given(sn, d) == sn % 2 = 0 /\ sn <= seqno[d]

\* A number that anybody may know of d: at most one ahead, the mark of a loss.
Heard(sn, d) == sn <= seqno[d] + 1

\* Only a destination makes usable sequence numbers for itself: errors, expiry
\* and failed links push its number by one at most (l.376, l.535), however often
\* a route is lost and learned again, and the assertions on even numbers hold
\* (l.375, l.536, l.980).
SeqnoProvenance ==
    /\ \A n, d \in Node : table[n][d] # None =>
          IF Usable(table[n][d]) THEN Given(table[n][d].seqno, d)
          ELSE Heard(table[n][d].seqno, d)
    /\ \A n \in Node : seqno[n] % 2 = 0
    /\ \A r \in requests : Given(r.srcSeqno, r.src) /\ Heard(r.dstSeqno, r.dst)
    /\ \A r \in replies : Given(r.dstSeqno, r.dst)
    /\ \A r \in errors, d \in Node : r.unreachable[d] # None => Heard(r.unreachable[d], d)

\* A packet waits in the queue only while its route is not up: whichever of
\* request, reply and purge brings the route up sends what has waited for it
\* (l.727-733, l.905-914).
NoStrandedPacket ==
    \A n \in Node : \A p \in queue[n] : ~Up(table[n][p.dst])

\* The next hop knows the destination better: by a newer number, or by a shorter
\* route of the same number.
HopKnowsBetter(n, d) ==
    LET e == table[n][d]
        g == table[e.nexthop][d]
    IN  IF e.nexthop = d THEN seqno[d] >= e.seqno
        ELSE g # None /\ (g.seqno > e.seqno \/ (g.seqno = e.seqno /\ g.hops < e.hops))

SenderStandsBy(r) ==
    LET g == table[r.from][r.dst]
    IN  r.from # r.dst =>
            g # None /\ (g.seqno > r.dstSeqno \/ (g.seqno = r.dstSeqno /\ g.hops < r.hops))

\* The argument for loop freedom: along next hops (number, hops) strictly
\* improves, and a reply in the air promises no more than its sender keeps.
HopOrder ==
    /\ \A n \in Node : \A d \in Node \ {n} : Usable(table[n][d]) => HopKnowsBetter(n, d)
    /\ \A r \in replies : r.to # r.dst => SenderStandsBy(r)

\* No set of nodes passes packets for d around in a circle.
LoopFree ==
    \A d \in Node : \A S \in (SUBSET (Node \ {d})) \ {{}} :
        ~ \A n \in S : Up(table[n][d]) /\ table[n][d].nexthop \in S

\* What a node knows of a destination never gets older.
NeverOlder ==
    [][\A n, d \in Node : table[n][d] # None =>
            table'[n][d] # None /\ table'[n][d].seqno >= table[n][d].seqno]_vars

\* No handler runs into one of its assertions on the state of a route (l.374,
\* l.942, l.979).
AssertionsHold == fault = "none"

\* README.md Algorithm 1: a selfish node drops every data packet it did not
\* originate.
DropsAllForeignData ==
    [][\A f \in frames' \ frames : f.pkt.src # f.from => ~selfish[f.from]]_vars

\* A selfish node puts data of others on the air only from its queue, where it
\* was before the node turned selfish; nothing that arrives is passed on or kept
\* (l.603-606).
SelfishKeepsNothingNew ==
    [][/\ \A f \in frames' \ frames :
              f.pkt.src # f.from /\ selfish[f.from] => f.pkt \in queue[f.from]
       /\ \A n \in Node : \A p \in queue'[n] \ queue[n] :
              p.src # n /\ selfish[n] => \E f \in frames : f.from = n /\ f.pkt = p]_vars
=============================================================================
