-------------------------------- MODULE DSDV --------------------------------
(***************************************************************************)
(* The DSDV routing agent of dsdv.cc / dsdv.h: destination-sequenced       *)
(* distance vectors, triggered and periodic updates, neighbour timeouts,   *)
(* link-loss callbacks from the MAC, the per-route packet queue, and the   *)
(* selfish data plane of DSDV_Agent::recv.                                 *)
(*                                                                         *)
(* Time is abstracted to what the code compares: a route may not be        *)
(* advertised yet (advertise_ok_at > now), a trigger event lies in the     *)
(* future or is due, the last update is more recent than                   *)
(* DSDV_MIN_TUP_PERIOD.  The weighted settling time itself is left out.    *)
(* The radio loses any packet; a lost unicast frame may be reported to its *)
(* sender (xmit_failure_).  One scheduler runs all agents, so a handler is *)
(* atomic and a handler that never returns stops everything.               *)
(***************************************************************************)
EXTENDS Integers, Sequences, FiniteSets

CONSTANTS
    Node,           \* the mobile nodes
    Link,           \* ordered pairs of nodes that may hear each other
    BIG,            \* the infinite metric of rtable.h
    Flows,          \* [src, dst, ptype] of the data the applications send
    Egoists,        \* the nodes the scripts switch to selfish behaviour
    IP_BROADCAST,   \* the destination address of broadcast data
    IP_DEF_TTL,     \* time to live of a packet that starts its journey
    MAX_QUEUE_LENGTH,
    FullUpdateAbove,\* the 3 of "change_count > 3": more changes, full update
    UseMac,         \* use_mac_: does lost_link act on MAC callbacks?
    None,           \* no routing table entry
    MaxSeqno,       \* bound: the last sequence number each node gives itself
    MaxLapses,      \* bound: neighbour timeouts and lost frames
    MaxUpdates,     \* bound: updates in the air
    MaxPackets      \* bound: packets the applications originate

ASSUME ConstantsAssumption ==
    /\ Link \subseteq Node \X Node /\ Egoists \subseteq Node
    /\ BIG \in Nat /\ BIG > 1
    /\ IP_BROADCAST \notin Node
    /\ Flows \subseteq [src : Node, dst : Node \cup {IP_BROADCAST},
                        ptype : {"cbr", "message"}]
    /\ IP_DEF_TTL \in Nat \ {0} /\ MAX_QUEUE_LENGTH \in Nat \ {0}
    /\ FullUpdateAbove \in Nat
    /\ MaxSeqno \in [Node -> Nat] /\ MaxLapses \in Nat
    /\ MaxUpdates \in Nat /\ MaxPackets \in Nat
    /\ UseMac \in BOOLEAN

VARIABLES
    table,      \* table_: per node and destination an entry or None
    seqno,      \* seqno_: the sequence number a node gives itself
    recent,     \* now < lasttup_ + DSDV_MIN_TUP_PERIOD
    orphan,     \* a scheduled trigger event that no entry refers to any more
    selfish,    \* the egoista_on / egoista_off switch
    updates,    \* routing updates in the air, one record per receiver
    frames,     \* unicast data frames in the air
    sent,       \* packets originated so far (bounds the model only)
    lapses,     \* timeouts and lost frames so far (bounds the model only)
    fault       \* "none", or how the simulator died: "loop", "assert"

routing == <<table, seqno, recent, orphan, updates>>
vars == <<table, seqno, recent, orphan, selfish, updates, frames, sent, lapses, fault>>

-----------------------------------------------------------------------------
(* Data *)

Metric == 0..BIG

Packet == [src : Node, dst : Node \cup {IP_BROADCAST},
           ptype : {"cbr", "message"}, ttl : 1..IP_DEF_TTL]

\* rtable_ent: ok is advertise_ok_at ("now": reached, "settling": within
\* 2*wst, "never": "next week"); trigger is trigger_event ("due": its time has
\* come, "deferred": rescheduled to the end of the minimum period).
Entry == [hop : Node, metric : Metric, seqnum : Nat,
          ok : {"now", "settling", "never"},
          advMetric : BOOLEAN, advSeqnum : BOOLEAN, lastMetric : Metric,
          q : Seq(Packet), trigger : {"none", "settling", "due", "deferred"},
          timeout : BOOLEAN]

\* An rtable_ent cleared by bzero and given its three routing fields.
Fresh(hop, metric, seqnum) ==
    [hop |-> hop, metric |-> metric, seqnum |-> seqnum, ok |-> "now",
     advMetric |-> FALSE, advSeqnum |-> FALSE, lastMetric |-> 0,
     q |-> <<>>, trigger |-> "none", timeout |-> FALSE]

\* One line of an update, and the update on its way to one receiver.
Advert == [metric : Metric, seqnum : Nat]
Update == [from : Node, to : Node, routes : [Node -> Advert \cup {None}]]

ASSUME NoneAssumption == None \notin Entry \cup Advert

Known(t) == {d \in Node : t[d] # None}
Neighbours(n) == {m \in Node : m # n /\ <<n, m>> \in Link}

\* The first periodic update follows start-dsdv within two seconds, a settling
\* time or a neighbour timeout takes far longer: nothing of the kind expires
\* before it.
Booted(n) == seqno[n] > 2

-----------------------------------------------------------------------------
(* makeUpdate: which routes go into an update, and the table it leaves *)

Changed(t) == {d \in Known(t) : (t[d].advSeqnum \/ t[d].advMetric)
                                /\ t[d].ok = "now"}

IsFull(t, periodic) ==
    \/ periodic
    \/ /\ Cardinality(Changed(t)) * 3 > Cardinality(Known(t))
       /\ Cardinality(Changed(t)) > FullUpdateAbove

WithOwnRoute(t, n) ==
    [t EXCEPT ![n] = [Fresh(n, 0, seqno[n] + 2) EXCEPT !.advSeqnum = TRUE]]

Included(t, full) ==
    IF full THEN {d \in Known(t) : t[d].ok = "now"} ELSE Changed(t)

Contents(t, full) ==
    [d \in Node |-> IF d \in Included(t, full)
                    THEN [metric |-> t[d].metric, seqnum |-> t[d].seqnum]
                    ELSE None]

Advertised(t, full) ==
    [d \in Node |->
        IF d \in Included(t, full)
        THEN [t[d] EXCEPT !.lastMetric = t[d].metric, !.advSeqnum = FALSE,
                          !.advMetric = ~full /\ t[d].advMetric]
        ELSE t[d]]

\* The update leaves for the neighbours in heard; the radio loses the rest.
Broadcast(n, contents, heard) ==
    updates' = updates \cup {[from |-> n, to |-> m, routes |-> contents] : m \in heard}

\* makeUpdate on table t of n, followed by the scheduling of its packet.
\* A triggered update with nothing to say sends nothing and does not count
\* as an update (lasttup_).
SendUpdate(n, t, periodic) ==
    LET full == IsFull(t, periodic)
        base == IF full THEN WithOwnRoute(t, n) ELSE t
    IN  IF full \/ Changed(t) # {}
        THEN /\ full => seqno[n] < MaxSeqno[n]
             /\ \E heard \in SUBSET Neighbours(n) :
                    /\ Cardinality(updates) + Cardinality(heard) <= MaxUpdates
                    /\ Broadcast(n, Contents(base, full), heard)
             /\ seqno' = [seqno EXCEPT ![n] = IF full THEN @ + 2 ELSE @]
             /\ table' = [table EXCEPT ![n] = Advertised(base, full)]
             /\ recent' = [recent EXCEPT ![n] = TRUE]
        ELSE /\ table' = [table EXCEPT ![n] = t]
             /\ UNCHANGED <<seqno, recent, updates>>

-----------------------------------------------------------------------------
(* recv, forwardPacket: data packets *)

HasRoute(t, d) == t[d] # None /\ t[d].metric # BIG
NextHop(t, d)  == IF t[d].metric > 1 THEN t[d].hop ELSE d

Refused_NeverSelfish(n, p) == p.src # n /\ p.ttl = 1

\* What recv drops of a packet it did not originate: TTL and selfishness.
Refused(n, p) ==
    /\ p.src # n
    /\ \/ p.ttl = 1
       \/ selfish[n] /\ p.ptype # "message"

Stamped(n, p) ==
    [p EXCEPT !.ttl = IF p.src = n THEN IP_DEF_TTL ELSE p.ttl - 1]

Frame(n, t, p) == [from |-> n, to |-> NextHop(t, p.dst), pkt |-> Stamped(n, p)]

Enqueue_Unbounded(q, p) == Append(q, p)

\* A full queue gives up its oldest packet.
Enqueue(q, p) ==
    LET longer == Append(q, p)
    IN  IF Len(longer) > MAX_QUEUE_LENGTH THEN Tail(longer) ELSE longer

\* The table of a node that has to keep p until it learns a route.
Keep(t, p) ==
    [t EXCEPT ![p.dst] =
        IF @ = None
        THEN [Fresh(p.dst, BIG, 0) EXCEPT !.ok = "never", !.q = <<p>>]
        ELSE [t[p.dst] EXCEPT !.q = Enqueue(t[p.dst].q, p)]]

\* recv of unicast data at n, whose table is t; air: the frames in the air.
RecvData(n, t, p, air) ==
    \/ /\ Refused(n, p)
       /\ table' = [table EXCEPT ![n] = t]
       /\ frames' = air
    \/ /\ ~Refused(n, p)
       /\ HasRoute(t, p.dst)
       /\ table' = [table EXCEPT ![n] = t]
       /\ frames' = air \cup {Frame(n, t, p)}
    \/ /\ ~Refused(n, p)
       /\ ~HasRoute(t, p.dst)
       /\ table' = [table EXCEPT ![n] = Keep(t, Stamped(n, p))]
       /\ frames' = air

-----------------------------------------------------------------------------
(* processUpdate: learning from one line of an update *)

Candidate_Overflows(e, d, s, line) ==
    LET old == IF e = None THEN Fresh(s, BIG, 0) ELSE e
    IN  [old EXCEPT !.hop = s, !.metric = line.metric + 1, !.seqnum = line.seqnum,
                    !.ok = "settling"]

\* rte: the line [metric, seqnum] heard from s, over the old entry e.
Candidate(e, d, s, line) ==
    LET m   == IF line.metric = BIG THEN BIG ELSE line.metric + 1
        old == IF e = None THEN Fresh(s, BIG, 0) ELSE e
    IN  [old EXCEPT !.hop = s, !.metric = m, !.seqnum = line.seqnum,
                    !.ok = IF m # BIG /\ (e = None \/ e.metric # BIG)
                           THEN "settling" ELSE "now"]

SameSeqno(e, r) == e # None /\ e.seqnum = r.seqnum
Fresher(e, r)   == e # None /\ e.seqnum < r.seqnum
Stale(e, r)     == e # None /\ e.seqnum > r.seqnum

Accepts_LongerRoutes(e, r) == e = None \/ Fresher(e, r) \/ SameSeqno(e, r)
Accepts_StaleNews(e, r) == e = None \/ Fresher(e, r) \/ r.metric < e.metric

Accepts(e, r) == e = None \/ Fresher(e, r) \/ (SameSeqno(e, r) /\ r.metric < e.metric)

\* rte as it is written to the table when it is accepted.
Announced(e, r) ==
    [r EXCEPT !.advMetric = IF e = None THEN r.metric < BIG
                            ELSE r.metric # e.lastMetric,
              !.advSeqnum = r.advSeqnum \/ Fresher(e, r)]

\* With TRIGGER_UPDATE_ON_FRESH_SEQNUM defined (l.60-67).
WantsTrigger_OnFreshSeqno(e, r) ==
    \/ e = None /\ r.metric < BIG
    \/ SameSeqno(e, r) /\ r.metric < e.metric /\ r.metric # e.lastMetric
    \/ Fresher(e, r)

WantsTrigger(e, r) ==
    \/ e = None /\ r.metric < BIG
    \/ SameSeqno(e, r) /\ r.metric < e.metric /\ r.metric # e.lastMetric

\* needTriggeredUpdate at advertise_ok_at.
Scheduled(r) ==
    [r EXCEPT !.trigger = IF r.ok = "now" THEN "due" ELSE "settling"]

\* A neighbour believes a route lost that we still have: tell it at once.
Educated(e) ==
    [e EXCEPT !.ok = "now", !.advMetric = TRUE, !.trigger = "due"]

\* The entry once the table has been updated ...
Updated(e, r) ==
    IF Accepts(e, r)
    THEN IF WantsTrigger(e, r) THEN Scheduled(Announced(e, r)) ELSE Announced(e, r)
    ELSE IF Stale(e, r) /\ r.metric = BIG /\ e.metric # BIG
    THEN Educated(e)
    ELSE e

\* ... and after the queued packets were sent: the local copy rte, taken before
\* the trigger was scheduled, is written over the entry, accepted or not.  A
\* trigger_event the copy already points to survives, one created for this
\* update is forgotten.
Flushes(r) == r.q # <<>> /\ r.metric # BIG

Flushed(e, r) ==
    LET rte == IF Accepts(e, r) THEN Announced(e, r) ELSE r
    IN  [(IF WantsTrigger(e, r) /\ e.trigger # "none" THEN Scheduled(rte) ELSE rte)
            EXCEPT !.q = <<>>]

ForgetsTrigger(e, r) == Flushes(r) /\ WantsTrigger(e, r) /\ e.trigger = "none"

Learned_KeepsQueue(e, r) == Updated(e, r)

Learned(e, r) == IF Flushes(r) THEN Flushed(e, r) ELSE Updated(e, r)

Lines_OwnRouteToo(u) == {d \in Node : u.routes[d] # None}

\* The lines of update u that concern its receiver, as candidates.
Lines(u) == {d \in Node \ {u.to} : u.routes[d] # None}
Heard(u, d) == Candidate(table[u.to][d], d, u.from, u.routes[d])

\* The queue is drained into recv, which puts a packet the node originated
\* back into the same queue while there is still no route: the loop never ends.
DrainsForever(u) ==
    \E d \in Lines(u) :
        /\ Flushes(Heard(u, d))
        /\ ~Accepts(table[u.to][d], Heard(u, d))
        /\ \E i \in DOMAIN table[u.to][d].q : table[u.to][d].q[i].src = u.to

\* The frames the drained queues turn into; packets of others that find no
\* route go round the queue until their TTL runs out.
Drained(u) ==
    LET n == u.to
        D == {d \in Lines(u) : Flushes(Heard(u, d)) /\ Accepts(table[n][d], Heard(u, d))}
        t == [d \in Node |-> IF d \in D THEN Heard(u, d) ELSE table[n][d]]
    IN  UNION {{Frame(n, t, table[n][d].q[i]) :
                    i \in {j \in DOMAIN table[n][d].q : ~Refused(n, table[n][d].q[j])}} :
                        d \in D}

WithTimeout_ListedOnly(t, s) ==
    [t EXCEPT ![s] = IF @ = None THEN None ELSE [@ EXCEPT !.timeout = TRUE]]

\* The timeout of the sender is restarted, on a harmless route to it if it
\* did not list itself.
WithTimeout(t, s) ==
    [t EXCEPT ![s] = IF @ = None
                     THEN [Fresh(s, 1, 0) EXCEPT !.ok = "never", !.timeout = TRUE]
                     ELSE [@ EXCEPT !.timeout = TRUE]]

AfterUpdate(u) ==
    WithTimeout([d \in Node |-> IF d \in Lines(u)
                                THEN Learned(table[u.to][d], Heard(u, d))
                                ELSE table[u.to][d]], u.from)

-----------------------------------------------------------------------------
(* helper_callback on a timeout: every route through h is lost *)

Lost_SameSeqno(e) ==
    [e EXCEPT !.metric = BIG, !.ok = "now", !.advMetric = TRUE,
              !.advSeqnum = TRUE, !.trigger = "due"]

Lost_SkipsAnOddNumber(e) ==
    [e EXCEPT !.metric = BIG, !.seqnum = @ + 2, !.ok = "now",
              !.advMetric = TRUE, !.advSeqnum = TRUE, !.trigger = "due"]

Lost(e) ==
    [e EXCEPT !.metric = BIG, !.seqnum = @ + 1, !.ok = "now",
              !.advMetric = TRUE, !.advSeqnum = TRUE, !.trigger = "due"]

Broken(t, h) ==
    [d \in Node |->
        IF t[d] # None /\ t[d].hop = h /\ t[d].metric # BIG THEN Lost(t[d]) ELSE t[d]]

TimedOut(t, h) ==
    [Broken(t, h) EXCEPT ![h].timeout = FALSE]

-----------------------------------------------------------------------------
(* Actions *)

\* The constructor and start-dsdv, at time 0 on every node.
Init ==
    /\ table = [n \in Node |-> [d \in Node |->
                    IF d = n
                    THEN [Fresh(n, 0, 0) EXCEPT !.advSeqnum = TRUE, !.advMetric = TRUE]
                    ELSE None]]
    /\ seqno = [n \in Node |-> 2]
    /\ recent = [n \in Node |-> FALSE]
    /\ orphan = [n \in Node |-> FALSE]
    /\ selfish = [n \in Node |-> FALSE]
    /\ updates = {} /\ frames = {} /\ sent = 0 /\ lapses = 0 /\ fault = "none"

\* periodic_callback_ fires.
Periodic(n) ==
    /\ SendUpdate(n, table[n], TRUE)
    /\ UNCHANGED <<orphan, selfish, frames, sent, lapses, fault>>

\* A trigger event whose time may have come.
Fires(n, d) ==
    /\ table[n][d] # None
    /\ \/ table[n][d].trigger \in {"due", "deferred"}
       \/ table[n][d].trigger = "settling" /\ Booted(n)

\* DSDVTriggerHandler::handle, when an update may be sent again.
FireTrigger(n, d) ==
    /\ Fires(n, d)
    /\ ~recent[n]
    /\ SendUpdate(n, [table[n] EXCEPT ![d].trigger = "none"], FALSE)
    /\ UNCHANGED <<orphan, selfish, frames, sent, lapses, fault>>

\* The event of d is rescheduled, those of gone are cancelled.
PutOff_CancelsItself(t, d, gone) ==
    [x \in Node |-> IF x \in gone \cup {d} THEN [t[x] EXCEPT !.trigger = "none"] ELSE t[x]]

PutOff(t, d, gone) ==
    [x \in Node |->
        IF x = d THEN [t[x] EXCEPT !.trigger = "deferred"]
        ELSE IF x \in gone THEN [t[x] EXCEPT !.trigger = "none"]
        ELSE t[x]]

\* Too early: the event is put off to the end of the minimum period, and every
\* other event due before then is cancelled (cancelTriggersBefore).
DeferTrigger(n, d) ==
    /\ Fires(n, d)
    /\ recent[n]
    /\ \E early \in SUBSET {x \in Known(table[n]) \ {d} :
                                table[n][x].trigger \in {"settling", "deferred"}} :
          LET due == {x \in Known(table[n]) \ {d} : table[n][x].trigger = "due"}
          IN  table' = [table EXCEPT ![n] = PutOff(@, d, early \cup due)]
    /\ UNCHANGED <<seqno, recent, orphan, selfish, updates, frames, sent, lapses, fault>>

\* A trigger event no entry refers to: assert(prte && prte->trigger_event == e).
FireOrphan(n) ==
    /\ orphan[n]
    /\ fault' = "assert"
    /\ UNCHANGED <<routing, selfish, frames, sent, lapses>>

\* DSDV_MIN_TUP_PERIOD has passed since the last update of n.
PeriodElapses(n) ==
    /\ recent[n]
    /\ recent' = [recent EXCEPT ![n] = FALSE]
    /\ UNCHANGED <<table, seqno, orphan, selfish, updates, frames, sent, lapses, fault>>

\* Twice the settling time has passed: the route may be advertised.
Settle(n, d) ==
    /\ Booted(n)
    /\ table[n][d] # None /\ table[n][d].ok = "settling"
    /\ table' = [table EXCEPT ![n][d].ok = "now"]
    /\ UNCHANGED <<seqno, recent, orphan, selfish, updates, frames, sent, lapses, fault>>

\* Nothing was heard from neighbour h for min_update_periods_ * perup_.
NeighbourTimeout(n, h) ==
    /\ Booted(n)
    /\ table[n][h] # None /\ table[n][h].timeout
    /\ lapses < MaxLapses /\ lapses' = lapses + 1
    /\ table' = [table EXCEPT ![n] = TimedOut(@, h)]
    /\ UNCHANGED <<seqno, recent, orphan, selfish, updates, frames, sent, fault>>

\* recv of an update, and processUpdate.
ProcessUpdate(u) ==
    /\ ~DrainsForever(u)
    /\ updates' = updates \ {u}
    /\ table' = [table EXCEPT ![u.to] = AfterUpdate(u)]
    /\ orphan' = [orphan EXCEPT ![u.to] = @ \/ \E d \in Lines(u) :
                      ForgetsTrigger(table[u.to][d], Heard(u, d))]
    /\ frames' = frames \cup Drained(u)
    /\ UNCHANGED <<seqno, recent, selfish, sent, lapses, fault>>

ProcessUpdateLoops(u) ==
    /\ DrainsForever(u)
    /\ fault' = "loop"
    /\ UNCHANGED <<routing, selfish, frames, sent, lapses>>

\* An application hands unicast data to the agent of its node.
Originate(flow) ==
    /\ sent < MaxPackets /\ sent' = sent + 1
    /\ flow.dst \notin {flow.src, IP_BROADCAST}
    /\ RecvData(flow.src, table[flow.src],
                [src |-> flow.src, dst |-> flow.dst, ptype |-> flow.ptype,
                 ttl |-> IP_DEF_TTL], frames)
    /\ UNCHANGED <<seqno, recent, orphan, selfish, updates, lapses, fault>>

\* Broadcast data is sent to whoever hears it (sendOutBCastPkt).
OriginateBroadcast(flow) ==
    /\ sent < MaxPackets /\ sent' = sent + 1
    /\ flow.dst = IP_BROADCAST
    /\ \E heard \in SUBSET Neighbours(flow.src) :
           frames' = frames \cup
               {[from |-> flow.src, to |-> m,
                 pkt |-> [src |-> flow.src, dst |-> IP_BROADCAST,
                          ptype |-> flow.ptype, ttl |-> IP_DEF_TTL]] : m \in heard}
    /\ UNCHANGED <<routing, selfish, lapses, fault>>

\* The classifier (unicast) or recv (broadcast, after the TTL check) gives the
\* packet to the applications; recv drops a node's own packet that comes back.
EndsHere(f) == f.to = f.pkt.dst \/ f.to = f.pkt.src \/ f.pkt.dst = IP_BROADCAST

Arrive(f) ==
    /\ EndsHere(f)
    /\ frames' = frames \ {f}
    /\ UNCHANGED <<routing, selfish, sent, lapses, fault>>

\* A packet in transit reaches recv of an intermediate node.
Relay(f) ==
    /\ ~EndsHere(f)
    /\ RecvData(f.to, table[f.to], f.pkt, frames \ {f})
    /\ UNCHANGED <<seqno, recent, orphan, selfish, updates, sent, lapses, fault>>

\* The MAC gives up on a unicast frame: lost_link.
LostLink(f) ==
    LET n == f.from
        e == table[n][f.to]
    IN  /\ lapses < MaxLapses /\ lapses' = lapses + 1
        /\ f.pkt.dst # IP_BROADCAST
        /\ IF UseMac /\ e # None
           THEN RecvData(n, IF e.timeout \/ e.metric # BIG
                            THEN TimedOut(table[n], f.to) ELSE table[n],
                         f.pkt, frames \ {f})
           ELSE frames' = frames \ {f} /\ UNCHANGED table
        /\ UNCHANGED <<seqno, recent, orphan, selfish, updates, sent, fault>>

\* command: egoista_on, egoista_off.
Egoista(n) ==
    /\ n \in Egoists
    /\ selfish' = [selfish EXCEPT ![n] = ~@]
    /\ UNCHANGED <<routing, frames, sent, lapses, fault>>

NodeStep(n) ==
    \/ Periodic(n) \/ FireOrphan(n) \/ PeriodElapses(n) \/ Egoista(n)
    \/ \E d \in Node : \/ FireTrigger(n, d) \/ DeferTrigger(n, d)
                       \/ Settle(n, d) \/ NeighbourTimeout(n, d)

Next ==
    /\ fault = "none"
    /\ \/ \E n \in Node : NodeStep(n)
       \/ \E u \in updates : ProcessUpdate(u) \/ ProcessUpdateLoops(u)
       \/ \E flow \in Flows : Originate(flow) \/ OriginateBroadcast(flow)
       \/ \E f \in frames : Arrive(f) \/ Relay(f) \/ LostLink(f)

Spec == Init /\ [][Next]_vars

-----------------------------------------------------------------------------
(* Correctness *)

DataFrame == [from : Node, to : Node, pkt : Packet]

Row == [Node -> Entry \cup {None}]

\* The queue of a route holds packets for its destination.
QueuesMatch(t) ==
    \A d \in Node : t[d] # None => \A i \in DOMAIN t[d].q : t[d].q[i].dst = d

\* Types of the variables.  table_ always holds the route of a node to itself
\* and queues a packet under its own destination; a packet that is kept or sent
\* has time to live.
TypeOK ==
    /\ table \in [Node -> Row]
    /\ \A n \in Node : table[n][n] # None /\ QueuesMatch(table[n])
    /\ seqno \in [Node -> Nat]
    /\ recent \in [Node -> BOOLEAN]
    /\ orphan \in [Node -> BOOLEAN]
    /\ selfish \in [Node -> BOOLEAN]
    /\ updates \subseteq Update
    /\ frames \subseteq DataFrame
    /\ sent \in Nat /\ lapses \in Nat
    /\ fault \in {"none", "loop", "assert"}

\* What x (an entry or a line of an update) says of d is covered by d itself: a
\* usable route carries an even number d has already given out, a lost one at
\* most the odd number after it.
Covered(x, d) ==
    IF x.metric # BIG
    THEN x.seqnum % 2 = 0 /\ x.seqnum <= table[d][d].seqnum
    ELSE x.seqnum <= table[d][d].seqnum + 1

\* Only a destination makes usable sequence numbers for itself, whatever is
\* lost, broken or learned from stale updates (makeUpdate l.447, the seqnum++ of
\* helper_callback l.321): no table and no update is ahead of the destination,
\* and nobody overwrites a node's route to itself (l.661).
SeqnoProvenance ==
    /\ \A n, d \in Node : table[n][d] # None => Covered(table[n][d], d)
    /\ \A u \in updates, d \in Node : u.routes[d] # None => Covered(u.routes[d], d)
    /\ \A n \in Node : /\ table[n][n].metric = 0
                       /\ table[n][n].seqnum \in {seqno[n], seqno[n] - 2}

\* A packet waits only while its route is lost, in a queue of bounded length:
\* no handler that repairs a route leaves the queue behind (l.788-802), and none
\* queues for a route that works (forwardPacket l.917-938).
NoStrandedPacket ==
    \A n, d \in Node :
        table[n][d] # None /\ table[n][d].q # <<>> =>
            /\ table[n][d].metric = BIG
            /\ Len(table[n][d].q) <= MAX_QUEUE_LENGTH

\* Every usable route hangs on a neighbour whose silence will be noticed: its
\* timeout is pending (l.805-842), so that the route cannot outlive the
\* neighbour, whichever of timeout, link loss and update came last.
RoutesAreTimed ==
    \A n \in Node : \A d \in Node \ {n} :
        HasRoute(table[n], d) =>
            LET e == table[n][d] IN /\ table[n][e.hop] # None
                                    /\ table[n][e.hop].timeout
                                    /\ e.metric > 0

\* The next hop knows the destination better than the node that uses it: by a
\* newer sequence number, or by a smaller metric of the same number.
HopKnowsBetter(n, d) ==
    LET e == table[n][d]
        g == table[e.hop][d]
    IN  g # None /\ (g.seqnum > e.seqnum \/ (g.seqnum = e.seqnum /\ g.metric < e.metric))

SenderStandsBy(u, d) ==
    LET g == table[u.from][d]
        x == u.routes[d]
    IN  g # None /\ (g.seqnum > x.seqnum \/ (g.seqnum = x.seqnum /\ g.metric <= x.metric))

\* The argument for loop freedom: along next hops (sequence number, metric)
\* strictly improves, and an update in the air never promises more than its
\* sender still keeps.
HopOrder ==
    /\ \A n \in Node : \A d \in Node \ {n} : HasRoute(table[n], d) => HopKnowsBetter(n, d)
    /\ \A u \in updates, d \in Node : HasRoute(u.routes, d) => SenderStandsBy(u, d)

\* No set of nodes passes packets for d around in a circle.
LoopFree ==
    \A d \in Node : \A S \in (SUBSET (Node \ {d})) \ {{}} :
        ~ \A n \in S : HasRoute(table[n], d) /\ table[n][d].hop \in S

\* A node that behaves selfishly puts no packet of another node on the air,
\* neither on arrival nor from its queues nor after a lost link; the packets of
\* type PT_MESSAGE are exempt (l.1063).
SelfishForwardsNothing ==
    [][\A f \in frames' \ frames :
            f.pkt.src # f.from /\ f.pkt.ptype # "message" => ~selfish[f.from]]_vars

\* What a node knows of a destination never gets older.
NeverOlder ==
    [][\A n, d \in Node : table[n][d] # None =>
            table'[n][d] # None /\ table'[n][d].seqnum >= table[n][d].seqnum]_vars

\* README.md Algorithm 1: a selfish node drops every data packet it did not
\* originate.
DropsAllForeignData ==
    [][\A f \in frames' \ frames : f.pkt.src # f.from => ~selfish[f.from]]_vars

\* The trigger handler always finds the entry its event belongs to
\* (assert, l.166).
TriggerFindsItsEntry == \A n \in Node : ~orphan[n]

\* Draining a queue of packets ends (l.792-794).
DrainEnds == fault # "loop"

\* An accepted update that changes a metric already advertised has an update
\* triggered for it (l.64-67).
MetricChangeIsTriggered ==
    [][\A n, d \in Node :
          /\ table[n][d] # None /\ d # n
          /\ table'[n][d].seqnum > table[n][d].seqnum
          /\ table'[n][d].metric # table[n][d].lastMetric
          => table'[n][d].trigger # "none"]_vars

\* The scheduler runs what is due, and time passes.
Fairness ==
    \A n \in Node :
        /\ WF_vars(fault = "none" /\ PeriodElapses(n))
        /\ \A d \in Node : WF_vars(fault = "none" /\ (FireTrigger(n, d) \/ DeferTrigger(n, d)))

FairSpec == Spec /\ Fairness

\* A loss a node has been triggered to announce is announced, or the route is
\* found again: putting an event off and cancelling the others for it loses no
\* announcement (DSDVTriggerHandler::handle, cancelTriggersBefore).
LossIsAnnounced ==
    \A n, d \in Node :
        (/\ Booted(n) /\ table[n][d] # None
         /\ table[n][d].metric = BIG /\ table[n][d].trigger # "none")
            ~> \/ fault # "none"
               \/ HasRoute(table[n], d)
               \/ table[n][d] # None /\ table[n][d].lastMetric = BIG
=============================================================================
