-------------------------------- MODULE DSR --------------------------------
(***************************************************************************)
(* The DSR agents of dsragent.cc on a network whose links come and go:     *)
(* route discovery (ring-zero and propagating requests, replies of targets *)
(* and from caches), the send buffer, source routes, route errors and      *)
(* salvaging, with nodes that become selfish.                              *)
(*                                                                         *)
(* The state of an agent is a record; a handler maps the record of the     *)
(* agent n that runs it to the next one.  Left out: flow state (every      *)
(* packet carries its source route), the promiscuous tap and gratuitous    *)
(* replies, TTLs, and packets for other subnets.                           *)
(***************************************************************************)
EXTENDS Naturals, Sequences, FiniteSets, SequencesExt, FiniteSetsExt

CONSTANTS
    Node,
    Links,         \* sets {n, m}: the links that are up at first
    Fragile,       \* links that may fail
    Flow,          \* data packets: records [src, dst, id]
    Egoist,        \* nodes that may become selfish
    None, MAC_BROADCAST,
    GRAT_ROUTE_ERROR,           \* the tell_addr of a gratuitous error: address 0, a node
    SEND_BUF_SIZE, MAX_SR_LEN, MAX_ROUTE_ERRORS,
    dsr_salvage_max_attempts, dsr_salvage_max_requests,
    MaxFaults,     \* bound: links that fail and frames sent in vain over links that are up
    MaxAsked,      \* bound: rt_reqs_outstanding after which no period ends
    MayExpire      \* whether packets time out in the send buffer

ASSUME DSRAssumption ==
    /\ Links \subseteq {l \in SUBSET Node : Cardinality(l) = 2}
    /\ Fragile \subseteq Links
    /\ \A f \in Flow : f.src \in Node /\ f.dst \in Node \ {f.src}
    /\ IsFiniteSet(Node) /\ Egoist \subseteq Node
    /\ None \notin Node \cup Flow /\ MAC_BROADCAST \notin Node /\ GRAT_ROUTE_ERROR \in Node
    /\ {SEND_BUF_SIZE, MAX_SR_LEN, MAX_ROUTE_ERRORS} \subseteq Nat \ {0}
    /\ {dsr_salvage_max_attempts, dsr_salvage_max_requests} \subseteq Nat
    /\ {MaxFaults, MaxAsked} \subseteq Nat
    /\ MayExpire \in BOOLEAN

VARIABLES
    agent,    \* the agents: see Fresh
    link,     \* links that are up
    selfish,
    begun,    \* data packets that were originated
    taken,    \* pairs <<data, node>>: handed to target_
    deaf      \* frames sent in vain so far

vars == <<agent, link, selfish, begun, taken, deaf>>

-----------------------------------------------------------------------------
(* The route cache (external) and source routes *)

\* The agent that has just started.
Fresh ==
    [cache |-> {},    \* routes, sequences of nodes
     seen |-> [o \in Node |-> 0],     \* request_table: newest request of each node
     asked |-> [d \in Node |-> [count |-> 0, type |-> "UNLIMIT", phase |-> "ready"]],
     number |-> 1,    \* route_request_num
     held |-> None,   \* the route error to pass on with the next request
     buf |-> <<>>,    \* send_buf, in order of insertion
     ifq |-> {}]      \* the interface queue: frames, records [to, pkt, heard]

addRoute(s, n, r) ==
    IF Len(r) > 1 /\ r[1] = n THEN [s EXCEPT !.cache = @ \cup {r}] ELSE s

Uses(r, l) == \E i \in 1..Len(r) - 1 : r[i] = l[1] /\ r[i + 1] = l[2]

\* Routes end before the first of the dead links.
noticeDeadLink(s, down) ==
    LET end(r) == Min({i \in 1..Len(r) : i = Len(r) \/ <<r[i], r[i + 1]>> \in down})
    IN  [s EXCEPT !.cache = {r \in {SubSeq(r0, 1, end(r0)) : r0 \in @} : Len(r) > 1}]

RoutesTo(s, d) ==
    {SubSeq(r, 1, SelectInSeq(r, LAMBDA x : x = d)) : r \in {r0 \in s.cache : Contains(r0, d)}}

\* A shortest route of the cache.
findRoute(s, d) == CHOOSE r \in RoutesTo(s, d) : \A o \in RoutesTo(s, d) : Len(r) <= Len(o)

\* Mutant: double backs stay.
compressPath_Not(r) == r

\* Double backs are cut out: after a node comes what follows its last occurrence.
compressPath(r) ==
    LET from[i \in 1..Len(r) + 1] ==
            IF i > Len(r) THEN <<>>
            ELSE <<r[i]>> \o from[SelectLastInSeq(r, LAMBDA x : x = r[i]) + 1]
    IN  from[1]

full(r) == Len(r) >= MAX_SR_LEN

-----------------------------------------------------------------------------
(* Sending *)

\* A packet: its header fields, the data that it carries (None in packets of type
\* PT_DSR) and its source route, with the index of the node that holds or awaits it.
NewPacket(src, dst, data) ==
    [src |-> src, dst |-> dst, data |-> data, route |-> <<>>, at |-> 1, salvaged |-> 0,
     request |-> 0, prop |-> 0, reply |-> <<>>, errors |-> <<>>]

\* A request goes to all neighbours, other packets to the next node of their route.
sendOutPacketWithRoute(s, n, p) ==
    LET on == [p EXCEPT !.at = @ + 1]
    IN  [s EXCEPT !.ifq = @ \cup
            {IF p.request > 0 THEN [to |-> MAC_BROADCAST, pkt |-> p, heard |-> FALSE]
             ELSE [to |-> p.route[on.at], pkt |-> on, heard |-> FALSE]}]

SendAlong(s, n, p, r) == sendOutPacketWithRoute(s, n, [p EXCEPT !.route = r, !.at = 1])

\* Mutant: requests are not told apart.
sendOutRtReq_SameNumber(s, n, d, max_prop) ==
    sendOutPacketWithRoute(s, n,
        [NewPacket(n, d, None) EXCEPT !.request = s.number, !.prop = max_prop, !.route = <<n>>])

\* A request for d, with the route error that is held, if any.
sendOutRtReq(s, n, d, max_prop) ==
    LET errors == IF s.held = None THEN <<>> ELSE <<s.held>>
        rrp == [NewPacket(n, d, None) EXCEPT !.request = s.number, !.prop = max_prop,
                                          !.route = <<n>>, !.errors = errors]
    IN  sendOutPacketWithRoute([s EXCEPT !.number = @ + 1,
                                         !.held = IF max_prop > 0 THEN None ELSE @], n, rrp)

\* The oldest packet of a full buffer is dropped.  The old route of p is of no use.
stickPacketInSendBuffer(s, p) ==
    [s EXCEPT !.buf = Append(IF Len(@) = SEND_BUF_SIZE THEN Tail(@) ELSE @,
                             [p EXCEPT !.route = <<>>, !.at = 1])]

BackOffTest(s, d) == s.asked[d].phase = "ready"

\* Another request cycle for d starts.
Backed(s, d, type, phase) ==
    [s EXCEPT !.asked[d] =
        [count |-> IF @.count < 15 THEN @.count + 1 ELSE @.count, type |-> type, phase |-> phase]]

\* The salvaged packet has had its requests: it is dropped.
GivesUp(s, n, p) ==
    BackOffTest(s, p.dst) /\ p.src # n /\ s.asked[p.dst].count + 1 > dsr_salvage_max_requests

\* First a request for neighbours only; one that propagates when nothing comes back.
getRouteForPacket(s, n, p) ==
    LET e == s.asked[p.dst]
    IN  IF GivesUp(s, n, p) THEN Backed(s, p.dst, e.type, "silent")
        ELSE IF BackOffTest(s, p.dst)
             THEN sendOutRtReq(Backed(s, p.dst, "LIMIT0", "fresh"), n, p.dst, 0)
        ELSE IF e.type = "LIMIT0" /\ e.phase = "silent" /\ p.src = n
             THEN sendOutRtReq([s EXCEPT !.asked[p.dst].type = "UNLIMIT"], n, p.dst, MAX_SR_LEN)
        ELSE s

\* A packet of the node's own that has no source route.
handlePktWithoutSR(s, n, p) ==
    IF RoutesTo(s, p.dst) # {} THEN SendAlong(s, n, p, findRoute(s, p.dst))
    ELSE stickPacketInSendBuffer(getRouteForPacket(s, n, p), p)

\* The packet leaves the send buffer if it has a route now.
SendIfRoute(s, n, p) ==
    IF RoutesTo(s, p.dst) = {} THEN s
    ELSE SendAlong([s EXCEPT !.buf = RemoveFirst(@, p)], n, p, findRoute(s, p.dst))

\* Mutant: a check of the buffer asks for no route.
CheckPacket_AsksNothing(s, n, p, expired) ==
    LET without == [s EXCEPT !.buf = RemoveFirst(@, p)]
    IN  IF expired THEN without
        ELSE IF RoutesTo(s, p.dst) # {} THEN SendIfRoute(s, n, p)
        ELSE IF GivesUp(s, n, p) THEN without ELSE s

\* One packet of the send buffer at a check: its time is over, or it is tried again.
CheckPacket(s, n, p, expired) ==
    LET without == [s EXCEPT !.buf = RemoveFirst(@, p)]
    IN  IF expired THEN without
        ELSE IF RoutesTo(s, p.dst) # {} THEN SendIfRoute(s, n, p)
        ELSE getRouteForPacket(IF GivesUp(s, n, p) THEN without ELSE s, n, p)

\* The packets of the send buffer are looked at in turn (by slots in the code, in order
\* of insertion here): at a check, or when a route has become known.
SendBuffer(s, n, check, expired) ==
    LET after[i \in 0..Len(s.buf)] ==
            IF i = 0 THEN s
            ELSE IF check THEN CheckPacket(after[i - 1], n, s.buf[i], s.buf[i] \in expired)
            ELSE SendIfRoute(after[i - 1], n, s.buf[i])
    IN  after[Len(s.buf)]

sendBufferCheck(s, n, expired) == SendBuffer(s, n, TRUE, expired)

-----------------------------------------------------------------------------
(* Requests and replies *)

ignoreRouteRequestp(s, n, p) ==
    s.seen[p.src] >= p.request \/ Contains(p.route, n) \/ full(p.route)

\* The route that the cache suggests to a requestor; none if it does not lead through n.
Suggested(s, n, p) ==
    LET rest == findRoute(s, p.dst)
        complete == compressPath(p.route \o rest)
    IN  IF RoutesTo(s, p.dst) = {} \/ Len(p.route) + Len(rest) > MAX_SR_LEN
           \/ ~Contains(complete, n)
        THEN <<>> ELSE complete

\* A reply to p goes back along the way that p came, which is put into the cache.
Reply(s, n, p, reply) ==
    LET back == Reverse(Append(p.route, n))
    IN  SendAlong(addRoute(s, n, back), n, [NewPacket(n, p.src, None) EXCEPT !.reply = reply], back)

returnSrcRouteToRequestor(s, n, p) ==
    IF full(p.route) THEN s ELSE Reply(s, n, p, Append(p.route, n))

\* request_table.insert.
Recorded(s, p) == [s EXCEPT !.seen[p.src] = p.request]

\* A request for another node: answered from the cache, or passed on, once.
handleRouteRequest(s, n, p) ==
    LET new == Recorded(s, p)
    IN  IF ignoreRouteRequestp(s, n, p) THEN s
        ELSE IF Suggested(new, n, p) # <<>> THEN Reply(new, n, p, Suggested(new, n, p))
        ELSE IF Len(p.route) > p.prop THEN new
        ELSE sendOutPacketWithRoute(new, n, [p EXCEPT !.route = Append(@, n)])

\* The route is put into the cache, requests for its end may start afresh, and all
\* packets that have a route now leave the send buffer.
acceptRouteReply(s, n, p) ==
    SendBuffer([addRoute(s, n, p.reply) EXCEPT
                   !.asked[Last(p.reply)] = [@ EXCEPT !.count = 0, !.phase = "ready"]],
               n, FALSE, {})

-----------------------------------------------------------------------------
(* Route errors, salvaging and forwarding *)

\* All links of the error are forgotten.  The node that it is told to holds the last
\* one for its next request and sends the rest to the next node to tell.
processBrokenRouteError(s, n, p) ==
    LET forgot == noticeDeadLink(s, {e.down : e \in ToSet(p.errors)})
        held == [forgot EXCEPT !.held = [Last(p.errors) EXCEPT !.tell = GRAT_ROUTE_ERROR]]
        rest == Front(p.errors)
    IN  IF Last(p.errors).tell # n THEN forgot
        ELSE IF rest = <<>> THEN held
        ELSE handlePktWithoutSR(held, n, [p EXCEPT !.errors = rest, !.src = n,
                                                   !.dst = Last(rest).tell])

\* Whether the reply in p names the link from n to m, in either direction.
BadReply(p, n, m) == Uses(p.reply, <<n, m>>) \/ Uses(p.reply, <<m, n>>)

\* p.at is n itself in the packet whose transmission failed and already the next hop in
\* those that waited behind it; the reply is compared with the hop after that.
undeliverablePkt(s, n, p) ==
    LET hop == IF p.at < Len(p.route) THEN p.route[p.at + 1] ELSE None
    IN  IF p.src = n THEN handlePktWithoutSR(s, n, p)
        ELSE IF p.salvaged >= dsr_salvage_max_attempts THEN s
        ELSE IF RoutesTo(s, p.dst) = {} THEN stickPacketInSendBuffer(s, p)
        ELSE IF BadReply(p, n, hop) /\ p.errors = <<>> THEN s
        ELSE SendAlong(s, n, [p EXCEPT !.salvaged = @ + 1,
                                       !.reply = IF BadReply(p, n, hop) THEN <<>> ELSE @],
                       findRoute(s, p.dst))

\* Mutant: the data stays in the packet that becomes a route error.
RouteError_WithData(n, p, errors) ==
    [p EXCEPT !.errors = errors, !.reply = <<>>, !.src = n, !.dst = p.route[1]]

\* The packet becomes a route error: its data is cut off.
RouteError(n, p, errors) ==
    [p EXCEPT !.errors = errors, !.reply = <<>>, !.src = n, !.dst = p.route[1], !.data = None]

\* Frames that waited behind the failed one are salvaged in turn.
salvageAll(s, n, frames) ==
    LET after[i \in 0..Len(frames)] ==
            IF i = 0 THEN s ELSE undeliverablePkt(after[i - 1], n, frames[i].pkt)
    IN  after[Len(frames)]

\* The MAC layer could not send p to the node after n on its route: the link is dead,
\* p and all packets for that node are salvaged, and the first node of p's route is told.
xmitFailed(s, n, p) ==
    LET here == [p EXCEPT !.at = @ - 1]
        next == p.route[p.at]
        behind == {f \in s.ifq : f.to = next}
        salvaged == salvageAll(undeliverablePkt([noticeDeadLink(s, {<<n, next>>}) EXCEPT
                                                    !.ifq = @ \ behind], n, here),
                               n, SetToSeq(behind))
        errors == Append(p.errors, [down |-> <<n, next>>, tell |-> p.route[1]])
    IN  IF p.route[1] = n \/ Len(p.errors) >= MAX_ROUTE_ERRORS THEN salvaged
        ELSE SendAlong(salvaged, n, RouteError(n, p, errors),
                       Reverse(SubSeq(p.route, 1, here.at)))

handleForwarding(s, n, p) ==
    sendOutPacketWithRoute(addRoute(s, n, SubSeq(p.route, p.at, Len(p.route))), n, p)

handlePacketReceipt(s, n, p) ==
    LET replied == IF p.reply # <<>> THEN acceptRouteReply(s, n, p) ELSE s
        asked == IF p.request = 0 THEN replied
                 ELSE returnSrcRouteToRequestor(Recorded(replied, p), n, p)
    IN  IF p.errors # <<>> THEN processBrokenRouteError(asked, n, p) ELSE asked

\* Mutant: a selfish node forwards.
recv_NeverSelfish(s, n, p) ==
    LET snooped == IF p.errors # <<>> THEN processBrokenRouteError(s, n, p) ELSE s
    IN  IF p.dst = n THEN handlePacketReceipt(s, n, p)
        ELSE IF p.request > 0 THEN handleRouteRequest(snooped, n, p)
        ELSE handleForwarding(snooped, n, p)

\* A packet that has a source route header.
recv(s, n, p) ==
    LET snooped == IF p.errors # <<>> THEN processBrokenRouteError(s, n, p) ELSE s
    IN  IF p.dst = n THEN handlePacketReceipt(s, n, p)
        ELSE IF p.request > 0 THEN handleRouteRequest(snooped, n, p)
        ELSE IF p.src # n /\ n \in selfish /\ p.data # None THEN snooped
        ELSE handleForwarding(snooped, n, p)

-----------------------------------------------------------------------------
(* Steps *)

Init ==
    /\ agent = [n \in Node |-> Fresh]
    /\ link = Links /\ selfish = {} /\ begun = {} /\ taken = {} /\ deaf = 0

\* An application hands a packet to its agent.
Originate(d) ==
    /\ d \notin begun
    /\ begun' = begun \cup {d}
    /\ agent' = [agent EXCEPT ![d.src] = handlePktWithoutSR(@, d.src, NewPacket(d.src, d.dst, d))]
    /\ UNCHANGED <<link, selfish, taken, deaf>>

Faults == Cardinality(Links \ link) + deaf

Sent(s, f) == [s EXCEPT !.ifq = @ \ {f}]

Taken(f) ==
    IF f.pkt.dst = f.to /\ f.pkt.data # None THEN taken \cup {<<f.pkt.data, f.to>>} ELSE taken

\* The frame f of n reaches its receiver.
Deliver(n, f) ==
    /\ {n, f.to} \in link /\ ~f.heard
    /\ agent' = [agent EXCEPT ![n] = Sent(@, f), ![f.to] = recv(@, f.to, f.pkt)]
    /\ taken' = Taken(f)
    /\ UNCHANGED <<link, selfish, begun, deaf>>

\* It does, and its acknowledgements are lost: the MAC layer will give it up.
DeliverInVain(n, f) ==
    /\ {n, f.to} \in link /\ ~f.heard /\ Faults < MaxFaults
    /\ deaf' = deaf + 1
    /\ agent' = [agent EXCEPT ![n].ifq = (@ \ {f}) \cup {[f EXCEPT !.heard = TRUE]},
                              ![f.to] = recv(@, f.to, f.pkt)]
    /\ taken' = Taken(f)
    /\ UNCHANGED <<link, selfish, begun>>

\* The MAC layer gives f up and calls back.
Fail(n, f) ==
    /\ IF f.heard \/ {n, f.to} \notin link THEN UNCHANGED deaf
       ELSE Faults < MaxFaults /\ deaf' = deaf + 1
    /\ agent' = [agent EXCEPT ![n] = xmitFailed(Sent(@, f), n, f.pkt)]
    /\ UNCHANGED <<link, selfish, begun, taken>>

\* A request reaches the neighbours of n, most of them.
Broadcast(n, f) ==
    \E heard \in SUBSET {m \in Node : {n, m} \in link} :
        /\ deaf' = deaf + Cardinality({m \in Node \ heard : {n, m} \in link})
        /\ deaf' + Cardinality(Links \ link) <= MaxFaults
        /\ agent' = [m \in Node |-> IF m = n THEN Sent(agent[n], f)
                                    ELSE IF m \in heard THEN recv(agent[m], m, f.pkt)
                                    ELSE agent[m]]
        /\ UNCHANGED <<link, selfish, begun, taken>>

\* send_buf_timer.
SendBufferTimer(n) ==
    /\ agent[n].buf # <<>>
    /\ \E expired \in IF MayExpire THEN SUBSET ToSet(agent[n].buf) ELSE {{}} :
           agent' = [agent EXCEPT ![n] = sendBufferCheck(@, n, expired)]
    /\ UNCHANGED <<link, selfish, begun, taken, deaf>>

\* arp_timeout (30 ms) passes after a request, and later the rest of the backoff period
\* (half a second or more), by when nothing is on its way any more.
Wait(n, d) ==
    /\ LET e == agent[n].asked[d]
       IN  /\ e.phase # "ready"
           /\ e.phase = "silent" => e.count < MaxAsked /\ \A m \in Node : agent[m].ifq = {}
           /\ agent' = [agent EXCEPT ![n].asked[d].phase =
                           IF e.phase = "fresh" THEN "silent" ELSE "ready"]
    /\ UNCHANGED <<link, selfish, begun, taken, deaf>>

\* max_err_hold (a second) passes.
Forget(n) ==
    /\ agent[n].held # None /\ \A m \in Node : agent[m].ifq = {}
    /\ agent' = [agent EXCEPT ![n].held = None]
    /\ UNCHANGED <<link, selfish, begun, taken, deaf>>

\* Nodes move apart.
Break(l) ==
    /\ l \in link /\ Faults < MaxFaults
    /\ link' = link \ {l}
    /\ UNCHANGED <<agent, selfish, begun, taken, deaf>>

\* egoista_on and egoista_off.
egoista(n) ==
    /\ selfish' \in {selfish \cup {n}, selfish \ {n}} \ {selfish}
    /\ UNCHANGED <<agent, link, begun, taken, deaf>>

Transmit ==
    \E n \in Node : \E f \in agent[n].ifq :
        IF f.to = MAC_BROADCAST THEN Broadcast(n, f)
        ELSE Deliver(n, f) \/ Fail(n, f) \/ DeliverInVain(n, f)

TimePasses ==
    \E n \in Node : SendBufferTimer(n) \/ Forget(n) \/ \E d \in Node : Wait(n, d)

Next ==
    \/ \E d \in Flow : Originate(d)
    \/ Transmit
    \/ TimePasses
    \/ \E l \in Fragile : Break(l)
    \/ \E n \in Egoist : egoista(n)

\* No frame is left and no timer is pending, but checks of the send buffer in vain.
Idle ==
    \A n \in Node :
        /\ agent[n].ifq = {} /\ agent[n].held = None
        /\ \A d \in Node : LET e == agent[n].asked[d]
                           IN  e.phase # "ready" => e.phase = "silent" /\ e.count >= MaxAsked
        /\ \A expired \in IF MayExpire THEN SUBSET ToSet(agent[n].buf) ELSE {{}} :
               sendBufferCheck(agent[n], n, expired) = agent[n]

\* The scheduler goes on: a frame is sent or given up, or a timer expires.  This is
\* WF_vars(Transmit \/ TimePasses), as those steps are the ones that change agents (with
\* Originate, which happens once per packet) and Idle is where there is none.
Spec == Init /\ [][Next]_vars /\ ([]<>Idle \/ []<><<Next>>_agent)

-----------------------------------------------------------------------------
(* Properties *)

TypeOK ==
    /\ \A n \in Node :
           /\ Len(agent[n].buf) <= SEND_BUF_SIZE
           /\ \A o \in Node : agent[n].seen[o] < agent[o].number
           /\ \A d \in Node : /\ agent[n].asked[d].count \in 0..15
                              /\ agent[n].asked[d].phase \in {"fresh", "silent", "ready"}
           /\ \A f \in agent[n].ifq :
                  /\ f.to \in Node \cup {MAC_BROADCAST} /\ f.pkt.src \in Node /\ f.pkt.dst \in Node
                  /\ f.pkt.data \in begun \cup {None}
                  /\ Len(f.pkt.route) <= MAX_SR_LEN /\ Len(f.pkt.reply) <= MAX_SR_LEN
                  /\ Len(f.pkt.errors) <= MAX_ROUTE_ERRORS
                  /\ f.pkt.salvaged <= dsr_salvage_max_attempts
    /\ link \subseteq Links /\ selfish \subseteq Egoist /\ Faults <= MaxFaults
    /\ taken \subseteq begun \X Node

Simple(r) == \A i, j \in 1..Len(r) : r[i] = r[j] => i = j

\* The node that holds or awaits a packet is the current one of its source route (the
\* assertions of l.981 and l.2661), the route ends at the destination, which is another
\* node, and passes no node twice; neither do the routes of the caches.
SourceRoutesHold ==
    \A n \in Node :
        /\ \A r \in agent[n].cache : r[1] = n /\ Simple(r)
        /\ \A f \in agent[n].ifq :
               LET p == f.pkt
               IN  /\ Simple(p.route) /\ p.dst # n
                   /\ IF p.request > 0 THEN Last(p.route) = n /\ p.route[1] = p.src
                      ELSE /\ p.at \in 2..Len(p.route)
                           /\ p.route[p.at - 1] = n /\ p.route[p.at] = f.to
                           /\ Last(p.route) = p.dst

InFlight(d) == UNION {{<<n, f>> : f \in {f \in agent[n].ifq : f.pkt.data = d}} : n \in Node}

Waiting(d) ==
    UNION {{<<n, i>> : i \in {i \in DOMAIN agent[n].buf : agent[n].buf[i].data = d}} : n \in Node}

\* A data packet is in one place: in a send buffer, on its way, or at its destination.
\* Only a lost acknowledgement makes another copy of it (xmitFailed, undeliverablePkt,
\* acceptRouteReply and sendBufferCheck copy, hand on and give up packets).
OneCopy ==
    \A d \in begun :
        Cardinality(InFlight(d)) + Cardinality(Waiting(d)) + Cardinality({x \in taken : x[1] = d})
            <= 1 + deaf

Algo == INSTANCE Algorithm1 WITH
    Packet <- Flow, taken <- {},
    offered <- UNION {{<<d, x[1], x[2].to>> : x \in InFlight(d)} : d \in Flow},
    kept <- UNION {{<<d, x[1]>> : x \in InFlight(d)} \cup {<<d, x[1]>> : x \in Waiting(d)}
                   : d \in Flow}

\* Algorithm 1 of README.md (l.35-48) for what a node keeps and hands on (l.686-689);
\* what is for itself a selfish node delivers (l.663-667).
SelfishPromise == Algo!Spec

\* A data packet does not circulate for ever, nor wait for ever in the send buffer: while
\* the network stays connected its route is found and it leaves, even when no packet ever
\* times out (getRouteForPacket and its rivals for the request table, sendBufferCheck,
\* acceptRouteReply, salvaging).
DataSettles == \A d \in Flow : d \in begun ~> InFlight(d) = {} /\ Waiting(d) = {}
=============================================================================
