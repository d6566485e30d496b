----------------------------- MODULE AODVSearch -----------------------------
(***************************************************************************)
(* How one AODV node searches one destination (AODV::sendRequest): the     *)
(* expanding ring, the counted network-wide searches, the pause after too  *)
(* many of them, and the packets that wait meanwhile.  AODV.tla leaves the *)
(* time to live of requests out; here the network is left out instead:     *)
(* answers come or do not come.  The length of a timeout is abstracted.    *)
(***************************************************************************)
EXTENDS Integers

CONSTANTS
    TTL_START, TTL_THRESHOLD, TTL_INCREMENT, NETWORK_DIAMETER, RREQ_RETRIES,
    INFINITY2,          \* rt_hops of a route that is down
    Hops,               \* the lengths of the routes that may be found
    MaxQueued           \* bound: packets in the queue

ASSUME ConstantsAssumption ==
    /\ TTL_START \in 1..NETWORK_DIAMETER /\ TTL_INCREMENT \in Nat \ {0}
    /\ TTL_THRESHOLD + TTL_INCREMENT \in 1..NETWORK_DIAMETER /\ TTL_THRESHOLD \in Nat
    /\ NETWORK_DIAMETER \in Nat /\ RREQ_RETRIES \in Nat
    /\ INFINITY2 \in Nat /\ Hops \subseteq 1..NETWORK_DIAMETER /\ INFINITY2 > NETWORK_DIAMETER
    /\ MaxQueued \in Nat \ {0}

VARIABLES
    rt,         \* the aodv_rt_entry of the destination
    queued,     \* packets in rqueue for it
    ring,       \* ttl_ of the last request since the route was lost, 0 at first
    wide        \* network-wide searches since the last pause or answer

vars == <<rt, queued, ring, wide>>

\* timer: rt_req_timeout is 0, in the past, or in the future.
Entry == [flags : {"RTF_UP", "RTF_DOWN", "RTF_IN_REPAIR"}, hops : Nat, lastHopCount : Nat,
          lastTtl : Nat, cnt : Nat, timer : {"zero", "past", "future"}]

Larger(x, y) == IF x > y THEN x ELSE y

-----------------------------------------------------------------------------
(* sendRequest *)

LastTtl(e) == Larger(e.lastTtl, e.lastHopCount)

Ttl_NoIncrement(e) ==
    IF LastTtl(e) = 0 THEN TTL_START
    ELSE IF LastTtl(e) < TTL_THRESHOLD THEN LastTtl(e)
    ELSE NETWORK_DIAMETER

Ttl_FromReply(e) ==
    IF LastTtl(e) = 0 THEN TTL_START
    ELSE IF e.lastTtl < TTL_THRESHOLD THEN e.lastTtl + TTL_INCREMENT
    ELSE LastTtl(e)

\* Dynamic TTL evaluation.
Ttl(e) ==
    IF LastTtl(e) = 0 THEN TTL_START
    ELSE IF LastTtl(e) < TTL_THRESHOLD THEN LastTtl(e) + TTL_INCREMENT
    ELSE NETWORK_DIAMETER

IsWide(e) == LastTtl(e) >= TTL_THRESHOLD

GivesUp_Late(e) == e.cnt > RREQ_RETRIES + 1
GivesUp(e) == e.cnt > RREQ_RETRIES

\* sendRequest with route entry e, while q packets wait.
SendRequest(e, q) ==
    \/ /\ e.flags = "RTF_UP" \/ e.timer = "future"
       /\ rt' = e /\ queued' = q
       /\ UNCHANGED <<ring, wide>>
    \/ /\ e.flags # "RTF_UP" /\ e.timer # "future" /\ GivesUp(e)
       /\ rt' = [e EXCEPT !.timer = "future", !.cnt = 0]
       /\ queued' = 0 /\ wide' = 0
       /\ UNCHANGED ring
    \/ /\ e.flags # "RTF_UP" /\ e.timer # "future" /\ ~GivesUp(e)
       /\ rt' = [e EXCEPT !.timer = "future", !.lastTtl = Ttl(e),
                          !.cnt = IF IsWide(e) THEN e.cnt + 1 ELSE e.cnt]
       /\ queued' = q /\ ring' = Ttl(e)
       /\ wide' = IF IsWide(e) THEN wide + 1 ELSE wide

-----------------------------------------------------------------------------
(* Actions *)

\* rt_add; lastHopCount is INFINITY2 or, where the library clears it, 0.
Init ==
    /\ rt \in [flags : {"RTF_DOWN"}, hops : {INFINITY2}, lastHopCount : {0, INFINITY2},
               lastTtl : {0}, cnt : {0}, timer : {"zero"}]
    /\ queued = 0 /\ ring = 0 /\ wide = 0

\* rt_resolve of a packet the node originates, when the route is not up.
Resolve ==
    /\ rt.flags # "RTF_UP" /\ queued < MaxQueued
    /\ SendRequest(rt, queued + 1)

\* rt_resolve of a packet of another node while the route is under repair.
ResolveInRepair ==
    /\ rt.flags = "RTF_IN_REPAIR" /\ queued < MaxQueued
    /\ queued' = queued + 1
    /\ UNCHANGED <<rt, ring, wide>>

\* rt_purge: search for the route that packets wait for.
Purge ==
    /\ rt.flags # "RTF_UP" /\ queued > 0
    /\ SendRequest(rt, queued)

\* rt_req_timeout has come.
RequestTimeout ==
    /\ rt.timer = "future"
    /\ rt' = [rt EXCEPT !.timer = "past"]
    /\ UNCHANGED <<queued, ring, wide>>

\* recvReply accepts a route of h hops.
Reply(h) ==
    /\ rt' = [rt EXCEPT !.flags = "RTF_UP", !.hops = h, !.cnt = 0, !.timer = "zero",
                        !.lastTtl = h]
    /\ queued' = 0 /\ ring' = 0 /\ wide' = 0

ReverseRoute_LeavesQueue(h) ==
    /\ rt' = [rt EXCEPT !.flags = "RTF_UP", !.hops = h, !.cnt = 0, !.timer = "zero",
                        !.lastTtl = h]
    /\ ring' = 0 /\ wide' = 0
    /\ UNCHANGED queued

\* recvRequest accepts a reverse route: the soft state is reset only if the
\* destination was searched before.
ReverseRoute(h) ==
    /\ rt' = IF rt.timer = "zero"
             THEN [rt EXCEPT !.flags = "RTF_UP", !.hops = h]
             ELSE [rt EXCEPT !.flags = "RTF_UP", !.hops = h, !.cnt = 0, !.timer = "zero",
                             !.lastTtl = h]
    /\ queued' = 0 /\ ring' = 0 /\ wide' = 0

\* rt_down of an entry that is not down already.
RtDown(e) ==
    [e EXCEPT !.lastHopCount = e.hops, !.hops = INFINITY2, !.flags = "RTF_DOWN"]

\* The route expires, its link fails, or an error takes it away.
Lost ==
    /\ rt.flags = "RTF_UP"
    /\ rt' = RtDown(rt)
    /\ UNCHANGED <<queued, ring, wide>>

\* local_rt_repair
LocalRepair ==
    /\ rt.hops # INFINITY2 /\ queued < MaxQueued
    /\ SendRequest([rt EXCEPT !.flags = "RTF_IN_REPAIR"], queued + 1)

\* LocalRepairTimer::handle
RepairTimeout ==
    /\ rt.flags = "RTF_IN_REPAIR"
    /\ rt' = RtDown(rt)
    /\ UNCHANGED <<queued, ring, wide>>

Next ==
    \/ Resolve \/ ResolveInRepair \/ Purge \/ RequestTimeout
    \/ Lost \/ LocalRepair \/ RepairTimeout
    \/ \E h \in Hops : Reply(h) \/ ReverseRoute(h)

Spec == Init /\ [][Next]_vars

\* rt_purge runs every half second, and time passes.
FairSpec == Spec /\ WF_vars(Purge) /\ WF_vars(RequestTimeout)

-----------------------------------------------------------------------------
(* Correctness *)

\* Types of the variables; the counter cannot run away.
TypeOK ==
    /\ rt \in Entry /\ rt.cnt \in 0..(RREQ_RETRIES + 1)
    /\ queued \in 0..MaxQueued /\ wide \in Nat /\ ring \in 0..NETWORK_DIAMETER

\* A route that is up has no packet waiting, and one that is under repair is
\* still usable: what rt_purge and handle_link_failure assume of the flags.
FlagsMatch ==
    /\ rt.flags = "RTF_UP" => queued = 0
    /\ rt.flags = "RTF_DOWN" <=> rt.hops = INFINITY2

\* The ring expands: as long as there is no answer, no request reaches less far
\* than the one before, and it reaches farther than the lost route did
\* (l.1135-1152).
RingExpands ==
    [][ring' # 0 =>
          /\ ring' >= ring
          /\ ring' # ring => ring' > rt.lastHopCount \/ ring' = NETWORK_DIAMETER]_vars

\* Before a pause or an answer at most RREQ_RETRIES + 1 requests flood the
\* network, whatever losses, repairs and timeouts come in between.
FloodsAreBounded == wide <= RREQ_RETRIES + 1

\* aodv.h l.83-85 and the comment in sendRequest (l.1113-1115): RREQ_RETRIES
\* is the number of network-wide searches allowed before the long pause.
FloodsAsDocumented == wide <= RREQ_RETRIES

\* A packet does not wait for ever: it is sent when a route is found, or
\* dropped when the searches are used up.
PacketsLeave == queued > 0 ~> queued = 0
=============================================================================
