------------------------------ MODULE SimNetwork ------------------------------
(***************************************************************************)
(* The simulator's reconfigurable network: devices with one link to every  *)
(* other device, chunks that cross them hop by hop, and the topology       *)
(* manager that drains the links, counts them and installs the bandwidths  *)
(* of the next topology (TopologyManager, Device, Link, Chunk), with the   *)
(* send and receive matching of the network API (CommonNetworkApi,         *)
(* CallbackTracker).                                                       *)
(*                                                                         *)
(* Time is abstracted to the order the event times impose: a link's free   *)
(* event of a chunk comes after the chunk's arrival (Link.cpp adds one     *)
(* latency to the arrival and two to the free time), and the event that    *)
(* finishes a reconfiguration comes after the free events of the links it  *)
(* changed. Everything else may happen in any order: chunk sizes and       *)
(* bandwidths are arbitrary.                                               *)
(***************************************************************************)
EXTENDS Naturals, Sequences, FiniteSets

CONSTANTS
    Devices,   \* the NPUs
    Topos,     \* the topology ids of the circuit schedules
    Bw,        \* per topology and link: its bandwidth, 0 if there is none
    InitTopo,  \* the topology main.cc installs first
    Msgs,      \* the messages of the workload
    Src, Dst,  \* per message: the ranks that send and receive it
    Needs,     \* per message: the topologies its request asks for; {} when
               \* it is sent without a request (traffic inside a node)
    Collective \* the messages of collectives; the others are point-to-point

Links == {l \in Devices \X Devices : l[1] # l[2]}

ASSUME NetworkAssumption ==
    /\ IsFiniteSet(Devices) /\ IsFiniteSet(Msgs)
    /\ InitTopo \in Topos
    /\ Bw \in [Topos -> [Links -> Nat]]
    /\ Src \in [Msgs -> Devices] /\ Dst \in [Msgs -> Devices]
    /\ \A m \in Msgs : Src[m] # Dst[m]
    /\ Needs \in [Msgs -> SUBSET Topos]
    /\ Collective \subseteq Msgs

VARIABLES
    opus,              \* RoutingAlgorithm::OPUS, otherwise BFS
    instant,           \* reconfig_time = 0
    link,              \* per link: Link and its pending_chunks and events
    num_drained_links,
    reconfiguring,
    draining,
    cur_topo_id,
    inflight_coll,
    finishing,         \* the finish_reconfiguration event is scheduled
    route,             \* per message: the devices its chunk still visits
    tracker,           \* per message: its callback tracker entry, {} if none
    recv_event,        \* messages whose receive handler is scheduled
    handled            \* per message: how often its receive handler ran

config == <<opus, instant>>
manager == <<num_drained_links, reconfiguring, draining, cur_topo_id, finishing>>
api == <<tracker, recv_event, handled>>
vars == <<config, link, manager, inflight_coll, route, api>>

-----------------------------------------------------------------------------
(* Routes. *)

\* The devices of a route, without repetition, over links with bandwidth.
Paths(b, s, d) ==
    {p \in UNION {[1..n -> Devices] : n \in 2..Cardinality(Devices)} :
        /\ p[1] = s /\ p[Len(p)] = d
        /\ \A i, j \in DOMAIN p : p[i] = p[j] => i = j
        /\ \A i \in 1..Len(p)-1 : b[<<p[i], p[i+1]>>] > 0}

\* intra_threshold is half of the largest bandwidth; a slower link is a
\* scale-out hop and costs more than all links inside a node together.
Cost(b, p) ==
    LET Inter(l) == \E k \in Links : 2 * b[l] < b[k]
        hops == {i \in 1..Len(p)-1 : Inter(<<p[i], p[i+1]>>)}
    IN  (Len(p) - 1) + Cardinality(Devices) * Cardinality(hops)

\* opus_routes keeps one of the cheapest paths; which one depends on the
\* order of its queue.
Cheapest ==
    [t \in Topos |-> [e \in Links |->
        LET all == Paths(Bw[t], e[1], e[2])
        IN  {p \in all : \A q \in all : Cost(Bw[t], p) <= Cost(Bw[t], q)}]]

\* TopologyManager::route: the direct link unless OPUS knows a path.
RoutesFor(m) ==
    LET known == Cheapest[cur_topo_id][<<Src[m], Dst[m]>>]
    IN  IF opus /\ known # {} THEN known ELSE {<<Src[m], Dst[m]>>}

\* Every hop of p is a link with bandwidth in topology t.
Passable(t, p) ==
    \A i \in 1..Len(p)-1 : <<p[i], p[i+1]>> \in Links /\ Bw[t][<<p[i], p[i+1]>>] > 0

\* What a schedule has to provide for a workload: traffic that is sent
\* without a request finds its links in every topology, and a topology that
\* is requested connects the ranks it is requested for.
LocalTraffic ==
    \A m \in Msgs : Needs[m] = {} => \A t, u \in Topos :
        /\ Passable(u, <<Src[m], Dst[m]>>)
        /\ \A p \in Cheapest[t][<<Src[m], Dst[m]>>] : Passable(u, p)
Connected ==
    \A m \in Msgs : \A t \in Needs[m] : Cheapest[t][<<Src[m], Dst[m]>>] # {}

-----------------------------------------------------------------------------
(* One link: Link and the part of Device that feeds it. *)

\* Link::schedule_chunk_transmission: an arrival event and a free event.
Transmit(k, m) ==
    [k EXCEPT !.busy = TRUE, !.flying = @ \cup {m}, !.sending = @ \cup {m}]

\* Device::send
Offer(k, m) ==
    IF k.busy \/ k.bw = 0 THEN [k EXCEPT !.pending = Append(@, m)]
                          ELSE Transmit(k, m)

GoesIdle(k) == k.pending = <<>> \/ k.bw = 0

\* Device::link_become_free, without the drain callback.
BecomeFree(k) ==
    IF GoesIdle(k) THEN [k EXCEPT !.busy = FALSE]
    ELSE Transmit([k EXCEPT !.pending = Tail(@)], Head(k.pending))

\* Mutant of Refit: a link that needs no change does not serve its queue.
RefitForgetsQueue(k, b) ==
    IF instant \/ b = k.bw THEN [k EXCEPT !.bw = b]
    ELSE [k EXCEPT !.busy = TRUE, !.bw = b, !.refits = @ + 1]

\* Link::reconfigure and the loop body of Device::reconfigure around it.
Refit(k, b) ==
    IF instant \/ b = k.bw
    THEN LET r == [k EXCEPT !.bw = b]
         IN  IF r.pending # <<>> /\ b # 0 THEN BecomeFree(r) ELSE r
    ELSE [k EXCEPT !.busy = TRUE, !.bw = b, !.refits = @ + 1]

-----------------------------------------------------------------------------
(* The topology manager. *)

\* Mutant of InstallAll: a link that is in use keeps its bandwidth.
InstallIdleOnly(lk, t) ==
    /\ link' = [l \in Links |-> IF lk[l].busy THEN lk[l] ELSE Refit(lk[l], Bw[t][l])]
    /\ num_drained_links' = 0
    /\ draining' = FALSE
    /\ reconfiguring' = (opus /\ ~instant)
    /\ finishing' = (opus /\ ~instant)

\* The end of increment_callback: all links are counted.
InstallAll(lk, t) ==
    /\ link' = [l \in Links |-> Refit(lk[l], Bw[t][l])]
    /\ num_drained_links' = 0
    /\ draining' = FALSE
    /\ reconfiguring' = (opus /\ ~instant)
    /\ finishing' = (opus /\ ~instant)

\* n links are counted while topology t is awaited.
Counted(lk, t, n) ==
    IF n < Cardinality(Links)
    THEN /\ link' = lk
         /\ num_drained_links' = n
         /\ reconfiguring' = TRUE
         /\ draining' = opus
         /\ UNCHANGED finishing
    ELSE InstallAll(lk, t)

\* Mutant of LinkDrained: the draining flag, which only OPUS sets, is
\* required of both algorithms.
LinkDrainedByFlag(lk) ==
    IF ~draining
    THEN /\ num_drained_links' = 0
         /\ link' = lk
         /\ UNCHANGED <<reconfiguring, draining, finishing>>
    ELSE Counted(lk, cur_topo_id, num_drained_links + 1)

\* increment_callback for a link that went idle.
LinkDrained(lk) ==
    IF ~reconfiguring \/ (opus /\ ~draining)
    THEN /\ num_drained_links' = 0
         /\ link' = lk
         /\ UNCHANGED <<reconfiguring, draining, finishing>>
    ELSE Counted(lk, cur_topo_id, num_drained_links + 1)

\* Device::link_become_free for link l whose record, with the event that
\* fired taken out, is k.
LinkBecomeFree(l, k) ==
    /\ IF GoesIdle(k)
       THEN LinkDrained([link EXCEPT ![l] = BecomeFree(k)])
       ELSE /\ link' = [link EXCEPT ![l] = BecomeFree(k)]
            /\ UNCHANGED <<num_drained_links, reconfiguring, draining, finishing>>
    /\ UNCHANGED cur_topo_id

SameLinks(t) == opus /\ ~reconfiguring /\ Bw[t] = Bw[cur_topo_id]

\* Mutant of MayReconfigure: communications under way are not looked at.
MayReconfigureAnyTime == ~reconfiguring

\* The switch that TopologyManager::reconfigure makes when it grants it.
MayReconfigure == ~reconfiguring /\ inflight_coll = 0

Reconfigure(t) ==
    /\ t # cur_topo_id
    /\ \/ /\ SameLinks(t)
          /\ UNCHANGED <<link, num_drained_links, reconfiguring, draining, finishing>>
       \/ /\ ~SameLinks(t)
          /\ MayReconfigure
          /\ Counted(link, t, Cardinality({l \in Links : ~link[l].busy}))
    /\ cur_topo_id' = t
    /\ UNCHANGED <<config, inflight_coll, route, api>>

FinishReconfiguration ==
    /\ finishing
    /\ \A l \in Links : link[l].refits = 0
    /\ finishing' = FALSE
    /\ reconfiguring' = FALSE
    /\ draining' = FALSE
    /\ num_drained_links' = 0
    /\ UNCHANGED <<config, link, cur_topo_id, inflight_coll, route, api>>

-----------------------------------------------------------------------------
(* Chunks and messages. *)

HopOf(r) == <<r[1], r[2]>>

Gated(m) == Needs[m] # {}

\* inflight_coll counts a collective always, a point-to-point send only with
\* decimal topology ids, which main.cc sets for OPUS routing.
HoldsGate(m) == Gated(m) /\ (opus \/ m \in Collective)

\* A schedule for BFS gives every requester a direct link.
Serves(t, m) == t \in Needs[m] /\ (opus \/ Bw[t][<<Src[m], Dst[m]>>] > 0)

\* sim_send of a message whose request for a topology was granted, or that
\* needs none; increment_inflight_coll comes first if it holds the gate.
Send(m) ==
    /\ route[m] = <<>>
    /\ Gated(m) => Serves(cur_topo_id, m)
    /\ \E r \in RoutesFor(m) :
        /\ route' = [route EXCEPT ![m] = r]
        /\ link' = [link EXCEPT ![HopOf(r)] = Offer(@, m)]
    /\ inflight_coll' = IF HoldsGate(m) THEN inflight_coll + 1 ELSE inflight_coll
    /\ tracker' = [tracker EXCEPT ![m] = @ \cup {"send"}]
    /\ UNCHANGED <<config, manager, recv_event, handled>>

\* Mutants of Recv: a late receive waits for a chunk that has arrived; a
\* late receive leaves the entry in the tracker.
RecvOnlyRegisters(m) ==
    /\ "recv" \notin tracker[m] /\ m \notin recv_event /\ handled[m] = 0
    /\ tracker' = [tracker EXCEPT ![m] = @ \cup {"recv"}]
    /\ UNCHANGED <<config, link, manager, inflight_coll, route, recv_event, handled>>

RecvKeepsEntry(m) ==
    /\ "recv" \notin tracker[m] /\ m \notin recv_event /\ handled[m] = 0
    /\ IF "finished" \in tracker[m]
       THEN /\ recv_event' = recv_event \cup {m}
            /\ UNCHANGED tracker
       ELSE /\ tracker' = [tracker EXCEPT ![m] = @ \cup {"recv"}]
            /\ UNCHANGED recv_event
    /\ UNCHANGED <<config, link, manager, inflight_coll, route, handled>>

\* sim_recv: a receive that comes after its chunk schedules its handler.
Recv(m) ==
    /\ "recv" \notin tracker[m] /\ m \notin recv_event /\ handled[m] = 0
    /\ IF "finished" \in tracker[m]
       THEN /\ tracker' = [tracker EXCEPT ![m] = {}]
            /\ recv_event' = recv_event \cup {m}
       ELSE /\ tracker' = [tracker EXCEPT ![m] = @ \cup {"recv"}]
            /\ UNCHANGED recv_event
    /\ UNCHANGED <<config, link, manager, inflight_coll, route, handled>>

RecvHandler(m) ==
    /\ m \in recv_event
    /\ recv_event' = recv_event \ {m}
    /\ handled' = [handled EXCEPT ![m] = @ + 1]
    /\ UNCHANGED <<config, link, manager, inflight_coll, route, tracker>>

\* Mutants of ProcessArrival: every message ends a communication; the send
\* handler runs only together with the receive handler.
ArrivalAlwaysEnds(m) ==
    /\ IF "recv" \in tracker[m]
       THEN /\ tracker' = [tracker EXCEPT ![m] = {}]
            /\ handled' = [handled EXCEPT ![m] = @ + 1]
       ELSE /\ tracker' = [tracker EXCEPT ![m] = @ \cup {"finished"}]
            /\ UNCHANGED handled
    /\ inflight_coll' = inflight_coll - 1

ArrivalWaitsForRecv(m) ==
    /\ IF "recv" \in tracker[m]
       THEN /\ tracker' = [tracker EXCEPT ![m] = {}]
            /\ handled' = [handled EXCEPT ![m] = @ + 1]
            /\ inflight_coll' = IF HoldsGate(m) THEN inflight_coll - 1 ELSE inflight_coll
       ELSE /\ tracker' = [tracker EXCEPT ![m] = @ \cup {"finished"}]
            /\ UNCHANGED <<handled, inflight_coll>>

\* process_chunk_arrival: the send handler runs, which ends the
\* communication, and the receive handler if a receive is posted. A send that
\* does not hold the gate asks for the next topology instead (post_reconfig):
\* Reconfigure is possible at any time.
ProcessArrival(m) ==
    /\ IF "recv" \in tracker[m]
       THEN /\ tracker' = [tracker EXCEPT ![m] = {}]
            /\ handled' = [handled EXCEPT ![m] = @ + 1]
       ELSE /\ tracker' = [tracker EXCEPT ![m] = @ \cup {"finished"}]
            /\ UNCHANGED handled
    /\ inflight_coll' = IF HoldsGate(m) THEN inflight_coll - 1 ELSE inflight_coll

\* Chunk::chunk_arrived_next_device
ChunkArrives(m, l) ==
    /\ m \in link[l].flying
    /\ LET rest == Tail(route[m])
           here == [link EXCEPT ![l].flying = @ \ {m}]
       IN  /\ route' = [route EXCEPT ![m] = rest]
           /\ IF Len(rest) = 1
              THEN link' = here /\ ProcessArrival(m)
              ELSE /\ link' = [here EXCEPT ![HopOf(rest)] = Offer(@, m)]
                   /\ UNCHANGED <<inflight_coll, tracker, handled>>
    /\ UNCHANGED <<config, manager, recv_event>>

\* The free event of a chunk's transmission.
TransmissionEnds(m, l) ==
    /\ m \in link[l].sending /\ m \notin link[l].flying
    /\ LinkBecomeFree(l, [link[l] EXCEPT !.sending = @ \ {m}])
    /\ UNCHANGED <<config, inflight_coll, route, api>>

\* The free event that Device::reconfigure scheduled.
RefitEnds(l) ==
    /\ link[l].refits > 0
    /\ LinkBecomeFree(l, [link[l] EXCEPT !.refits = @ - 1])
    /\ UNCHANGED <<config, inflight_coll, route, api>>

-----------------------------------------------------------------------------
IdleLink(b) ==
    [bw |-> b, busy |-> FALSE, pending |-> <<>>, flying |-> {},
     sending |-> {}, refits |-> 0]

\* After main.cc's first reconfigure: with BFS it takes no time; with OPUS
\* it takes 1 ns and every link changes, as the latency of all of them does.
Init ==
    /\ opus \in BOOLEAN /\ instant \in BOOLEAN
    /\ cur_topo_id = InitTopo
    /\ link = [l \in Links |->
                 IF opus THEN [IdleLink(Bw[InitTopo][l]) EXCEPT !.busy = TRUE, !.refits = 1]
                         ELSE IdleLink(Bw[InitTopo][l])]
    /\ num_drained_links = 0
    /\ reconfiguring = opus /\ finishing = opus /\ draining = FALSE
    /\ inflight_coll = 0
    /\ route = [m \in Msgs |-> <<>>]
    /\ tracker = [m \in Msgs |-> {}]
    /\ recv_event = {}
    /\ handled = [m \in Msgs |-> 0]

Next ==
    \/ \E t \in Topos : Reconfigure(t)
    \/ FinishReconfiguration
    \/ \E m \in Msgs : Send(m) \/ Recv(m) \/ RecvHandler(m)
    \/ \E m \in Msgs, l \in Links : ChunkArrives(m, l) \/ TransmissionEnds(m, l)
    \/ \E l \in Links : RefitEnds(l)

Spec == Init /\ [][Next]_vars

\* Every event in the queue is executed: proceed() is called until it is
\* empty. Requests, sends and receives are the workload's choice.
MessageEvent ==
    \/ \E m \in Msgs : RecvHandler(m)
    \/ \E m \in Msgs, l \in Links : ChunkArrives(m, l) \/ TransmissionEnds(m, l)
ManagerEvent == FinishReconfiguration \/ \E l \in Links : RefitEnds(l)

FairSpec == Spec /\ WF_vars(MessageEvent) /\ WF_vars(ManagerEvent)

-----------------------------------------------------------------------------
(* Properties. *)

LinkRecord ==
    [bw : Nat, busy : BOOLEAN, pending : Seq(Msgs), flying : SUBSET Msgs,
     sending : SUBSET Msgs, refits : Nat]

\* Every variable has its type; inflight_coll never goes below zero.
TypeOK ==
    /\ opus \in BOOLEAN /\ instant \in BOOLEAN
    /\ link \in [Links -> LinkRecord]
    /\ num_drained_links \in Nat
    /\ reconfiguring \in BOOLEAN /\ draining \in BOOLEAN /\ finishing \in BOOLEAN
    /\ cur_topo_id \in Topos
    /\ inflight_coll \in Nat
    /\ route \in [Msgs -> Seq(Devices)]
    /\ tracker \in [Msgs -> SUBSET {"send", "recv", "finished"}]
    /\ recv_event \subseteq Msgs
    /\ handled \in [Msgs -> Nat]

\* A link with queued chunks is in use or has no bandwidth, and a link in
\* use has an event to come that frees it: although links are freed and
\* made busy by transmissions, by reconfigurations and by both at once, no
\* queue is left without an event that serves it (Device::send,
\* link_become_free, Device::reconfigure).
LinkServed ==
    \A l \in Links :
        /\ link[l].pending # <<>> => link[l].busy \/ link[l].bw = 0
        /\ link[l].busy => link[l].sending # {} \/ link[l].refits > 0

Travelling(m) == Len(route[m]) > 1

Queued(m, l) == {i \in DOMAIN link[l].pending : link[l].pending[i] = m}

\* The topology manager knows of m, or m needs no particular topology.
Safe(m) == Gated(m) => HoldsGate(m)

\* A chunk on its way is at exactly one link, the next of its route, queued
\* once or in flight: no change of topology loses a chunk. And unless it is a
\* send that does not hold the gate ("Legacy bitmask experiments retain their
\* original nonblocking send behavior", Workload.cc:911), the topology being
\* installed or installed gives that link bandwidth: the chunk is not stranded.
NoChunkStranded ==
    \A m \in Msgs, l \in Links :
        IF Travelling(m) /\ l = HopOf(route[m])
        THEN /\ Cardinality(Queued(m, l)) = IF m \in link[l].flying THEN 0 ELSE 1
             /\ Safe(m) => Bw[cur_topo_id][l] > 0
        ELSE Queued(m, l) = {} /\ m \notin link[l].flying

\* inflight_coll counts the communications that hold the gate: it is never
\* decremented below zero and is 0 only when all of them have ended.
InflightExact ==
    inflight_coll = Cardinality({m \in Msgs : HoldsGate(m) /\ Travelling(m)})

\* Whichever comes first, the chunk or the receive, the handler runs at
\* most once, after both, and the tracker keeps no entry behind.
HandledOnce ==
    \A m \in Msgs :
        /\ handled[m] + (IF m \in recv_event THEN 1 ELSE 0) <= 1
        /\ handled[m] = 1 => Len(route[m]) = 1 /\ tracker[m] = {}

Gate == INSTANCE TopologyGate WITH
    Topologies <- Topos, Circuits <- Bw,
    current <- cur_topo_id, changing <- reconfiguring,
    open <- inflight_coll, installed <- [l \in Links |-> link[l].bw]

\* The topology manager keeps the promise of TopologyGate: no switch while
\* a communication is open or a change is under way, all links change
\* together, and is_reconfiguring() is withdrawn only when the links are
\* those of cur_topo_id.
ImplementsGate == Gate!GateSpec

\* A drain ends although sends go on during it and links are counted more
\* than once, or reset the count (increment_callback).
ReconfigFinishes == reconfiguring ~> ~reconfiguring

LeftBehind(m) == ~Safe(m) /\ Travelling(m) /\ Bw[cur_topo_id][HopOf(route[m])] = 0

\* A message that is sent and received is handled, whatever the topology
\* manager does in between. Only a send that does not hold the gate may be
\* left waiting, and only at a link that the current topology does not have.
MessageHandled ==
    \A m \in Msgs :
        (route[m] # <<>> /\ ("recv" \in tracker[m] \/ m \in recv_event))
            ~> (handled[m] = 1 \/ LeftBehind(m))
===============================================================================
