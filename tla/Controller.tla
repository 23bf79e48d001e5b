------------------------------ MODULE Controller ------------------------------
(***************************************************************************)
(* The Opus controller (opus-controller/controller.cpp) together with its  *)
(* rail workers.  Every client connection (one per rank) is served by one  *)
(* thread of the pool, which handles the lines of that connection one      *)
(* after the other: COMM registers the client in a communicator,           *)
(* CONFIG_REQ is a vote in the barrier of one collective, and the vote     *)
(* that completes the barrier reconfigures the communicator's rail and     *)
(* acknowledges every registered client.                                   *)
(*                                                                         *)
(* One action is one region that holds mapMtx, or one access to the        *)
(* unprotected topoIds, or one exchange with a rail worker.  The callers   *)
(* of the rail workers are the client threads: Conns = the clients.        *)
(***************************************************************************)
EXTENDS RailWorker

CONSTANTS
    Groups,               \* communicators (hexId)
    Members,              \* per group: the clients that are its ranks
    Requests,             \* the CONFIG_REQ lines: [hex, backend, counter]
    Senders,              \* per request: the clients that issue it
    PP_INTERVAL,          \* counter \div PP_INTERVAL is a pipeline stage or pair
    PP_BACKEND_INTERVAL,  \* backend \div PP_BACKEND_INTERVAL is a pipeline pair
    ServerIdx,            \* per client: index of its IP in server_ips, or -1
    LocalRank,            \* per client: the localRank field of its COMM lines
    ForcedDomain,         \* forced_domain(): -1, 0 or 1
    InitialTopo,          \* the -t option
    MayExit               \* rails whose worker process may die

Clients == Conns

ASSUME ClientsAssumption == IsFiniteSet(Clients)
ASSUME GroupsAssumption == Members \in [Groups -> SUBSET Clients]
ASSUME RequestsAssumption ==
    /\ Requests # {}
    /\ Requests \subseteq [hex : Groups, backend : Nat, counter : Nat]
    /\ Senders \in [Requests -> SUBSET Clients]
ASSUME IntervalAssumption ==
    PP_INTERVAL \in Nat \ {0} /\ PP_BACKEND_INTERVAL \in Nat \ {0}
ASSUME SiteAssumption ==
    /\ 0 \in Rails
    /\ ServerIdx \in [Clients -> Nat \cup {-1}]
    /\ LocalRank \in [Clients -> Nat]
    /\ ForcedDomain \in {-1, 0, 1}
    /\ InitialTopo \in Topos
    /\ MayExit \subseteq Rails

VARIABLES
    idToClients,  \* per group: the registered clients
    idToTopoId,   \* per group: [topo, rail]; both 0 until it is determined
    domain,       \* per group: the domain broadcast in CHECKIN_ACK, or NoDomain
    readyCount,   \* per group and counter: the votes counted so far
    topoIds,      \* per rail: the topology id the controller wants
    pc,           \* per client thread: where it is in handle_config_req
    req,          \* per client thread: the request it handles
    rail,         \* per client thread: the local copy of the rail
    topo,         \* per client thread: the local copy of the topology id
    ackLeft,      \* per client thread: clients it still has to acknowledge
    crashed,      \* an exception escaped from a thread: std::terminate
    sent,         \* history: the requests each client has issued
    erased,       \* history: the barriers whose count was erased
    acked         \* history: per client and request, the CONFIG_ACKs it got

ctlVars == <<idToClients, idToTopoId, domain, readyCount, topoIds, pc, req,
             rail, topo, ackLeft, crashed, sent, erased, acked>>
vars == <<ctlVars, railVars>>

NoDomain == -2
Counters == {q.counter : q \in Requests}
Keys == Groups \X Counters
Key(q) == <<q.hex, q.counter>>

\* The parts of the state that each kind of step leaves alone.
regVars == <<idToClients, idToTopoId, domain>>
threadVars == <<pc, req, rail, topo, ackLeft>>
histVars == <<sent, erased, acked>>

Init ==
    /\ idToClients = [h \in Groups |-> {}]
    /\ idToTopoId = [h \in Groups |-> [topo |-> 0, rail |-> 0]]
    /\ domain = [h \in Groups |-> NoDomain]
    /\ readyCount = [k \in Keys |-> 0]
    /\ topoIds = [r \in Rails |-> InitialTopo]
    /\ pc = [c \in Clients |-> "idle"]
    /\ req = [c \in Clients |-> CHOOSE q \in Requests : TRUE]
    /\ rail = [c \in Clients |-> 0]
    /\ topo = [c \in Clients |-> {}]
    /\ ackLeft = [c \in Clients |-> {}]
    /\ crashed = FALSE
    /\ sent = [c \in Clients |-> {}]
    /\ erased = {}
    /\ acked = [c \in Clients |-> [q \in Requests |-> 0]]
    \* the constructor has run reconfig_all(topoIds[0])
    /\ past_topo = [r \in Rails |-> InitialTopo]
    /\ topology_states = [r \in Rails |-> InitialTopo]
    /\ alive = [r \in Rails |-> TRUE]
    /\ conn = [c \in Conns |-> NoConn]

Idle(c) == ~crashed /\ pc[c] = "idle"
At(c, l) == ~crashed /\ pc[c] = l
---------------------------------------------------------------------------
(* handle_comm: the whole handler holds mapMtx.                            *)

CommSize(h) == Cardinality(Members[h])

\* determine_topo_pm: where the registered clients are.
Nodes(cl) == {ServerIdx[c] : c \in cl}
AllKnown(cl) == -1 \notin Nodes(cl)
Sequential(cl) == \A i, j \in Nodes(cl) : i < j => i + 1 \in Nodes(cl)
DetectedDomain(cl) == IF ~AllKnown(cl) THEN -1
                      ELSE IF Cardinality(Nodes(cl)) = 1 THEN 1 ELSE 0

\* A registration that is not the last one of its group.
HandleComm(c, h) ==
    LET cl == idToClients[h] \cup {c} IN
    /\ Idle(c) /\ c \in Members[h] \ idToClients[h]
    /\ Cardinality(cl) # CommSize(h)
    /\ idToClients' = [idToClients EXCEPT ![h] = cl]
    /\ UNCHANGED <<idToTopoId, domain, readyCount, topoIds, threadVars, crashed,
                   histVars, railVars>>

\* Mutant: the rail is determined and never stored.
HandleCommNotStored(c, h) ==
    LET cl == idToClients[h] \cup {c} IN
    /\ Idle(c) /\ c \in Members[h] \ idToClients[h]
    /\ Cardinality(cl) = CommSize(h)
    /\ AllKnown(cl) => LocalRank[c] \in Rails
    /\ idToClients' = [idToClients EXCEPT ![h] = cl]
    /\ domain' = [domain EXCEPT ![h] = DetectedDomain(cl)]
    /\ UNCHANGED <<idToTopoId, readyCount, topoIds, threadVars, crashed, histVars, railVars>>

\* Mutant: localRank is not compared with the number of rails.
HandleCommAnyRail(c, h) ==
    LET cl == idToClients[h] \cup {c} IN
    /\ Idle(c) /\ c \in Members[h] \ idToClients[h]
    /\ Cardinality(cl) = CommSize(h)
    /\ idToClients' = [idToClients EXCEPT ![h] = cl]
    /\ idToTopoId' = [idToTopoId EXCEPT ![h] = [topo |-> 1, rail |-> LocalRank[c]]]
    /\ UNCHANGED <<domain, readyCount, topoIds, threadVars, crashed, histVars, railVars>>

\* The last one: the rail of the group is the last registrant's localRank, and
\* the domain is broadcast.  A client with an unknown IP leaves the rail unset.
HandleCommLast(c, h) ==
    LET cl == idToClients[h] \cup {c} IN
    /\ Idle(c) /\ c \in Members[h] \ idToClients[h]
    /\ Cardinality(cl) = CommSize(h)
    /\ AllKnown(cl) => LocalRank[c] \in Rails
    /\ idToClients' = [idToClients EXCEPT ![h] = cl]
    /\ idToTopoId' = IF AllKnown(cl)
                     THEN [idToTopoId EXCEPT ![h] =
                             [topo |-> IF Sequential(cl) THEN 1 ELSE 2, rail |-> LocalRank[c]]]
                     ELSE idToTopoId
    /\ domain' = [domain EXCEPT ![h] = IF ForcedDomain >= 0 THEN ForcedDomain
                                                           ELSE DetectedDomain(cl)]
    /\ UNCHANGED <<readyCount, topoIds, threadVars, crashed, histVars, railVars>>

\* "localRank exceeds number of rails": nobody catches it.
HandleCommThrows(c, h) ==
    LET cl == idToClients[h] \cup {c} IN
    /\ Idle(c) /\ c \in Members[h] \ idToClients[h]
    /\ Cardinality(cl) = CommSize(h)
    /\ AllKnown(cl) /\ LocalRank[c] \notin Rails
    /\ idToClients' = [idToClients EXCEPT ![h] = cl]
    /\ crashed' = TRUE
    /\ UNCHANGED <<idToTopoId, domain, readyCount, topoIds, threadVars, histVars, railVars>>

---------------------------------------------------------------------------
(* handle_config_req                                                       *)

IsPP(q) == q.backend > PP_BACKEND_INTERVAL
PPGroup(q) == q.backend \div PP_BACKEND_INTERVAL
Stage(q) == q.counter \div PP_INTERVAL

\* Mutants: the last rank is not waited for; half of the ranks are enough.
OneShort(q, cnt, size) == IF IsPP(q) THEN cnt >= 2 ELSE cnt >= size - 1
HalfArrive(q, cnt, size) == IF IsPP(q) THEN cnt >= 2 ELSE cnt >= size \div 2

all_arrive(q, cnt, size) == IF IsPP(q) THEN cnt >= 2 ELSE cnt >= size

\* A client issues each of its requests once (its counters only grow), after
\* its own COMM line for the group: both travel on the same connection.
Issues(c, q) ==
    /\ Idle(c) /\ c \in Senders[q]
    /\ \A p \in sent[c] : Key(p) # Key(q)
    /\ c \in Members[q.hex] => c \in idToClients[q.hex]

\* CONFIG_REQ for a group nobody registered: dropped.
DropConfigReq(c, q) ==
    /\ Issues(c, q)
    /\ idToClients[q.hex] = {}
    /\ sent' = [sent EXCEPT ![c] = @ \cup {q}]
    /\ UNCHANGED <<regVars, readyCount, topoIds, threadVars, crashed, erased, acked, railVars>>

\* Under mapMtx: count the vote and read the count; then all_arrive.
CountVote(c, q) ==
    LET cnt == readyCount[Key(q)] + 1 IN
    /\ Issues(c, q)
    /\ idToClients[q.hex] # {}
    /\ readyCount' = [readyCount EXCEPT ![Key(q)] = cnt]
    /\ sent' = [sent EXCEPT ![c] = @ \cup {q}]
    /\ req' = [req EXCEPT ![c] = q]
    /\ pc' = [pc EXCEPT ![c] = IF all_arrive(q, cnt, CommSize(q.hex)) THEN "erase" ELSE "idle"]
    /\ UNCHANGED <<regVars, topoIds, rail, topo, ackLeft, crashed, erased, acked, railVars>>

\* Mutant: all counters of the group are erased, votes for later ones included.
EraseGroup(c) ==
    /\ At(c, "erase")
    /\ readyCount' = [k \in Keys |-> IF k[1] = req[c].hex THEN 0 ELSE readyCount[k]]
    /\ erased' = erased \cup {Key(req[c])}
    /\ pc' = [pc EXCEPT ![c] = "read"]
    /\ UNCHANGED <<regVars, topoIds, req, rail, topo, ackLeft, crashed, sent, acked, railVars>>

\* Under mapMtx again: forget the barrier.
EraseReady(c) ==
    /\ At(c, "erase")
    /\ readyCount' = [readyCount EXCEPT ![Key(req[c])] = 0]
    /\ erased' = erased \cup {Key(req[c])}
    /\ pc' = [pc EXCEPT ![c] = "read"]
    /\ UNCHANGED <<regVars, topoIds, req, rail, topo, ackLeft, crashed, sent, acked, railVars>>

---------------------------------------------------------------------------
(* determine_runtime_topo and reconfig: topoIds is not protected.          *)

set_PP_topo(t, pp_group) == t \cup {pp_group - 1, pp_group}
set_non_PP_topo(t, pp_stage) == t \ {pp_stage}

RuntimeTopo(t, q) == IF IsPP(q) THEN set_PP_topo(t, PPGroup(q))
                                ELSE set_non_PP_topo(t, Stage(q))

\* The right-hand side of topoIds[rail] = set_..._topo(topoIds[rail], ...).
ReadTopo(c) ==
    LET r == idToTopoId[req[c].hex].rail IN
    /\ At(c, "read")
    /\ IsPP(req[c]) => Stage(req[c]) = PPGroup(req[c])
    /\ rail' = [rail EXCEPT ![c] = r]
    /\ topo' = [topo EXCEPT ![c] = RuntimeTopo(topoIds[r], req[c])]
    /\ pc' = [pc EXCEPT ![c] = "write"]
    /\ UNCHANGED <<regVars, readyCount, topoIds, req, ackLeft, crashed, histVars, railVars>>

\* "PP backendId and collectiveCounter mismatch": nobody catches it.
ReadTopoThrows(c) ==
    /\ At(c, "read")
    /\ IsPP(req[c]) /\ Stage(req[c]) # PPGroup(req[c])
    /\ crashed' = TRUE
    /\ UNCHANGED <<regVars, readyCount, topoIds, threadVars, histVars, railVars>>

\* The assignment.
WriteTopo(c) ==
    /\ At(c, "write")
    /\ topoIds' = [topoIds EXCEPT ![rail[c]] = topo[c]]
    /\ pc' = [pc EXCEPT ![c] = "connect"]
    /\ UNCHANGED <<regVars, readyCount, req, rail, topo, ackLeft, crashed, histVars, railVars>>

\* rail and id are read again and sent to the rail's worker.
Reconfig(c) ==
    LET r == idToTopoId[req[c].hex].rail IN
    /\ At(c, "connect")
    /\ rail' = [rail EXCEPT ![c] = r]
    /\ topo' = [topo EXCEPT ![c] = topoIds[r]]
    /\ Connect(c, r, topoIds[r])
    /\ pc' = [pc EXCEPT ![c] = "await"]
    /\ UNCHANGED <<regVars, readyCount, topoIds, req, ackLeft, crashed, histVars>>

\* All 500 connection attempts failed: no acknowledgement, the vote is spent.
ReconfigUnreachable(c) ==
    /\ At(c, "connect")
    /\ ~alive[idToTopoId[req[c].hex].rail]
    /\ pc' = [pc EXCEPT ![c] = "idle"]
    /\ UNCHANGED <<regVars, readyCount, topoIds, req, rail, topo, ackLeft, crashed,
                   histVars, railVars>>

\* The worker's answer contains SUCCESS.
ReconfigDone(c) ==
    /\ At(c, "await")
    /\ Succeeded(c) /\ Receive(c)
    /\ ackLeft' = [ackLeft EXCEPT ![c] = idToClients[req[c].hex]]
    /\ pc' = [pc EXCEPT ![c] = "ack"]
    /\ UNCHANGED <<regVars, readyCount, topoIds, req, rail, topo, crashed, histVars>>

\* It does not, or the worker closed the connection: return without an ack.
ReconfigFailed(c) ==
    /\ At(c, "await")
    /\ ~Succeeded(c) /\ Receive(c)
    /\ pc' = [pc EXCEPT ![c] = "idle"]
    /\ UNCHANGED <<regVars, readyCount, topoIds, req, rail, topo, ackLeft, crashed, histVars>>

\* Mutant: the iterator over the clients is not advanced.
SendAckRepeats(c, d) ==
    /\ At(c, "ack")
    /\ d \in ackLeft[c]
    /\ acked' = [acked EXCEPT ![d][req[c]] = @ + 1]
    /\ UNCHANGED <<regVars, readyCount, topoIds, threadVars, crashed, sent, erased, railVars>>

\* One CONFIG_ACK;hexId line; the line names the group, not the request.
SendAck(c, d) ==
    /\ At(c, "ack")
    /\ d \in ackLeft[c]
    /\ ackLeft' = [ackLeft EXCEPT ![c] = @ \ {d}]
    /\ acked' = [acked EXCEPT ![d][req[c]] = @ + 1]
    /\ pc' = [pc EXCEPT ![c] = IF ackLeft[c] = {d} THEN "idle" ELSE "ack"]
    /\ UNCHANGED <<regVars, readyCount, topoIds, req, rail, topo, crashed, sent, erased, railVars>>

---------------------------------------------------------------------------
\* Steps of client c's thread that nothing outside has to trigger.
Thread(c) ==
    \/ EraseReady(c)
    \/ ReadTopo(c)
    \/ ReadTopoThrows(c)
    \/ WriteTopo(c)
    \/ Reconfig(c)
    \/ ReconfigUnreachable(c)
    \/ ReconfigDone(c)
    \/ ReconfigFailed(c)
    \/ \E d \in Clients : SendAck(c, d)

Registers(c, h) == HandleComm(c, h) \/ HandleCommLast(c, h) \/ HandleCommThrows(c, h)

Next ==
    \/ \E c \in Clients, h \in Groups : Registers(c, h)
    \/ \E c \in Clients, q \in Requests : DropConfigReq(c, q) \/ CountVote(c, q)
    \/ \E c \in Clients : Thread(c)
    \/ \E c \in Clients : Handler(c) /\ UNCHANGED ctlVars
    \/ \E r \in MayExit : Exit(r) /\ UNCHANGED ctlVars

\* Pool threads and rail workers are scheduled; clients may stop at any time.
Fairness == \A c \in Clients : WF_vars(Thread(c)) /\ WF_vars(Handler(c) /\ UNCHANGED ctlVars)

Spec == Init /\ [][Next]_vars /\ Fairness
---------------------------------------------------------------------------
(* Properties                                                              *)

Labels == {"idle", "erase", "read", "write", "connect", "await", "ack"}

TypeOK ==
    /\ idToClients \in [Groups -> SUBSET Clients]
    /\ idToTopoId \in [Groups -> [topo : {0, 1, 2}, rail : Rails]]
    /\ domain \in [Groups -> {NoDomain, -1, 0, 1}]
    /\ readyCount \in [Keys -> Nat]
    /\ topoIds \in [Rails -> Topos]
    /\ pc \in [Clients -> Labels]
    /\ req \in [Clients -> Requests]
    /\ rail \in [Clients -> Rails]
    /\ topo \in [Clients -> Topos]
    /\ ackLeft \in [Clients -> SUBSET Clients]
    /\ crashed \in BOOLEAN
    /\ sent \in [Clients -> SUBSET Requests]
    /\ erased \subseteq Keys
    /\ acked \in [Clients -> [Requests -> Nat]]
    /\ RailTypeOK

\* The thread is past the barrier of the request it handles.
Completing(c) == pc[c] # "idle"

\* The clients whose vote for key k the controller has received.
Arrived(k) == {c \in Clients : \E q \in sent[c] : Key(q) = k}

\* No thread gets past the barrier of a collective before every rank that takes
\* part in it has asked, although the count is released, compared, and erased
\* in separate steps and clients may run ahead to later counters.
BarrierSafe ==
    \A c \in Clients : Completing(c) => Senders[req[c]] \subseteq Arrived(Key(req[c]))

\* A barrier is completed by one thread and once: no second thread is past it,
\* and the count that is about to be erased has not been erased before.
CompletedOnce ==
    \A c \in Clients : Completing(c) =>
        /\ \A d \in Clients \ {c} : Completing(d) => Key(req[d]) # Key(req[c])
        /\ pc[c] = "erase" <=> Key(req[c]) \notin erased

\* The rail that is reconfigured is the one registration assigned to the group,
\* and not the {0, 0} that idToTopoId[hexId] makes up when the entry is missing.
RailIsAssigned ==
    \A c \in Clients : pc[c] \in {"write", "connect", "await", "ack"} =>
        /\ idToTopoId[req[c].hex].topo # 0
        /\ rail[c] = idToTopoId[req[c].hex].rail

\* What a request needs of its rail: the links of a pipeline pair, or the ring
\* of a pipeline stage.
Provides(t, q) == IF IsPP(q) THEN {PPGroup(q) - 1, PPGroup(q)} \subseteq t
                             ELSE Stage(q) \notin t

\* CONFIG_ACK is sent only while the requested topology is installed.
AckMeansInstalled ==
    \A c \in Clients : pc[c] = "ack" => Provides(topology_states[rail[c]], req[c])

\* The same when no other thread is busy with that rail any more: README.md:386
\* has the worker install the requested cross-connects and answer before
\* communication continues.
QuietAckMeansInstalled ==
    \A c \in Clients :
        (pc[c] = "ack" /\ \A d \in Clients \ {c} : Completing(d) => rail[d] # rail[c])
        => Provides(topology_states[rail[c]], req[c])

\* The controller seen as a barrier: a barrier is open once its count is erased.
Promise == INSTANCE CollectiveBarrier WITH
    Parties <- Clients, Rounds <- Requests, Askers <- Senders,
    Listeners <- [q \in Requests |-> Members[q.hex]],
    asked <- sent,
    released <- {q \in Requests : Key(q) \in erased},
    delivered <- acked

\* With its threads, its counts and its rail workers the controller implements
\* the barrier the ranks rely on: opened once, after every participant asked,
\* and every member is acknowledged at most once per collective.
ImplementsBarrier == Promise!BarrierSpec

\* When every rank of a collective has asked and its rail's worker stays up,
\* every rank gets the acknowledgement: nothing is lost between the threads.
EveryoneAcked ==
    \A q \in Requests :
        (\A c \in Senders[q] : q \in sent[c]) ~>
            (crashed \/ \A c \in Senders[q] : acked[c][q] > 0)
===============================================================================
