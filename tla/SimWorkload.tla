------------------------------ MODULE SimWorkload ------------------------------
(***************************************************************************)
(* The simulator's workload layer with decimal topology ids (--routing-    *)
(* algorithm opus): every rank walks its dependency graph, a collective is *)
(* issued once all ranks of its group have voted for it, and a collective  *)
(* or a send is issued only when the scheduler has obtained a topology     *)
(* that serves it (Workload.cc, Scheduler.cc, HardwareResource.cc, the     *)
(* dependency solver, Sys::handleEvent and main.cc's loop).                *)
(*                                                                         *)
(* The simulator is one thread. An event handler runs to completion and    *)
(* may call itself on other ranks: the rank that opens a collective calls  *)
(* issue_dep_free_nodes of its peers from inside its own loop. The calls   *)
(* under way are the variable stack; while it is not empty nothing else    *)
(* happens.                                                                *)
(*                                                                         *)
(* The network is its promise to the workload, TopologyGate, which         *)
(* SimNetwork implements. A topology is the function from pipeline stages  *)
(* to digits that its id writes down: 0 PP, 1 DP, 3 EP.                    *)
(***************************************************************************)
EXTENDS Naturals, Sequences, FiniteSets

CONSTANTS
    NumRanks,   \* ranks are 0 .. NumRanks-1
    NumStages,  \* pipeline stages; stages hold equally many ranks
    Groups,     \* communicator groups
    Members,    \* per group: its ranks (involved_NPUs)
    Program,    \* per rank: its nodes, as a sequence; the index is the id
    Schedules   \* the circuit schedules: functions from topologies to links

Ranks == 0 .. NumRanks - 1
Stages == 0 .. NumStages - 1
Digits == {0, 1, 3}
Topologies == [Stages -> Digits]

StageOf(r) == r \div (NumRanks \div NumStages)

\* A node of the dependency graph: its parents, and by kind
\*   coll: the group, the digit it asks for, its number in the group;
\*   send, recv: the message; a send also its digit and its destination;
\*   comp: the topology its reconfig_topo_id names, or {}.
\* gated is FALSE for the collectives of topology_agnostic_tp and of
\* skip_scheduler_reconfig.
Node(r, n) == Program[r][n]
Nodes(r) == DOMAIN Program[r]

\* What a dependency graph names exists, and a node depends on earlier ones.
WellFormed(r, n) ==
    LET me == Node(r, n) IN
    /\ me.parents \subseteq 1..n-1
    /\ me.kind \in {"coll", "send", "recv", "comp"}
    /\ me.kind \in {"coll", "send"} => me.dim \in Digits /\ me.gated \in BOOLEAN
    /\ me.kind = "coll" => me.grp \in Groups /\ r \in Members[me.grp] /\ me.number \in Nat
    /\ me.kind = "coll" /\ me.gated => me.dim # 0
    /\ me.kind = "send" => me.to \in Ranks /\ me.gated
    /\ me.kind = "comp" => me.topo \subseteq Topologies

ASSUME WorkloadAssumption ==
    /\ NumRanks \in Nat \ {0} /\ NumStages \in Nat \ {0} /\ NumRanks % NumStages = 0
    /\ IsFiniteSet(Groups)
    /\ \A g \in Groups : Members[g] \subseteq Ranks
    /\ \A r \in Ranks : Nodes(r) \subseteq Nat /\ \A n \in Nodes(r) : WellFormed(r, n)

VARIABLES
    circuits,      \* the schedule of this run: per topology, its links
    stack,         \* the calls of issue_dep_free_nodes under way
    ongoing,       \* per rank: the nodes taken
    done,          \* per rank: the nodes finished
    votes,         \* group_node_vote_count
    finishes,      \* group_node_finish_count
    vote_rounds,
    finish_rounds,
    stage_state,   \* stage_dp_or_pp
    pending,       \* pending_topo_requests
    ready,         \* pending_topo_ready_time, relative to now
    current,       \* cur_topo_id
    changing,      \* is_reconfiguring()
    inflight,      \* inflight_coll
    wakeups,       \* a CallEvents event is scheduled that runs no handler
    phase          \* of main.cc's loop: "run", "poll" or "end"

graph == <<ongoing, done>>
rounds == <<votes, finishes, vote_rounds, finish_rounds>>
scheduler == <<stage_state, pending, ready>>
network == <<current, changing, inflight>>
vars == <<circuits, stack, graph, rounds, scheduler, network, wakeups, phase>>

-----------------------------------------------------------------------------
(* The dependency solver and the hardware resources of a rank. *)

Free(r) ==
    {n \in Nodes(r) \ (ongoing[r] \cup done[r]) : Node(r, n).parents \subseteq done[r]}

IsComm(r, n) == Node(r, n).kind \in {"coll", "send"}

\* HardwareResource::is_available: one compute node and one collective or
\* send at a time; a receive is always available.
Available(r, n) ==
    CASE Node(r, n).kind = "recv" -> TRUE
      [] Node(r, n).kind = "comp" -> \A k \in ongoing[r] : Node(r, k).kind # "comp"
      [] OTHER -> \A k \in ongoing[r] : ~IsComm(r, k)

-----------------------------------------------------------------------------
(* Scheduler::pre_reconfig *)

Request(r, n) ==
    [stage |-> StageOf(r), dim |-> Node(r, n).dim,
     dst |-> IF Node(r, n).dim = 0 THEN StageOf(Node(r, n).to) ELSE StageOf(r)]

\* request_stages
Touches(q) == {q.stage, q.dst}

\* request_satisfied
Satisfied(q, state) == \A s \in Touches(q) : state[s] = q.dim

\* request_less: by stage, then EP before PP before DP, then destination.
Before(p, q) ==
    LET Priority(d) == CASE d = 3 -> 0 [] d = 0 -> 1 [] OTHER -> 2
        Key(x) == (x.stage * 3 + Priority(x.dim)) * NumStages + x.dst
    IN  Key(p) < Key(q)

\* The batch of open requests granted together: in the order of request_less,
\* those that touch no stage of an earlier one of the batch.
IsBatch(B, open) ==
    \A q \in open :
        q \in B <=> \A p \in B : Before(p, q) => Touches(p) \cap Touches(q) = {}

\* next_stage_state: apply_request for every request of the batch.
Applied(B, state) ==
    [s \in Stages |-> IF \E q \in B : s \in Touches(q)
                       THEN (CHOOSE q \in B : s \in Touches(q)).dim ELSE state[s]]

\* Mutant of Grants: communications under way are not looked at.
GrantsAnyTime(t) == ~changing

\* TopologyManager::reconfigure, as its caller sees it.
Grants(t) ==
    /\ ~changing
    /\ t = current \/ circuits[t] = circuits[current] \/ inflight = 0

SimReconfig(t) ==
    /\ current' = t
    /\ changing' \in IF circuits[t] = circuits[current] THEN {FALSE} ELSE BOOLEAN

\* The outcome ok of pre_reconfig for request q, with its effects.
PreReconfig(q, ok) ==
    LET open == {p \in pending \cup {q} : ~Satisfied(p, stage_state)}
    IN  \E B \in SUBSET open :
          LET next == Applied(B, stage_state)
              left == {p \in open : ~Satisfied(p, next)}
              granted == ~Satisfied(q, stage_state) /\ ready = "open" /\ Grants(next)
          IN  /\ IsBatch(B, open)
              /\ IF granted
                 THEN /\ ok = Satisfied(q, next)
                      /\ stage_state' = next
                      /\ pending' = left
                      /\ ready' = IF left = {} THEN "off" ELSE "armed"
                      /\ SimReconfig(next)
                 ELSE /\ ok = Satisfied(q, stage_state)
                      /\ pending' = open
                      /\ ready' = CASE open = {} -> "off"
                                    [] ~ok /\ ready = "off" -> "armed"
                                    [] OTHER -> ready
                      /\ UNCHANGED <<stage_state, current, changing>>

-----------------------------------------------------------------------------
(* Workload::issue for node n of rank r, at the top of the stack. *)

Call(r) == [rank |-> r, fresh |-> TRUE, todo |-> {}]

Top == stack[Len(stack)]
Below == SubSeq(stack, 1, Len(stack) - 1)
After(n) == Append(Below, [Top EXCEPT !.todo = @ \ {n}])

Take(r, n) == ongoing' = [ongoing EXCEPT ![r] = @ \cup {n}] /\ UNCHANGED done

\* The node stays where it is; a 100 us wake-up is scheduled or none is.
Blocked(r, n) ==
    /\ stack' = After(n)
    /\ UNCHANGED <<graph, inflight, vote_rounds, phase>>

\* Mutant of IssueComp: an explicit switch leaves the scheduler's digits.
IssueCompForgetsDigits(r, n) ==
    /\ Node(r, n).kind = "comp"
    /\ UNCHANGED <<rounds, scheduler, inflight, phase>>
    /\ stack' = After(n)
    /\ \/ /\ Node(r, n).topo = {}
          /\ Take(r, n)
          /\ UNCHANGED <<current, changing, wakeups>>
       \/ \E t \in Node(r, n).topo :
            IF Grants(t)
            THEN Take(r, n) /\ SimReconfig(t) /\ UNCHANGED wakeups
            ELSE wakeups' = TRUE /\ UNCHANGED <<graph, current, changing>>

\* issue_reconfig of a compute node with reconfig_topo_id.
IssueComp(r, n) ==
    /\ Node(r, n).kind = "comp"
    /\ UNCHANGED <<rounds, pending, ready, inflight, phase>>
    /\ stack' = After(n)
    /\ \/ /\ Node(r, n).topo = {}
          /\ Take(r, n)
          /\ UNCHANGED <<stage_state, current, changing, wakeups>>
       \/ \E t \in Node(r, n).topo :
            IF Grants(t)
            THEN /\ Take(r, n)
                 /\ SimReconfig(t)
                 /\ stage_state' = t
                 /\ UNCHANGED wakeups
            ELSE wakeups' = TRUE /\ UNCHANGED <<graph, stage_state, current, changing>>

IssueRecv(r, n) ==
    /\ Node(r, n).kind = "recv"
    /\ stack' = After(n)
    /\ Take(r, n)
    /\ UNCHANGED <<rounds, scheduler, network, wakeups, phase>>

IssueSend(r, n) ==
    /\ Node(r, n).kind = "send"
    /\ UNCHANGED rounds
    /\ \E ok \in BOOLEAN :
        /\ PreReconfig(Request(r, n), ok)
        /\ IF ok
           THEN /\ stack' = After(n)
                /\ Take(r, n)
                /\ inflight' = inflight + 1
                /\ UNCHANGED <<wakeups, phase>>
           ELSE Blocked(r, n) /\ wakeups' = TRUE

\* vote
Voted(g, r) ==
    [votes EXCEPT ![g][r] = IF @ > finishes[g][r] THEN @ ELSE @ + 1]

\* Mutant of CheckVote: a rank may run ahead of the round.
CheckVoteAhead(g, r, v) == \A m \in Members[g] : v[g][m] > finish_rounds[g]

\* check_vote, with the votes v
CheckVote(g, r, v) ==
    /\ v[g][r] <= finish_rounds[g] + 1
    /\ \A m \in Members[g] : v[g][m] > finish_rounds[g]

\* Mutant of Peers: the rank calls itself too.
PeersAndSelf(g, r) == Members[g]

\* The rank that opens the round calls issue_dep_free_nodes of its peers,
\* in the order of the group file.
Peers(g, r) == Members[g] \ {r}

Orders(S) == {p \in [1..Cardinality(S) -> S] : \A i, j \in DOMAIN p : p[i] = p[j] => i = j}

IssueUngated(r, n) ==
    /\ Node(r, n).kind = "coll" /\ ~Node(r, n).gated
    /\ stack' = After(n)
    /\ Take(r, n)
    /\ UNCHANGED <<rounds, scheduler, network, wakeups, phase>>

\* A vote schedules a CallEvents event for every other rank of the group.
IssueColl(r, n) ==
    LET g == Node(r, n).grp
        v == Voted(g, r)
        notified == wakeups \/ Members[g] # {r}
    IN  /\ Node(r, n).kind = "coll" /\ Node(r, n).gated
        /\ votes' = v
        /\ UNCHANGED <<finishes, finish_rounds>>
        /\ \/ /\ ~CheckVote(g, r, v)
              /\ Blocked(r, n)
              /\ wakeups' = notified
              /\ UNCHANGED <<scheduler, current, changing>>
           \/ /\ CheckVote(g, r, v)
              /\ vote_rounds[g] # finish_rounds[g]
              /\ stack' = After(n)
              /\ Take(r, n)
              /\ wakeups' = notified
              /\ UNCHANGED <<vote_rounds, scheduler, network, phase>>
           \/ /\ CheckVote(g, r, v)
              /\ vote_rounds[g] = finish_rounds[g]
              /\ \E ok \in BOOLEAN :
                  /\ PreReconfig(Request(r, n), ok)
                  /\ IF ok
                     THEN /\ Take(r, n)
                          /\ wakeups' = notified
                          /\ inflight' = inflight + 1
                          /\ vote_rounds' = [vote_rounds EXCEPT ![g] = @ + 1]
                          /\ \E p \in Orders(Peers(g, r)) :
                               stack' = After(n) \o [i \in DOMAIN p |-> Call(p[i])]
                          /\ UNCHANGED phase
                     ELSE Blocked(r, n) /\ wakeups' = TRUE

\* The loop of issue_dep_free_nodes over its snapshot of the free nodes.
EnterLoop ==
    /\ stack # <<>> /\ Top.fresh
    /\ stack' = Append(Below, [Top EXCEPT !.fresh = FALSE, !.todo = Free(Top.rank)])
    /\ UNCHANGED <<graph, rounds, scheduler, network, wakeups, phase>>

LeaveLoop ==
    /\ stack # <<>> /\ ~Top.fresh /\ Top.todo = {}
    /\ stack' = Below
    /\ UNCHANGED <<graph, rounds, scheduler, network, wakeups, phase>>

\* take_node throws for a node that is not free, which abandons the loop: the
\* throw is logged by Sys::call_events or, elsewhere, ends the simulator. There
\* is no such step, and NoDoubleIssue says that none is needed.
LoopStep ==
    /\ stack # <<>> /\ ~Top.fresh /\ Top.todo # {}
    /\ \E n \in Top.todo :
        /\ \A k \in Top.todo : n <= k
        /\ LET r == Top.rank IN
           \/ /\ ~Available(r, n)
              /\ stack' = After(n)
              /\ UNCHANGED <<graph, rounds, scheduler, network, wakeups, phase>>
           \/ /\ Available(r, n) /\ n \in Free(r)
              /\ \/ IssueComp(r, n) \/ IssueRecv(r, n) \/ IssueSend(r, n)
                 \/ IssueUngated(r, n) \/ IssueColl(r, n)

-----------------------------------------------------------------------------
(* Events: Workload::call, and the end of a reconfiguration. *)

\* A node's completion event. A collective needs all of its group; a
\* message needs its receive only for the receiver's event.
Completes(r, n) ==
    LET me == Node(r, n)
        Issued(m, k) == k \in ongoing[m] \cup done[m]
    IN  /\ n \in ongoing[r]
        /\ me.kind = "coll" =>
             \A m \in Members[me.grp] : \E k \in Nodes(m) :
                /\ Issued(m, k)
                /\ Node(m, k).kind = "coll" /\ Node(m, k).grp = me.grp
                /\ Node(m, k).number = me.number
        /\ me.kind = "recv" =>
             \E m \in Ranks : \E k \in done[m] :
                Node(m, k).kind = "send" /\ Node(m, k).msg = me.msg

\* finish_node, and the loop that call runs after it.
Finish(r, n) ==
    /\ ongoing' = [ongoing EXCEPT ![r] = @ \ {n}]
    /\ done' = [done EXCEPT ![r] = @ \cup {n}]
    /\ stack' = <<Call(r)>>

Quiet == stack = <<>> /\ phase = "run"

\* Mutant of CheckFinish: every rank that finishes ends the round.
CheckFinishAlways(g, f) == TRUE

\* check_finish, with the counts f
CheckFinish(g, f) == \A m \in Members[g] : f[g][m] > finish_rounds[g]

CollFinished(r, n) ==
    LET g == Node(r, n).grp
        f == [finishes EXCEPT ![g][r] = @ + 1]
        all == CheckFinish(g, f)
    IN  /\ Quiet /\ Completes(r, n)
        /\ Node(r, n).kind = "coll" /\ Node(r, n).gated
        /\ finishes' = f
        /\ finish_rounds' = [finish_rounds EXCEPT ![g] = IF all THEN @ + 1 ELSE @]
        /\ inflight' = IF all THEN inflight - 1 ELSE inflight
        /\ wakeups' = (wakeups \/ all)
        /\ Finish(r, n)
        /\ UNCHANGED <<votes, vote_rounds, scheduler, current, changing, phase>>

PacketSent(r, n) ==
    /\ Quiet /\ Completes(r, n)
    /\ Node(r, n).kind = "send"
    /\ inflight' = inflight - 1
    /\ Finish(r, n)
    /\ UNCHANGED <<rounds, scheduler, current, changing, wakeups, phase>>

\* PacketReceived, the end of a compute node, and of ungated collectives.
OtherFinished(r, n) ==
    /\ Quiet /\ Completes(r, n)
    /\ Node(r, n).kind \in {"recv", "comp"} \/ (Node(r, n).kind = "coll" /\ ~Node(r, n).gated)
    /\ Finish(r, n)
    /\ UNCHANGED <<rounds, scheduler, network, wakeups, phase>>

Settle ==
    /\ Quiet /\ changing
    /\ changing' = FALSE
    /\ UNCHANGED <<stack, graph, rounds, scheduler, current, inflight, wakeups, phase>>

-----------------------------------------------------------------------------
(* The event queue and main.cc's loop. *)

EventPending == changing \/ \E r \in Ranks : \E n \in ongoing[r] : Completes(r, n)

\* A CallEvents event finds no callable registered for its tick.
Wakeup ==
    /\ Quiet /\ wakeups
    /\ wakeups' = FALSE
    /\ UNCHANGED <<stack, graph, rounds, scheduler, network, phase>>

\* The clock reaches the end of the batching window.
WindowOpens ==
    /\ Quiet /\ ready = "armed"
    /\ wakeups \/ EventPending
    /\ ready' = "open"
    /\ UNCHANGED <<circuits, stack, graph, rounds, stage_state, pending, network, wakeups, phase>>

\* A later event carries the clock past the window; the next request sets
\* it anew. Wake-ups alone come every 100 us and do not.
WindowPasses ==
    /\ Quiet /\ ready = "open"
    /\ EventPending
    /\ ready' = "off"
    /\ UNCHANGED <<circuits, stack, graph, rounds, stage_state, pending, network, wakeups, phase>>

AllRanks == [i \in 1..NumRanks |-> Call(NumRanks - i)]

\* The queue is empty: issue_dep_free_nodes on every rank, twice.
Poll ==
    /\ Quiet /\ ~wakeups /\ ~EventPending
    /\ phase' = "poll"
    /\ stack' = AllRanks \o AllRanks
    /\ UNCHANGED <<graph, rounds, scheduler, network, wakeups>>

\* Mutant of PollEnds: ranks that wait for a wake-up are forgotten.
PollEndsEarly ==
    /\ phase = "poll" /\ stack = <<>>
    /\ phase' = IF EventPending THEN "run" ELSE "end"
    /\ UNCHANGED <<stack, graph, rounds, scheduler, network, wakeups>>

\* The loop ends when the poll has put nothing into the queue.
PollEnds ==
    /\ phase = "poll" /\ stack = <<>>
    /\ phase' = IF wakeups \/ EventPending THEN "run" ELSE "end"
    /\ UNCHANGED <<stack, graph, rounds, scheduler, network, wakeups>>

\* main.cc fires the workloads while its first reconfiguration is under way.
Init ==
    /\ circuits \in Schedules
    /\ stack = AllRanks
    /\ ongoing = [r \in Ranks |-> {}] /\ done = [r \in Ranks |-> {}]
    /\ votes = [g \in Groups |-> [r \in Members[g] |-> 0]]
    /\ finishes = [g \in Groups |-> [r \in Members[g] |-> 0]]
    /\ vote_rounds = [g \in Groups |-> 0] /\ finish_rounds = [g \in Groups |-> 0]
    /\ stage_state = [s \in Stages |-> 1]
    /\ pending = {} /\ ready = "off"
    /\ current = [s \in Stages |-> 1] /\ changing = TRUE /\ inflight = 0
    /\ wakeups = FALSE /\ phase = "run"

\* The one thread of the simulator: the handler under way, or the next
\* event, or the poll.
Thread ==
    /\ \/ EnterLoop \/ LoopStep \/ LeaveLoop
       \/ \E r \in Ranks : \E n \in Nodes(r) :
            CollFinished(r, n) \/ PacketSent(r, n) \/ OtherFinished(r, n)
       \/ Settle \/ Wakeup \/ Poll \/ PollEnds
    /\ UNCHANGED circuits

Next == Thread \/ WindowOpens \/ WindowPasses

\* The thread does not stop; every 100 us wake-up moves the clock on, so
\* the window opens if requests keep being retried.
Spec == Init /\ [][Next]_vars /\ WF_vars(Thread) /\ SF_vars(WindowOpens)

-----------------------------------------------------------------------------
(* What the theorems assume of a workload. *)

\* The sets of nodes that a rank may have finished: with a node, its parents.
Closed(r, D) == D \subseteq Nodes(r) /\ \A n \in D : Node(r, n).parents \subseteq D

Ready(r, D, n) == n \in Nodes(r) \ D /\ Node(r, n).parents \subseteq D

\* The collectives of rank r that vote in group g.
Voting(r, n) == Node(r, n).kind = "coll" /\ Node(r, n).gated
OfGroup(g, r) == {n \in Nodes(r) : Voting(r, n) /\ Node(r, n).grp = g}

\* A rank comes to the collectives of a group in the order of their numbers.
Numbered ==
    \A r \in Ranks : \A g \in Groups :
        /\ \A n \in OfGroup(g, r) : Node(r, n).number > 0
        /\ \A m, n \in OfGroup(g, r) : Node(r, m).number = Node(r, n).number => m = n
        /\ \A D \in SUBSET Nodes(r) : Closed(r, D) =>
              \A n \in OfGroup(g, r) : (Ready(r, D, n) /\ Node(r, n).number > 1) =>
                 \E m \in OfGroup(g, r) \cap D : Node(r, m).number = Node(r, n).number - 1

\* A rank has one collective to vote for at a time.
OneVote ==
    \A r \in Ranks : \A D \in SUBSET Nodes(r) : Closed(r, D) =>
        \A m, n \in Nodes(r) :
            (Ready(r, D, m) /\ Ready(r, D, n) /\ Voting(r, m) /\ Voting(r, n)) => m = n

\* The ranks of a group ask for the same topology in the same round.
Uniform ==
    \A g \in Groups : \A r, s \in Members[g] :
        \A n \in OfGroup(g, r), k \in OfGroup(g, s) :
            Node(r, n).number = Node(s, k).number => Request(r, n) = Request(s, k)

Conforms == Numbered /\ Uniform

-----------------------------------------------------------------------------
(* Properties. *)

\* Every variable has its type; inflight_coll never goes below zero.
TypeOK ==
    /\ circuits \in Schedules
    /\ stack \in Seq([rank : Ranks, fresh : BOOLEAN, todo : SUBSET Nat])
    /\ ongoing \in [Ranks -> SUBSET Nat] /\ done \in [Ranks -> SUBSET Nat]
    /\ \A r \in Ranks : ongoing[r] \cup done[r] \subseteq Nodes(r)
    /\ DOMAIN votes = Groups /\ DOMAIN finishes = Groups
    /\ \A g \in Groups : votes[g] \in [Members[g] -> Nat] /\ finishes[g] \in [Members[g] -> Nat]
    /\ vote_rounds \in [Groups -> Nat] /\ finish_rounds \in [Groups -> Nat]
    /\ stage_state \in Topologies /\ current \in Topologies
    /\ pending \subseteq [stage : Stages, dim : Digits, dst : Stages]
    /\ ready \in {"off", "armed", "open"}
    /\ changing \in BOOLEAN /\ wakeups \in BOOLEAN
    /\ inflight \in Nat
    /\ phase \in {"run", "poll", "end"}

GatedOngoing(r) == {n \in ongoing[r] : IsComm(r, n) /\ Node(r, n).gated}

\* The links of topology t are those of a topology that satisfies q.
Serves(t, q) == \E u \in Topologies : circuits[u] = circuits[t] /\ Satisfied(q, u)

\* A collective or a send under way runs on links that serve it, for every
\* rank of the group, not only the one that obtained the topology. The digits
\* need not be those it asked for: where a schedule gives two digits the same
\* links the topology manager takes the new id while communications go on.
RightTopology ==
    \A r \in Ranks : \A n \in GatedOngoing(r) : Serves(current, Request(r, n))

\* inflight_coll is the number of open rounds and sends, so no switch finds
\* it 0 too early; a group has at most one round open, and its ranks that
\* are in a round run the same collective, although a rank may finish and
\* vote again before its peers have finished (vote, check_vote, check_finish).
RoundsAgree ==
    /\ \A g \in Groups : vote_rounds[g] \in {finish_rounds[g], finish_rounds[g] + 1}
    /\ inflight = Cardinality({g \in Groups : vote_rounds[g] # finish_rounds[g]})
                 + Cardinality({r \in Ranks : \E n \in ongoing[r] : Node(r, n).kind = "send"})
    /\ \A r, s \in Ranks : \A n \in GatedOngoing(r), k \in GatedOngoing(s) :
        (/\ Node(r, n).kind = "coll" /\ Node(s, k).kind = "coll"
         /\ Node(r, n).grp = Node(s, k).grp) => Node(r, n).number = Node(s, k).number

\* The scheduler's digits are those of the topology manager, although they
\* are written in two places and only after a grant (pre_reconfig,
\* issue_reconfig).
StageStateCoherent == stage_state = current

\* A node that a loop still has in its snapshot and would issue is free:
\* take_node never throws, although issue_dep_free_nodes may be entered
\* again for a rank whose loop is under way.
NoDoubleIssue ==
    \A i \in DOMAIN stack : \A n \in stack[i].todo :
        n \in Free(stack[i].rank) \/ ~Available(stack[i].rank, n)

\* Every workload finishes and then the loop ends: main.cc's check for
\* unfinished workloads passes.
AllFinish == <>(phase = "end" /\ \A r \in Ranks : done[r] = Nodes(r))
===============================================================================
