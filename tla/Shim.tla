--------------------------------- MODULE Shim ---------------------------------
(***************************************************************************)
(* The Opus shim (opus-shim/src/opus.cpp): in every rank's process, the    *)
(* PyTorch backend that asks the controller for topologies around NCCL     *)
(* operations.  The ranks run their programs against the controller:       *)
(* module Controller has all of it, here the rail works and the barrier is *)
(* one vote, the update of the topology and one broadcast.                 *)
(*                                                                         *)
(* A backend has a CUDA stream.  pre_coll and post_coll put one helper     *)
(* before and one after the operation, on the stream or on a host thread;  *)
(* the helpers of all backends of a process share topo_ready, the two      *)
(* stage indices and the socket to the controller.  What the stream of a   *)
(* backend holds is fixed by the program, so the state records how far     *)
(* each helper and each operation is, and Reached tells what may run next. *)
(***************************************************************************)
EXTENDS Integers, Sequences, FiniteSets

CONSTANTS
    Ranks,                \* processes: global ranks, numbers
    Groups,               \* communicators (hexId)
    Members,              \* per group: its ranks
    BackendOf,            \* per group: backendId_, the same in all its ranks
    PPEnabled,            \* is_pp_enabled()
    Unmanaged,            \* groups with network_type = 0 or domain_ # 0
    Coalesced,            \* groups whose operations are issued between
                          \* startCoalescing and endCoalescing
    Program,              \* per rank: the operations, [grp, peer]; peer is a
                          \* rank_ of the group, or -1 for a collective
    Fenced,               \* per rank: operations issued after work on the default
                          \* stream, which all streams of the process wait for
    Pattern,              \* per rank: the stages of its pattern file,
                          \* [sb, sc, eb, ec]
    Replays,              \* whether OPUS_SCHEDULE_PATH is set: TRUE, FALSE or both
    Schedule,             \* per rank: operation -> the scheduled request
    Mode,                 \* 0 baseline, 1 provision, 2 no-ctl
    UseCudaStream,        \* use_cuda_stream_
    MayTimeout,           \* ranks whose requests may wait 10 s in vain
    PP_INTERVAL, PP_BACKEND_INTERVAL,
    InitialTopo           \* the controller's -t option

ASSUME ShapeAssumption ==
    /\ Ranks \subseteq Nat /\ IsFiniteSet(Ranks)
    /\ Members \in [Groups -> SUBSET Ranks]
    /\ BackendOf \in [Groups -> Nat]
    /\ PPEnabled \in BOOLEAN /\ Replays \subseteq BOOLEAN
    /\ Unmanaged \subseteq Groups /\ Coalesced \subseteq Groups
    /\ Mode \in {0, 1, 2} /\ UseCudaStream \in 0..3 /\ MayTimeout \subseteq Ranks
    /\ PP_INTERVAL \in Nat \ {0} /\ PP_BACKEND_INTERVAL \in Nat \ {0}
    /\ InitialTopo \subseteq Nat
ASSUME ProgramAssumption ==
    \A r \in Ranks :
        /\ Program[r] \in Seq([grp : {g \in Groups : r \in Members[g]}, peer : Nat \cup {-1}])
        /\ Fenced[r] \subseteq DOMAIN Program[r]
        /\ Pattern[r] \in Seq([sb : Nat, sc : Nat, eb : Nat, ec : Nat])
        /\ DOMAIN Schedule[r] \subseteq DOMAIN Program[r]
        /\ \A i \in DOMAIN Schedule[r] : Schedule[r][i] \in
              [hex : {g \in Groups : r \in Members[g]}, backend : Nat, counter : Nat]
        /\ Mode = 2 => Pattern[r] = <<>>

Ops == UNION {{r} \X DOMAIN Program[r] : r \in Ranks}
Helpers == {"pre", "post"} \X Ops

VARIABLES
    hasSchedule,            \* OPUS_SCHEDULE_PATH is set, for all processes
    pos,                    \* per rank: the operation the framework issues next
    ran,                    \* the operations that NCCL has finished
    pc,                     \* per helper: where it is
    req,                    \* the helpers that sent a CONFIG_REQ, with the request
    change,                 \* operations whose pre helper saw comm_change_after
    curCommStageIdx_, curCommStageIdx_post_, topo_ready,   \* per process
    inbox,                  \* per process: the lines waiting on its socket
    gaveUp,                 \* helpers that waited 10 s in vain
    aborted,                \* processes that an exception ended
    votes, busy,            \* controller: votes, completed requests
    thread,                 \* the threads that handle them: step and topology id
    topoIds, topo,          \* the controller's topology id, and the rail
    overlapped,             \* history: a request was read into another one's update
    granted                 \* history: the barriers it acknowledged

procVars == <<curCommStageIdx_, curCommStageIdx_post_, topo_ready>>
ctlVars == <<votes, busy, thread, topoIds, topo, overlapped, granted>>
processVars == <<hasSchedule, pos, ran, pc, req, change, procVars, gaveUp, aborted>>
vars == <<hasSchedule, pos, ran, pc, req, change, procVars, inbox, gaveUp, aborted, ctlVars>>

---------------------------------------------------------------------------
(* What the constructor fixes for a process                                *)

Op(o) == Program[o[1]][o[2]]
Grp(o) == Op(o).grp
Backend(o) == BackendOf[Grp(o)]

is_pp_backend_(g) == PPEnabled /\ BackendOf[g] = 1

\* rank_: a process's rank within the group.
RankIn(r, g) == Cardinality({s \in Members[g] : s < r})

\* pp_stage_ is the rank in the pipeline group of the process, or 0.
pp_stage_(r) ==
    LET pp == {g \in Groups : is_pp_backend_(g) /\ r \in Members[g]}
    IN  IF pp = {} THEN 0 ELSE RankIn(r, CHOOSE g \in pp : TRUE)

\* backendId_hexId_map: the group a process registered with that backend id.
hexOf(r, b) == CHOOSE g \in Groups : BackendOf[g] = b /\ r \in Members[g]

\* Where the helpers run: on the stream, or pre on the issuing thread and post
\* on the backend's post thread.
PreOnStream == ~hasSchedule /\ (Mode # 1 \/ UseCudaStream \in {1, 3})
PostOnStream == Mode # 1 \/ UseCudaStream \in {2, 3}

---------------------------------------------------------------------------
(* Counters and stages                                                     *)

\* Sends and receives count up_cnt_ or down_cnt_, collectives collectiveCounter_.
\* Each helper has its own copies, which it advances in the order of the
\* backend's operations: a copy is the number of earlier operations it counts.
Up(o) == Op(o).peer > RankIn(o[1], Grp(o))
Same(o, p) == Grp(p) = Grp(o) /\ (Op(o).peer # -1 => (Op(p).peer # -1 /\ Up(p) = Up(o)))
get_pp_base(o) == IF Up(o) THEN Op(o).peer ELSE RankIn(o[1], Grp(o))
Earlier == [o \in Ops |-> {p \in Ops : p[1] = o[1] /\ p[2] < o[2]}]
Counter == [o \in Ops |->
    Cardinality({p \in Earlier[o] : Same(o, p)})
        + (IF Op(o).peer = -1 THEN 0 ELSE get_pp_base(o) * PP_INTERVAL)]

\* comm_stages_: a process that replays a schedule does not read its pattern.
Stages(r) == IF hasSchedule THEN <<>> ELSE Pattern[r]
Stage(r, i) == Stages(r)[i + 1]
\* Mutant: the boundary is seen one operation late.
ChangeBeforeLate(o, i) ==
    /\ i < Len(Stages(o[1]))
    /\ Backend(o) = Stage(o[1], i).sb % PP_BACKEND_INTERVAL
    /\ Counter[o] = Stage(o[1], i).sc + 1

is_comm_change_before(o, i) ==
    /\ i < Len(Stages(o[1]))
    /\ Backend(o) = Stage(o[1], i).sb % PP_BACKEND_INTERVAL
    /\ Counter[o] = Stage(o[1], i).sc
is_comm_change_after(o, i) ==
    /\ i < Len(Stages(o[1]))
    /\ Backend(o) = Stage(o[1], i).eb % PP_BACKEND_INTERVAL
    /\ Counter[o] = Stage(o[1], i).ec

\* The CONFIG_REQ of topowrite(cnt).
WriteReq(o, cnt) ==
    [hex |-> Grp(o),
     backend |-> Backend(o) + (IF is_pp_backend_(Grp(o))
                               THEN PP_BACKEND_INTERVAL * (cnt \div PP_INTERVAL) ELSE 0),
     counter |-> cnt + (IF is_pp_backend_(Grp(o)) THEN 0 ELSE pp_stage_(o[1]) * PP_INTERVAL)]

\* Mutant: the stage is asked for with the counter before its first one.
ProvisionPrevious(o, i) ==
    LET next == Stage(o[1], i) IN
    [hex |-> hexOf(o[1], next.sb), backend |-> next.sb, counter |-> next.sc - 1]

\* The CONFIG_REQ of topoprovision() for stage i, sent by the backend of o.
ProvisionReq(o, i) ==
    LET next == Stage(o[1], i) IN
    [hex |-> hexOf(o[1], next.sb),
     backend |-> next.sb,
     counter |-> next.sc + (IF is_pp_backend_(Grp(o)) THEN 0 ELSE pp_stage_(o[1]) * PP_INTERVAL)]

---------------------------------------------------------------------------
(* The controller: handle_config_req, see Controller                       *)

Key(q) == <<q.hex, q.counter>>
IsPP(q) == q.backend > PP_BACKEND_INTERVAL
PPGroup(q) == q.backend \div PP_BACKEND_INTERVAL
\* Mutant: one vote more than there are ranks.
OneTooMany(q, cnt) == IF IsPP(q) THEN cnt > 2 ELSE cnt > Cardinality(Members[q.hex])
all_arrive(q, cnt) == IF IsPP(q) THEN cnt >= 2 ELSE cnt >= Cardinality(Members[q.hex])
RuntimeTopo(t, q) == IF IsPP(q) THEN t \cup {PPGroup(q) - 1, PPGroup(q)}
                                ELSE t \ {q.counter \div PP_INTERVAL}

\* Helper h sends q, and the controller counts it.
SendReq(h, q) ==
    LET ready == {u \in votes : Key(req[u]) = Key(q)} \cup {h} IN
    /\ req' = [u \in DOMAIN req \cup {h} |-> IF u = h THEN q ELSE req[u]]
    /\ IF all_arrive(q, Cardinality(ready))
       THEN votes' = votes \ ready /\ busy' = busy \cup {q}
       ELSE votes' = votes \cup {h} /\ busy' = busy
    /\ UNCHANGED <<thread, topoIds, topo, overlapped, granted>>

\* The thread of request q is at l.
At(q, l) == q \in DOMAIN thread /\ thread[q].at = l

\* topoIds[rail] is read without a lock for determine_runtime_topo ...
ReadTopo(q) ==
    /\ q \in busy \ DOMAIN thread
    /\ thread' = [p \in DOMAIN thread \cup {q} |->
                    IF p = q THEN [at |-> "write", topo |-> RuntimeTopo(topoIds, q)]
                             ELSE thread[p]]
    /\ overlapped' = (overlapped \/ \E p \in DOMAIN thread : thread[p].at # "ack")
    /\ UNCHANGED <<processVars, inbox, votes, busy, topoIds, topo, granted>>

\* ... and assigned ...
WriteTopo(q) ==
    /\ At(q, "write")
    /\ topoIds' = thread[q].topo
    /\ thread' = [thread EXCEPT ![q].at = "connect"]
    /\ UNCHANGED <<processVars, inbox, votes, busy, topo, overlapped, granted>>

\* ... and read again, for the rail's worker.
Reconfig(q) ==
    /\ At(q, "connect")
    /\ thread' = [thread EXCEPT ![q] = [at |-> "await", topo |-> topoIds]]
    /\ UNCHANGED <<processVars, inbox, votes, busy, topoIds, topo, overlapped, granted>>

\* The worker installs it and answers.
ReconfigDone(q) ==
    /\ At(q, "await")
    /\ topo' = thread[q].topo
    /\ thread' = [thread EXCEPT ![q].at = "ack"]
    /\ UNCHANGED <<processVars, inbox, votes, busy, topoIds, overlapped, granted>>

\* Every rank of the group gets CONFIG_ACK;hexId.
Grant(q) ==
    /\ At(q, "ack")
    /\ busy' = busy \ {q}
    /\ thread' = [p \in DOMAIN thread \ {q} |-> thread[p]]
    /\ granted' = granted \cup {Key(q)}
    /\ inbox' = [r \in Ranks |-> IF r \in Members[q.hex] THEN Append(inbox[r], q.hex)
                                                         ELSE inbox[r]]
    /\ UNCHANGED <<processVars, votes, topoIds, topo, overlapped>>

Serve(q) == ReadTopo(q) \/ WriteTopo(q) \/ Reconfig(q) \/ ReconfigDone(q) \/ Grant(q)

---------------------------------------------------------------------------
Managed(o) == Grp(o) \notin Unmanaged

\* In replay only the scheduled operations have something to do before them.
HasPre(o) == Managed(o) /\ (hasSchedule => o[2] \in DOMAIN Schedule[o[1]])

Init ==
    /\ hasSchedule \in Replays
    /\ pos = [r \in Ranks |-> 1]
    /\ ran = {}
    /\ pc = [h \in Helpers |->
               IF h[1] = "pre" THEN (IF HasPre(h[2]) THEN "new" ELSE "done")
                               ELSE (IF Managed(h[2]) THEN "new" ELSE "done")]
    /\ req = [h \in {} |-> 0]
    /\ change = {}
    /\ curCommStageIdx_ = [r \in Ranks |-> 0]
    /\ curCommStageIdx_post_ = [r \in Ranks |-> 0]
    /\ topo_ready = [r \in Ranks |-> TRUE]
    /\ inbox = [r \in Ranks |-> <<>>]
    /\ gaveUp = {}
    /\ aborted = {}
    /\ votes = {}
    /\ busy = {}
    /\ thread = [q \in {} |-> 0]
    /\ topoIds = InitialTopo /\ topo = InitialTopo
    /\ overlapped = FALSE
    /\ granted = {}

---------------------------------------------------------------------------
(* Streams and threads                                                     *)

Pre(o) == <<"pre", o>>
Post(o) == <<"post", o>>
Issued(o) == o[2] < pos[o[1]]

\* Everything of p that was put on a stream is finished.
StreamDone(p) == /\ p \in ran
                 /\ PreOnStream => pc[Pre(p)] = "done"
                 /\ PostOnStream => pc[Post(p)] = "done"

\* p in Before[o] comes before o: on the same stream, or with default-stream work between.
Before == [o \in Ops |-> {p \in Earlier[o] :
    Grp(p) = Grp(o) \/ \E f \in Fenced[o[1]] : p[2] < f /\ f <= o[2]}]

\* The stream has come to what o put on it.
Reached(o) == /\ Issued(o) /\ o[1] \notin aborted
              /\ \A p \in Before[o] : StreamDone(p)

PreRuns(o) == IF PreOnStream THEN Reached(o)
                             ELSE pos[o[1]] = o[2] /\ o[1] \notin aborted

\* Mutant: the post thread does not wait for the event.
PastIssue(o) == Reached(o)

\* The stream, or the event that the post thread waits for, is past operation o.
\* A coalesced operation is launched by endCoalescing, after both.
PastOp(o) == /\ Reached(o)
             /\ PreOnStream => pc[Pre(o)] = "done"
             /\ Grp(o) \in Coalesced \/ o \in ran

PostRuns(o) ==
    /\ PastOp(o)
    /\ \A p \in Earlier[o] : Grp(p) = Grp(o) => pc[Post(p)] = "done"

\* The stream of o's process has come to the NCCL kernel of o.
OpReady(o) == /\ Reached(o) /\ o \notin ran
              /\ PreOnStream => pc[Pre(o)] = "done"
              /\ (Grp(o) \in Coalesced /\ PostOnStream) => pc[Post(o)] = "done"

\* The operations of other processes that NCCL matches with o.
Nth(o) == Cardinality({p \in Earlier[o] : Grp(p) = Grp(o) /\ Op(p).peer = Op(o).peer})
Matches(o, p) ==
    /\ Grp(p) = Grp(o) /\ Nth(p) = Nth(o)
    /\ IF Op(o).peer = -1 THEN Op(p).peer = -1
       ELSE Op(o).peer = RankIn(p[1], Grp(o)) /\ Op(p).peer = RankIn(o[1], Grp(o))
Party == [o \in Ops |-> {p \in Ops : p = o \/ Matches(o, p)}]

\* The operation communicates: it is running in all its processes.
Active(o) == \A p \in Party[o] : OpReady(p)

\* NCCL finishes the operation.
Run(o) ==
    /\ Active(o)
    /\ ran' = ran \cup Party[o]
    /\ UNCHANGED <<pos, pc, req, change, procVars, inbox, gaveUp, aborted, ctlVars>>

\* Mutant: pre_coll does not wait for topo_ready in replay.
IssueUngated(r) ==
    LET o == <<r, pos[r]>> IN
    /\ o \in Ops /\ r \notin aborted
    /\ PreOnStream \/ pc[Pre(o)] = "done"
    /\ pos' = [pos EXCEPT ![r] = @ + 1]
    /\ UNCHANGED <<ran, pc, req, change, procVars, inbox, gaveUp, aborted, ctlVars>>

\* The framework issues the next operation, when pre_coll has returned.
Issue(r) ==
    LET o == <<r, pos[r]>> IN
    /\ o \in Ops /\ r \notin aborted
    /\ PreOnStream \/ pc[Pre(o)] = "done"
    /\ (hasSchedule /\ Mode = 1) => topo_ready[r]
    /\ pos' = [pos EXCEPT ![r] = @ + 1]
    /\ UNCHANGED <<ran, pc, req, change, procVars, inbox, gaveUp, aborted, ctlVars>>

---------------------------------------------------------------------------
(* pre_coll_callback_helper                                                *)

\* The wait for topo_ready.
PreGate(o) ==
    /\ ~hasSchedule /\ pc[Pre(o)] = "new" /\ PreRuns(o)
    /\ topo_ready[o[1]]
    /\ pc' = [pc EXCEPT ![Pre(o)] = "decide"]
    /\ UNCHANGED <<pos, ran, req, change, procVars, inbox, gaveUp, aborted, ctlVars>>

\* What the operation is in its stage; in baseline, the request.
PreDecide(o) ==
    LET i == curCommStageIdx_[o[1]]
        write == Mode = 0 /\ (is_comm_change_before(o, i) \/ is_pp_backend_(Grp(o)))
    IN
    /\ pc[Pre(o)] = "decide" /\ o[1] \notin aborted
    /\ change' = IF is_comm_change_after(o, i) THEN change \cup {o} ELSE change
    /\ IF write
       THEN SendReq(Pre(o), WriteReq(o, Counter[o])) /\ pc' = [pc EXCEPT ![Pre(o)] = "write"]
       ELSE pc' = [pc EXCEPT ![Pre(o)] = "finish"] /\ UNCHANGED <<req, ctlVars>>
    /\ UNCHANGED <<pos, ran, procVars, inbox, gaveUp, aborted>>

\* Mutant: the gate stays open.
PreFinishOpen(o) ==
    LET r == o[1] IN
    /\ pc[Pre(o)] = "finish" /\ r \notin aborted
    /\ curCommStageIdx_' = [curCommStageIdx_ EXCEPT ![r] = @ + (IF o \in change THEN 1 ELSE 0)]
    /\ pc' = [pc EXCEPT ![Pre(o)] = "done"]
    /\ UNCHANGED <<pos, ran, req, change, curCommStageIdx_post_, topo_ready, inbox, gaveUp,
                   aborted, ctlVars>>

\* A stage that ends with o: close the gate and go to the next stage.
PreFinish(o) ==
    LET r == o[1] IN
    /\ pc[Pre(o)] = "finish" /\ r \notin aborted
    /\ topo_ready' = [topo_ready EXCEPT ![r] = @ /\ o \notin change]
    /\ curCommStageIdx_' = [curCommStageIdx_ EXCEPT ![r] = @ + (IF o \in change THEN 1 ELSE 0)]
    /\ pc' = [pc EXCEPT ![Pre(o)] = "done"]
    /\ UNCHANGED <<pos, ran, req, change, curCommStageIdx_post_, inbox, gaveUp, aborted, ctlVars>>

---------------------------------------------------------------------------
(* post_coll_callback_helper                                               *)

\* Mutant: the gate is opened before the request, not after it.
PostChangeSignalFirst(o) ==
    LET r == o[1]
        i == curCommStageIdx_post_[r] + 1
        provision == Mode = 1 /\ i < Len(Stages(r))
    IN
    /\ pc[Post(o)] = "new" /\ PostRuns(o)
    /\ is_comm_change_after(o, i - 1)
    /\ curCommStageIdx_post_' = [curCommStageIdx_post_ EXCEPT ![r] = i]
    /\ topo_ready' = [topo_ready EXCEPT ![r] = TRUE]
    /\ IF provision
       THEN SendReq(Post(o), ProvisionReq(o, i)) /\ pc' = [pc EXCEPT ![Post(o)] = "provision"]
       ELSE pc' = [pc EXCEPT ![Post(o)] = "done"] /\ UNCHANGED <<req, ctlVars>>
    /\ UNCHANGED <<pos, ran, change, curCommStageIdx_, inbox, gaveUp, aborted>>

\* The end of a stage: in provisioning, ask for the next one, if there is one.
PostChange(o) ==
    LET r == o[1]
        i == curCommStageIdx_post_[r] + 1
        provision == Mode = 1 /\ i < Len(Stages(r))
    IN
    /\ pc[Post(o)] = "new" /\ PostRuns(o)
    /\ is_comm_change_after(o, i - 1)
    /\ curCommStageIdx_post_' = [curCommStageIdx_post_ EXCEPT ![r] = i]
    /\ IF provision
       THEN SendReq(Post(o), ProvisionReq(o, i)) /\ pc' = [pc EXCEPT ![Post(o)] = "provision"]
       ELSE pc' = [pc EXCEPT ![Post(o)] = "signal"] /\ UNCHANGED <<req, ctlVars>>
    /\ UNCHANGED <<pos, ran, change, curCommStageIdx_, topo_ready, inbox, gaveUp, aborted>>

\* Within a stage: in provisioning, a pipeline backend asks for the next counter.
PostNoChange(o) ==
    LET write == is_pp_backend_(Grp(o)) /\ Mode = 1 IN
    /\ pc[Post(o)] = "new" /\ PostRuns(o)
    /\ ~is_comm_change_after(o, curCommStageIdx_post_[o[1]])
    /\ IF write
       THEN SendReq(Post(o), WriteReq(o, Counter[o] + 1)) /\ pc' = [pc EXCEPT ![Post(o)] = "write"]
       ELSE pc' = [pc EXCEPT ![Post(o)] = "done"] /\ UNCHANGED <<req, ctlVars>>
    /\ UNCHANGED <<pos, ran, change, procVars, inbox, gaveUp, aborted>>

\* Mutant: the waiting helpers are notified and topo_ready is still false.
SignalLost(h) ==
    LET r == h[2][1] IN
    /\ pc[h] = "signal" /\ r \notin aborted
    /\ pc' = [pc EXCEPT ![h] = "done"]
    /\ UNCHANGED <<pos, ran, req, change, procVars, inbox, gaveUp, aborted, ctlVars>>

\* signalTopoReady()
Signal(h) ==
    LET r == h[2][1] IN
    /\ pc[h] = "signal" /\ r \notin aborted
    /\ topo_ready' = [topo_ready EXCEPT ![r] = TRUE]
    /\ pc' = [pc EXCEPT ![h] = "done"]
    /\ UNCHANGED <<pos, ran, req, change, curCommStageIdx_, curCommStageIdx_post_, inbox,
                   gaveUp, aborted, ctlVars>>

---------------------------------------------------------------------------
(* Replay of a schedule: pre_coll and send_scheduled_transition            *)

\* Provisioning: close the gate, leave the request to the pre thread and return.
Defer(o) ==
    LET r == o[1] IN
    /\ hasSchedule /\ Mode = 1 /\ pc[Pre(o)] = "new" /\ PreRuns(o)
    /\ topo_ready[r]
    /\ topo_ready' = [topo_ready EXCEPT ![r] = FALSE]
    /\ pc' = [pc EXCEPT ![Pre(o)] = "queued"]
    /\ pos' = [pos EXCEPT ![r] = @ + 1]
    /\ UNCHANGED <<ran, req, change, curCommStageIdx_, curCommStageIdx_post_, inbox, gaveUp,
                   aborted, ctlVars>>

\* Under scheduled_request_mutex, by the issuing thread or by the pre thread.
SendScheduled(o) ==
    LET r == o[1] IN
    /\ hasSchedule /\ r \notin aborted
    /\ \/ Mode = 0 /\ pc[Pre(o)] = "new" /\ PreRuns(o)
       \/ pc[Pre(o)] = "queued"
    /\ \A p \in Ops : p[1] = r => pc[Pre(p)] # "sched"
    /\ SendReq(Pre(o), Schedule[r][o[2]])
    /\ pc' = [pc EXCEPT ![Pre(o)] = "sched"]
    /\ UNCHANGED <<pos, ran, change, procVars, inbox, gaveUp, aborted>>

---------------------------------------------------------------------------
(* The wait for CONFIG_ACK                                                 *)

Asking(h) == pc[h] \in {"write", "provision", "sched"}

\* Where a helper goes on when its request is over.
Resume(h) == CASE pc[h] = "provision" -> "signal"
               [] pc[h] = "sched" -> IF Mode = 1 THEN "signal" ELSE "done"
               [] pc[h] = "write" -> IF h[1] = "pre" THEN "finish" ELSE "done"

\* Mutant: the group of the line is not compared.
ReceiveAny(h) ==
    LET r == h[2][1] IN
    /\ Asking(h) /\ r \notin aborted
    /\ inbox[r] # <<>>
    /\ inbox' = [inbox EXCEPT ![r] = <<>>]
    /\ pc' = [pc EXCEPT ![h] = Resume(h)]
    /\ UNCHANGED <<pos, ran, req, change, procVars, gaveUp, aborted, ctlVars>>

\* One recv takes all lines that are there.  The helper returns at an
\* acknowledgement of its group; lines it does not want are gone.
Receive(h) ==
    LET r == h[2][1] IN
    /\ Asking(h) /\ r \notin aborted
    /\ inbox[r] # <<>>
    /\ inbox' = [inbox EXCEPT ![r] = <<>>]
    /\ pc' = [pc EXCEPT ![h] = IF \E j \in DOMAIN inbox[r] : inbox[r][j] = req[h].hex
                               THEN Resume(h) ELSE @]
    /\ UNCHANGED <<pos, ran, req, change, procVars, gaveUp, aborted, ctlVars>>

\* 10 s without it: topowrite and topoprovision go on as if it had come.
Timeout(h) ==
    LET r == h[2][1] IN
    /\ Asking(h) /\ pc[h] # "sched" /\ r \in MayTimeout \ aborted
    /\ gaveUp' = gaveUp \cup {h}
    /\ pc' = [pc EXCEPT ![h] = Resume(h)]
    /\ UNCHANGED <<pos, ran, req, change, procVars, inbox, aborted, ctlVars>>

\* A replay throws: nobody catches it on the pre thread, and on the issuing thread
\* it ends the training step.
ScheduledTimeout(h) ==
    LET r == h[2][1] IN
    /\ pc[h] = "sched" /\ r \in MayTimeout \ aborted
    /\ gaveUp' = gaveUp \cup {h}
    /\ aborted' = aborted \cup {r}
    /\ UNCHANGED <<pos, ran, pc, req, change, procVars, inbox, ctlVars>>

---------------------------------------------------------------------------
Helper(o) ==
    \/ PreGate(o) \/ PreDecide(o) \/ PreFinish(o)
    \/ PostChange(o) \/ PostNoChange(o)
    \/ Defer(o) \/ SendScheduled(o)
    \/ \E h \in {Pre(o), Post(o)} : Signal(h) \/ Receive(h) \/ Timeout(h) \/ ScheduledTimeout(h)

\* The operations of process r, and everything that can happen in it.
OpsOf == [r \in Ranks |-> {o \in Ops : o[1] = r}]
Process(r) ==
    /\ Issue(r) \/ \E o \in OpsOf[r] : Run(o) \/ Helper(o)
    /\ UNCHANGED hasSchedule

Finished == \A o \in Ops : o \in ran /\ pc[Pre(o)] = "done" /\ pc[Post(o)] = "done"

Next ==
    \/ \E r \in Ranks : Process(r)
    \/ \E q \in busy : Serve(q)

\* The threads and streams of a process make progress, NCCL finishes what all
\* ranks run, a deadline passes, and the controller answers.  A process does
\* finitely many things, so none of its threads is starved.
Fairness ==
    /\ \A r \in Ranks : WF_vars(Process(r))
    /\ WF_vars(\E q \in busy : Serve(q))

Spec == Init /\ [][Next]_vars /\ Fairness
---------------------------------------------------------------------------
(* Properties                                                              *)

Labels == {"new", "decide", "finish", "queued", "write", "provision", "sched", "signal", "done"}
Requests == [hex : Groups, backend : Nat, counter : Nat]

TypeOK ==
    /\ hasSchedule \in BOOLEAN
    /\ pos \in [Ranks -> Nat]
    /\ ran \subseteq Ops
    /\ pc \in [Helpers -> Labels]
    /\ DOMAIN req \subseteq Helpers /\ \A h \in DOMAIN req : req[h] \in Requests
    /\ change \subseteq Ops
    /\ curCommStageIdx_ \in [Ranks -> Nat] /\ curCommStageIdx_post_ \in [Ranks -> Nat]
    /\ topo_ready \in [Ranks -> BOOLEAN]
    /\ inbox \in [Ranks -> Seq(Groups)]
    /\ gaveUp \subseteq Helpers /\ aborted \subseteq Ranks
    /\ votes \subseteq DOMAIN req /\ busy \subseteq Requests /\ DOMAIN thread \subseteq busy
    /\ \A q \in DOMAIN thread :
          thread[q] \in [at : {"write", "connect", "await", "ack"}, topo : SUBSET Nat]
    /\ topoIds \subseteq Nat /\ topo \subseteq Nat /\ overlapped \in BOOLEAN
    /\ granted \subseteq Groups \X Nat

\* What an operation needs of the rail: the links of a pipeline pair, or the
\* ring of a pipeline stage.
Provides(t, o) == IF is_pp_backend_(Grp(o)) THEN {get_pp_base(o) - 1, get_pp_base(o)} \subseteq t
                                            ELSE pp_stage_(o[1]) \notin t

\* Whenever an operation runs in all its processes, the rail has the topology it
\* needs: no request of any rank takes it away, or comes too late. That is as long
\* as the controller never began to update its topology id for one request while it
\* did so for another: nothing keeps them apart, and an update can be lost.
RightTopology ==
    ~overlapped => \A o \in Ops : (Managed(o) /\ Active(o)) => Provides(topo, o)

\* The process of h has given up h's request, or another one of h's group: there may
\* be an acknowledgement under way that h cannot tell from its own.
Lost(h) == \E u \in gaveUp : u[2][1] = h[2][1] /\ req[u].hex = req[h].hex

\* A helper that goes on has been acknowledged for the request it sent, and not for
\* another one of the same or of another group, although other requests of its
\* process and of other processes have timed out and are acknowledged late.
AckIsForRequest ==
    \A h \in DOMAIN req : (~Asking(h) /\ ~Lost(h)) => Key(req[h]) \in granted

\* opus.cpp:403: the helpers of a process share the socket, "so a request and its
\* acknowledgement must be one serialized unit".
OneTransaction ==
    \A g, h \in DOMAIN req : (g[2][1] = h[2][1] /\ Asking(g) /\ Asking(h)) => g = h

\* The operation is the last one of a stage.
EndsStage(o) == \E i \in 1..Len(Stages(o[1])) : is_comm_change_after(o, i - 1)

\* No operation of the rails gets to NCCL while the end of an earlier stage of its
\* process has still to be handled: in provisioning, before that request is over.
StageGate ==
    \A o \in Ops : (Managed(o) /\ OpReady(o)) =>
        \A p \in Earlier[o] : EndsStage(p) => pc[Post(p)] = "done"

\* A stage is left only when its operations have run: while a helper asks for the
\* next stage, nothing of the process's earlier stages is unfinished.
StageFinished ==
    \A h \in DOMAIN req : pc[h] = "provision" =>
        \A p \in Earlier[h[2]] \cup {h[2]} : Managed(p) => p \in ran

\* Replay: an operation gets to NCCL only when every topology that the schedule
\* puts before it has been granted, although another thread asks for it.
RequestFirst ==
    \A o \in Ops : OpReady(o) =>
        \A p \in Earlier[o] : (hasSchedule /\ p[2] \in DOMAIN Schedule[p[1]]) =>
            Key(Schedule[p[1]][p[2]]) \in granted

\* Every request is acknowledged in the end, unless an exception ends a process:
\* the barrier it takes part in completes, and no deadline passes in vain.
EveryRequestGranted ==
    <>[](aborted # {} \/ \A h \in DOMAIN req : Key(req[h]) \in granted)

\* The job finishes, or a process ends with an exception: nobody waits forever for
\* a topology, an acknowledgement, or another rank.
JobFinishes == <>(Finished \/ aborted # {})
===============================================================================
