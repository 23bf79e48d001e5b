# Opus: TLA+ models, model checking and proofs

Opus reconfigures the optical rails of a GPU cluster while a training job runs. Every rank
loads a *shim* (a PyTorch process-group backend) that asks a *controller* for the topology the
next communicator needs; the controller waits for the ranks that take part, tells one *rail
worker* per optical rail which topology to install, and acknowledges the ranks. A *simulator*
(`simulation/reconfig_backend`) predicts the same idea at scale: a network of links that a
topology manager drains and rewires, under a workload that asks for topologies. This directory
holds the TLA+ models of both, the TLC runs that check them on small instances, and TLAPS proofs
for all instances.

All paths below are relative to the repository root.

## 1. Inventory

| Component | State | Operations | Hard part | What makes it correct |
|---|---|---|---|---|
| Rail worker, `src/opus-controller/config.py` | `past_topo`, `topology_states` (or the switch), one handler thread per connection, a pool task per changed bit | `handle_client_request`, `emulate_reconfiguration`, exit | `past_topo` is read under a lock and used after it is released; the switch may fail halfway; the process may end | an answer with `SUCCESS` means that the requested topology is installed; every request is answered |
| Controller, registration and barrier, `src/opus-controller/controller.cpp` | `idToClients`, `idToCommSize`, `idToTopoId`, `readyCount`, `topoIds` | `handle_comm`, `handle_config_req` and what they call, one thread per client | count, comparison and erase are separate critical sections; `topoIds` has no lock; ranks run ahead | nobody is acknowledged before all participants asked; once per collective; the communicator's rail is the one that changes; nobody is forgotten |
| Controller, connections, same file | `socketQueue`, `shuttingDown`, `stop_requested`, pool threads | `run`, `workerLoop`, `handleClient`, `~Controller` | condition variable, shutdown with open sockets, more ranks than threads | no lost wake-up, no abandoned socket, shutdown ends |
| Shim control plane, `src/opus-shim/src/opus.cpp`, `include/opus.hpp` | shared control socket, stage index, collective counters, `topo_ready` | `checkin`, `topowrite`, `topoprovision`, `send_scheduled_transition`, pre/post callbacks | several process groups with a stream each read one socket and share the stage index; time-outs with late answers; provisioning ahead; answers that name a communicator, not a request | an operation runs while its topology is installed; a helper goes on with the answer to its own request; the gate opens again |
| Schedule compiler, `scripts/compile_opus_schedule.py` | none (a pure function of the profiles) | `main`, `legacy_counter` | counters and backends encode pipeline pairs with offsets | the compiled rows carry the counters the shim sends |
| Address discovery, `src/opus-shim/include/util.hpp` | none | `determine_server_addr` | port arithmetic | one port per process group |
| Simulator network, `TopologyManager.cpp`, `Device.cpp`, `Link.cpp`, `Chunk.cpp`, `CommonNetworkApi.cc` | per link: bandwidth, busy flag, queue, scheduled events; drain count, `reconfiguring`, `cur_topo_id`, `inflight_coll`; callback tracker | `reconfigure`, `increment_callback`, `send`, `link_become_free`, `sim_send`, `sim_recv` | links are counted while traffic goes on; a link may be freed by a transmission and by a reconfiguration; send, arrival and receive in any order | no chunk or queue stranded; a switch only between communications; the drain ends; every handler once |
| Simulator workload, `Workload.cc`, `Scheduler.cc`, `main.cc` | dependency graph, votes and rounds, stage digits, pending requests, `inflight_coll` | `issue_dep_free_nodes`, `issue_*`, `pre_reconfig`, `call`, the poll loop | loops that re-enter each other; ranks ahead of their round; wake-ups that wake nobody | every communication on its topology; rounds agree; all workloads finish |
| Vendored NCCL, torchtitan, the rest of ASTRA-sim, `third_party`; launch scripts, evaluation data | - | - | - | not part of the control plane |

How they interact: a rank opens one TCP connection to the controller and sends the lines
`COMM;hex,nranks,localRank` and `CONFIG_REQ;hex,backend,counter`; the controller answers
`CHECKIN_ACK;hex,domain` and `CONFIG_ACK;hex` (the latter names the communicator only, not the
request). The controller opens one unix-socket connection per reconfiguration to the rail's
worker, sends the id and blocks for one answer. The controller's threads share its maps.

A topology id is a bit vector: bit *s* is 0 when the links of pipeline stage *s* form the
stage's data-parallel ring and 1 when they belong to a pipeline pair. The models keep an id as
the set of its 1 bits (`Topos == SUBSET Bits`).

## 2. Modules

| Module | Models | Runs |
|---|---|---|
| `RailWorker` | all of `handle_client_request` and the caller's side of the socket (`Controller::reconfig`); no `Init`/`Next` of its own: it is composed by the two below | |
| `RailService` | the rail workers with serial callers (`reconfig_all`, `test_emulation.py`); also its own abstract promise, `SuccessMeansInstalled` | `MCRailService` |
| `Controller` | registration, barrier, runtime topology and acknowledgement, extends `RailWorker`: its client threads are the callers | `MCController` |
| `WorkerPool` | accept loop, queue, condition variable, pool threads, shutdown | itself |
| `Shim` | all ranks of a job: `pre_coll`/`post_coll`, the callback helpers, the requests and their time-outs, replay of schedules, against the controller's barrier and its update of the topology id | `MCShim` |
| `CollectiveBarrier` | abstract: what the controller promises to the ranks; `Controller` implements it, and so does the exchange of requests and acknowledgements in `Shim` | |
| `SimNetwork` | the simulator's links, chunks, topology manager and message matching | `MCSimNetwork` |
| `TopologyGate` | abstract: what the topology manager promises to the workload; `SimNetwork` implements it and `SimWorkload` relies on it | |
| `SimWorkload` | the simulator's ranks, scheduler and main loop, on top of the promise of `TopologyGate` | `MCSimWorkload` |
| `RailWorkerProofs`, `RailServiceProofs`, `ControllerProofs`, `BarrierRefinement`, `WorkerPoolProofs`, `ShimProofs`, `SimNetworkProofs`, `SimWorkloadProofs` | theorems | |

**RailWorker.** `conn[c].state` is the program counter of the handler of caller *c*'s
connection. One action is one critical section or one effect: `RejectId`, `SameTopo` and
`StartReconfig` are the branches of lines 119-136; the lock is released at the end of
`StartReconfig`, and `EmulateReconfiguration` (one per pool task), `FuturesDone` and `Commit`
happen later, interleaved with other handlers. In physical mode `SetConnection`,
`SetConnectionFails` and `SetConnectionFailsLate` are the three outcomes of lines 161-167 that
the code tells apart: installed, refused, and installed but raised afterwards (the session has a
30 s timeout, and line 167 queries the switch again). Each worker process has its own mode (`-e`): `Emulation` is the set of emulated rails. `Installable` abstracts the table in
`config.yaml`. `Exit` ends the process: handlers are daemon threads, their sockets close.
The signal handler's wait for running pool tasks is an `Exit` that comes later.

**Controller.** One action is one region under `mapMtx`, one access to the unprotected
`topoIds`, or one exchange with a rail worker. `pc[c]` says where the thread of client *c* is:

| label | next step | code |
|---|---|---|
| `idle` | `HandleComm*`, `DropConfigReq`, `CountVote` | `handle_comm`; lines 606-634 |
| `erase` | `EraseReady` | 637-641 |
| `read`, `write` | `ReadTopo`, `WriteTopo`: the two halves of `topoIds[rail] = set_..(topoIds[rail])` | 556-571 |
| `connect` | `Reconfig`, `ReconfigUnreachable` | 644-656, 462-475 |
| `await` | `ReconfigDone`, `ReconfigFailed` | 489-522, 656-661 |
| `ack` | `SendAck`, one client at a time | 663-673 |

`HandleCommThrows` and `ReadTopoThrows` are the two `throw`s nobody catches: `crashed` stops
the process. What ranks do is in `Issues`: a rank sends a counter of a communicator once, and its
own `COMM` line first, on the same connection. `sent`, `erased` and `acked` are history
variables. `idToCommSize` is the number of `Members` (all `COMM` lines of a communicator carry
the same size). Sequential/non-sequential placement (`Sequential`) only chooses the id 1 or 2,
which later code ignores. `domain` is what `CHECKIN_ACK` broadcasts.

**WorkerPool.** Separate from `Controller` because the two share no state: there, every
client has a thread; here, what a line makes the thread do is a step `ReadLine`. `notify_one`
is a step of its own after the push, threads may wake spuriously, `RequestStop` may come at any
time. A failing `accept` is left out (it is logged and retried); a failing `poll` ends the accept
loop (`PollError`) and a failing `recv` the connection (`RecvError`, after a client's reset).
Clients may send for ever: `MaxLines` bounds what is sent and not yet read, as the buffers of a
connection do. `stop_requested` is looked at only when a receive times out, so a client that
never pauses for 250 ms keeps its thread, and the process, after SIGTERM; `ShutdownCompletes` is
therefore stated for behaviours in which sending ends, with the sockets left open.

**Shim.** A process has one backend per communicator, a CUDA stream per backend, and helpers
before (`pre`) and after (`post`) every operation. The job is a constant: `Program[r]` lists the
operations a rank issues, `Pattern[r]` its pattern file, `Schedule[r]` its keyed schedule; `Replays`
says whether the job follows the one, the other, or (in one run) either. What
a stream holds follows from the program, so there are no queues in the state: `pos[r]` says how
far the framework has issued, `ran` which operations NCCL has finished, `pc[h]` where a helper
is, and `Reached(o)` whether the stream has come to operation *o*. The nine counters of a backend
(`up_cnt_`, `down_cnt_post_`, ...) each count the earlier operations of one kind in program order;
`Counter[o]` is their value, and no variable is needed. `curCommStageIdx_`,
`curCommStageIdx_post_`, `topo_ready` and the socket (`inbox`) are shared by the helpers of a
process, as the static members are.

| `pc` | next step | code (`opus.cpp`) |
|---|---|---|
| `new` | `PreGate`, `PostChange`, `PostNoChange`, `Defer`, `SendScheduled` | 921-927, 1020-1041, 1088-1110 |
| `decide` | `PreDecide` | 929-976 |
| `write`, `provision`, `sched` | `Receive`, `Timeout`, `ScheduledTimeout` | 739-786, 664-711, 417-437 |
| `queued` | `SendScheduled`, by the pre thread | 1104, 402-414 |
| `finish` | `PreFinish` | 956-995 |
| `signal` | `Signal` | `opus.hpp` 269-273 |

`PreOnStream` and `PostOnStream` say where a helper runs for each `MODE` and `USE_CUDA_STREAM`.
Streams made by `cudaStreamCreate` wait for work on the default stream: an operation in
`Fenced[r]` is issued after such work, so that everything issued earlier is finished first;
without it the streams of two backends are independent. Operations of a group in `Coalesced` are
issued between `startCoalescing` and `endCoalescing` (one at a time): their kernel comes after
both helpers. One vote and the barrier's decision are `SendReq`. What follows is a thread per completed
request, with a step for each access to `topoIds`, as in `Controller`: `ReadTopo`, `WriteTopo`,
`Reconfig` (which reads `topoIds` again), `ReconfigDone` (the rail changes) and `Grant` (the
acknowledgements of all ranks, which here are one step; failing reconfigurations and
acknowledgements one by one are `Controller`'s subject). `granted`, `gaveUp` and `overlapped` are history
variables; `overlapped` says that an update of `topoIds` began within another one. A rank in `MayTimeout` may reach its 10 s deadline whenever it waits.

**CollectiveBarrier.** Three actions: a rank asks, the collective is released once all its
participants have asked, its members are told, each at most once. `Controller` maps `erased` to
the released collectives and `acked` to what was delivered.

**SimNetwork.** One record per link holds `Link` and what `Device` keeps for it: `bw`, `busy`,
`pending` (the queue of chunks), and the events in the queue that concern it: `flying` (arrivals),
`sending` (free events of transmissions) and `refits` (free events of reconfigurations). Time is
abstracted to the order that the event times force: a chunk arrives before its link is freed
(`Link.cpp` adds one latency to the one and two to the other) and the end of a reconfiguration
comes after the free events it scheduled; everything else happens in any order, which covers all
sizes and bandwidths.

| Action | Code |
|---|---|
| `Reconfigure`, with `Counted` and `InstallAll` | `TopologyManager::reconfigure`, `drain_network`, `increment_callback` |
| `FinishReconfiguration` | `finish_reconfiguration` |
| `Send`, `Recv`, `RecvHandler` | `sim_send`, `sim_recv`, the event it schedules for a late receive |
| `ChunkArrives`, with `ProcessArrival` | `chunk_arrived_next_device`, `process_chunk_arrival` |
| `TransmissionEnds`, `RefitEnds` | the two events that call `link_become_free` |

`opus` and `instant` (routing algorithm, `reconfig_time = 0`) are chosen in `Init`, so that one run covers
all four. `Needs[m]` is the set of topologies for which a message may be sent; with BFS, which
never routes over a second hop, its link has to exist. A message with no needs is traffic inside a
node. `HoldsGate` says which messages `inflight_coll` counts: those of a collective (`Collective`) with
either algorithm, a point-to-point send with decimal topology ids only, which `main.cc` sets for
OPUS routing (`Workload.cc` 909-917). The others are not waited for by a switch and can be left
behind by one; `NoChunkStranded` and `MessageHandled` exempt them from having a link (`Safe`,
`LeftBehind`) and nothing else. Where they end, the code calls `post_reconfig`, a request that
`Reconfigure` allows at any time. `ProcessArrival` takes the send handler and what `process_chunk_arrival` does after it
(`CommonNetworkApi.cc` 57-62) as one step. A receive of the very message that the send handler itself
would post (through `issue_dep_free_nodes` of the receiving rank) is not represented: it would be
registered after the test for it, and its handler would not run. `Cheapest` defines the routes of `opus_routes` as the cheapest simple paths, where the code
runs Dijkstra's algorithm and keeps one of them.

**TopologyGate.** `Switch` only while nothing is open and no change is under way; `Install` changes
all links in one step; `Settle` withdraws `is_reconfiguring()` only when the links are the current
topology's.

**SimWorkload.** The simulator is one thread: an event handler runs to its end, and calls
`issue_dep_free_nodes` of other ranks on the way. `stack` holds the loops under way, each with
its snapshot of free nodes; while it is not empty no event happens. A topology is the function
from pipeline stages to digits (0 PP, 1 DP, 3 EP) that its decimal id writes; `circuits`, one of
`Schedules`, gives the links of each. A schedule may give two topologies the same links (the
generator's `opus_same` has one ring for DP and EP): a switch between them only relabels and is
granted while communications are under way. `PreReconfig` is the
whole of `pre_reconfig`: the pending requests, the batching window (`ready`: not set, still
closed, open) and the batch of requests that do not share a stage: `IsBatch` says which set of open
requests the sorted loop of the code collects, and exactly one set satisfies it. `Wakeup` is a `CallEvents`
event, which finds no callable and does nothing; `Poll` is main.cc's retry when the queue is empty.

## 3. Runs

| Run | Instance | Result |
|---|---|---|
| `rail_workers` | an emulated rail and one with a switch that may refuse or fail late, one caller each, two bits, every id and the invalid id; workers may die | pass |
| `ctl_rails` | four ranks, two communicators on two rails, one of which may die, two counters in flight | pass |
| `ctl_pipeline` | three pipeline stages in one communicator (two pairs) and a data-parallel communicator of two of its ranks, one rail | pass |
| `ctl_faults` | a rank without a rail, an unknown host, a wrong pair, an unregistered communicator, physical mode with late failures, dying worker | pass |
| `ctl_lost_topo` | two pipeline stages on one rail | violation (finding) |
| `pool` | three connections, two threads, stop request at any time, clients that send for ever, close or reset, failing `poll` | pass |
| `shim_on_demand` | two pipeline stages of two data-parallel ranks, baseline mode, all operations fenced, one pair coalesced | pass |
| `shim_provision` | two ranks, four stages of two data-parallel communicators taking turns, an unmanaged one at the end, independent streams, provisioning from a pattern file or from a keyed schedule, one rank may time out | pass |
| `shim_wrong_stage` | the grid of `shim_on_demand`, provisioning, from pipeline to data parallel | violation (finding) |
| `shim_replay_pp` | the grid with two sends per pair and a keyed schedule, provisioning | violation (finding) |
| `sim_network` | two nodes, of two devices and one; the circuit between them starts at either device of the first; a message of each kind (one hop, one or two hops, inside a node); both routing algorithms, with and without reconfiguration time; one message belongs to a collective, one is a send | pass |
| `sim_workload` | two stages of two ranks; two microbatches with DP, EP and TP collectives, pipeline sends, explicit switches; a schedule with links of its own for EP (`opus_diverge`) or one that shares those of DP (`opus_same`) | pass |

What the properties say is in the comment before each definition. The main ones:

* `SuccessMeansInstalled`, `BeliefIsAccurate`: the answer of
  a worker, and the `past_topo` it answers from, agree with what is installed.
* `BarrierSafe`, `ImplementsBarrier`: the three-step barrier opens after all participants have
  asked, once, and nobody is acknowledged twice.
* `RailIsAssigned`, `AckMeansInstalled`: the rail that changes is the
  communicator's, and `CONFIG_ACK` goes out while the topology is there.
* `EveryoneAcked`, `EveryRequestAnswered`, `ShutdownCompletes`, `EveryConnectionServed`: liveness.
* `NoLostWakeup`, `EachSocketOnce`: the pool; `ShutdownCompletes` includes that no accepted
  connection is abandoned.
* `RightTopology`: while an operation runs in all its ranks, the rail has what it needs, as long as
  no update of `topoIds` began within another one. The condition is what the code leaves open: without it the same run
  is violated, by the lost update of finding 1.
* `AckIsForRequest`, `OneTransaction`: answers and requests of a process belong together. A helper
  goes on with the acknowledgement of its own request although communicators have several requests
  and one rank's may time out and be acknowledged late; a process that gave up a request of the
  same communicator is exempt (`Lost`): without that the run is violated, since `CONFIG_ACK`
  does not say which request it answers.
* `StageGate`, `StageFinished`, `RequestFirst`: stages, operations and requests keep the order of
  the pattern or the schedule although several threads and streams carry them out. `StageGate` is
  about the operations of managed communicators: the others have no helpers and pass the gate.
* `EveryRequestGranted`, `JobFinishes`: no request is left alone in its barrier; the gate, the
  barriers and NCCL never block each other for good.
* `LinkServed`, `NoChunkStranded`: a busy link has an event that frees it, and a chunk on its way is
  at one link, which the selected topology provides unless the chunk is of a send that does not hold the gate.
* `InflightExact`, `ImplementsGate`: the topology is switched only between communications that hold
  the gate, and all links change together; `ReconfigFinishes`: the drain ends although links are counted twice.
* `HandledOnce`, `MessageHandled`: each receive handler runs exactly once, whatever came first.
* `RightTopology` and `StageStateCoherent` of `SimWorkload`: a communication under way is served by the
  links of the current topology, for all ranks of its group, and the scheduler's digits are the
  network's. It is about links, not digits: with `opus_same` an EP collective may see its stage
  relabelled to DP while it runs, on the same ring.
* `RoundsAgree`, `NoDoubleIssue`, `AllFinish`: no rank is in another round than its group, no loop
  takes a node that is gone, and the poll gets every blocked rank going again.

**Findings.** (1) Two pipeline stages that complete together lose one update of
`topoIds[rail]`, and the rail worker does not serialise their requests (`ctl_lost_topo`).
(2) `topoprovision` chooses the offsets by the backend that finishes: from PP to DP the second
stage asks for the first stage's ring (`shim_wrong_stage`). (3) In a replay, `topowrite` ignores the lock that makes a request and its answer one unit
(`shim_replay_pp`).

Other instances of the same modules show where the properties of the passing runs end; each is
one change of a constant away:

* `rail_workers` with both callers on one rail: `config.py` diffs both requests against the same
  old id, and a mixture may stay installed after both were answered `SUCCESS`.
* `rail_workers` without the exception for `FailsLate` in `SuccessMeansInstalled`: after a late
  failure `past_topo` stays at the old id, and the next request for it is answered `SUCCESS, CONFIG-NACK` while another topology is installed.
* `ctl_pipeline`: the barrier of a pair opens with two votes whatever the communicator's size,
  where the comment at `controller.cpp` line 574 says "all ranks"; the one at line 578 ("half of
  the ranks") is stale too, the code waits for all.
* `shim_on_demand` with `Fenced` empty violates `RightTopology`: helpers of two streams are
  ordered only by `topo_ready` and the shared stage index, and a data-parallel operation can slip
  past its boundary.
* `shim_on_demand` with a keyed schedule violates `RightTopology`: a replay on demand asks when an
  operation is issued (line 1096), while the previous one may still run.
* `shim_wrong_stage` with the data-parallel stage first and deadlines violates
  `EveryRequestGranted`: from DP to PP the two ends of a pair ask for different counters and wait
  10 s for nothing; the job finishes all the same.
* `shim_on_demand` with the `Pipe` job of `MCShim` (a pipeline of three ranks in one communicator)
  violates `AckIsForRequest`: `CONFIG_ACK` names the communicator, not the request, and goes to all
  its ranks, so the third rank takes the acknowledgement of the first pair for its own.
* `sim_network`: the comment at `TopologyManager.cpp` line 101, "All links have been drained", is
  not what the code ensures. A link that is idle when the drain begins, is used by traffic inside
  a node and goes idle again is counted twice, so the new topology may be installed while another
  link is still sending. The properties of the run show that this does no harm: such traffic
  keeps its links in every topology, and the link has its free event to come.
* `sim_network` with a schedule that takes a link from traffic sent without a request (so that
  `LocalTraffic` fails) violates `NoChunkStranded`.
* `shim_wrong_stage` with the pipeline groups coalesced violates `StageFinished`: the post helper
  runs before the kernel is launched.

**Bounds.** Two rails, callers and bits show every interference of two handlers; a third adds no
new pair. Controller instances have the smallest communicators in which a barrier has more than
one participant, and two counters so that a rank can run ahead. `PP_INTERVAL` is 10 instead of
1000000: counters of the instances stay below it, as they do in the tracked patterns. Runs ahead
(two counters of one communicator) are in `ctl_rails`, several keys of one communicator in
`ctl_pipeline`.
`MaxLines` bounds the unread lines of a connection. The shim's jobs are the head of the tracked
patterns (`PP` with backend 1, `DP` with backends 5 and 6): one or two operations per stage and two
to four stages (four are needed for two requests of each communicator, so that an acknowledgement can
be late for the next), on a grid with two ranks in every communicator. `sim_network` has the smallest
network with a second hop, a link that two messages share and a link that loses its bandwidth;
a message is one chunk. `sim_workload` has what the workload generator of
`examples/large_scale_ep_sweeps` writes for two stages, one layer and two microbatches: two
rounds of a group in flight, requests of both stages in one batch, and stages that want
different digits at once, on both kinds of schedule. Deadlock checking is off: jobs end, and all
ranks may have sent everything they have to send.

**Fairness.** Weak fairness of the handler threads of a worker, of the controller's pool
threads once they have something to do, and of the main thread: they are runnable OS threads.
Clients, signals, process exits, switch outcomes and spurious wake-ups have none. In `Shim`,
weak fairness of every process (its threads and streams, NCCL, and a deadline where it may pass)
and of the controller's threads; a process has finitely many steps to make, so fairness of the
whole process starves none of its threads. In `SimNetwork` two weak fairness conditions, on the
events of messages and on those of the manager: `proceed` is called until the queue is empty, and
each kind of event has finitely many instances to come. Sends, receives and requests have
none: they are the workload's choice. In `SimWorkload` weak fairness of the one thread, and strong fairness of the
opening of the batching window: every retry schedules a wake-up 100 us ahead, so the clock passes
the 10 ms of the window if requests keep being retried.

## 4. Proofs

All theorems are for arbitrary finite sets of ranks, devices and messages and any rails, bits,
communicators, requests and topologies.

* `RailServiceProofs!TypeCorrect`: `Spec => []TypeOK`, for any sharing of rails and any failures.
* `RailServiceProofs!SerialSuccess`: under `SerialUse` (no two callers on a rail),
  `Spec => [](SuccessMeansInstalled /\ BeliefIsAccurate)`. The properties are not inductive. `IInv`
  adds what a handler that is halfway knows: the bits outside `futures` already agree with the
  requested id, in state `commit` all do, and on a rail nobody is writing (and whose switch does
  not fail late) the installed bits are `past_topo`. The first of the other instances above is what
  happens without `SerialUse`.
* `RailServiceProofs!BeliefCorrect`: the second half of it by itself.
* `ControllerProofs!TypeCorrect`: `Spec => []TypeOK` under `PairsFit` (the pipeline pairs that
  are requested have bits).
* `ControllerProofs!Barrier`: under `PairsFit` and `Participation`, `Spec => [](BarrierSafe /\
  CompletedOnce)`. `Participation` is what the shims do: all ranks of a communicator, or the two
  ends of a pipeline pair, ask, and a counter of a communicator stands for one request.
  `BarrierInv` strengthens the property by `CountIsExact` (a count is the number of votes
  received until it is erased), `OwnRequests` and `ErasedIsFull`; the argument is one of
  cardinalities: when the count reaches the number of participants, the voters, a subset of
  them, are all of them.

* `BarrierRefinement!Refinement`: under the same hypotheses `Spec => ImplementsBarrier`. `AckInv`
  adds to `BarrierInv` that an acknowledging thread owes an answer only to members that have not had
  one for this collective; then every action of the controller or of a rail worker is an
  action of `CollectiveBarrier` or changes none of its variables: `CountVote` asks, `EraseReady`
  releases, `SendAck` delivers.
* `ControllerProofs!RailAssigned`: under `PairsFit`, `Participation` and `Located`, `Spec =>
  []RailIsAssigned`. The property is about a read without the lock, so `AssignInv` follows the entry
  from its writer to its reader: who votes has registered (`VotersRegistered`); a communicator all
  of whose ranks have registered has its rail (`GroupsAssigned`); a thread behind the barrier works
  for such a communicator (`ThreadsAssigned`). The step in between is `BarrierInv`: behind the
  barrier all participants have voted, hence registered. `Located` says that the participants are
  the communicator: every rank has a rail, and a pipeline communicator is one pair. In
  `ctl_pipeline`, where a communicator holds two pairs, it is false, and a pair can complete
  before the third rank has registered; that the run passes rests on the order of registration there.
* `ControllerProofs!AckInstalled`: under the same hypotheses and `FailsLate = {}`, `Spec /\
  []SerialRails => []AckMeansInstalled`, where `SerialRails` says that no two barriers of a rail are in
  flight together. `InstallInv` joins three processes: what the thread wants provides what its
  request asks (`WantsProvided`), the connection carries it (`AwaitsAnswer`), the worker's
  `past_topo` is what is installed when no handler writes (`BeliefIsTrue`), and a handler halfway has
  installed what it has ticked off (`Installing`). `SerialRails` is a hypothesis on the job, not a
  consequence of the code: finding 1 is what happens without it.
* `ControllerProofs!StageRailsInstalled`: the case where it can be dropped. If all requests are for
  rings and the communicators of a rail belong to one stage (`StageRails`), then `Spec =>
  []AckMeansInstalled` with any number of barriers in flight and with late failures: nobody ever
  sets the stage's bit, so a lost update loses nothing (`ClearInv`). `ctl_rails` is such an instance.
* `WorkerPoolProofs!TypeCorrect`, `Wakeups`, `SocketsOnce`, `ShutdownSafe`: one inductive invariant,
  `PoolInv`, for any sockets and threads. `NoLostWakeup` needs `QueueOnce` (a queued socket is queued
  once) and `ServedOnce` (an open socket has one thread);
  `Shutdown` says that a thread leaves its loop only when the queue is empty, which it then stays, so that `NothingAbandoned`, the safety half of `ShutdownCompletes`, follows.
* `ShimProofs!TypeCorrect`: in every mode, with timeouts, under `StagesKnown` (in provisioning, a
  stage of a pattern names a backend of the process).
* `ShimProofs!SerialAcks`: in every mode, `Spec /\ []OneTransaction => []AckIsForRequest`, time-outs
  included, if pipeline communicators are pairs (`PipelinePairs`) and two helpers of a process do not
  send the same key (`KeysApart`). `LateInv` says why an answer that names only a communicator is
  enough: a vote is for a barrier that is not complete (`VotesOpen`), a barrier is completed by all
  ranks of its communicator (`CompletedAsked`), and every line in an inbox answers a helper of that
  rank that waits for it, or one whose process gave up a request of that communicator
  (`LinesKnown`). Only the last case leaves a helper in doubt, and that is `Lost`. The `Pipe` instance
  above shows the need for `PipelinePairs`, `shim_replay_pp` that for `OneTransaction`. Where nothing times out a stronger
  invariant, `AckInv`, holds: no line is late (`LinesExpected`, `AckExact`). The theorems below that
  speak of topologies and of the barrier use that one.
* `ShimProofs!Transactions`, `GateHolds`, `StagesLeft`: for provisioning without pipeline backends
  (`Provisioning`) and a pattern whose stage ends are in program order (`PatternInOrder`), `Spec =>
  []OneTransaction`, `[]StageGate` and, if a stage's operations are ordered before its end
  (`StagesClosed`), `[]StageFinished`, timeouts included. One invariant, `GateInv`: pre helpers run
  in the order of the program (`GOrder`); the two stage indices are apart by at most one and agree with
  the stage ends that helpers have handled (`GIndex`, `GGate`); the gate is closed from the end of a
  stage until its request is over, by one helper (`GGate`); whoever has passed it has left the ends of
  earlier stages behind (`GBehind`); a post helper's operation has run (`GRan`). None of the
  conjuncts is inductive alone: that two post helpers do not ask together needs the gate, and the
  gate needs that the index moves in the order of the pattern.
* `ShimProofs!ScheduledFirst`, `OwnAcks`: the same for a replay. `ReplayInv` says that the gate is closed
  while a request is deferred, that there is one at a time and that it follows the program; together
  with `AckInv` a topology is granted before the operation that needs it starts. `OwnAcks` discharges
  the hypothesis of `SerialAcks` with `Transactions`, time-outs included.
* `ShimProofs!OnDemandAcks`: on demand (`OnDemand`: baseline mode, no schedule, nothing times out),
  `Spec => []AckIsForRequest` if the managed operations of a process do not overlap (`Serialised`),
  for any number of pipeline stages. `DCtl` says that a helper that has started finds every earlier
  managed operation over, pre and post helper included, and that requests are those of `topowrite`, one
  per operation; hence one is open at a time, which is what `SerialAcks` needs.
* `ShimProofs!OnDemandTopology`: on demand, `Spec => []RightTopology` for jobs of two pipeline stages.
  Beyond `Serialised`: a pipeline communicator is a pair and every other managed one is all ranks of a
  stage (`TwoStages`); all ranks of a communicator take part in its operations, and a program is not
  longer than `PP_INTERVAL` (`PairsAndRings`); a ring that follows a pipeline operation begins a stage
  of the pattern (`StageAtSwitch`). The argument has three layers. `DStage` follows one process: its
  stage index is past exactly the stage ends it has seen, so that `is_comm_change_before` holds where
  the pattern says, and the last request at or before an operation that has been decided is of the
  operation's kind (`DLast`). `AckInv` follows a request through the barrier: a rank holds what it last
  asked for only if all ranks of the communicator asked. `TopoInv` relates the ranks to the rail: if
  every rank of a stage holds its ring, the stage's bit is 0, and if both ranks of a pair hold the
  pair, both bits are 1. What is held is what is `Installed`: the request is granted or its thread is
  at its acknowledgement. Until `overlapped`, `TLocal` ties the steps of the controller together: one
  thread at most is between its read of `topoIds` and its answer from the rail, and it takes `topoIds`, then the
  rail, from the rail's topology to what its request makes of it. After `overlapped` nothing is
  claimed: finding 1 is what can happen then. A grant that would take a ring or a pair away contains a rank of it, whose
  last request then is the one that is granted. This is where the hypotheses are needed: a data-parallel communicator
  that is smaller than its stage could lose its ring to the pair of a rank that it does not contain, and in
  a longer pipeline the controller completes a pair's request with two votes of a communicator of more ranks.
* `ShimProofs!SerialBarrier`, `OnDemandBarrier`, `ProvisioningBarrier`: the requests and acknowledgements of
  `Shim` implement `CollectiveBarrier`, which the controller implements (`BarrierRefinement`): what the
  shims assume of the controller and what it promises is the same specification. `AskedBy` maps a rank to the keys it
  sent, `granted` is what is released, and a rank is told of a collective when the helper that asked
  for it no longer waits (`ToldOf`): so a helper that goes on with the acknowledgement of another
  request would break the refinement. `SerialBarrier` is for every mode under `[]OneTransaction`; the other two
  discharge it. `SentOnce` says that a helper sends once and only what the program, pattern or schedule
  gives it; `KeysApart`, the hypothesis that two helpers of a process do not send the same key, makes that one
  request per collective. In a two-stage job on demand it follows from the counters (`OnDemandKeys`).
* `SimNetworkProofs!TypeCorrect`, `QueuesServed`, `InflightCorrect`, `GateRefinement`: one inductive
  invariant, `NetInv`, for any devices, topologies and messages. Per link: the record is well formed,
  a queue is served, and a message is queued at most once and not both queued and in flight.
  `Placed`: a message is at link *l* exactly if it is on its way and *l* is its next hop. `GateInv`:
  outside a change, and once a change only waits for its finish event, the links are those of
  `cur_topo_id`. `InflightExact`, about the messages that hold the gate under either algorithm, is a
  conjunct of it: that `inflight_coll` does not go below 0 needs the set of travelling messages, and
  that set needs `Placed`.
* `SimNetworkProofs!ChunksDelivered`: `Spec => []NoChunkStranded` for every schedule with
  `LocalTraffic` (traffic sent without a request has its links in every topology) and `Connected` (a
  requested topology connects its ranks). `RoutesInv` adds that what is left of the route of a `Safe`
  message is passable in the current topology; the switch preserves it because `InflightExact` leaves, of
  these, only local traffic on its way when `inflight_coll` is 0. That every chunk is at one place
  holds of all messages.
* `SimNetworkProofs!ReceivedOnce`: `Spec => []HandledOnce`; `TrackerInv` lists the states of a message
  (receive posted, chunk arrived, handler scheduled, handled), which exclude each other.
* `SimWorkloadProofs!TypeCorrect`, `Rounds`, `Topology`: one inductive invariant, `WorkInv`, for every
  number of ranks, stages and groups and every dependency graph with `Conforms`: a rank comes to the
  collectives of a group in the order of their numbers (`Numbered`) and the ranks of a group ask for the
  same topology in the same round (`Uniform`). Of the schedules nothing is assumed. `RankRounds` relates the four counters of a group to the graph of one rank: it
  has finished all or all but the last of the rounds opened, has voted at most once more, and then the
  collective is ready or under way in the open round. From it follow which collective a rank is about
  to issue, so that the one request of the rank that opens a round speaks for all, and that
  `inflight_coll` counts open rounds and sends, so that no switch that changes links is granted while one is open
  (`ServedInv`). Nothing is assumed of the batching window, of the order of the events or of the order
  in which the leader calls its peers.
* `SimWorkloadProofs!NoThrow`: `NoDoubleIssue` for these workloads if in addition a rank has one
  collective to vote for at a time (`OneVote`). `FrameInv` follows the calls of
  `issue_dep_free_nodes` within each other: who is interrupted has opened a round, so it has no
  vote in another group with which its loop could be entered again. The hypothesis is needed: with two
  groups over the same two ranks, which come to them in different orders, TLC finds a loop that is
  entered again, takes a receive, and leaves it in the snapshot of the loop below, where `take_node`
  would throw.
* `SimWorkloadProofs!Coherent`: `Spec => []StageStateCoherent` without hypotheses.

The hypotheses on jobs are constant formulas, and TLC has evaluated each, and checked each inductive
invariant, on the instances above before it was proved: those of `ShimProofs` on `shim_provision` with
`USE_CUDA_STREAM` 0 and 2 (for the refinement without timeouts) and on `shim_on_demand`, those of `ControllerProofs` on `ctl_rails` and on a pipeline pair with an
emulated and a physical rail; those of `SimWorkloadProofs` on `sim_workload`, whose module states the
hypotheses as an assumption that every run evaluates.

Only model-checked: the liveness properties (`EveryRequestAnswered`, `EveryoneAcked`,
`ShutdownCompletes`, `EveryConnectionServed`, `JobFinishes`, `EveryRequestGranted`, `ReconfigFinishes`,
`MessageHandled`, `AllFinish`), which rest on fairness and are out of the proof system's reach. Every
other property of a passing run is stated by a theorem. That exactly one set is a batch for every set of requests needs an induction over data; no
theorem depends on it.

## 5. Plan

1. `checkin` and the constructor's handshake (the 1 s wait, the domain), composed with
   `handle_comm`; a controller that closes the connection.
2. The schedule compiler (`transitions`, `legacy_stages`; `legacy_counter` strips the offset that
   `is_comm_change_before` compares with) and `determine_server_addr` as pure operators checked
   against reference definitions.
3. The simulator's bitmask mode in `SimWorkload` (`post_reconfig`; `SimNetwork` has its sends, which do not
   hold the gate).

## 6. Not modelled

Of the shim: `IS_EMULATION=1` (a sleep instead of a request), profile mode, `checkin` and the
constructor (their results are constants), an allreduce on the pipeline backend (it bypasses the
helpers), a closed control connection, several operations in one coalescing batch, work objects.
How many threads CUDA uses for host functions is not in the repository; every stream has its own
here. The parts under 5. Of the simulator: `skip_inflight` (no tracked workload sets it), a collective
that names a topology itself, a compute node with `reconfig_dim`, sends with
`skip_scheduler_reconfig`, memory nodes, how a collective is cut into messages (all messages of a
collective are one event in `SimWorkload`, and single messages in `SimNetwork`), link statistics. A workload
whose requests can never be granted makes main.cc's loop retry for ever in decimal mode, as each
retry schedules an event; no modelled workload does. The rest of the data path; text formats of lines and logs, malformed
lines; the look-up of `idToClients` outside `mapMtx` (line 606) is taken as
atomic although it races with insertion; a controller whose first `reconfig_all` failed and which goes
on (`controller.cpp` 161-167: `Init` is the state after it succeeded); the difference between an exception of `config.py` that is
answered with text (lines 176-179) and a connection closed without an answer, which the caller
treats alike (`SetConnectionFails`); a worker that dies between the controller's `connect` and its
`send`, where line 481 may raise SIGPIPE (`Connect` is one step); the width of a topology id; the table arithmetic of
physical mode (`config.py` line 161); launch scripts, evaluation.

Nearly all lines of the repository are vendored: NCCL with its transports, torchtitan, ASTRA-sim's
collectives and other network backends. Opus neither changes nor depends on their internals,
except through the calls modelled here, and they are not modelled.
