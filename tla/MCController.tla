----------------------------- MODULE MCController -----------------------------
(***************************************************************************)
(* Bounded instances of Controller for TLC.  Clients are global ranks, the *)
(* names of the groups say what they are: "dp" communicators have backend  *)
(* 5, the pipeline communicator has backend 1, as in the tracked           *)
(* communication patterns.  The interval between two pipeline stages is 10 *)
(* instead of 1000000: no counter of these instances reaches it.           *)
(***************************************************************************)
EXTENDS Controller, TLC

Interval == 10
BackendInterval == 10
DP(h, stage, n) == [hex |-> h, backend |-> 5, counter |-> stage * Interval + n]
PP(h, pair, n) == [hex |-> h, backend |-> 1 + pair * BackendInterval,
                   counter |-> pair * Interval + n]

AllTopos == SUBSET Bits
Unknown == -1

\* Data parallelism only: two communicators, each on its own rail.  Ranks 0
\* and 1 are on node 0, ranks 2 and 3 on node 1.
RailsMembers == ("dp0" :> {0, 2}) @@ ("dp1" :> {1, 3})
RailsRequests == {DP("dp0", 0, 0), DP("dp0", 0, 1), DP("dp1", 0, 0)}
RailsSenders == [q \in RailsRequests |-> RailsMembers[q.hex]]
RailsServerIdx == (0 :> 0) @@ (1 :> 0) @@ (2 :> 1) @@ (3 :> 1)
RailsLocalRank == (0 :> 0) @@ (1 :> 1) @@ (2 :> 0) @@ (3 :> 1)

\* Two pipeline stages, each with a communicator of its own, on rail 0.
StagesMembers == ("dp_s0" :> {0, 1}) @@ ("dp_s1" :> {2, 3})
StagesRequests == {DP("dp_s0", 0, 0), DP("dp_s1", 1, 0)}
StagesSenders == [q \in StagesRequests |-> StagesMembers[q.hex]]

\* What a thread may throw on, or drop: rank 1 has no rail, rank 2 is on a host
\* that SERVER_IPS does not list, one pipeline request has the wrong pair, and
\* one names a communicator that never registered.
FaultsMembers == ("dp" :> {0, 1}) @@ ("pp" :> {0, 2}) @@ ("none" :> {})
FaultsRequests == {DP("dp", 0, 0), PP("pp", 1, 0), DP("none", 0, 0),
                   [hex |-> "pp", backend |-> 11, counter |-> 2 * Interval]}
FaultsSenders == [q \in FaultsRequests |-> IF q.hex = "none" THEN {0} ELSE FaultsMembers[q.hex]]
FaultsServerIdx == (0 :> 0) @@ (1 :> 1) @@ (2 :> -1)
FaultsLocalRank == (0 :> 0) @@ (1 :> 1) @@ (2 :> 0)
NotEmpty == SUBSET Bits \ {{}}

OneRailServerIdx == [c \in Conns |-> c]
OneRailLocalRank == [c \in Conns |-> 0]

\* A pipeline of three stages, one communicator with two pairs, on rail 0, and the
\* data-parallel communicator of two of its ranks.
PipeMembers == ("dp_s0" :> {0, 1}) @@ ("pp" :> {0, 1, 2})
PipeRequests == {DP("dp_s0", 0, 0), PP("pp", 1, 0), PP("pp", 2, 0)}
PipeSenders == [q \in PipeRequests |-> IF IsPP(q) THEN {PPGroup(q) - 1, PPGroup(q)}
                                                  ELSE PipeMembers[q.hex]]
===============================================================================
