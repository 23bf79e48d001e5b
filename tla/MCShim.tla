-------------------------------- MODULE MCShim --------------------------------
(***************************************************************************)
(* Bounded instances of Shim for TLC: jobs in the shape of the tracked     *)
(* communication patterns.  The pipeline communicator has backend 1, the   *)
(* data-parallel ones have backends 5 and 6; the interval between two      *)
(* pipeline stages is 10 instead of 1000000.                               *)
(***************************************************************************)
EXTENDS Shim, TLC

Interval == 10
BackendInterval == 10

\* Operations and stages.
Coll(g) == [grp |-> g, peer |-> -1]
P2P(g, p) == [grp |-> g, peer |-> p]
DPStage(b, m, c, n) == [sb |-> b, sc |-> m, eb |-> c, ec |-> n]
PPStage(m, n) == [sb |-> 1, sc |-> Interval + m, eb |-> 1, ec |-> Interval + n]

NoSchedule == [r \in Ranks |-> <<>>]
NoStages == [r \in Ranks |-> <<>>]
NoFences == [r \in Ranks |-> {}]
AllFenced == [r \in Ranks |-> DOMAIN Program[r]]

\* Two pipeline stages of two data-parallel ranks each, all on one rail.
GridMembers == ("dp0" :> {0, 1}) @@ ("dp1" :> {2, 3}) @@ ("ppA" :> {0, 2}) @@ ("ppB" :> {1, 3})
GridBackend == ("dp0" :> 5) @@ ("dp1" :> 5) @@ ("ppA" :> 1) @@ ("ppB" :> 1)
GridDP(r) == Coll(IF r < 2 THEN "dp0" ELSE "dp1")
GridPP(r) == P2P(IF r % 2 = 0 THEN "ppA" ELSE "ppB", IF r < 2 THEN 1 ELSE 0)
GridProgram == [r \in Ranks |-> <<GridPP(r), GridDP(r)>>]
GridStages == [r \in Ranks |-> <<PPStage(0, 0), DPStage(5, 0, 5, 0)>>]
\* With two sends and receives in the pipeline stage.
ReplayProgram == [r \in Ranks |-> <<GridPP(r), GridPP(r), GridDP(r)>>]

\* Keyed schedules: the request of each stage at its first operation, and one
\* operation earlier in provisioning.
PPTarget(r) == [hex |-> GridPP(r).grp, backend |-> 11, counter |-> Interval]
DPTarget(r) == [hex |-> GridDP(r).grp, backend |-> 5, counter |-> (r \div 2) * Interval]
GridSchedule == [r \in Ranks |-> (1 :> PPTarget(r)) @@ (2 :> DPTarget(r))]

\* Two ranks with two data-parallel communicators that take turns, and a
\* tensor-parallel one that is no business of the controller.
TurnsMembers == ("dpA" :> {0, 1}) @@ ("dpB" :> {0, 1}) @@ ("tp" :> {0, 1})
TurnsBackend == ("dpA" :> 5) @@ ("dpB" :> 6) @@ ("tp" :> 3)
TurnsProgram == [r \in Ranks |-> <<Coll("dpA"), Coll("dpA"), Coll("dpB"), Coll("dpA"), Coll("dpB"),
                                  Coll("tp")>>]
TurnsStages == [r \in Ranks |-> <<DPStage(5, 0, 5, 1), DPStage(6, 0, 6, 0), DPStage(5, 2, 5, 2),
                                 DPStage(6, 1, 6, 1)>>]
TurnsSchedule == [r \in Ranks |-> (2 :> [hex |-> "dpB", backend |-> 6, counter |-> 0])
                                @@ (3 :> [hex |-> "dpA", backend |-> 5, counter |-> 2])
                                @@ (4 :> [hex |-> "dpB", backend |-> 6, counter |-> 1])]

\* A pipeline of three stages in one communicator.
PipeMembers == ("pp" :> {0, 1, 2})
PipeBackend == ("pp" :> 1)
PipeProgram == (0 :> <<P2P("pp", 1)>>) @@ (1 :> <<P2P("pp", 0), P2P("pp", 2)>>) @@ (2 :> <<P2P("pp", 1)>>)
===============================================================================
