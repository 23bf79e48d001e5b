---------------------------- MODULE MCSimWorkload ----------------------------
(***************************************************************************)
(* Two pipeline stages of two ranks, {0, 1} and {2, 3}. Each stage has an  *)
(* expert-parallel and a data-parallel group over its ranks; stage 0 sends *)
(* activations to stage 1.                                                 *)
(***************************************************************************)
EXTENDS SimWorkload

Coll(g, dim, number, parents) ==
    [kind |-> "coll", grp |-> g, dim |-> dim, number |-> number, gated |-> TRUE,
     parents |-> parents]
Send(to, dim, msg, parents) ==
    [kind |-> "send", to |-> to, dim |-> dim, msg |-> msg, gated |-> TRUE, parents |-> parents]
Recv(msg, parents) == [kind |-> "recv", msg |-> msg, parents |-> parents]
Comp(topo, parents) == [kind |-> "comp", topo |-> topo, parents |-> parents]
Tp(g, number, parents) ==
    [kind |-> "coll", grp |-> g, dim |-> 1, number |-> number, gated |-> FALSE,
     parents |-> parents]

MCGroups == {"ep0", "dp0", "ep1", "dp1", "tp0"}
MCMembers == [g \in MCGroups |-> IF g \in {"ep1", "dp1"} THEN {2, 3} ELSE {0, 1}]

AllDP == [s \in {0, 1} |-> 1]

\* Two microbatches of one layer in the order in which the workload
\* generator writes them: gather the weights (DP), per microbatch the EP
\* exchange and the pipeline transfer; backward, in reverse, the EP
\* exchange, the explicit switch to DP beside the rest of the backward
\* pass, and the gradients (DP). Receives depend on nothing.
Stage0(r) ==
    << Coll("dp0", 1, 1, {}), Tp("tp0", 1, {1}),
       Coll("ep0", 3, 1, {2}), Send(r + 2, 0, <<"fwd", r, 1>>, {3}),
       Coll("ep0", 3, 2, {4}), Send(r + 2, 0, <<"fwd", r, 2>>, {5}),
       Recv(<<"bwd", r, 1>>, {}), Recv(<<"bwd", r, 2>>, {}),
       Coll("ep0", 3, 3, {6, 8}), Comp({AllDP}, {9}), Comp({}, {9}),
       Coll("dp0", 1, 2, {10, 11}),
       Coll("ep0", 3, 4, {7, 12}), Comp({AllDP}, {13}), Coll("dp0", 1, 3, {14}) >>
Stage1(r) ==
    << Recv(<<"fwd", r - 2, 1>>, {}), Recv(<<"fwd", r - 2, 2>>, {}),
       Coll("dp1", 1, 1, {1}), Coll("ep1", 3, 1, {3}), Coll("ep1", 3, 2, {2, 4}),
       Coll("ep1", 3, 3, {5}), Comp({AllDP}, {6}), Coll("dp1", 1, 2, {7}),
       Send(r - 2, 0, <<"bwd", r - 2, 2>>, {8}),
       Coll("ep1", 3, 4, {9}), Comp({AllDP}, {10}), Coll("dp1", 1, 3, {11}),
       Send(r - 2, 0, <<"bwd", r - 2, 1>>, {12}) >>

MCProgram == [r \in 0..3 |-> IF r < 2 THEN Stage0(r) ELSE Stage1(r)]

\* The generator's two schedules: "opus_diverge" gives an EP stage links of its
\* own, "opus_same" those of the DP ring.
MCTopologies == [{0, 1} -> {0, 1, 3}]
MCSchedules ==
    {[t \in MCTopologies |-> t],
     [t \in MCTopologies |-> [s \in {0, 1} |-> IF t[s] = 3 THEN 1 ELSE t[s]]]}

\* The hypotheses of the theorems hold of this workload.
ASSUME MCConforms == Conforms /\ OneVote
==============================================================================
