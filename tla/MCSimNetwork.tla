---------------------------- MODULE MCSimNetwork ----------------------------
(***************************************************************************)
(* Two nodes, {1, 2} and {3}. The fast links inside the first node exist   *)
(* in every topology; the circuit to the second node starts at device 1 in *)
(* topologies 11 and 12 and at device 2 in topology 21.                    *)
(***************************************************************************)
EXTENDS SimNetwork, TLC

CONSTANTS a, b, c

MCDevices == 1..3
MCTopos == {11, 12, 21}
MCBw ==
    [t \in MCTopos |-> [l \in {k \in MCDevices \X MCDevices : k[1] # k[2]} |->
        IF {l[1], l[2]} = {1, 2} THEN 4
        ELSE IF {l[1], l[2]} = {IF t = 21 THEN 2 ELSE 1, 3} THEN 1 ELSE 0]]

\* a crosses the circuit of device 1, b the circuit of device 2 or, with
\* OPUS routing, both kinds of link of topology 12; c stays inside the node.
\* b belongs to a collective; a is a point-to-point send, which holds the gate
\* with OPUS routing only.
MCMsgs == {a, b, c}
MCSrc == (a :> 1) @@ (b :> 2) @@ (c :> 1)
MCDst == (a :> 3) @@ (b :> 3) @@ (c :> 2)
MCNeeds == (a :> {11}) @@ (b :> {12, 21}) @@ (c :> {})
MCCollective == {b}

ASSUME ScheduleFits == LocalTraffic /\ Connected
=============================================================================
