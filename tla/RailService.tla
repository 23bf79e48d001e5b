------------------------------ MODULE RailService ------------------------------
(***************************************************************************)
(* The rail workers with callers that use them the way the controller's    *)
(* constructor (reconfig_all) and the emulation smoke test do: every       *)
(* caller talks to one rail and waits for the answer before it sends the   *)
(* next id.  When no two callers share a rail the requests of a rail are   *)
(* serial, and the worker keeps its promise: an answer with SUCCESS means  *)
(* that the requested topology is the installed one.                       *)
(***************************************************************************)
EXTENDS RailWorker

CONSTANT RailOf     \* the rail each caller uses

ASSUME RailOfAssumption == RailOf \in [Conns -> Rails]

Init == RailInit

Request(c) == \E id \in Topos \cup {NoTopo} : Connect(c, RailOf[c], id)

Next ==
    \/ \E c \in Conns : Request(c) \/ Handler(c) \/ Receive(c)
    \/ \E r \in Rails : Exit(r)

\* A handler thread and the pool tasks it waits for keep running.
Spec == Init /\ [][Next]_railVars /\ \A c \in Conns : WF_railVars(Handler(c))

---------------------------------------------------------------------------
\* The rail of every open connection is the caller's rail.
TypeOK ==
    /\ RailTypeOK
    /\ \A c \in Conns : conn[c].state # "closed" => conn[c].rail = RailOf[c]

\* No two callers use the same rail (an assumption of the serial runs and of
\* the theorems, not of the specification).
SerialUse == \A c, d \in Conns : RailOf[c] = RailOf[d] => c = d

\* An answer that reconfig() counts as success reaches the caller only while
\* exactly the requested topology is installed, however many reconfigurations the
\* worker has been through: CONFIG-ACK, after applying the id, always, and
\* CONFIG-NACK, because past_topo says it is installed already, unless the switch
\* may fail late.
SuccessMeansInstalled ==
    \A c \in Conns : (Succeeded(c) /\ (conn[c].state = "ACK" \/ conn[c].rail \notin FailsLate)) =>
        topology_states[conn[c].rail] = conn[c].config_id

\* Whenever a running worker is not in the middle of a reconfiguration, the
\* past_topo it diffs the next request against is what is installed: a
\* rejected id or a switch that refuses must not make the two drift apart.
BeliefIsAccurate ==
    \A r \in Rails \ FailsLate :
        (alive[r] /\ \A c \in Conns : ~(conn[c].rail = r /\ conn[c].state \in {"apply", "commit"}))
        => topology_states[r] = IF past_topo[r] = NoTopo THEN {} ELSE past_topo[r]

\* Every id sent to a worker is answered, or its connection is closed: the
\* blocking recv in reconfig(), which has no timeout, always returns.
EveryRequestAnswered ==
    \A c \in Conns : (conn[c].state = "sent") ~> (conn[c].state \in Answers)
================================================================================
