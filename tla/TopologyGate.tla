----------------------------- MODULE TopologyGate -----------------------------
(***************************************************************************)
(* What the simulator's topology manager promises to the workload, without *)
(* links, chunks or drain counts: the current topology changes only        *)
(* between communications and never during a change, the links go from one *)
(* topology to the next in a single step, and a change is reported as      *)
(* finished only once the links are those of the current topology.         *)
(***************************************************************************)
EXTENDS Naturals

CONSTANTS
    Topologies,  \* the topology ids of the circuit schedules
    Circuits     \* per topology: its links

VARIABLES
    current,     \* the topology the workload has selected
    changing,    \* TRUE while a change is under way
    open,        \* number of communications that rely on the topology
    installed    \* the links as they are

gateVars == <<current, changing, open, installed>>

GateInit ==
    /\ current \in Topologies
    /\ installed = Circuits[current]
    /\ changing \in BOOLEAN
    /\ open = 0

\* A new topology with the same links needs no change.
Relabel(t) ==
    /\ ~changing /\ Circuits[t] = Circuits[current]
    /\ current' = t
    /\ UNCHANGED <<changing, open, installed>>

\* A change may end at once when nothing has to drain.
Switch(t) ==
    /\ ~changing /\ open = 0
    /\ current' = t
    /\ \/ changing' = TRUE /\ installed' = installed
       \/ changing' \in BOOLEAN /\ installed' = Circuits[t]
    /\ UNCHANGED open

Install ==
    /\ changing
    /\ installed' = Circuits[current]
    /\ changing' \in BOOLEAN
    /\ UNCHANGED <<current, open>>

Settle ==
    /\ changing /\ installed = Circuits[current]
    /\ changing' = FALSE
    /\ UNCHANGED <<current, open, installed>>

Enter == open' = open + 1 /\ UNCHANGED <<current, changing, installed>>

Leave ==
    /\ open > 0
    /\ open' = open - 1
    /\ UNCHANGED <<current, changing, installed>>

GateNext ==
    \/ \E t \in Topologies : Relabel(t) \/ Switch(t)
    \/ Install \/ Settle \/ Enter \/ Leave

GateSpec == GateInit /\ [][GateNext]_gateVars
===============================================================================
