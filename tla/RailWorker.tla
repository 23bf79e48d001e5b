------------------------------ MODULE RailWorker ------------------------------
(***************************************************************************)
(* The rail workers: one process running opus-controller/config.py per     *)
(* optical rail.  A worker serves each connection of its unix socket in a  *)
(* thread of its own (handle_client_request).  A topology id is a bit      *)
(* vector, modelled as the set of the bits that are 1.  topology_states is *)
(* what is installed: the emulated bits, or the cross-connects of the      *)
(* optical switch.  past_topo is what the worker believes is installed.    *)
(***************************************************************************)
EXTENDS Integers, FiniteSets

CONSTANTS
    Rails,          \* the rails; each has its own worker process
    Conns,          \* callers; a caller has at most one open connection
    Bits,           \* bit positions of a topology id
    Emulation,      \* the rails whose config.py was started with -e
    Installable,    \* physical mode: the ids config.yaml has an entry for
    FailsLate       \* physical rails: a switch call may take effect and raise all the same

Topos == SUBSET Bits

\* The id -1: "nothing configured yet" in past_topo, an invalid id in a request.
NoTopo == {-1}

ASSUME RailsAssumption == Rails # {}
ASSUME BitsAssumption == Bits \subseteq Nat
ASSUME ModeAssumption ==
    Emulation \subseteq Rails /\ FailsLate \subseteq Rails \ Emulation /\ Installable \subseteq Topos

VARIABLES
    past_topo,        \* per rail: the global past_topo
    topology_states,  \* per rail: bits currently installed
    alive,            \* per rail: the worker process is running
    conn              \* per caller: its connection and that connection's handler

railVars == <<past_topo, topology_states, alive, conn>>

(***************************************************************************)
(* A connection.  state is                                                 *)
(*   "closed"  no connection                                               *)
(*   "sent"    the id is in the socket, the handler has not compared it    *)
(*   "apply"   the handler is reconfiguring (futures: bits still to write) *)
(*   "commit"  the new configuration is in place, past_topo is not updated *)
(*   "ACK", "NACK", "INVALID", "EOF"  the answer waits for the caller; EOF *)
(*             is a connection closed without an answer                    *)
(***************************************************************************)
Answers == {"ACK", "NACK", "INVALID", "EOF"}

NoConn == [state |-> "closed", rail |-> CHOOSE r \in Rails : TRUE,
           config_id |-> NoTopo, futures |-> {}]

ConnType == [state     : {"closed", "sent", "apply", "commit"} \cup Answers,
             rail      : Rails,
             config_id : Topos \cup {NoTopo},
             futures   : SUBSET Bits]

RailTypeOK ==
    /\ past_topo \in [Rails -> Topos \cup {NoTopo}]
    /\ topology_states \in [Rails -> Topos]
    /\ alive \in [Rails -> BOOLEAN]
    /\ conn \in [Conns -> ConnType]

\* A worker has just started: nothing configured, every emulated bit 0.
RailInit ==
    /\ past_topo = [r \in Rails |-> NoTopo]
    /\ topology_states = [r \in Rails |-> {}]
    /\ alive = [r \in Rails |-> TRUE]
    /\ conn = [c \in Conns |-> NoConn]

---------------------------------------------------------------------------
(* The caller's side of a connection: Controller::reconfig.                *)

\* The controller connects to the rail's socket and sends the id.
Connect(c, r, id) ==
    /\ conn[c].state = "closed"
    /\ alive[r]
    /\ conn' = [conn EXCEPT ![c] = [state |-> "sent", rail |-> r,
                                    config_id |-> id, futures |-> {}]]
    /\ UNCHANGED <<past_topo, topology_states, alive>>

\* It reads the answer and closes; TRUE iff the text contains "SUCCESS".
Succeeded(c) == conn[c].state \in {"ACK", "NACK"}

Receive(c) ==
    /\ conn[c].state \in Answers
    /\ conn' = [conn EXCEPT ![c] = NoConn]
    /\ UNCHANGED <<past_topo, topology_states, alive>>

---------------------------------------------------------------------------
(* The handler thread: handle_client_request.                              *)

\* The handler of connection c goes on to state s with tasks f outstanding.
Handling(c, s, f) ==
    [state |-> s, rail |-> conn[c].rail, config_id |-> conn[c].config_id, futures |-> f]

Goto(c, s, f) == conn' = [conn EXCEPT ![c] = Handling(c, s, f)]

\* Mutant: the id is recorded before it is validated.
RejectIdRecorded(c) ==
    /\ conn[c].state = "sent"
    /\ conn[c].config_id = NoTopo
    /\ Goto(c, "INVALID", {})
    /\ past_topo' = [past_topo EXCEPT ![conn[c].rail] = NoTopo]
    /\ UNCHANGED <<topology_states, alive>>

\* config_id < 0
RejectId(c) ==
    /\ conn[c].state = "sent"
    /\ conn[c].config_id = NoTopo
    /\ Goto(c, "INVALID", {})
    /\ UNCHANGED <<past_topo, topology_states, alive>>

\* Under past_topo_lock: the same id as last time, nothing to do.
SameTopo(c) ==
    /\ conn[c].state = "sent"
    /\ conn[c].config_id # NoTopo
    /\ conn[c].config_id = past_topo[conn[c].rail]
    /\ Goto(c, "NACK", {})
    /\ UNCHANGED <<past_topo, topology_states, alive>>

\* Mutant: only bits that become 1 are written.
ChangedBitsSet(past, new) == new \ (IF past = NoTopo THEN {} ELSE past)

\* The bits whose characters differ in past_binary and new_binary.
ChangedBits(past, new) ==
    LET old == IF past = NoTopo THEN {} ELSE past
    IN  (old \ new) \cup (new \ old)

\* Mutant: a negative id is not rejected first.
StartReconfigUnchecked(c) ==
    LET r == conn[c].rail IN
    /\ conn[c].state = "sent"
    /\ conn[c].config_id # past_topo[r]
    /\ Goto(c, "apply", IF r \in Emulation THEN ChangedBits(past_topo[r], conn[c].config_id)
                                          ELSE {})
    /\ UNCHANGED <<past_topo, topology_states, alive>>

\* Under past_topo_lock: another id; local_past_topo is read, the lock is
\* released, and one task is submitted per changed bit.
StartReconfig(c) ==
    LET r == conn[c].rail IN
    /\ conn[c].state = "sent"
    /\ conn[c].config_id # NoTopo
    /\ conn[c].config_id # past_topo[r]
    /\ Goto(c, "apply", IF r \in Emulation THEN ChangedBits(past_topo[r], conn[c].config_id)
                                          ELSE {})
    /\ UNCHANGED <<past_topo, topology_states, alive>>

\* One pool task ends: it writes its bit holding that bit's lock.
EmulateReconfiguration(c, b) ==
    LET r == conn[c].rail IN
    /\ conn[c].rail \in Emulation
    /\ conn[c].state = "apply"
    /\ b \in conn[c].futures
    /\ topology_states' = [topology_states EXCEPT ![r] =
                              IF b \in conn[c].config_id THEN @ \cup {b} ELSE @ \ {b}]
    /\ Goto(c, "apply", conn[c].futures \ {b})
    /\ UNCHANGED <<past_topo, alive>>

\* Mutant: the handler does not wait for its tasks.
FuturesNotAwaited(c) ==
    /\ conn[c].rail \in Emulation
    /\ conn[c].state = "apply"
    /\ Goto(c, "commit", {})
    /\ UNCHANGED <<past_topo, topology_states, alive>>

\* wait(futures) returns.
FuturesDone(c) ==
    /\ conn[c].rail \in Emulation
    /\ conn[c].state = "apply"
    /\ conn[c].futures = {}
    /\ Goto(c, "commit", {})
    /\ UNCHANGED <<past_topo, topology_states, alive>>

\* Physical mode: the switch installs the cross-connects of the id.
SetConnection(c) ==
    LET r == conn[c].rail IN
    /\ conn[c].rail \notin Emulation
    /\ conn[c].state = "apply"
    /\ conn[c].config_id \in Installable
    /\ topology_states' = [topology_states EXCEPT ![r] = conn[c].config_id]
    /\ Goto(c, "commit", {})
    /\ UNCHANGED <<past_topo, alive>>

\* Mutant: the except branch does not close the connection.
SetConnectionHangs(c) ==
    /\ conn[c].rail \notin Emulation
    /\ conn[c].state = "apply"
    /\ UNCHANGED railVars

\* Physical mode: no such entry, or the switch refuses; the generic except
\* branch closes the connection without an answer.
SetConnectionFails(c) ==
    /\ conn[c].rail \notin Emulation
    /\ conn[c].state = "apply"
    /\ Goto(c, "EOF", {})
    /\ UNCHANGED <<past_topo, topology_states, alive>>

\* Physical mode: the cross-connects are in place, but setConnection times out or
\* the query of line 167 raises; the except branch leaves past_topo as it was.
SetConnectionFailsLate(c) ==
    LET r == conn[c].rail IN
    /\ conn[c].rail \in FailsLate
    /\ conn[c].state = "apply"
    /\ conn[c].config_id \in Installable
    /\ topology_states' = [topology_states EXCEPT ![r] = conn[c].config_id]
    /\ Goto(c, "EOF", {})
    /\ UNCHANGED <<past_topo, alive>>

\* Under past_topo_lock: record the id; then answer.
Commit(c) ==
    LET r == conn[c].rail IN
    /\ conn[c].state = "commit"
    /\ past_topo' = [past_topo EXCEPT ![r] = conn[c].config_id]
    /\ Goto(c, "ACK", {})
    /\ UNCHANGED <<topology_states, alive>>

Handler(c) ==
    \/ RejectId(c)
    \/ SameTopo(c)
    \/ StartReconfig(c)
    \/ \E b \in Bits : EmulateReconfiguration(c, b)
    \/ FuturesDone(c)
    \/ SetConnection(c)
    \/ SetConnectionFails(c)
    \/ SetConnectionFailsLate(c)
    \/ Commit(c)

\* The process ends (SIGTERM, SIGINT, or killed): handlers are daemon threads
\* and die with it, their sockets are closed.  Nothing restarts a worker.
Exit(r) ==
    /\ alive[r]
    /\ alive' = [alive EXCEPT ![r] = FALSE]
    /\ conn' = [c \in Conns |->
                  IF conn[c].rail = r /\ conn[c].state \in {"sent", "apply", "commit"}
                  THEN Handling(c, "EOF", {})
                  ELSE conn[c]]
    /\ UNCHANGED <<past_topo, topology_states>>
===============================================================================
