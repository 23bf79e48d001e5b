--------------------------- MODULE RailWorkerProofs ---------------------------
(***************************************************************************)
(* Facts about the rail worker's actions that hold whoever calls them.     *)
(***************************************************************************)
EXTENDS RailWorker, TLAPS

\* -1 is not the id of a topology.
LEMMA NoTopoIsNotATopo == NoTopo \notin Topos
BY BitsAssumption DEF Topos, NoTopo

\* The record a closed connection is reset to is a connection record.
LEMMA NoConnType == NoConn \in ConnType /\ NoConn.state = "closed"
<1>1. (CHOOSE r \in Rails : TRUE) \in Rails
  BY RailsAssumption
<1>2. QED
  BY <1>1 DEF NoConn, ConnType, Answers

\* The bits a reconfiguration has to change are bits of a topology id.
LEMMA ChangedBitsType ==
    ASSUME NEW past \in Topos \cup {NoTopo}, NEW new \in Topos
    PROVE  ChangedBits(past, new) \subseteq Bits
BY DEF ChangedBits, Topos

\* Opening a connection for a topology id keeps the workers' state well formed.
LEMMA ConnectType ==
    ASSUME RailTypeOK, NEW c \in Conns, NEW r \in Rails, NEW id \in Topos \cup {NoTopo},
           Connect(c, r, id)
    PROVE  RailTypeOK'
BY DEF RailTypeOK, Connect, ConnType

\* So does reading the answer.
LEMMA ReceiveType == ASSUME RailTypeOK, NEW c \in Conns, Receive(c) PROVE RailTypeOK'
BY NoConnType DEF RailTypeOK, Receive

\* So does the death of a worker.
LEMMA ExitType == ASSUME RailTypeOK, NEW r \in Rails, Exit(r) PROVE RailTypeOK'
BY DEF RailTypeOK, Exit, Handling, ConnType, Answers

\* And every step of a handler.
LEMMA HandlerType == ASSUME RailTypeOK, NEW c \in Conns, Handler(c) PROVE RailTypeOK'
<1> USE DEF RailTypeOK, Goto, Handling, ConnType, Answers
<1>1. CASE RejectId(c) \/ SameTopo(c) \/ FuturesDone(c) \/ SetConnectionFails(c)
  BY <1>1 DEF RejectId, SameTopo, FuturesDone, SetConnectionFails
<1>2. CASE StartReconfig(c)
  <2>1. conn[c].config_id \in Topos
    BY <1>2 DEF StartReconfig
  <2>2. ChangedBits(past_topo[conn[c].rail], conn[c].config_id) \subseteq Bits
    BY <2>1, ChangedBitsType
  <2>3. QED
    BY <1>2, <2>2 DEF StartReconfig
<1>3. ASSUME NEW b \in Bits, EmulateReconfiguration(c, b) PROVE RailTypeOK'
  BY <1>3 DEF EmulateReconfiguration, Topos
<1>4. CASE SetConnection(c) \/ SetConnectionFailsLate(c)
  BY <1>4, ModeAssumption DEF SetConnection, SetConnectionFailsLate
<1>5. CASE Commit(c)
  BY <1>5 DEF Commit
<1>6. QED
  BY <1>1, <1>2, <1>3, <1>4, <1>5 DEF Handler
===============================================================================
