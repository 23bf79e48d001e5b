--------------------------- MODULE RailServiceProofs ---------------------------
(***************************************************************************)
(* Proofs about RailService, for any number of rails, callers and bits and *)
(* in both modes, under SerialUse.  Neither property is inductive: what a  *)
(* pool task writes is only right because the diff was taken against what  *)
(* was installed then, so the invariant says what is already in place at   *)
(* each point of the handler.                                              *)
(***************************************************************************)
EXTENDS RailService, RailWorkerProofs, TLAPS

\* The handler is between its diff and the update of past_topo, and may have
\* changed the rail already.
Writing(c) == conn[c].state = "commit" \/ (conn[c].rail \in Emulation /\ conn[c].state = "apply")

\* While bits are being written, those that are not waiting in futures have the
\* requested value; once the handler is past that point all of them do.
Progress ==
    \A c \in Conns :
        LET installed == topology_states[conn[c].rail] IN
        /\ conn[c].rail \in Emulation /\ conn[c].state = "apply" =>
              \A b \in Bits \ conn[c].futures : b \in installed <=> b \in conn[c].config_id
        /\ conn[c].state \in {"commit", "ACK"} => installed = conn[c].config_id
        /\ conn[c].state = "NACK" /\ conn[c].rail \notin FailsLate => installed = conn[c].config_id
        /\ conn[c].state \in {"apply", "commit", "ACK", "NACK"} => conn[c].config_id \in Topos

\* past_topo is exact for every live rail that nobody is writing and whose switch
\* does not fail late.
Belief ==
    \A r \in Rails \ FailsLate :
        (alive[r] /\ \A c \in Conns : conn[c].rail = r => ~Writing(c))
        => topology_states[r] = IF past_topo[r] = NoTopo THEN {} ELSE past_topo[r]

\* A dead worker has no handler left.
NoOrphans ==
    \A c \in Conns : conn[c].state \in {"sent", "apply", "commit"} => alive[conn[c].rail]

IInv == TypeOK /\ Progress /\ Belief /\ NoOrphans

---------------------------------------------------------------------------
\* The initial state: workers that have configured nothing.
LEMMA InitIInv == Init => IInv
<1> SUFFICES ASSUME Init PROVE IInv
  OBVIOUS
<1> USE DEF Init, RailInit
<1>1. TypeOK
  BY NoConnType DEF TypeOK, RailTypeOK, Topos
<1>2. Progress
  BY NoConnType DEF Progress
<1>3. Belief
  BY DEF Belief
<1>4. NoOrphans
  BY NoConnType DEF NoOrphans
<1>5. QED
  BY <1>1, <1>2, <1>3, <1>4 DEF IInv
\* Each step of a caller, of a handler or of a dying worker keeps IInv.
LEMMA NextIInv == ASSUME SerialUse, IInv, [Next]_railVars PROVE IInv'
<1> USE DEF IInv, TypeOK, RailTypeOK
<1>s. \A c, d \in Conns : conn[c].state # "closed" /\ conn[d].state # "closed"
        /\ conn[c].rail = conn[d].rail => c = d
  BY DEF SerialUse
<1>1. ASSUME NEW c \in Conns, Request(c) PROVE IInv'
  <2> PICK id \in Topos \cup {NoTopo} : Connect(c, RailOf[c], id)
    BY <1>1 DEF Request
  <2> USE DEF Connect
  <2>1. TypeOK'
    BY RailOfAssumption DEF ConnType
  <2>2. Progress'
    BY DEF Progress, ConnType
  <2>3. Belief'
    BY DEF Belief, Writing, ConnType
  <2>4. NoOrphans'
    BY RailOfAssumption DEF NoOrphans, ConnType
  <2>5. QED
    BY <2>1, <2>2, <2>3, <2>4
<1>2. ASSUME NEW c \in Conns, Receive(c) PROVE IInv'
  <2> USE <1>2, NoConnType DEF Receive, Answers
  <2>1. TypeOK'
    BY DEF ConnType
  <2>2. Progress'
    BY DEF Progress
  <2>3. Belief'
    BY DEF Belief, Writing
  <2>4. NoOrphans'
    BY DEF NoOrphans
  <2>5. QED
    BY <2>1, <2>2, <2>3, <2>4
<1>3. ASSUME NEW c \in Conns, RejectId(c) PROVE IInv'
  <2> USE <1>3 DEF RejectId, Goto, Handling, ConnType, Answers
  <2>1. TypeOK'
    OBVIOUS
  <2>2. Progress'
    BY DEF Progress
  <2>3. Belief'
    BY DEF Belief, Writing
  <2>4. NoOrphans'
    BY DEF NoOrphans
  <2>5. QED
    BY <2>1, <2>2, <2>3, <2>4
<1>4. ASSUME NEW c \in Conns, SameTopo(c) PROVE IInv'
  <2> USE <1>4 DEF SameTopo, Goto, Handling, ConnType, Answers
  <2>1. TypeOK'
    OBVIOUS
  <2>2. conn[c].rail \notin FailsLate => topology_states[conn[c].rail] = conn[c].config_id
    <3>1. \A d \in Conns : conn[d].rail = conn[c].rail => ~Writing(d)
      BY <1>s DEF Writing
    <3>2. alive[conn[c].rail]
      BY DEF NoOrphans
    <3>3. QED
      BY <3>1, <3>2 DEF Belief
  <2>3. Progress'
    BY <2>2 DEF Progress
  <2>4. Belief'
    BY DEF Belief, Writing
  <2>5. NoOrphans'
    BY DEF NoOrphans
  <2>6. QED
    BY <2>1, <2>3, <2>4, <2>5
<1>5. ASSUME NEW c \in Conns, StartReconfig(c) PROVE IInv'
  <2> USE <1>5 DEF StartReconfig, Goto, Handling, ConnType
  <2>0. conn[c].config_id \in Topos
    OBVIOUS
  <2>d. ChangedBits(past_topo[conn[c].rail], conn[c].config_id) \subseteq Bits
    BY <2>0, ChangedBitsType
  <2>1. TypeOK'
    BY <2>d DEF Answers
  <2>2. Progress'
    <3>1. \A d \in Conns : conn[d].rail = conn[c].rail => ~Writing(d)
      BY <1>s DEF Writing
    <3>2. alive[conn[c].rail]
      BY DEF NoOrphans
    <3>3. conn[c].rail \in Emulation => topology_states[conn[c].rail] =
             IF past_topo[conn[c].rail] = NoTopo THEN {} ELSE past_topo[conn[c].rail]
      BY <3>1, <3>2, ModeAssumption DEF Belief
    <3>4. conn[c].rail \in Emulation =>
           \A b \in Bits \ ChangedBits(past_topo[conn[c].rail], conn[c].config_id) :
             b \in topology_states[conn[c].rail] <=> b \in conn[c].config_id
      BY <3>3 DEF ChangedBits
    <3>5. QED
      BY <2>0, <3>4 DEF Progress
  <2>3. Belief'
    BY DEF Belief, Writing
  <2>4. NoOrphans'
    BY DEF NoOrphans
  <2>5. QED
    BY <2>1, <2>2, <2>3, <2>4
<1>6. ASSUME NEW c \in Conns, NEW b \in Bits, EmulateReconfiguration(c, b) PROVE IInv'
  <2> DEFINE r == conn[c].rail
  <2> USE <1>6 DEF EmulateReconfiguration, Goto, Handling, ConnType
  <2>1. TypeOK'
    BY DEF Topos
  <2>2. Progress'
    <3>1. \A d \in Conns \ {c} : conn[d].state # "closed" =>
             conn'[d] = conn[d] /\ topology_states'[conn[d].rail] = topology_states[conn[d].rail]
      BY <1>s
    <3>2. \A a \in Bits \ conn'[c].futures :
             a \in topology_states'[r] <=> a \in conn[c].config_id
      BY DEF Progress
    <3>3. conn'[c].state = "apply" /\ conn'[c].rail = r
            /\ conn'[c].config_id = conn[c].config_id /\ conn[c].config_id \in Topos
      BY DEF Progress
    <3>4. SUFFICES ASSUME NEW d \in Conns
                   PROVE  /\ conn'[d].rail \in Emulation /\ conn'[d].state = "apply" =>
                                \A a \in Bits \ conn'[d].futures :
                                   a \in topology_states'[conn'[d].rail] <=> a \in conn'[d].config_id
                          /\ conn'[d].state \in {"commit", "ACK"} =>
                                topology_states'[conn'[d].rail] = conn'[d].config_id
                          /\ conn'[d].state = "NACK" /\ conn'[d].rail \notin FailsLate =>
                                topology_states'[conn'[d].rail] = conn'[d].config_id
                          /\ conn'[d].state \in {"apply", "commit", "ACK", "NACK"} =>
                                conn'[d].config_id \in Topos
      BY DEF Progress
    <3>5. CASE d = c
      BY <3>2, <3>3, <3>5
    <3>6. CASE d # c
      BY <3>1, <3>6, ZenonT(60) DEF Progress
    <3>7. QED
      BY <3>5, <3>6
  <2>3. Belief'
    BY DEF Belief, Writing
  <2>4. NoOrphans'
    BY DEF NoOrphans
  <2>5. QED
    BY <2>1, <2>2, <2>3, <2>4
<1>7. ASSUME NEW c \in Conns, FuturesDone(c) PROVE IInv'
  <2> USE <1>7 DEF FuturesDone, Goto, Handling, ConnType
  <2>1. TypeOK'
    OBVIOUS
  <2>2. topology_states[conn[c].rail] = conn[c].config_id
    BY DEF Progress, Topos
  <2>3. Progress'
    BY <2>2 DEF Progress
  <2>4. Belief'
    BY DEF Belief, Writing
  <2>5. NoOrphans'
    BY DEF NoOrphans
  <2>6. QED
    BY <2>1, <2>3, <2>4, <2>5
<1>8. ASSUME NEW c \in Conns, SetConnection(c) PROVE IInv'
  <2> USE <1>8 DEF SetConnection, Goto, Handling, ConnType
  <2>1. TypeOK'
    BY ModeAssumption
  <2>2. Progress'
    <3>1. \A d \in Conns \ {c} : conn[d].state # "closed" =>
             conn'[d] = conn[d] /\ topology_states'[conn[d].rail] = topology_states[conn[d].rail]
      BY <1>s
    <3>2. QED
      BY <3>1 DEF Progress
  <2>3. Belief'
    BY DEF Belief, Writing
  <2>4. NoOrphans'
    BY DEF NoOrphans
  <2>5. QED
    BY <2>1, <2>2, <2>3, <2>4
<1>9. ASSUME NEW c \in Conns, SetConnectionFails(c) PROVE IInv'
  <2> USE <1>9 DEF SetConnectionFails, Goto, Handling, ConnType, Answers
  <2>1. TypeOK'
    OBVIOUS
  <2>2. Progress'
    BY DEF Progress
  <2>3. Belief'
    BY DEF Belief, Writing
  <2>4. NoOrphans'
    BY DEF NoOrphans
  <2>5. QED
    BY <2>1, <2>2, <2>3, <2>4
<1>10. ASSUME NEW c \in Conns, Commit(c) PROVE IInv'
  <2> USE <1>10 DEF Commit, Goto, Handling, ConnType, Answers
  <2>0. topology_states[conn[c].rail] = conn[c].config_id /\ conn[c].config_id \in Topos
    BY DEF Progress
  <2>1. TypeOK'
    OBVIOUS
  <2>2. Progress'
    BY DEF Progress
  <2>3. Belief'
    BY <2>0, NoTopoIsNotATopo DEF Belief, Writing
  <2>4. NoOrphans'
    BY DEF NoOrphans
  <2>5. QED
    BY <2>1, <2>2, <2>3, <2>4
<1>11. ASSUME NEW r \in Rails, Exit(r) PROVE IInv'
  <2> USE <1>11 DEF Exit, Handling, ConnType, Answers
  <2>1. TypeOK'
    OBVIOUS
  <2>2. Progress'
    BY DEF Progress
  <2>3. Belief'
    BY DEF Belief, Writing
  <2>4. NoOrphans'
    BY DEF NoOrphans
  <2>5. QED
    BY <2>1, <2>2, <2>3, <2>4
<1>12. CASE UNCHANGED railVars
  <2> USE <1>12 DEF railVars
  <2>1. TypeOK' /\ Progress' /\ NoOrphans'
    BY DEF Progress, NoOrphans
  <2>2. Belief'
    BY DEF Belief, Writing
  <2>3. QED
    BY <2>1, <2>2
<1>13. ASSUME NEW c \in Conns, SetConnectionFailsLate(c) PROVE IInv'
  <2> USE <1>13 DEF SetConnectionFailsLate, Goto, Handling, ConnType, Answers
  <2>1. TypeOK'
    BY ModeAssumption
  <2>2. Progress'
    <3>1. \A d \in Conns \ {c} : conn[d].state # "closed" =>
             conn'[d] = conn[d] /\ topology_states'[conn[d].rail] = topology_states[conn[d].rail]
      BY <1>s
    <3>2. QED
      BY <3>1 DEF Progress
  <2>3. Belief'
    BY DEF Belief, Writing
  <2>4. NoOrphans'
    BY DEF NoOrphans
  <2>5. QED
    BY <2>1, <2>2, <2>3, <2>4
<1>14. QED
  BY <1>1, <1>2, <1>3, <1>4, <1>5, <1>6, <1>7, <1>8, <1>9, <1>10, <1>11, <1>12, <1>13
  DEF Next, Handler

\* IInv gives the two properties the runs check.
LEMMA IInvImplies == IInv => SuccessMeansInstalled /\ BeliefIsAccurate
<1> SUFFICES ASSUME IInv PROVE SuccessMeansInstalled /\ BeliefIsAccurate
  OBVIOUS
<1>1. SuccessMeansInstalled
  BY DEF IInv, Progress, SuccessMeansInstalled, Succeeded
<1>2. BeliefIsAccurate
  BY DEF IInv, Belief, BeliefIsAccurate, Writing
<1>3. QED
  BY <1>1, <1>2

\* Each step keeps TypeOK, however callers share rails and whatever fails.
LEMMA NextTypeOK == ASSUME TypeOK, [Next]_railVars PROVE TypeOK'
<1> USE DEF TypeOK
<1>1. ASSUME NEW c \in Conns, Request(c) PROVE TypeOK'
  <2>1. PICK id \in Topos \cup {NoTopo} : Connect(c, RailOf[c], id)
    BY <1>1 DEF Request
  <2>2. RailTypeOK'
    BY <2>1, ConnectType, RailOfAssumption
  <2>3. QED
    BY <2>1, <2>2 DEF Connect, RailTypeOK
<1>2. ASSUME NEW c \in Conns, Handler(c) PROVE TypeOK'
  <2>1. RailTypeOK'
    BY <1>2, HandlerType
  <2>2. conn[c].state # "closed" /\ conn'[c].rail = conn[c].rail
        /\ \A d \in Conns \ {c} : conn'[d] = conn[d]
    <3> USE DEF Goto, Handling, RailTypeOK, ConnType
    <3>1. CASE RejectId(c) \/ SameTopo(c) \/ StartReconfig(c) \/ FuturesDone(c) \/ Commit(c)
      BY <3>1 DEF RejectId, SameTopo, StartReconfig, FuturesDone, Commit
    <3>2. ASSUME NEW b \in Bits, EmulateReconfiguration(c, b)
          PROVE  conn[c].state # "closed" /\ conn'[c].rail = conn[c].rail
                 /\ \A d \in Conns \ {c} : conn'[d] = conn[d]
      BY <3>2 DEF EmulateReconfiguration
    <3>3. CASE SetConnection(c) \/ SetConnectionFails(c) \/ SetConnectionFailsLate(c)
      BY <3>3 DEF SetConnection, SetConnectionFails, SetConnectionFailsLate
    <3>4. QED
      BY <1>2, <3>1, <3>2, <3>3 DEF Handler
  <2>3. QED
    BY <2>1, <2>2
<1>3. ASSUME NEW c \in Conns, Receive(c) PROVE TypeOK'
  BY <1>3, ReceiveType, NoConnType DEF Receive, RailTypeOK
<1>4. ASSUME NEW r \in Rails, Exit(r) PROVE TypeOK'
  BY <1>4, ExitType DEF Exit, Handling, RailTypeOK, ConnType
<1>5. CASE UNCHANGED railVars
  BY <1>5 DEF railVars, RailTypeOK
<1>6. QED
  BY <1>1, <1>2, <1>3, <1>4, <1>5 DEF Next

\* config.py's state stays well formed, and a connection stays on the rail of
\* its caller, for any callers, modes and failures.
THEOREM TypeCorrect == Spec => []TypeOK
<1>1. Init => TypeOK
  BY NoConnType DEF Init, RailInit, TypeOK, RailTypeOK, Topos
<1>2. TypeOK /\ [Next]_railVars => TypeOK'
  BY NextTypeOK
<1>3. QED
  BY <1>1, <1>2, PTL DEF Spec

\* Serial callers can rely on the worker's SUCCESS answers (ACK, and NACK unless
\* the switch may fail late): the requested topology is installed; and past_topo
\* never drifts from what is installed.  For every number of rails, callers and
\* bits, in both modes.
THEOREM SerialSuccess ==
    ASSUME SerialUse PROVE Spec => [](SuccessMeansInstalled /\ BeliefIsAccurate)
<1>1. SerialUse /\ IInv /\ [Next]_railVars => IInv'
  BY NextIInv
<1>2. QED
  BY <1>1, IInvImplies, InitIInv, SerialUse, PTL DEF Spec

\* The id that a serial rail is answered from, past_topo, is what is installed
\* whenever no reconfiguration is under way, whatever was refused before.
THEOREM BeliefCorrect ==
    ASSUME SerialUse PROVE Spec => []BeliefIsAccurate
<1>1. (SuccessMeansInstalled /\ BeliefIsAccurate) => BeliefIsAccurate
  OBVIOUS
<1>2. QED
  BY <1>1, SerialSuccess, SerialUse, PTL
================================================================================
