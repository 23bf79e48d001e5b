--------------------------- MODULE BarrierRefinement ---------------------------
(***************************************************************************)
(* The controller implements CollectiveBarrier: what its threads, locks,   *)
(* counts and rail workers do amounts to one Release per collective and at *)
(* most one Deliver per member, for every instance.                        *)
(***************************************************************************)
EXTENDS ControllerProofs

\* Only members register, so only members are acknowledged.
RegisteredAreMembers == \A h \in Groups : idToClients[h] \subseteq Members[h]

\* Whom a thread still has to acknowledge has not been acknowledged.
AckPending ==
    \A c \in Clients : pc[c] = "ack" =>
        /\ ackLeft[c] \subseteq Members[req[c].hex]
        /\ \A d \in ackLeft[c] : acked[d][req[c]] = 0

\* Nobody is acknowledged before the reconfiguration has been answered.
NotYetAcked ==
    \A c \in Clients : pc[c] \notin {"idle", "ack"} =>
        \A d \in Clients : acked[d][req[c]] = 0

\* Only open barriers are acknowledged.
AckedIsErased ==
    \A d \in Clients, q \in Requests : acked[d][q] # 0 => Key(q) \in erased

AckInv == RegisteredAreMembers /\ AckPending /\ NotYetAcked /\ AckedIsErased

\* Nobody is registered, waiting or acknowledged at the start.
LEMMA InitAck == ASSUME Init PROVE AckInv
BY DEF Init, AckInv, RegisteredAreMembers, AckPending, NotYetAcked, AckedIsErased

\* A step that neither acknowledges nor registers, and takes at most thread c
\* from one label before the acknowledgements to the next or back to idle.
LEMMA FrameAck ==
    ASSUME TypeOK, AckInv, NEW c \in Clients,
           UNCHANGED <<idToClients, req, ackLeft, acked>>,
           erased \subseteq erased',
           \/ pc' = pc
           \/ /\ pc[c] \notin {"idle", "ack"}
              /\ \E l \in Labels \ {"ack"} : pc' = [pc EXCEPT ![c] = l]
    PROVE  AckInv'
<1>p. \A d \in Clients : /\ pc'[d] = "ack" => pc[d] = "ack"
                         /\ pc'[d] \notin {"idle", "ack"} => pc[d] \notin {"idle", "ack"}
  BY DEF TypeOK
<1>1. RegisteredAreMembers'
  BY DEF AckInv, RegisteredAreMembers
<1>2. AckPending'
  BY <1>p DEF AckInv, AckPending
<1>3. NotYetAcked'
  BY <1>p DEF AckInv, NotYetAcked
<1>4. AckedIsErased'
  BY DEF AckInv, AckedIsErased
<1>5. QED
  BY <1>1, <1>2, <1>3, <1>4 DEF AckInv

\* Registration adds a member of the communicator.
LEMMA RegistersAck ==
    ASSUME TypeOK, AckInv, NEW c \in Clients, NEW h \in Groups, Registers(c, h)
    PROVE  AckInv'
<1>1. /\ c \in Members[h] /\ idToClients' = [idToClients EXCEPT ![h] = idToClients[h] \cup {c}]
      /\ UNCHANGED <<pc, req, ackLeft, acked, erased>>
  BY DEF Registers, HandleComm, HandleCommLast, HandleCommThrows, threadVars, histVars
<1>2. RegisteredAreMembers'
  BY <1>1 DEF AckInv, RegisteredAreMembers, TypeOK
<1>3. AckPending' /\ NotYetAcked' /\ AckedIsErased'
  BY <1>1 DEF AckInv, AckPending, NotYetAcked, AckedIsErased
<1>4. QED
  BY <1>2, <1>3 DEF AckInv

\* A vote is for a barrier that is still closed, so nobody has its answer.
LEMMA VoteAck ==
    ASSUME Participation, BarrierInv, AckInv, NEW c \in Clients, NEW q \in Requests,
           DropConfigReq(c, q) \/ CountVote(c, q)
    PROVE  AckInv'
<1>t. TypeOK /\ ErasedIsFull
  BY DEF BarrierInv
<1>1. CASE DropConfigReq(c, q)
  <2>1. UNCHANGED <<idToClients, req, ackLeft, acked, erased, pc>>
    BY <1>1 DEF DropConfigReq, regVars, threadVars
  <2>2. QED
    BY <2>1, <1>t, FrameAck
<1>2. CASE CountVote(c, q)
  <2>1. c \in Senders[q] /\ c \notin Arrived(Key(q))
    BY <1>2 DEF CountVote, Issues, Arrived
  <2>2. Key(q) \notin erased
    BY <2>1, <1>t DEF ErasedIsFull
  <2>3. \A d \in Clients : acked[d][q] = 0
    BY <2>2 DEF AckInv, AckedIsErased
  <2>4. /\ \E l \in {"erase", "idle"} : pc' = [pc EXCEPT ![c] = l]
        /\ req' = [req EXCEPT ![c] = q] /\ UNCHANGED <<idToClients, ackLeft, acked, erased>>
    BY <1>2 DEF CountVote, regVars
  <2>5. RegisteredAreMembers' /\ AckedIsErased'
    BY <2>4 DEF AckInv, RegisteredAreMembers, AckedIsErased
  <2>6. AckPending'
    BY <2>4, <1>t DEF AckInv, AckPending, TypeOK
  <2>7. NotYetAcked'
    BY <2>3, <2>4, <1>t DEF AckInv, NotYetAcked, TypeOK
  <2>8. QED
    BY <2>5, <2>6, <2>7 DEF AckInv
<1>3. QED
  BY <1>1, <1>2

\* The rail worker has answered: the registered clients are to be acknowledged.
LEMMA DoneAck ==
    ASSUME TypeOK, AckInv, NEW c \in Clients, ReconfigDone(c)
    PROVE  AckInv'
<1>1. /\ pc[c] = "await" /\ pc' = [pc EXCEPT ![c] = "ack"]
      /\ ackLeft' = [ackLeft EXCEPT ![c] = idToClients[req[c].hex]]
      /\ UNCHANGED <<idToClients, req, acked, erased>>
  BY DEF ReconfigDone, At, regVars, histVars
<1>2. req[c] \in Requests /\ req[c].hex \in Groups
  BY RequestType DEF TypeOK
<1>3. RegisteredAreMembers' /\ AckedIsErased'
  BY <1>1 DEF AckInv, RegisteredAreMembers, AckedIsErased
<1>4. AckPending'
  <2> SUFFICES ASSUME NEW e \in Clients, pc'[e] = "ack"
               PROVE  /\ ackLeft'[e] \subseteq Members[req[e].hex]
                      /\ \A d \in ackLeft'[e] : acked[d][req[e]] = 0
    BY <1>1 DEF AckPending
  <2>1. CASE e = c
    BY <2>1, <1>1, <1>2 DEF AckInv, RegisteredAreMembers, NotYetAcked, TypeOK
  <2>2. CASE e # c
    BY <2>2, <1>1 DEF AckInv, AckPending, TypeOK
  <2>3. QED
    BY <2>1, <2>2
<1>5. NotYetAcked'
  BY <1>1 DEF AckInv, NotYetAcked, TypeOK
<1>6. QED
  BY <1>3, <1>4, <1>5 DEF AckInv

\* One acknowledgement: the client had none for this request, and no other
\* thread handles the request.
LEMMA SendAckAck ==
    ASSUME BarrierInv, AckInv, NEW c \in Clients, NEW d \in Clients, SendAck(c, d)
    PROVE  AckInv'
<1>t. TypeOK /\ CompletedOnce
  BY DEF BarrierInv
<1>1. /\ pc[c] = "ack" /\ d \in ackLeft[c]
      /\ \E l \in {"idle", "ack"} : pc' = [pc EXCEPT ![c] = l]
      /\ ackLeft' = [ackLeft EXCEPT ![c] = ackLeft[c] \ {d}]
      /\ acked' = [acked EXCEPT ![d][req[c]] = acked[d][req[c]] + 1]
      /\ UNCHANGED <<idToClients, req, erased>>
  BY DEF SendAck, At, regVars
<1>2. \A e \in Clients \ {c} : pc[e] # "idle" => req[e] # req[c]
  BY <1>1, <1>t DEF CompletedOnce, Completing
<1>3. \A e \in Clients, q \in Requests : (e # d \/ q # req[c]) => acked'[e][q] = acked[e][q]
  BY <1>1, <1>t DEF TypeOK
<1>4. RegisteredAreMembers'
  BY <1>1 DEF AckInv, RegisteredAreMembers
<1>5. AckPending'
  <2> SUFFICES ASSUME NEW e \in Clients, pc'[e] = "ack"
               PROVE  /\ ackLeft'[e] \subseteq Members[req[e].hex]
                      /\ \A f \in ackLeft'[e] : acked'[f][req[e]] = 0
    BY <1>1 DEF AckPending
  <2>1. pc[e] = "ack" /\ req[e] \in Requests /\ ackLeft[e] \subseteq Clients
    BY <1>1, <1>t DEF TypeOK
  <2>2. ackLeft[e] \subseteq Members[req[e].hex] /\ \A f \in ackLeft[e] : acked[f][req[e]] = 0
    BY <2>1 DEF AckInv, AckPending
  <2>3. CASE e = c
    BY <2>1, <2>2, <2>3, <1>1, <1>3, <1>t DEF TypeOK
  <2>4. CASE e # c
    BY <2>1, <2>2, <2>4, <1>1, <1>2, <1>3, <1>t DEF TypeOK
  <2>5. QED
    BY <2>3, <2>4
<1>6. NotYetAcked'
  <2> SUFFICES ASSUME NEW e \in Clients, pc'[e] \notin {"idle", "ack"}, NEW f \in Clients
               PROVE  acked'[f][req[e]] = 0
    BY <1>1 DEF NotYetAcked
  <2>1. e # c /\ pc[e] \notin {"idle", "ack"} /\ req[e] \in Requests
    BY <1>1, <1>t DEF TypeOK
  <2>2. QED
    BY <2>1, <1>2, <1>3 DEF AckInv, NotYetAcked
<1>7. AckedIsErased'
  <2>1. Key(req[c]) \in erased
    BY <1>1, <1>t DEF CompletedOnce, Completing
  <2>2. QED
    BY <2>1, <1>1, <1>3 DEF AckInv, AckedIsErased
<1>8. QED
  BY <1>4, <1>5, <1>6, <1>7 DEF AckInv

\* Every step keeps the acknowledgements in order.
LEMMA NextAck ==
    ASSUME PairsFit, Participation, BarrierInv, AckInv, [Next]_vars
    PROVE  AckInv'
<1>t. TypeOK
  BY DEF BarrierInv
<1>f. ASSUME UNCHANGED <<idToClients, req, ackLeft, acked, erased, pc>> PROVE AckInv'
  BY <1>f DEF AckInv, RegisteredAreMembers, AckPending, NotYetAcked, AckedIsErased
<1>1. ASSUME NEW c \in Clients, Thread(c) PROVE AckInv'
  <2> USE <1>t DEF At, regVars, threadVars, histVars, Labels
  <2>1. CASE EraseReady(c)
    BY <2>1, FrameAck DEF EraseReady
  <2>2. CASE ReadTopo(c)
    BY <2>2, FrameAck DEF ReadTopo
  <2>3. CASE ReadTopoThrows(c)
    BY <2>3, <1>f DEF ReadTopoThrows
  <2>4. CASE WriteTopo(c)
    BY <2>4, FrameAck DEF WriteTopo
  <2>5. CASE Reconfig(c)
    BY <2>5, FrameAck DEF Reconfig
  <2>6. CASE ReconfigUnreachable(c)
    BY <2>6, FrameAck DEF ReconfigUnreachable
  <2>7. CASE ReconfigDone(c)
    BY <2>7, DoneAck
  <2>8. CASE ReconfigFailed(c)
    BY <2>8, FrameAck DEF ReconfigFailed
  <2>9. ASSUME NEW d \in Clients, SendAck(c, d) PROVE AckInv'
    BY <2>9, SendAckAck
  <2>10. QED
    BY <1>1, <2>1, <2>2, <2>3, <2>4, <2>5, <2>6, <2>7, <2>8, <2>9 DEF Thread
<1>2. UNCHANGED ctlVars => AckInv'
  BY <1>f DEF ctlVars
<1>3. QED
  BY <1>t, <1>1, <1>2, RegistersAck, VoteAck DEF Next, vars

---------------------------------------------------------------------------
(* The refinement                                                          *)

Opened == {q \in Requests : Key(q) \in erased}

\* The initial states are initial states of the barrier.
LEMMA InitRefines == ASSUME Init PROVE Promise!BarrierInit
BY DEF Init, Promise!BarrierInit

\* A step that changes none of sent, erased and acked is a stutter.
LEMMA StutterRefines ==
    ASSUME UNCHANGED <<sent, erased, acked>>
    PROVE  [Promise!BarrierNext]_(Promise!barrierVars)
BY DEF Promise!barrierVars

\* A request that reaches the controller is an Ask.
LEMMA VoteRefines ==
    ASSUME NEW c \in Clients, NEW q \in Requests, DropConfigReq(c, q) \/ CountVote(c, q)
    PROVE  Promise!BarrierNext
<1>1. /\ c \in Senders[q] /\ q \notin sent[c]
      /\ sent' = [sent EXCEPT ![c] = sent[c] \cup {q}] /\ UNCHANGED <<erased, acked>>
  BY DEF DropConfigReq, CountVote, Issues
<1>2. Promise!Ask(c, q)
  BY <1>1 DEF Promise!Ask
<1>3. QED
  BY <1>2 DEF Promise!BarrierNext

\* Erasing the count is the Release, and it happens once.
LEMMA EraseRefines ==
    ASSUME Participation, BarrierInv, NEW c \in Clients, EraseReady(c)
    PROVE  Promise!BarrierNext
<1>t. TypeOK /\ BarrierSafe /\ CompletedOnce
  BY DEF BarrierInv
<1>1. /\ pc[c] = "erase" /\ erased' = erased \cup {Key(req[c])} /\ UNCHANGED <<sent, acked>>
  BY DEF EraseReady, At
<1>2. req[c] \in Requests
  BY <1>t DEF TypeOK
<1>3. Key(req[c]) \notin erased
  BY <1>1, <1>t DEF CompletedOnce, Completing
<1>4. \A d \in Senders[req[c]] : req[c] \in sent[d]
  <2> SUFFICES ASSUME NEW d \in Senders[req[c]] PROVE req[c] \in sent[d]
    OBVIOUS
  <2>1. PICK p \in sent[d] : d \in Clients /\ Key(p) = Key(req[c])
    BY <1>1, <1>t DEF BarrierSafe, Completing, Arrived
  <2>2. QED
    BY <2>1, <1>2, <1>t DEF Participation, TypeOK
<1>5. \A p \in Requests : Key(p) = Key(req[c]) <=> p = req[c]
  BY <1>2 DEF Participation
<1>6. Opened' = Opened \cup {req[c]} /\ req[c] \notin Opened
  BY <1>1, <1>2, <1>3, <1>5 DEF Opened
<1>7. Promise!Release(req[c])
  BY <1>1, <1>4, <1>6 DEF Promise!Release, Opened
<1>8. QED
  BY <1>2, <1>7 DEF Promise!BarrierNext

\* A CONFIG_ACK line is a Deliver, to a member that had none.
LEMMA AckRefines ==
    ASSUME BarrierInv, AckInv, NEW c \in Clients, NEW d \in Clients, SendAck(c, d)
    PROVE  Promise!BarrierNext
<1>t. TypeOK /\ CompletedOnce
  BY DEF BarrierInv
<1>1. /\ pc[c] = "ack" /\ d \in ackLeft[c]
      /\ acked' = [acked EXCEPT ![d][req[c]] = acked[d][req[c]] + 1]
      /\ UNCHANGED <<sent, erased>>
  BY DEF SendAck, At
<1>2. req[c] \in Requests /\ Key(req[c]) \in erased
  BY <1>1, <1>t DEF TypeOK, CompletedOnce, Completing
<1>3. d \in Members[req[c].hex] /\ acked[d][req[c]] = 0
  BY <1>1 DEF AckInv, AckPending
<1>4. Promise!Deliver(d, req[c])
  BY <1>1, <1>2, <1>3 DEF Promise!Deliver
<1>5. QED
  BY <1>2, <1>4 DEF Promise!BarrierNext

\* Every step of the controller is a step of the barrier or changes nothing of it.
LEMMA NextRefines ==
    ASSUME Participation, BarrierInv, AckInv, [Next]_vars
    PROVE  [Promise!BarrierNext]_(Promise!barrierVars)
<1>1. ASSUME NEW c \in Clients, NEW h \in Groups, Registers(c, h)
      PROVE  UNCHANGED <<sent, erased, acked>>
  BY <1>1 DEF Registers, HandleComm, HandleCommLast, HandleCommThrows, histVars
<1>2. ASSUME NEW c \in Clients, Thread(c)
      PROVE  \/ EraseReady(c) \/ (\E d \in Clients : SendAck(c, d))
             \/ UNCHANGED <<sent, erased, acked>>
  BY <1>2 DEF Thread, ReadTopo, ReadTopoThrows, WriteTopo, Reconfig, ReconfigUnreachable,
              ReconfigDone, ReconfigFailed, histVars
<1>3. UNCHANGED ctlVars => UNCHANGED <<sent, erased, acked>>
  BY DEF ctlVars
<1>4. QED
  BY <1>1, <1>2, <1>3, StutterRefines, VoteRefines, EraseRefines, AckRefines DEF Next, vars

\* The controller keeps the promise of CollectiveBarrier: a collective is
\* released once, after all its participants asked, and each member of its
\* communicator is acknowledged at most once, whatever the interleaving of the
\* threads and whichever rail workers fail or die.
THEOREM Refinement ==
    ASSUME PairsFit, Participation PROVE Spec => ImplementsBarrier
<1>1. Init => BarrierInv /\ AckInv /\ Promise!BarrierInit
  BY InitBarrier, InitAck, InitRefines
<1>2. PairsFit /\ Participation /\ BarrierInv /\ AckInv /\ [Next]_vars
      => BarrierInv' /\ AckInv' /\ [Promise!BarrierNext]_(Promise!barrierVars)
  BY NextBarrier, NextAck, NextRefines
<1>3. QED
  BY <1>1, <1>2, PairsFit, Participation, PTL DEF Spec, ImplementsBarrier, Promise!BarrierSpec
===============================================================================
