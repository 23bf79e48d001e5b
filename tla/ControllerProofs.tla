--------------------------- MODULE ControllerProofs ---------------------------
(***************************************************************************)
(* Proofs about Controller, for any number of ranks, communicators, rails  *)
(* and requests.                                                           *)
(***************************************************************************)
EXTENDS Controller, RailWorkerProofs, FiniteSetTheorems, TLAPS

\* The bits that pipeline requests set are bits of a topology id.
PairsFit == \A q \in Requests : IsPP(q) => {PPGroup(q) - 1, PPGroup(q)} \subseteq Bits

---------------------------------------------------------------------------
(* Type correctness                                                        *)

\* A request's key is a key of readyCount, and its group is a group.
LEMMA RequestType ==
    ASSUME NEW q \in Requests
    PROVE  /\ q.hex \in Groups /\ q.backend \in Nat /\ q.counter \in Nat
           /\ Key(q) \in Keys
BY RequestsAssumption DEF Key, Keys, Counters

\* What determine_runtime_topo computes is again a topology id.
LEMMA RuntimeTopoType ==
    ASSUME PairsFit, NEW t \in Topos, NEW q \in Requests
    PROVE  RuntimeTopo(t, q) \in Topos
<1>1. CASE IsPP(q)
  BY <1>1 DEF PairsFit, RuntimeTopo, set_PP_topo, Topos
<1>2. CASE ~IsPP(q)
  BY <1>2 DEF RuntimeTopo, set_non_PP_topo, Topos
<1>3. QED
  BY <1>1, <1>2

\* The state in which run() starts is well formed.
LEMMA InitType == Init => TypeOK
<1> SUFFICES ASSUME Init PROVE TypeOK
  OBVIOUS
<1>1. (CHOOSE q \in Requests : TRUE) \in Requests
  BY RequestsAssumption
<1>2. RailTypeOK
  BY NoConnType, SiteAssumption DEF Init, RailTypeOK
<1>3. QED
  BY <1>1, <1>2, SiteAssumption DEF Init, TypeOK, NoDomain, Labels, Topos

\* Registration keeps the state well formed.
LEMMA RegistersType ==
    ASSUME TypeOK, NEW c \in Clients, NEW h \in Groups, Registers(c, h)
    PROVE  TypeOK'
<1> USE DEF TypeOK, threadVars, histVars, railVars
<1>1. CASE HandleComm(c, h)
  BY <1>1 DEF HandleComm, RailTypeOK
<1>2. CASE HandleCommLast(c, h)
  <2>1. idToTopoId' \in [Groups -> [topo : {0, 1, 2}, rail : Rails]]
    BY <1>2 DEF HandleCommLast
  <2>2. domain' \in [Groups -> {NoDomain, -1, 0, 1}]
    BY <1>2, SiteAssumption DEF HandleCommLast, DetectedDomain
  <2>3. QED
    BY <1>2, <2>1, <2>2 DEF HandleCommLast, RailTypeOK
<1>3. CASE HandleCommThrows(c, h)
  BY <1>3 DEF HandleCommThrows, RailTypeOK
<1>4. QED
  BY <1>1, <1>2, <1>3 DEF Registers

\* Counting, or dropping, a vote keeps the state well formed.
LEMMA VoteType ==
    ASSUME TypeOK, NEW c \in Clients, NEW q \in Requests, DropConfigReq(c, q) \/ CountVote(c, q)
    PROVE  TypeOK'
<1> USE RequestType DEF TypeOK, regVars, threadVars, railVars, RailTypeOK
<1>1. CASE DropConfigReq(c, q)
  BY <1>1 DEF DropConfigReq
<1>2. CASE CountVote(c, q)
  BY <1>2 DEF CountVote, Labels
<1>3. QED
  BY <1>1, <1>2

\* Every step of a thread that has completed a barrier does, too.
LEMMA ThreadType ==
    ASSUME PairsFit, TypeOK, NEW c \in Clients, Thread(c)
    PROVE  TypeOK'
<1> USE DEF TypeOK, regVars, threadVars, histVars, Labels
<1>r. req[c] \in Requests /\ req[c].hex \in Groups /\ idToTopoId[req[c].hex].rail \in Rails
  BY RequestType
<1>1. CASE EraseReady(c)
  BY <1>1, <1>r, RequestType DEF EraseReady, railVars, RailTypeOK
<1>2. CASE ReadTopo(c)
  <2>1. RuntimeTopo(topoIds[idToTopoId[req[c].hex].rail], req[c]) \in Topos
    BY <1>r, RuntimeTopoType
  <2>2. QED
    BY <1>2, <1>r, <2>1 DEF ReadTopo, railVars, RailTypeOK
<1>3. CASE ReadTopoThrows(c)
  BY <1>3 DEF ReadTopoThrows, railVars, RailTypeOK
<1>4. CASE WriteTopo(c)
  BY <1>4 DEF WriteTopo, railVars, RailTypeOK
<1>5. CASE Reconfig(c)
  <2>1. RailTypeOK'
    BY <1>5, <1>r, ConnectType DEF Reconfig, Clients
  <2>2. QED
    BY <1>5, <1>r, <2>1 DEF Reconfig
<1>6. CASE ReconfigUnreachable(c)
  BY <1>6 DEF ReconfigUnreachable, railVars, RailTypeOK
<1>7. CASE ReconfigDone(c)
  <2>1. RailTypeOK'
    BY <1>7, ReceiveType DEF ReconfigDone, Clients
  <2>2. QED
    BY <1>7, <1>r, <2>1 DEF ReconfigDone
<1>8. CASE ReconfigFailed(c)
  <2>1. RailTypeOK'
    BY <1>8, ReceiveType DEF ReconfigFailed, Clients
  <2>2. QED
    BY <1>8, <2>1 DEF ReconfigFailed
<1>9. ASSUME NEW d \in Clients, SendAck(c, d) PROVE TypeOK'
  BY <1>9 DEF SendAck, railVars, RailTypeOK
<1>10. QED
  BY <1>1, <1>2, <1>3, <1>4, <1>5, <1>6, <1>7, <1>8, <1>9 DEF Thread

\* Every step of the controller and of its rail workers keeps the state well
\* formed.
LEMMA NextType == ASSUME PairsFit, TypeOK, [Next]_vars PROVE TypeOK'
<1>1. ASSUME NEW c \in Clients, Handler(c) /\ UNCHANGED ctlVars PROVE TypeOK'
  <2>1. RailTypeOK'
    BY <1>1, HandlerType DEF TypeOK, Clients
  <2>2. QED
    BY <1>1, <2>1 DEF TypeOK, ctlVars
<1>2. ASSUME NEW r \in MayExit, Exit(r) /\ UNCHANGED ctlVars PROVE TypeOK'
  <2>1. RailTypeOK'
    BY <1>2, ExitType, SiteAssumption DEF TypeOK
  <2>2. QED
    BY <1>2, <2>1 DEF TypeOK, ctlVars
<1>3. CASE UNCHANGED vars
  BY <1>3 DEF vars, ctlVars, railVars, TypeOK, RailTypeOK
<1>4. QED
  BY <1>1, <1>2, <1>3, RegistersType, VoteType, ThreadType DEF Next

\* The controller's maps, its threads and its rail workers stay well formed.
THEOREM TypeCorrect == ASSUME PairsFit PROVE Spec => []TypeOK
<1>1. PairsFit /\ TypeOK /\ [Next]_vars => TypeOK'
  BY NextType
<1>2. QED
  BY <1>1, InitType, PairsFit, PTL DEF Spec

---------------------------------------------------------------------------
(* The barrier                                                             *)

\* Who asks: every rank of the communicator, or the two ranks of a pipeline
\* pair; and one counter of a communicator stands for one request.
Participation ==
    /\ \A q \in Requests :
          /\ Senders[q] \subseteq Members[q.hex]
          /\ Cardinality(Senders[q]) = IF IsPP(q) THEN 2 ELSE CommSize(q.hex)
    /\ \A p, q \in Requests : Key(p) = Key(q) => p = q

\* Clients only issue requests they are senders of.
OwnRequests == \A c \in Clients : \A q \in sent[c] : c \in Senders[q]

\* The count of a barrier is the number of votes received, until it is erased.
CountIsExact ==
    \A k \in Keys : readyCount[k] = IF k \in erased THEN 0 ELSE Cardinality(Arrived(k))

\* Only a barrier whose votes are all in is erased.
ErasedIsFull ==
    \A q \in Requests : Key(q) \in erased => Senders[q] \subseteq Arrived(Key(q))

BarrierInv == TypeOK /\ OwnRequests /\ CountIsExact /\ ErasedIsFull /\ BarrierSafe /\ CompletedOnce

\* The voters of a request are among its senders, and finitely many.
LEMMA ArrivedAreSenders ==
    ASSUME Participation, TypeOK, OwnRequests, NEW q \in Requests
    PROVE  /\ Arrived(Key(q)) \subseteq Senders[q]
           /\ IsFiniteSet(Senders[q]) /\ IsFiniteSet(Arrived(Key(q)))
           /\ IsFiniteSet(Members[q.hex])
<1>1. Arrived(Key(q)) \subseteq Senders[q]
  BY DEF Arrived, OwnRequests, Participation, TypeOK
<1>2. Senders[q] \subseteq Clients /\ Members[q.hex] \subseteq Clients
  BY RequestsAssumption, GroupsAssumption, RequestType
<1>3. IsFiniteSet(Senders[q]) /\ IsFiniteSet(Members[q.hex])
  BY <1>2, ClientsAssumption, FS_Subset
<1>4. QED
  BY <1>1, <1>3, FS_Subset

\* No vote is in before the first request.
LEMMA InitBarrier == ASSUME Init PROVE BarrierInv
<1>1. TypeOK
  BY InitType
<1>2. OwnRequests
  BY DEF Init, OwnRequests
<1>3. CountIsExact
  <2>1. \A k \in Keys : Arrived(k) = {}
    BY DEF Init, Arrived
  <2>2. QED
    BY <2>1, FS_EmptySet DEF Init, CountIsExact
<1>4. ErasedIsFull /\ BarrierSafe /\ CompletedOnce
  BY DEF Init, ErasedIsFull, BarrierSafe, CompletedOnce, Completing
<1>5. QED
  BY <1>1, <1>2, <1>3, <1>4 DEF BarrierInv

\* A vote: the one step that adds to a count, and may complete the barrier.
LEMMA VoteBarrier ==
    ASSUME Participation, BarrierInv, NEW c \in Clients, NEW q \in Requests,
           DropConfigReq(c, q) \/ CountVote(c, q)
    PROVE  BarrierInv'
<1> DEFINE k == Key(q)
<1> USE DEF BarrierInv
<1>t. TypeOK'
  BY VoteType
<1>q. Issues(c, q)
  BY DEF DropConfigReq, CountVote
<1>m. c \in Senders[q] /\ c \in Members[q.hex] /\ c \in idToClients[q.hex]
  BY <1>q DEF Issues, Participation
<1>v. CountVote(c, q)
  BY <1>m DEF DropConfigReq
<1>k. k \in Keys
  BY RequestType
<1>n. c \notin Arrived(k)
  BY <1>q DEF Issues, Arrived
<1>a. Arrived(k)' = Arrived(k) \cup {c} /\ \A j \in Keys \ {k} : Arrived(j)' = Arrived(j)
  BY <1>v DEF CountVote, Arrived, TypeOK
<1>e. k \notin erased
  BY <1>m, <1>n DEF ErasedIsFull
<1>b. \A d \in Clients : Completing(d) => Key(req[d]) # k
  <2> SUFFICES ASSUME NEW d \in Clients, Completing(d), Key(req[d]) = k PROVE FALSE
    OBVIOUS
  <2>1. req[d] = q
    BY DEF Participation, TypeOK
  <2>2. QED
    BY <2>1, <1>m, <1>n DEF BarrierSafe
<1>f. IsFiniteSet(Arrived(k))
  BY ArrivedAreSenders
<1>c. readyCount[k] + 1 = Cardinality(Arrived(k)')
  BY <1>a, <1>e, <1>f, <1>k, <1>n, FS_AddElement DEF CountIsExact
<1>1. OwnRequests'
  BY <1>v, <1>m DEF CountVote, OwnRequests, TypeOK
<1>2. CountIsExact'
  <2>1. readyCount' = [readyCount EXCEPT ![k] = readyCount[k] + 1] /\ erased' = erased
    BY <1>v DEF CountVote
  <2>2. QED
    BY <2>1, <1>a, <1>c, <1>e, <1>k DEF CountIsExact, TypeOK
<1>3. ErasedIsFull'
  <2> SUFFICES ASSUME NEW p \in Requests, Key(p) \in erased
               PROVE  Senders[p] \subseteq Arrived(Key(p))'
    BY <1>v DEF CountVote, ErasedIsFull
  <2>1. Arrived(Key(p)) \subseteq Arrived(Key(p))'
    BY <1>a, RequestType
  <2>2. QED
    BY <2>1 DEF ErasedIsFull
<1>p. pc' = [pc EXCEPT ![c] = IF all_arrive(q, readyCount[k] + 1, CommSize(q.hex))
                              THEN "erase" ELSE "idle"]
      /\ req' = [req EXCEPT ![c] = q] /\ erased' = erased
  BY <1>v DEF CountVote
<1>4. BarrierSafe'
  <2>1. ASSUME all_arrive(q, readyCount[k] + 1, CommSize(q.hex))
        PROVE  Senders[q] \subseteq Arrived(k)'
    <3>1. Cardinality(Senders[q]) <= Cardinality(Arrived(k)')
      <4>1. CommSize(q.hex) \in Nat
        BY ArrivedAreSenders, FS_CardinalityType DEF CommSize
      <4>2. Cardinality(Arrived(k)') \in Nat
        BY <1>c, <1>k DEF TypeOK
      <4>3. QED
        BY <2>1, <1>c, <4>1, <4>2 DEF all_arrive, Participation
    <3>2. Arrived(k)' \subseteq Senders[q] /\ IsFiniteSet(Senders[q])
      BY <1>a, <1>m, ArrivedAreSenders
    <3>3. QED
      BY <3>1, <3>2, FS_Subset, FS_CardinalityType
  <2>2. ASSUME NEW d \in Clients, Completing(d)' PROVE (Senders[req[d]] \subseteq Arrived(Key(req[d])))'
    <3>1. CASE d = c
      BY <3>1, <2>1, <2>2, <1>p DEF Completing, TypeOK
    <3>2. CASE d # c
      <4>1. Completing(d) /\ req'[d] = req[d] /\ req[d] \in Requests
        BY <3>2, <2>2, <1>p DEF Completing, TypeOK
      <4>2. Arrived(Key(req[d])) \subseteq Arrived(Key(req[d]))'
        BY <4>1, <1>p, <1>a, RequestType, <3>2
      <4>3. QED
        BY <4>1, <4>2 DEF BarrierSafe
    <3>3. QED
      BY <3>1, <3>2
  <2>3. QED
    BY <2>2 DEF BarrierSafe
<1>5. CompletedOnce'
  BY <1>p, <1>b, <1>e DEF CompletedOnce, Completing, TypeOK
<1>6. QED
  BY <1>t, <1>1, <1>2, <1>3, <1>4, <1>5

\* Erasing the count of a completed barrier.
LEMMA EraseBarrier ==
    ASSUME Participation, BarrierInv, TypeOK', NEW c \in Clients, EraseReady(c)
    PROVE  BarrierInv'
<1> DEFINE k == Key(req[c])
<1> USE DEF BarrierInv
<1>k. k \in Keys /\ req[c] \in Requests
  BY RequestType DEF TypeOK
<1>p. /\ pc[c] = "erase" /\ pc' = [pc EXCEPT ![c] = "read"]
      /\ readyCount' = [readyCount EXCEPT ![k] = 0] /\ erased' = erased \cup {k}
      /\ req' = req /\ sent' = sent
  BY DEF EraseReady, At
<1>a. \A j : Arrived(j)' = Arrived(j)
  BY <1>p DEF Arrived
<1>1. OwnRequests'
  BY <1>p DEF OwnRequests
<1>2. CountIsExact'
  BY <1>p, <1>a, <1>k DEF CountIsExact, TypeOK
<1>3. ErasedIsFull'
  <2> SUFFICES ASSUME NEW q \in Requests, Key(q) \in erased \cup {k}
               PROVE  Senders[q] \subseteq Arrived(Key(q))
    BY <1>p, <1>a DEF ErasedIsFull
  <2>1. CASE Key(q) = k
    <3>1. q = req[c]
      BY <2>1, <1>k DEF Participation
    <3>2. QED
      BY <3>1, <1>p DEF BarrierSafe, Completing
  <2>2. QED
    BY <2>1 DEF ErasedIsFull
<1>4. BarrierSafe'
  BY <1>p, <1>a DEF BarrierSafe, Completing, TypeOK
<1>5. CompletedOnce'
  BY <1>p DEF CompletedOnce, Completing, TypeOK
<1>6. QED
  BY <1>1, <1>2, <1>3, <1>4, <1>5

\* Every other step leaves the barriers alone: a thread past its barrier goes
\* on or returns, and it never goes back to the erase.
LEMMA FrameBarrier ==
    ASSUME BarrierInv, TypeOK', NEW c \in Clients,
           UNCHANGED <<readyCount, erased, req, sent>>,
           \/ pc' = pc
           \/ /\ pc[c] \notin {"idle", "erase"}
              /\ \E l \in Labels \ {"erase"} : pc' = [pc EXCEPT ![c] = l]
    PROVE  BarrierInv'
<1> USE DEF BarrierInv
<1>a. \A j : Arrived(j)' = Arrived(j)
  BY DEF Arrived
<1>p. \A d \in Clients : /\ Completing(d)' => Completing(d)
                         /\ Completing(d)' => (pc'[d] = "erase" <=> pc[d] = "erase")
  BY DEF Completing, TypeOK
<1>1. OwnRequests'
  BY DEF OwnRequests
<1>2. CountIsExact'
  BY <1>a DEF CountIsExact
<1>3. ErasedIsFull'
  BY <1>a DEF ErasedIsFull
<1>4. BarrierSafe'
  BY <1>a, <1>p DEF BarrierSafe
<1>5. CompletedOnce'
  BY <1>p DEF CompletedOnce
<1>6. QED
  BY <1>1, <1>2, <1>3, <1>4, <1>5

\* The steps of a client's thread.
LEMMA ThreadBarrier ==
    ASSUME Participation, BarrierInv, TypeOK', NEW c \in Clients, Thread(c)
    PROVE  BarrierInv'
<1>1. CASE EraseReady(c)
  BY <1>1, EraseBarrier
<1>2. CASE ReadTopo(c)
  <2>1. pc[c] = "read" /\ pc' = [pc EXCEPT ![c] = "write"] /\ UNCHANGED <<readyCount, erased, req, sent>>
    BY <1>2 DEF ReadTopo, At, histVars
  <2>2. QED
    BY <2>1, FrameBarrier DEF Labels
<1>3. CASE ReadTopoThrows(c)
  <2>1. UNCHANGED <<pc, readyCount, erased, req, sent>>
    BY <1>3 DEF ReadTopoThrows, threadVars, histVars
  <2>2. QED
    BY <2>1, FrameBarrier
<1>4. CASE WriteTopo(c)
  <2>1. pc[c] = "write" /\ pc' = [pc EXCEPT ![c] = "connect"] /\ UNCHANGED <<readyCount, erased, req, sent>>
    BY <1>4 DEF WriteTopo, At, histVars
  <2>2. QED
    BY <2>1, FrameBarrier DEF Labels
<1>5. CASE Reconfig(c)
  <2>1. pc[c] = "connect" /\ pc' = [pc EXCEPT ![c] = "await"] /\ UNCHANGED <<readyCount, erased, req, sent>>
    BY <1>5 DEF Reconfig, At, histVars
  <2>2. QED
    BY <2>1, FrameBarrier DEF Labels
<1>6. CASE ReconfigUnreachable(c)
  <2>1. pc[c] = "connect" /\ pc' = [pc EXCEPT ![c] = "idle"] /\ UNCHANGED <<readyCount, erased, req, sent>>
    BY <1>6 DEF ReconfigUnreachable, At, histVars
  <2>2. QED
    BY <2>1, FrameBarrier DEF Labels
<1>7. CASE ReconfigDone(c)
  <2>1. pc[c] = "await" /\ pc' = [pc EXCEPT ![c] = "ack"] /\ UNCHANGED <<readyCount, erased, req, sent>>
    BY <1>7 DEF ReconfigDone, At, histVars
  <2>2. QED
    BY <2>1, FrameBarrier DEF Labels
<1>8. CASE ReconfigFailed(c)
  <2>1. pc[c] = "await" /\ pc' = [pc EXCEPT ![c] = "idle"] /\ UNCHANGED <<readyCount, erased, req, sent>>
    BY <1>8 DEF ReconfigFailed, At, histVars
  <2>2. QED
    BY <2>1, FrameBarrier DEF Labels
<1>9. ASSUME NEW d \in Clients, SendAck(c, d) PROVE BarrierInv'
  <2>1. /\ pc[c] = "ack" /\ UNCHANGED <<readyCount, erased, req, sent>>
        /\ pc' = [pc EXCEPT ![c] = IF ackLeft[c] = {d} THEN "idle" ELSE "ack"]
    BY <1>9 DEF SendAck, At
  <2>2. \E l \in Labels \ {"erase"} : pc' = [pc EXCEPT ![c] = l]
    BY <2>1 DEF Labels
  <2>3. QED
    BY <2>1, <2>2, FrameBarrier
<1>10. QED
  BY <1>1, <1>2, <1>3, <1>4, <1>5, <1>6, <1>7, <1>8, <1>9 DEF Thread

\* Every step of the controller and of its rail workers keeps the barrier exact.
LEMMA NextBarrier == ASSUME PairsFit, Participation, BarrierInv, [Next]_vars PROVE BarrierInv'
<1>t. TypeOK'
  BY NextType DEF BarrierInv
<1>f. ASSUME UNCHANGED <<pc, readyCount, erased, req, sent>> PROVE BarrierInv'
  <2>1. Clients = {} => BarrierInv'
    <3>1. Clients = {} => \A j : Arrived(j)' = Arrived(j)
      BY DEF Arrived
    <3>2. QED
      BY <3>1, <1>t, <1>f DEF BarrierInv, OwnRequests, CountIsExact, ErasedIsFull, BarrierSafe, CompletedOnce
  <2>2. QED
    BY <2>1, <1>t, <1>f, FrameBarrier
<1>1. ASSUME NEW c \in Clients, NEW h \in Groups, Registers(c, h) PROVE BarrierInv'
  BY <1>1, <1>f DEF Registers, HandleComm, HandleCommLast, HandleCommThrows, threadVars, histVars
<1>2. ASSUME NEW c \in Clients, NEW q \in Requests, DropConfigReq(c, q) \/ CountVote(c, q)
      PROVE  BarrierInv'
  BY <1>2, VoteBarrier
<1>3. ASSUME NEW c \in Clients, Thread(c) PROVE BarrierInv'
  BY <1>3, <1>t, ThreadBarrier
<1>4. UNCHANGED ctlVars => BarrierInv'
  BY <1>f DEF ctlVars
<1>5. QED
  BY <1>1, <1>2, <1>3, <1>4 DEF Next, vars

\* The barrier of a collective: for any number of ranks, communicators, requests
\* and rails no thread passes it before every participant has asked, and one
\* thread passes it, once.  The hypotheses are about what the ranks send:
\* pipeline pairs the rails have bits for, the whole communicator (or the two ends of
\* a pair) takes part, and a counter is not used for two requests of a communicator.
THEOREM Barrier ==
    ASSUME PairsFit, Participation PROVE Spec => [](BarrierSafe /\ CompletedOnce)
<1>1. PairsFit /\ Participation /\ BarrierInv /\ [Next]_vars => BarrierInv'
  BY NextBarrier
<1>2. BarrierInv => BarrierSafe /\ CompletedOnce
  BY DEF BarrierInv
<1>3. QED
  BY <1>1, <1>2, InitBarrier, PairsFit, Participation, PTL DEF Spec

---------------------------------------------------------------------------
(* The rail of a communicator                                              *)

\* Every rank is on a host of server_ips, and a pipeline pair is a communicator of its
\* own, so that every request waits for all ranks of its communicator.
Located ==
    /\ \A c \in Clients : ServerIdx[c] # -1
    /\ \A q \in Requests : IsPP(q) => CommSize(q.hex) = 2

\* Who votes has registered, and whose thread is past a barrier has voted.
VotersRegistered ==
    /\ \A h \in Groups : idToClients[h] \subseteq Members[h]
    /\ \A c \in Clients : \A q \in sent[c] : c \in idToClients[q.hex]
    /\ \A c \in Clients : Completing(c) => req[c] \in sent[c]

\* A communicator that has registered has a rail.
GroupsAssigned ==
    \A h \in Groups :
        (idToClients[h] = Members[h] /\ Members[h] # {} /\ ~crashed) => idToTopoId[h].topo # 0

\* A thread past the barrier works for a communicator that has registered.
ThreadsAssigned ==
    \A c \in Clients : Completing(c) =>
        /\ idToClients[req[c].hex] = Members[req[c].hex]
        /\ idToTopoId[req[c].hex].topo # 0

AssignInv == VotersRegistered /\ GroupsAssigned /\ ThreadsAssigned /\ RailIsAssigned

---------------------------------------------------------------------------
(* What is installed when the ranks are told                               *)

Reconfiguring(c) == pc[c] \notin {"idle", "erase"}
RailOf(c) == idToTopoId[req[c].hex].rail

\* No two barriers of a rail are past their votes at the same time.
SerialRails ==
    \A c, d \in Clients :
        (Reconfiguring(c) /\ Reconfiguring(d) /\ RailOf(c) = RailOf(d)) => c = d

\* A thread has a connection while it awaits the answer, to the rail it reconfigures.
AwaitsAnswer ==
    \A c \in Clients :
        /\ pc[c] = "await" => /\ conn[c].state # "closed"
                              /\ conn[c].rail = rail[c] /\ conn[c].config_id = topo[c]
        /\ pc[c] # "await" => conn[c].state = "closed"
        /\ conn[c].state \in {"sent", "apply", "commit"} => alive[conn[c].rail]

\* The topology that a thread wants, until the ranks are told.
WantsProvided ==
    \A c \in Clients :
        /\ pc[c] \in {"write", "connect", "await", "ack"} => Provides(topo[c], req[c])
        /\ pc[c] = "connect" => topoIds[rail[c]] = topo[c]

\* The bits of a topology id that are still to be written.
Differs(t, u) == (t \ u) \cup (u \ t)

\* A worker knows what is installed while nobody reconfigures its rail.
BeliefIsTrue ==
    \A r \in Rails :
        (alive[r] /\ \A c \in Clients : conn[c].state \in {"apply", "commit"} => conn[c].rail # r)
            => past_topo[r] = topology_states[r]

\* How far the reconfiguration of thread c is, and that its answer says so.
Progress(c) ==
    LET r == conn[c].rail IN
    /\ conn[c].state = "apply" /\ r \in Emulation =>
          Differs(topology_states[r], conn[c].config_id) \subseteq conn[c].futures
    /\ conn[c].state = "apply" /\ r \notin Emulation => past_topo[r] = topology_states[r]
    /\ conn[c].state \in {"commit", "ACK", "NACK"} => topology_states[r] = conn[c].config_id
    /\ pc[c] = "ack" => topology_states[rail[c]] = topo[c]

Installing == \A c \in Clients : Progress(c)

InstallInv == AwaitsAnswer /\ WantsProvided /\ BeliefIsTrue /\ Installing

---------------------------------------------------------------------------
(* The rail of a communicator: proof                                       *)

\* Every rank of the communicator takes part in a request.
LEMMA WholeGroup ==
    ASSUME Participation, Located, NEW q \in Requests
    PROVE  Senders[q] = Members[q.hex]
<1>1. Members[q.hex] \subseteq Clients
  BY GroupsAssumption, RequestType
<1>2. IsFiniteSet(Members[q.hex])
  BY <1>1, ClientsAssumption, FS_Subset
<1>3. Senders[q] \subseteq Members[q.hex] /\ Cardinality(Senders[q]) = Cardinality(Members[q.hex])
  BY DEF Participation, Located, CommSize
<1>4. QED
  BY <1>2, <1>3, FS_Subset, FS_CardinalityType

\* A registration: a thread past a barrier works for a group that has registered.
LEMMA AssignRegisters ==
    ASSUME Located, TypeOK, AssignInv, NEW c \in Clients, NEW h \in Groups, Registers(c, h)
    PROVE  AssignInv'
<1> DEFINE cl == idToClients[h] \cup {c}
<1>1. /\ idToClients' = [idToClients EXCEPT ![h] = cl]
      /\ UNCHANGED <<pc, req, rail, sent>> /\ c \in Members[h] \ idToClients[h] /\ ~crashed
  BY DEF Registers, HandleComm, HandleCommLast, HandleCommThrows, Idle, threadVars, histVars
<1>2. /\ cl \subseteq Members[h] /\ Members[h] \subseteq Clients
      /\ \A g \in Groups : idToClients'[g] = IF g = h THEN cl ELSE idToClients[g]
  BY <1>1, GroupsAssumption DEF AssignInv, VotersRegistered, TypeOK
<1>3. AllKnown(cl)
  BY <1>2 DEF AllKnown, Nodes, Located
<1>4. \/ Cardinality(cl) # CommSize(h) /\ idToTopoId' = idToTopoId
      \/ crashed' /\ idToTopoId' = idToTopoId
      \/ /\ idToTopoId'[h].topo # 0
         /\ \A g \in Groups \ {h} : idToTopoId'[g] = idToTopoId[g]
  <2>1. CASE HandleComm(c, h)
    BY <2>1 DEF HandleComm
  <2>2. CASE HandleCommLast(c, h)
    BY <1>3, <2>2 DEF HandleCommLast, TypeOK
  <2>3. CASE HandleCommThrows(c, h)
    BY <2>3 DEF HandleCommThrows
  <2>4. QED
    BY <2>1, <2>2, <2>3 DEF Registers
<1>5. \A d \in Clients : req[d].hex \in Groups /\ sent[d] \subseteq Requests
  BY RequestType DEF TypeOK
<1>6. \A d \in Clients : Completing(d) => req[d].hex # h
  BY <1>1 DEF AssignInv, ThreadsAssigned
<1>7. VotersRegistered'
  <2>1. \A g \in Groups : idToClients'[g] \subseteq Members[g] /\ idToClients[g] \subseteq idToClients'[g]
    BY <1>2 DEF AssignInv, VotersRegistered
  <2>2. QED
    BY <1>1, <1>5, <2>1, RequestType DEF AssignInv, VotersRegistered, Completing
<1>8. GroupsAssigned'
  <2> SUFFICES ASSUME NEW g \in Groups, idToClients'[g] = Members[g], Members[g] # {}, ~crashed'
               PROVE  idToTopoId'[g].topo # 0
    BY DEF GroupsAssigned
  <2>1. CASE g = h
    BY <1>2, <1>4, <2>1 DEF CommSize
  <2>2. CASE g # h
    BY <1>1, <1>2, <1>4, <2>2 DEF AssignInv, GroupsAssigned
  <2>3. QED
    BY <2>1, <2>2
<1>9. \A d \in Clients : Completing(d) => /\ idToClients'[req[d].hex] = idToClients[req[d].hex]
                                          /\ idToTopoId'[req[d].hex] = idToTopoId[req[d].hex]
  BY <1>2, <1>4, <1>5, <1>6
<1>10. ThreadsAssigned'
  BY <1>1, <1>9 DEF AssignInv, ThreadsAssigned, Completing
<1>11. RailIsAssigned'
  BY <1>1, <1>9 DEF AssignInv, RailIsAssigned, Completing
<1>12. QED
  BY <1>7, <1>8, <1>10, <1>11 DEF AssignInv

\* A vote: the one that completes the barrier finds everybody registered.
LEMMA AssignVote ==
    ASSUME Participation, Located, BarrierInv, BarrierInv', AssignInv,
           NEW c \in Clients, NEW q \in Requests, DropConfigReq(c, q) \/ CountVote(c, q)
    PROVE  AssignInv'
<1>1. c \in Members[q.hex] /\ c \in idToClients[q.hex] /\ ~crashed
  BY DEF DropConfigReq, CountVote, Issues, Idle, Participation
<1>2. CountVote(c, q)
  BY <1>1 DEF DropConfigReq
<1>3. /\ UNCHANGED <<idToClients, idToTopoId, rail, crashed>>
      /\ sent' = [sent EXCEPT ![c] = @ \cup {q}] /\ req' = [req EXCEPT ![c] = q]
      /\ \A d \in Clients \ {c} : pc'[d] = pc[d]
      /\ pc'[c] \in {"idle", "erase"}
  BY <1>2 DEF CountVote, regVars, BarrierInv, TypeOK
<1>4. \A d \in Clients : /\ req'[d] = IF d = c THEN q ELSE req[d]
                         /\ sent'[d] = IF d = c THEN sent[c] \cup {q} ELSE sent[d]
  BY <1>3 DEF BarrierInv, TypeOK
<1>5. VotersRegistered'
  BY <1>1, <1>3, <1>4 DEF AssignInv, VotersRegistered, Completing
<1>6. GroupsAssigned'
  BY <1>3 DEF AssignInv, GroupsAssigned
<1>7. ASSUME Completing(c)' PROVE idToClients[q.hex] = Members[q.hex]
  <2>1. Senders[q] \subseteq Arrived(Key(q))'
    BY <1>4, <1>7 DEF BarrierInv, BarrierSafe
  <2>2. ASSUME NEW m \in Members[q.hex] PROVE m \in idToClients[q.hex]
    <3>1. m \in Arrived(Key(q))'
      BY <2>1, WholeGroup
    <3>2. PICK p \in sent'[m] : m \in Clients /\ Key(p) = Key(q)
      BY <3>1 DEF Arrived
    <3>3. p.hex = q.hex
      BY <3>2 DEF Key
    <3>4. QED
      BY <1>3, <1>5, <3>2, <3>3 DEF VotersRegistered
  <2>3. QED
    BY <2>2, RequestType DEF AssignInv, VotersRegistered
<1>8. ThreadsAssigned'
  <2> SUFFICES ASSUME NEW d \in Clients, Completing(d)'
               PROVE  /\ idToClients[req'[d].hex] = Members[req'[d].hex]
                      /\ idToTopoId[req'[d].hex].topo # 0
    BY <1>3 DEF ThreadsAssigned
  <2>1. CASE d = c
    BY <1>1, <1>4, <1>7, <2>1, RequestType DEF AssignInv, GroupsAssigned
  <2>2. CASE d # c
    BY <1>3, <1>4, <2>2 DEF AssignInv, ThreadsAssigned, Completing
  <2>3. QED
    BY <2>1, <2>2
<1>9. RailIsAssigned'
  BY <1>3, <1>4 DEF AssignInv, RailIsAssigned
<1>10. QED
  BY <1>5, <1>6, <1>8, <1>9 DEF AssignInv

\* Every other step leaves registrations and requests alone.
LEMMA AssignFrame ==
    ASSUME AssignInv, UNCHANGED <<idToClients, idToTopoId, sent, req>>, crashed => crashed',
           \A d \in Clients : Completing(d)' => Completing(d),
           \A d \in Clients : pc'[d] \in {"write", "connect", "await", "ack"} =>
              \/ rail'[d] = RailOf(d)
              \/ rail'[d] = rail[d] /\ pc[d] \in {"write", "connect", "await", "ack"}
    PROVE  AssignInv'
<1>1. VotersRegistered' /\ GroupsAssigned'
  BY DEF AssignInv, VotersRegistered, GroupsAssigned
<1>2. ThreadsAssigned'
  BY DEF AssignInv, ThreadsAssigned
<1>3. RailIsAssigned'
  <2> SUFFICES ASSUME NEW d \in Clients, pc'[d] \in {"write", "connect", "await", "ack"}
               PROVE  idToTopoId[req[d].hex].topo # 0 /\ rail'[d] = RailOf(d)
    BY DEF RailIsAssigned, RailOf
  <2>1. Completing(d)'
    BY DEF Completing
  <2>2. QED
    BY <2>1 DEF AssignInv, ThreadsAssigned, RailIsAssigned, RailOf
<1>4. QED
  BY <1>1, <1>2, <1>3 DEF AssignInv

\* The step of a thread past its barrier: it goes on, or returns.
LEMMA ThreadMoves ==
    ASSUME TypeOK, NEW c \in Clients, Thread(c)
    PROVE  /\ UNCHANGED <<regVars, sent, req>> /\ ~crashed /\ pc[c] # "idle"
           /\ \A d \in Clients \ {c} : pc'[d] = pc[d] /\ rail'[d] = rail[d] /\ topo'[d] = topo[d]
           /\ pc'[c] \in {"write", "connect", "await", "ack"} =>
                 \/ rail'[c] = RailOf(c)
                 \/ rail'[c] = rail[c] /\ pc[c] \in {"write", "connect", "await", "ack"}
<1> USE DEF TypeOK, At, regVars, histVars, threadVars, RailOf
<1>1. CASE EraseReady(c) \/ ReadTopo(c)
  BY <1>1 DEF EraseReady, ReadTopo
<1>2. CASE ReadTopoThrows(c) \/ WriteTopo(c)
  BY <1>2 DEF ReadTopoThrows, WriteTopo
<1>3. CASE Reconfig(c) \/ ReconfigUnreachable(c)
  BY <1>3 DEF Reconfig, ReconfigUnreachable
<1>4. CASE ReconfigDone(c) \/ ReconfigFailed(c)
  BY <1>4 DEF ReconfigDone, ReconfigFailed
<1>5. ASSUME NEW d \in Clients, SendAck(c, d)
      PROVE  /\ UNCHANGED <<idToClients, idToTopoId, domain, sent, req, rail, topo>>
             /\ ~crashed /\ pc[c] = "ack"
             /\ \A e \in Clients \ {c} : pc'[e] = pc[e]
  BY <1>5 DEF SendAck
<1>6. QED
  BY <1>1, <1>2, <1>3, <1>4, <1>5 DEF Thread

LEMMA NextAssign ==
    ASSUME Participation, Located, BarrierInv, BarrierInv', AssignInv, [Next]_vars
    PROVE  AssignInv'
<1>0. TypeOK
  BY DEF BarrierInv
<1>1. ASSUME NEW c \in Clients, Thread(c) PROVE AssignInv'
  <2>1. /\ UNCHANGED <<idToClients, idToTopoId, sent, req>> /\ (crashed => crashed')
        /\ \A d \in Clients : Completing(d)' => Completing(d)
    BY <1>0, <1>1, ThreadMoves DEF regVars, Completing
  <2>2. \A d \in Clients : pc'[d] \in {"write", "connect", "await", "ack"} =>
              \/ rail'[d] = RailOf(d)
              \/ rail'[d] = rail[d] /\ pc[d] \in {"write", "connect", "await", "ack"}
    BY <1>0, <1>1, ThreadMoves
  <2>3. QED
    BY <2>1, <2>2, AssignFrame
<1>2. CASE UNCHANGED ctlVars
  BY <1>2, AssignFrame DEF ctlVars, Completing
<1>3. QED
  BY <1>0, <1>1, <1>2, AssignRegisters, AssignVote DEF Next, vars

\* No vote, no thread and no rail yet.
LEMMA InitAssign == ASSUME Init PROVE AssignInv
BY DEF Init, AssignInv, VotersRegistered, GroupsAssigned, ThreadsAssigned, RailIsAssigned, Completing

LEMMA AssignInvariant ==
    ASSUME PairsFit, Participation, Located
    PROVE  Spec => [](BarrierInv /\ AssignInv)
<1>1. PairsFit /\ Participation /\ BarrierInv /\ [Next]_vars => BarrierInv'
  BY NextBarrier
<1>2. Participation /\ Located /\ BarrierInv /\ BarrierInv' /\ AssignInv /\ [Next]_vars => AssignInv'
  BY NextAssign
<1>3. QED
  BY <1>1, <1>2, InitBarrier, InitAssign, PairsFit, Participation, Located, PTL DEF Spec

\* The rail that is reconfigured is the one that registration assigned to the communicator,
\* for any interleaving of registrations and requests, although idToTopoId is read without
\* mapMtx and makes up rail 0 for a missing entry: whoever completes a barrier has
\* waited for the last registration, when every rank of the communicator takes part.
THEOREM RailAssigned ==
    ASSUME PairsFit, Participation, Located PROVE Spec => []RailIsAssigned
<1>1. BarrierInv /\ AssignInv => RailIsAssigned
  BY DEF AssignInv
<1>2. QED
  BY <1>1, AssignInvariant, PTL

---------------------------------------------------------------------------
(* What is installed when the ranks are told: proof                        *)

\* determine_runtime_topo gives a request what it needs.
LEMMA RuntimeTopoProvides == ASSUME NEW t, NEW q PROVE Provides(RuntimeTopo(t, q), q)
BY DEF Provides, RuntimeTopo, set_PP_topo, set_non_PP_topo

LEMMA InitInstall == ASSUME Init PROVE InstallInv
BY NoConnType DEF Init, InstallInv, AwaitsAnswer, WantsProvided, BeliefIsTrue, Installing, Progress,
   Clients, Answers

\* A step of the controller that does not talk to a worker.
LEMMA InstallFrame ==
    ASSUME InstallInv, UNCHANGED railVars,
           \A d \in Clients :
              /\ pc'[d] = "await" <=> pc[d] = "await"
              /\ pc'[d] = "ack" => pc[d] = "ack"
              /\ pc'[d] \in {"await", "ack"} => rail'[d] = rail[d] /\ topo'[d] = topo[d]
    PROVE  AwaitsAnswer' /\ BeliefIsTrue' /\ Installing'
<1>1. UNCHANGED <<past_topo, topology_states, alive, conn>>
  BY DEF railVars
<1>2. AwaitsAnswer'
  BY <1>1 DEF InstallInv, AwaitsAnswer
<1>3. BeliefIsTrue'
  BY <1>1 DEF InstallInv, BeliefIsTrue
<1>4. Installing'
  BY <1>1 DEF InstallInv, Installing, Progress, Differs
<1>5. QED
  BY <1>2, <1>3, <1>4

\* Nobody else is busy with the rail of a thread past its barrier.
LEMMA Alone ==
    ASSUME SerialRails, AssignInv, InstallInv, NEW c \in Clients,
           pc[c] \in {"write", "connect", "await", "ack"}, NEW d \in Clients, d # c
    PROVE  /\ pc[d] \in {"write", "connect", "await", "ack"} => rail[d] # rail[c]
           /\ conn[d].state # "closed" => conn[d].rail # rail[c]
<1>1. ASSUME pc[d] \in {"write", "connect", "await", "ack"} PROVE rail[d] # rail[c]
  BY <1>1 DEF SerialRails, Reconfiguring, AssignInv, RailIsAssigned, RailOf
<1>2. ASSUME conn[d].state # "closed" PROVE pc[d] = "await" /\ conn[d].rail = rail[d]
  BY <1>2 DEF InstallInv, AwaitsAnswer
<1>3. QED
  BY <1>1, <1>2

\* Steps of a thread that change local copies and topoIds only.
LEMMA InstallLocal ==
    ASSUME SerialRails, TypeOK, AssignInv, InstallInv, NEW c \in Clients,
           \/ EraseReady(c) \/ ReadTopo(c) \/ ReadTopoThrows(c) \/ WriteTopo(c)
           \/ ReconfigUnreachable(c) \/ \E d \in Clients : SendAck(c, d)
    PROVE  InstallInv'
<1> USE DEF TypeOK, At
<1>1. CASE EraseReady(c) \/ ReconfigUnreachable(c)
  <2>1. /\ pc[c] \in {"erase", "connect"} /\ pc'[c] \in {"read", "idle"}
        /\ \A d \in Clients \ {c} : pc'[d] = pc[d]
        /\ UNCHANGED <<req, rail, topo, topoIds, railVars>>
    BY <1>1 DEF EraseReady, ReconfigUnreachable
  <2>2. AwaitsAnswer' /\ BeliefIsTrue' /\ Installing'
    BY <2>1, InstallFrame
  <2>3. WantsProvided'
    BY <2>1 DEF InstallInv, WantsProvided
  <2>4. QED
    BY <2>2, <2>3 DEF InstallInv
<1>2. CASE ReadTopo(c)
  <2>1. /\ pc[c] = "read" /\ pc'[c] = "write" /\ UNCHANGED <<req, topoIds, railVars>>
        /\ \E t : topo'[c] = RuntimeTopo(t, req[c])
        /\ \A d \in Clients \ {c} : pc'[d] = pc[d] /\ rail'[d] = rail[d] /\ topo'[d] = topo[d]
    BY <1>2 DEF ReadTopo
  <2>2. AwaitsAnswer' /\ BeliefIsTrue' /\ Installing'
    BY <2>1, InstallFrame
  <2>3. Provides(topo'[c], req[c])
    BY <2>1, RuntimeTopoProvides
  <2>4. WantsProvided'
    BY <2>1, <2>3 DEF InstallInv, WantsProvided
  <2>5. QED
    BY <2>2, <2>4 DEF InstallInv
<1>3. CASE ReadTopoThrows(c)
  <2>1. UNCHANGED <<pc, req, rail, topo, topoIds, railVars>>
    BY <1>3 DEF ReadTopoThrows, threadVars
  <2>2. AwaitsAnswer' /\ BeliefIsTrue' /\ Installing'
    BY <2>1, InstallFrame
  <2>3. WantsProvided'
    BY <2>1 DEF InstallInv, WantsProvided
  <2>4. QED
    BY <2>2, <2>3 DEF InstallInv
<1>4. CASE WriteTopo(c)
  <2>1. /\ pc[c] = "write" /\ pc'[c] = "connect" /\ UNCHANGED <<req, rail, topo, railVars>>
        /\ \A d \in Clients \ {c} : pc'[d] = pc[d]
        /\ \A r \in Rails : topoIds'[r] = IF r = rail[c] THEN topo[c] ELSE topoIds[r]
    BY <1>4 DEF WriteTopo
  <2>2. AwaitsAnswer' /\ BeliefIsTrue' /\ Installing'
    BY <2>1, InstallFrame
  <2>3. \A d \in Clients \ {c} : pc[d] = "connect" => rail[d] # rail[c]
    BY <2>1, Alone
  <2>4. \A d \in Clients : rail[d] \in Rails
    OBVIOUS
  <2>5. WantsProvided'
    BY <2>1, <2>3, <2>4 DEF InstallInv, WantsProvided
  <2>6. QED
    BY <2>2, <2>5 DEF InstallInv
<1>5. ASSUME NEW d \in Clients, SendAck(c, d) PROVE InstallInv'
  <2>1. /\ pc[c] = "ack" /\ pc'[c] \in {"ack", "idle"} /\ UNCHANGED <<req, rail, topo, topoIds, railVars>>
        /\ \A e \in Clients \ {c} : pc'[e] = pc[e]
    BY <1>5 DEF SendAck
  <2>2. AwaitsAnswer' /\ BeliefIsTrue' /\ Installing'
    BY <2>1, InstallFrame
  <2>3. WantsProvided'
    BY <2>1 DEF InstallInv, WantsProvided
  <2>4. QED
    BY <2>2, <2>3 DEF InstallInv
<1>6. QED
  BY <1>1, <1>2, <1>3, <1>4, <1>5

\* The id that is sent is the one this thread wrote: nobody overwrote it.
LEMMA InstallConnect ==
    ASSUME TypeOK, AssignInv, InstallInv, NEW c \in Clients, Reconfig(c)
    PROVE  InstallInv'
<1> DEFINE r == rail[c]
<1>1. pc[c] = "connect" /\ RailOf(c) = r /\ topoIds[r] = topo[c] /\ r \in Rails
  BY DEF Reconfig, At, AssignInv, RailIsAssigned, RailOf, InstallInv, WantsProvided, TypeOK
<1>2. /\ \A d \in Clients : rail'[d] = rail[d] /\ topo'[d] = topo[d]
      /\ \A d \in Clients : pc'[d] = IF d = c THEN "await" ELSE pc[d]
      /\ Connect(c, r, topo[c])
      /\ UNCHANGED <<req, topoIds>>
  BY <1>1 DEF Reconfig, RailOf, TypeOK
<1>3. /\ \A d \in Clients : conn'[d] = IF d = c THEN [state |-> "sent", rail |-> r,
                                              config_id |-> topo[c], futures |-> {}] ELSE conn[d]
      /\ conn[c].state = "closed" /\ alive[r] /\ UNCHANGED <<past_topo, topology_states, alive>>
  BY <1>2 DEF Connect, TypeOK, RailTypeOK, Clients
<1>4. AwaitsAnswer'
  BY <1>2, <1>3 DEF InstallInv, AwaitsAnswer
<1>5. WantsProvided'
  BY <1>1, <1>2 DEF InstallInv, WantsProvided
<1>6. BeliefIsTrue'
  <2>1. \A d \in Clients : conn'[d].state \in {"apply", "commit"} => conn'[d] = conn[d]
    BY <1>3
  <2>2. \A d \in Clients : conn[d].state \in {"apply", "commit"} => conn'[d] = conn[d]
    BY <1>3
  <2>3. QED
    BY <1>3, <2>1, <2>2 DEF InstallInv, BeliefIsTrue
<1>7. Installing'
  <2> SUFFICES ASSUME NEW d \in Clients PROVE Progress(d)'
    BY DEF Installing
  <2>1. CASE d = c
    BY <1>2, <1>3, <2>1 DEF Progress
  <2>2. CASE d # c
    BY <1>2, <1>3, <2>2 DEF InstallInv, Installing, Progress, Differs
  <2>3. QED
    BY <2>1, <2>2
<1>8. QED
  BY <1>4, <1>5, <1>6, <1>7 DEF InstallInv

\* The answer: with SUCCESS the worker has installed what was asked for.
LEMMA InstallAnswer ==
    ASSUME TypeOK, InstallInv, NEW c \in Clients, ReconfigDone(c) \/ ReconfigFailed(c)
    PROVE  InstallInv'
<1>1. /\ pc[c] = "await" /\ pc'[c] \in {"ack", "idle"}
      /\ pc'[c] = "ack" => conn[c].state \in {"ACK", "NACK"}
      /\ \A d \in Clients \ {c} : pc'[d] = pc[d]
      /\ UNCHANGED <<req, rail, topo, topoIds>> /\ Receive(c)
  BY DEF ReconfigDone, ReconfigFailed, At, Succeeded, TypeOK
<1>2. /\ conn[c].state \in Answers /\ conn'[c].state = "closed"
      /\ \A d \in Clients \ {c} : conn'[d] = conn[d]
      /\ UNCHANGED <<past_topo, topology_states, alive>>
  BY <1>1, NoConnType DEF Receive, TypeOK, RailTypeOK, Clients
<1>3. pc'[c] = "ack" => topology_states[rail[c]] = topo[c]
  BY <1>1 DEF InstallInv, AwaitsAnswer, Installing, Progress
<1>4. AwaitsAnswer'
  BY <1>1, <1>2 DEF InstallInv, AwaitsAnswer
<1>5. WantsProvided'
  BY <1>1 DEF InstallInv, WantsProvided
<1>6. BeliefIsTrue'
  <2>1. \A d \in Clients : /\ conn'[d].state \in {"apply", "commit"} => conn'[d] = conn[d]
                           /\ conn[d].state \in {"apply", "commit"} => conn'[d] = conn[d]
    BY <1>2 DEF Answers
  <2>2. QED
    BY <1>2, <2>1 DEF InstallInv, BeliefIsTrue
<1>7. Installing'
  <2> SUFFICES ASSUME NEW d \in Clients PROVE Progress(d)'
    BY DEF Installing
  <2>1. CASE d = c
    BY <1>1, <1>2, <1>3, <2>1 DEF Progress
  <2>2. CASE d # c
    BY <1>1, <1>2, <2>2 DEF InstallInv, Installing, Progress, Differs
  <2>3. QED
    BY <2>1, <2>2
<1>8. QED
  BY <1>4, <1>5, <1>6, <1>7 DEF InstallInv

\* What a handler does to its connection and to its rail.
LEMMA HandlerMoves ==
    ASSUME RailTypeOK, NEW c \in Conns, Handler(c)
    PROVE  LET r == conn[c].rail  id == conn[c].config_id IN
           /\ conn[c].state \in {"sent", "apply", "commit"} /\ r \in Rails /\ alive' = alive
           /\ \A d \in Conns \ {c} : conn'[d] = conn[d]
           /\ \A s \in Rails \ {r} : UNCHANGED <<past_topo[s], topology_states[s]>>
           /\ conn'[c].rail = r /\ conn'[c].config_id = id
           /\ \/ /\ conn[c].state = "sent" /\ conn'[c].state = "INVALID"
                 /\ UNCHANGED <<past_topo[r], topology_states[r]>>
              \/ /\ conn[c].state = "sent" /\ conn'[c].state = "NACK" /\ id = past_topo[r]
                 /\ UNCHANGED <<past_topo[r], topology_states[r]>>
              \/ /\ conn[c].state = "sent" /\ conn'[c].state = "apply"
                 /\ r \in Emulation => conn'[c].futures = ChangedBits(past_topo[r], id)
                 /\ UNCHANGED <<past_topo[r], topology_states[r]>>
              \/ /\ conn[c].state = "apply" /\ conn'[c].state = "apply" /\ r \in Emulation
                 /\ past_topo'[r] = past_topo[r]
                 /\ \E b \in Bits : /\ conn'[c].futures = conn[c].futures \ {b}
                                    /\ topology_states'[r] = IF b \in id THEN topology_states[r] \cup {b}
                                                                         ELSE topology_states[r] \ {b}
              \/ /\ conn[c].state = "apply" /\ conn'[c].state = "commit" /\ r \in Emulation
                 /\ conn[c].futures = {}
                 /\ UNCHANGED <<past_topo[r], topology_states[r]>>
              \/ /\ conn[c].state = "apply" /\ conn'[c].state = "commit" /\ r \notin Emulation
                 /\ past_topo'[r] = past_topo[r] /\ topology_states'[r] = id
              \/ /\ conn[c].state = "apply" /\ conn'[c].state = "EOF" /\ r \notin Emulation
                 /\ UNCHANGED <<past_topo[r], topology_states[r]>>
              \/ /\ conn[c].state = "apply" /\ conn'[c].state = "EOF" /\ r \in FailsLate
                 /\ past_topo'[r] = past_topo[r] /\ topology_states'[r] = id
              \/ /\ conn[c].state = "commit" /\ conn'[c].state = "ACK"
                 /\ past_topo'[r] = id /\ topology_states'[r] = topology_states[r]
<1> USE DEF RailTypeOK, Goto, Handling
<1>0. conn[c].rail \in Rails
  BY DEF ConnType
<1>1. CASE RejectId(c)
  BY <1>0, <1>1 DEF RejectId
<1>2. CASE SameTopo(c)
  BY <1>0, <1>2 DEF SameTopo
<1>3. CASE StartReconfig(c)
  BY <1>0, <1>3 DEF StartReconfig
<1>4. ASSUME NEW b \in Bits, EmulateReconfiguration(c, b)
      PROVE  LET r == conn[c].rail  id == conn[c].config_id IN
             /\ \A d \in Conns \ {c} : conn'[d] = conn[d]
             /\ \A s \in Rails \ {r} : UNCHANGED <<past_topo[s], topology_states[s]>>
             /\ conn'[c].rail = r /\ conn'[c].config_id = id /\ alive' = alive
             /\ conn[c].state = "apply" /\ conn'[c].state = "apply" /\ r \in Emulation
             /\ past_topo'[r] = past_topo[r]
             /\ conn'[c].futures = conn[c].futures \ {b}
             /\ topology_states'[r] = IF b \in id THEN topology_states[r] \cup {b}
                                                  ELSE topology_states[r] \ {b}
  BY <1>0, <1>4 DEF EmulateReconfiguration
<1>5. CASE FuturesDone(c)
  BY <1>0, <1>5 DEF FuturesDone
<1>6. CASE SetConnection(c)
  BY <1>0, <1>6 DEF SetConnection
<1>7. CASE SetConnectionFails(c)
  BY <1>0, <1>7 DEF SetConnectionFails
<1>8. CASE Commit(c)
  BY <1>0, <1>8 DEF Commit
<1>9. CASE SetConnectionFailsLate(c)
  BY <1>0, <1>9 DEF SetConnectionFailsLate
<1>10. QED
  BY <1>0, <1>1, <1>2, <1>3, <1>4, <1>5, <1>6, <1>7, <1>8, <1>9 DEF Handler

\* A handler works on its rail alone, so what its worker believes and what it writes agree.
LEMMA InstallHandler ==
    ASSUME FailsLate = {}, SerialRails, TypeOK, AssignInv, InstallInv, NEW c \in Clients,
           Handler(c), UNCHANGED ctlVars
    PROVE  InstallInv'
<1> DEFINE r == conn[c].rail
           id == conn[c].config_id
           Same == past_topo'[r] = past_topo[r] /\ topology_states'[r] = topology_states[r]
<1>0. RailTypeOK /\ c \in Conns /\ UNCHANGED <<pc, req, rail, topo, topoIds>>
  BY DEF TypeOK, Clients, ctlVars
<1>1. /\ conn[c].state \in {"sent", "apply", "commit"} /\ r \in Rails /\ alive' = alive
      /\ \A d \in Clients \ {c} : conn'[d] = conn[d]
      /\ \A s \in Rails \ {r} : past_topo'[s] = past_topo[s] /\ topology_states'[s] = topology_states[s]
      /\ conn'[c].rail = r /\ conn'[c].config_id = id
  BY <1>0, HandlerMoves DEF Clients
<1>2. pc[c] = "await" /\ rail[c] = r /\ id = topo[c] /\ alive[r]
  BY <1>1 DEF InstallInv, AwaitsAnswer
<1>3. \A d \in Clients \ {c} : /\ pc[d] = "ack" => rail[d] # r
                               /\ conn[d].state # "closed" => conn[d].rail # r
  BY <1>2, Alone
<1>4. \A d \in Clients : conn[d].rail \in Rails /\ rail[d] \in Rails
  BY DEF TypeOK, RailTypeOK, ConnType, Clients
<1>5. ASSUME conn[c].state = "sent" PROVE past_topo[r] = topology_states[r]
  <2>1. \A d \in Clients : conn[d].state \in {"apply", "commit"} => conn[d].rail # r
    BY <1>3, <1>5
  <2>2. QED
    BY <1>1, <1>2, <2>1 DEF InstallInv, BeliefIsTrue
<1>6. Progress(c)
  BY DEF InstallInv, Installing
<1>7. /\ conn'[c].state # "closed"
      /\ conn'[c].state \in {"apply", "commit"} \/ past_topo'[r] = topology_states'[r]
      /\ Progress(c)'
  <2>1. CASE conn[c].state = "sent" /\ conn'[c].state = "INVALID" /\ Same
    BY <1>0, <1>1, <1>2, <1>5, <2>1 DEF Progress
  <2>2. CASE conn[c].state = "sent" /\ conn'[c].state = "NACK" /\ id = past_topo[r] /\ Same
    BY <1>0, <1>1, <1>2, <1>5, <2>2 DEF Progress
  <2>3. CASE /\ conn[c].state = "sent" /\ conn'[c].state = "apply" /\ Same
             /\ r \in Emulation => conn'[c].futures = ChangedBits(past_topo[r], id)
    <3>1. topology_states[r] # NoTopo
      BY <1>0, <1>1, NoTopoIsNotATopo DEF RailTypeOK
    <3>2. ChangedBits(past_topo[r], id) = Differs(topology_states[r], id)
      BY <1>5, <2>3, <3>1 DEF ChangedBits, Differs
    <3>3. QED
      BY <1>0, <1>1, <1>2, <1>5, <2>3, <3>2 DEF Progress
  <2>4. CASE /\ conn[c].state = "apply" /\ conn'[c].state = "apply" /\ r \in Emulation
             /\ \E b \in Bits : /\ conn'[c].futures = conn[c].futures \ {b}
                                /\ topology_states'[r] = IF b \in id THEN topology_states[r] \cup {b}
                                                                     ELSE topology_states[r] \ {b}
    <3>1. Differs(topology_states[r], id) \subseteq conn[c].futures
      BY <1>6, <2>4 DEF Progress
    <3>2. Differs(topology_states'[r], id) \subseteq conn'[c].futures
      BY <2>4, <3>1 DEF Differs
    <3>3. QED
      BY <1>0, <1>1, <1>2, <2>4, <3>2 DEF Progress, Differs
  <2>5. CASE /\ conn[c].state = "apply" /\ conn'[c].state = "commit" /\ r \in Emulation
             /\ conn[c].futures = {} /\ Same
    <3>1. Differs(topology_states[r], id) = {}
      BY <1>6, <2>5 DEF Progress
    <3>2. topology_states[r] = id
      BY <3>1 DEF Differs
    <3>3. QED
      BY <1>0, <1>1, <1>2, <2>5, <3>2 DEF Progress
  <2>6. CASE conn[c].state = "apply" /\ conn'[c].state = "commit" /\ topology_states'[r] = id
    BY <1>0, <1>1, <1>2, <2>6 DEF Progress
  <2>7. CASE conn[c].state = "apply" /\ conn'[c].state = "EOF" /\ r \notin Emulation /\ Same
    BY <1>0, <1>1, <1>2, <1>6, <2>7 DEF Progress
  <2>8. CASE /\ conn[c].state = "commit" /\ conn'[c].state = "ACK"
             /\ past_topo'[r] = id /\ topology_states'[r] = topology_states[r]
    BY <1>0, <1>1, <1>2, <1>6, <2>8 DEF Progress
  <2>9. \/ conn[c].state = "sent" /\ conn'[c].state = "INVALID" /\ Same
        \/ conn[c].state = "sent" /\ conn'[c].state = "NACK" /\ id = past_topo[r] /\ Same
        \/ /\ conn[c].state = "sent" /\ conn'[c].state = "apply" /\ Same
           /\ r \in Emulation => conn'[c].futures = ChangedBits(past_topo[r], id)
        \/ /\ conn[c].state = "apply" /\ conn'[c].state = "apply" /\ r \in Emulation
           /\ \E b \in Bits : /\ conn'[c].futures = conn[c].futures \ {b}
                              /\ topology_states'[r] = IF b \in id THEN topology_states[r] \cup {b}
                                                                   ELSE topology_states[r] \ {b}
        \/ /\ conn[c].state = "apply" /\ conn'[c].state = "commit" /\ r \in Emulation
           /\ conn[c].futures = {} /\ Same
        \/ conn[c].state = "apply" /\ conn'[c].state = "commit" /\ topology_states'[r] = id
        \/ conn[c].state = "apply" /\ conn'[c].state = "EOF" /\ r \notin Emulation /\ Same
        \/ /\ conn[c].state = "commit" /\ conn'[c].state = "ACK"
           /\ past_topo'[r] = id /\ topology_states'[r] = topology_states[r]
    BY <1>0, HandlerMoves, ZenonT(60)
  <2>10. QED
    BY <2>1, <2>2, <2>3, <2>4, <2>5, <2>6, <2>7, <2>8, <2>9
<1>8. AwaitsAnswer'
  BY <1>0, <1>1, <1>2, <1>7 DEF InstallInv, AwaitsAnswer
<1>9. WantsProvided'
  BY <1>0 DEF InstallInv, WantsProvided
<1>10. BeliefIsTrue'
  <2> SUFFICES ASSUME NEW s \in Rails, alive[s],
                      \A d \in Clients : conn'[d].state \in {"apply", "commit"} => conn'[d].rail # s
               PROVE  past_topo'[s] = topology_states'[s]
    BY <1>1 DEF BeliefIsTrue
  <2>1. CASE s = r
    BY <1>1, <1>7, <2>1
  <2>2. CASE s # r
    <3>1. \A d \in Clients : conn[d].state \in {"apply", "commit"} => conn[d].rail # s
      BY <1>1, <2>2
    <3>2. QED
      BY <1>1, <2>2, <3>1 DEF InstallInv, BeliefIsTrue
  <2>3. QED
    BY <2>1, <2>2
<1>11. Installing'
  <2> SUFFICES ASSUME NEW d \in Clients \ {c} PROVE Progress(d)'
    BY <1>7 DEF Installing
  <2>1. Progress(d) /\ conn'[d] = conn[d]
    BY <1>1 DEF InstallInv, Installing
  <2>2. conn[d].state # "closed" =>
          /\ past_topo'[conn[d].rail] = past_topo[conn[d].rail]
          /\ topology_states'[conn[d].rail] = topology_states[conn[d].rail]
    BY <1>1, <1>3, <1>4
  <2>3. pc[d] = "ack" => topology_states'[rail[d]] = topology_states[rail[d]]
    BY <1>1, <1>3, <1>4
  <2>4. QED
    BY <1>0, <2>1, <2>2, <2>3 DEF Progress, Differs
<1>12. QED
  BY <1>8, <1>9, <1>10, <1>11 DEF InstallInv

\* A worker that dies answers nobody, and nobody connects to it again.
LEMMA InstallExit ==
    ASSUME TypeOK, InstallInv, NEW s \in Rails, Exit(s), UNCHANGED ctlVars
    PROVE  InstallInv'
<1>1. UNCHANGED <<pc, req, rail, topo, topoIds, past_topo, topology_states>>
  BY DEF Exit, ctlVars
<1>2. \A t \in Rails : alive'[t] <=> (t # s /\ alive[t])
  BY DEF Exit, TypeOK, RailTypeOK
<1>3. \A d \in Clients :
        \/ conn'[d] = conn[d] /\ (conn[d].rail # s \/ conn[d].state \notin {"sent", "apply", "commit"})
        \/ /\ conn[d].rail = s /\ conn[d].state \in {"sent", "apply", "commit"}
           /\ conn'[d].state = "EOF" /\ conn'[d].rail = s /\ conn'[d].config_id = conn[d].config_id
  BY DEF Exit, Handling, Clients
<1>4. \A d \in Clients : conn[d].rail \in Rails
  BY DEF TypeOK, RailTypeOK, ConnType, Clients
<1>5. AwaitsAnswer'
  BY <1>1, <1>2, <1>3, <1>4 DEF InstallInv, AwaitsAnswer
<1>6. WantsProvided'
  BY <1>1 DEF InstallInv, WantsProvided
<1>7. BeliefIsTrue'
  <2> SUFFICES ASSUME NEW t \in Rails, t # s, alive[t],
                      \A d \in Clients : conn'[d].state \in {"apply", "commit"} => conn'[d].rail # t
               PROVE  past_topo[t] = topology_states[t]
    BY <1>1, <1>2 DEF BeliefIsTrue
  <2>1. \A d \in Clients : conn[d].state \in {"apply", "commit"} => conn[d].rail # t
    BY <1>3
  <2>2. QED
    BY <2>1 DEF InstallInv, BeliefIsTrue
<1>8. Installing'
  <2> SUFFICES ASSUME NEW d \in Clients PROVE Progress(d)'
    BY DEF Installing
  <2>1. Progress(d)
    BY DEF InstallInv, Installing
  <2>2. CASE conn'[d] = conn[d]
    BY <1>1, <2>1, <2>2 DEF Progress, Differs
  <2>3. CASE conn'[d].state = "EOF"
    BY <1>1, <2>1, <2>3 DEF Progress
  <2>4. QED
    BY <1>3, <2>2, <2>3
<1>9. QED
  BY <1>5, <1>6, <1>7, <1>8 DEF InstallInv

LEMMA NextInstall ==
    ASSUME FailsLate = {}, SerialRails, BarrierInv, AssignInv, InstallInv, [Next]_vars
    PROVE  InstallInv'
<1>0. TypeOK
  BY DEF BarrierInv
<1>1. ASSUME NEW c \in Clients, NEW h \in Groups, Registers(c, h) PROVE InstallInv'
  <2>1. UNCHANGED <<pc, req, rail, topo, topoIds, railVars>>
    BY <1>1 DEF Registers, HandleComm, HandleCommLast, HandleCommThrows, threadVars
  <2>2. AwaitsAnswer' /\ BeliefIsTrue' /\ Installing'
    BY <2>1, InstallFrame
  <2>3. QED
    BY <2>1, <2>2 DEF InstallInv, WantsProvided
<1>2. ASSUME NEW c \in Clients, NEW q \in Requests, DropConfigReq(c, q) \/ CountVote(c, q)
      PROVE  InstallInv'
  <2>1. /\ UNCHANGED <<rail, topo, topoIds, railVars>> /\ pc[c] = "idle" /\ pc'[c] \in {"idle", "erase"}
        /\ \A d \in Clients \ {c} : pc'[d] = pc[d] /\ req'[d] = req[d]
    BY <1>0, <1>2 DEF DropConfigReq, CountVote, Issues, Idle, threadVars, TypeOK
  <2>2. AwaitsAnswer' /\ BeliefIsTrue' /\ Installing'
    BY <2>1, InstallFrame
  <2>3. WantsProvided'
    BY <2>1 DEF InstallInv, WantsProvided
  <2>4. QED
    BY <2>2, <2>3 DEF InstallInv
<1>3. ASSUME NEW c \in Clients, Thread(c) PROVE InstallInv'
  BY <1>0, <1>3, InstallLocal, InstallConnect, InstallAnswer DEF Thread
<1>4. ASSUME NEW c \in Clients, Handler(c) /\ UNCHANGED ctlVars PROVE InstallInv'
  BY <1>0, <1>4, InstallHandler
<1>5. ASSUME NEW r \in MayExit, Exit(r) /\ UNCHANGED ctlVars PROVE InstallInv'
  BY <1>0, <1>5, InstallExit, SiteAssumption
<1>6. CASE UNCHANGED vars
  <2>1. UNCHANGED <<pc, req, rail, topo, topoIds, railVars>>
    BY <1>6 DEF vars, ctlVars
  <2>2. AwaitsAnswer' /\ BeliefIsTrue' /\ Installing'
    BY <2>1, InstallFrame
  <2>3. QED
    BY <2>1, <2>2 DEF InstallInv, WantsProvided
<1>7. QED
  BY <1>1, <1>2, <1>3, <1>4, <1>5, <1>6 DEF Next

\* CONFIG_ACK is sent only while the requested topology is installed, for ring and pipeline
\* requests, emulated and physical rails, with workers that fail or die, as long as no two
\* barriers of a rail are in flight together: then the unprotected topoIds, the two
\* reads of it and the worker's past_topo cannot mislead.
THEOREM AckInstalled ==
    ASSUME PairsFit, Participation, Located, FailsLate = {}
    PROVE  Spec /\ []SerialRails => []AckMeansInstalled
<1>1. FailsLate = {} /\ SerialRails /\ BarrierInv /\ AssignInv /\ InstallInv /\ [Next]_vars => InstallInv'
  BY NextInstall
<1>2. InstallInv => AckMeansInstalled
  BY DEF InstallInv, WantsProvided, Installing, Progress, AckMeansInstalled
<1>3. Init => InstallInv
  BY InitInstall
<1>4. QED
  BY <1>1, <1>2, <1>3, AssignInvariant, FailsLate = {}, PTL DEF Spec

---------------------------------------------------------------------------
(* Rails of one pipeline stage                                             *)

\* The requests that may be for rail r: those of communicators with a rank on it.
Uses(r) == {q \in Requests : \E m \in Members[q.hex] : LocalRank[m] = r}

\* No pipeline communicator, and every rail serves communicators of one pipeline stage.
StageRails ==
    /\ \A q \in Requests : ~IsPP(q)
    /\ \A r \in Rails : \A p, q \in Uses(r) : Stage(p) = Stage(q)

\* The rail of a communicator is the local rank of one of its ranks.
RailOfMember ==
    \A h \in Groups : idToTopoId[h].topo # 0 =>
        \E m \in Members[h] : idToTopoId[h].rail = LocalRank[m]

\* The bit of a stage is cleared on the way to the worker and never set again.
Clear(c) ==
    LET s == Stage(req[c]) IN
    /\ pc[c] \in {"write", "connect", "await", "ack"} => s \notin topo[c]
    /\ pc[c] \in {"connect", "await", "ack"} => s \notin topoIds[rail[c]]
    /\ (conn[c].state = "apply" /\ conn[c].rail \in Emulation
           /\ s \in topology_states[conn[c].rail]) => s \in conn[c].futures
    /\ conn[c].state \in {"commit", "ACK", "NACK"} => s \notin topology_states[conn[c].rail]
    /\ pc[c] = "ack" => s \notin topology_states[rail[c]]

Clears == \A c \in Clients : Clear(c)

\* A worker that thinks the bit is cleared is right.
BeliefClears ==
    \A r \in Rails : \A q \in Uses(r) : Stage(q) \in topology_states[r] => Stage(q) \in past_topo[r]

ClearInv == AwaitsAnswer /\ RailOfMember /\ Clears /\ BeliefClears

LEMMA StageType == ASSUME NEW q \in Requests PROVE Stage(q) \in Nat
<1>1. q.counter \in Nat /\ PP_INTERVAL \in Nat \ {0}
  BY RequestType, IntervalAssumption
<1>2. QED
  BY <1>1 DEF Stage

\* Threads of the same rail clear the same bit.
LEMMA SameStage ==
    ASSUME StageRails, TypeOK, AssignInv, RailOfMember, NEW c \in Clients, Completing(c)
    PROVE  /\ req[c] \in Uses(RailOf(c)) /\ RailOf(c) \in Rails
           /\ \A d \in Clients : (Completing(d) /\ RailOf(d) = RailOf(c)) => Stage(req[d]) = Stage(req[c])
<1>1. ASSUME NEW d \in Clients, Completing(d) PROVE req[d] \in Uses(RailOf(d)) /\ RailOf(d) \in Rails
  <2>1. req[d] \in Requests /\ req[d].hex \in Groups
    BY RequestType DEF TypeOK
  <2>2. RailOf(d) \in Rails
    BY <2>1 DEF RailOf, TypeOK
  <2>3. idToTopoId[req[d].hex].topo # 0
    BY <1>1 DEF AssignInv, ThreadsAssigned
  <2>4. QED
    BY <2>1, <2>2, <2>3 DEF RailOfMember, Uses, RailOf
<1>2. QED
  BY <1>1 DEF StageRails

LEMMA InitClear == ASSUME Init PROVE ClearInv
BY NoConnType DEF Init, ClearInv, AwaitsAnswer, RailOfMember, Clears, Clear, BeliefClears, Clients, Answers

\* A step of the controller that does not talk to a worker.
LEMMA ClearFrame ==
    ASSUME AwaitsAnswer, BeliefClears, UNCHANGED railVars,
           \A d \in Clients :
              /\ pc'[d] = "await" <=> pc[d] = "await"
              /\ pc'[d] = "await" => rail'[d] = rail[d] /\ topo'[d] = topo[d]
    PROVE  AwaitsAnswer' /\ BeliefClears'
<1>1. UNCHANGED <<past_topo, topology_states, alive, conn>>
  BY DEF railVars
<1>2. QED
  BY <1>1 DEF AwaitsAnswer, BeliefClears

\* The rail of a registration is the local rank of the last registrant.
LEMMA ClearRegisters ==
    ASSUME TypeOK, ClearInv, NEW c \in Clients, NEW h \in Groups, Registers(c, h)
    PROVE  ClearInv'
<1>1. UNCHANGED <<pc, req, rail, topo, topoIds, railVars>>
  BY DEF Registers, HandleComm, HandleCommLast, HandleCommThrows, threadVars
<1>2. AwaitsAnswer' /\ BeliefClears'
  BY <1>1, ClearFrame DEF ClearInv
<1>3. RailOfMember'
  <2>1. \/ idToTopoId' = idToTopoId
        \/ /\ c \in Members[h] /\ idToTopoId'[h].rail = LocalRank[c]
           /\ \A g \in Groups \ {h} : idToTopoId'[g] = idToTopoId[g]
    BY DEF Registers, HandleComm, HandleCommLast, HandleCommThrows, TypeOK
  <2>2. QED
    BY <2>1 DEF ClearInv, RailOfMember
<1>4. Clears'
  BY <1>1 DEF ClearInv, Clears, Clear, railVars
<1>5. QED
  BY <1>2, <1>3, <1>4 DEF ClearInv

LEMMA ClearVote ==
    ASSUME TypeOK, ClearInv, NEW c \in Clients, NEW q \in Requests, DropConfigReq(c, q) \/ CountVote(c, q)
    PROVE  ClearInv'
<1>1. /\ UNCHANGED <<idToTopoId, rail, topo, topoIds, railVars>>
      /\ pc[c] = "idle" /\ pc'[c] \in {"idle", "erase"}
      /\ \A d \in Clients \ {c} : pc'[d] = pc[d] /\ req'[d] = req[d]
  BY DEF DropConfigReq, CountVote, Issues, Idle, threadVars, regVars, TypeOK
<1>2. AwaitsAnswer' /\ BeliefClears'
  BY <1>1, ClearFrame DEF ClearInv
<1>3. RailOfMember'
  BY <1>1 DEF ClearInv, RailOfMember
<1>4. conn[c].state = "closed"
  BY <1>1 DEF ClearInv, AwaitsAnswer
<1>5. Clears'
  <2> SUFFICES ASSUME NEW d \in Clients PROVE Clear(d)'
    BY DEF Clears
  <2>1. CASE d = c
    BY <1>1, <1>4, <2>1 DEF Clear, railVars
  <2>2. CASE d # c
    BY <1>1, <2>2 DEF ClearInv, Clears, Clear, railVars
  <2>3. QED
    BY <2>1, <2>2
<1>6. QED
  BY <1>2, <1>3, <1>5 DEF ClearInv

\* Steps of a thread that change local copies and topoIds only: a write clears the bit
\* for every thread of the rail, whatever it overwrites.
LEMMA ClearLocal ==
    ASSUME StageRails, TypeOK, AssignInv, ClearInv, NEW c \in Clients,
           \/ EraseReady(c) \/ ReadTopo(c) \/ ReadTopoThrows(c) \/ WriteTopo(c)
           \/ ReconfigUnreachable(c) \/ \E d \in Clients : SendAck(c, d)
    PROVE  ClearInv'
<1> USE DEF TypeOK, At
<1>1. ASSUME \/ /\ pc[c] \in {"erase", "connect"} /\ pc'[c] \in {"read", "idle"}
                /\ UNCHANGED topo
             \/ /\ pc[c] = "read" /\ pc'[c] = "write" /\ Stage(req[c]) \notin topo'[c]
                /\ \A d \in Clients \ {c} : topo'[d] = topo[d]
             \/ UNCHANGED <<pc, topo>>
             \/ pc[c] = "ack" /\ pc'[c] \in {"ack", "idle"} /\ UNCHANGED topo,
             \A d \in Clients \ {c} : pc'[d] = pc[d] /\ rail'[d] = rail[d],
             pc'[c] # "write" => rail'[c] = rail[c],
             UNCHANGED <<idToTopoId, req, topoIds, railVars>>
      PROVE  ClearInv'
  <2>1. AwaitsAnswer' /\ BeliefClears'
    BY <1>1, ClearFrame DEF ClearInv
  <2>2. RailOfMember'
    BY <1>1 DEF ClearInv, RailOfMember
  <2>3. Clears'
    <3> SUFFICES ASSUME NEW d \in Clients PROVE Clear(d)'
      BY DEF Clears
    <3>1. Clear(d) /\ UNCHANGED <<conn, topology_states>>
      BY <1>1 DEF ClearInv, Clears, railVars
    <3>2. QED
      BY <1>1, <3>1 DEF Clear
  <2>4. QED
    BY <2>1, <2>2, <2>3 DEF ClearInv
<1>2. CASE EraseReady(c) \/ ReconfigUnreachable(c)
  BY <1>1, <1>2 DEF EraseReady, ReconfigUnreachable, regVars
<1>3. CASE ReadTopo(c)
  <2>1. Stage(req[c]) \notin topo'[c]
    BY <1>3 DEF ReadTopo, RuntimeTopo, set_non_PP_topo, StageRails
  <2>2. QED
    BY <1>1, <1>3, <2>1 DEF ReadTopo, regVars
<1>4. CASE ReadTopoThrows(c)
  BY <1>1, <1>4 DEF ReadTopoThrows, threadVars, regVars
<1>5. ASSUME NEW d \in Clients, SendAck(c, d) PROVE ClearInv'
  <2>1. /\ pc[c] = "ack" /\ pc'[c] \in {"ack", "idle"}
        /\ UNCHANGED <<idToTopoId, req, rail, topo, topoIds, railVars>>
        /\ \A e \in Clients \ {c} : pc'[e] = pc[e]
    BY <1>5 DEF SendAck, regVars
  <2>2. QED
    BY <1>1, <2>1
<1>6. CASE WriteTopo(c)
  <2>1. /\ pc[c] = "write" /\ pc'[c] = "connect" /\ UNCHANGED <<idToTopoId, req, rail, topo, railVars>>
        /\ \A d \in Clients \ {c} : pc'[d] = pc[d]
        /\ \A r \in Rails : topoIds'[r] = IF r = rail[c] THEN topo[c] ELSE topoIds[r]
    BY <1>6 DEF WriteTopo, regVars
  <2>2. AwaitsAnswer' /\ BeliefClears'
    BY <2>1, ClearFrame DEF ClearInv
  <2>3. RailOfMember'
    BY <2>1 DEF ClearInv, RailOfMember
  <2>4. Clears'
    <3> SUFFICES ASSUME NEW d \in Clients PROVE Clear(d)'
      BY DEF Clears
    <3>1. Clear(d) /\ Clear(c) /\ UNCHANGED <<conn, topology_states>> /\ rail[d] \in Rails
      BY <2>1 DEF ClearInv, Clears, railVars
    <3>2. ASSUME pc'[d] \in {"connect", "await", "ack"} PROVE Stage(req[d]) \notin topoIds'[rail[d]]
      <4>1. CASE rail[d] # rail[c]
        BY <2>1, <3>1, <3>2, <4>1 DEF Clear
      <4>2. CASE rail[d] = rail[c]
        <5>1. /\ Completing(c) /\ Completing(d) /\ RailOf(c) = rail[c] /\ RailOf(d) = rail[d]
          BY <2>1, <3>2 DEF Completing, AssignInv, RailIsAssigned, RailOf
        <5>2. Stage(req[d]) = Stage(req[c])
          BY <4>2, <5>1, SameStage DEF ClearInv
        <5>3. QED
          BY <2>1, <3>1, <4>2, <5>2 DEF Clear
      <4>3. QED
        BY <4>1, <4>2
    <3>3. QED
      BY <2>1, <3>1, <3>2 DEF Clear
  <2>5. QED
    BY <2>2, <2>3, <2>4 DEF ClearInv
<1>7. QED
  BY <1>2, <1>3, <1>4, <1>5, <1>6

\* The exchange with the worker: whatever id is sent by now, the bit is not in it.
LEMMA ClearExchange ==
    ASSUME TypeOK, AssignInv, ClearInv, NEW c \in Clients,
           Reconfig(c) \/ ReconfigDone(c) \/ ReconfigFailed(c)
    PROVE  ClearInv'
<1>1. /\ UNCHANGED <<idToTopoId, req, topoIds, past_topo, topology_states, alive>>
      /\ \A d \in Clients \ {c} : pc'[d] = pc[d] /\ rail'[d] = rail[d] /\ topo'[d] = topo[d]
                                   /\ conn'[d] = conn[d]
  BY DEF Reconfig, ReconfigDone, ReconfigFailed, Connect, Receive, regVars, TypeOK, RailTypeOK, Clients
<1>2. Clear(c)
  BY DEF ClearInv, Clears
<1>3. /\ Clear(c)' /\ rail[c] = rail'[c]
      /\ pc'[c] = "await" => /\ conn'[c].state # "closed" /\ alive[conn'[c].rail]
                             /\ conn'[c].rail = rail'[c] /\ conn'[c].config_id = topo'[c]
      /\ pc'[c] # "await" => conn'[c].state = "closed"
  <2>1. CASE Reconfig(c)
    <3>1. /\ pc[c] = "connect" /\ pc'[c] = "await" /\ rail'[c] = rail[c] /\ topo'[c] = topoIds[rail[c]]
          /\ conn'[c] = [state |-> "sent", rail |-> rail[c], config_id |-> topoIds[rail[c]], futures |-> {}]
          /\ alive[rail[c]]
      BY <2>1 DEF Reconfig, Connect, At, AssignInv, RailIsAssigned, TypeOK, RailTypeOK, Clients
    <3>2. QED
      BY <1>1, <1>2, <3>1 DEF Clear
  <2>2. CASE ReconfigDone(c) \/ ReconfigFailed(c)
    <3>1. /\ pc[c] = "await" /\ pc'[c] \in {"ack", "idle"} /\ rail'[c] = rail[c] /\ topo'[c] = topo[c]
          /\ pc'[c] = "ack" => conn[c].state \in {"ACK", "NACK"}
          /\ conn'[c] = NoConn
      BY <2>2 DEF ReconfigDone, ReconfigFailed, Receive, Succeeded, At, TypeOK, RailTypeOK, Clients
    <3>2. conn[c].rail = rail[c]
      BY <3>1 DEF ClearInv, AwaitsAnswer
    <3>3. QED
      BY <1>1, <1>2, <3>1, <3>2, NoConnType DEF Clear
  <2>3. QED
    BY <2>1, <2>2
<1>4. AwaitsAnswer'
  BY <1>1, <1>3 DEF ClearInv, AwaitsAnswer
<1>5. RailOfMember' /\ BeliefClears'
  BY <1>1 DEF ClearInv, RailOfMember, BeliefClears
<1>6. Clears'
  BY <1>1, <1>3 DEF ClearInv, Clears, Clear
<1>7. QED
  BY <1>4, <1>5, <1>6 DEF ClearInv

\* A handler never sets the bit of its rail's stage, even one of two on the same rail.
LEMMA ClearHandler ==
    ASSUME StageRails, TypeOK, AssignInv, ClearInv, NEW c \in Clients, Handler(c), UNCHANGED ctlVars
    PROVE  ClearInv'
<1> DEFINE r == conn[c].rail
           id == conn[c].config_id
           s == Stage(req[c])
           Same == past_topo'[r] = past_topo[r] /\ topology_states'[r] = topology_states[r]
<1>0. RailTypeOK /\ c \in Conns /\ UNCHANGED <<idToTopoId, pc, req, rail, topo, topoIds>>
  BY DEF TypeOK, Clients, ctlVars
<1>1. /\ conn[c].state \in {"sent", "apply", "commit"} /\ r \in Rails /\ alive' = alive
      /\ \A d \in Clients \ {c} : conn'[d] = conn[d]
      /\ \A t \in Rails \ {r} : past_topo'[t] = past_topo[t] /\ topology_states'[t] = topology_states[t]
      /\ conn'[c].rail = r /\ conn'[c].config_id = id
  BY <1>0, HandlerMoves DEF Clients
<1>2. pc[c] = "await" /\ rail[c] = r /\ id = topo[c] /\ alive[r] /\ RailOf(c) = r /\ Clear(c)
  BY <1>1 DEF ClearInv, AwaitsAnswer, Clears, AssignInv, RailIsAssigned, RailOf
<1>3. s \notin id /\ req[c] \in Uses(r) /\ s \in Nat
  <2>1. req[c] \in Uses(r)
    BY <1>2, SameStage DEF ClearInv, Completing
  <2>2. QED
    BY <1>2, <2>1, StageType DEF Clear, Uses
<1>4. \A q \in Uses(r) : Stage(q) = s
  BY <1>1, <1>3 DEF StageRails
<1>5. s \in topology_states[r] => s \in past_topo[r]
  BY <1>1, <1>3 DEF ClearInv, BeliefClears
<1>6. /\ conn'[c].state # "closed"
      /\ s \in topology_states'[r] => s \in topology_states[r] /\ s \in past_topo'[r]
      /\ Clear(c)'
  <2>1. CASE conn[c].state = "sent" /\ conn'[c].state = "INVALID" /\ Same
    BY <1>0, <1>1, <1>2, <1>5, <2>1 DEF Clear
  <2>2. CASE conn[c].state = "sent" /\ conn'[c].state = "NACK" /\ id = past_topo[r] /\ Same
    BY <1>0, <1>1, <1>2, <1>3, <1>5, <2>2 DEF Clear
  <2>3. CASE /\ conn[c].state = "sent" /\ conn'[c].state = "apply" /\ Same
             /\ r \in Emulation => conn'[c].futures = ChangedBits(past_topo[r], id)
    <3>1. s \in topology_states[r] => past_topo[r] # NoTopo
      BY <1>3, <1>5 DEF NoTopo
    <3>2. s \in topology_states[r] => s \in ChangedBits(past_topo[r], id)
      BY <1>3, <1>5, <3>1 DEF ChangedBits
    <3>3. QED
      BY <1>0, <1>1, <1>2, <1>5, <2>3, <3>2 DEF Clear
  <2>4. CASE /\ conn[c].state = "apply" /\ conn'[c].state = "apply" /\ r \in Emulation
             /\ past_topo'[r] = past_topo[r]
             /\ \E b \in Bits : /\ conn'[c].futures = conn[c].futures \ {b}
                                /\ topology_states'[r] = IF b \in id THEN topology_states[r] \cup {b}
                                                                     ELSE topology_states[r] \ {b}
    <3>1. s \in topology_states[r] => s \in conn[c].futures
      BY <1>2, <2>4 DEF Clear
    <3>2. s \in topology_states'[r] => s \in topology_states[r] /\ s \in conn'[c].futures
      BY <1>3, <2>4, <3>1
    <3>3. QED
      BY <1>0, <1>1, <1>2, <1>5, <2>4, <3>2 DEF Clear
  <2>5. CASE /\ conn[c].state = "apply" /\ conn'[c].state = "commit" /\ r \in Emulation
             /\ conn[c].futures = {} /\ Same
    BY <1>0, <1>1, <1>2, <1>5, <2>5 DEF Clear
  <2>6. CASE /\ conn[c].state = "apply" /\ conn'[c].state \in {"commit", "EOF"}
             /\ past_topo'[r] = past_topo[r] /\ topology_states'[r] = id
    BY <1>0, <1>1, <1>2, <1>3, <2>6 DEF Clear
  <2>7. CASE conn[c].state = "apply" /\ conn'[c].state = "EOF" /\ Same
    BY <1>0, <1>1, <1>2, <1>5, <2>7 DEF Clear
  <2>8. CASE /\ conn[c].state = "commit" /\ conn'[c].state = "ACK"
             /\ past_topo'[r] = id /\ topology_states'[r] = topology_states[r]
    BY <1>0, <1>1, <1>2, <2>8 DEF Clear
  <2>9. \/ conn[c].state = "sent" /\ conn'[c].state = "INVALID" /\ Same
        \/ conn[c].state = "sent" /\ conn'[c].state = "NACK" /\ id = past_topo[r] /\ Same
        \/ /\ conn[c].state = "sent" /\ conn'[c].state = "apply" /\ Same
           /\ r \in Emulation => conn'[c].futures = ChangedBits(past_topo[r], id)
        \/ /\ conn[c].state = "apply" /\ conn'[c].state = "apply" /\ r \in Emulation
           /\ past_topo'[r] = past_topo[r]
           /\ \E b \in Bits : /\ conn'[c].futures = conn[c].futures \ {b}
                              /\ topology_states'[r] = IF b \in id THEN topology_states[r] \cup {b}
                                                                   ELSE topology_states[r] \ {b}
        \/ /\ conn[c].state = "apply" /\ conn'[c].state = "commit" /\ r \in Emulation
           /\ conn[c].futures = {} /\ Same
        \/ /\ conn[c].state = "apply" /\ conn'[c].state \in {"commit", "EOF"}
           /\ past_topo'[r] = past_topo[r] /\ topology_states'[r] = id
        \/ conn[c].state = "apply" /\ conn'[c].state = "EOF" /\ Same
        \/ /\ conn[c].state = "commit" /\ conn'[c].state = "ACK"
           /\ past_topo'[r] = id /\ topology_states'[r] = topology_states[r]
    BY <1>0, HandlerMoves, ZenonT(60)
  <2>10. QED
    BY <2>1, <2>2, <2>3, <2>4, <2>5, <2>6, <2>7, <2>8, <2>9
<1>7. AwaitsAnswer'
  BY <1>0, <1>1, <1>2, <1>6 DEF ClearInv, AwaitsAnswer
<1>8. RailOfMember'
  BY <1>0 DEF ClearInv, RailOfMember
<1>9. BeliefClears'
  <2> SUFFICES ASSUME NEW t \in Rails, NEW q \in Uses(t), Stage(q) \in topology_states'[t]
               PROVE  Stage(q) \in past_topo'[t]
    BY DEF BeliefClears
  <2>1. CASE t = r
    BY <1>4, <1>6, <2>1
  <2>2. CASE t # r
    BY <1>1, <2>2 DEF ClearInv, BeliefClears
  <2>3. QED
    BY <2>1, <2>2
<1>10. Clears'
  <2> SUFFICES ASSUME NEW d \in Clients \ {c} PROVE Clear(d)'
    BY <1>6 DEF Clears
  <2>1. Clear(d) /\ conn'[d] = conn[d] /\ conn[d].rail \in Rails /\ rail[d] \in Rails
    BY <1>1 DEF ClearInv, Clears, TypeOK, RailTypeOK, ConnType, Clients
  <2>2. ASSUME NEW t \in Rails, Completing(d), RailOf(d) = t, Stage(req[d]) \in topology_states'[t]
        PROVE  Stage(req[d]) \in topology_states[t]
    <3>1. t = r => Stage(req[d]) = s
      BY <1>2, <2>2, SameStage DEF ClearInv, Completing
    <3>2. QED
      BY <1>1, <1>6, <2>2, <3>1
  <2>3. conn[d].state # "closed" => Completing(d) /\ RailOf(d) = conn[d].rail
    BY DEF ClearInv, AwaitsAnswer, Completing, AssignInv, RailIsAssigned, RailOf
  <2>4. pc[d] = "ack" => Completing(d) /\ RailOf(d) = rail[d]
    BY DEF Completing, AssignInv, RailIsAssigned, RailOf
  <2>5. conn[d].state # "closed" =>
          (Stage(req[d]) \in topology_states'[conn[d].rail] => Stage(req[d]) \in topology_states[conn[d].rail])
    BY <2>1, <2>2, <2>3
  <2>6. pc[d] = "ack" =>
          (Stage(req[d]) \in topology_states'[rail[d]] => Stage(req[d]) \in topology_states[rail[d]])
    BY <2>1, <2>2, <2>4
  <2>7. QED
    BY <1>0, <2>1, <2>5, <2>6 DEF Clear
<1>11. QED
  BY <1>7, <1>8, <1>9, <1>10 DEF ClearInv

LEMMA ClearExit ==
    ASSUME TypeOK, ClearInv, NEW t \in Rails, Exit(t), UNCHANGED ctlVars
    PROVE  ClearInv'
<1>1. UNCHANGED <<idToTopoId, pc, req, rail, topo, topoIds, past_topo, topology_states>>
  BY DEF Exit, ctlVars
<1>2. \A u \in Rails : alive'[u] <=> (u # t /\ alive[u])
  BY DEF Exit, TypeOK, RailTypeOK
<1>3. \A d \in Clients :
        \/ conn'[d] = conn[d] /\ (conn[d].rail # t \/ conn[d].state \notin {"sent", "apply", "commit"})
        \/ /\ conn[d].rail = t /\ conn[d].state \in {"sent", "apply", "commit"}
           /\ conn'[d].state = "EOF" /\ conn'[d].rail = t /\ conn'[d].config_id = conn[d].config_id
  BY DEF Exit, Handling, Clients
<1>4. \A d \in Clients : conn[d].rail \in Rails
  BY DEF TypeOK, RailTypeOK, ConnType, Clients
<1>5. AwaitsAnswer'
  BY <1>1, <1>2, <1>3, <1>4 DEF ClearInv, AwaitsAnswer
<1>6. RailOfMember' /\ BeliefClears'
  BY <1>1 DEF ClearInv, RailOfMember, BeliefClears
<1>7. Clears'
  <2> SUFFICES ASSUME NEW d \in Clients PROVE Clear(d)'
    BY DEF Clears
  <2>1. Clear(d)
    BY DEF ClearInv, Clears
  <2>2. conn'[d] = conn[d] \/ conn'[d].state = "EOF"
    BY <1>3
  <2>3. QED
    BY <1>1, <2>1, <2>2 DEF Clear
<1>8. QED
  BY <1>5, <1>6, <1>7 DEF ClearInv

LEMMA NextClear ==
    ASSUME StageRails, BarrierInv, AssignInv, ClearInv, [Next]_vars
    PROVE  ClearInv'
<1>0. TypeOK
  BY DEF BarrierInv
<1>1. ASSUME NEW c \in Clients, Thread(c) PROVE ClearInv'
  BY <1>0, <1>1, ClearLocal, ClearExchange DEF Thread
<1>2. ASSUME NEW c \in Clients, Handler(c) /\ UNCHANGED ctlVars PROVE ClearInv'
  BY <1>0, <1>2, ClearHandler
<1>3. ASSUME NEW r \in MayExit, Exit(r) /\ UNCHANGED ctlVars PROVE ClearInv'
  BY <1>0, <1>3, ClearExit, SiteAssumption
<1>4. CASE UNCHANGED vars
  <2>1. UNCHANGED <<idToTopoId, pc, req, rail, topo, topoIds, railVars>>
    BY <1>4 DEF vars, ctlVars
  <2>2. AwaitsAnswer' /\ BeliefClears'
    BY <2>1, ClearFrame DEF ClearInv
  <2>3. RailOfMember' /\ Clears'
    BY <2>1 DEF ClearInv, RailOfMember, Clears, Clear, railVars
  <2>4. QED
    BY <2>2, <2>3 DEF ClearInv
<1>5. QED
  BY <1>0, <1>1, <1>2, <1>3, <1>4, ClearRegisters, ClearVote DEF Next

\* On rails that each serve one pipeline stage, CONFIG_ACK is sent only while the requested
\* topology is installed, however many barriers are in flight on a rail, in whatever order
\* its worker's handlers finish, and with workers that fail late or die.
THEOREM StageRailsInstalled ==
    ASSUME PairsFit, Participation, Located, StageRails
    PROVE  Spec => []AckMeansInstalled
<1>1. StageRails /\ BarrierInv /\ AssignInv /\ ClearInv /\ [Next]_vars => ClearInv'
  BY NextClear
<1>2. StageRails /\ BarrierInv /\ ClearInv => AckMeansInstalled
  BY DEF BarrierInv, TypeOK, StageRails, ClearInv, Clears, Clear, AckMeansInstalled, Provides
<1>3. Init => ClearInv
  BY InitClear
<1>4. QED
  BY <1>1, <1>2, <1>3, AssignInvariant, StageRails, PTL DEF Spec
===============================================================================
