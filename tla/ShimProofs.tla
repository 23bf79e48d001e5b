------------------------------ MODULE ShimProofs ------------------------------
(***************************************************************************)
(* Proofs about Shim, for any ranks, communicators, programs, patterns and *)
(* schedules.                                                              *)
(***************************************************************************)
EXTENDS Shim, FiniteSetTheorems, TLAPS

-----------------------------------------------------------------------------
(* Operations, helpers and requests *)

\* The places of a sequence and what is there.
LEMMA SeqFacts ==
    ASSUME NEW S, NEW s \in Seq(S)
    PROVE  Len(s) \in Nat /\ DOMAIN s = 1..Len(s) /\ \A i \in 1..Len(s) : i \in Nat /\ s[i] \in S
OBVIOUS

LEMMA EmptySeq == ASSUME NEW S, NEW s \in Seq(S) PROVE s = <<>> <=> DOMAIN s = {}
<1>1. ASSUME DOMAIN s = {} PROVE s = <<>>
  <2>1. Len(s) = 0
    BY <1>1, SeqFacts
  <2>2. QED
    BY <2>1
<1>2. QED
  BY <1>1

\* An operation is one of a process's program, on a communicator it belongs to.
LEMMA OpFacts ==
    ASSUME NEW o \in Ops
    PROVE  /\ o = <<o[1], o[2]>> /\ o[1] \in Ranks /\ o[1] \in Nat
           /\ o[2] \in DOMAIN Program[o[1]] /\ o[2] \in Nat
           /\ Grp(o) \in Groups /\ o[1] \in Members[Grp(o)]
           /\ Op(o).peer \in Nat \cup {-1} /\ Backend(o) \in Nat
           /\ Pre(o) \in Helpers /\ Post(o) \in Helpers
           /\ Pre(o)[1] = "pre" /\ Pre(o)[2] = o /\ Post(o)[1] = "post" /\ Post(o)[2] = o
<1>1. PICK r \in Ranks : o \in {r} \X DOMAIN Program[r]
  BY DEF Ops
<1>2. o = <<o[1], o[2]>> /\ o[1] = r /\ o[2] \in DOMAIN Program[r]
  BY <1>1
<1> DEFINE S == [grp : {g \in Groups : r \in Members[g]}, peer : Nat \cup {-1}]
<1>3. Program[r] \in Seq(S)
  BY ProgramAssumption
<1> HIDE DEF S
<1>4. o[2] \in Nat /\ Program[r][o[2]] \in S
  BY <1>2, <1>3, SeqFacts
<1>5. Grp(o) \in Groups /\ o[1] \in Members[Grp(o)] /\ Op(o).peer \in Nat \cup {-1}
  BY <1>2, <1>4 DEF Grp, Op, S
<1>6. Backend(o) \in Nat /\ r \in Nat
  BY <1>5, ShapeAssumption DEF Backend
<1>7. Pre(o) \in Helpers /\ Post(o) \in Helpers
  BY DEF Pre, Post, Helpers
<1>8. QED
  BY <1>2, <1>4, <1>5, <1>6, <1>7 DEF Pre, Post

\* A helper is the one before or the one after an operation.
LEMMA HelperFacts ==
    ASSUME NEW h \in Helpers
    PROVE  h[2] \in Ops /\ (h = Pre(h[2]) \/ h = Post(h[2])) /\ h[2][1] \in Ranks
<1>1. h = <<h[1], h[2]>> /\ h[1] \in {"pre", "post"} /\ h[2] \in Ops
  BY DEF Helpers
<1>2. QED
  BY <1>1, OpFacts DEF Pre, Post

LEMMA HelpersDiffer ==
    ASSUME NEW o \in Ops, NEW p \in Ops
    PROVE  Pre(o) # Post(p) /\ (Pre(o) = Pre(p) <=> o = p) /\ (Post(o) = Post(p) <=> o = p)
BY DEF Pre, Post

\* A job has finitely many operations.
LEMMA OpsFinite == IsFiniteSet(Ops)
<1> DEFINE F == [r \in Ranks |-> {r} \X DOMAIN Program[r]]
           S == {{r} \X DOMAIN Program[r] : r \in Ranks}
<1>1. F \in Surjection(Ranks, S)
  BY DEF Surjection
<1>2. IsFiniteSet(S)
  BY <1>1, ShapeAssumption, FS_Surjection
<1>3. ASSUME NEW T \in S PROVE IsFiniteSet(T)
  <2>1. PICK r \in Ranks : T = {r} \X DOMAIN Program[r]
    OBVIOUS
  <2>2. PICK A : Program[r] \in Seq(A)
    <3>1. Program[r] \in Seq([grp : {g \in Groups : r \in Members[g]}, peer : Nat \cup {-1}])
      BY ProgramAssumption
    <3>2. QED
      BY <3>1, Zenon
  <2>3. IsFiniteSet(DOMAIN Program[r]) /\ IsFiniteSet({r})
    <3>1. Len(Program[r]) \in Nat /\ DOMAIN Program[r] = 1..Len(Program[r])
      BY <2>2, SeqFacts
    <3>2. 1 \in Int /\ Len(Program[r]) \in Int
      BY <3>1
    <3>3. IsFiniteSet(1..Len(Program[r]))
      BY <3>2, FS_Interval
    <3>4. QED
      BY <3>1, <3>3, FS_Singleton
  <2>4. QED
    BY <2>1, <2>3, FS_Product
<1>4. QED
  BY <1>2, <1>3, FS_UNION DEF Ops

LEMMA RankInType ==
    ASSUME NEW g \in Groups, NEW r
    PROVE  /\ IsFiniteSet(Members[g]) /\ Cardinality(Members[g]) \in Nat
           /\ RankIn(r, g) \in Nat
<1>1. Members[g] \subseteq Ranks
  BY ShapeAssumption
<1>2. IsFiniteSet(Members[g])
  BY <1>1, ShapeAssumption, FS_Subset
<1>3. IsFiniteSet({s \in Members[g] : s < r})
  BY <1>2, FS_Subset
<1>4. QED
  BY <1>2, <1>3, FS_CardinalityType DEF RankIn

LEMMA StageOfRankType == ASSUME NEW r PROVE pp_stage_(r) \in Nat
<1> DEFINE pp == {g \in Groups : is_pp_backend_(g) /\ r \in Members[g]}
<1>1. CASE pp = {}
  BY <1>1 DEF pp_stage_
<1>2. CASE pp # {}
  <2>1. (CHOOSE g \in pp : TRUE) \in Groups
    BY <1>2
  <2>2. QED
    BY <1>2, <2>1, RankInType DEF pp_stage_
<1>3. QED
  BY <1>1, <1>2

LEMMA CounterType == ASSUME NEW o \in Ops PROVE Counter[o] \in Nat
<1>1. IsFiniteSet({p \in Earlier[o] : Same(o, p)})
  <2>1. {p \in Earlier[o] : Same(o, p)} \subseteq Ops
    BY DEF Earlier
  <2>2. QED
    BY <2>1, OpsFinite, FS_Subset
<1>2. RankIn(o[1], Grp(o)) \in Nat
  BY OpFacts, RankInType
<1>3. get_pp_base(o) \in Nat
  BY <1>2, OpFacts DEF get_pp_base, Up
<1>4. get_pp_base(o) * PP_INTERVAL \in Nat
  BY <1>3, ShapeAssumption
<1>5. QED
  BY <1>1, <1>4, FS_CardinalityType DEF Counter

\* What a process asks for is a request of a communicator it belongs to.
Own(h, q) == q \in Requests /\ h[2][1] \in Members[q.hex]

LEMMA WriteReqOwn ==
    ASSUME NEW o \in Ops, NEW cnt \in Nat
    PROVE  /\ Own(Pre(o), WriteReq(o, cnt)) /\ Own(Post(o), WriteReq(o, cnt))
<1>1. cnt \div PP_INTERVAL \in Nat
  BY ShapeAssumption
<1>2. PP_BACKEND_INTERVAL * (cnt \div PP_INTERVAL) \in Nat /\ pp_stage_(o[1]) * PP_INTERVAL \in Nat
  BY <1>1, StageOfRankType, ShapeAssumption
<1>3. QED
  BY <1>2, OpFacts DEF WriteReq, Own, Requests

\* In provisioning, every stage of a pattern begins with a backend that the process has.
StagesKnown ==
    Mode = 1 => \A r \in Ranks : \A i \in 1..Len(Pattern[r]) :
        \E g \in Groups : BackendOf[g] = Pattern[r][i].sb /\ r \in Members[g]

LEMMA StageType ==
    ASSUME NEW r \in Ranks, NEW i \in Nat, i < Len(Stages(r))
    PROVE  /\ ~hasSchedule /\ Stages(r) = Pattern[r]
           /\ i + 1 \in 1..Len(Pattern[r]) /\ Stage(r, i) = Pattern[r][i + 1]
           /\ Stage(r, i) \in [sb : Nat, sc : Nat, eb : Nat, ec : Nat]
<1>1. ~hasSchedule /\ Stages(r) = Pattern[r]
  BY DEF Stages
<1> DEFINE S == [sb : Nat, sc : Nat, eb : Nat, ec : Nat]
<1>2. Pattern[r] \in Seq(S)
  BY ProgramAssumption
<1> HIDE DEF S
<1>3. i + 1 \in 1..Len(Pattern[r])
  BY <1>1, <1>2, SeqFacts
<1>4. Pattern[r][i + 1] \in S
  BY <1>2, <1>3, SeqFacts
<1>5. QED
  BY <1>1, <1>3, <1>4 DEF Stage, S

LEMMA ProvisionReqOwn ==
    ASSUME StagesKnown, Mode = 1, NEW o \in Ops, NEW i \in Nat, i < Len(Stages(o[1]))
    PROVE  Own(Post(o), ProvisionReq(o, i))
<1> DEFINE next == Stage(o[1], i)
<1>1. next \in [sb : Nat, sc : Nat, eb : Nat, ec : Nat]
  BY OpFacts, StageType
<1>2. \E g \in Groups : BackendOf[g] = next.sb /\ o[1] \in Members[g]
  BY OpFacts, StageType DEF StagesKnown
<1>3. hexOf(o[1], next.sb) \in Groups /\ o[1] \in Members[hexOf(o[1], next.sb)]
  BY <1>2 DEF hexOf
<1>4. pp_stage_(o[1]) * PP_INTERVAL \in Nat
  BY StageOfRankType, ShapeAssumption
<1>5. QED
  BY <1>1, <1>3, <1>4, OpFacts DEF ProvisionReq, Own, Requests

LEMMA ScheduleOwn ==
    ASSUME NEW o \in Ops, o[2] \in DOMAIN Schedule[o[1]]
    PROVE  Own(Pre(o), Schedule[o[1]][o[2]])
<1>1. Schedule[o[1]][o[2]] \in
        [hex : {g \in Groups : o[1] \in Members[g]}, backend : Nat, counter : Nat]
  BY OpFacts, ProgramAssumption
<1>2. QED
  BY <1>1, OpFacts DEF Own, Requests

-----------------------------------------------------------------------------
(* Steps and types *)

OfOp(o) ==
    \/ Run(o) \/ PreGate(o) \/ PreDecide(o) \/ PreFinish(o)
    \/ PostChange(o) \/ PostNoChange(o) \/ Defer(o) \/ SendScheduled(o)
OfHelper(h) == Signal(h) \/ Receive(h) \/ Timeout(h) \/ ScheduledTimeout(h)

\* The controller's thread of request q, on its way to the acknowledgement.
Tends(q) == ReadTopo(q) \/ WriteTopo(q) \/ Reconfig(q) \/ ReconfigDone(q)

\* A step is one of a process, of an operation, of a helper, or of the controller.
LEMMA StepCases ==
    ASSUME [Next]_vars
    PROVE  \/ \E r \in Ranks : Issue(r) /\ hasSchedule' = hasSchedule
           \/ \E o \in Ops : OfOp(o) /\ hasSchedule' = hasSchedule
           \/ \E h \in Helpers : OfHelper(h) /\ hasSchedule' = hasSchedule
           \/ \E q \in busy : Tends(q)
           \/ \E q \in busy : Grant(q)
           \/ UNCHANGED vars
<1>1. CASE UNCHANGED vars
  BY <1>1
<1>2. CASE \E q \in busy : Serve(q)
  BY <1>2 DEF Serve, Tends
<1>3. ASSUME NEW r \in Ranks, Process(r)
      PROVE  \/ Issue(r) /\ hasSchedule' = hasSchedule
             \/ \E o \in Ops : OfOp(o) /\ hasSchedule' = hasSchedule
             \/ \E h \in Helpers : OfHelper(h) /\ hasSchedule' = hasSchedule
  <2>1. CASE Issue(r)
    BY <1>3, <2>1 DEF Process
  <2>2. CASE ~Issue(r)
    <3>1. PICK o \in OpsOf[r] : Run(o) \/ Helper(o)
      BY <1>3, <2>2 DEF Process
    <3>2. o \in Ops /\ hasSchedule' = hasSchedule
      BY <1>3 DEF OpsOf, Process
    <3>3. Pre(o) \in Helpers /\ Post(o) \in Helpers
      BY <3>2, OpFacts
    <3>4. QED
      BY <3>1, <3>2, <3>3 DEF Helper, OfOp, OfHelper
  <2>3. QED
    BY <2>1, <2>2
<1>4. QED
  BY <1>1, <1>2, <1>3 DEF Next

\* What the controller does leaves the processes and the votes alone ...
LEMMA ControllerKeeps ==
    ASSUME NEW q, Tends(q) \/ Grant(q)
    PROVE  /\ UNCHANGED <<hasSchedule, pos, ran, pc, req, change, gaveUp, aborted, votes>>
           /\ UNCHANGED <<curCommStageIdx_, curCommStageIdx_post_, topo_ready>>
           /\ UNCHANGED procVars
<1>1. UNCHANGED <<processVars, votes>>
  BY DEF Tends, ReadTopo, WriteTopo, Reconfig, ReconfigDone, Grant
<1>2. QED
  BY <1>1 DEF processVars, procVars

\* ... and until its thread acknowledges, the requests and the sockets too.
LEMMA TendsKeeps ==
    ASSUME NEW q, Tends(q)
    PROVE  UNCHANGED <<inbox, busy, granted>>
BY DEF Tends, ReadTopo, WriteTopo, Reconfig, ReconfigDone

\* A replaying process waits for its schedule only at operations that are in it.
PreScheduled ==
    hasSchedule => \A o \in Ops : pc[Pre(o)] # "done" => o[2] \in DOMAIN Schedule[o[1]]

TypeInv == TypeOK /\ PreScheduled

\* A helper that asks keeps its request, its vote and the completed request well formed.
LEMMA SendReqType ==
    ASSUME TypeOK, NEW h \in Helpers, NEW q \in Requests, SendReq(h, q)
    PROVE  /\ DOMAIN req' = DOMAIN req \cup {h} /\ DOMAIN req' \subseteq Helpers
           /\ \A u \in DOMAIN req' : req'[u] = IF u = h THEN q ELSE req[u]
           /\ \A u \in DOMAIN req' : req'[u] \in Requests
           /\ votes' \subseteq DOMAIN req' /\ busy' \subseteq Requests /\ busy \subseteq busy'
           /\ UNCHANGED <<thread, topoIds, topo, overlapped, granted>>
BY DEF SendReq, TypeOK

LEMMA TypeInit == Init => TypeInv
<1> SUFFICES ASSUME Init PROVE TypeInv
  OBVIOUS
<1>1. hasSchedule \in BOOLEAN /\ pos \in [Ranks -> Nat] /\ ran \subseteq Ops
  BY ShapeAssumption DEF Init
<1>2. pc \in [Helpers -> Labels]
  BY DEF Init, Labels
<1>3. /\ DOMAIN req \subseteq Helpers /\ \A h \in DOMAIN req : req[h] \in Requests
      /\ votes \subseteq DOMAIN req /\ busy \subseteq Requests
      /\ gaveUp \subseteq Helpers /\ aborted \subseteq Ranks /\ granted \subseteq Groups \X Nat
      /\ DOMAIN thread = {} /\ overlapped \in BOOLEAN
  BY DEF Init
<1>4. /\ change \subseteq Ops /\ topo \subseteq Nat /\ topoIds \subseteq Nat
      /\ curCommStageIdx_ \in [Ranks -> Nat] /\ curCommStageIdx_post_ \in [Ranks -> Nat]
      /\ topo_ready \in [Ranks -> BOOLEAN] /\ inbox \in [Ranks -> Seq(Groups)]
  BY ShapeAssumption DEF Init
<1>5. PreScheduled
  BY OpFacts DEF Init, PreScheduled, HasPre
<1>6. QED
  BY <1>1, <1>2, <1>3, <1>4, <1>5 DEF TypeInv, TypeOK

\* Steps of an operation keep the types and PreScheduled.
LEMMA TypeOfOp ==
    ASSUME TypeInv, StagesKnown, NEW o \in Ops, OfOp(o), hasSchedule' = hasSchedule
    PROVE  TypeInv'
<1> USE DEF TypeInv, TypeOK, PreScheduled, Labels
<1>0. /\ o[1] \in Ranks /\ Pre(o) \in Helpers /\ Post(o) \in Helpers
      /\ \A p \in Ops : Pre(p) \in Helpers /\ Pre(p) # Post(o) /\ (Pre(p) = Pre(o) <=> p = o)
  BY OpFacts, HelpersDiffer
<1>1. CASE Run(o)
  <2>1. Party[o] \subseteq Ops
    BY DEF Party
  <2>2. QED
    BY <1>1, <2>1 DEF Run, procVars, ctlVars
<1>2. CASE PreGate(o)
  BY <1>0, <1>2 DEF PreGate, procVars, ctlVars
<1>3. CASE PreDecide(o)
  <2>1. Counter[o] \in Nat
    BY CounterType
  <2>2. WriteReq(o, Counter[o]) \in Requests
    BY <2>1, WriteReqOwn DEF Own
  <2>3. /\ pc' \in [Helpers -> Labels] /\ pc[Pre(o)] = "decide"
        /\ \A h \in Helpers : h # Pre(o) => pc'[h] = pc[h]
    BY <1>0, <1>3 DEF PreDecide
  <2>4. /\ DOMAIN req' \subseteq Helpers /\ \A u \in DOMAIN req' : req'[u] \in Requests
        /\ votes' \subseteq DOMAIN req' /\ busy' \subseteq Requests /\ busy \subseteq busy'
        /\ UNCHANGED <<thread, topoIds, topo, overlapped, granted>>
    <3>1. CASE UNCHANGED <<req, ctlVars>>
      BY <3>1 DEF ctlVars
    <3>2. CASE SendReq(Pre(o), WriteReq(o, Counter[o]))
      BY <1>0, <2>2, <3>2, SendReqType
    <3>3. QED
      BY <1>3, <3>1, <3>2 DEF PreDecide
  <2>5. QED
    BY <1>0, <1>3, <2>3, <2>4 DEF PreDecide, procVars
<1>4. CASE PreFinish(o)
  BY <1>0, <1>4 DEF PreFinish, procVars, ctlVars
<1>5. CASE PostChange(o)
  <2> DEFINE i == curCommStageIdx_post_[o[1]] + 1
  <2>1. i \in Nat
    BY <1>0
  <2>2. ASSUME Mode = 1, i < Len(Stages(o[1])) PROVE ProvisionReq(o, i) \in Requests
    BY <2>1, <2>2, ProvisionReqOwn DEF Own
  <2>3. /\ pc' \in [Helpers -> Labels] /\ \A h \in Helpers : h # Post(o) => pc'[h] = pc[h]
    BY <1>0, <1>5 DEF PostChange
  <2>4. /\ DOMAIN req' \subseteq Helpers /\ \A u \in DOMAIN req' : req'[u] \in Requests
        /\ votes' \subseteq DOMAIN req' /\ busy' \subseteq Requests /\ busy \subseteq busy'
        /\ UNCHANGED <<thread, topoIds, topo, overlapped, granted>>
    <3>1. CASE UNCHANGED <<req, ctlVars>>
      BY <3>1 DEF ctlVars
    <3>2. CASE Mode = 1 /\ i < Len(Stages(o[1])) /\ SendReq(Post(o), ProvisionReq(o, i))
      BY <1>0, <2>2, <3>2, SendReqType
    <3>3. QED
      BY <1>5, <3>1, <3>2 DEF PostChange
  <2>5. QED
    BY <1>0, <1>5, <2>1, <2>3, <2>4 DEF PostChange, procVars
<1>6. CASE PostNoChange(o)
  <2>1. Counter[o] + 1 \in Nat
    BY CounterType
  <2>2. WriteReq(o, Counter[o] + 1) \in Requests
    BY <2>1, WriteReqOwn DEF Own
  <2>3. /\ pc' \in [Helpers -> Labels] /\ \A h \in Helpers : h # Post(o) => pc'[h] = pc[h]
    BY <1>0, <1>6 DEF PostNoChange
  <2>4. /\ DOMAIN req' \subseteq Helpers /\ \A u \in DOMAIN req' : req'[u] \in Requests
        /\ votes' \subseteq DOMAIN req' /\ busy' \subseteq Requests /\ busy \subseteq busy'
        /\ UNCHANGED <<thread, topoIds, topo, overlapped, granted>>
    <3>1. CASE UNCHANGED <<req, ctlVars>>
      BY <3>1 DEF ctlVars
    <3>2. CASE SendReq(Post(o), WriteReq(o, Counter[o] + 1))
      BY <1>0, <2>2, <3>2, SendReqType
    <3>3. QED
      BY <1>6, <3>1, <3>2 DEF PostNoChange
  <2>5. QED
    BY <1>0, <1>6, <2>3, <2>4 DEF PostNoChange, procVars
<1>7. CASE Defer(o)
  BY <1>0, <1>7 DEF Defer, ctlVars
<1>8. CASE SendScheduled(o)
  <2>1. Schedule[o[1]][o[2]] \in Requests
    BY <1>8, ScheduleOwn DEF SendScheduled, Own
  <2>2. /\ pc' \in [Helpers -> Labels] /\ pc[Pre(o)] # "done"
        /\ \A h \in Helpers : h # Pre(o) => pc'[h] = pc[h]
    BY <1>0, <1>8 DEF SendScheduled
  <2>3. /\ DOMAIN req' \subseteq Helpers /\ \A u \in DOMAIN req' : req'[u] \in Requests
        /\ votes' \subseteq DOMAIN req' /\ busy' \subseteq Requests /\ busy \subseteq busy'
        /\ UNCHANGED <<thread, topoIds, topo, overlapped, granted>>
    BY <1>0, <1>8, <2>1, SendReqType DEF SendScheduled
  <2>4. QED
    BY <1>0, <1>8, <2>2, <2>3 DEF SendScheduled, procVars
<1>9. QED
  BY <1>1, <1>2, <1>3, <1>4, <1>5, <1>6, <1>7, <1>8 DEF OfOp

\* Steps of a helper that asks or signals keep them too.
LEMMA TypeOfHelper ==
    ASSUME TypeInv, NEW h \in Helpers, OfHelper(h), hasSchedule' = hasSchedule
    PROVE  TypeInv'
<1> USE DEF TypeInv, TypeOK, PreScheduled, Labels
<1>0. h[2][1] \in Ranks /\ \A p \in Ops : Pre(p) \in Helpers
  BY OpFacts, HelperFacts
<1>1. Asking(h) => Resume(h) \in Labels
  BY DEF Asking, Resume
<1>2. CASE Signal(h)
  BY <1>0, <1>2 DEF Signal, procVars, ctlVars
<1>3. CASE Receive(h)
  <2>1. pc' \in [Helpers -> Labels] /\ \A u \in Helpers : pc'[u] # "done" => pc[u] # "done"
    BY <1>1, <1>3 DEF Receive, Asking
  <2>2. inbox' \in [Ranks -> Seq(Groups)]
    BY <1>0, <1>3 DEF Receive
  <2>3. QED
    BY <1>0, <1>3, <2>1, <2>2 DEF Receive, procVars, ctlVars
<1>4. CASE Timeout(h)
  <2>1. pc' \in [Helpers -> Labels] /\ \A u \in Helpers : pc'[u] # "done" => pc[u] # "done"
    BY <1>1, <1>4 DEF Timeout, Asking
  <2>2. QED
    BY <1>0, <1>4, <2>1 DEF Timeout, procVars, ctlVars
<1>5. CASE ScheduledTimeout(h)
  BY <1>0, <1>5 DEF ScheduledTimeout, procVars, ctlVars
<1>6. QED
  BY <1>2, <1>3, <1>4, <1>5 DEF OfHelper

LEMMA DivPositive ==
    ASSUME NEW n \in Nat, NEW k \in Nat \ {0}, n > k
    PROVE  n \div k \in Nat /\ n \div k >= 1
OBVIOUS

\* A request changes the bits of pipeline stages, which are numbers.
LEMMA RuntimeTopoType ==
    ASSUME NEW t \in SUBSET Nat, NEW q \in Requests
    PROVE  RuntimeTopo(t, q) \subseteq Nat
<1>1. CASE IsPP(q)
  <2> DEFINE g == PPGroup(q)
  <2>1. q.backend \in Nat /\ PP_BACKEND_INTERVAL \in Nat \ {0} /\ q.backend > PP_BACKEND_INTERVAL
    BY <1>1, ShapeAssumption DEF IsPP, Requests
  <2>2. g \in Nat /\ g >= 1
    BY <2>1, DivPositive DEF PPGroup
  <2>3. RuntimeTopo(t, q) = t \cup {g - 1, g}
    BY <1>1 DEF RuntimeTopo
  <2> HIDE DEF g
  <2>4. QED
    BY <2>2, <2>3
<1>2. CASE ~IsPP(q)
  BY <1>2 DEF RuntimeTopo
<1>3. QED
  BY <1>1, <1>2

\* The controller's threads keep them.
LEMMA TypeTends ==
    ASSUME TypeInv, NEW q \in busy, Tends(q)
    PROVE  TypeInv'
<1> DEFINE Steps == [at : {"write", "connect", "await", "ack"}, topo : SUBSET Nat]
<1>0. /\ DOMAIN thread \subseteq busy /\ \A p \in DOMAIN thread : thread[p] \in Steps
      /\ topoIds \subseteq Nat /\ topo \subseteq Nat /\ overlapped \in BOOLEAN /\ q \in Requests
  BY DEF TypeInv, TypeOK
<1>1. /\ DOMAIN thread' \subseteq busy /\ \A p \in DOMAIN thread' : thread'[p] \in Steps
      /\ topoIds' \subseteq Nat /\ topo' \subseteq Nat /\ overlapped' \in BOOLEAN
  <2>1. CASE ReadTopo(q)
    <3>1. RuntimeTopo(topoIds, q) \in SUBSET Nat
      BY <1>0, RuntimeTopoType
    <3>2. [at |-> "write", topo |-> RuntimeTopo(topoIds, q)] \in Steps
      BY <3>1
    <3> HIDE DEF Steps
    <3>3. QED
      BY <1>0, <2>1, <3>2 DEF ReadTopo
  <2>2. CASE WriteTopo(q)
    BY <1>0, <2>2 DEF WriteTopo, At
  <2>3. CASE Reconfig(q)
    BY <1>0, <2>3 DEF Reconfig, At
  <2>4. CASE ReconfigDone(q)
    BY <1>0, <2>4 DEF ReconfigDone, At
  <2>5. QED
    BY <2>1, <2>2, <2>3, <2>4 DEF Tends
<1> HIDE DEF Steps
<1>2. /\ UNCHANGED <<hasSchedule, pos, ran, pc, req, change, gaveUp, aborted, votes, inbox, busy>>
      /\ UNCHANGED <<curCommStageIdx_, curCommStageIdx_post_, topo_ready, granted>>
  BY ControllerKeeps, TendsKeeps
<1>3. QED
  BY <1>1, <1>2 DEF TypeInv, TypeOK, PreScheduled, Steps

\* And so does an acknowledgement.
LEMMA TypeGrant ==
    ASSUME TypeInv, NEW q \in busy, Grant(q)
    PROVE  TypeInv'
<1> USE DEF TypeInv, TypeOK, PreScheduled
<1>1. q.hex \in Groups /\ q.backend \in Nat /\ q.counter \in Nat
  BY DEF Requests
<1>2. /\ DOMAIN thread' \subseteq busy'
      /\ \A p \in DOMAIN thread' : p \in DOMAIN thread /\ thread'[p] = thread[p]
  BY DEF Grant
<1>3. Key(q) \in Groups \X Nat
  BY <1>1 DEF Key
<1>4. inbox' \in [Ranks -> Seq(Groups)]
  BY <1>1 DEF Grant
<1>5. busy' \subseteq busy /\ granted' \subseteq Groups \X Nat
  BY <1>3 DEF Grant
<1>6. QED
  BY <1>2, <1>4, <1>5, ControllerKeeps DEF Grant

LEMMA TypeInvariant == ASSUME StagesKnown PROVE Spec => []TypeInv
<1>1. ASSUME TypeInv, [Next]_vars PROVE TypeInv'
  <2>1. ASSUME NEW r \in Ranks, Issue(r), hasSchedule' = hasSchedule PROVE TypeInv'
    BY <1>1, <2>1 DEF Issue, TypeInv, TypeOK, PreScheduled, procVars, ctlVars
  <2>2. CASE UNCHANGED vars
    BY <1>1, <2>2 DEF vars, TypeInv, TypeOK, PreScheduled, procVars, ctlVars
  <2>3. QED
    BY <1>1, <2>1, <2>2, StepCases, TypeOfOp, TypeOfHelper, TypeTends, TypeGrant
<1>2. QED
  BY <1>1, TypeInit, PTL DEF Spec

\* The state of every process and of the controller is always well formed, in all modes
\* and with timeouts, when every stage of a pattern begins with a backend of the
\* process (the shim indexes its map of communicators with it).
THEOREM TypeCorrect == ASSUME StagesKnown PROVE Spec => []TypeOK
BY TypeInvariant, PTL DEF TypeInv

-----------------------------------------------------------------------------
(* Acknowledgements *)

Rank(h) == h[2][1]

\* No communicator of more than two ranks is asked for as a pipeline pair: the
\* controller would complete the request with two votes and acknowledge it to all.
PipelinePairs ==
    /\ \A g \in Groups : Cardinality(Members[g]) > 2 =>
          ~is_pp_backend_(g) /\ BackendOf[g] <= PP_BACKEND_INTERVAL
    /\ \A r \in Ranks : \A i \in DOMAIN Schedule[r] :
          IsPP(Schedule[r][i]) => Cardinality(Members[Schedule[r][i].hex]) <= 2

Fits(h, q) == Own(h, q) /\ (IsPP(q) => Cardinality(Members[q.hex]) <= 2)

\* Who asks has sent a request of its own.
AskersSent ==
    /\ \A h \in DOMAIN req : Fits(h, req[h])
    /\ \A h \in Helpers : Asking(h) => h \in DOMAIN req

\* A vote is the request of a helper that waits, for a barrier that is not complete,
\* and nothing is in the socket of its process.
VotesWait ==
    \A u \in votes :
        /\ Asking(u) /\ inbox[Rank(u)] = <<>>
        /\ \A q \in busy : Key(q) # Key(req[u])

\* While the controller reconfigures, all ranks of the communicator wait for it.
BusyAsked ==
    \A q \in busy : \A r \in Members[q.hex] :
        /\ inbox[r] = <<>>
        /\ \E h \in DOMAIN req : Rank(h) = r /\ Asking(h) /\ Key(req[h]) = Key(q)

BusyOnce == \A p, q \in busy : Key(p) = Key(q) => p = q

\* A line in a socket acknowledges the request that its process waits for.
LinesExpected ==
    \A r \in Ranks : \A j \in DOMAIN inbox[r] :
        \E h \in DOMAIN req :
            Rank(h) = r /\ Asking(h) /\ req[h].hex = inbox[r][j] /\ Key(req[h]) \in granted

\* A helper that goes on and has not given up is acknowledged.
AckExact == \A h \in DOMAIN req : (~Asking(h) /\ h \notin gaveUp) => Key(req[h]) \in granted

AckInv ==
    AskersSent /\ VotesWait /\ BusyAsked /\ BusyOnce /\ LinesExpected /\ AckExact

\* If every member of a set is a helper of a different member of a communicator, and
\* there are as many as the communicator has, then every member has one.
LEMMA EveryMember ==
    ASSUME NEW S, NEW M, IsFiniteSet(M), Cardinality(S) >= Cardinality(M),
           \A u \in S : Rank(u) \in M,
           \A u, v \in S : Rank(u) = Rank(v) => u = v
    PROVE  \A r \in M : \E u \in S : Rank(u) = r
<1> DEFINE f == [u \in S |-> Rank(u)]
<1>1. f \in Injection(S, M)
  BY DEF Injection, IsInjective
<1>2. IsFiniteSet(S) /\ Cardinality(S) <= Cardinality(M)
        /\ (Cardinality(S) = Cardinality(M) <=> f \in Surjection(S, M))
  BY <1>1, FS_Injection
<1>3. Cardinality(S) \in Nat /\ Cardinality(M) \in Nat
  BY <1>2, FS_CardinalityType
<1>4. f \in Surjection(S, M)
  BY <1>2, <1>3
<1>5. QED
  BY <1>4 DEF Surjection

\* A helper that does not ask sends a request of its own and waits.
Ask(h, q) ==
    /\ SendReq(h, q) /\ Fits(h, q) /\ ~Asking(h)
    /\ \A u \in Helpers : Asking(u)' <=> (u = h \/ Asking(u))
    /\ UNCHANGED <<inbox, gaveUp>>

\* Nobody asks, is answered or gives up.
Quiet ==
    /\ UNCHANGED <<req, votes, busy, granted, inbox>>
    /\ gaveUp \subseteq gaveUp'
    /\ \A u \in Helpers : Asking(u)' <=> Asking(u)

LEMMA TendsQuiet == ASSUME NEW q, Tends(q) PROVE Quiet
BY ControllerKeeps, TendsKeeps DEF Quiet, Asking

\* The requests that the actions send.
LEMMA WriteReqFits ==
    ASSUME PipelinePairs, NEW o \in Ops, NEW cnt \in Nat
    PROVE  Fits(Pre(o), WriteReq(o, cnt)) /\ Fits(Post(o), WriteReq(o, cnt))
<1>1. ASSUME IsPP(WriteReq(o, cnt)) PROVE Cardinality(Members[WriteReq(o, cnt).hex]) <= 2
  <2>1. Grp(o) \in Groups /\ Cardinality(Members[Grp(o)]) \in Nat /\ BackendOf[Grp(o)] \in Nat
    BY OpFacts, RankInType DEF Backend
  <2>2. ASSUME Cardinality(Members[Grp(o)]) > 2 PROVE FALSE
    <3>1. ~is_pp_backend_(Grp(o)) /\ BackendOf[Grp(o)] <= PP_BACKEND_INTERVAL
      BY <2>1, <2>2 DEF PipelinePairs
    <3>2. WriteReq(o, cnt).backend = BackendOf[Grp(o)] + 0
      BY <3>1 DEF WriteReq, Backend
    <3>3. QED
      BY <1>1, <2>1, <3>1, <3>2, ShapeAssumption DEF IsPP
  <2>3. WriteReq(o, cnt).hex = Grp(o)
    BY DEF WriteReq
  <2>4. QED
    BY <2>1, <2>2, <2>3
<1>2. QED
  BY <1>1, WriteReqOwn DEF Fits

LEMMA ProvisionReqFits ==
    ASSUME PipelinePairs, StagesKnown, Mode = 1, NEW o \in Ops, NEW i \in Nat,
           i < Len(Stages(o[1]))
    PROVE  Fits(Post(o), ProvisionReq(o, i))
<1> DEFINE sb == Stage(o[1], i).sb
           g == hexOf(o[1], sb)
<1>1. \E k \in Groups : BackendOf[k] = sb /\ o[1] \in Members[k]
  BY OpFacts, StageType DEF StagesKnown
<1>2. g \in Groups /\ BackendOf[g] = sb
  BY <1>1 DEF hexOf
<1>3. ProvisionReq(o, i).hex = g /\ ProvisionReq(o, i).backend = sb
  BY DEF ProvisionReq
<1> HIDE DEF g, sb
<1>4. Cardinality(Members[g]) \in Nat /\ BackendOf[g] \in Nat
  BY <1>2, RankInType, ShapeAssumption
<1>5. ASSUME IsPP(ProvisionReq(o, i)) PROVE Cardinality(Members[g]) <= 2
  <2>1. ~(BackendOf[g] <= PP_BACKEND_INTERVAL)
    BY <1>2, <1>3, <1>4, <1>5, ShapeAssumption DEF IsPP
  <2>2. ~(Cardinality(Members[g]) > 2)
    BY <1>2, <2>1 DEF PipelinePairs
  <2>3. QED
    BY <1>4, <2>2
<1>6. QED
  BY <1>3, <1>5, ProvisionReqOwn DEF Fits

LEMMA ScheduleFits ==
    ASSUME PipelinePairs, NEW o \in Ops, o[2] \in DOMAIN Schedule[o[1]]
    PROVE  Fits(Pre(o), Schedule[o[1]][o[2]])
BY ScheduleOwn, OpFacts DEF Fits, PipelinePairs

\* What an operation's step does to the requests.
LEMMA OpAsks ==
    ASSUME TypeInv, StagesKnown, PipelinePairs, NEW o \in Ops, OfOp(o)
    PROVE  Quiet \/ \E h \in Helpers : \E q \in Requests : Ask(h, q)
<1> USE DEF TypeInv, TypeOK, Asking
<1>0. Pre(o) \in Helpers /\ Post(o) \in Helpers /\ Counter[o] \in Nat
  BY OpFacts, CounterType
<1>1. CASE Run(o)
  BY <1>1 DEF Run, Quiet, ctlVars
<1>2. CASE PreGate(o) \/ PreFinish(o) \/ Defer(o)
  BY <1>0, <1>2 DEF PreGate, PreFinish, Defer, Quiet, ctlVars
<1>3. CASE PreDecide(o)
  <2>1. CASE /\ SendReq(Pre(o), WriteReq(o, Counter[o]))
             /\ pc' = [pc EXCEPT ![Pre(o)] = "write"]
    <3>1. Ask(Pre(o), WriteReq(o, Counter[o]))
      BY <1>0, <1>3, <2>1, WriteReqFits DEF PreDecide, Ask
    <3>2. QED
      BY <1>0, <3>1 DEF Ask, Fits, Own
  <2>2. CASE pc' = [pc EXCEPT ![Pre(o)] = "finish"] /\ UNCHANGED <<req, ctlVars>>
    BY <1>0, <1>3, <2>2 DEF PreDecide, Quiet, ctlVars
  <2>3. QED
    BY <1>3, <2>1, <2>2 DEF PreDecide
<1>4. CASE PostChange(o)
  <2> DEFINE i == curCommStageIdx_post_[o[1]] + 1
  <2>0. i \in Nat
    BY OpFacts
  <2>1. CASE /\ Mode = 1 /\ i < Len(Stages(o[1])) /\ SendReq(Post(o), ProvisionReq(o, i))
             /\ pc' = [pc EXCEPT ![Post(o)] = "provision"]
    <3>1. Fits(Post(o), ProvisionReq(o, i))
      BY <2>0, <2>1, ProvisionReqFits
    <3>2. Ask(Post(o), ProvisionReq(o, i))
      BY <1>0, <1>4, <2>1, <3>1 DEF PostChange, Ask
    <3>3. QED
      BY <1>0, <3>2 DEF Ask, Fits, Own
  <2>2. CASE pc' = [pc EXCEPT ![Post(o)] = "signal"] /\ UNCHANGED <<req, ctlVars>>
    BY <1>0, <1>4, <2>2 DEF PostChange, Quiet, ctlVars
  <2>3. QED
    BY <1>4, <2>1, <2>2 DEF PostChange
<1>5. CASE PostNoChange(o)
  <2>1. CASE /\ SendReq(Post(o), WriteReq(o, Counter[o] + 1))
             /\ pc' = [pc EXCEPT ![Post(o)] = "write"]
    <3>1. Counter[o] + 1 \in Nat
      BY <1>0
    <3>2. Ask(Post(o), WriteReq(o, Counter[o] + 1))
      BY <1>0, <1>5, <2>1, <3>1, WriteReqFits DEF PostNoChange, Ask
    <3>3. QED
      BY <1>0, <3>2 DEF Ask, Fits, Own
  <2>2. CASE pc' = [pc EXCEPT ![Post(o)] = "done"] /\ UNCHANGED <<req, ctlVars>>
    BY <1>0, <1>5, <2>2 DEF PostNoChange, Quiet, ctlVars
  <2>3. QED
    BY <1>5, <2>1, <2>2 DEF PostNoChange
<1>6. CASE SendScheduled(o)
  <2>1. o[2] \in DOMAIN Schedule[o[1]]
    BY <1>6 DEF SendScheduled, PreScheduled
  <2>2. Ask(Pre(o), Schedule[o[1]][o[2]])
    BY <1>0, <1>6, <2>1, ScheduleFits DEF SendScheduled, Ask
  <2>3. QED
    BY <1>0, <2>2 DEF Ask, Fits, Own
<1>7. QED
  BY <1>1, <1>2, <1>3, <1>4, <1>5, <1>6 DEF OfOp

\* A new request: its process was not waiting for another one, so its socket is empty
\* and no barrier with its key is complete; if it completes the barrier, every
\* rank of the communicator has a vote in it.
LEMMA AckAsk ==
    ASSUME TypeOK, AckInv, OneTransaction', NEW h \in Helpers, NEW q \in Requests, Ask(h, q)
    PROVE  AckInv'
<1> DEFINE ready == {u \in votes : Key(req[u]) = Key(q)} \cup {h}
<1>0. /\ DOMAIN req' = DOMAIN req \cup {h} /\ DOMAIN req' \subseteq Helpers
      /\ DOMAIN req \subseteq Helpers /\ votes \subseteq DOMAIN req
      /\ \A u \in DOMAIN req' : req'[u] = IF u = h THEN q ELSE req[u]
      /\ granted' = granted /\ inbox' = inbox /\ gaveUp' = gaveUp
  BY SendReqType DEF Ask, TypeOK
<1>1. \A u \in Helpers : Asking(u)' <=> (u = h \/ Asking(u))
  BY DEF Ask
<1>2. ~Asking(h) /\ Own(h, q) /\ Fits(h, q)
  BY DEF Ask, Fits
<1>3. \A u \in DOMAIN req : Rank(u) = Rank(h) => ~Asking(u)
  <2> SUFFICES ASSUME NEW u \in DOMAIN req, Rank(u) = Rank(h), Asking(u) PROVE FALSE
    OBVIOUS
  <2>1. u \in DOMAIN req' /\ h \in DOMAIN req' /\ Asking(u)' /\ Asking(h)'
    BY <1>0, <1>1
  <2>2. u = h
    BY <2>1 DEF OneTransaction, Rank
  <2>3. QED
    BY <2>2, <1>2
<1>4. Rank(h) \in Ranks /\ Rank(h) \in Members[q.hex] /\ q.hex \in Groups
  BY <1>2, HelperFacts DEF Rank, Own, Requests
<1>5. inbox[Rank(h)] = <<>>
  <2>1. DOMAIN inbox[Rank(h)] = {}
    BY <1>3, <1>4 DEF AckInv, LinesExpected
  <2>2. inbox[Rank(h)] \in Seq(Groups)
    BY <1>4 DEF TypeOK
  <2>3. QED
    BY <2>1, <2>2, EmptySeq
<1>6. \A p \in busy : Key(p) # Key(q)
  <2> SUFFICES ASSUME NEW p \in busy, Key(p) = Key(q) PROVE FALSE
    OBVIOUS
  <2>1. Rank(h) \in Members[p.hex]
    BY <1>4 DEF Key
  <2>2. QED
    BY <2>1, <1>3 DEF AckInv, BusyAsked
<1>7. h \notin votes
  BY <1>2 DEF AckInv, VotesWait
<1>8. \/ votes' = votes \ ready /\ busy' = busy \cup {q} /\ all_arrive(q, Cardinality(ready))
      \/ votes' = votes \cup {h} /\ busy' = busy
  BY DEF Ask, SendReq
<1>9. AskersSent'
  <2>1. \A u \in DOMAIN req' : Fits(u, req'[u])
    BY <1>0, <1>2 DEF AckInv, AskersSent
  <2>2. \A u \in Helpers : Asking(u)' => u \in DOMAIN req'
    BY <1>0, <1>1 DEF AckInv, AskersSent
  <2>3. QED
    BY <2>1, <2>2 DEF AskersSent, Fits, Own, IsPP
<1>10. VotesWait'
  <2> SUFFICES ASSUME NEW u \in votes'
               PROVE  /\ Asking(u)' /\ inbox'[Rank(u)] = <<>>
                      /\ \A p \in busy' : Key(p) # Key(req'[u])
    BY DEF VotesWait, Key
  <2>1. CASE u = h
    <3>1. busy' = busy
      BY <1>7, <1>8, <2>1
    <3>2. QED
      BY <1>0, <1>1, <1>5, <1>6, <2>1, <3>1
  <2>2. CASE u # h
    <3>1. u \in votes /\ u \in Helpers /\ req'[u] = req[u]
      BY <1>0, <1>8, <2>2
    <3>2. Asking(u) /\ inbox[Rank(u)] = <<>> /\ \A p \in busy : Key(p) # Key(req[u])
      BY <3>1 DEF AckInv, VotesWait
    <3>3. \A p \in busy' : Key(p) # Key(req[u])
      BY <1>8, <3>1, <3>2
    <3>4. QED
      BY <1>0, <1>1, <3>1, <3>2, <3>3
  <2>3. QED
    BY <2>1, <2>2
<1>11. BusyAsked'
  <2> SUFFICES ASSUME NEW p \in busy', NEW r \in Members[p.hex]
               PROVE  /\ inbox'[r] = <<>>
                      /\ \E u \in DOMAIN req' : Rank(u) = r /\ Asking(u)' /\ Key(req'[u]) = Key(p)
    BY DEF BusyAsked, Key
  <2>1. CASE p \in busy
    <3>1. PICK u \in DOMAIN req : Rank(u) = r /\ Asking(u) /\ Key(req[u]) = Key(p)
      BY <2>1 DEF AckInv, BusyAsked
    <3>2. u # h /\ u \in Helpers /\ u \in DOMAIN req' /\ req'[u] = req[u] /\ Asking(u)'
      BY <1>0, <1>1, <1>2, <3>1
    <3>3. inbox[r] = <<>>
      BY <2>1 DEF AckInv, BusyAsked
    <3>4. QED
      BY <1>0, <3>1, <3>2, <3>3
  <2>2. CASE p \notin busy
    <3>1. p = q /\ all_arrive(q, Cardinality(ready))
      BY <1>8, <2>2
    <3> DEFINE M == Members[q.hex]
    <3>2. IsFiniteSet(M) /\ Cardinality(M) \in Nat
      BY <1>4, RankInType
    <3>3. \A u \in ready : u \in DOMAIN req' /\ u \in Helpers /\ Asking(u)' /\ Key(req'[u]) = Key(q)
      BY <1>0, <1>1 DEF AckInv, VotesWait
    <3>4. \A u \in ready : Rank(u) \in M
      <4>1. ASSUME NEW u \in votes, Key(req[u]) = Key(q) PROVE Rank(u) \in M
        <5>1. Fits(u, req[u])
          BY <1>0 DEF AckInv, AskersSent
        <5>2. QED
          BY <4>1, <5>1 DEF Fits, Own, Rank, Key
      <4>2. QED
        BY <4>1, <1>4
    <3>5. \A u, v \in ready : Rank(u) = Rank(v) => u = v
      BY <3>3 DEF OneTransaction, Rank
    <3>6. Cardinality(ready) >= Cardinality(M)
      <4>1. IsFiniteSet(ready)
        <5>1. ASSUME NEW u \in ready, NEW v \in ready, Rank(u) = Rank(v) PROVE u = v
          BY <3>5, <5>1
        <5>2. [u \in ready |-> Rank(u)] \in Injection(ready, M)
          BY <3>4, <3>5 DEF Injection, IsInjective
        <5>3. QED
          BY <3>2, <5>2, FS_Injection
      <4>2. Cardinality(ready) \in Nat
        BY <4>1, FS_CardinalityType
      <4>3. IsPP(q) => Cardinality(M) <= 2
        BY <1>2 DEF Fits
      <4>4. QED
        BY <3>1, <3>2, <4>2, <4>3 DEF all_arrive
    <3> HIDE DEF ready
    <3>7. PICK u \in ready : Rank(u) = r
      BY <3>1, <3>2, <3>4, <3>5, <3>6, EveryMember
    <3>8. inbox[Rank(u)] = <<>>
      BY <1>5 DEF ready, AckInv, VotesWait
    <3>9. QED
      BY <1>0, <3>1, <3>3, <3>7, <3>8
  <2>3. QED
    BY <2>1, <2>2
<1>12. BusyOnce'
  BY <1>6, <1>8 DEF AckInv, BusyOnce, Key
<1>13. LinesExpected'
  <2> SUFFICES ASSUME NEW r \in Ranks, NEW j \in DOMAIN inbox[r]
               PROVE  \E u \in DOMAIN req' : /\ Rank(u) = r /\ Asking(u)'
                                             /\ req'[u].hex = inbox[r][j] /\ Key(req'[u]) \in granted
    BY <1>0 DEF LinesExpected, Key
  <2>1. PICK u \in DOMAIN req : /\ Rank(u) = r /\ Asking(u) /\ req[u].hex = inbox[r][j]
                                /\ Key(req[u]) \in granted
    BY DEF AckInv, LinesExpected
  <2>2. u # h /\ u \in DOMAIN req' /\ req'[u] = req[u] /\ Asking(u)'
    BY <1>0, <1>1, <1>2, <2>1
  <2>3. QED
    BY <2>1, <2>2
<1>14. AckExact'
  <2> SUFFICES ASSUME NEW u \in DOMAIN req', ~Asking(u)', u \notin gaveUp'
               PROVE  Key(req'[u]) \in granted'
    BY DEF AckExact, Key
  <2>1. u # h /\ u \in DOMAIN req /\ req'[u] = req[u] /\ ~Asking(u) /\ u \notin gaveUp
    BY <1>0, <1>1
  <2>2. QED
    BY <1>0, <2>1 DEF AckInv, AckExact
<1>15. QED
  BY <1>9, <1>10, <1>11, <1>12, <1>13, <1>14 DEF AckInv

\* A step that neither asks nor answers.
LEMMA AckQuiet ==
    ASSUME TypeOK, AckInv, Quiet
    PROVE  AckInv'
<1>0. /\ req' = req /\ votes' = votes /\ busy' = busy /\ granted' = granted /\ inbox' = inbox
      /\ gaveUp \subseteq gaveUp'
      /\ \A u \in Helpers : Asking(u)' <=> Asking(u)
      /\ DOMAIN req \subseteq Helpers /\ votes \subseteq Helpers
  BY DEF Quiet, TypeOK
<1>1. AskersSent'
  BY <1>0 DEF AckInv, AskersSent, Fits, Own, IsPP
<1>2. VotesWait'
  BY <1>0 DEF AckInv, VotesWait, Key
<1>3. BusyAsked'
  <2>1. ASSUME NEW q \in busy, NEW r \in Members[q.hex]
        PROVE  \E u \in DOMAIN req : Rank(u) = r /\ Asking(u)' /\ Key(req[u]) = Key(q)
    BY <1>0 DEF AckInv, BusyAsked
  <2>2. QED
    BY <1>0, <2>1 DEF AckInv, BusyAsked, Key
<1>4. BusyOnce'
  BY <1>0 DEF AckInv, BusyOnce, Key
<1>5. LinesExpected'
  <2>1. ASSUME NEW r \in Ranks, NEW j \in DOMAIN inbox[r]
        PROVE  \E u \in DOMAIN req : /\ Rank(u) = r /\ Asking(u)' /\ req[u].hex = inbox[r][j]
                                     /\ Key(req[u]) \in granted
    BY <1>0 DEF AckInv, LinesExpected
  <2>2. QED
    BY <1>0, <2>1 DEF LinesExpected, Key
<1>6. AckExact'
  BY <1>0 DEF AckInv, AckExact, Key
<1>7. QED
  BY <1>1, <1>2, <1>3, <1>4, <1>5, <1>6 DEF AckInv

\* One recv: all lines that are there acknowledge the request of the helper that reads
\* them, because no other helper of the process waits.
LEMMA AckReceive ==
    ASSUME TypeOK, AckInv, OneTransaction, NEW h \in Helpers, Receive(h)
    PROVE  AckInv'
<1> DEFINE r == Rank(h)
<1>0. /\ req' = req /\ votes' = votes /\ busy' = busy /\ granted' = granted /\ gaveUp' = gaveUp
      /\ inbox' = [inbox EXCEPT ![r] = <<>>] /\ inbox[r] # <<>> /\ r \in Ranks
      /\ DOMAIN req \subseteq Helpers /\ votes \subseteq DOMAIN req
      /\ h \in DOMAIN req /\ Asking(h)
  BY HelperFacts DEF Receive, TypeOK, ctlVars, Rank, AckInv, AskersSent
<1> HIDE DEF r
<1>1. \A s \in Ranks : inbox'[s] = IF s = r THEN <<>> ELSE inbox[s]
  BY <1>0 DEF TypeOK
<1>2. \A u \in DOMAIN req : (Rank(u) = r /\ Asking(u)) => u = h
  BY <1>0 DEF OneTransaction, Rank, r
<1>3. \E j \in DOMAIN inbox[r] : TRUE
  <2>1. inbox[r] \in Seq(Groups)
    BY <1>0 DEF TypeOK
  <2>2. QED
    BY <1>0, <2>1, EmptySeq
<1>4. \A j \in DOMAIN inbox[r] : inbox[r][j] = req[h].hex /\ Key(req[h]) \in granted
  BY <1>0, <1>2 DEF AckInv, LinesExpected
<1>5. ~Asking(h)' /\ \A u \in Helpers : u # h => (Asking(u)' <=> Asking(u))
  <2>1. pc' = [pc EXCEPT ![h] = Resume(h)]
    BY <1>3, <1>4 DEF Receive, r, Rank
  <2>2. Resume(h) \notin {"write", "provision", "sched"}
    BY <1>0 DEF Resume, Asking
  <2>3. QED
    BY <2>1, <2>2 DEF Asking, TypeOK
<1>6. AskersSent'
  BY <1>0, <1>5 DEF AckInv, AskersSent, Fits, Own, IsPP
<1>7. VotesWait'
  <2>1. ASSUME NEW u \in votes PROVE u # h /\ Rank(u) # r /\ Rank(u) \in Ranks /\ u \in Helpers
    BY <1>0, <1>2, HelperFacts DEF AckInv, VotesWait, Rank, r
  <2>2. QED
    BY <1>0, <1>1, <1>5, <2>1 DEF AckInv, VotesWait, Key
<1>8. BusyAsked'
  <2> SUFFICES ASSUME NEW q \in busy, NEW s \in Members[q.hex]
               PROVE  /\ inbox'[s] = <<>>
                      /\ \E u \in DOMAIN req : Rank(u) = s /\ Asking(u)' /\ Key(req[u]) = Key(q)
    BY <1>0 DEF BusyAsked, Key
  <2>1. inbox[s] = <<>> /\ s # r
    BY <1>0 DEF AckInv, BusyAsked
  <2>2. PICK u \in DOMAIN req : Rank(u) = s /\ Asking(u) /\ Key(req[u]) = Key(q)
    BY DEF AckInv, BusyAsked
  <2>3. u # h /\ s \in Ranks /\ u \in Helpers
    BY <1>0, <2>1, <2>2, HelperFacts DEF r, Rank
  <2>4. QED
    BY <1>1, <1>5, <2>1, <2>2, <2>3
<1>9. BusyOnce'
  BY <1>0 DEF AckInv, BusyOnce, Key
<1>10. LinesExpected'
  <2> SUFFICES ASSUME NEW s \in Ranks, NEW j \in DOMAIN inbox'[s]
               PROVE  \E u \in DOMAIN req : /\ Rank(u) = s /\ Asking(u)'
                                            /\ req[u].hex = inbox'[s][j] /\ Key(req[u]) \in granted
    BY <1>0 DEF LinesExpected, Key
  <2>1. s # r /\ inbox'[s] = inbox[s]
    BY <1>1
  <2>2. PICK u \in DOMAIN req : /\ Rank(u) = s /\ Asking(u) /\ req[u].hex = inbox[s][j]
                                /\ Key(req[u]) \in granted
    BY <2>1 DEF AckInv, LinesExpected
  <2>3. u # h /\ u \in Helpers
    BY <1>0, <2>1, <2>2 DEF r
  <2>4. QED
    BY <1>5, <2>1, <2>2, <2>3
<1>11. AckExact'
  <2> SUFFICES ASSUME NEW u \in DOMAIN req, ~Asking(u)', u \notin gaveUp
               PROVE  Key(req[u]) \in granted
    BY <1>0 DEF AckExact, Key
  <2>1. CASE u = h
    BY <1>3, <1>4, <2>1
  <2>2. CASE u # h
    BY <1>0, <1>5, <2>2 DEF AckInv, AckExact
  <2>3. QED
    BY <2>1, <2>2
<1>12. QED
  BY <1>6, <1>7, <1>8, <1>9, <1>10, <1>11 DEF AckInv

\* The acknowledgement goes to ranks that all wait for it, with empty sockets.
LEMMA AckGrant ==
    ASSUME TypeOK, AckInv, OneTransaction, NEW q \in busy, Grant(q)
    PROVE  AckInv'
<1>0. /\ req' = req /\ votes' = votes /\ busy' = busy \ {q} /\ granted' = granted \cup {Key(q)}
      /\ gaveUp' = gaveUp /\ pc' = pc
      /\ DOMAIN req \subseteq Helpers /\ votes \subseteq DOMAIN req
  BY ControllerKeeps DEF Grant, TypeOK
<1>1. \A r \in Ranks : inbox'[r] = IF r \in Members[q.hex] THEN Append(inbox[r], q.hex) ELSE inbox[r]
  BY DEF Grant
<1>2. \A u : Asking(u)' <=> Asking(u)
  BY <1>0 DEF Asking
<1>3. \A u \in DOMAIN req : (Asking(u) /\ Rank(u) \in Members[q.hex]) => Key(req[u]) = Key(q)
  <2> SUFFICES ASSUME NEW u \in DOMAIN req, Asking(u), Rank(u) \in Members[q.hex]
               PROVE  Key(req[u]) = Key(q)
    OBVIOUS
  <2>1. PICK v \in DOMAIN req : Rank(v) = Rank(u) /\ Asking(v) /\ Key(req[v]) = Key(q)
    BY DEF AckInv, BusyAsked
  <2>2. v = u
    BY <2>1 DEF OneTransaction, Rank
  <2>3. QED
    BY <2>1, <2>2
<1>4. AskersSent'
  BY <1>0, <1>2 DEF AckInv, AskersSent, Fits, Own, IsPP
<1>5. VotesWait'
  <2> SUFFICES ASSUME NEW u \in votes
               PROVE  /\ Asking(u) /\ inbox'[Rank(u)] = <<>>
                      /\ \A p \in busy' : Key(p) # Key(req[u])
    BY <1>0, <1>2 DEF VotesWait, Key
  <2>1. Asking(u) /\ inbox[Rank(u)] = <<>> /\ \A p \in busy : Key(p) # Key(req[u])
    BY DEF AckInv, VotesWait
  <2>2. Rank(u) \notin Members[q.hex] /\ Rank(u) \in Ranks
    BY <1>0, <1>3, <2>1, HelperFacts DEF Rank
  <2>3. QED
    BY <1>0, <1>1, <2>1, <2>2
<1>6. BusyAsked'
  <2> SUFFICES ASSUME NEW p \in busy, p # q, NEW r \in Members[p.hex]
               PROVE  /\ inbox'[r] = <<>>
                      /\ \E u \in DOMAIN req : Rank(u) = r /\ Asking(u) /\ Key(req[u]) = Key(p)
    BY <1>0, <1>2 DEF BusyAsked, Key
  <2>1. inbox[r] = <<>>
    BY DEF AckInv, BusyAsked
  <2>2. PICK u \in DOMAIN req : Rank(u) = r /\ Asking(u) /\ Key(req[u]) = Key(p)
    BY DEF AckInv, BusyAsked
  <2>3. r \notin Members[q.hex]
    BY <1>3, <2>2 DEF AckInv, BusyOnce
  <2>4. r \in Ranks
    BY <1>0, <2>2, HelperFacts DEF Rank
  <2>5. QED
    BY <1>1, <2>1, <2>2, <2>3, <2>4
<1>7. BusyOnce'
  BY <1>0 DEF AckInv, BusyOnce, Key
<1>8. LinesExpected'
  <2> SUFFICES ASSUME NEW r \in Ranks, NEW j \in DOMAIN inbox'[r]
               PROVE  \E u \in DOMAIN req : /\ Rank(u) = r /\ Asking(u) /\ req[u].hex = inbox'[r][j]
                                            /\ Key(req[u]) \in granted'
    BY <1>0, <1>2 DEF LinesExpected, Key
  <2>1. CASE r \in Members[q.hex]
    <3>1. inbox[r] = <<>>
      BY <2>1 DEF AckInv, BusyAsked
    <3>2. inbox'[r] = <<q.hex>>
      <4>1. Append(<<>>, q.hex) = <<q.hex>>
        OBVIOUS
      <4>2. inbox'[r] = Append(inbox[r], q.hex)
        BY <1>1, <2>1
      <4>3. QED
        BY <3>1, <4>1, <4>2
    <3>3. inbox'[r][j] = q.hex
      <4>1. \A k \in DOMAIN <<q.hex>> : <<q.hex>>[k] = q.hex
        OBVIOUS
      <4>2. QED
        BY <3>2, <4>1, Zenon
    <3>4. PICK u \in DOMAIN req : Rank(u) = r /\ Asking(u) /\ Key(req[u]) = Key(q)
      BY <2>1 DEF AckInv, BusyAsked
    <3>5. QED
      BY <1>0, <3>3, <3>4 DEF Key
  <2>2. CASE r \notin Members[q.hex]
    BY <1>0, <1>1, <2>2 DEF AckInv, LinesExpected
  <2>3. QED
    BY <2>1, <2>2
<1>9. AckExact'
  BY <1>0, <1>2 DEF AckInv, AckExact, Key
<1>10. QED
  BY <1>4, <1>5, <1>6, <1>7, <1>8, <1>9 DEF AckInv

LEMMA AckInit == ASSUME Init PROVE AckInv
<1>1. /\ DOMAIN req = {} /\ votes = {} /\ busy = {}
      /\ \A r \in Ranks : inbox[r] = <<>>
      /\ \A h \in Helpers : pc[h] \in {"new", "done"}
  BY DEF Init
<1>2. AskersSent
  BY <1>1 DEF AskersSent, Asking
<1>3. VotesWait /\ BusyAsked /\ BusyOnce /\ LinesExpected /\ AckExact
  BY <1>1 DEF VotesWait, BusyAsked, BusyOnce, LinesExpected, AckExact
<1>4. QED
  BY <1>2, <1>3 DEF AckInv

\* A step without a timeout, when the requests of a process are serialized before it
\* and after it.
LEMMA AckStep ==
    ASSUME StagesKnown, PipelinePairs, TypeInv, AckInv, OneTransaction, OneTransaction',
           [Next]_vars, \A h \in Helpers : ~Timeout(h)
    PROVE  AckInv'
<1>0. TypeOK
  BY DEF TypeInv
<1>1. ASSUME NEW r \in Ranks, Issue(r) PROVE Quiet
  BY <1>1 DEF Issue, Quiet, ctlVars, Asking
<1>2. CASE UNCHANGED vars
  <2>1. Quiet
    BY <1>2 DEF vars, Quiet, ctlVars, Asking
  <2>2. QED
    BY <1>0, <2>1, AckQuiet
<1>3. ASSUME NEW h \in Helpers, OfHelper(h) PROVE AckInv'
  <2>1. CASE Receive(h)
    BY <1>0, <2>1, AckReceive
  <2>2. CASE Signal(h)
    <3>1. Quiet
      BY <1>0, <2>2 DEF Signal, Quiet, ctlVars, Asking, TypeOK
    <3>2. QED
      BY <1>0, <3>1, AckQuiet
  <2>3. CASE ScheduledTimeout(h)
    <3>1. Quiet
      BY <2>3 DEF ScheduledTimeout, Quiet, ctlVars, Asking
    <3>2. QED
      BY <1>0, <3>1, AckQuiet
  <2>4. QED
    BY <1>3, <2>1, <2>2, <2>3 DEF OfHelper
<1>4. ASSUME NEW o \in Ops, OfOp(o) PROVE AckInv'
  BY <1>0, <1>4, OpAsks, AckQuiet, AckAsk
<1>5. ASSUME NEW q \in busy, Grant(q) PROVE AckInv'
  BY <1>0, <1>5, AckGrant
<1>6. ASSUME NEW q \in busy, Tends(q) PROVE Quiet
  BY <1>6, TendsQuiet
<1>7. QED
  BY <1>0, <1>1, <1>2, <1>3, <1>4, <1>5, <1>6, StepCases, AckQuiet

-----------------------------------------------------------------------------
(* Provisioning: the gate between stages *)

\* Provisioning with pre_coll on the issuing thread, and no pipeline backend, whose post
\* helpers send requests of their own.
Provisioning ==
    Mode = 1 /\ UseCudaStream \in {0, 2} /\ \A g \in Groups : ~is_pp_backend_(g)

\* Operation o is the one that the pattern of its process names as the end of stage i.
EndsAt(o, i) ==
    /\ Managed(o) /\ i < Len(Pattern[o[1]])
    /\ Backend(o) = Pattern[o[1]][i + 1].eb % PP_BACKEND_INTERVAL
    /\ Counter[o] = Pattern[o[1]][i + 1].ec

StagesOf(o) == 0..Len(Pattern[o[1]]) - 1

\* The pattern fits the program: its stages end in the order of the program, each at one
\* operation, and none is missing before another.
PatternInOrder ==
    /\ \A o, p \in Ops : o[1] = p[1] =>
          \A i, j \in StagesOf(o) : (EndsAt(o, i) /\ EndsAt(p, j)) => (i < j <=> o[2] < p[2])
    /\ \A o \in Ops : \A i, j \in StagesOf(o) :
          (EndsAt(o, i) /\ j < i) => \E p \in Ops : p[1] = o[1] /\ EndsAt(p, j)

\* Helpers that ask for the next stage or are about to open the gate.
Outstanding(o) == pc[Post(o)] \in {"provision", "signal"}

GLabels ==
    \A o \in Ops :
        /\ pc[Pre(o)] \in {"new", "decide", "finish", "done"}
        /\ pc[Post(o)] \in {"new", "provision", "signal", "done"}
        /\ ~Managed(o) => pc[Pre(o)] = "done" /\ pc[Post(o)] = "done"

\* Pre helpers run in the order of the program.
GOrder ==
    \A o \in Ops :
        /\ Issued(o) => pc[Pre(o)] = "done"
        /\ pc[Pre(o)] \in {"decide", "finish"} => o[2] = pos[o[1]]
        /\ (Managed(o) /\ pc[Pre(o)] = "done") => o[2] <= pos[o[1]]
        /\ pc[Post(o)] # "new" /\ Managed(o) => Issued(o)

\* Between the decision and the end of a pre helper.
GChange ==
    \A o \in Ops :
        /\ pc[Pre(o)] \in {"new", "decide"} => o \notin change
        /\ pc[Pre(o)] = "finish" => (o \in change <=> EndsAt(o, curCommStageIdx_[o[1]]))

\* The stage index of the pre helpers is past every stage end they have seen, that of the
\* post helpers past the ones they have not.
GIndex ==
    \A o \in Ops : \A i \in StagesOf(o) : EndsAt(o, i) =>
        /\ pc[Pre(o)] = "done" => i < curCommStageIdx_[o[1]]
        /\ i < curCommStageIdx_post_[o[1]] => pc[Post(o)] # "new"

\* The gate is closed from the end of a stage until its request is over, by one helper.
GGate ==
    /\ \A r \in Ranks :
        /\ curCommStageIdx_[r] \in {curCommStageIdx_post_[r], curCommStageIdx_post_[r] + 1}
        /\ curCommStageIdx_[r] = curCommStageIdx_post_[r] + 1 => ~topo_ready[r]
    /\ \A o \in Ops : Outstanding(o) =>
        ~topo_ready[o[1]] /\ curCommStageIdx_[o[1]] = curCommStageIdx_post_[o[1]]
    /\ \A o, p \in Ops : (Outstanding(o) /\ Outstanding(p) /\ o[1] = p[1]) => o = p
    /\ \A o \in Ops : pc[Pre(o)] \in {"decide", "finish"} => topo_ready[o[1]]

\* Whoever has passed the gate has left the ends of earlier stages behind.
GBehind ==
    \A o \in Ops : \A p \in Earlier[o] :
        (Managed(o) /\ pc[Pre(o)] # "new" /\ \E i \in StagesOf(p) : EndsAt(p, i)) =>
            pc[Post(p)] = "done"

\* A post helper runs when its operation, and what its stream waits for, has run.
GRan ==
    \A o \in Ops :
        /\ (Managed(o) /\ pc[Post(o)] # "new") =>
              (Grp(o) \in Coalesced \/ o \in ran) /\ Before[o] \subseteq ran
        /\ pc[Post(o)] = "provision" => \E i \in StagesOf(o) : EndsAt(o, i)

GInv == GLabels /\ GOrder /\ GChange /\ GIndex /\ GGate /\ GBehind /\ GRan

GateInv == ~hasSchedule => GInv

\* What a stage end waits for: its stream, and the ends of earlier stages, come after all
\* earlier operations, and it is not launched by endCoalescing.
StagesClosed ==
    \A o \in Ops : (\E i \in StagesOf(o) : EndsAt(o, i)) =>
        /\ Grp(o) \notin Coalesced
        /\ \A p \in Earlier[o] : Managed(p) =>
              \/ p \in Before[o]
              \/ \E q \in Earlier[o] : /\ \E i \in StagesOf(q) : EndsAt(q, i)
                                       /\ p = q \/ p \in Before[q]

-----------------------------------------------------------------------------
(* Replay: the gate around a scheduled request *)

\* Only managed operations are scheduled: the profile has no others.
ScheduledManaged == \A o \in Ops : o[2] \in DOMAIN Schedule[o[1]] => Managed(o)

Deferred(o) == pc[Pre(o)] \in {"queued", "sched", "signal"}

RLabels ==
    \A o \in Ops :
        /\ pc[Pre(o)] \in {"new", "queued", "sched", "signal", "done"}
        /\ pc[Post(o)] \in {"new", "done"}

\* The gate is closed while a request is deferred, and there is one at a time.
RGate ==
    /\ \A o \in Ops : Deferred(o) => ~topo_ready[o[1]]
    /\ \A o, p \in Ops : (Deferred(o) /\ Deferred(p) /\ o[1] = p[1]) => o = p

\* A scheduled operation is issued after its request is deferred, and later operations
\* after the request is over.
ROrder ==
    \A o \in Ops : Issued(o) =>
        /\ pc[Pre(o)] # "new"
        /\ \A p \in Earlier[o] : pc[Pre(p)] = "done"

\* A request that is over is the scheduled one; who waited in vain still waits, in a
\* process that an exception ended.
RSent ==
    /\ \A o \in Ops : (HasPre(o) /\ pc[Pre(o)] \in {"sched", "signal", "done"}) =>
          Pre(o) \in DOMAIN req /\ req[Pre(o)] = Schedule[o[1]][o[2]]
    /\ \A h \in gaveUp : pc[h] = "sched" /\ h[2][1] \in aborted

RInv == RLabels /\ RGate /\ ROrder /\ RSent

ReplayInv == hasSchedule => RInv

-----------------------------------------------------------------------------
(* The gate between stages is inductive *)

LEMMA OffStream == ASSUME Provisioning PROVE ~PreOnStream
BY DEF Provisioning, PreOnStream

\* The stage ends that the helpers see are those of the pattern.
LEMMA EndsFacts ==
    ASSUME ~hasSchedule, NEW o \in Ops, Managed(o)
    PROVE  /\ \A i \in Nat : is_comm_change_after(o, i) <=> EndsAt(o, i)
           /\ \A i \in Nat : EndsAt(o, i) => i \in StagesOf(o)
           /\ EndsStage(o) <=> \E i \in StagesOf(o) : EndsAt(o, i)
           /\ StagesOf(o) \subseteq Nat
<1>1. Stages(o[1]) = Pattern[o[1]]
  BY DEF Stages
<1>2. PICK S : Pattern[o[1]] \in Seq(S)
  BY OpFacts, ProgramAssumption
<1>3. Len(Pattern[o[1]]) \in Nat
  BY <1>2, SeqFacts
<1>4. \A i : is_comm_change_after(o, i) <=> EndsAt(o, i)
  BY <1>1 DEF is_comm_change_after, EndsAt, Stage
<1>5. \A i \in Nat : EndsAt(o, i) => i \in StagesOf(o)
  BY <1>3 DEF EndsAt, StagesOf
<1>6. ASSUME EndsStage(o) PROVE \E i \in StagesOf(o) : EndsAt(o, i)
  <2>1. PICK j \in 1..Len(Pattern[o[1]]) : EndsAt(o, j - 1)
    BY <1>1, <1>4, <1>6 DEF EndsStage
  <2>2. j - 1 \in StagesOf(o)
    BY <1>3, <2>1 DEF StagesOf
  <2>3. QED
    BY <2>1, <2>2
<1>7. ASSUME NEW i \in StagesOf(o), EndsAt(o, i) PROVE EndsStage(o)
  <2>1. i + 1 \in 1..Len(Pattern[o[1]]) /\ (i + 1) - 1 = i
    BY <1>3 DEF StagesOf
  <2>2. is_comm_change_after(o, (i + 1) - 1)
    BY <1>4, <1>7, <2>1
  <2>3. QED
    BY <1>1, <2>1, <2>2 DEF EndsStage
<1>8. StagesOf(o) \subseteq Nat
  BY <1>3 DEF StagesOf
<1>9. QED
  BY <1>4, <1>5, <1>6, <1>7, <1>8

\* Facts about the operations that every step needs.
LEMMA GFacts ==
    ASSUME TypeOK
    PROVE  /\ \A p \in Ops : p[1] \in Ranks /\ p[2] \in Nat /\ p = <<p[1], p[2]>>
           /\ \A p \in Ops : Pre(p) \in Helpers /\ Post(p) \in Helpers
           /\ \A p, q \in Ops : Pre(p) # Post(q) /\ (Pre(p) = Pre(q) <=> p = q)
                                 /\ (Post(p) = Post(q) <=> p = q)
           /\ \A p \in Ops : pos[p[1]] \in Nat /\ curCommStageIdx_[p[1]] \in Nat
                              /\ curCommStageIdx_post_[p[1]] \in Nat
           /\ \A p \in Ops : StagesOf(p) \subseteq Int
           /\ \A p \in Ops : \A q \in Earlier[p] : q \in Ops /\ q[1] = p[1] /\ q[2] < p[2]
           /\ \A p \in Ops : Before[p] \subseteq Earlier[p]
<1>1. \A p \in Ops : /\ p[1] \in Ranks /\ p[2] \in Nat /\ p = <<p[1], p[2]>>
                     /\ Pre(p) \in Helpers /\ Post(p) \in Helpers
  BY OpFacts
<1>2. \A p, q \in Ops : Pre(p) # Post(q) /\ (Pre(p) = Pre(q) <=> p = q)
                         /\ (Post(p) = Post(q) <=> p = q)
  BY HelpersDiffer
<1>3. \A p \in Ops : pos[p[1]] \in Nat /\ curCommStageIdx_[p[1]] \in Nat
                      /\ curCommStageIdx_post_[p[1]] \in Nat
  BY <1>1 DEF TypeOK
<1>4. \A p \in Ops : \A q \in Earlier[p] : q \in Ops /\ q[1] = p[1] /\ q[2] < p[2]
  BY DEF Earlier
<1>5. \A p \in Ops : Before[p] \subseteq Earlier[p]
  BY DEF Before
<1>6. \A p \in Ops : StagesOf(p) \subseteq Int
  BY DEF StagesOf
<1>7. QED
  BY <1>1, <1>2, <1>3, <1>4, <1>5, <1>6

LEMMA GateIssue ==
    ASSUME Provisioning, TypeOK, GInv, NEW r \in Ranks, Issue(r)
    PROVE  GInv'
<1>1. UNCHANGED <<ran, pc, change, curCommStageIdx_, curCommStageIdx_post_, topo_ready>>
  BY DEF Issue, procVars
<1>2. /\ pos' = [pos EXCEPT ![r] = @ + 1] /\ <<r, pos[r]>> \in Ops
      /\ pc[Pre(<<r, pos[r]>>)] = "done"
  BY OffStream DEF Issue
<1>3. pos[r] \in Nat /\ \A s \in Ranks : pos'[s] = IF s = r THEN pos[r] + 1 ELSE pos[s]
  BY <1>2 DEF TypeOK
<1>4. GOrder'
  <2> SUFFICES ASSUME NEW p \in Ops
               PROVE  /\ p[2] < pos'[p[1]] => pc[Pre(p)] = "done"
                      /\ pc[Pre(p)] \in {"decide", "finish"} => p[2] = pos'[p[1]]
                      /\ (Managed(p) /\ pc[Pre(p)] = "done") => p[2] <= pos'[p[1]]
                      /\ (pc[Post(p)] # "new" /\ Managed(p)) => p[2] < pos'[p[1]]
    BY <1>1 DEF GOrder, Issued
  <2>1. p[1] \in Ranks /\ p[2] \in Nat /\ p = <<p[1], p[2]>> /\ pos[p[1]] \in Nat
    BY GFacts
  <2>2. /\ p[2] < pos[p[1]] => pc[Pre(p)] = "done"
        /\ pc[Pre(p)] \in {"decide", "finish"} => p[2] = pos[p[1]]
        /\ (Managed(p) /\ pc[Pre(p)] = "done") => p[2] <= pos[p[1]]
        /\ (pc[Post(p)] # "new" /\ Managed(p)) => p[2] < pos[p[1]]
    BY DEF GInv, GOrder, Issued
  <2>3. (p[1] = r /\ p[2] = pos[r]) => pc[Pre(p)] = "done"
    BY <1>2, <2>1
  <2>4. QED
    BY <1>3, <2>1, <2>2, <2>3
<1>5. QED
  BY <1>1, <1>4 DEF GInv, GLabels, GChange, GIndex, GGate, GBehind, GRan, Outstanding

LEMMA GateRun ==
    ASSUME GInv, NEW o \in Ops, Run(o)
    PROVE  GInv'
<1>1. UNCHANGED <<pos, pc, change, curCommStageIdx_, curCommStageIdx_post_, topo_ready>>
      /\ ran \subseteq ran'
  BY DEF Run, procVars
<1>2. GRan'
  BY <1>1 DEF GInv, GRan
<1>3. QED
  BY <1>1, <1>2 DEF GInv, GLabels, GOrder, GChange, GIndex, GGate, GBehind, Outstanding, Issued

\* The gate is open: every earlier stage end is over.
LEMMA GatePreGate ==
    ASSUME Provisioning, ~hasSchedule, TypeOK, GInv, NEW o \in Ops, PreGate(o)
    PROVE  GInv'
<1>1. UNCHANGED <<pos, ran, change, curCommStageIdx_, curCommStageIdx_post_, topo_ready>>
  BY DEF PreGate, procVars
<1>2. /\ pc[Pre(o)] = "new" /\ topo_ready[o[1]] /\ pos[o[1]] = o[2] /\ Managed(o)
  BY OffStream DEF PreGate, PreRuns, GInv, GLabels
<1>3. /\ \A p \in Ops : pc'[Pre(p)] = IF p = o THEN "decide" ELSE pc[Pre(p)]
      /\ \A p \in Ops : pc'[Post(p)] = pc[Post(p)]
  BY GFacts DEF PreGate, TypeOK
<1>4. GLabels' /\ GChange' /\ GRan'
  BY <1>1, <1>2, <1>3 DEF GInv, GLabels, GChange, GRan
<1>5. GOrder'
  BY <1>1, <1>2, <1>3, GFacts DEF GInv, GOrder, Issued
<1>6. GIndex'
  BY <1>1, <1>2, <1>3 DEF GInv, GIndex
<1>7. GGate'
  BY <1>1, <1>2, <1>3 DEF GInv, GGate, Outstanding
<1>8. ASSUME NEW p \in Earlier[o], NEW i \in StagesOf(p), EndsAt(p, i) PROVE pc[Post(p)] = "done"
  <2>1. p \in Ops /\ p[1] = o[1] /\ p[2] < o[2] /\ Managed(p)
    BY <1>8, GFacts DEF EndsAt
  <2>2. pc[Pre(p)] = "done"
    BY <1>2, <2>1 DEF GInv, GOrder, Issued
  <2>3. i < curCommStageIdx_[o[1]]
    BY <1>8, <2>1, <2>2 DEF GInv, GIndex
  <2>4. curCommStageIdx_[o[1]] = curCommStageIdx_post_[o[1]] /\ ~Outstanding(p)
    BY <1>2, <2>1, GFacts DEF GInv, GGate
  <2>5. pc[Post(p)] # "new"
    BY <1>8, <2>1, <2>3, <2>4 DEF GInv, GIndex
  <2>6. QED
    BY <2>1, <2>4, <2>5 DEF GInv, GLabels, Outstanding
<1>9. GBehind'
  <2> SUFFICES ASSUME NEW q \in Ops, NEW p \in Earlier[q], Managed(q), pc'[Pre(q)] # "new",
                      NEW i \in StagesOf(p), EndsAt(p, i)
               PROVE  pc'[Post(p)] = "done"
    BY DEF GBehind
  <2>1. p \in Ops
    BY GFacts
  <2>2. pc[Post(p)] = "done"
    BY <1>3, <1>8 DEF GInv, GBehind
  <2>3. QED
    BY <1>3, <2>1, <2>2
<1>10. QED
  BY <1>4, <1>5, <1>6, <1>7, <1>9 DEF GInv

\* The decision is about the current stage.
LEMMA GatePreDecide ==
    ASSUME Provisioning, ~hasSchedule, TypeOK, GInv, NEW o \in Ops, PreDecide(o)
    PROVE  GInv'
<1> DEFINE i == curCommStageIdx_[o[1]]
<1>1. UNCHANGED <<pos, ran, curCommStageIdx_, curCommStageIdx_post_, topo_ready>>
  BY DEF PreDecide, procVars
<1>2. pc[Pre(o)] = "decide" /\ Managed(o) /\ pc' = [pc EXCEPT ![Pre(o)] = "finish"]
  BY DEF PreDecide, Provisioning, GInv, GLabels
<1>3. /\ \A p \in Ops : pc'[Pre(p)] = IF p = o THEN "finish" ELSE pc[Pre(p)]
      /\ \A p \in Ops : pc'[Post(p)] = pc[Post(p)]
  BY <1>2, GFacts DEF TypeOK
<1>4. change' = IF EndsAt(o, i) THEN change \cup {o} ELSE change
  BY <1>2, GFacts, EndsFacts DEF PreDecide
<1>5. GLabels' /\ GRan'
  BY <1>1, <1>2, <1>3 DEF GInv, GLabels, GRan
<1>6. GOrder'
  BY <1>1, <1>2, <1>3 DEF GInv, GOrder, Issued
<1>7. GIndex' /\ GBehind'
  <2>1. GIndex'
    BY <1>1, <1>2, <1>3 DEF GInv, GIndex
  <2>2. GBehind'
    BY <1>2, <1>3, GFacts DEF GInv, GBehind
  <2>3. QED
    BY <2>1, <2>2
<1>8. GGate'
  BY <1>1, <1>2, <1>3 DEF GInv, GGate, Outstanding
<1>9. GChange'
  <2> SUFFICES ASSUME NEW p \in Ops
               PROVE  /\ pc'[Pre(p)] \in {"new", "decide"} => p \notin change'
                      /\ pc'[Pre(p)] = "finish" =>
                            (p \in change' <=> EndsAt(p, curCommStageIdx_[p[1]]))
    BY <1>1 DEF GChange
  <2>1. CASE p = o
    BY <1>2, <1>3, <1>4, <2>1 DEF GInv, GChange
  <2>2. CASE p # o
    BY <1>3, <1>4, <2>2 DEF GInv, GChange
  <2>3. QED
    BY <2>1, <2>2
<1>10. QED
  BY <1>5, <1>6, <1>7, <1>8, <1>9 DEF GInv

\* The end of a stage closes the gate and is the next one to be posted.
LEMMA GatePreFinish ==
    ASSUME PatternInOrder, ~hasSchedule, TypeOK, GInv, NEW o \in Ops, PreFinish(o)
    PROVE  GInv'
<1> DEFINE r == o[1]
           c == curCommStageIdx_[r]
<1>1. UNCHANGED <<pos, ran, change, curCommStageIdx_post_>>
  BY DEF PreFinish
<1>2. pc[Pre(o)] = "finish" /\ Managed(o) /\ o[2] = pos[r] /\ topo_ready[r]
  BY DEF PreFinish, GInv, GLabels, GOrder, GGate
<1>3. /\ \A p \in Ops : pc'[Pre(p)] = IF p = o THEN "done" ELSE pc[Pre(p)]
      /\ \A p \in Ops : pc'[Post(p)] = pc[Post(p)]
  BY GFacts DEF PreFinish, TypeOK
<1>4. /\ r \in Ranks /\ c \in Nat
      /\ \A s \in Ranks : topo_ready'[s] = IF s = r THEN o \notin change ELSE topo_ready[s]
      /\ \A s \in Ranks : curCommStageIdx_'[s] =
            IF s = r THEN c + (IF o \in change THEN 1 ELSE 0) ELSE curCommStageIdx_[s]
  BY <1>2, GFacts DEF PreFinish, TypeOK
<1>5. o \in change <=> EndsAt(o, c)
  BY <1>2 DEF GInv, GChange
<1>6. c = curCommStageIdx_post_[r] /\ \A p \in Ops : p[1] = r => ~Outstanding(p)
  BY <1>2, <1>4 DEF GInv, GGate
<1>7. \A p \in Ops : (p[1] = r /\ p # o) => pc[Pre(p)] \in {"new", "done"}
  <2> SUFFICES ASSUME NEW p \in Ops, p[1] = r, pc[Pre(p)] \in {"decide", "finish"} PROVE p = o
    BY DEF GInv, GLabels
  <2>1. p[2] = o[2]
    BY <1>2 DEF GInv, GOrder
  <2>2. QED
    BY <2>1, GFacts
<1>8. GLabels' /\ GRan'
  BY <1>1, <1>2, <1>3 DEF GInv, GLabels, GRan
<1>9. GOrder'
  <2> SUFFICES ASSUME NEW p \in Ops
               PROVE  /\ p[2] < pos[p[1]] => pc'[Pre(p)] = "done"
                      /\ pc'[Pre(p)] \in {"decide", "finish"} => p[2] = pos[p[1]]
                      /\ (Managed(p) /\ pc'[Pre(p)] = "done") => p[2] <= pos[p[1]]
                      /\ (pc'[Post(p)] # "new" /\ Managed(p)) => p[2] < pos[p[1]]
    BY <1>1 DEF GOrder, Issued
  <2>1. p[2] \in Nat /\ pos[p[1]] \in Nat
    BY GFacts
  <2>2. QED
    BY <1>2, <1>3, <2>1 DEF GInv, GOrder, Issued
<1>10. GChange'
  <2> SUFFICES ASSUME NEW p \in Ops
               PROVE  /\ pc'[Pre(p)] \in {"new", "decide"} => p \notin change
                      /\ pc'[Pre(p)] = "finish" =>
                            (p \in change <=> EndsAt(p, curCommStageIdx_'[p[1]]))
    BY <1>1 DEF GChange
  <2>1. pc'[Pre(p)] = "finish" => curCommStageIdx_'[p[1]] = curCommStageIdx_[p[1]]
    BY <1>3, <1>4, <1>7, GFacts
  <2>2. QED
    BY <1>3, <2>1 DEF GInv, GChange
<1>11. GIndex'
  <2> SUFFICES ASSUME NEW p \in Ops, NEW i \in StagesOf(p), EndsAt(p, i)
               PROVE  /\ pc'[Pre(p)] = "done" => i < curCommStageIdx_'[p[1]]
                      /\ i < curCommStageIdx_post_[p[1]] => pc'[Post(p)] # "new"
    BY <1>1 DEF GIndex
  <2>1. i \in Int /\ curCommStageIdx_[p[1]] \in Nat /\ p[1] \in Ranks
    BY GFacts
  <2>2. curCommStageIdx_[p[1]] <= curCommStageIdx_'[p[1]] /\ curCommStageIdx_'[p[1]] \in Nat
    BY <1>4, <2>1
  <2>3. CASE p # o
    BY <1>3, <2>1, <2>2, <2>3 DEF GInv, GIndex
  <2>4. CASE p = o
    <3>1. ASSUME i > c PROVE FALSE
      <4>1. c \in StagesOf(o)
        BY <1>4, <2>1, <2>4, <3>1 DEF StagesOf
      <4>2. PICK q \in Ops : q[1] = r /\ EndsAt(q, c)
        BY <2>4, <3>1, <4>1 DEF PatternInOrder
      <4>3. q[2] < o[2]
        <5>1. i \in StagesOf(o) /\ EndsAt(o, i) /\ c < i /\ o[1] = q[1]
          BY <2>4, <3>1, <4>2
        <5>2. c \in StagesOf(q) /\ i \in StagesOf(q)
          BY <4>1, <5>1 DEF StagesOf
        <5>3. QED
          BY <4>2, <5>1, <5>2 DEF PatternInOrder
      <4>4. pc[Pre(q)] = "done"
        BY <1>2, <4>2, <4>3 DEF GInv, GOrder, Issued
      <4>5. c \in StagesOf(q)
        BY <4>1, <4>2 DEF StagesOf
      <4>6. c < c
        BY <4>2, <4>4, <4>5 DEF GInv, GIndex
      <4>7. QED
        BY <4>6, <1>4
    <3>2. i = c => curCommStageIdx_'[r] = c + 1
      BY <1>4, <1>5, <2>4
    <3>3. i < curCommStageIdx_'[p[1]]
      BY <1>4, <2>1, <2>2, <2>4, <3>1, <3>2
    <3>4. QED
      BY <1>3, <3>3 DEF GInv, GIndex
  <2>5. QED
    BY <2>3, <2>4
<1>12. GGate'
  <2>1. \A s \in Ranks :
          /\ curCommStageIdx_'[s] \in {curCommStageIdx_post_[s], curCommStageIdx_post_[s] + 1}
          /\ curCommStageIdx_'[s] = curCommStageIdx_post_[s] + 1 => ~topo_ready'[s]
    <3> SUFFICES ASSUME NEW s \in Ranks
                 PROVE  /\ curCommStageIdx_'[s] \in {curCommStageIdx_post_[s], curCommStageIdx_post_[s] + 1}
                        /\ curCommStageIdx_'[s] = curCommStageIdx_post_[s] + 1 => ~topo_ready'[s]
      OBVIOUS
    <3>1. CASE s = r /\ o \in change
      <4>1. ~topo_ready'[r]
        BY <1>4, <3>1, Zenon
      <4>2. curCommStageIdx_'[r] = c + 1
        BY <1>4, <3>1
      <4>3. QED
        BY <1>6, <3>1, <4>1, <4>2
    <3>2. CASE s = r /\ o \notin change
      <4>1. curCommStageIdx_'[r] = c /\ c # c + 1
        BY <1>4, <3>2
      <4>2. QED
        BY <1>6, <3>2, <4>1
    <3>3. CASE s # r
      BY <1>4, <3>3 DEF GInv, GGate
    <3>4. QED
      BY <3>1, <3>2, <3>3
  <2>2. ASSUME NEW p \in Ops, pc'[Post(p)] \in {"provision", "signal"}
        PROVE  ~topo_ready'[p[1]] /\ curCommStageIdx_'[p[1]] = curCommStageIdx_post_[p[1]]
    <3>1. Outstanding(p)
      BY <1>3, <2>2 DEF Outstanding
    <3>2. p[1] # r /\ p[1] \in Ranks
      BY <1>6, <3>1, GFacts
    <3>3. QED
      BY <1>4, <3>1, <3>2 DEF GInv, GGate
  <2>3. ASSUME NEW p \in Ops, pc'[Pre(p)] \in {"decide", "finish"} PROVE topo_ready'[p[1]]
    BY <1>3, <1>4, <1>7, <2>3, GFacts DEF GInv, GGate
  <2>4. QED
    BY <1>1, <1>3, <2>1, <2>2, <2>3 DEF GInv, GGate, Outstanding
<1>13. GBehind'
  BY <1>2, <1>3, GFacts DEF GInv, GBehind
<1>14. QED
  BY <1>8, <1>9, <1>10, <1>11, <1>12, <1>13 DEF GInv

\* What a post helper that starts knows: its operation has run, after its pre helper.
LEMMA PostStarts ==
    ASSUME TypeOK, GInv, NEW o \in Ops, pc[Post(o)] = "new", PostRuns(o)
    PROVE  /\ Managed(o) /\ Issued(o) /\ pc[Pre(o)] = "done"
           /\ Grp(o) \in Coalesced \/ o \in ran
           /\ Before[o] \subseteq ran
<1>1. Managed(o)
  BY DEF GInv, GLabels
<1>2. Issued(o) /\ (Grp(o) \in Coalesced \/ o \in ran) /\ Before[o] \subseteq ran
  BY DEF PostRuns, PastOp, Reached, StreamDone
<1>3. pc[Pre(o)] = "done"
  BY <1>2 DEF GInv, GOrder
<1>4. QED
  BY <1>1, <1>2, <1>3

\* The post helper of a stage end finds the gate closed and nobody else outstanding.
LEMMA GatePostChange ==
    ASSUME PatternInOrder, ~hasSchedule, TypeOK, GInv, NEW o \in Ops, PostChange(o)
    PROVE  GInv'
<1> DEFINE r == o[1]
           c == curCommStageIdx_post_[r]
<1>1. UNCHANGED <<pos, ran, change, curCommStageIdx_, topo_ready>>
  BY DEF PostChange
<1>2. /\ Managed(o) /\ Issued(o) /\ pc[Pre(o)] = "done" /\ pc[Post(o)] = "new"
      /\ Grp(o) \in Coalesced \/ o \in ran
      /\ Before[o] \subseteq ran
  BY PostStarts DEF PostChange
<1>3. r \in Ranks /\ c \in Nat /\ curCommStageIdx_[r] \in Nat
  BY GFacts
<1>4. EndsAt(o, c) /\ c \in StagesOf(o)
  <2>1. is_comm_change_after(o, c + 1 - 1) /\ c + 1 - 1 = c
    BY <1>3 DEF PostChange
  <2>2. QED
    BY <1>2, <1>3, <2>1, EndsFacts
<1>5. \A s \in Ranks : curCommStageIdx_post_'[s] = IF s = r THEN c + 1 ELSE curCommStageIdx_post_[s]
  BY <1>3 DEF PostChange, TypeOK
<1>6. /\ \A p \in Ops : pc'[Pre(p)] = pc[Pre(p)]
      /\ \A p \in Ops : p # o => pc'[Post(p)] = pc[Post(p)]
      /\ pc'[Post(o)] \in {"provision", "signal"}
  BY GFacts DEF PostChange, TypeOK
<1>7. curCommStageIdx_[r] = c + 1 /\ ~topo_ready[r] /\ \A p \in Ops : p[1] = r => ~Outstanding(p)
  <2>1. c < curCommStageIdx_[r]
    BY <1>2, <1>4 DEF GInv, GIndex
  <2>2. curCommStageIdx_[r] = c + 1
    BY <1>3, <2>1 DEF GInv, GGate
  <2>3. c + 1 # c
    BY <1>3
  <2>4. QED
    BY <1>3, <2>2, <2>3 DEF GInv, GGate
<1>8. GLabels'
  BY <1>2, <1>6 DEF GInv, GLabels
<1>9. GOrder'
  BY <1>1, <1>2, <1>6 DEF GInv, GOrder, Issued
<1>10. GChange'
  BY <1>1, <1>6 DEF GInv, GChange
<1>11. GIndex'
  <2> SUFFICES ASSUME NEW p \in Ops, NEW i \in StagesOf(p), EndsAt(p, i)
               PROVE  /\ pc'[Pre(p)] = "done" => i < curCommStageIdx_[p[1]]
                      /\ i < curCommStageIdx_post_'[p[1]] => pc'[Post(p)] # "new"
    BY <1>1 DEF GIndex
  <2>1. pc'[Pre(p)] = "done" => i < curCommStageIdx_[p[1]]
    BY <1>6 DEF GInv, GIndex
  <2>2. ASSUME i < curCommStageIdx_post_'[p[1]] PROVE pc'[Post(p)] # "new"
    <3>1. CASE p = o
      BY <1>6, <3>1
    <3>2. CASE p # o /\ i < curCommStageIdx_post_[p[1]]
      BY <1>6, <3>2 DEF GInv, GIndex
    <3>3. CASE p # o /\ ~(i < curCommStageIdx_post_[p[1]])
      <4>1. p[1] = r /\ i = c
        BY <1>3, <1>5, <2>2, <3>3, GFacts
      <4>2. ~(o[2] < p[2]) /\ ~(p[2] < o[2])
        BY <1>3, <1>4, <4>1 DEF PatternInOrder, StagesOf
      <4>3. QED
        BY <3>3, <4>1, <4>2, GFacts
    <3>4. QED
      BY <3>1, <3>2, <3>3
  <2>3. QED
    BY <2>1, <2>2
<1>12. GGate'
  <2>1. \A s \in Ranks :
          /\ curCommStageIdx_[s] \in {curCommStageIdx_post_'[s], curCommStageIdx_post_'[s] + 1}
          /\ curCommStageIdx_[s] = curCommStageIdx_post_'[s] + 1 => ~topo_ready[s]
    BY <1>3, <1>5, <1>7 DEF GInv, GGate
  <2>2. ASSUME NEW p \in Ops, pc'[Post(p)] \in {"provision", "signal"}
        PROVE  ~topo_ready[p[1]] /\ curCommStageIdx_[p[1]] = curCommStageIdx_post_'[p[1]]
    <3>1. CASE p = o
      BY <1>3, <1>5, <1>7, <3>1
    <3>2. CASE p # o
      <4>1. Outstanding(p) /\ p[1] \in Ranks
        BY <1>6, <2>2, <3>2, GFacts DEF Outstanding
      <4>2. p[1] # r
        BY <1>7, <4>1
      <4>3. QED
        BY <1>5, <4>1, <4>2 DEF GInv, GGate
    <3>3. QED
      BY <3>1, <3>2
  <2>3. ASSUME NEW p \in Ops, NEW q \in Ops, p[1] = q[1],
               pc'[Post(p)] \in {"provision", "signal"}, pc'[Post(q)] \in {"provision", "signal"}
        PROVE  p = q
    BY <1>6, <1>7, <2>3 DEF GInv, GGate, Outstanding
  <2>4. ASSUME NEW p \in Ops, pc'[Pre(p)] \in {"decide", "finish"} PROVE topo_ready[p[1]]
    BY <1>6, <2>4 DEF GInv, GGate
  <2>5. QED
    BY <1>1, <2>1, <2>2, <2>3, <2>4 DEF GGate, Outstanding
<1>13. GBehind'
  <2> SUFFICES ASSUME NEW q \in Ops, NEW p \in Earlier[q], Managed(q), pc'[Pre(q)] # "new",
                      NEW i \in StagesOf(p), EndsAt(p, i)
               PROVE  pc'[Post(p)] = "done"
    BY DEF GBehind
  <2>1. p \in Ops /\ pc[Post(p)] = "done"
    BY <1>6, GFacts DEF GInv, GBehind
  <2>2. QED
    BY <1>2, <1>6, <2>1
<1>14. GRan'
  BY <1>1, <1>2, <1>4, <1>6 DEF GInv, GRan
<1>15. QED
  BY <1>8, <1>9, <1>10, <1>11, <1>12, <1>13, <1>14 DEF GInv

\* Within a stage a post helper has nothing to ask for.
LEMMA GatePostNoChange ==
    ASSUME Provisioning, ~hasSchedule, TypeOK, GInv, NEW o \in Ops, PostNoChange(o)
    PROVE  GInv'
<1>1. UNCHANGED <<pos, ran, change, curCommStageIdx_, curCommStageIdx_post_, topo_ready>>
  BY DEF PostNoChange, procVars
<1>2. /\ Managed(o) /\ Issued(o) /\ pc[Pre(o)] = "done" /\ pc[Post(o)] = "new"
      /\ Grp(o) \in Coalesced \/ o \in ran
      /\ Before[o] \subseteq ran
  BY PostStarts DEF PostNoChange
<1>3. pc' = [pc EXCEPT ![Post(o)] = "done"]
  BY OpFacts DEF PostNoChange, Provisioning
<1>4. /\ \A p \in Ops : pc'[Pre(p)] = pc[Pre(p)]
      /\ \A p \in Ops : pc'[Post(p)] = IF p = o THEN "done" ELSE pc[Post(p)]
  BY <1>3, GFacts DEF TypeOK
<1>5. GLabels' /\ GOrder' /\ GChange'
  BY <1>1, <1>2, <1>4 DEF GInv, GLabels, GOrder, GChange, Issued
<1>6. GIndex'
  BY <1>1, <1>4 DEF GInv, GIndex
<1>7. GGate'
  BY <1>1, <1>4 DEF GInv, GGate, Outstanding
<1>8. GBehind'
  BY <1>4, GFacts DEF GInv, GBehind
<1>9. GRan'
  BY <1>1, <1>2, <1>4 DEF GInv, GRan
<1>10. QED
  BY <1>5, <1>6, <1>7, <1>8, <1>9 DEF GInv

\* An answer, a timeout or the opening of the gate: the outstanding helper goes on.
LEMMA GateOfHelper ==
    ASSUME ~hasSchedule, TypeOK, GInv, NEW h \in Helpers, OfHelper(h)
    PROVE  GInv'
<1>1. UNCHANGED <<pos, ran, change, curCommStageIdx_, curCommStageIdx_post_>>
  BY DEF OfHelper, Signal, Receive, Timeout, ScheduledTimeout, procVars
<1>2. PICK o \in Ops : h = Pre(o) \/ h = Post(o)
  BY HelperFacts
<1>3. o[1] \in Ranks
  BY GFacts
<1>4. CASE Signal(h)
  <2>1. h = Post(o) /\ pc[Post(o)] = "signal"
    BY <1>2, <1>4 DEF Signal, GInv, GLabels
  <2>2. /\ \A p \in Ops : pc'[Pre(p)] = pc[Pre(p)]
        /\ \A p \in Ops : pc'[Post(p)] = IF p = o THEN "done" ELSE pc[Post(p)]
    BY <1>4, <2>1, GFacts DEF Signal, TypeOK
  <2>3. \A s \in Ranks : topo_ready'[s] = IF s = o[1] THEN TRUE ELSE topo_ready[s]
    <3>1. topo_ready \in [Ranks -> BOOLEAN] /\ h[2] = o
      BY <2>1, OpFacts DEF TypeOK
    <3>2. topo_ready' = [topo_ready EXCEPT ![o[1]] = TRUE]
      BY <1>4, <3>1 DEF Signal
    <3>3. QED
      BY <3>1, <3>2
  <2>4. GLabels' /\ GOrder' /\ GChange'
    BY <1>1, <2>1, <2>2 DEF GInv, GLabels, GOrder, GChange, Issued
  <2>5. GIndex'
    BY <1>1, <2>2 DEF GInv, GIndex
  <2>6. GGate'
    <3>1. curCommStageIdx_[o[1]] = curCommStageIdx_post_[o[1]]
          /\ curCommStageIdx_[o[1]] # curCommStageIdx_post_[o[1]] + 1
          /\ \A p \in Ops : (p[1] = o[1] /\ p # o) => ~Outstanding(p)
      BY <2>1, GFacts DEF GInv, GGate, Outstanding
    <3>2. \A s \in Ranks :
            /\ curCommStageIdx_[s] \in {curCommStageIdx_post_[s], curCommStageIdx_post_[s] + 1}
            /\ curCommStageIdx_[s] = curCommStageIdx_post_[s] + 1 => ~topo_ready'[s]
      BY <2>3, <3>1 DEF GInv, GGate
    <3>3. ASSUME NEW p \in Ops, pc'[Post(p)] \in {"provision", "signal"}
          PROVE  /\ ~topo_ready'[p[1]] /\ curCommStageIdx_[p[1]] = curCommStageIdx_post_[p[1]]
                 /\ Outstanding(p)
      <4>1. p # o /\ Outstanding(p) /\ p[1] \in Ranks
        BY <2>2, <3>3, GFacts DEF Outstanding
      <4>2. p[1] # o[1]
        BY <3>1, <4>1
      <4>3. QED
        BY <2>3, <4>1, <4>2 DEF GInv, GGate
    <3>4. ASSUME NEW p \in Ops, pc'[Pre(p)] \in {"decide", "finish"} PROVE topo_ready'[p[1]]
      BY <2>2, <2>3, <3>4, GFacts DEF GInv, GGate
    <3>5. QED
      BY <1>1, <3>2, <3>3, <3>4 DEF GInv, GGate, Outstanding
  <2>7. GBehind' /\ GRan'
    <3>1. GBehind'
      BY <2>2, GFacts DEF GInv, GBehind
    <3>2. GRan'
      BY <1>1, <2>1, <2>2 DEF GInv, GRan
    <3>3. QED
      BY <3>1, <3>2
  <2>8. QED
    BY <2>4, <2>5, <2>6, <2>7 DEF GInv
<1>5. CASE Receive(h) \/ Timeout(h)
  <2>1. h = Post(o) /\ pc[Post(o)] = "provision" /\ Resume(h) = "signal"
    BY <1>2, <1>5 DEF Receive, Timeout, Asking, Resume, GInv, GLabels
  <2>2. /\ \A p \in Ops : pc'[Pre(p)] = pc[Pre(p)]
        /\ \A p \in Ops : p # o => pc'[Post(p)] = pc[Post(p)]
        /\ pc'[Post(o)] \in {"provision", "signal"}
    BY <1>5, <2>1, GFacts DEF Receive, Timeout, TypeOK
  <2>3. topo_ready' = topo_ready
    BY <1>5 DEF Receive, Timeout, procVars
  <2>4. GLabels' /\ GOrder' /\ GChange'
    BY <1>1, <2>1, <2>2 DEF GInv, GLabels, GOrder, GChange, Issued
  <2>5. GIndex'
    BY <1>1, <2>1, <2>2 DEF GInv, GIndex
  <2>6. \A p \in Ops : Outstanding(p)' <=> Outstanding(p)
    BY <2>1, <2>2 DEF Outstanding
  <2>7. GGate'
    BY <1>1, <2>2, <2>3, <2>6 DEF GInv, GGate
  <2>8. GBehind'
    BY <2>1, <2>2, GFacts DEF GInv, GBehind
  <2>9. GRan'
    BY <1>1, <2>1, <2>2 DEF GInv, GRan
  <2>10. QED
    BY <2>4, <2>5, <2>7, <2>8, <2>9 DEF GInv
<1>6. CASE ScheduledTimeout(h)
  BY <1>6 DEF ScheduledTimeout, GInv, GLabels, procVars, GOrder, GChange, GIndex, GGate, GBehind,
     GRan, Outstanding, Issued
<1>7. QED
  BY <1>4, <1>5, <1>6 DEF OfHelper

LEMMA NothingIssued == ASSUME Init, NEW o \in Ops PROVE ~Issued(o)
<1>1. pos[o[1]] = 1
  BY OpFacts DEF Init
<1>2. PICK S : Program[o[1]] \in Seq(S)
  <2>1. Program[o[1]] \in Seq([grp : {g \in Groups : o[1] \in Members[g]}, peer : Nat \cup {-1}])
    BY OpFacts, ProgramAssumption
  <2>2. QED
    BY <2>1, Zenon
<1>3. o[2] \in 1..Len(Program[o[1]]) /\ Len(Program[o[1]]) \in Nat
  BY <1>2, OpFacts, SeqFacts
<1>4. QED
  BY <1>1, <1>3 DEF Issued

LEMMA GateInit ==
    ASSUME Init, ~hasSchedule
    PROVE  GInv
<1>1. \A o \in Ops : /\ Pre(o) \in Helpers /\ Post(o) \in Helpers /\ o[1] \in Ranks
                     /\ o[2] \in DOMAIN Program[o[1]] /\ o[2] \in Nat
                     /\ Pre(o)[1] = "pre" /\ Pre(o)[2] = o
                     /\ Post(o)[1] = "post" /\ Post(o)[2] = o
  BY OpFacts
<1>2. \A o \in Ops : /\ pc[Pre(o)] = IF Managed(o) THEN "new" ELSE "done"
                     /\ pc[Post(o)] = IF Managed(o) THEN "new" ELSE "done"
  BY <1>1 DEF Init, HasPre
<1>3. \A o \in Ops : ~Issued(o)
  BY NothingIssued
<1>4. change = {} /\ \A r \in Ranks : curCommStageIdx_[r] = 0 /\ curCommStageIdx_post_[r] = 0
  BY DEF Init
<1>5. GLabels /\ GOrder /\ GChange
  BY <1>2, <1>3, <1>4 DEF GLabels, GOrder, GChange
<1>6. GIndex
  BY <1>1, <1>2, <1>4 DEF GIndex, EndsAt, StagesOf
<1>7. GGate
  BY <1>2, <1>4 DEF GGate, Outstanding
<1>8. GBehind /\ GRan
  BY <1>1, <1>2 DEF GBehind, GRan
<1>9. QED
  BY <1>5, <1>6, <1>7, <1>8 DEF GInv

LEMMA GateInvariant ==
    ASSUME StagesKnown, Provisioning, PatternInOrder
    PROVE  Spec => []GateInv
<1>1. Init => GateInv
  BY GateInit DEF GateInv
<1>2. ASSUME TypeInv, GateInv, [Next]_vars PROVE GateInv'
  <2> SUFFICES ASSUME ~hasSchedule' PROVE GInv'
    BY DEF GateInv
  <2>1. hasSchedule' = hasSchedule
    BY <1>2, StepCases, ControllerKeeps DEF vars
  <2>2. ~hasSchedule /\ GInv /\ TypeOK
    BY <1>2, <2>1 DEF GateInv, TypeInv
  <2>3. ASSUME NEW r \in Ranks, Issue(r) PROVE GInv'
    BY <2>2, <2>3, GateIssue
  <2>4. ASSUME NEW o \in Ops, OfOp(o) PROVE GInv'
    <3>1. ~Defer(o) /\ ~SendScheduled(o)
      BY <2>2 DEF Defer, SendScheduled
    <3>2. QED
      BY <2>2, <2>4, <3>1, GateRun, GatePreGate, GatePreDecide, GatePreFinish,
         GatePostChange, GatePostNoChange DEF OfOp
  <2>5. ASSUME NEW h \in Helpers, OfHelper(h) PROVE GInv'
    BY <2>2, <2>5, GateOfHelper
  <2>6. ASSUME UNCHANGED <<pos, ran, pc, change, procVars>> PROVE GInv'
    BY <2>2, <2>6 DEF GInv, GLabels, GOrder, GChange, GIndex, GGate, GBehind, GRan,
       Outstanding, Issued, procVars
  <2>7. QED
    BY <1>2, <2>3, <2>4, <2>5, <2>6, StepCases, ControllerKeeps DEF vars
<1>3. QED
  BY <1>1, <1>2, TypeInvariant, PTL DEF Spec

-----------------------------------------------------------------------------
(* The gate around a scheduled request is inductive *)

LEMMA ReplayInit ==
    ASSUME Init, hasSchedule
    PROVE  RInv
<1>1. \A o \in Ops : /\ Pre(o) \in Helpers /\ Post(o) \in Helpers
                     /\ Pre(o)[1] = "pre" /\ Pre(o)[2] = o
                     /\ Post(o)[1] = "post" /\ Post(o)[2] = o
  BY OpFacts
<1>2. \A o \in Ops : /\ pc[Pre(o)] = IF HasPre(o) THEN "new" ELSE "done"
                     /\ pc[Post(o)] \in {"new", "done"}
  BY <1>1 DEF Init
<1>3. RLabels /\ RGate
  BY <1>2 DEF RLabels, RGate, Deferred
<1>4. \A o \in Ops : ~Issued(o)
  BY NothingIssued
<1>5. ROrder
  BY <1>4 DEF ROrder
<1>6. RSent
  BY <1>2 DEF RSent, Init
<1>7. QED
  BY <1>3, <1>5, <1>6 DEF RInv

\* At an open gate every request of the process is over, and the operation before which
\* the framework stands may be issued.
LEMMA ReplayOpen ==
    ASSUME TypeOK, RInv, NEW o \in Ops, pos[o[1]] = o[2], topo_ready[o[1]]
    PROVE  \A p \in Earlier[o] : pc[Pre(p)] = "done"
<1> SUFFICES ASSUME NEW p \in Earlier[o] PROVE pc[Pre(p)] = "done"
  OBVIOUS
<1>1. p \in Ops /\ p[1] = o[1] /\ Issued(p)
  BY GFacts DEF Issued
<1>2. pc[Pre(p)] # "new" /\ ~Deferred(p)
  BY <1>1 DEF RInv, ROrder, RGate
<1>3. QED
  BY <1>1, <1>2 DEF RInv, RLabels, Deferred

\* One operation more is issued, behind requests that are over.
LEMMA ReplayOrder ==
    ASSUME TypeOK, RInv, NEW o \in Ops, pos[o[1]] = o[2],
           pos' = [pos EXCEPT ![o[1]] = @ + 1], pc'[Pre(o)] # "new",
           \A p \in Earlier[o] : pc[Pre(p)] = "done",
           \A p \in Ops : pc[Pre(p)] # "new" => pc'[Pre(p)] = pc[Pre(p)]
    PROVE  ROrder'
<1>1. /\ \A p \in Ops : pos'[p[1]] = IF p[1] = o[1] THEN o[2] + 1 ELSE pos[p[1]]
      /\ \A p \in Ops : p[2] \in Nat /\ p = <<p[1], p[2]>>
  BY GFacts DEF TypeOK
<1> SUFFICES ASSUME NEW q \in Ops, q[2] < pos'[q[1]]
             PROVE  pc'[Pre(q)] # "new" /\ \A p \in Earlier[q] : pc'[Pre(p)] = "done"
  BY DEF ROrder, Issued
<1>2. CASE q = o
  BY <1>2, GFacts
<1>3. CASE q # o
  <2>1. Issued(q)
    BY <1>1, <1>3, GFacts DEF Issued
  <2>2. QED
    BY <1>3, <2>1, GFacts DEF RInv, ROrder
<1>4. QED
  BY <1>2, <1>3

LEMMA ReplayIssue ==
    ASSUME Provisioning, hasSchedule, hasSchedule' = hasSchedule, TypeOK, RInv,
           NEW r \in Ranks, Issue(r)
    PROVE  RInv'
<1> DEFINE o == <<r, pos[r]>>
<1>1. o \in Ops /\ o[1] = r /\ o[2] = pos[r] /\ pc[Pre(o)] = "done" /\ topo_ready[r]
  BY OffStream DEF Issue, Provisioning
<1>2. UNCHANGED <<pc, req, topo_ready, gaveUp, aborted>> /\ pos' = [pos EXCEPT ![r] = @ + 1]
  BY DEF Issue, procVars
<1> HIDE DEF o
<1>3. \A p \in Earlier[o] : pc[Pre(p)] = "done"
  BY <1>1, ReplayOpen
<1>4. ROrder'
  BY <1>1, <1>2, <1>3, ReplayOrder
<1>5. QED
  BY <1>2, <1>4 DEF RInv, RLabels, RGate, RSent, Deferred, HasPre

\* A replaying process sees no stage ends, and its post helpers do not ask.
LEMMA ReplayPost ==
    ASSUME Provisioning, hasSchedule, TypeOK, NEW o \in Ops
    PROVE  /\ ~PostChange(o)
           /\ PostNoChange(o) => pc' = [pc EXCEPT ![Post(o)] = "done"] /\ req' = req
<1>1. curCommStageIdx_post_[o[1]] \in Nat
  BY GFacts
<1>2. Len(Stages(o[1])) = 0
  BY DEF Stages
<1>3. ASSUME PostChange(o) PROVE FALSE
  <2> DEFINE c == curCommStageIdx_post_[o[1]]
  <2>1. is_comm_change_after(o, c + 1 - 1) /\ c + 1 - 1 = c
    BY <1>1, <1>3 DEF PostChange
  <2>2. c < 0
    BY <1>2, <2>1 DEF is_comm_change_after
  <2>3. QED
    BY <1>1, <2>2
<1>4. QED
  BY <1>3, OpFacts DEF PostNoChange, Provisioning

\* Steps that move one helper on and leave the gate and the program alone.
LEMMA ReplayOfOp ==
    ASSUME Provisioning, hasSchedule, hasSchedule' = hasSchedule, TypeOK, RInv,
           NEW o \in Ops, OfOp(o)
    PROVE  RInv'
<1>0. pc \in [Helpers -> Labels] /\ topo_ready \in [Ranks -> BOOLEAN] /\ o[1] \in Ranks
  BY GFacts DEF TypeOK
<1>1. CASE Run(o)
  BY <1>1 DEF Run, RInv, RLabels, RGate, ROrder, RSent, Deferred, Issued, HasPre, procVars
<1>2. CASE PostNoChange(o)
  <2>1. /\ \A p \in Ops : pc'[Pre(p)] = pc[Pre(p)]
        /\ \A p \in Ops : pc'[Post(p)] = IF p = o THEN "done" ELSE pc[Post(p)]
        /\ UNCHANGED <<pos, req, topo_ready, gaveUp, aborted>>
    BY <1>0, <1>2, ReplayPost, GFacts DEF PostNoChange, procVars
  <2>2. \A h \in Helpers : pc[h] = "sched" => pc'[h] = "sched"
    BY <1>0, <1>2, ReplayPost, GFacts DEF PostNoChange
  <2>3. RLabels' /\ ROrder'
    <3>1. RLabels'
      BY <2>1 DEF RInv, RLabels
    <3>2. \A p \in Ops : Issued(p)' = Issued(p)
      BY <2>1 DEF Issued
    <3>3. \A p \in Ops : Earlier[p] \subseteq Ops
      BY DEF Earlier
    <3>4. ROrder'
      BY <2>1, <3>2, <3>3 DEF RInv, ROrder
    <3>5. QED
      BY <3>1, <3>4
  <2>4. \A p \in Ops : Deferred(p)' <=> Deferred(p)
    BY <2>1 DEF Deferred
  <2>5. RGate'
    BY <2>1, <2>4 DEF RInv, RGate
  <2>6. \A h \in gaveUp : h \in Helpers
    BY DEF TypeOK
  <2>7. RSent'
    BY <2>1, <2>2, <2>6 DEF RInv, RSent, HasPre
  <2>8. QED
    BY <2>3, <2>5, <2>7 DEF RInv
<1>3. CASE Defer(o)
  <2>1. /\ pc[Pre(o)] = "new" /\ pos[o[1]] = o[2] /\ topo_ready[o[1]]
        /\ pos' = [pos EXCEPT ![o[1]] = @ + 1] /\ UNCHANGED <<req, gaveUp, aborted>>
    BY <1>3, OffStream DEF Defer, PreRuns
  <2>2. /\ \A p \in Ops : pc'[Pre(p)] = IF p = o THEN "queued" ELSE pc[Pre(p)]
        /\ \A p \in Ops : pc'[Post(p)] = pc[Post(p)]
        /\ \A h \in Helpers : pc[h] = "sched" => pc'[h] = "sched"
    BY <1>0, <1>3, GFacts DEF Defer
  <2>3. \A s \in Ranks : topo_ready'[s] = IF s = o[1] THEN FALSE ELSE topo_ready[s]
    BY <1>0, <1>3 DEF Defer
  <2>4. \A p \in Earlier[o] : pc[Pre(p)] = "done"
    BY <2>1, ReplayOpen
  <2>5. ROrder'
    BY <2>1, <2>2, <2>4, ReplayOrder
  <2>6. RLabels'
    BY <2>2 DEF RInv, RLabels
  <2>7. \A p \in Ops : p[1] = o[1] => ~Deferred(p)
    BY <2>1 DEF RInv, RGate
  <2>8. RGate'
    <3>1. \A p \in Ops : Deferred(p)' <=> (p = o \/ Deferred(p))
      BY <2>1, <2>2 DEF Deferred
    <3>2. \A p \in Ops : Deferred(p)' => ~topo_ready'[p[1]]
      BY <2>3, <3>1, GFacts DEF RInv, RGate
    <3>3. \A p, q \in Ops : (Deferred(p)' /\ Deferred(q)' /\ p[1] = q[1]) => p = q
      BY <2>7, <3>1 DEF RInv, RGate
    <3>4. QED
      BY <3>2, <3>3 DEF RGate
  <2>9. RSent'
    BY <2>1, <2>2 DEF RInv, RSent, HasPre, TypeOK
  <2>10. QED
    BY <2>5, <2>6, <2>8, <2>9 DEF RInv
<1>4. CASE SendScheduled(o)
  <2>1. /\ pc[Pre(o)] = "queued" /\ SendReq(Pre(o), Schedule[o[1]][o[2]])
        /\ UNCHANGED <<pos, topo_ready, gaveUp, aborted>>
    BY <1>4 DEF SendScheduled, Provisioning, procVars
  <2>2. /\ \A p \in Ops : pc'[Pre(p)] = IF p = o THEN "sched" ELSE pc[Pre(p)]
        /\ \A p \in Ops : pc'[Post(p)] = pc[Post(p)]
        /\ \A h \in Helpers : pc[h] = "sched" => pc'[h] = "sched"
    BY <1>0, <1>4, GFacts DEF SendScheduled
  <2>3. \A h : h \in DOMAIN req' <=> (h \in DOMAIN req \/ h = Pre(o))
    BY <2>1 DEF SendReq
  <2>4. \A h \in DOMAIN req' : req'[h] = IF h = Pre(o) THEN Schedule[o[1]][o[2]] ELSE req[h]
    BY <2>1 DEF SendReq
  <2>5. RLabels' /\ ROrder'
    BY <2>1, <2>2, GFacts DEF RInv, RLabels, ROrder, Issued
  <2>6. \A p \in Ops : Deferred(p)' <=> Deferred(p)
    BY <2>1, <2>2 DEF Deferred
  <2>7. RGate'
    BY <2>1, <2>6 DEF RInv, RGate
  <2>8. \A p \in Ops : (HasPre(p) /\ pc'[Pre(p)] \in {"sched", "signal", "done"}) =>
            Pre(p) \in DOMAIN req' /\ req'[Pre(p)] = Schedule[p[1]][p[2]]
    <3> SUFFICES ASSUME NEW p \in Ops, HasPre(p), pc'[Pre(p)] \in {"sched", "signal", "done"}
                 PROVE  Pre(p) \in DOMAIN req' /\ req'[Pre(p)] = Schedule[p[1]][p[2]]
      OBVIOUS
    <3>1. CASE p = o
      BY <2>3, <2>4, <3>1
    <3>2. CASE p # o
      <4>1. Pre(p) # Pre(o) /\ Pre(p) \in DOMAIN req /\ req[Pre(p)] = Schedule[p[1]][p[2]]
        BY <2>2, <3>2, GFacts DEF RInv, RSent
      <4>2. QED
        BY <2>3, <2>4, <4>1
    <3>3. QED
      BY <3>1, <3>2
  <2>9. \A h \in gaveUp : h \in Helpers
    BY DEF TypeOK
  <2>10. RSent'
    BY <2>1, <2>2, <2>8, <2>9 DEF RInv, RSent, HasPre
  <2>11. QED
    BY <2>5, <2>7, <2>10 DEF RInv
<1>5. ~PreGate(o) /\ ~PreDecide(o) /\ ~PreFinish(o) /\ ~PostChange(o)
  BY ReplayPost DEF PreGate, PreDecide, PreFinish, RInv, RLabels
<1>6. QED
  BY <1>1, <1>2, <1>3, <1>4, <1>5 DEF OfOp

\* The answer, the opening of the gate, or the exception of a deferred request.
LEMMA ReplayOfHelper ==
    ASSUME Provisioning, hasSchedule, hasSchedule' = hasSchedule, TypeOK, RInv,
           NEW h \in Helpers, OfHelper(h)
    PROVE  RInv' /\ ~Timeout(h)
<1>0. pc \in [Helpers -> Labels] /\ topo_ready \in [Ranks -> BOOLEAN] /\ gaveUp \subseteq Helpers
  BY DEF TypeOK
<1>1. PICK o \in Ops : h = Pre(o) \/ h = Post(o)
  BY HelperFacts
<1>2. h[2] = o /\ h[2][1] = o[1] /\ o[1] \in Ranks
  BY <1>1, OpFacts
<1>3. ~Timeout(h)
  BY <1>1 DEF Timeout, Asking, RInv, RLabels
<1>4. CASE Signal(h)
  <2>1. h = Pre(o) /\ pc[Pre(o)] = "signal" /\ UNCHANGED <<pos, req, gaveUp, aborted>>
    BY <1>1, <1>4 DEF Signal, RInv, RLabels
  <2>2. /\ \A p \in Ops : pc'[Pre(p)] = IF p = o THEN "done" ELSE pc[Pre(p)]
        /\ \A p \in Ops : pc'[Post(p)] = pc[Post(p)]
        /\ \A u \in Helpers : pc[u] = "sched" => pc'[u] = "sched"
    BY <1>0, <1>4, <2>1, GFacts DEF Signal
  <2>3. \A s \in Ranks : topo_ready'[s] = IF s = o[1] THEN TRUE ELSE topo_ready[s]
    BY <1>0, <1>2, <1>4 DEF Signal
  <2>4. RLabels' /\ ROrder'
    BY <2>1, <2>2, GFacts DEF RInv, RLabels, ROrder, Issued
  <2>5. \A p \in Ops : (p[1] = o[1] /\ p # o) => ~Deferred(p)
    BY <2>1 DEF RInv, RGate, Deferred
  <2>6. RGate'
    <3>1. \A p \in Ops : Deferred(p)' <=> (p # o /\ Deferred(p))
      BY <2>1, <2>2 DEF Deferred
    <3>2. \A p \in Ops : Deferred(p)' => ~topo_ready'[p[1]]
      BY <2>3, <2>5, <3>1, GFacts DEF RInv, RGate
    <3>3. \A p, q \in Ops : (Deferred(p)' /\ Deferred(q)' /\ p[1] = q[1]) => p = q
      BY <3>1 DEF RInv, RGate
    <3>4. QED
      BY <3>2, <3>3 DEF RGate
  <2>7. RSent'
    BY <1>0, <2>1, <2>2 DEF RInv, RSent, HasPre
  <2>8. QED
    BY <1>3, <2>4, <2>6, <2>7 DEF RInv
<1>5. CASE Receive(h)
  <2>1. h = Pre(o) /\ pc[Pre(o)] = "sched" /\ Resume(h) = "signal"
    BY <1>1, <1>5 DEF Receive, Asking, Resume, RInv, RLabels, Provisioning
  <2>2. UNCHANGED <<pos, req, topo_ready, gaveUp, aborted>> /\ o[1] \notin aborted
    BY <1>2, <1>5 DEF Receive, procVars
  <2>3. /\ \A p \in Ops : p # o => pc'[Pre(p)] = pc[Pre(p)]
        /\ pc'[Pre(o)] \in {"sched", "signal"}
        /\ \A p \in Ops : pc'[Post(p)] = pc[Post(p)]
        /\ \A u \in Helpers : u # h => pc'[u] = pc[u]
    BY <1>0, <1>5, <2>1, GFacts DEF Receive
  <2>4. RLabels' /\ ROrder'
    BY <2>1, <2>2, <2>3, GFacts DEF RInv, RLabels, ROrder, Issued
  <2>5. \A p \in Ops : Deferred(p)' <=> Deferred(p)
    BY <2>1, <2>3 DEF Deferred
  <2>6. RGate'
    BY <2>2, <2>5 DEF RInv, RGate
  <2>7. h \notin gaveUp
    BY <1>2, <2>2 DEF RInv, RSent
  <2>8. RSent'
    BY <1>0, <2>1, <2>2, <2>3, <2>7 DEF RInv, RSent, HasPre
  <2>9. QED
    BY <1>3, <2>4, <2>6, <2>8 DEF RInv
<1>6. CASE ScheduledTimeout(h)
  <2>1. /\ pc[h] = "sched" /\ gaveUp' = gaveUp \cup {h} /\ aborted' = aborted \cup {h[2][1]}
        /\ UNCHANGED <<pos, pc, req, topo_ready>>
    BY <1>6 DEF ScheduledTimeout, procVars
  <2>2. RLabels' /\ ROrder' /\ RGate'
    BY <2>1 DEF RInv, RLabels, ROrder, RGate, Deferred, Issued
  <2>3. RSent'
    BY <2>1 DEF RInv, RSent, HasPre
  <2>4. QED
    BY <1>3, <2>2, <2>3 DEF RInv
<1>7. QED
  BY <1>3, <1>4, <1>5, <1>6 DEF OfHelper

LEMMA ReplayStep ==
    ASSUME Provisioning, hasSchedule, TypeOK, RInv, [Next]_vars
    PROVE  RInv' /\ hasSchedule' = hasSchedule /\ \A h \in Helpers : ~Timeout(h)
<1>1. hasSchedule' = hasSchedule
  BY StepCases, ControllerKeeps DEF vars
<1>2. ASSUME UNCHANGED <<pos, pc, req, procVars, gaveUp, aborted>> PROVE RInv'
  BY <1>1, <1>2 DEF RInv, RLabels, RGate, ROrder, RSent, Deferred, Issued, HasPre, procVars
<1>3. \A h \in Helpers : ~Timeout(h)
  BY <1>1, ReplayOfHelper DEF OfHelper
<1>4. QED
  BY <1>1, <1>2, <1>3, StepCases, ReplayIssue, ReplayOfOp, ReplayOfHelper, ControllerKeeps
     DEF vars

LEMMA ReplayInvariant ==
    ASSUME StagesKnown, Provisioning
    PROVE  Spec => []ReplayInv
<1>1. Init => ReplayInv
  BY ReplayInit DEF ReplayInv
<1>2. ASSUME TypeInv, ReplayInv, [Next]_vars PROVE ReplayInv'
  <2>1. hasSchedule' = hasSchedule
    BY <1>2, StepCases, ControllerKeeps DEF vars
  <2>2. QED
    BY <1>2, <2>1, ReplayStep DEF ReplayInv, TypeInv
<1>3. QED
  BY <1>1, <1>2, TypeInvariant, PTL DEF Spec

-----------------------------------------------------------------------------
(* What the two gates give *)

\* In provisioning who asks is one outstanding post helper, or one deferred pre helper.
LEMMA OneAsks ==
    ASSUME Provisioning, TypeOK, GateInv, ReplayInv
    PROVE  OneTransaction
<1> SUFFICES ASSUME NEW g \in DOMAIN req, NEW h \in DOMAIN req, g[2][1] = h[2][1],
                    Asking(g), Asking(h)
             PROVE  g = h
  BY DEF OneTransaction
<1>1. /\ g[2] \in Ops /\ (g = Pre(g[2]) \/ g = Post(g[2]))
      /\ h[2] \in Ops /\ (h = Pre(h[2]) \/ h = Post(h[2]))
  BY HelperFacts DEF TypeOK
<1>2. CASE hasSchedule
  <2>1. g = Pre(g[2]) /\ h = Pre(h[2]) /\ Deferred(g[2]) /\ Deferred(h[2])
    BY <1>1, <1>2 DEF ReplayInv, RInv, RLabels, Asking, Deferred
  <2>2. g[2] = h[2]
    BY <1>1, <1>2, <2>1 DEF ReplayInv, RInv, RGate
  <2>3. QED
    BY <2>1, <2>2
<1>3. CASE ~hasSchedule
  <2>1. g = Post(g[2]) /\ h = Post(h[2]) /\ Outstanding(g[2]) /\ Outstanding(h[2])
    BY <1>1, <1>3 DEF GateInv, GInv, GLabels, Asking, Outstanding
  <2>2. g[2] = h[2]
    BY <1>1, <1>3, <2>1 DEF GateInv, GInv, GGate
  <2>3. QED
    BY <2>1, <2>2
<1>4. QED
  BY <1>2, <1>3

\* In provisioning without pipeline backends, and in its replay, the helpers of a process
\* never have two requests open at once, although nothing but topo_ready keeps the post
\* threads of its backends apart: the socket's transactions are serial (opus.cpp:403).
THEOREM Transactions ==
    ASSUME StagesKnown, Provisioning, PatternInOrder
    PROVE  Spec => []OneTransaction
<1>1. TypeInv /\ GateInv /\ ReplayInv => OneTransaction
  BY OneAsks DEF TypeInv
<1>2. QED
  BY <1>1, TypeInvariant, GateInvariant, ReplayInvariant, PTL

\* In provisioning no operation of the rails gets to NCCL while the end of an earlier
\* stage of its process has still to be handled, on whatever backends and threads.
THEOREM GateHolds ==
    ASSUME StagesKnown, Provisioning, PatternInOrder
    PROVE  Spec => []StageGate
<1>1. ASSUME TypeOK, GateInv PROVE StageGate
  <2> SUFFICES ASSUME NEW o \in Ops, Managed(o), OpReady(o), NEW p \in Earlier[o], EndsStage(p)
               PROVE  pc[Post(p)] = "done"
    BY DEF StageGate
  <2>1. p \in Ops
    BY <1>1, GFacts
  <2>2. ~hasSchedule /\ GInv
    <3>1. ASSUME hasSchedule PROVE Len(Stages(p[1])) = 0
      BY <3>1 DEF Stages
    <3>2. ~hasSchedule
      BY <3>1 DEF EndsStage
    <3>3. QED
      BY <1>1, <3>2 DEF GateInv
  <2>3. pc[Pre(o)] = "done"
    BY <2>2 DEF OpReady, Reached, GInv, GOrder
  <2>4. CASE Managed(p)
    <3>1. \E i \in StagesOf(p) : EndsAt(p, i)
      BY <2>1, <2>2, <2>4, EndsFacts
    <3>2. QED
      BY <2>2, <2>3, <3>1 DEF GInv, GBehind
  <2>5. CASE ~Managed(p)
    BY <2>1, <2>2, <2>5 DEF GInv, GLabels
  <2>6. QED
    BY <2>4, <2>5
<1>2. QED
  BY <1>1, TypeInvariant, GateInvariant, PTL DEF TypeInv

\* In provisioning a process asks for the next stage only when all its operations of the
\* earlier stages have run, on every stream, when each stage end waits for them
\* (StagesClosed): the rail is not taken away from under an operation.
THEOREM StagesLeft ==
    ASSUME StagesKnown, Provisioning, PatternInOrder, StagesClosed
    PROVE  Spec => []StageFinished
<1>1. ASSUME TypeOK, GateInv, ReplayInv PROVE StageFinished
  <2> SUFFICES ASSUME NEW h \in DOMAIN req, pc[h] = "provision",
                      NEW p \in Earlier[h[2]] \cup {h[2]}, Managed(p)
               PROVE  p \in ran
    BY DEF StageFinished
  <2> DEFINE o == h[2]
  <2>1. o \in Ops /\ (h = Pre(o) \/ h = Post(o))
    BY <1>1, HelperFacts DEF TypeOK
  <2>2. ~hasSchedule /\ GInv
    BY <1>1, <2>1 DEF GateInv, ReplayInv, RInv, RLabels
  <2>3. pc[Post(o)] = "provision" /\ \E i \in StagesOf(o) : EndsAt(o, i)
    BY <2>1, <2>2 DEF GInv, GLabels, GRan
  <2> HIDE DEF o
  <2>4. Managed(o) /\ Grp(o) \notin Coalesced /\ o \in ran /\ Before[o] \subseteq ran
    BY <2>1, <2>2, <2>3 DEF EndsAt, StagesClosed, GInv, GRan
  <2>5. pc[Pre(o)] = "done"
    BY <2>1, <2>2, <2>3, <2>4 DEF GInv, GOrder
  <2>6. ASSUME NEW q \in Earlier[o], \E i \in StagesOf(q) : EndsAt(q, i)
        PROVE  q \in ran /\ Before[q] \subseteq ran
    <3>1. q \in Ops /\ Managed(q) /\ Grp(q) \notin Coalesced
      BY <1>1, <2>1, <2>6, GFacts DEF EndsAt, StagesClosed
    <3>2. pc[Post(q)] = "done"
      BY <2>1, <2>2, <2>4, <2>5, <2>6 DEF GInv, GBehind
    <3>3. QED
      BY <2>2, <3>1, <3>2 DEF GInv, GRan
  <2>7. CASE p = o
    BY <2>4, <2>7
  <2>8. CASE p \in Earlier[o]
    <3>1. CASE p \in Before[o]
      BY <2>4, <3>1
    <3>2. CASE p \notin Before[o]
      <4>1. PICK q \in Earlier[o] : (\E i \in StagesOf(q) : EndsAt(q, i)) /\ (p = q \/ p \in Before[q])
        BY <2>1, <2>3, <2>8, <3>2 DEF StagesClosed
      <4>2. QED
        BY <2>6, <4>1
    <3>3. QED
      BY <3>1, <3>2
  <2>9. QED
    BY <2>7, <2>8 DEF o
<1>2. QED
  BY <1>1, TypeInvariant, GateInvariant, ReplayInvariant, PTL DEF TypeInv

\* A replaying process that waits in vain ends, so its acknowledgements stay in step.
LEMMA ReplayAcks ==
    ASSUME StagesKnown, PipelinePairs, Provisioning
    PROVE  Spec => [](hasSchedule => AckInv)
<1> DEFINE J == hasSchedule => AckInv
           One == hasSchedule => OneTransaction
<1>1. Init => J
  BY AckInit
<1>2. TypeInv /\ ReplayInv => One
  BY OneAsks DEF TypeInv, GateInv
<1>3. ASSUME TypeInv, ReplayInv, One, One', J, [Next]_vars PROVE J'
  <2> SUFFICES ASSUME hasSchedule' PROVE AckInv'
    OBVIOUS
  <2>1. hasSchedule' = hasSchedule
    BY <1>3, StepCases, ControllerKeeps DEF vars
  <2>2. hasSchedule /\ RInv /\ AckInv /\ OneTransaction /\ OneTransaction'
    BY <1>3, <2>1 DEF ReplayInv
  <2>3. \A h \in Helpers : ~Timeout(h)
    BY <1>3, <2>2, ReplayStep DEF TypeInv
  <2>4. QED
    BY <1>3, <2>2, <2>3, AckStep
<1> HIDE DEF One
<1>4. QED
  BY <1>1, <1>2, <1>3, TypeInvariant, ReplayInvariant, PTL DEF Spec

\* Replay of a schedule in provisioning: an operation gets to NCCL only when every topology
\* that the schedule puts before it has been granted, although pre_coll returns at once and
\* another thread sends the request and waits; timeouts included.
THEOREM ScheduledFirst ==
    ASSUME StagesKnown, PipelinePairs, Provisioning, ScheduledManaged
    PROVE  Spec => []RequestFirst
<1>1. ASSUME ReplayInv, hasSchedule => AckInv PROVE RequestFirst
  <2> SUFFICES ASSUME NEW o \in Ops, OpReady(o), NEW p \in Earlier[o], hasSchedule,
                      p[2] \in DOMAIN Schedule[p[1]]
               PROVE  Key(Schedule[p[1]][p[2]]) \in granted
    BY DEF RequestFirst
  <2>1. p \in Ops /\ RInv /\ AckExact
    BY <1>1 DEF Earlier, ReplayInv, AckInv
  <2>2. pc[Pre(p)] = "done"
    BY <2>1 DEF RInv, ROrder, OpReady, Reached
  <2>3. HasPre(p)
    BY <2>1 DEF ScheduledManaged, HasPre
  <2>4. /\ Pre(p) \in DOMAIN req /\ req[Pre(p)] = Schedule[p[1]][p[2]]
        /\ Pre(p) \notin gaveUp /\ ~Asking(Pre(p))
    BY <2>1, <2>2, <2>3 DEF RInv, RSent, Asking
  <2>5. QED
    BY <2>1, <2>4 DEF AckExact
<1>2. QED
  BY <1>1, ReplayInvariant, ReplayAcks, PTL

-----------------------------------------------------------------------------
(* On demand: the topology of a job of two pipeline stages *)

\* Baseline mode, in which pre_coll asks for every topology, on the stream.
OnDemand == Mode = 0 /\ Replays = {FALSE} /\ MayTimeout = {}

\* Managed operations of a process do not overlap: they are on one stream, or the default
\* stream comes between them.
Serialised ==
    \A o \in Ops : \A p \in Earlier[o] : (Managed(o) /\ Managed(p)) => p \in Before[o]

\* A process is in one pipeline communicator of two ranks, and every other communicator
\* that the controller knows is all the ranks of one pipeline stage.
TwoStages ==
    /\ \A g, k \in Groups : (is_pp_backend_(g) /\ is_pp_backend_(k)) =>
          (g = k \/ Members[g] \cap Members[k] = {})
    /\ \A g \in Groups : is_pp_backend_(g) => Cardinality(Members[g]) = 2
    /\ \A g \in Groups \ Unmanaged : ~is_pp_backend_(g) =>
          /\ BackendOf[g] <= PP_BACKEND_INTERVAL
          /\ \A r \in Members[g] : Members[g] = {s \in Ranks : pp_stage_(s) = pp_stage_(r)}

\* A pipeline communicator sends to and receives from the other rank, the others run
\* collectives, all ranks take part in an operation, and the counters stay in their intervals.
PairsAndRings ==
    /\ \A o \in Ops : Managed(o) =>
          IF is_pp_backend_(Grp(o)) THEN Op(o).peer \in {0, 1} \ {RankIn(o[1], Grp(o))}
                                    ELSE Op(o).peer = -1
    /\ \A o \in Ops : Managed(o) =>
          \A r \in Members[Grp(o)] : \E p \in Party[o] : p[1] = r
    /\ \A r \in Ranks : Len(Program[r]) <= PP_INTERVAL
    /\ PP_BACKEND_INTERVAL > 1

\* Operation o is the first one of stage i, the one it is in: the pattern's earlier stages
\* end before o, and no others do.
BeginsAt(o, i) ==
    /\ Backend(o) = Pattern[o[1]][i + 1].sb % PP_BACKEND_INTERVAL
    /\ Counter[o] = Pattern[o[1]][i + 1].sc
    /\ \A j \in StagesOf(o) : j < i <=> \E p \in Earlier[o] : EndsAt(p, j)

\* A ring that follows a pipeline operation, or is the first operation, begins a stage.
StageAtSwitch ==
    \A o \in Ops : (Managed(o) /\ ~is_pp_backend_(Grp(o))) =>
        \/ \E i \in StagesOf(o) : BeginsAt(o, i)
        \/ \E p \in Earlier[o] : /\ Managed(p) /\ ~is_pp_backend_(Grp(p))
                                 /\ \A q \in Earlier[o] : Managed(q) => q[2] <= p[2]

Sent(o) == Pre(o) \in DOMAIN req
Over(o) == o \in ran /\ pc[Pre(o)] = "done" /\ pc[Post(o)] = "done"
Decided(o) == pc[Pre(o)] \in {"write", "finish", "done"}

DLabels ==
    /\ ~hasSchedule /\ gaveUp = {}
    /\ \A o \in Ops : /\ pc[Pre(o)] \in {"new", "decide", "write", "finish", "done"}
                      /\ pc[Post(o)] \in {"new", "signal", "done"}
                      /\ ~Managed(o) => pc[Pre(o)] = "done"

\* A process does one operation at a time.
DOrder ==
    \A o \in Ops : (Managed(o) /\ pc[Pre(o)] # "new") =>
        \A p \in Earlier[o] : Managed(p) => Over(p)

\* Requests are sent by pre helpers, and each operation has a request of its own.
DSent ==
    \A o \in Ops :
        /\ Post(o) \notin DOMAIN req
        /\ Sent(o) => Managed(o) /\ Decided(o) /\ req[Pre(o)] = WriteReq(o, Counter[o])

\* The stage index is past the stage ends that pre helpers have seen, and no others.
DIndex ==
    /\ \A r \in Ranks : \A j \in Nat : j < curCommStageIdx_[r] =>
          \E p \in Ops : p[1] = r /\ EndsAt(p, j) /\ pc[Pre(p)] = "done"
    /\ \A p \in Ops : \A j \in StagesOf(p) :
          (EndsAt(p, j) /\ pc[Pre(p)] = "done") => j < curCommStageIdx_[p[1]]

DChange ==
    \A o \in Ops : Managed(o) =>
        /\ pc[Pre(o)] \in {"new", "decide"} => o \notin change
        /\ pc[Pre(o)] \in {"write", "finish"} =>
              (o \in change <=> EndsAt(o, curCommStageIdx_[o[1]]))

\* The last request at or before o, sent by q.
LastSent(q, o) ==
    /\ q[1] = o[1] /\ q[2] <= o[2] /\ Sent(q)
    /\ \A p \in Ops : (p[1] = o[1] /\ q[2] < p[2] /\ p[2] <= o[2]) => ~Sent(p)

\* It was for a topology of the kind that o needs.
DLast ==
    \A o \in Ops : (Managed(o) /\ Decided(o)) =>
        \E q \in Ops : LastSent(q, o) /\ is_pp_backend_(Grp(q)) = is_pp_backend_(Grp(o))

DCtl == DLabels /\ DOrder /\ DSent
DStage == DIndex /\ DChange /\ DLast

\* The rail has been reconfigured for these requests.
Installed == granted \cup {Key(q) : q \in {p \in DOMAIN thread : thread[p].at = "ack"}}

\* The last request of the process is installed, and was sent by q.
Held(q) ==
    /\ Sent(q) /\ Key(req[Pre(q)]) \in Installed
    /\ \A p \in Ops : (p[1] = q[1] /\ q[2] < p[2]) => ~Sent(p)

\* Nothing is installed before it is asked for.
TAsked ==
    /\ \A o \in Ops : (Managed(o) /\ Key(WriteReq(o, Counter[o])) \in Installed) => Sent(o)
    /\ \A q \in busy : \E o \in Ops : Sent(o) /\ q = req[Pre(o)]

\* When the last request of all ranks of a stage was for a ring, the stage has its ring;
\* when that of both ranks of a pair was for the pair, it has its links.
RingAsked(g) ==
    \A r \in Members[g] : \E q \in Ops : q[1] = r /\ Held(q) /\ ~is_pp_backend_(Grp(q))
PairAsked(g) == \A r \in Members[g] : \E q \in Ops : q[1] = r /\ Held(q) /\ Grp(q) = g

TRing ==
    \A g \in Groups \ Unmanaged : (~is_pp_backend_(g) /\ RingAsked(g)) =>
        \A r \in Members[g] : pp_stage_(r) \notin topo
TPair ==
    \A g \in Groups \ Unmanaged : (is_pp_backend_(g) /\ PairAsked(g)) => {0, 1} \subseteq topo

\* The only thread that is not at its acknowledgement takes the topology id, and then the
\* rail, from what the rail has to what its request makes of it.
TLocal ==
    /\ \A p, q \in DOMAIN thread : (thread[p].at # "ack" /\ thread[q].at # "ack") => p = q
    /\ \A q \in DOMAIN thread :
          /\ thread[q].at = "write" => thread[q].topo = RuntimeTopo(topo, q)
          /\ thread[q].at = "connect" => topoIds = RuntimeTopo(topo, q)
          /\ thread[q].at = "await" => /\ topoIds = RuntimeTopo(topo, q)
                                      /\ thread[q].topo = topoIds
    /\ (\A q \in DOMAIN thread : thread[q].at = "ack") => topoIds = topo

TopoInv == TAsked /\ (~overlapped => TLocal /\ TRing /\ TPair)

LEMMA DivOfInterval ==
    ASSUME NEW c \in Nat, NEW k \in Nat \ {0}, c < k
    PROVE  c \div k = 0 /\ (c + k) \div k = 1
OBVIOUS

LEMMA PairMembers ==
    ASSUME TwoStages, NEW g \in Groups, is_pp_backend_(g)
    PROVE  \E u, v \in Ranks : Members[g] = {u, v} /\ u < v /\ RankIn(u, g) = 0 /\ RankIn(v, g) = 1
<1>1. Cardinality(Members[g]) = 2 /\ Members[g] \subseteq Ranks /\ Ranks \subseteq Nat
  BY ShapeAssumption DEF TwoStages
<1>2. IsFiniteSet(Members[g])
  BY RankInType
<1>3. Members[g] # {}
  BY <1>1, FS_EmptySet
<1>4. PICK a \in Members[g] : TRUE
  BY <1>3
<1>5. IsFiniteSet(Members[g] \ {a}) /\ Cardinality(Members[g] \ {a}) = 1
  BY <1>1, <1>2, <1>4, FS_RemoveElement
<1>6. PICK b : Members[g] \ {a} = {b}
  BY <1>5, FS_Singleton
<1>7. a \in Nat /\ b \in Nat /\ a # b /\ Members[g] = {a, b} /\ a \in Ranks /\ b \in Ranks
  BY <1>1, <1>4, <1>6
<1>8. PICK u, v \in {a, b} : u < v /\ Members[g] = {u, v}
  BY <1>7
<1>9. u \in Nat /\ v \in Nat
  BY <1>7
<1>10. {s \in Members[g] : s < u} = {} /\ {s \in Members[g] : s < v} = {u}
  BY <1>8, <1>9
<1>11. RankIn(u, g) = 0 /\ RankIn(v, g) = 1
  BY <1>10, FS_EmptySet, FS_Singleton DEF RankIn
<1>12. QED
  BY <1>7, <1>8, <1>11

\* The pipeline stage of a rank is its rank in its pipeline communicator.
LEMMA PairStages ==
    ASSUME TwoStages, NEW g \in Groups, is_pp_backend_(g)
    PROVE  /\ \A r \in Members[g] : pp_stage_(r) = RankIn(r, g) /\ RankIn(r, g) \in {0, 1}
           /\ \A s \in {0, 1} : \E r \in Members[g] : pp_stage_(r) = s
<1>1. PICK u, v \in Ranks : Members[g] = {u, v} /\ RankIn(u, g) = 0 /\ RankIn(v, g) = 1
  BY PairMembers
<1>2. ASSUME NEW r \in Members[g] PROVE pp_stage_(r) = RankIn(r, g)
  <2> DEFINE pp == {k \in Groups : is_pp_backend_(k) /\ r \in Members[k]}
  <2>1. g \in pp
    OBVIOUS
  <2>2. \A k \in pp : k = g
    BY DEF TwoStages
  <2>3. (CHOOSE k \in pp : TRUE) = g
    BY <2>1, <2>2
  <2>4. QED
    BY <2>1, <2>3 DEF pp_stage_
<1>3. QED
  BY <1>1, <1>2

LEMMA StageBit == ASSUME TwoStages, NEW r PROVE pp_stage_(r) \in {0, 1}
<1> DEFINE pp == {k \in Groups : is_pp_backend_(k) /\ r \in Members[k]}
<1>1. CASE pp = {}
  BY <1>1 DEF pp_stage_
<1>2. CASE pp # {}
  <2>1. PICK g \in Groups : is_pp_backend_(g) /\ r \in Members[g]
    BY <1>2
  <2>2. QED
    BY <2>1, PairStages
<1>3. QED
  BY <1>1, <1>2

\* A send or receive of a pipeline communicator is with the other rank, and its base is 1.
LEMMA PairBase ==
    ASSUME TwoStages, PairsAndRings, NEW o \in Ops, Managed(o), is_pp_backend_(Grp(o))
    PROVE  /\ Op(o).peer = 1 - RankIn(o[1], Grp(o)) /\ Op(o).peer # -1
           /\ get_pp_base(o) = 1
<1>1. RankIn(o[1], Grp(o)) \in {0, 1}
  BY OpFacts, PairStages
<1>2. Op(o).peer \in {0, 1} \ {RankIn(o[1], Grp(o))}
  BY DEF PairsAndRings
<1>3. Op(o).peer = 1 - RankIn(o[1], Grp(o)) /\ Op(o).peer # -1
  BY <1>1, <1>2
<1>4. Up(o) <=> RankIn(o[1], Grp(o)) = 0
  BY <1>1, <1>3 DEF Up
<1>5. QED
  BY <1>1, <1>3, <1>4 DEF get_pp_base

Counted(o) == {p \in Earlier[o] : Same(o, p)}

LEMMA CountedFinite ==
    ASSUME NEW o \in Ops
    PROVE  IsFiniteSet(Counted(o)) /\ Cardinality(Counted(o)) \in Nat
<1>1. Counted(o) \subseteq Ops
  BY DEF Earlier, Counted
<1>2. QED
  BY <1>1, OpsFinite, FS_Subset, FS_CardinalityType

\* The counter of an operation of the rails, which stays below the interval.
LEMMA CounterIs ==
    ASSUME TwoStages, PairsAndRings, NEW o \in Ops, Managed(o)
    PROVE  /\ Counter[o] = Cardinality(Counted(o))
                             + (IF is_pp_backend_(Grp(o)) THEN PP_INTERVAL ELSE 0)
           /\ Cardinality(Counted(o)) < PP_INTERVAL
<1>1. Counter[o] = Cardinality(Counted(o))
                     + (IF Op(o).peer = -1 THEN 0 ELSE get_pp_base(o) * PP_INTERVAL)
  BY DEF Counter, Counted
<1>2. Counter[o] = Cardinality(Counted(o)) + (IF is_pp_backend_(Grp(o)) THEN PP_INTERVAL ELSE 0)
  <2>1. CASE is_pp_backend_(Grp(o))
    BY <1>1, <2>1, PairBase, ShapeAssumption
  <2>2. CASE ~is_pp_backend_(Grp(o))
    BY <1>1, <2>2 DEF PairsAndRings
  <2>3. QED
    BY <2>1, <2>2
<1> DEFINE f == [p \in Counted(o) |-> p[2]]
<1>3. \A p \in Counted(o) : p \in Ops /\ p[1] = o[1] /\ p[2] < o[2]
  BY DEF Counted, Earlier
<1>4. PICK S : Program[o[1]] \in Seq(S)
  BY OpFacts, ProgramAssumption
<1>5. o[2] \in 1..Len(Program[o[1]]) /\ Len(Program[o[1]]) \in Nat
  BY <1>4, OpFacts, SeqFacts
<1>6. \A p \in Counted(o) : p[2] \in 1..(o[2] - 1) /\ p = <<o[1], p[2]>>
  <2> SUFFICES ASSUME NEW p \in Counted(o) PROVE p[2] \in 1..(o[2] - 1) /\ p = <<o[1], p[2]>>
    OBVIOUS
  <2>1. p \in Ops /\ p[1] = o[1] /\ p[2] < o[2]
    BY <1>3
  <2>2. p = <<p[1], p[2]>> /\ p[2] \in DOMAIN Program[o[1]]
    BY <2>1, OpFacts
  <2>3. p[2] \in 1..Len(Program[o[1]])
    BY <1>4, <2>2, SeqFacts
  <2>4. QED
    BY <1>5, <2>1, <2>2, <2>3
<1>7. f \in Injection(Counted(o), 1..(o[2] - 1))
  BY <1>6 DEF Injection, IsInjective
<1>8. IsFiniteSet(1..(o[2] - 1)) /\ Cardinality(1..(o[2] - 1)) = o[2] - 1
  <2>1. 1 \in Int /\ o[2] - 1 \in Int /\ 1 <= o[2]
    BY <1>5
  <2>2. IsFiniteSet(1..(o[2] - 1))
    BY <2>1, FS_Interval
  <2>3. Cardinality(1..(o[2] - 1)) = IF 1 > o[2] - 1 THEN 0 ELSE (o[2] - 1) - 1 + 1
    BY <2>1, FS_Interval
  <2>4. QED
    BY <1>5, <2>2, <2>3
<1>9. Cardinality(Counted(o)) <= o[2] - 1
  BY <1>7, <1>8, FS_Injection
<1>10. Len(Program[o[1]]) <= PP_INTERVAL
  BY OpFacts DEF PairsAndRings
<1>11. QED
  BY <1>2, <1>5, <1>9, <1>10, CountedFinite, ShapeAssumption

LEMMA CounterGrows ==
    ASSUME TwoStages, PairsAndRings, NEW o \in Ops, NEW p \in Ops, Managed(o),
           o[1] = p[1], Grp(o) = Grp(p), o[2] < p[2]
    PROVE  Counter[o] < Counter[p]
<1>0. Managed(p) /\ o[2] \in Nat /\ p[2] \in Nat
  BY OpFacts DEF Managed
<1>1. \A x \in Ops : Same(o, x) <=> Same(p, x)
  <2>1. CASE is_pp_backend_(Grp(o))
    <3>1. Op(o).peer # -1 /\ Op(p).peer # -1 /\ Op(o).peer = Op(p).peer
      BY <1>0, <2>1, PairBase
    <3>2. Up(o) = Up(p)
      BY <3>1 DEF Up
    <3>3. QED
      BY <3>1, <3>2 DEF Same
  <2>2. CASE ~is_pp_backend_(Grp(o))
    <3>1. Op(o).peer = -1 /\ Op(p).peer = -1
      BY <1>0, <2>2 DEF PairsAndRings
    <3>2. QED
      BY <3>1 DEF Same
  <2>3. QED
    BY <2>1, <2>2
<1>2. Counted(o) \subseteq Counted(p)
  <2>1. \A x \in Earlier[o] : x \in Ops /\ x \in Earlier[p]
    BY <1>0, OpFacts DEF Earlier
  <2>2. QED
    BY <1>1, <2>1 DEF Counted
<1>3. o \in Counted(p) /\ o \notin Counted(o)
  <2>1. Same(o, o)
    BY DEF Same
  <2>2. QED
    BY <1>0, <1>1, <2>1 DEF Counted, Earlier
<1>4. Counted(o) # Counted(p)
  BY <1>3
<1>5. IsFiniteSet(Counted(p)) /\ Cardinality(Counted(p)) \in Nat /\ Cardinality(Counted(o)) \in Nat
  BY CountedFinite
<1>6. Cardinality(Counted(o)) < Cardinality(Counted(p))
  BY <1>2, <1>4, <1>5, FS_Subset
<1>7. QED
  BY <1>0, <1>5, <1>6, CounterIs, ShapeAssumption

\* What the controller makes of an operation's request.
LEMMA RequestIs ==
    ASSUME TwoStages, PairsAndRings, NEW o \in Ops, Managed(o), NEW q, q = WriteReq(o, Counter[o])
    PROVE  /\ q.hex = Grp(o)
           /\ is_pp_backend_(Grp(o)) => IsPP(q) /\ PPGroup(q) = 1
           /\ ~is_pp_backend_(Grp(o)) => ~IsPP(q) /\ q.counter \div PP_INTERVAL = pp_stage_(o[1])
<1> DEFINE n == Cardinality(Counted(o))
<1>1. n \in Nat /\ n < PP_INTERVAL
      /\ Counter[o] = n + (IF is_pp_backend_(Grp(o)) THEN PP_INTERVAL ELSE 0)
  BY CountedFinite, CounterIs
<1> HIDE DEF n
<1>2. PP_INTERVAL \in Nat \ {0} /\ PP_BACKEND_INTERVAL \in Nat \ {0} /\ PP_BACKEND_INTERVAL > 1
  BY ShapeAssumption DEF PairsAndRings
<1>3. CASE is_pp_backend_(Grp(o))
  <2>1. Counter[o] = n + PP_INTERVAL /\ Counter[o] \div PP_INTERVAL = 1
    BY <1>1, <1>2, <1>3, DivOfInterval
  <2>2. Backend(o) = 1
    BY <1>3 DEF is_pp_backend_, Backend
  <2>3. q.backend = 1 + PP_BACKEND_INTERVAL
    BY <1>2, <1>3, <2>1, <2>2 DEF WriteReq
  <2>4. PPGroup(q) = 1 /\ IsPP(q)
    BY <1>2, <2>3, DivOfInterval DEF PPGroup, IsPP
  <2>5. QED
    BY <1>3, <2>4 DEF WriteReq
<1>4. CASE ~is_pp_backend_(Grp(o))
  <2>1. Counter[o] = n /\ pp_stage_(o[1]) \in {0, 1}
    BY <1>1, <1>4, StageBit
  <2>2. q.backend = Backend(o) + 0 /\ q.counter = n + pp_stage_(o[1]) * PP_INTERVAL
    BY <1>4, <2>1 DEF WriteReq
  <2>3. Grp(o) \in Groups \ Unmanaged /\ BackendOf[Grp(o)] <= PP_BACKEND_INTERVAL /\ Backend(o) \in Nat
    BY <1>4, OpFacts DEF Managed, TwoStages
  <2>4. ~IsPP(q)
    BY <1>2, <2>2, <2>3 DEF IsPP, Backend
  <2>5. q.counter \div PP_INTERVAL = pp_stage_(o[1])
    <3>1. CASE pp_stage_(o[1]) = 0
      BY <1>1, <1>2, <2>2, <3>1, DivOfInterval
    <3>2. CASE pp_stage_(o[1]) = 1
      BY <1>1, <1>2, <2>2, <3>2, DivOfInterval
    <3>3. QED
      BY <2>1, <3>1, <3>2
  <2>6. QED
    BY <1>4, <2>4, <2>5 DEF WriteReq
<1>5. QED
  BY <1>3, <1>4

\* The operations of a process have different keys.
LEMMA KeysDiffer ==
    ASSUME TwoStages, PairsAndRings, NEW o \in Ops, NEW p \in Ops, Managed(o), Managed(p),
           o[1] = p[1], Key(WriteReq(o, Counter[o])) = Key(WriteReq(p, Counter[p]))
    PROVE  o = p
<1>1. Grp(o) = Grp(p)
  BY DEF Key, WriteReq
<1>2. Counter[o] \in Nat /\ Counter[p] \in Nat /\ pp_stage_(o[1]) * PP_INTERVAL \in Nat
  BY CounterType, StageOfRankType, ShapeAssumption
<1> DEFINE d == IF is_pp_backend_(Grp(o)) THEN 0 ELSE pp_stage_(o[1]) * PP_INTERVAL
<1>3. Counter[o] + d = Counter[p] + d
  BY <1>1 DEF Key, WriteReq
<1>4. Counter[o] = Counter[p]
  BY <1>2, <1>3
<1>5. ~(o[2] < p[2]) /\ ~(p[2] < o[2])
  BY <1>1, <1>2, <1>4, CounterGrows
<1>6. o[2] = p[2]
  BY <1>5, OpFacts
<1>7. QED
  BY <1>6, OpFacts

-----------------------------------------------------------------------------
(* One operation at a time is inductive *)

LEMMA DInit == ASSUME OnDemand, Init PROVE DCtl /\ DStage
<1>1. /\ hasSchedule = FALSE /\ DOMAIN req = {} /\ change = {} /\ gaveUp = {}
      /\ curCommStageIdx_ = [r \in Ranks |-> 0]
  BY DEF OnDemand, Init
<1>2. \A o \in Ops : /\ pc[Pre(o)] = IF Managed(o) THEN "new" ELSE "done"
                     /\ pc[Post(o)] \in {"new", "done"}
  BY <1>1, OpFacts DEF Init, HasPre
<1>3. DLabels /\ DOrder /\ DSent /\ DChange /\ DLast
  BY <1>1, <1>2 DEF DLabels, DOrder, DSent, DChange, DLast, Sent, Decided
<1>4. DIndex
  <2>1. \A p \in Ops : \A j : EndsAt(p, j) => pc[Pre(p)] # "done"
    BY <1>2 DEF EndsAt
  <2>2. \A r \in Ranks : \A j \in Nat : ~(j < curCommStageIdx_[r])
    BY <1>1
  <2>3. QED
    BY <2>1, <2>2 DEF DIndex
<1>5. QED
  BY <1>3, <1>4 DEF DCtl, DStage

\* Steps that send nothing and move no pre helper.
LEMMA DQuiet ==
    ASSUME TypeOK, DCtl, ran \subseteq ran',
           UNCHANGED <<hasSchedule, gaveUp, req, change, curCommStageIdx_>>,
           \A o \in Ops : /\ pc'[Pre(o)] = pc[Pre(o)]
                          /\ pc'[Post(o)] \in {"new", "signal", "done"}
                          /\ pc[Post(o)] = "done" => pc'[Post(o)] = "done"
    PROVE  DCtl' /\ (DStage => DStage')
<1>0. \A p \in Ops : \A q \in Earlier[p] : q \in Ops
  BY GFacts
<1>1. DLabels'
  BY DEF DCtl, DLabels
<1>2. DOrder'
  BY <1>0 DEF DCtl, DOrder, Over
<1>3. DSent'
  BY DEF DCtl, DSent, Sent, Decided
<1>4. DStage => DIndex'
  BY DEF DStage, DIndex
<1>5. DStage => DChange'
  BY DEF DStage, DChange
<1>6. DStage => DLast'
  BY DEF DStage, DLast, LastSent, Sent, Decided
<1>7. QED
  BY <1>1, <1>2, <1>3, <1>4, <1>5, <1>6 DEF DCtl, DStage

\* A pre helper passes the gate, or is acknowledged.
LEMMA DAdvance ==
    ASSUME TypeOK, DCtl, NEW o \in Ops, Managed(o), NEW x,
           UNCHANGED <<hasSchedule, gaveUp, req, change, curCommStageIdx_, ran>>,
           pc' = [pc EXCEPT ![Pre(o)] = x],
           \/ /\ pc[Pre(o)] = "new" /\ x = "decide"
              /\ \A p \in Earlier[o] : Managed(p) => Over(p)
           \/ pc[Pre(o)] = "write" /\ x = "finish"
    PROVE  DCtl' /\ (DStage => DStage')
<1>0. \A p \in Ops : /\ pc'[Pre(p)] = IF p = o THEN x ELSE pc[Pre(p)]
                     /\ pc'[Post(p)] = pc[Post(p)]
  BY GFacts DEF TypeOK
<1>1. \A p \in Ops : \A q \in Earlier[p] : q \in Ops
  BY GFacts
<1>2. \A p \in Ops : /\ Over(p) => Over(p)'
                     /\ Decided(p)' <=> Decided(p)
                     /\ pc'[Pre(p)] = "done" <=> pc[Pre(p)] = "done"
  BY <1>0 DEF Over, Decided
<1>3. DLabels'
  BY <1>0 DEF DCtl, DLabels
<1>4. DOrder'
  BY <1>0, <1>1, <1>2 DEF DCtl, DOrder
<1>5. DSent'
  BY <1>2 DEF DCtl, DSent, Sent
<1>6. DStage => DIndex'
  BY <1>2 DEF DStage, DIndex
<1>7. DStage => DChange'
  BY <1>0 DEF DStage, DChange
<1>8. DStage => DLast'
  BY <1>2 DEF DStage, DLast, LastSent, Sent
<1>9. QED
  BY <1>3, <1>4, <1>5, <1>6, <1>7, <1>8 DEF DCtl, DStage

\* While an operation is being decided, the stage index is that of its stage.
LEMMA StageIs ==
    ASSUME TypeOK, DCtl, DStage, NEW o \in Ops, Managed(o), pc[Pre(o)] # "new", pc[Pre(o)] # "done"
    PROVE  LET r == o[1] IN
           /\ \A p \in Ops : \A j \in Nat :
                (p[1] = r /\ EndsAt(p, j) /\ pc[Pre(p)] = "done") => p \in Earlier[o]
           /\ \A i \in StagesOf(o) : BeginsAt(o, i) => i = curCommStageIdx_[r]
<1> DEFINE r == o[1]
           i0 == curCommStageIdx_[r]
<1>0. /\ r \in Ranks /\ i0 \in Nat /\ StagesOf(o) \subseteq Nat /\ o[2] \in Nat
      /\ \A p \in Ops : p[2] \in Nat /\ (p[1] = o[1] /\ p[2] = o[2] => p = o)
      /\ \A p \in Earlier[o] : p \in Ops /\ p[1] = r
  <2>1. ~hasSchedule
    BY DEF DCtl, DLabels
  <2>2. StagesOf(o) \subseteq Nat
    BY <2>1, EndsFacts
  <2>3. QED
    BY <2>2, GFacts
<1>1. ASSUME NEW p \in Ops, NEW j \in Nat, p[1] = r, EndsAt(p, j), pc[Pre(p)] = "done"
      PROVE  p \in Earlier[o]
  <2>1. Managed(p) /\ p # o
    BY <1>1 DEF EndsAt
  <2>2. ASSUME o[2] < p[2] PROVE FALSE
    <3>1. o \in Earlier[p]
      BY <1>1, <2>2 DEF Earlier
    <3>2. QED
      BY <1>1, <2>1, <3>1 DEF DCtl, DOrder, Over
  <2>3. p[2] < o[2]
    BY <1>0, <1>1, <2>1, <2>2
  <2>4. QED
    BY <1>1, <2>3 DEF Earlier
<1>2. ASSUME NEW i \in StagesOf(o), BeginsAt(o, i) PROVE i = i0
  <2>1. \A j \in StagesOf(o) : j < i <=> \E p \in Earlier[o] : EndsAt(p, j)
    BY <1>2 DEF BeginsAt
  <2>2. ASSUME i < i0 PROVE FALSE
    <3>1. PICK p \in Ops : p[1] = r /\ EndsAt(p, i) /\ pc[Pre(p)] = "done"
      BY <1>0, <2>2 DEF DStage, DIndex
    <3>2. p \in Earlier[o]
      BY <1>0, <1>1, <3>1
    <3>3. QED
      BY <1>0, <2>1, <3>1, <3>2
  <2>3. ASSUME i0 < i PROVE FALSE
    <3>1. i0 \in StagesOf(o)
      BY <1>0, <2>3 DEF StagesOf
    <3>2. PICK p \in Earlier[o] : EndsAt(p, i0)
      BY <2>1, <2>3, <3>1
    <3>3. pc[Pre(p)] = "done" /\ p \in Ops /\ p[1] = r /\ i0 \in StagesOf(p)
      BY <1>0, <3>1, <3>2 DEF DCtl, DOrder, Over, EndsAt, StagesOf
    <3>4. i0 < i0
      BY <3>2, <3>3 DEF DStage, DIndex
    <3>5. QED
      BY <1>0, <3>4
  <2>4. QED
    BY <1>0, <2>2, <2>3
<1>3. QED
  BY <1>1, <1>2

\* The decision, and in a new stage or for a pipeline operation the request.
LEMMA DPreDecide ==
    ASSUME OnDemand, TypeOK, DCtl, NEW o \in Ops, PreDecide(o),
           hasSchedule' = hasSchedule
    PROVE  DCtl' /\ (StageAtSwitch /\ DStage => DStage')
<1> DEFINE r == o[1]
           i0 == curCommStageIdx_[r]
           pp == is_pp_backend_(Grp(o))
           write == is_comm_change_before(o, i0) \/ pp
           x == IF write THEN "write" ELSE "finish"
<1>0. /\ pc[Pre(o)] = "decide" /\ pc' = [pc EXCEPT ![Pre(o)] = x]
      /\ UNCHANGED <<gaveUp, curCommStageIdx_, ran>>
      /\ change' = IF is_comm_change_after(o, i0) THEN change \cup {o} ELSE change
      /\ IF write THEN SendReq(Pre(o), WriteReq(o, Counter[o])) ELSE UNCHANGED req
  BY DEF PreDecide, OnDemand, procVars
<1>1. Managed(o) /\ ~hasSchedule
  BY <1>0 DEF DCtl, DLabels
<1>2. \A p \in Ops : /\ pc'[Pre(p)] = IF p = o THEN x ELSE pc[Pre(p)]
                     /\ pc'[Post(p)] = pc[Post(p)]
  BY <1>0, GFacts DEF TypeOK
<1>3. \A p \in Ops : \A q \in Earlier[p] : q \in Ops
  BY GFacts
<1>4. \A p \in Ops : /\ Over(p) => Over(p)'
                     /\ Decided(p)' <=> (p = o \/ Decided(p))
                     /\ pc'[Pre(p)] = "done" <=> pc[Pre(p)] = "done"
  BY <1>0, <1>2 DEF Over, Decided
<1>5. /\ DOMAIN req' = DOMAIN req \cup (IF write THEN {Pre(o)} ELSE {})
      /\ \A h \in DOMAIN req' : req'[h] = IF write /\ h = Pre(o) THEN WriteReq(o, Counter[o]) ELSE req[h]
  <2>1. CASE write
    <3>1. SendReq(Pre(o), WriteReq(o, Counter[o]))
      BY <1>0, <2>1
    <3>2. req' = [u \in DOMAIN req \cup {Pre(o)} |-> IF u = Pre(o) THEN WriteReq(o, Counter[o]) ELSE req[u]]
      BY <3>1 DEF SendReq
    <3>3. QED
      BY <2>1, <3>2
  <2>2. CASE ~write
    BY <1>0, <2>2
  <2>3. QED
    BY <2>1, <2>2
<1> HIDE DEF write
<1>6. \A p \in Ops : Sent(p)' <=> (Sent(p) \/ (p = o /\ write))
  BY <1>5, GFacts DEF Sent
<1>7. ~Sent(o)
  BY <1>0 DEF DCtl, DSent, Decided
<1>8. DLabels'
  BY <1>0, <1>1, <1>2 DEF DCtl, DLabels
<1>9. DOrder'
  BY <1>0, <1>2, <1>3, <1>4 DEF DCtl, DOrder
<1>10. DSent'
  <2> SUFFICES ASSUME NEW p \in Ops
               PROVE  /\ Post(p) \notin DOMAIN req'
                      /\ Sent(p)' => Managed(p) /\ Decided(p)' /\ req'[Pre(p)] = WriteReq(p, Counter[p])
    BY DEF DSent
  <2>1. Post(p) \notin DOMAIN req'
    BY <1>5, GFacts DEF DCtl, DSent
  <2>2. ASSUME Sent(p)' PROVE Managed(p) /\ Decided(p)' /\ req'[Pre(p)] = WriteReq(p, Counter[p])
    <3>1. CASE p = o
      BY <1>1, <1>4, <1>5, <1>6, <1>7, <2>2, <3>1 DEF Sent
    <3>2. CASE p # o
      <4>1. Sent(p) /\ Pre(p) # Pre(o)
        BY <1>6, <2>2, <3>2, GFacts
      <4>2. Managed(p) /\ Decided(p) /\ req[Pre(p)] = WriteReq(p, Counter[p])
        BY <4>1 DEF DCtl, DSent
      <4>3. req'[Pre(p)] = req[Pre(p)]
        BY <1>5, <2>2, <4>1 DEF Sent
      <4>4. QED
        BY <1>4, <4>2, <4>3
    <3>3. QED
      BY <3>1, <3>2
  <2>3. QED
    BY <2>1, <2>2
<1>11. DStage => DIndex'
  BY <1>0, <1>4 DEF DStage, DIndex
<1>12. DStage => DChange'
  <2> SUFFICES ASSUME DStage PROVE DChange'
    OBVIOUS
  <2>1. is_comm_change_after(o, i0) <=> EndsAt(o, i0)
    <3>1. i0 \in Nat
      BY GFacts
    <3>2. QED
      BY <1>1, <3>1, EndsFacts
  <2>2. o \notin change
    BY <1>0, <1>1 DEF DStage, DChange
  <2>3. o \in change' <=> EndsAt(o, i0)
    BY <1>0, <2>1, <2>2
  <2>4. \A p \in Ops : p # o => (p \in change' <=> p \in change)
    BY <1>0
  <2>5. \A p \in Ops : pc'[Pre(p)] = IF p = o THEN x ELSE pc[Pre(p)]
    BY <1>2
  <2>6. x \in {"write", "finish"} /\ x \notin {"new", "decide"}
    OBVIOUS
  <2> HIDE DEF x
  <2>7. QED
    BY <1>0, <2>3, <2>4, <2>5, <2>6 DEF DStage, DChange
<1>13. StageAtSwitch /\ DStage => DLast'
  <2> SUFFICES ASSUME StageAtSwitch, DStage, NEW p \in Ops, Managed(p), Decided(p)'
               PROVE  \E q \in Ops : LastSent(q, p)' /\ is_pp_backend_(Grp(q)) = is_pp_backend_(Grp(p))
    BY DEF DLast
  <2>0. /\ \A p1 \in Ops : p1[2] \in Nat
        /\ \A p1 \in Ops : p1[1] = o[1] /\ p1[2] = o[2] => p1 = o
    BY GFacts
  <2>1. CASE p # o
    <3>1. Decided(p)
      BY <1>4, <2>1
    <3>2. PICK q \in Ops : LastSent(q, p) /\ is_pp_backend_(Grp(q)) = is_pp_backend_(Grp(p))
      BY <3>1 DEF DStage, DLast
    <3>3. ~(o[1] = p[1] /\ o[2] < p[2])
      <4> SUFFICES ASSUME o[1] = p[1], o[2] < p[2] PROVE FALSE
        OBVIOUS
      <4>1. o \in Earlier[p] /\ pc[Pre(p)] # "new"
        BY <3>1 DEF Earlier, Decided
      <4>2. QED
        BY <1>0, <1>1, <4>1 DEF DCtl, DOrder, Over
    <3>4. \A u \in Ops : (u[1] = p[1] /\ u[2] <= p[2]) => u # o
      BY <2>0, <2>1, <3>3
    <3>5. LastSent(q, p)'
      BY <1>6, <3>2, <3>4 DEF LastSent
    <3>6. QED
      BY <3>2, <3>5
  <2>2. CASE p = o /\ write
    <3>1. Sent(o)'
      BY <1>6, <2>2
    <3>2. LastSent(o, o)'
      BY <2>0, <3>1 DEF LastSent
    <3>3. QED
      BY <2>2, <3>2
  <2>3. CASE p = o /\ ~write
    <3>1. ~pp /\ ~is_comm_change_before(o, i0)
      BY <2>3 DEF write
    <3>2. ASSUME NEW i \in StagesOf(o), BeginsAt(o, i) PROVE FALSE
      <4>1. i = i0 /\ i \in Nat
        BY <1>0, <1>1, <3>2, StageIs, EndsFacts
      <4>2. i < Len(Pattern[o[1]]) /\ Stages(o[1]) = Pattern[o[1]]
        BY <1>1, <4>1 DEF StagesOf, Stages
      <4>3. is_comm_change_before(o, i)
        BY <3>2, <4>1, <4>2 DEF is_comm_change_before, BeginsAt, Stage
      <4>4. QED
        BY <3>1, <4>1, <4>3
    <3>3. PICK b \in Earlier[o] : /\ Managed(b) /\ ~is_pp_backend_(Grp(b))
                                  /\ \A q \in Earlier[o] : Managed(q) => q[2] <= b[2]
      BY <1>1, <3>1, <3>2 DEF StageAtSwitch
    <3>4. b \in Ops /\ b[1] = o[1] /\ b[2] < o[2]
      BY <3>3, GFacts
    <3>5. Decided(b)
      BY <1>0, <1>1, <3>3 DEF DCtl, DOrder, Over, Decided
    <3>6. PICK q \in Ops : LastSent(q, b) /\ is_pp_backend_(Grp(q)) = is_pp_backend_(Grp(b))
      BY <3>3, <3>4, <3>5 DEF DStage, DLast
    <3>7. ASSUME NEW u \in Ops, u[1] = o[1], q[2] < u[2], u[2] <= o[2], Sent(u) PROVE FALSE
      <4>1. u # o /\ Managed(u)
        BY <1>7, <3>7 DEF DCtl, DSent
      <4>2. u[2] < o[2]
        BY <2>0, <3>7, <4>1
      <4>3. u \in Earlier[o]
        BY <3>7, <4>2 DEF Earlier
      <4>4. u[2] <= b[2]
        BY <3>3, <4>1, <4>3
      <4>5. QED
        BY <3>4, <3>6, <3>7, <4>4 DEF LastSent
    <3>8. q[1] = o[1] /\ q[2] <= o[2] /\ Sent(q)
      BY <2>0, <3>4, <3>6 DEF LastSent
    <3>9. LastSent(q, o)'
      BY <1>6, <2>3, <3>7, <3>8 DEF LastSent
    <3>10. is_pp_backend_(Grp(q)) = is_pp_backend_(Grp(o))
      BY <3>1, <3>3, <3>6 DEF is_pp_backend_
    <3>11. QED
      BY <2>3, <3>9, <3>10
  <2>4. QED
    BY <2>1, <2>2, <2>3
<1>14. QED
  BY <1>8, <1>9, <1>10, <1>11, <1>12, <1>13 DEF DCtl, DStage

\* The end of a pre helper: at the end of a stage the index goes on.
LEMMA DPreFinish ==
    ASSUME TypeOK, DCtl, NEW o \in Ops, PreFinish(o), hasSchedule' = hasSchedule
    PROVE  DCtl' /\ (PatternInOrder /\ DStage => DStage')
<1> DEFINE r == o[1]
           i0 == curCommStageIdx_[r]
<1>0. /\ pc[Pre(o)] = "finish" /\ pc' = [pc EXCEPT ![Pre(o)] = "done"]
      /\ curCommStageIdx_' = [curCommStageIdx_ EXCEPT ![r] = i0 + (IF o \in change THEN 1 ELSE 0)]
      /\ UNCHANGED <<gaveUp, req, change, ran>>
  BY DEF PreFinish
<1>1. Managed(o) /\ ~hasSchedule
  BY <1>0 DEF DCtl, DLabels
<1>2. \A p \in Ops : /\ pc'[Pre(p)] = IF p = o THEN "done" ELSE pc[Pre(p)]
                     /\ pc'[Post(p)] = pc[Post(p)]
  BY <1>0, GFacts DEF TypeOK
<1>3. \A p \in Ops : \A q \in Earlier[p] : q \in Ops
  BY GFacts
<1>4. \A p \in Ops : /\ Over(p) => Over(p)'
                     /\ Decided(p)' <=> Decided(p)
                     /\ Sent(p)' <=> Sent(p)
  BY <1>0, <1>2 DEF Over, Decided, Sent
<1>5. /\ r \in Ranks /\ i0 \in Nat /\ curCommStageIdx_ \in [Ranks -> Nat]
      /\ curCommStageIdx_'[r] = i0 + (IF o \in change THEN 1 ELSE 0)
      /\ \A s \in Ranks : s # r => curCommStageIdx_'[s] = curCommStageIdx_[s]
  <2>1. r \in Ranks /\ curCommStageIdx_ \in [Ranks -> Nat]
    BY GFacts DEF TypeOK
  <2>2. QED
    BY <1>0, <2>1
<1>6. DStage => (o \in change <=> EndsAt(o, i0))
  BY <1>0, <1>1 DEF DStage, DChange
<1>7. DLabels'
  BY <1>0, <1>1, <1>2 DEF DCtl, DLabels
<1>8. DOrder'
  BY <1>0, <1>2, <1>3, <1>4 DEF DCtl, DOrder
<1>9. DSent'
  BY <1>0, <1>4 DEF DCtl, DSent
<1>10. DStage => DLast'
  BY <1>0, <1>4 DEF DStage, DLast, LastSent
<1>11. DStage => DChange'
  <2> SUFFICES ASSUME DStage, NEW p \in Ops, Managed(p)
               PROVE  /\ pc'[Pre(p)] \in {"new", "decide"} => p \notin change'
                      /\ pc'[Pre(p)] \in {"write", "finish"} =>
                            (p \in change' <=> EndsAt(p, curCommStageIdx_'[p[1]]))
    BY DEF DChange, EndsAt
  <2>1. CASE p = o
    BY <1>2, <2>1
  <2>2. CASE p # o /\ p[1] # r
    <3>1. pc'[Pre(p)] = pc[Pre(p)] /\ curCommStageIdx_'[p[1]] = curCommStageIdx_[p[1]]
      BY <1>2, <1>5, <2>2, GFacts
    <3>2. QED
      BY <1>0, <3>1 DEF DStage, DChange
  <2>3. CASE p # o /\ p[1] = r
    <3>1. pc'[Pre(p)] = pc[Pre(p)] /\ o[2] \in Nat /\ p[2] \in Nat /\ o[2] # p[2]
      BY <1>2, <2>3, GFacts
    <3>2. ASSUME pc[Pre(p)] \in {"write", "finish"} PROVE FALSE
      <4>1. CASE o[2] < p[2]
        <5>1. o \in Earlier[p]
          BY <2>3, <4>1 DEF Earlier
        <5>2. QED
          BY <1>0, <1>1, <3>2, <5>1 DEF DCtl, DOrder, Over
      <4>2. CASE p[2] < o[2]
        <5>1. p \in Earlier[o]
          BY <2>3, <4>2 DEF Earlier
        <5>2. QED
          BY <1>0, <1>1, <3>2, <5>1 DEF DCtl, DOrder, Over
      <4>3. QED
        BY <3>1, <4>1, <4>2
    <3>3. QED
      BY <1>0, <3>1, <3>2 DEF DStage, DChange
  <2>4. QED
    BY <2>1, <2>2, <2>3
<1>12. PatternInOrder /\ DStage => DIndex'
  <2> SUFFICES ASSUME PatternInOrder, DStage PROVE DIndex'
    OBVIOUS
  <2>1. ASSUME NEW s \in Ranks, NEW j \in Nat, j < curCommStageIdx_'[s]
        PROVE  \E p \in Ops : p[1] = s /\ EndsAt(p, j) /\ pc'[Pre(p)] = "done"
    <3>1. CASE j < curCommStageIdx_[s]
      <4>1. PICK p \in Ops : p[1] = s /\ EndsAt(p, j) /\ pc[Pre(p)] = "done"
        BY <3>1 DEF DStage, DIndex
      <4>2. QED
        BY <1>2, <4>1
    <3>2. CASE ~(j < curCommStageIdx_[s])
      <4>1. s = r /\ o \in change /\ j = i0
        BY <1>5, <2>1, <3>2
      <4>2. QED
        BY <1>2, <1>6, <4>1
    <3>3. QED
      BY <3>1, <3>2
  <2>2. ASSUME NEW p \in Ops, NEW j \in StagesOf(p), EndsAt(p, j), pc'[Pre(p)] = "done"
        PROVE  j < curCommStageIdx_'[p[1]]
    <3>0. curCommStageIdx_[p[1]] \in Nat /\ curCommStageIdx_[p[1]] <= curCommStageIdx_'[p[1]]
          /\ j \in Int /\ p[1] \in Ranks
      <4>1. p[1] \in Ranks /\ j \in Int
        BY GFacts
      <4>2. QED
        BY <1>5, <4>1
    <3>1. CASE p # o
      <4>1. j < curCommStageIdx_[p[1]]
        BY <1>2, <2>2, <3>1 DEF DStage, DIndex
      <4>2. curCommStageIdx_'[p[1]] \in Nat
        BY <1>5, <3>0
      <4>3. QED
        BY <3>0, <4>1, <4>2
    <3>2. CASE p = o /\ j = i0
      BY <1>5, <1>6, <2>2, <3>2
    <3>3. CASE p = o /\ j < i0
      BY <1>5, <3>0, <3>3
    <3>4. ASSUME p = o, i0 < j PROVE FALSE
      <4>1. i0 \in StagesOf(o)
        BY <1>5, <2>2, <3>4 DEF StagesOf
      <4>2. PICK b \in Ops : b[1] = o[1] /\ EndsAt(b, i0)
        BY <2>2, <3>4, <4>1 DEF PatternInOrder
      <4>3. b[2] < o[2]
        BY <2>2, <3>4, <4>1, <4>2 DEF PatternInOrder, StagesOf
      <4>4. b \in Earlier[o] /\ Managed(b)
        BY <4>2, <4>3 DEF Earlier, EndsAt
      <4>5. pc[Pre(b)] = "done" /\ i0 \in StagesOf(b)
        BY <1>0, <1>1, <4>1, <4>2, <4>4 DEF DCtl, DOrder, Over, StagesOf
      <4>6. i0 < i0
        BY <4>2, <4>5 DEF DStage, DIndex
      <4>7. QED
        BY <1>5, <4>6
    <3>5. QED
      BY <1>5, <3>0, <3>1, <3>2, <3>3, <3>4
  <2>3. QED
    BY <2>1, <2>2 DEF DIndex, EndsAt
<1>13. QED
  BY <1>7, <1>8, <1>9, <1>10, <1>11, <1>12 DEF DCtl, DStage

\* In this mode a step is one of these, and a request is sent by PreDecide only.
LEMMA DStep ==
    ASSUME OnDemand, Serialised, TypeInv, DCtl, [Next]_vars
    PROVE  DCtl' /\ (StageAtSwitch /\ PatternInOrder /\ DStage => DStage')
<1> DEFINE Kept == DCtl' /\ (StageAtSwitch /\ PatternInOrder /\ DStage => DStage')
<1>0. TypeOK /\ ~hasSchedule /\ PreOnStream /\ PostOnStream /\ Mode = 0 /\ MayTimeout = {}
  BY DEF TypeInv, OnDemand, DCtl, DLabels, PreOnStream, PostOnStream
<1>1. ASSUME NEW r \in Ranks, Issue(r), hasSchedule' = hasSchedule PROVE Kept
  <2>1. UNCHANGED <<hasSchedule, gaveUp, req, change, curCommStageIdx_, ran, pc>>
    BY <1>1 DEF Issue, procVars
  <2>2. QED
    BY <1>0, <2>1, DQuiet DEF DCtl, DLabels
<1>2. CASE UNCHANGED vars
  <2>1. UNCHANGED <<hasSchedule, gaveUp, req, change, curCommStageIdx_, ran, pc>>
    BY <1>2 DEF vars, procVars
  <2>2. QED
    BY <1>0, <2>1, DQuiet DEF DCtl, DLabels
<1>3. ASSUME NEW q \in busy, Tends(q) \/ Grant(q) PROVE Kept
  <2>1. UNCHANGED <<hasSchedule, gaveUp, req, change, curCommStageIdx_, ran, pc>>
    BY <1>3, ControllerKeeps
  <2>2. QED
    BY <1>0, <2>1, DQuiet DEF DCtl, DLabels
<1>4. ASSUME NEW o \in Ops, OfOp(o), hasSchedule' = hasSchedule PROVE Kept
  <2>1. CASE Run(o)
    <3>1. UNCHANGED <<hasSchedule, gaveUp, req, change, curCommStageIdx_, pc>> /\ ran \subseteq ran'
      BY <1>4, <2>1 DEF Run, procVars
    <3>2. QED
      BY <1>0, <3>1, DQuiet DEF DCtl, DLabels
  <2>2. CASE PreGate(o)
    <3>1. /\ UNCHANGED <<hasSchedule, gaveUp, req, change, curCommStageIdx_, ran>>
          /\ pc' = [pc EXCEPT ![Pre(o)] = "decide"] /\ pc[Pre(o)] = "new" /\ Reached(o)
      BY <1>0, <1>4, <2>2 DEF PreGate, procVars, PreRuns
    <3>2. Managed(o)
      BY <3>1 DEF DCtl, DLabels
    <3>3. \A p \in Earlier[o] : Managed(p) => Over(p)
      BY <1>0, <3>1, <3>2 DEF Reached, Serialised, StreamDone, Over
    <3>4. QED
      BY <1>0, <3>1, <3>2, <3>3, DAdvance
  <2>3. CASE PreDecide(o)
    BY <1>0, <1>4, <2>3, DPreDecide
  <2>4. CASE PreFinish(o)
    BY <1>0, <1>4, <2>4, DPreFinish
  <2>5. CASE PostChange(o) \/ PostNoChange(o)
    <3>1. /\ UNCHANGED <<hasSchedule, gaveUp, req, change, curCommStageIdx_, ran>>
          /\ pc[Post(o)] = "new"
          /\ \E x \in {"signal", "done"} : pc' = [pc EXCEPT ![Post(o)] = x]
      BY <1>0, <1>4, <2>5 DEF PostChange, PostNoChange, procVars
    <3>2. PICK x \in {"signal", "done"} : pc' = [pc EXCEPT ![Post(o)] = x]
      BY <3>1
    <3>3. \A p \in Ops : /\ pc'[Pre(p)] = pc[Pre(p)]
                         /\ pc'[Post(p)] = IF p = o THEN x ELSE pc[Post(p)]
      BY <1>0, <3>2, GFacts DEF TypeOK
    <3>4. QED
      BY <1>0, <3>1, <3>3, DQuiet DEF DCtl, DLabels
  <2>6. ~Defer(o) /\ ~SendScheduled(o)
    BY <1>0 DEF Defer, SendScheduled
  <2>7. QED
    BY <1>4, <2>1, <2>2, <2>3, <2>4, <2>5, <2>6 DEF OfOp
<1>5. ASSUME NEW h \in Helpers, OfHelper(h), hasSchedule' = hasSchedule PROVE Kept
  <2>0. h[2] \in Ops /\ (h = Pre(h[2]) \/ h = Post(h[2]))
    BY HelperFacts
  <2>1. CASE Signal(h)
    <3>1. /\ UNCHANGED <<hasSchedule, gaveUp, req, change, curCommStageIdx_, ran>>
          /\ pc[h] = "signal" /\ pc' = [pc EXCEPT ![h] = "done"]
      BY <1>5, <2>1 DEF Signal
    <3>2. h = Post(h[2])
      BY <2>0, <3>1 DEF DCtl, DLabels
    <3>3. \A p \in Ops : /\ pc'[Pre(p)] = pc[Pre(p)]
                         /\ pc'[Post(p)] = IF p = h[2] THEN "done" ELSE pc[Post(p)]
      BY <1>0, <2>0, <3>1, <3>2, GFacts DEF TypeOK
    <3>4. QED
      BY <1>0, <3>1, <3>3, DQuiet DEF DCtl, DLabels
  <2>2. CASE Receive(h)
    <3>1. /\ UNCHANGED <<hasSchedule, gaveUp, req, change, curCommStageIdx_, ran>>
          /\ Asking(h)
          /\ pc' = [pc EXCEPT ![h] = Resume(h)] \/ pc' = [pc EXCEPT ![h] = pc[h]]
      BY <1>5, <2>2 DEF Receive, procVars
    <3>2. h = Pre(h[2]) /\ pc[h] = "write"
      BY <2>0, <3>1 DEF DCtl, DLabels, Asking
    <3>3. Managed(h[2])
      BY <2>0, <3>2 DEF DCtl, DLabels
    <3>4. Resume(h) = "finish"
      BY <2>0, <3>2, OpFacts DEF Resume
    <3>5. CASE pc' = [pc EXCEPT ![h] = Resume(h)]
      BY <1>0, <2>0, <3>1, <3>2, <3>3, <3>4, <3>5, DAdvance
    <3>6. CASE pc' = [pc EXCEPT ![h] = pc[h]]
      <4>1. \A p \in Ops : pc'[Pre(p)] = pc[Pre(p)] /\ pc'[Post(p)] = pc[Post(p)]
        BY <1>0, <2>0, <3>6, GFacts DEF TypeOK
      <4>2. QED
        BY <1>0, <3>1, <4>1, DQuiet DEF DCtl, DLabels
    <3>7. QED
      BY <3>1, <3>5, <3>6
  <2>3. ~Timeout(h) /\ ~ScheduledTimeout(h)
    BY <1>0 DEF Timeout, ScheduledTimeout
  <2>4. QED
    BY <1>5, <2>1, <2>2, <2>3 DEF OfHelper
<1>6. QED
  BY <1>1, <1>2, <1>3, <1>4, <1>5, StepCases

\* One operation at a time means one request at a time.
LEMMA DOne == ASSUME TypeOK, DCtl PROVE OneTransaction
<1> SUFFICES ASSUME NEW g \in DOMAIN req, NEW h \in DOMAIN req, g[2][1] = h[2][1], Asking(g), Asking(h)
             PROVE  g = h
  BY DEF OneTransaction
<1>1. \A u \in DOMAIN req : u[2] \in Ops /\ u = Pre(u[2]) /\ Managed(u[2])
  BY HelperFacts DEF TypeOK, DCtl, DSent, Sent
<1>2. pc[g] = "write" /\ pc[h] = "write"
  BY <1>1 DEF DCtl, DLabels, Asking
<1>3. ASSUME NEW a \in DOMAIN req, NEW b \in DOMAIN req, a[2][1] = b[2][1], pc[a] = "write",
             pc[b] = "write", a[2][2] < b[2][2]
      PROVE  FALSE
  <2>1. a[2] \in Earlier[b[2]]
    BY <1>1, <1>3 DEF Earlier
  <2>2. QED
    BY <1>1, <1>3, <2>1 DEF DCtl, DOrder, Over
<1>4. ~(g[2][2] < h[2][2]) /\ ~(h[2][2] < g[2][2])
  BY <1>2, <1>3
<1>5. g[2] \in Ops /\ h[2] \in Ops /\ g = Pre(g[2]) /\ h = Pre(h[2])
  BY <1>1
<1>6. g[2][2] \in Nat /\ h[2][2] \in Nat /\ g[2] = <<g[2][1], g[2][2]>> /\ h[2] = <<h[2][1], h[2][2]>>
  BY <1>5, OpFacts
<1>7. g[2][2] = h[2][2]
  BY <1>4, <1>6
<1>8. QED
  BY <1>5, <1>6, <1>7

-----------------------------------------------------------------------------
(* The rail follows the last requests *)

LEMMA TopoInit == ASSUME TwoStages, Init PROVE TopoInv
<1>1. DOMAIN req = {} /\ busy = {} /\ granted = {} /\ DOMAIN thread = {} /\ topoIds = topo
  BY DEF Init
<1>2. TAsked /\ \A q \in Ops : ~Held(q)
  BY <1>1 DEF TAsked, Held, Sent, Installed
<1>3. TRing
  BY <1>2 DEF TRing, RingAsked
<1>4. TPair
  BY <1>2, PairMembers DEF TPair, PairAsked
<1>5. TLocal
  BY <1>1 DEF TLocal
<1>6. QED
  BY <1>2, <1>3, <1>4, <1>5 DEF TopoInv

\* A new request is not installed yet: its process holds nothing now.
LEMMA TopoSend ==
    ASSUME TypeOK, DCtl, TopoInv, NEW o \in Ops, Managed(o), pc[Pre(o)] = "decide",
           SendReq(Pre(o), WriteReq(o, Counter[o]))
    PROVE  TopoInv'
<1> DEFINE q0 == WriteReq(o, Counter[o])
<1>0. /\ DOMAIN req' = DOMAIN req \cup {Pre(o)}
      /\ \A u \in DOMAIN req' : req'[u] = IF u = Pre(o) THEN q0 ELSE req[u]
      /\ busy' = busy \/ busy' = busy \cup {q0}
      /\ UNCHANGED <<thread, topoIds, topo, overlapped>> /\ Installed' = Installed
  BY DEF SendReq, Installed, Key
<1> HIDE DEF q0
<1>1. ~Sent(o)
  BY DEF DCtl, DSent, Decided
<1>2. \A p \in Ops : /\ Sent(p)' <=> (Sent(p) \/ p = o)
                     /\ Sent(p) => Pre(p) # Pre(o) /\ req'[Pre(p)] = req[Pre(p)]
  BY <1>0, <1>1, GFacts DEF Sent
<1>3. req'[Pre(o)] = q0
  BY <1>0
<1>4. TAsked'
  <2>1. ASSUME NEW p \in Ops, Managed(p), Key(WriteReq(p, Counter[p])) \in Installed' PROVE Sent(p)'
    BY <1>0, <1>2, <2>1 DEF TopoInv, TAsked
  <2>2. ASSUME NEW q \in busy' PROVE \E p \in Ops : Sent(p)' /\ q = req'[Pre(p)]
    <3>1. CASE q \in busy
      <4>1. PICK p \in Ops : Sent(p) /\ q = req[Pre(p)]
        BY <3>1 DEF TopoInv, TAsked
      <4>2. QED
        BY <1>2, <4>1
    <3>2. CASE q = q0
      BY <1>2, <1>3, <3>2
    <3>3. QED
      BY <1>0, <2>2, <3>1, <3>2
  <2>3. QED
    BY <2>1, <2>2 DEF TAsked, Key, WriteReq
<1>5. ASSUME NEW q \in Ops, Held(q)' PROVE Held(q)
  <2>1. q # o
    <3>1. Key(q0) \notin Installed
      BY <1>1 DEF TopoInv, TAsked, q0
    <3>2. QED
      BY <1>0, <1>3, <1>5, <3>1 DEF Held, Key
  <2>2. Sent(q) /\ Key(req[Pre(q)]) \in Installed
    BY <1>0, <1>2, <1>5, <2>1 DEF Held, Key
  <2>3. \A p \in Ops : (p[1] = q[1] /\ q[2] < p[2]) => ~Sent(p)
    BY <1>2, <1>5 DEF Held
  <2>4. QED
    BY <2>2, <2>3 DEF Held
<1>6. TRing => TRing'
  BY <1>0, <1>5 DEF TRing, RingAsked
<1>7. TPair => TPair'
  BY <1>0, <1>5 DEF TPair, PairAsked
<1>8. TLocal => TLocal'
  BY <1>0 DEF TLocal, RuntimeTopo, IsPP, PPGroup
<1>9. QED
  BY <1>0, <1>4, <1>6, <1>7, <1>8 DEF TopoInv

\* The rail is reconfigured: the last request of every rank of the communicator is the one
\* it is for.  A ring and a pair that share a rank are therefore never both asked for last.
LEMMA TopoDone ==
    ASSUME TwoStages, PairsAndRings, TypeOK, DCtl, AckInv, TAsked, NEW q \in busy,
           ReconfigDone(q)
    PROVE  /\ TAsked'
           /\ (topo' = RuntimeTopo(topo, q) /\ TRing /\ TPair) => TRing' /\ TPair'
<1>0. busy' = busy /\ req' = req /\ Installed' = Installed \cup {Key(q)}
  <2>1. /\ q \in DOMAIN thread /\ DOMAIN thread' = DOMAIN thread /\ granted' = granted
        /\ \A p \in DOMAIN thread : thread'[p].at = IF p = q THEN "ack" ELSE thread[p].at
    BY DEF ReconfigDone, At, TypeOK
  <2>2. {p \in DOMAIN thread' : thread'[p].at = "ack"}
          = {p \in DOMAIN thread : thread[p].at = "ack"} \cup {q}
    BY <2>1
  <2>3. Installed' = Installed \cup {Key(q)}
    BY <2>1, <2>2 DEF Installed, Key
  <2>4. QED
    BY <2>3, ControllerKeeps, TendsKeeps DEF Tends
<1>1. PICK a \in Ops : Sent(a) /\ q = req[Pre(a)]
  BY DEF TAsked
<1>2. Managed(a) /\ q = WriteReq(a, Counter[a])
  BY <1>1 DEF DCtl, DSent
<1>3. /\ q.hex = Grp(a) /\ Grp(a) \in Groups \ Unmanaged /\ a[1] \in Members[Grp(a)]
      /\ is_pp_backend_(Grp(a)) => IsPP(q) /\ PPGroup(q) = 1
      /\ ~is_pp_backend_(Grp(a)) => ~IsPP(q) /\ q.counter \div PP_INTERVAL = pp_stage_(a[1])
  BY <1>2, RequestIs, OpFacts DEF Managed
<1>4. \A p \in Ops : Sent(p)' <=> Sent(p)
  BY <1>0 DEF Sent
<1>5. ASSUME NEW r \in Members[Grp(a)]
      PROVE  \E w \in Ops : w[1] = r /\ Sent(w) /\ pc[Pre(w)] = "write" /\ Key(req[Pre(w)]) = Key(q)
  <2>1. PICK h \in DOMAIN req : Rank(h) = r /\ Asking(h) /\ Key(req[h]) = Key(q)
    BY <1>3, <1>5 DEF AckInv, BusyAsked
  <2>2. h[2] \in Ops /\ h = Pre(h[2])
    BY HelperFacts DEF TypeOK, DCtl, DSent
  <2>3. pc[h] = "write"
    BY <2>1, <2>2 DEF DCtl, DLabels, Asking
  <2>4. QED
    BY <2>1, <2>2, <2>3 DEF Sent, Rank
<1>6. ASSUME NEW x \in Ops, x[1] \in Members[Grp(a)], Held(x)' PROVE Grp(x) = Grp(a)
  <2>1. PICK w \in Ops : w[1] = x[1] /\ Sent(w) /\ pc[Pre(w)] = "write" /\ Key(req[Pre(w)]) = Key(q)
    BY <1>5, <1>6
  <2>2. Managed(w) /\ req[Pre(w)] = WriteReq(w, Counter[w])
    BY <2>1 DEF DCtl, DSent
  <2>3. Grp(w) = Grp(a)
    BY <1>2, <2>1, <2>2 DEF Key, WriteReq
  <2>4. ~(x[2] < w[2])
    BY <1>4, <1>6, <2>1 DEF Held
  <2>5. ASSUME w[2] < x[2] PROVE FALSE
    <3>1. Sent(x) /\ w \in Earlier[x]
      BY <1>4, <1>6, <2>1, <2>5 DEF Held, Earlier
    <3>2. Managed(x) /\ pc[Pre(x)] # "new"
      BY <3>1 DEF DCtl, DSent, Decided
    <3>3. QED
      BY <2>1, <2>2, <3>1, <3>2 DEF DCtl, DOrder, Over
  <2>6. w = x
    BY <2>1, <2>4, <2>5, OpFacts
  <2>7. QED
    BY <2>3, <2>6
<1>7. TAsked'
  <2>1. ASSUME NEW p \in Ops, Managed(p), Key(WriteReq(p, Counter[p])) \in Installed' PROVE Sent(p)'
    <3>1. CASE Key(WriteReq(p, Counter[p])) \in Installed
      BY <1>4, <2>1, <3>1 DEF TAsked
    <3>2. CASE Key(WriteReq(p, Counter[p])) = Key(q)
      <4>1. Grp(p) = Grp(a)
        BY <1>2, <3>2 DEF Key, WriteReq
      <4>2. p[1] \in Members[Grp(a)]
        BY <4>1, OpFacts
      <4>3. PICK w \in Ops : w[1] = p[1] /\ Sent(w) /\ Key(req[Pre(w)]) = Key(q)
        BY <1>5, <4>2
      <4>4. Managed(w) /\ req[Pre(w)] = WriteReq(w, Counter[w])
        BY <4>3 DEF DCtl, DSent
      <4>5. w = p
        BY <2>1, <3>2, <4>3, <4>4, KeysDiffer
      <4>6. QED
        BY <1>4, <4>3, <4>5
    <3>3. QED
      BY <1>0, <2>1, <3>1, <3>2
  <2>2. ASSUME NEW b \in busy' PROVE \E p \in Ops : Sent(p)' /\ b = req'[Pre(p)]
    BY <1>0, <1>4, <2>2 DEF TAsked
  <2>3. QED
    BY <2>1, <2>2 DEF TAsked, Key, WriteReq
<1> DEFINE Follows == topo' = RuntimeTopo(topo, q)
<1> SUFFICES ASSUME Follows, TRing, TPair PROVE TRing' /\ TPair'
  BY <1>7
<1>8. CASE is_pp_backend_(Grp(a))
  <2>1. topo' = topo \cup {0, 1}
    BY <1>3, <1>8 DEF RuntimeTopo
  <2>2. TPair'
    BY <2>1 DEF TPair
  <2>3. TRing'
    <3> SUFFICES ASSUME NEW g \in Groups \ Unmanaged, ~is_pp_backend_(g), RingAsked(g)',
                        NEW r \in Members[g], pp_stage_(r) \in topo'
                 PROVE  FALSE
      BY DEF TRing
    <3>1. pp_stage_(r) \in {0, 1}
      BY StageBit
    <3>2. PICK u \in Members[Grp(a)] : pp_stage_(u) = pp_stage_(r)
      BY <1>3, <1>8, <3>1, PairStages
    <3>3. u \in Ranks
      BY <1>3, ShapeAssumption
    <3>4. u \in Members[g]
      BY <3>2, <3>3 DEF TwoStages
    <3>5. PICK x \in Ops : x[1] = u /\ Held(x)' /\ ~is_pp_backend_(Grp(x))
      BY <3>4 DEF RingAsked
    <3>6. QED
      BY <1>6, <1>8, <3>2, <3>5
  <2>4. QED
    BY <2>2, <2>3
<1>9. CASE ~is_pp_backend_(Grp(a))
  <2>1. topo' = topo \ {pp_stage_(a[1])}
    BY <1>3, <1>9 DEF RuntimeTopo
  <2>2. \A r \in Ranks : r \in Members[Grp(a)] <=> pp_stage_(r) = pp_stage_(a[1])
    BY <1>3, <1>9 DEF TwoStages
  <2>3. TRing'
    <3> SUFFICES ASSUME NEW g \in Groups \ Unmanaged, ~is_pp_backend_(g), RingAsked(g)',
                        NEW r \in Members[g], pp_stage_(r) # pp_stage_(a[1])
                 PROVE  pp_stage_(r) \notin topo
      BY <2>1 DEF TRing
    <3>1. ASSUME NEW u \in Members[g]
          PROVE  \E x \in Ops : x[1] = u /\ Held(x) /\ ~is_pp_backend_(Grp(x))
      <4>1. PICK x \in Ops : x[1] = u /\ Held(x)' /\ ~is_pp_backend_(Grp(x))
        BY <3>1 DEF RingAsked
      <4>2. pp_stage_(u) = pp_stage_(r)
        BY <3>1 DEF TwoStages
      <4>3. Sent(x) /\ req[Pre(x)] = WriteReq(x, Counter[x])
        BY <1>4, <4>1 DEF Held, DCtl, DSent
      <4>4. Key(req[Pre(x)]) # Key(q)
        <5> SUFFICES ASSUME Key(req[Pre(x)]) = Key(q) PROVE FALSE
          OBVIOUS
        <5>1. Grp(x) = Grp(a)
          BY <1>2, <4>3 DEF Key, WriteReq
        <5>2. u \in Members[Grp(a)] /\ u \in Ranks
          BY <4>1, <5>1, OpFacts
        <5>3. QED
          BY <2>2, <4>2, <5>2
      <4>5. Key(req[Pre(x)]) \in Installed
        BY <1>0, <4>1, <4>4 DEF Held, Key
      <4>6. \A p \in Ops : (p[1] = x[1] /\ x[2] < p[2]) => ~Sent(p)
        BY <1>4, <4>1 DEF Held
      <4>7. Held(x)
        BY <4>3, <4>5, <4>6 DEF Held
      <4>8. QED
        BY <4>1, <4>7
    <3>2. RingAsked(g)
      BY <3>1 DEF RingAsked
    <3>3. QED
      BY <3>2 DEF TRing
  <2>4. TPair'
    <3> SUFFICES ASSUME NEW g \in Groups \ Unmanaged, is_pp_backend_(g), PairAsked(g)' PROVE FALSE
      BY DEF TPair
    <3>1. PICK u \in Members[g] : pp_stage_(u) = pp_stage_(a[1])
      BY StageBit, PairStages
    <3>2. u \in Ranks
      BY ShapeAssumption
    <3>3. u \in Members[Grp(a)]
      BY <2>2, <3>1, <3>2
    <3>4. PICK x \in Ops : x[1] = u /\ Held(x)' /\ Grp(x) = g
      BY <3>1 DEF PairAsked
    <3>5. QED
      BY <1>6, <1>9, <3>3, <3>4
  <2>5. QED
    BY <2>3, <2>4
<1>10. QED
  BY <1>8, <1>9

\* A step that changes neither the rail nor what is installed.
LEMMA TopoQuiet ==
    ASSUME TopoInv, UNCHANGED <<req, topo>>, busy' \subseteq busy, Installed' = Installed,
           ~overlapped' => ~overlapped /\ (TLocal => TLocal')
    PROVE  TopoInv'
<1>1. \A p \in Ops : (Sent(p)' <=> Sent(p)) /\ (Held(p)' <=> Held(p))
  BY DEF Sent, Held, Key
<1>2. TAsked'
  BY <1>1 DEF TopoInv, TAsked, Key, WriteReq
<1>3. (TRing => TRing') /\ (TPair => TPair')
  BY <1>1 DEF TRing, TPair, RingAsked, PairAsked
<1>4. QED
  BY <1>2, <1>3 DEF TopoInv

\* Steps outside of the controller's threads.
LEMMA TopoSame ==
    ASSUME TopoInv, UNCHANGED <<req, ctlVars>>
    PROVE  TopoInv'
<1>1. UNCHANGED <<busy, thread, topoIds, topo, overlapped, granted>>
  BY DEF ctlVars
<1>2. Installed' = Installed
  BY <1>1 DEF Installed, Key
<1>3. TLocal => TLocal'
  BY <1>1 DEF TLocal, RuntimeTopo, IsPP, PPGroup
<1>4. QED
  BY <1>1, <1>2, <1>3, TopoQuiet

\* The controller's threads: as long as no update begins within another one, each takes the
\* topology id and the rail one request further.
LEMMA TopoServe ==
    ASSUME TwoStages, PairsAndRings, TypeOK, DCtl, AckInv, TopoInv, NEW q \in busy, Serve(q)
    PROVE  TopoInv'
<1> USE DEF At
<1>0. /\ DOMAIN thread \subseteq busy /\ overlapped \in BOOLEAN
      /\ \A p \in DOMAIN thread :
            thread[p] \in [at : {"write", "connect", "await", "ack"}, topo : SUBSET Nat]
  BY DEF TypeOK
<1>r. \A p : RuntimeTopo(topo, p)' = RuntimeTopo(topo', p)
  BY DEF RuntimeTopo, IsPP, PPGroup
<1>k. \A p : Key(p)' = Key(p)
  BY DEF Key
<1>1. CASE ReadTopo(q)
  <2>1. /\ req' = req /\ topo' = topo /\ topoIds' = topoIds /\ busy' = busy /\ granted' = granted
        /\ DOMAIN thread' = DOMAIN thread \cup {q} /\ q \notin DOMAIN thread
        /\ thread'[q] = [at |-> "write", topo |-> RuntimeTopo(topoIds, q)]
        /\ \A p \in DOMAIN thread : thread'[p] = thread[p]
        /\ ~overlapped' => ~overlapped /\ \A p \in DOMAIN thread : thread[p].at = "ack"
    BY <1>1, ControllerKeeps DEF Tends, ReadTopo
  <2>2. {p \in DOMAIN thread' : thread'[p].at = "ack"} = {p \in DOMAIN thread : thread[p].at = "ack"}
    BY <2>1
  <2>3. Installed' = Installed
    BY <1>k, <2>1, <2>2 DEF Installed
  <2>4. ASSUME ~overlapped', TLocal PROVE TLocal'
    <3>1. topoIds = topo /\ \A p \in DOMAIN thread : thread'[p].at = "ack"
      BY <2>1, <2>4 DEF TLocal
    <3>2. thread'[q].at = "write" /\ thread'[q].topo = RuntimeTopo(topo', q)
      BY <2>1, <3>1
    <3>3. QED
      BY <1>r, <2>1, <3>1, <3>2 DEF TLocal
  <2>5. QED
    BY <2>1, <2>3, <2>4, TopoQuiet
<1>2. CASE WriteTopo(q) \/ Reconfig(q)
  <2>1. /\ req' = req /\ topo' = topo /\ busy' = busy /\ granted' = granted
        /\ overlapped' = overlapped
        /\ DOMAIN thread' = DOMAIN thread /\ q \in DOMAIN thread
        /\ \A p \in DOMAIN thread : p # q => thread'[p] = thread[p]
        /\ \/ /\ thread[q].at = "write" /\ thread'[q].at = "connect" /\ topoIds' = thread[q].topo
           \/ /\ thread[q].at = "connect" /\ thread'[q].at = "await" /\ topoIds' = topoIds
              /\ thread'[q].topo = topoIds
    BY <1>0, <1>2, ControllerKeeps DEF Tends, WriteTopo, Reconfig
  <2>2. {p \in DOMAIN thread' : thread'[p].at = "ack"} = {p \in DOMAIN thread : thread[p].at = "ack"}
    BY <2>1
  <2>3. Installed' = Installed
    BY <1>k, <2>1, <2>2 DEF Installed
  <2>4. ASSUME TLocal PROVE TLocal'
    <3>1. \A p \in DOMAIN thread : p # q => thread'[p].at = "ack"
      BY <2>1, <2>4 DEF TLocal
    <3>2. /\ thread'[q].at = "connect" => topoIds' = RuntimeTopo(topo', q)
          /\ thread'[q].at = "await" => topoIds' = RuntimeTopo(topo', q) /\ thread'[q].topo = topoIds'
      BY <2>1, <2>4 DEF TLocal
    <3>3. QED
      BY <1>r, <2>1, <3>1, <3>2 DEF TLocal
  <2>5. QED
    BY <2>1, <2>3, <2>4, TopoQuiet
<1>3. CASE ReconfigDone(q)
  <2>1. /\ topo' = thread[q].topo /\ topoIds' = topoIds /\ overlapped' = overlapped
        /\ DOMAIN thread' = DOMAIN thread /\ q \in DOMAIN thread
        /\ thread[q].at = "await" /\ thread'[q].at = "ack"
        /\ \A p \in DOMAIN thread : p # q => thread'[p] = thread[p]
    BY <1>0, <1>3 DEF ReconfigDone
  <2>2. ASSUME TLocal PROVE TLocal' /\ topo' = RuntimeTopo(topo, q)
    <3>1. topo' = RuntimeTopo(topo, q) /\ topo' = topoIds'
      BY <2>1, <2>2 DEF TLocal
    <3>2. \A p \in DOMAIN thread' : thread'[p].at = "ack"
      BY <2>1, <2>2 DEF TLocal
    <3>3. QED
      BY <3>1, <3>2 DEF TLocal
  <2>3. QED
    BY <1>3, <2>1, <2>2, TopoDone DEF TopoInv
<1>4. CASE Grant(q)
  <2>1. /\ req' = req /\ topo' = topo /\ topoIds' = topoIds /\ busy' \subseteq busy
        /\ granted' = granted \cup {Key(q)} /\ overlapped' = overlapped
        /\ DOMAIN thread' = DOMAIN thread \ {q} /\ q \in DOMAIN thread /\ thread[q].at = "ack"
        /\ \A p \in DOMAIN thread' : thread'[p] = thread[p]
    BY <1>4, ControllerKeeps DEF Grant
  <2>2. {p \in DOMAIN thread : thread[p].at = "ack"}
          = {p \in DOMAIN thread' : thread'[p].at = "ack"} \cup {q}
    BY <2>1
  <2>3. Installed' = Installed
    BY <1>k, <2>1, <2>2 DEF Installed
  <2>4. ASSUME TLocal PROVE TLocal'
    BY <1>r, <2>1, <2>4 DEF TLocal
  <2>5. QED
    BY <2>1, <2>3, <2>4, TopoQuiet
<1>5. QED
  BY <1>1, <1>2, <1>3, <1>4 DEF Serve

LEMMA TopoStep ==
    ASSUME OnDemand, TwoStages, PairsAndRings, TypeInv, DCtl, AckInv, TopoInv, [Next]_vars
    PROVE  TopoInv'
<1>0. TypeOK /\ ~hasSchedule /\ Mode = 0
  BY DEF TypeInv, OnDemand, DCtl, DLabels
<1>1. ASSUME NEW r \in Ranks, Issue(r) PROVE UNCHANGED <<req, ctlVars>>
  BY <1>1 DEF Issue
<1>2. CASE UNCHANGED vars
  <2>1. UNCHANGED <<req, ctlVars>>
    BY <1>2 DEF vars
  <2>2. QED
    BY <2>1, TopoSame
<1>3. ASSUME NEW h \in Helpers, OfHelper(h) PROVE UNCHANGED <<req, ctlVars>>
  BY <1>3 DEF OfHelper, Signal, Receive, Timeout, ScheduledTimeout
<1>4. ASSUME NEW o \in Ops, OfOp(o) PROVE TopoInv'
  <2>1. CASE PreDecide(o)
    <3>1. pc[Pre(o)] = "decide"
      BY <2>1 DEF PreDecide
    <3>2. Managed(o)
      BY <3>1 DEF DCtl, DLabels
    <3>3. SendReq(Pre(o), WriteReq(o, Counter[o])) \/ UNCHANGED <<req, ctlVars>>
      BY <2>1 DEF PreDecide
    <3>4. QED
      BY <1>0, <3>1, <3>2, <3>3, TopoSend, TopoSame
  <2>2. CASE ~PreDecide(o)
    <3>1. UNCHANGED <<req, ctlVars>>
      <4>1. ~Defer(o) /\ ~SendScheduled(o)
        BY <1>0 DEF Defer, SendScheduled
      <4>2. CASE Run(o) \/ PreGate(o) \/ PreFinish(o)
        BY <4>2 DEF Run, PreGate, PreFinish
      <4>3. CASE PostChange(o) \/ PostNoChange(o)
        BY <1>0, <4>3 DEF PostChange, PostNoChange
      <4>4. QED
        BY <1>4, <2>2, <4>1, <4>2, <4>3 DEF OfOp
    <3>2. QED
      BY <3>1, TopoSame
  <2>3. QED
    BY <2>1, <2>2
<1>5. ASSUME NEW q \in busy, Tends(q) \/ Grant(q) PROVE TopoInv'
  BY <1>0, <1>5, TopoServe DEF Serve, Tends
<1>6. QED
  BY <1>1, <1>2, <1>3, <1>4, <1>5, StepCases, TopoSame

\* Every process that runs its part of an operation holds the last topology it asked for,
\* and that was of the kind the operation needs.
LEMMA PartyHolds ==
    ASSUME OnDemand, TypeOK, DCtl, DStage, AckInv, NEW o \in Ops, Managed(o), OpReady(o)
    PROVE  \E q \in Ops : q[1] = o[1] /\ Held(q) /\ is_pp_backend_(Grp(q)) = is_pp_backend_(Grp(o))
<1>0. pc[Pre(o)] = "done" /\ o \notin ran /\ Decided(o)
  BY DEF OpReady, PreOnStream, OnDemand, DCtl, DLabels, Decided
<1>1. PICK q \in Ops : LastSent(q, o) /\ is_pp_backend_(Grp(q)) = is_pp_backend_(Grp(o))
  BY <1>0 DEF DStage, DLast
<1>2. q[1] = o[1] /\ q[2] <= o[2] /\ Sent(q) /\ Managed(q)
  BY <1>1 DEF LastSent, DCtl, DSent
<1>3. pc[Pre(q)] = "done"
  <2>1. CASE q[2] = o[2]
    BY <1>0, <1>2, <2>1, OpFacts
  <2>2. CASE q[2] < o[2]
    <3>1. q \in Earlier[o]
      BY <1>2, <2>2 DEF Earlier
    <3>2. QED
      BY <1>0, <1>2, <3>1 DEF DCtl, DOrder, Over
  <2>3. QED
    BY <1>2, <2>1, <2>2, OpFacts
<1>4. Key(req[Pre(q)]) \in granted
  <2>1. Pre(q) \in DOMAIN req /\ ~Asking(Pre(q)) /\ Pre(q) \notin gaveUp
    BY <1>2, <1>3 DEF Sent, Asking, DCtl, DLabels
  <2>2. QED
    BY <2>1 DEF AckInv, AckExact
<1>5. ASSUME NEW p \in Ops, p[1] = q[1], q[2] < p[2], Sent(p) PROVE FALSE
  <2>1. ~(p[2] <= o[2])
    BY <1>1, <1>2, <1>5 DEF LastSent
  <2>2. o[2] < p[2]
    BY <2>1, OpFacts
  <2>3. o \in Earlier[p]
    BY <1>2, <1>5, <2>2 DEF Earlier
  <2>4. Managed(p) /\ pc[Pre(p)] # "new"
    BY <1>5 DEF DCtl, DSent, Decided
  <2>5. QED
    BY <1>0, <2>3, <2>4 DEF DCtl, DOrder, Over
<1>6. Held(q)
  BY <1>2, <1>4, <1>5 DEF Held, Installed
<1>7. QED
  BY <1>1, <1>2, <1>6

LEMMA TopoRight ==
    ASSUME OnDemand, TwoStages, PairsAndRings, TypeOK, DCtl, DStage, AckInv, TopoInv
    PROVE  RightTopology
<1> SUFFICES ASSUME ~overlapped, NEW o \in Ops, Managed(o), Active(o) PROVE Provides(topo, o)
  BY DEF RightTopology
<1>0. Grp(o) \in Groups \ Unmanaged /\ o[1] \in Members[Grp(o)]
  BY OpFacts DEF Managed
<1>1. ASSUME NEW r \in Members[Grp(o)]
      PROVE  \E q \in Ops : q[1] = r /\ Held(q) /\ is_pp_backend_(Grp(q)) = is_pp_backend_(Grp(o))
  <2>1. PICK p \in Party[o] : p[1] = r
    BY <1>1 DEF PairsAndRings
  <2>2. p \in Ops /\ Grp(p) = Grp(o) /\ OpReady(p)
    BY <2>1 DEF Party, Matches, Active
  <2>3. Managed(p)
    BY <2>2 DEF Managed
  <2>4. QED
    BY <2>1, <2>2, <2>3, PartyHolds
<1>2. CASE is_pp_backend_(Grp(o))
  <2>1. ASSUME NEW r \in Members[Grp(o)] PROVE \E q \in Ops : q[1] = r /\ Held(q) /\ Grp(q) = Grp(o)
    <3>1. PICK q \in Ops : q[1] = r /\ Held(q) /\ is_pp_backend_(Grp(q))
      BY <1>1, <1>2, <2>1
    <3>2. Grp(q) \in Groups /\ r \in Members[Grp(q)]
      BY <3>1, OpFacts
    <3>3. Grp(q) = Grp(o)
      BY <1>0, <1>2, <2>1, <3>1, <3>2 DEF TwoStages
    <3>4. QED
      BY <3>1, <3>3
  <2>2. {0, 1} \subseteq topo
    BY <1>0, <1>2, <2>1 DEF TopoInv, TPair, PairAsked
  <2>3. get_pp_base(o) = 1
    BY <1>2, PairBase
  <2>4. QED
    BY <1>2, <2>2, <2>3 DEF Provides
<1>3. CASE ~is_pp_backend_(Grp(o))
  <2>1. RingAsked(Grp(o))
    BY <1>1, <1>3 DEF RingAsked
  <2>2. QED
    BY <1>0, <1>3, <2>1 DEF TopoInv, TRing, Provides
<1>4. QED
  BY <1>2, <1>3

-----------------------------------------------------------------------------
LEMMA OnDemandInvariant ==
    ASSUME StagesKnown, PipelinePairs, OnDemand, Serialised
    PROVE  Spec => [](TypeInv /\ DCtl /\ AckInv)
<1>1. \A h \in Helpers : ~Timeout(h)
  BY DEF Timeout, OnDemand
<1>2. Spec => []TypeInv
  BY TypeInvariant
<1>3. Init => DCtl /\ AckInv
  BY DInit, AckInit
<1>4. TypeInv /\ DCtl /\ [Next]_vars => DCtl'
  BY DStep
<1>5. TypeInv /\ DCtl => OneTransaction
  BY DOne DEF TypeInv
<1>6. TypeInv /\ TypeInv' /\ DCtl /\ AckInv /\ [Next]_vars => AckInv'
  <2> SUFFICES ASSUME TypeInv, TypeInv', DCtl, AckInv, [Next]_vars PROVE AckInv'
    OBVIOUS
  <2>1. DCtl'
    BY <1>4
  <2>2. OneTransaction /\ (TypeInv /\ DCtl => OneTransaction)'
    BY <1>5, PTL
  <2>3. OneTransaction'
    BY <2>1, <2>2
  <2>4. QED
    BY <1>1, <2>2, <2>3, AckStep
<1>7. QED
  BY <1>2, <1>3, <1>4, <1>6, PTL DEF Spec

\* On demand, a helper goes on only with the acknowledgement of its own request: operations
\* of the rails that do not overlap in a process make a request and its acknowledgement one
\* unit, for any number of stages and any pattern.
THEOREM OnDemandAcks ==
    ASSUME StagesKnown, PipelinePairs, OnDemand, Serialised
    PROVE  Spec => []AckIsForRequest
<1>1. AckInv => AckIsForRequest
  BY DEF AckInv, AckExact, AckIsForRequest, Lost
<1>2. QED
  BY <1>1, OnDemandInvariant, PTL

\* On demand, in a job of two pipeline stages whose operations on the rails do not overlap
\* within a process and whose patterns have a stage at every change from the pipeline to a
\* ring, an operation that runs in all its processes has the topology it needs, whatever
\* other ranks ask for in the meantime (pre_coll_callback_helper, topowrite and the
\* controller's runtime topology): until the controller begins to update its topology id
\* for one request within its update for another, from when on an update may be lost.
THEOREM OnDemandTopology ==
    ASSUME StagesKnown, PipelinePairs, OnDemand, Serialised, TwoStages, PairsAndRings,
           StageAtSwitch, PatternInOrder
    PROVE  Spec => []RightTopology
<1>1. Spec => [](TypeInv /\ DCtl /\ AckInv)
  BY OnDemandInvariant
<1>2. Init => DStage /\ TopoInv
  BY DInit, TopoInit
<1>3. TypeInv /\ DCtl /\ DStage /\ [Next]_vars => DStage'
  BY DStep
<1>4. TypeInv /\ DCtl /\ AckInv /\ TopoInv /\ [Next]_vars => TopoInv'
  BY TopoStep
<1>5. TypeInv /\ DCtl /\ DStage /\ AckInv /\ TopoInv => RightTopology
  BY TopoRight DEF TypeInv
<1>6. QED
  BY <1>1, <1>2, <1>3, <1>4, <1>5, PTL DEF Spec

-----------------------------------------------------------------------------
(* The shim asks and is told as CollectiveBarrier says *)

\* The request of topoprovision() for stage i of the pattern, as ProvisionReq.
PatternReq(o, i) ==
    LET next == Pattern[o[1]][i + 1] IN
    [hex |-> hexOf(o[1], next.sb),
     backend |-> next.sb,
     counter |-> next.sc + (IF is_pp_backend_(Grp(o)) THEN 0 ELSE pp_stage_(o[1]) * PP_INTERVAL)]

\* The requests that helper h sends in the course of the job, if it sends one; s: the
\* process replays a schedule.
MaySend(h, q, s) ==
    LET o == h[2] IN
    \/ h = Pre(o) /\ s /\ o[2] \in DOMAIN Schedule[o[1]] /\ q = Schedule[o[1]][o[2]]
    \/ h = Pre(o) /\ ~s /\ Mode = 0 /\ Managed(o) /\ q = WriteReq(o, Counter[o])
    \/ h = Post(o) /\ ~s /\ Mode = 1
       /\ \E i \in StagesOf(o) \ {0} : EndsAt(o, i - 1) /\ q = PatternReq(o, i)
    \/ h = Post(o) /\ Mode = 1 /\ Managed(o) /\ is_pp_backend_(Grp(o))
       /\ q = WriteReq(o, Counter[o] + 1)

\* No two helpers of a process ask for the same collective.
KeysApart ==
    \A s \in Replays : \A h, u \in Helpers : Rank(h) = Rank(u) =>
        \A p, q \in Requests :
            (MaySend(h, p, s) /\ MaySend(u, q, s) /\ Key(p) = Key(q)) => h = u

\* Where a helper has not sent its request yet.
Unsent == {"new", "decide", "queued"}

\* A helper sends once, and what the program, the pattern or the schedule says.
SentOnce ==
    /\ hasSchedule \in Replays
    /\ \A h \in Helpers : /\ ~Managed(h[2]) => pc[h] = "done"
                          /\ pc[h] = "decide" => ~hasSchedule
    /\ \A h \in DOMAIN req : pc[h] \notin Unsent /\ MaySend(h, req[h], hasSchedule)

AskedOnce ==
    \A h, u \in DOMAIN req : (Rank(h) = Rank(u) /\ Key(req[h]) = Key(req[u])) => h = u

Collectives == Groups \X Nat
Taking == [k \in Collectives |-> Members[k[1]]]
AskedBy == [r \in Ranks |-> {Key(req[h]) : h \in {u \in DOMAIN req : Rank(u) = r}}]
Told(r, k) == \E h \in DOMAIN req : Rank(h) = r /\ Key(req[h]) = k /\ ~Asking(h)
ToldOf == [r \in Ranks |-> [k \in Collectives |-> IF Told(r, k) THEN 1 ELSE 0]]

\* The shim's view of the controller: what its ranks have asked for, what was granted, and
\* which ranks have read the acknowledgement.
Promise == INSTANCE CollectiveBarrier WITH
    Parties <- Ranks, Rounds <- Collectives, Askers <- Taking, Listeners <- Taking,
    asked <- AskedBy, released <- granted, delivered <- ToldOf

LEMMA SentInit == ASSUME Init PROVE SentOnce
<1>1. ASSUME NEW h \in Helpers PROVE /\ ~Managed(h[2]) => pc[h] = "done"
                                     /\ pc[h] # "decide"
  BY <1>1 DEF Init, HasPre
<1>2. QED
  BY <1>1 DEF Init, SentOnce

\* One helper goes from place x to place y.
Goes(h, x, y) == pc[h] = x /\ pc' = [pc EXCEPT ![h] = y]

\* An operation's step moves a helper without a request, or the helper sends the request
\* that it may send, for the first time.
LEMMA OpSends ==
    ASSUME StagesKnown, TypeInv, SentOnce, NEW o \in Ops, OfOp(o)
    PROVE  \/ pc' = pc /\ req' = req
           \/ \E h \in Helpers : /\ req' = req /\ Goes(h, "new", "decide") /\ ~hasSchedule
           \/ \E h \in Helpers, x \in Labels \ {"done"}, y \in Labels :
                 /\ req' = req /\ Goes(h, x, y) /\ y \in {"queued", "finish", "signal", "done"}
                 /\ y = "queued" => x = "new"
           \/ \E h \in Helpers, x \in Unsent, y \in {"write", "provision", "sched"}, q \in Requests :
                 SendReq(h, q) /\ MaySend(h, q, hasSchedule) /\ Goes(h, x, y)
<1> USE DEF TypeInv, TypeOK, Unsent, Labels, Goes
<1>0. /\ Pre(o) \in Helpers /\ Post(o) \in Helpers /\ Pre(o)[2] = o /\ Post(o)[2] = o
      /\ (pc[Pre(o)] # "done" \/ pc[Post(o)] # "done" => Managed(o))
      /\ Counter[o] \in Nat
  BY OpFacts, CounterType DEF SentOnce
<1>1. CASE Run(o)
  BY <1>1 DEF Run
<1>2. CASE PreGate(o)
  BY <1>0, <1>2 DEF PreGate
<1>3. CASE PreFinish(o) \/ Defer(o)
  BY <1>0, <1>3 DEF PreFinish, Defer
<1>4. CASE PreDecide(o)
  <2>1. CASE /\ Mode = 0 /\ SendReq(Pre(o), WriteReq(o, Counter[o]))
             /\ pc' = [pc EXCEPT ![Pre(o)] = "write"]
    <3>1. ~hasSchedule /\ Managed(o) /\ pc[Pre(o)] = "decide"
      BY <1>0, <1>4 DEF PreDecide, SentOnce
    <3>2. MaySend(Pre(o), WriteReq(o, Counter[o]), hasSchedule)
      BY <1>0, <2>1, <3>1 DEF MaySend
    <3>3. WriteReq(o, Counter[o]) \in Requests
      BY <1>0, WriteReqOwn DEF Own
    <3>4. QED
      BY <1>0, <2>1, <3>1, <3>2, <3>3
  <2>2. CASE pc' = [pc EXCEPT ![Pre(o)] = "finish"] /\ UNCHANGED <<req, ctlVars>>
    BY <1>0, <1>4, <2>2 DEF PreDecide
  <2>3. QED
    BY <1>4, <2>1, <2>2 DEF PreDecide
<1>5. CASE PostChange(o)
  <2> DEFINE i == curCommStageIdx_post_[o[1]] + 1
  <2>0. i \in Nat /\ i > 0 /\ pc[Post(o)] = "new"
    BY <1>5, OpFacts DEF PostChange
  <2>1. CASE /\ Mode = 1 /\ i < Len(Stages(o[1])) /\ SendReq(Post(o), ProvisionReq(o, i))
             /\ pc' = [pc EXCEPT ![Post(o)] = "provision"]
    <3>1. ~hasSchedule /\ Stages(o[1]) = Pattern[o[1]]
      BY <2>0, <2>1 DEF Stages
    <3>2. i - 1 + 1 = i /\ i - 1 \in Nat /\ Len(Pattern[o[1]]) \in Nat
      BY <2>0, OpFacts, ProgramAssumption
    <3>3. i \in StagesOf(o) \ {0} /\ i - 1 < Len(Pattern[o[1]])
      BY <2>0, <2>1, <3>1, <3>2 DEF StagesOf
    <3>4. is_comm_change_after(o, i - 1)
      BY <1>5 DEF PostChange
    <3>5. EndsAt(o, i - 1)
      BY <1>0, <2>0, <3>1, <3>2, <3>3, <3>4 DEF EndsAt, is_comm_change_after, Stage
    <3>6. ProvisionReq(o, i) = PatternReq(o, i)
      BY <3>1 DEF ProvisionReq, PatternReq, Stage
    <3> HIDE DEF i
    <3>7. MaySend(Post(o), ProvisionReq(o, i), hasSchedule)
      BY <1>0, <2>1, <3>1, <3>3, <3>5, <3>6 DEF MaySend
    <3>8. ProvisionReq(o, i) \in Requests
      BY <2>0, <2>1, ProvisionReqOwn DEF Own
    <3>9. QED
      BY <1>0, <2>0, <2>1, <3>7, <3>8
  <2>2. CASE pc' = [pc EXCEPT ![Post(o)] = "signal"] /\ UNCHANGED <<req, ctlVars>>
    BY <1>0, <2>0, <2>2
  <2>3. QED
    BY <1>5, <2>1, <2>2 DEF PostChange
<1>6. CASE PostNoChange(o)
  <2>1. CASE /\ Mode = 1 /\ is_pp_backend_(Grp(o)) /\ SendReq(Post(o), WriteReq(o, Counter[o] + 1))
             /\ pc' = [pc EXCEPT ![Post(o)] = "write"]
    <3>1. Managed(o) /\ pc[Post(o)] = "new" /\ Counter[o] + 1 \in Nat
      BY <1>0, <1>6 DEF PostNoChange
    <3>2. MaySend(Post(o), WriteReq(o, Counter[o] + 1), hasSchedule)
      BY <1>0, <2>1, <3>1 DEF MaySend
    <3>3. WriteReq(o, Counter[o] + 1) \in Requests
      BY <3>1, WriteReqOwn DEF Own
    <3>4. QED
      BY <1>0, <2>1, <3>1, <3>2, <3>3
  <2>2. CASE pc' = [pc EXCEPT ![Post(o)] = "done"] /\ UNCHANGED <<req, ctlVars>>
    BY <1>0, <1>6, <2>2 DEF PostNoChange
  <2>3. QED
    BY <1>6, <2>1, <2>2 DEF PostNoChange
<1>7. CASE SendScheduled(o)
  <2>1. /\ hasSchedule /\ o[2] \in DOMAIN Schedule[o[1]] /\ pc[Pre(o)] \in Unsent
        /\ SendReq(Pre(o), Schedule[o[1]][o[2]]) /\ pc' = [pc EXCEPT ![Pre(o)] = "sched"]
    BY <1>7 DEF SendScheduled, PreScheduled
  <2>2. MaySend(Pre(o), Schedule[o[1]][o[2]], hasSchedule) /\ Schedule[o[1]][o[2]] \in Requests
    BY <1>0, <2>1, ScheduleOwn DEF MaySend, Own
  <2>3. QED
    BY <1>0, <2>1, <2>2
<1>8. QED
  BY <1>1, <1>2, <1>3, <1>4, <1>5, <1>6, <1>7 DEF OfOp

\* The steps of an operation keep the account of the requests, and who starts to wait has
\* sent nothing before.
LEMMA SentOfOp ==
    ASSUME StagesKnown, TypeInv, SentOnce, NEW o \in Ops, OfOp(o), hasSchedule' = hasSchedule
    PROVE  /\ SentOnce'
           /\ \A h \in Helpers : (~Asking(h) /\ Asking(h)') => h \notin DOMAIN req
<1>0. pc \in [Helpers -> Labels] /\ DOMAIN req \subseteq Helpers
  BY DEF TypeInv, TypeOK
<1>m. \A h, q : MaySend(h, q, hasSchedule)' <=> MaySend(h, q, hasSchedule)
  BY DEF MaySend, PatternReq, WriteReq, EndsAt, StagesOf, Pre, Post
<1>1. CASE pc' = pc /\ req' = req
  BY <1>1, <1>m DEF SentOnce, Asking, Managed, Grp, Op
<1>2. ASSUME NEW h \in Helpers, req' = req, Goes(h, "new", "decide"), ~hasSchedule
      PROVE  /\ SentOnce'
             /\ \A u \in Helpers : (~Asking(u) /\ Asking(u)') => u \notin DOMAIN req
  <2>1. h \notin DOMAIN req /\ \A u \in Helpers : pc'[u] = IF u = h THEN "decide" ELSE pc[u]
    BY <1>0, <1>2 DEF SentOnce, Unsent, Goes
  <2>2. Managed(h[2])
    BY <1>2 DEF SentOnce, Goes
  <2>3. QED
    BY <1>0, <1>2, <1>m, <2>1, <2>2 DEF SentOnce, Asking, Managed, Grp, Op, Unsent
<1>3. ASSUME NEW h \in Helpers, NEW x \in Labels \ {"done"}, NEW y \in Labels, req' = req,
             Goes(h, x, y), y \in {"queued", "finish", "signal", "done"}, y = "queued" => x = "new"
      PROVE  /\ SentOnce'
             /\ \A u \in Helpers : (~Asking(u) /\ Asking(u)') => u \notin DOMAIN req
  <2>1. \A u \in Helpers : pc'[u] = IF u = h THEN y ELSE pc[u]
    BY <1>0, <1>3 DEF Goes
  <2>2. Managed(h[2]) /\ (y = "queued" => h \notin DOMAIN req)
    BY <1>3 DEF SentOnce, Goes, Unsent
  <2>3. QED
    BY <1>0, <1>3, <1>m, <2>1, <2>2 DEF SentOnce, Asking, Managed, Grp, Op, Unsent
<1>4. ASSUME NEW h \in Helpers, NEW x \in Unsent, NEW y \in {"write", "provision", "sched"},
             NEW q \in Requests, SendReq(h, q), MaySend(h, q, hasSchedule), Goes(h, x, y)
      PROVE  /\ SentOnce'
             /\ \A u \in Helpers : (~Asking(u) /\ Asking(u)') => u \notin DOMAIN req
  <2>1. \A u \in Helpers : pc'[u] = IF u = h THEN y ELSE pc[u]
    BY <1>0, <1>4 DEF Goes
  <2>2. Managed(h[2]) /\ h \notin DOMAIN req
    BY <1>4 DEF SentOnce, Goes, Unsent
  <2>3. /\ DOMAIN req' = DOMAIN req \cup {h}
        /\ \A u \in DOMAIN req' : req'[u] = IF u = h THEN q ELSE req[u]
    BY <1>4 DEF SendReq
  <2>4. QED
    BY <1>0, <1>4, <1>m, <2>1, <2>2, <2>3 DEF SentOnce, Asking, Managed, Grp, Op, Unsent
<1>5. QED
  BY <1>1, <1>2, <1>3, <1>4, OpSends

\* The others send nothing.
LEMMA SentStep ==
    ASSUME StagesKnown, TypeInv, SentOnce, [Next]_vars
    PROVE  SentOnce'
<1> USE DEF Managed, Grp, Op
<1>0. pc \in [Helpers -> Labels] /\ DOMAIN req \subseteq Helpers
  BY DEF TypeInv, TypeOK
<1>m. \A h, q : MaySend(h, q, hasSchedule)' <=> MaySend(h, q, hasSchedule')
  BY DEF MaySend, PatternReq, WriteReq, EndsAt, StagesOf, Pre, Post
<1>1. ASSUME pc' = pc, req' = req, hasSchedule' = hasSchedule PROVE SentOnce'
  BY <1>1, <1>m DEF SentOnce
<1>2. ASSUME NEW h \in Helpers, OfHelper(h), hasSchedule' = hasSchedule PROVE SentOnce'
  <2>1. req' = req /\ (pc' = pc \/ (pc[h] # "done" /\ \E y \in {"finish", "signal", "done"} :
                                        pc' = [pc EXCEPT ![h] = y]))
    <3>1. CASE Signal(h) \/ ScheduledTimeout(h)
      BY <3>1 DEF Signal, ScheduledTimeout
    <3>2. ASSUME Asking(h) PROVE pc[h] # "done" /\ Resume(h) \in {"finish", "signal", "done"}
      BY <3>2 DEF Asking, Resume
    <3>3. CASE Timeout(h)
      BY <3>2, <3>3 DEF Timeout
    <3>4. CASE Receive(h)
      BY <1>0, <3>2, <3>4 DEF Receive
    <3>5. QED
      BY <1>2, <3>1, <3>3, <3>4 DEF OfHelper
  <2>2. CASE pc' = pc
    BY <1>1, <1>2, <2>1, <2>2
  <2>3. ASSUME pc[h] # "done", NEW y \in {"finish", "signal", "done"}, pc' = [pc EXCEPT ![h] = y]
        PROVE  SentOnce'
    <3>1. \A u \in Helpers : pc'[u] = IF u = h THEN y ELSE pc[u]
      BY <1>0, <2>3
    <3>2. Managed(h[2])
      BY <2>3 DEF SentOnce
    <3>3. QED
      BY <1>0, <1>2, <1>m, <2>1, <3>1, <3>2 DEF SentOnce, Unsent
  <2>4. QED
    BY <2>1, <2>2, <2>3
<1>3. QED
  BY <1>1, <1>2, SentOfOp, StepCases, ControllerKeeps DEF Issue, vars

\* Keys that are apart make every request of a process one for another collective.
LEMMA SentApart == ASSUME KeysApart, TypeOK, SentOnce PROVE AskedOnce
BY DEF KeysApart, TypeOK, SentOnce, AskedOnce

\* In a job of two pipeline stages on demand, the keys are apart by the counters.
LEMMA OnDemandKeys ==
    ASSUME OnDemand, TwoStages, PairsAndRings PROVE KeysApart
<1> SUFFICES ASSUME NEW s \in Replays, NEW h \in Helpers, NEW u \in Helpers, Rank(h) = Rank(u),
                    NEW p \in Requests, NEW q \in Requests, MaySend(h, p, s), MaySend(u, q, s),
                    Key(p) = Key(q)
             PROVE  h = u
  BY DEF KeysApart
<1>1. s = FALSE /\ Mode = 0
  BY DEF OnDemand
<1>2. /\ h = Pre(h[2]) /\ Managed(h[2]) /\ p = WriteReq(h[2], Counter[h[2]])
      /\ u = Pre(u[2]) /\ Managed(u[2]) /\ q = WriteReq(u[2], Counter[u[2]])
  BY <1>1 DEF MaySend
<1>3. h[2] = u[2]
  BY <1>2, HelperFacts, KeysDiffer DEF Rank
<1>4. QED
  BY <1>2, <1>3

-----------------------------------------------------------------------------
(* Acknowledgements that come late *)

GaveUpSent == gaveUp \subseteq DOMAIN req

\* A vote is for a barrier that has not been completed.
VotesOpen ==
    \A u \in votes : Key(req[u]) \notin granted /\ \A q \in busy : Key(q) # Key(req[u])

\* A barrier that is completed has been asked for by all ranks of the communicator.
AskedFor(k) == \A r \in Members[k[1]] : \E h \in DOMAIN req : Rank(h) = r /\ Key(req[h]) = k
CompletedAsked == /\ \A k \in granted : AskedFor(k)
                  /\ \A q \in busy : AskedFor(Key(q)) /\ Key(q) \notin granted

\* A line in a socket acknowledges what a helper of the process waits for, or may be late.
LinesKnown ==
    \A r \in Ranks : \A j \in DOMAIN inbox[r] :
        \E h \in DOMAIN req : /\ Rank(h) = r /\ req[h].hex = inbox[r][j] /\ Key(req[h]) \in granted
                              /\ Asking(h) \/ Lost(h)

LateInv ==
    /\ AskersSent /\ GaveUpSent /\ VotesOpen /\ CompletedAsked /\ BusyOnce /\ LinesKnown
    /\ AckIsForRequest

LEMMA LateInit == ASSUME Init PROVE LateInv
<1>1. /\ DOMAIN req = {} /\ votes = {} /\ busy = {} /\ granted = {} /\ gaveUp = {}
      /\ \A r \in Ranks : inbox[r] = <<>>
  BY DEF Init
<1>2. AskersSent
  BY AckInit DEF AckInv
<1>3. GaveUpSent /\ VotesOpen /\ CompletedAsked /\ BusyOnce /\ AckIsForRequest
  BY <1>1 DEF GaveUpSent, VotesOpen, CompletedAsked, BusyOnce, AckIsForRequest
<1>4. LinesKnown
  BY <1>1 DEF LinesKnown
<1>5. QED
  BY <1>2, <1>3, <1>4 DEF LateInv

\* Who gave up once has given up, as long as requests are kept.
LEMMA LostStays ==
    ASSUME gaveUp \subseteq DOMAIN req, gaveUp \subseteq gaveUp', DOMAIN req \subseteq DOMAIN req',
           \A u \in DOMAIN req : req'[u] = req[u], NEW h \in DOMAIN req, Lost(h)
    PROVE  Lost(h)'
BY DEF Lost

\* A step that sends and acknowledges nothing; the helper of a timeout goes on.
LEMMA LateQuiet ==
    ASSUME TypeOK, LateInv, UNCHANGED <<req, votes, busy, granted, inbox>>,
           gaveUp \subseteq gaveUp', gaveUp' \subseteq DOMAIN req,
           \A u \in Helpers : (Asking(u)' => Asking(u)) /\ (Asking(u) => Asking(u)' \/ u \in gaveUp')
    PROVE  LateInv'
<1>0. DOMAIN req \subseteq Helpers /\ gaveUp \subseteq DOMAIN req
  BY DEF TypeOK, LateInv, GaveUpSent
<1>k. \A q : Key(q)' = Key(q)
  BY DEF Key
<1>1. \A u \in DOMAIN req : (Lost(u) => Lost(u)') /\ (Asking(u) => Asking(u)' \/ Lost(u)')
  <2>1. \A u \in DOMAIN req : Lost(u) => Lost(u)'
    BY <1>0, LostStays
  <2>2. \A u \in gaveUp' : Lost(u)'
    BY DEF Lost
  <2>3. QED
    BY <1>0, <2>1, <2>2
<1>2. AskersSent'
  BY <1>0 DEF LateInv, AskersSent, Fits, Own, IsPP
<1>3. GaveUpSent' /\ VotesOpen' /\ CompletedAsked' /\ BusyOnce'
  BY <1>k DEF LateInv, GaveUpSent, VotesOpen, CompletedAsked, BusyOnce, AskedFor
<1>4. LinesKnown'
  <2> SUFFICES ASSUME NEW r \in Ranks, NEW j \in DOMAIN inbox[r]
               PROVE  \E h \in DOMAIN req : /\ Rank(h) = r /\ req[h].hex = inbox[r][j]
                                            /\ Key(req[h]) \in granted /\ (Asking(h)' \/ Lost(h)')
    BY <1>k DEF LinesKnown
  <2>1. PICK h \in DOMAIN req : /\ Rank(h) = r /\ req[h].hex = inbox[r][j] /\ Key(req[h]) \in granted
                                /\ Asking(h) \/ Lost(h)
    BY DEF LateInv, LinesKnown
  <2>2. QED
    BY <1>1, <2>1
<1>5. AckIsForRequest'
  <2> SUFFICES ASSUME NEW h \in DOMAIN req, ~Asking(h)', ~Lost(h)' PROVE Key(req[h]) \in granted
    BY <1>k DEF AckIsForRequest
  <2>1. ~Asking(h) /\ ~Lost(h)
    BY <1>1
  <2>2. QED
    BY <2>1 DEF LateInv, AckIsForRequest
<1>6. QED
  BY <1>2, <1>3, <1>4, <1>5 DEF LateInv

\* A new request is for a barrier that its process has not asked for, so the barrier is not
\* completed; if the request completes it, every rank of the communicator has asked.
LEMMA LateAsk ==
    ASSUME TypeOK, LateInv, AskedOnce', NEW h \in Helpers, NEW q \in Requests, Ask(h, q),
           h \notin DOMAIN req
    PROVE  LateInv'
<1> DEFINE ready == {u \in votes : Key(req[u]) = Key(q)} \cup {h}
<1>0. /\ DOMAIN req' = DOMAIN req \cup {h} /\ DOMAIN req' \subseteq Helpers
      /\ DOMAIN req \subseteq Helpers /\ votes \subseteq DOMAIN req
      /\ \A u \in DOMAIN req' : req'[u] = IF u = h THEN q ELSE req[u]
      /\ \A u \in DOMAIN req : req'[u] = req[u]
      /\ req'[h] = q /\ granted' = granted /\ inbox' = inbox /\ gaveUp' = gaveUp
  BY SendReqType DEF Ask, TypeOK
<1>1. \A u \in Helpers : Asking(u)' <=> (u = h \/ Asking(u))
  BY DEF Ask
<1>2. Own(h, q) /\ Fits(h, q)
  BY DEF Ask, Fits
<1>k. \A p : Key(p)' = Key(p)
  BY DEF Key
<1>3. \A u, v \in DOMAIN req' : (Rank(u) = Rank(v) /\ Key(req'[u]) = Key(req'[v])) => u = v
  BY <1>k DEF AskedOnce
<1>4. Rank(h) \in Members[q.hex] /\ q.hex \in Groups /\ Key(q)[1] = q.hex
  BY <1>2 DEF Rank, Own, Requests, Key
<1>5. ~AskedFor(Key(q))
  <2> SUFFICES ASSUME AskedFor(Key(q)) PROVE FALSE
    OBVIOUS
  <2>1. PICK u \in DOMAIN req : Rank(u) = Rank(h) /\ Key(req[u]) = Key(q)
    BY <1>4 DEF AskedFor
  <2>2. u = h
    BY <1>0, <1>3, <2>1
  <2>3. QED
    BY <2>2
<1>6. Key(q) \notin granted /\ \A p \in busy : Key(p) # Key(q)
  BY <1>5 DEF LateInv, CompletedAsked
<1>7. \/ votes' = votes \ ready /\ busy' = busy \cup {q} /\ all_arrive(q, Cardinality(ready))
      \/ votes' = votes \cup {h} /\ busy' = busy
  BY DEF Ask, SendReq
<1>8. AskersSent' /\ GaveUpSent'
  <2>1. \A u \in DOMAIN req' : Fits(u, req'[u])
    BY <1>0, <1>2 DEF LateInv, AskersSent
  <2>2. \A u \in Helpers : Asking(u)' => u \in DOMAIN req'
    BY <1>0, <1>1 DEF LateInv, AskersSent
  <2>3. GaveUpSent'
    BY <1>0 DEF LateInv, GaveUpSent
  <2>4. QED
    BY <2>1, <2>2, <2>3 DEF AskersSent, Fits, Own, IsPP
<1>9. VotesOpen'
  <2> SUFFICES ASSUME NEW u \in votes'
               PROVE  Key(req'[u]) \notin granted /\ \A p \in busy' : Key(p) # Key(req'[u])
    BY <1>0, <1>k DEF VotesOpen
  <2>1. CASE u = h
    <3>1. busy' = busy
      BY <1>0, <1>7, <2>1
    <3>2. QED
      BY <1>0, <1>6, <2>1, <3>1
  <2>2. CASE u # h
    <3>1. u \in votes /\ req'[u] = req[u]
      BY <1>0, <1>7, <2>2
    <3>2. Key(req[u]) \notin granted /\ \A p \in busy : Key(p) # Key(req[u])
      BY <3>1 DEF LateInv, VotesOpen
    <3>3. \A p \in busy' : Key(p) # Key(req[u])
      BY <1>7, <3>1, <3>2
    <3>4. QED
      BY <3>1, <3>2, <3>3
  <2>3. QED
    BY <2>1, <2>2
<1>10. \A k : AskedFor(k) => AskedFor(k)'
  <2>1. \A u \in DOMAIN req : u \in DOMAIN req' /\ Key(req[u])' = Key(req[u])
    BY <1>0, <1>k
  <2>2. QED
    BY <2>1 DEF AskedFor
<1>11. all_arrive(q, Cardinality(ready)) => AskedFor(Key(q))'
  <2> SUFFICES ASSUME all_arrive(q, Cardinality(ready)), NEW r \in Members[q.hex]
               PROVE  \E u \in DOMAIN req' : Rank(u) = r /\ Key(req'[u]) = Key(q)
    BY <1>4, <1>k DEF AskedFor
  <2> DEFINE M == Members[q.hex]
  <2>1. IsFiniteSet(M) /\ Cardinality(M) \in Nat
    BY <1>4, RankInType
  <2>2. \A u \in ready : u \in DOMAIN req' /\ Key(req'[u]) = Key(q)
    BY <1>0
  <2>3. \A u \in ready : Rank(u) \in M
    <3>1. ASSUME NEW u \in votes, Key(req[u]) = Key(q) PROVE Rank(u) \in M
      <4>1. Fits(u, req[u])
        BY <1>0 DEF LateInv, AskersSent
      <4>2. QED
        BY <3>1, <4>1 DEF Fits, Own, Rank, Key
    <3>2. QED
      BY <3>1, <1>4
  <2>4. \A u, v \in ready : Rank(u) = Rank(v) => u = v
    BY <1>3, <2>2
  <2>5. Cardinality(ready) >= Cardinality(M)
    <3>1. IsFiniteSet(ready)
      <4>1. [u \in ready |-> Rank(u)] \in Injection(ready, M)
        BY <2>3, <2>4 DEF Injection, IsInjective
      <4>2. QED
        BY <2>1, <4>1, FS_Injection
    <3>2. Cardinality(ready) \in Nat
      BY <3>1, FS_CardinalityType
    <3>3. IsPP(q) => Cardinality(M) <= 2
      BY <1>2 DEF Fits
    <3>4. QED
      BY <2>1, <3>2, <3>3 DEF all_arrive
  <2> HIDE DEF ready
  <2>6. PICK u \in ready : Rank(u) = r
    BY <2>1, <2>3, <2>4, <2>5, EveryMember
  <2>7. QED
    BY <2>2, <2>6
<1> HIDE DEF ready
<1>12. CompletedAsked'
  <2>1. \A k \in granted' : AskedFor(k)'
    BY <1>0, <1>10 DEF LateInv, CompletedAsked
  <2>2. ASSUME NEW p \in busy' PROVE AskedFor(Key(p))' /\ Key(p) \notin granted
    <3>1. CASE p \in busy
      BY <1>10, <3>1, <1>k DEF LateInv, CompletedAsked
    <3>2. CASE p = q /\ all_arrive(q, Cardinality(ready))
      BY <1>6, <1>11, <3>2
    <3>3. QED
      BY <1>7, <2>2, <3>1, <3>2
  <2>3. QED
    BY <1>0, <1>k, <2>1, <2>2 DEF CompletedAsked
<1>13. BusyOnce'
  BY <1>6, <1>7, <1>k DEF LateInv, BusyOnce
<1>14. \A u \in DOMAIN req : Lost(u) <=> Lost(u)'
  <2>1. gaveUp \subseteq DOMAIN req
    BY DEF LateInv, GaveUpSent
  <2>2. QED
    BY <1>0, <2>1 DEF Lost
<1>15. LinesKnown'
  <2> SUFFICES ASSUME NEW r \in Ranks, NEW j \in DOMAIN inbox[r]
               PROVE  \E u \in DOMAIN req' : /\ Rank(u) = r /\ req'[u].hex = inbox[r][j]
                                             /\ Key(req'[u]) \in granted /\ (Asking(u)' \/ Lost(u)')
    BY <1>0, <1>k DEF LinesKnown
  <2>1. PICK u \in DOMAIN req : /\ Rank(u) = r /\ req[u].hex = inbox[r][j] /\ Key(req[u]) \in granted
                                /\ Asking(u) \/ Lost(u)
    BY DEF LateInv, LinesKnown
  <2>2. u \in DOMAIN req' /\ req'[u] = req[u] /\ (Asking(u)' \/ Lost(u)')
    BY <1>0, <1>1, <1>14, <2>1
  <2>3. QED
    BY <2>1, <2>2
<1>16. AckIsForRequest'
  <2> SUFFICES ASSUME NEW u \in DOMAIN req', ~Asking(u)', ~Lost(u)' PROVE Key(req'[u]) \in granted
    BY <1>0, <1>k DEF AckIsForRequest
  <2>1. u \in DOMAIN req /\ req'[u] = req[u] /\ ~Asking(u) /\ ~Lost(u)
    BY <1>0, <1>1, <1>14
  <2>2. QED
    BY <2>1 DEF LateInv, AckIsForRequest
<1>17. QED
  BY <1>8, <1>9, <1>12, <1>13, <1>15, <1>16 DEF LateInv

\* One recv: a line of the helper's communicator is for its own request, or its process has
\* given up a request of that communicator.
LEMMA LateReceive ==
    ASSUME TypeOK, LateInv, OneTransaction, NEW h \in Helpers, Receive(h)
    PROVE  LateInv'
<1> DEFINE r == Rank(h)
<1>0. /\ req' = req /\ votes' = votes /\ busy' = busy /\ granted' = granted /\ gaveUp' = gaveUp
      /\ inbox' = [inbox EXCEPT ![r] = <<>>] /\ r \in Ranks
      /\ DOMAIN req \subseteq Helpers /\ h \in DOMAIN req /\ Asking(h)
  BY HelperFacts DEF Receive, TypeOK, ctlVars, Rank, LateInv, AskersSent
<1>k. \A q : Key(q)' = Key(q)
  BY DEF Key
<1>1. \A s \in Ranks : inbox'[s] = IF s = r THEN <<>> ELSE inbox[s]
  BY <1>0 DEF TypeOK
<1>2. \A u \in DOMAIN req : (Rank(u) = r /\ Asking(u)) => u = h
  BY <1>0 DEF OneTransaction, Rank
<1>3. \A u \in DOMAIN req : Lost(u)' <=> Lost(u)
  BY <1>0 DEF Lost
<1>4. \A u \in Helpers : u # h => (Asking(u)' <=> Asking(u))
  BY DEF Receive, Asking, TypeOK
<1>5. ASSUME ~Asking(h)' PROVE Key(req[h]) \in granted \/ Lost(h)
  <2>1. PICK j \in DOMAIN inbox[r] : inbox[r][j] = req[h].hex
    <3>1. CASE \E j \in DOMAIN inbox[r] : inbox[r][j] = req[h].hex
      BY <3>1
    <3>2. CASE ~\E j \in DOMAIN inbox[r] : inbox[r][j] = req[h].hex
      <4>1. pc' = [pc EXCEPT ![h] = pc[h]]
        BY <3>2 DEF Receive, Rank
      <4>2. pc'[h] = pc[h]
        BY <4>1 DEF TypeOK
      <4>3. QED
        BY <1>0, <1>5, <4>2 DEF Asking
    <3>3. QED
      BY <3>1, <3>2
  <2>2. PICK u \in DOMAIN req : /\ Rank(u) = r /\ req[u].hex = req[h].hex /\ Key(req[u]) \in granted
                                /\ Asking(u) \/ Lost(u)
    BY <1>0, <2>1 DEF LateInv, LinesKnown
  <2>3. CASE Asking(u)
    BY <1>2, <2>2, <2>3
  <2>4. CASE Lost(u)
    BY <2>2, <2>4 DEF Lost, Rank
  <2>5. QED
    BY <2>2, <2>3, <2>4
<1> HIDE DEF r
<1>6. AskersSent'
  BY <1>0, <1>4 DEF LateInv, AskersSent, Fits, Own, IsPP
<1>7. GaveUpSent' /\ VotesOpen' /\ CompletedAsked' /\ BusyOnce'
  BY <1>0, <1>k DEF LateInv, GaveUpSent, VotesOpen, CompletedAsked, BusyOnce, AskedFor
<1>8. LinesKnown'
  <2> SUFFICES ASSUME NEW s \in Ranks, NEW j \in DOMAIN inbox'[s]
               PROVE  \E u \in DOMAIN req : /\ Rank(u) = s /\ req[u].hex = inbox'[s][j]
                                            /\ Key(req[u]) \in granted /\ (Asking(u)' \/ Lost(u)')
    BY <1>0, <1>k DEF LinesKnown
  <2>1. s # r /\ inbox'[s] = inbox[s]
    BY <1>1
  <2>2. PICK u \in DOMAIN req : /\ Rank(u) = s /\ req[u].hex = inbox[s][j] /\ Key(req[u]) \in granted
                                /\ Asking(u) \/ Lost(u)
    BY <2>1 DEF LateInv, LinesKnown
  <2>3. u # h /\ u \in Helpers
    BY <1>0, <2>1, <2>2 DEF r
  <2>4. QED
    BY <1>3, <1>4, <2>1, <2>2, <2>3
<1>9. AckIsForRequest'
  <2> SUFFICES ASSUME NEW u \in DOMAIN req, ~Asking(u)', ~Lost(u) PROVE Key(req[u]) \in granted
    BY <1>0, <1>3, <1>k DEF AckIsForRequest
  <2>1. CASE u = h
    BY <1>5, <2>1
  <2>2. CASE u # h
    BY <1>0, <1>4, <2>2 DEF LateInv, AckIsForRequest
  <2>3. QED
    BY <2>1, <2>2
<1>10. QED
  BY <1>6, <1>7, <1>8, <1>9 DEF LateInv

\* An acknowledgement goes to ranks that have asked for it and wait, or have given up.
LEMMA LateGrant ==
    ASSUME TypeOK, LateInv, NEW q \in busy, Grant(q)
    PROVE  LateInv'
<1>0. /\ req' = req /\ votes' = votes /\ busy' = busy \ {q} /\ granted' = granted \cup {Key(q)}
      /\ gaveUp' = gaveUp /\ pc' = pc /\ DOMAIN req \subseteq Helpers
      /\ q.hex \in Groups /\ inbox \in [Ranks -> Seq(Groups)]
  BY ControllerKeeps DEF Grant, TypeOK, Requests
<1>1. \A r \in Ranks : inbox'[r] = IF r \in Members[q.hex] THEN Append(inbox[r], q.hex) ELSE inbox[r]
  BY DEF Grant
<1>2. \A u : Asking(u)' <=> Asking(u)
  BY <1>0 DEF Asking
<1>3. \A u \in DOMAIN req : Lost(u)' <=> Lost(u)
  BY <1>0 DEF Lost
<1>k. Key(q)[1] = q.hex /\ \A p : Key(p)' = Key(p)
  BY DEF Key
<1>4. AskersSent' /\ GaveUpSent'
  BY <1>0, <1>2 DEF LateInv, AskersSent, Fits, Own, IsPP, GaveUpSent
<1>5. VotesOpen'
  BY <1>0, <1>k DEF LateInv, VotesOpen
<1>6. BusyOnce'
  BY <1>0, <1>k DEF LateInv, BusyOnce
<1>7. CompletedAsked'
  <2>1. \A k : AskedFor(k)' <=> AskedFor(k)
    BY <1>0, <1>k DEF AskedFor
  <2>2. \A p \in busy' : Key(p) # Key(q)
    BY <1>0 DEF LateInv, BusyOnce
  <2>3. QED
    BY <1>0, <1>k, <2>1, <2>2 DEF LateInv, CompletedAsked
<1>8. LinesKnown'
  <2> SUFFICES ASSUME NEW r \in Ranks, NEW j \in DOMAIN inbox'[r]
               PROVE  \E u \in DOMAIN req : /\ Rank(u) = r /\ req[u].hex = inbox'[r][j]
                                            /\ Key(req[u]) \in granted' /\ (Asking(u) \/ Lost(u))
    BY <1>0, <1>2, <1>3, <1>k DEF LinesKnown
  <2>1. CASE j \in DOMAIN inbox[r] /\ inbox'[r][j] = inbox[r][j]
    <3>1. PICK u \in DOMAIN req : /\ Rank(u) = r /\ req[u].hex = inbox[r][j]
                                  /\ Key(req[u]) \in granted /\ (Asking(u) \/ Lost(u))
      BY <2>1 DEF LateInv, LinesKnown
    <3>2. QED
      BY <1>0, <2>1, <3>1
  <2>2. CASE r \in Members[q.hex] /\ inbox'[r][j] = q.hex
    <3>1. PICK u \in DOMAIN req : Rank(u) = r /\ Key(req[u]) = Key(q)
      BY <1>k, <2>2 DEF LateInv, CompletedAsked, AskedFor
    <3>2. Key(q) \notin granted
      BY DEF LateInv, CompletedAsked
    <3>3. Asking(u) \/ Lost(u)
      BY <3>1, <3>2 DEF LateInv, AckIsForRequest
    <3>4. req[u].hex = q.hex
      BY <3>1 DEF Key
    <3>5. QED
      BY <1>0, <2>2, <3>1, <3>3, <3>4
  <2>3. \/ j \in DOMAIN inbox[r] /\ inbox'[r][j] = inbox[r][j]
        \/ r \in Members[q.hex] /\ inbox'[r][j] = q.hex
    <3>1. ASSUME NEW s \in Seq(Groups), NEW i \in DOMAIN Append(s, q.hex)
          PROVE  (i \in DOMAIN s /\ Append(s, q.hex)[i] = s[i]) \/ Append(s, q.hex)[i] = q.hex
      BY <1>0
    <3>2. inbox[r] \in Seq(Groups)
      BY <1>0
    <3>3. CASE r \in Members[q.hex]
      BY <1>1, <3>1, <3>2, <3>3, Zenon
    <3>4. CASE r \notin Members[q.hex]
      BY <1>1, <3>4
    <3>5. QED
      BY <3>3, <3>4
  <2>4. QED
    BY <2>1, <2>2, <2>3
<1>9. AckIsForRequest'
  BY <1>0, <1>2, <1>3, <1>k DEF LateInv, AckIsForRequest
<1>10. QED
  BY <1>4, <1>5, <1>6, <1>7, <1>8, <1>9 DEF LateInv

\* A step, timeouts included, when the requests of a process are serialized and no
\* collective is asked for twice.
LEMMA LateStep ==
    ASSUME StagesKnown, PipelinePairs, TypeInv, SentOnce, LateInv, OneTransaction, AskedOnce',
           [Next]_vars
    PROVE  LateInv'
<1>0. TypeOK /\ DOMAIN req \subseteq Helpers /\ gaveUp \subseteq DOMAIN req
  BY DEF TypeInv, TypeOK, LateInv, GaveUpSent
<1>q. ASSUME Quiet, gaveUp' = gaveUp PROVE LateInv'
  BY <1>0, <1>q, LateQuiet DEF Quiet
<1>1. ASSUME NEW r \in Ranks, Issue(r) PROVE Quiet /\ gaveUp' = gaveUp
  BY <1>1 DEF Issue, Quiet, ctlVars, Asking
<1>2. CASE UNCHANGED vars
  <2>1. Quiet /\ gaveUp' = gaveUp
    BY <1>2 DEF vars, Quiet, ctlVars, Asking
  <2>2. QED
    BY <1>q, <2>1
<1>3. ASSUME NEW h \in Helpers, OfHelper(h) PROVE LateInv'
  <2>1. CASE Receive(h)
    BY <1>0, <2>1, LateReceive
  <2>2. CASE Signal(h)
    <3>1. Quiet /\ gaveUp' = gaveUp
      BY <1>0, <2>2 DEF Signal, Quiet, ctlVars, Asking, TypeOK
    <3>2. QED
      BY <1>q, <3>1
  <2>3. CASE Timeout(h) \/ ScheduledTimeout(h)
    <3>1. /\ UNCHANGED <<req, votes, busy, granted, inbox>> /\ gaveUp' = gaveUp \cup {h}
          /\ Asking(h)
      BY <2>3 DEF Timeout, ScheduledTimeout, ctlVars, Asking
    <3>2. h \in DOMAIN req
      BY <3>1 DEF LateInv, AskersSent
    <3>3. pc' = pc \/ pc' = [pc EXCEPT ![h] = Resume(h)]
      BY <2>3 DEF Timeout, ScheduledTimeout
    <3>4. \A u \in Helpers : u # h => (Asking(u)' <=> Asking(u))
      BY <1>0, <3>3 DEF Asking, TypeOK
    <3>5. QED
      BY <1>0, <3>1, <3>2, <3>4, LateQuiet
  <2>4. QED
    BY <1>3, <2>1, <2>2, <2>3 DEF OfHelper
<1>4. ASSUME NEW o \in Ops, OfOp(o), hasSchedule' = hasSchedule PROVE LateInv'
  <2>1. CASE Quiet
    <3>1. gaveUp' = gaveUp
      BY <1>4 DEF OfOp, Run, PreGate, PreDecide, PreFinish, PostChange, PostNoChange, Defer,
         SendScheduled
    <3>2. QED
      BY <1>q, <2>1, <3>1
  <2>2. ASSUME NEW h \in Helpers, NEW q \in Requests, Ask(h, q) PROVE LateInv'
    <3>1. ~Asking(h) /\ Asking(h)'
      BY <2>2 DEF Ask
    <3>2. h \notin DOMAIN req
      BY <1>4, <3>1, SentOfOp
    <3>3. QED
      BY <1>0, <2>2, <3>2, LateAsk
  <2>3. QED
    BY <1>4, <2>1, <2>2, OpAsks
<1>5. ASSUME NEW q \in busy, Grant(q) PROVE LateInv'
  BY <1>0, <1>5, LateGrant
<1>6. ASSUME NEW q \in busy, Tends(q) PROVE LateInv'
  BY <1>6, <1>q, TendsQuiet, ControllerKeeps
<1>7. QED
  BY <1>1, <1>2, <1>3, <1>4, <1>5, <1>6, <1>q, StepCases

\* "A request and its acknowledgement must be one serialized unit" (opus.cpp:403): as long
\* as they are, in every mode, a helper goes on only with the acknowledgement of its own
\* request, although the line names the communicator only and other requests time out and
\* are acknowledged late; unless its process gave up one of the same communicator.
THEOREM SerialAcks ==
    ASSUME StagesKnown, PipelinePairs, KeysApart
    PROVE  Spec /\ []OneTransaction => []AckIsForRequest
<1>1. Spec => []TypeInv
  BY TypeInvariant
<1>2. Init => LateInv /\ SentOnce
  BY LateInit, SentInit
<1>3. TypeInv /\ SentOnce /\ [Next]_vars => SentOnce'
  BY SentStep
<1>4. TypeInv /\ SentOnce => AskedOnce
  BY SentApart DEF TypeInv
<1>5. TypeInv /\ SentOnce /\ LateInv /\ OneTransaction /\ AskedOnce' /\ [Next]_vars => LateInv'
  BY LateStep
<1>6. LateInv => AckIsForRequest
  BY DEF LateInv
<1>7. QED
  BY <1>1, <1>2, <1>3, <1>4, <1>5, <1>6, PTL DEF Spec

\* In provisioning without pipeline backends, and in its replay, a helper goes on only with
\* the acknowledgement of its own request, unless its process gave up one of the same
\* communicator: the gates between the stages keep the requests of a process apart.
THEOREM OwnAcks ==
    ASSUME StagesKnown, PipelinePairs, KeysApart, Provisioning, PatternInOrder
    PROVE  Spec => []AckIsForRequest
BY SerialAcks, Transactions, PTL

-----------------------------------------------------------------------------
(* Every step is a step of the barrier *)

\* The key of a request is a collective of the ranks of its communicator.
LEMMA KeyFacts ==
    ASSUME NEW q \in Requests
    PROVE  Key(q) \in Collectives /\ Taking[Key(q)] = Members[q.hex]
BY DEF Key, Requests, Collectives, Taking

\* At first nobody has asked.
LEMMA PromiseInit == ASSUME Init PROVE Promise!BarrierInit
<1>1. DOMAIN req = {} /\ granted = {}
  BY DEF Init
<1>2. QED
  BY <1>1 DEF Promise!BarrierInit, AskedBy, ToldOf, Told

\* A step that leaves requests and answers alone.
LEMMA PromiseQuiet ==
    ASSUME req' = req, granted' = granted, \A u \in DOMAIN req : Asking(u)' <=> Asking(u)
    PROVE  UNCHANGED Promise!barrierVars
<1>1. AskedBy' = AskedBy
  BY DEF AskedBy, Key
<1>2. \A r, k : Told(r, k)' <=> Told(r, k)
  BY DEF Told, Key
<1>3. ToldOf' = ToldOf
  BY <1>2 DEF ToldOf
<1>4. QED
  BY <1>1, <1>3 DEF Promise!barrierVars

\* A request is an Ask of its process.
LEMMA PromiseAsk ==
    ASSUME TypeOK, AskedOnce', NEW h \in Helpers, NEW q \in Requests, Ask(h, q),
           h \notin DOMAIN req
    PROVE  Promise!BarrierNext
<1> DEFINE r == Rank(h)
           k == Key(q)
<1>0. /\ DOMAIN req' = DOMAIN req \cup {h} /\ DOMAIN req \subseteq Helpers
      /\ \A u \in DOMAIN req' : req'[u] = IF u = h THEN q ELSE req[u]
      /\ granted' = granted
      /\ \A u \in Helpers : Asking(u)' <=> (u = h \/ Asking(u))
      /\ r \in Members[q.hex] /\ r \in Ranks
  BY HelperFacts DEF Ask, SendReq, TypeOK, Fits, Own, Rank
<1>1. k \in Collectives /\ r \in Taking[k]
  BY <1>0, KeyFacts
<1>2. \A u \in DOMAIN req : Rank(u) = r => Key(req[u]) # k
  BY <1>0 DEF AskedOnce, Key
<1> HIDE DEF r, k
<1>3. k \notin AskedBy[r]
  BY <1>0, <1>2 DEF AskedBy
<1>4. \A s \in Ranks : AskedBy'[s] = IF s = r THEN AskedBy[s] \cup {k} ELSE AskedBy[s]
  <2>1. \A u \in DOMAIN req' : Key(req[u])' = IF u = h THEN k ELSE Key(req[u])
    BY <1>0 DEF Key, k
  <2> SUFFICES ASSUME NEW s \in Ranks
               PROVE  {Key(req[u])' : u \in {v \in DOMAIN req' : Rank(v) = s}}
                       = IF s = r THEN {Key(req[u]) : u \in {v \in DOMAIN req : Rank(v) = s}} \cup {k}
                         ELSE {Key(req[u]) : u \in {v \in DOMAIN req : Rank(v) = s}}
    BY DEF AskedBy
  <2>2. QED
    BY <1>0, <2>1 DEF r
<1>5. AskedBy' = [AskedBy EXCEPT ![r] = @ \cup {k}]
  BY <1>0, <1>4 DEF AskedBy
<1>6. \A s, c : Told(s, c)' <=> Told(s, c)
  BY <1>0 DEF Told, Key
<1>7. ToldOf' = ToldOf
  BY <1>6 DEF ToldOf
<1>8. Promise!Ask(r, k)
  BY <1>0, <1>1, <1>3, <1>5, <1>7 DEF Promise!Ask
<1>9. QED
  BY <1>0, <1>1, <1>8 DEF Promise!BarrierNext

\* The helper that reads the acknowledgement of its request is told of it.
LEMMA PromiseReceive ==
    ASSUME TypeOK, AckInv, OneTransaction, AskedOnce, NEW h \in Helpers, Receive(h)
    PROVE  Promise!BarrierNext
<1> DEFINE r == Rank(h)
           k == Key(req[h])
<1>0. /\ req' = req /\ granted' = granted /\ inbox[r] # <<>> /\ r \in Ranks
      /\ DOMAIN req \subseteq Helpers /\ h \in DOMAIN req /\ Asking(h) /\ req[h] \in Requests
      /\ r \in Members[req[h].hex]
  BY HelperFacts DEF Receive, TypeOK, ctlVars, Rank, AckInv, AskersSent, Fits, Own
<1>1. k \in Collectives /\ r \in Taking[k]
  BY <1>0, KeyFacts
<1>2. \A u \in DOMAIN req : (Rank(u) = r /\ Asking(u)) => u = h
  BY <1>0 DEF OneTransaction, Rank
<1>3. \A u \in DOMAIN req : (Rank(u) = r /\ Key(req[u]) = k) => u = h
  BY <1>0 DEF AskedOnce
<1> HIDE DEF r, k
<1>4. \E j \in DOMAIN inbox[r] : TRUE
  BY <1>0, EmptySeq DEF TypeOK
<1>5. k \in granted /\ \A j \in DOMAIN inbox[r] : inbox[r][j] = req[h].hex
  BY <1>0, <1>2, <1>4 DEF AckInv, LinesExpected, k
<1>6. ~Asking(h)' /\ \A u \in Helpers : u # h => (Asking(u)' <=> Asking(u))
  <2>1. pc' = [pc EXCEPT ![h] = Resume(h)]
    BY <1>4, <1>5 DEF Receive, r, Rank
  <2>2. Resume(h) \notin {"write", "provision", "sched"}
    BY <1>0 DEF Resume, Asking
  <2>3. QED
    BY <2>1, <2>2 DEF Asking, TypeOK
<1>7. ~Told(r, k) /\ \A s, c : Told(s, c)' <=> (Told(s, c) \/ (s = r /\ c = k))
  <2>1. \A u \in DOMAIN req : Key(req[u])' = Key(req[u])
    BY <1>0 DEF Key
  <2>2. QED
    BY <1>0, <1>3, <1>6, <2>1 DEF Told, r, k
<1>8. ToldOf' = [ToldOf EXCEPT ![r][k] = 1] /\ ToldOf[r][k] = 0
  <2>1. ToldOf[r][k] = 0
    BY <1>0, <1>1, <1>7 DEF ToldOf
  <2>2. \A s \in Ranks : \A c \in Collectives :
           ToldOf'[s][c] = IF s = r /\ c = k THEN 1 ELSE ToldOf[s][c]
    BY <1>7 DEF ToldOf
  <2>3. \A s \in Ranks : /\ ToldOf[s] = [c \in Collectives |-> ToldOf[s][c]]
                        /\ ToldOf'[s] = [c \in Collectives |-> ToldOf'[s][c]]
    BY DEF ToldOf
  <2>4. \A s \in Ranks : ToldOf'[s] = IF s = r THEN [ToldOf[s] EXCEPT ![k] = 1] ELSE ToldOf[s]
    BY <1>1, <2>2, <2>3
  <2>5. ToldOf = [s \in Ranks |-> ToldOf[s]] /\ ToldOf' = [s \in Ranks |-> ToldOf'[s]]
    BY DEF ToldOf
  <2>6. QED
    BY <1>0, <2>1, <2>4, <2>5
<1>9. AskedBy' = AskedBy
  BY <1>0 DEF AskedBy, Key
<1>10. Promise!Deliver(r, k)
  BY <1>0, <1>1, <1>5, <1>8, <1>9 DEF Promise!Deliver
<1>11. QED
  BY <1>0, <1>1, <1>10 DEF Promise!BarrierNext

\* The first grant of a collective is its Release, another one changes nothing.
LEMMA PromiseGrant ==
    ASSUME TypeOK, AckInv, NEW q \in busy, Grant(q)
    PROVE  Promise!BarrierNext \/ UNCHANGED Promise!barrierVars
<1> DEFINE k == Key(q)
<1>0. /\ req' = req /\ pc' = pc /\ granted' = granted \cup {k} /\ q \in Requests
  BY ControllerKeeps DEF Grant, TypeOK
<1>1. k \in Collectives /\ Taking[k] = Members[q.hex] /\ Members[q.hex] \subseteq Ranks
  BY <1>0, KeyFacts, ShapeAssumption DEF Requests
<1>2. \A r \in Members[q.hex] : k \in AskedBy[r]
  BY <1>1 DEF AckInv, BusyAsked, AskedBy
<1> HIDE DEF k
<1>3. AskedBy' = AskedBy /\ ToldOf' = ToldOf
  <2>1. AskedBy' = AskedBy
    BY <1>0 DEF AskedBy, Key
  <2>2. \A r, c : Told(r, c)' <=> Told(r, c)
    BY <1>0 DEF Told, Key, Asking
  <2>3. QED
    BY <2>1, <2>2 DEF ToldOf
<1>4. CASE k \in granted
  BY <1>0, <1>3, <1>4 DEF Promise!barrierVars
<1>5. CASE k \notin granted
  <2>1. Promise!Release(k)
    BY <1>0, <1>1, <1>2, <1>3, <1>5 DEF Promise!Release
  <2>2. QED
    BY <1>1, <2>1 DEF Promise!BarrierNext
<1>6. QED
  BY <1>4, <1>5

\* Without timeouts a step asks, grants, reads an acknowledgement, or changes nothing that
\* the barrier tells apart.
LEMMA PromiseStep ==
    ASSUME StagesKnown, PipelinePairs, MayTimeout = {}, TypeInv, AckInv, SentOnce, OneTransaction,
           AskedOnce, AskedOnce', [Next]_vars
    PROVE  [Promise!BarrierNext]_(Promise!barrierVars)
<1>0. TypeOK /\ DOMAIN req \subseteq Helpers
  BY DEF TypeInv, TypeOK
<1>q. Quiet => UNCHANGED Promise!barrierVars
  BY <1>0, PromiseQuiet DEF Quiet
<1>1. ASSUME NEW r \in Ranks, Issue(r) PROVE UNCHANGED Promise!barrierVars
  <2>1. Quiet
    BY <1>1 DEF Issue, Quiet, ctlVars, Asking
  <2>2. QED
    BY <1>q, <2>1
<1>2. CASE UNCHANGED vars
  <2>1. Quiet
    BY <1>2 DEF vars, Quiet, ctlVars, Asking
  <2>2. QED
    BY <1>q, <2>1
<1>3. ASSUME NEW h \in Helpers, OfHelper(h)
      PROVE  Promise!BarrierNext \/ UNCHANGED Promise!barrierVars
  <2>1. CASE Receive(h)
    BY <1>0, <2>1, PromiseReceive
  <2>2. CASE Signal(h)
    <3>1. Quiet
      BY <1>0, <2>2 DEF Signal, Quiet, ctlVars, Asking, TypeOK
    <3>2. QED
      BY <1>q, <3>1
  <2>3. QED
    BY <1>3, <2>1, <2>2 DEF OfHelper, Timeout, ScheduledTimeout
<1>4. ASSUME NEW o \in Ops, OfOp(o), hasSchedule' = hasSchedule
      PROVE  Promise!BarrierNext \/ UNCHANGED Promise!barrierVars
  <2>1. CASE Quiet
    BY <1>q, <2>1
  <2>2. ASSUME NEW h \in Helpers, NEW q \in Requests, Ask(h, q) PROVE Promise!BarrierNext
    <3>1. ~Asking(h) /\ Asking(h)'
      BY <2>2 DEF Ask
    <3>2. h \notin DOMAIN req
      BY <1>4, <3>1, SentOfOp
    <3>3. QED
      BY <1>0, <2>2, <3>2, PromiseAsk
  <2>3. QED
    BY <1>4, <2>1, <2>2, OpAsks
<1>5. ASSUME NEW q \in busy, Grant(q) PROVE Promise!BarrierNext \/ UNCHANGED Promise!barrierVars
  BY <1>0, <1>5, PromiseGrant
<1>6. ASSUME NEW q \in busy, Tends(q) PROVE UNCHANGED Promise!barrierVars
  BY <1>6, <1>q, TendsQuiet
<1>7. QED
  BY <1>1, <1>2, <1>3, <1>4, <1>5, <1>6, StepCases

\* As long as the requests of a process are serialized, no request waits in vain and no
\* collective is asked for twice, the shims and the controller keep the promise of
\* CollectiveBarrier in every mode: a collective is released once, after all ranks of its
\* communicator asked for it, and each of them reads one acknowledgement of it.
THEOREM SerialBarrier ==
    ASSUME StagesKnown, PipelinePairs, MayTimeout = {}, KeysApart
    PROVE  Spec /\ []OneTransaction => Promise!BarrierSpec
<1>1. \A h \in Helpers : ~Timeout(h)
  BY DEF Timeout
<1>2. Spec => []TypeInv
  BY TypeInvariant
<1>3. Init => AckInv /\ SentOnce /\ Promise!BarrierInit
  BY AckInit, SentInit, PromiseInit
<1>4. TypeInv /\ AckInv /\ OneTransaction /\ OneTransaction' /\ [Next]_vars => AckInv'
  BY <1>1, AckStep
<1>5. TypeInv /\ SentOnce /\ [Next]_vars => SentOnce'
  BY SentStep
<1>6. TypeInv /\ SentOnce => AskedOnce
  BY SentApart DEF TypeInv
<1>7. TypeInv /\ AckInv /\ SentOnce /\ OneTransaction /\ AskedOnce /\ AskedOnce' /\ [Next]_vars
      => [Promise!BarrierNext]_(Promise!barrierVars)
  BY PromiseStep
<1>8. QED
  BY <1>2, <1>3, <1>4, <1>5, <1>6, <1>7, PTL DEF Spec, Promise!BarrierSpec

\* On demand, operations of the rails that do not overlap in a process make the shims and
\* the controller keep the promise of CollectiveBarrier, although an acknowledgement names
\* its communicator only and all helpers of a process read from one socket.
THEOREM OnDemandBarrier ==
    ASSUME StagesKnown, PipelinePairs, KeysApart, OnDemand, Serialised
    PROVE  Spec => Promise!BarrierSpec
<1>1. MayTimeout = {}
  BY DEF OnDemand
<1>2. TypeInv /\ DCtl => OneTransaction
  BY DOne DEF TypeInv
<1>3. Spec => []OneTransaction
  BY <1>2, OnDemandInvariant, PTL
<1>4. QED
  BY <1>1, <1>3, SerialBarrier, PTL

\* So does provisioning without pipeline backends, and its replay of a schedule, in which
\* requests are sent by post threads, by pre threads and ahead of the operation.
THEOREM ProvisioningBarrier ==
    ASSUME StagesKnown, PipelinePairs, KeysApart, Provisioning, PatternInOrder, MayTimeout = {}
    PROVE  Spec => Promise!BarrierSpec
BY SerialBarrier, Transactions, PTL
===============================================================================
