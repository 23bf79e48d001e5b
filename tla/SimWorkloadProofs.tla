-------------------------- MODULE SimWorkloadProofs --------------------------
(***************************************************************************)
(* Proofs about SimWorkload, for any ranks, stages, groups and programs.   *)
(***************************************************************************)
EXTENDS SimWorkload, FiniteSetTheorems, SequenceTheorems, TLAPS

-----------------------------------------------------------------------------
(* The model's operators *)

Requests == [stage : Stages, dim : Digits, dst : Stages]

\* The stages hold equally many ranks, so the last rank is of the last stage.
LEMMA StageType == \A r \in Ranks : StageOf(r) \in Stages
<1> SUFFICES ASSUME NEW r \in Ranks PROVE StageOf(r) \in Stages
  OBVIOUS
<1> DEFINE k == NumRanks \div NumStages
           d == r \div k
<1>1. NumRanks \in Nat /\ NumStages \in Nat /\ NumRanks > 0 /\ NumStages > 0 /\ r \in Nat /\ r < NumRanks
  BY WorkloadAssumption DEF Ranks
<1>2. k \in Nat /\ NumRanks = NumStages * k
  BY <1>1, WorkloadAssumption
<1>3. k > 0
  BY <1>1, <1>2
<1> HIDE DEF k
<1>4. d \in Nat /\ k * d <= r
  BY <1>1, <1>2, <1>3
<1> HIDE DEF d
<1>5. k * d < k * NumStages
  BY <1>1, <1>2, <1>3, <1>4
<1>6. d < NumStages
  BY <1>1, <1>2, <1>3, <1>4, <1>5
<1>7. QED
  BY <1>1, <1>4, <1>6 DEF StageOf, Stages, k, d

LEMMA RequestType ==
    ASSUME NEW r \in Ranks, NEW n \in Nodes(r), IsComm(r, n), Node(r, n).gated
    PROVE  Request(r, n) \in Requests
<1>1. /\ Node(r, n).dim \in Digits /\ StageOf(r) \in Stages
      /\ Node(r, n).dim = 0 => Node(r, n).to \in Ranks
  BY WorkloadAssumption, StageType DEF WellFormed, IsComm
<1>2. QED
  BY <1>1, StageType DEF Request, Requests

LEMMA AppliedType ==
    ASSUME NEW state \in Topologies, NEW B \in SUBSET Requests
    PROVE  Applied(B, state) \in Topologies
<1>1. ASSUME NEW s \in Stages
      PROVE  (IF \E q \in B : s \in Touches(q)
              THEN (CHOOSE q \in B : s \in Touches(q)).dim ELSE state[s]) \in Digits
  <2>1. CASE \E q \in B : s \in Touches(q)
    <3> DEFINE q == CHOOSE q \in B : s \in Touches(q)
    <3>1. q \in Requests
      BY <2>1
    <3>2. QED
      BY <2>1, <3>1 DEF Requests
  <2>2. CASE ~\E q \in B : s \in Touches(q)
    BY <2>2 DEF Topologies
  <2>3. QED
    BY <2>1, <2>2
<1>2. QED
  BY <1>1 DEF Applied, Topologies

-----------------------------------------------------------------------------
(* The calls under way *)

Frame == [rank : Ranks, fresh : BOOLEAN, todo : SUBSET Nat]

LEMMA TopFacts ==
    ASSUME stack \in Seq(Frame), stack # <<>>
    PROVE  /\ Len(stack) \in Nat /\ Len(stack) > 0 /\ Top \in Frame
           /\ Below \in Seq(Frame) /\ Len(Below) = Len(stack) - 1
           /\ \A i \in 1..Len(stack) - 1 : Below[i] = stack[i]
<1>1. Len(stack) \in Nat /\ Len(stack) > 0 /\ \A i \in 1..Len(stack) : stack[i] \in Frame
  OBVIOUS
<1>2. /\ Below \in Seq(Frame) /\ Len(Below) = Len(stack) - 1
      /\ \A i \in 1..Len(stack) - 1 : Below[i] = stack[i]
  <2> DEFINE k == Len(stack) - 1
  <2>1. k \in Int /\ k >= 0 /\ 1 \in Int /\ \A i \in 1..k : stack[i] \in Frame
    BY <1>1
  <2> HIDE DEF k
  <2>2. /\ SubSeq(stack, 1, k) \in Seq(Frame)
        /\ Len(SubSeq(stack, 1, k)) = IF 1 <= k THEN k - 1 + 1 ELSE 0
        /\ \A i \in 1..k - 1 + 1 : SubSeq(stack, 1, k)[i] = stack[1 + i - 1]
    BY <2>1, SubSeqProperties
  <2>3. Len(SubSeq(stack, 1, k)) = k /\ \A i \in 1..k : SubSeq(stack, 1, k)[i] = stack[i]
    <3>1. k - 1 + 1 = k /\ \A i \in 1..k : 1 + i - 1 = i
      BY <2>1
    <3>2. QED
      BY <2>1, <2>2, <3>1
  <2>4. QED
    BY <2>2, <2>3 DEF Below, k
<1>3. QED
  BY <1>1, <1>2 DEF Top

LEMMA ReplaceTop ==
    ASSUME stack \in Seq(Frame), stack # <<>>, NEW f \in Frame
    PROVE  LET s == Append(Below, f) IN
           /\ s \in Seq(Frame) /\ Len(s) = Len(stack) /\ s[Len(stack)] = f
           /\ \A i \in 1..Len(stack) - 1 : s[i] = stack[i]
<1> DEFINE b == Below
<1>1. b \in Seq(Frame) /\ Len(b) = Len(stack) - 1 /\ Len(stack) \in Nat /\ Len(stack) > 0
      /\ \A i \in 1..Len(stack) - 1 : b[i] = stack[i]
  BY TopFacts
<1> HIDE DEF b
<1>2. /\ Append(b, f) \in Seq(Frame) /\ Len(Append(b, f)) = Len(b) + 1 /\ Append(b, f)[Len(b) + 1] = f
      /\ \A i \in 1..Len(b) : Append(b, f)[i] = b[i]
  BY <1>1
<1>3. QED
  BY <1>1, <1>2 DEF b

LEMMA AfterFacts ==
    ASSUME stack \in Seq(Frame), stack # <<>>, NEW n
    PROVE  /\ After(n) \in Seq(Frame) /\ Len(After(n)) = Len(stack) /\ Len(stack) \in Nat
           /\ Len(stack) > 0
           /\ After(n)[Len(stack)] = [Top EXCEPT !.todo = @ \ {n}]
           /\ \A i \in 1..Len(stack) - 1 : After(n)[i] = stack[i]
<1>1. [Top EXCEPT !.todo = @ \ {n}] \in Frame
  BY TopFacts DEF Frame
<1>2. QED
  BY <1>1, TopFacts, ReplaceTop DEF After

\* The rank that opens a round puts one call for each peer on top.
LEMMA PushFacts ==
    ASSUME NEW s \in Seq(Frame), NEW P \in SUBSET Ranks, NEW p \in Orders(P)
    PROVE  LET t == s \o [i \in DOMAIN p |-> Call(p[i])] IN
           /\ t \in Seq(Frame) /\ Len(s) \in Nat /\ Len(t) \in Nat /\ Len(t) >= Len(s)
           /\ \A i \in 1..Len(s) : t[i] = s[i]
           /\ \A i \in Len(s) + 1..Len(t) : \E r \in P : t[i] = Call(r)
<1> DEFINE k == Cardinality(P)
           c == [i \in DOMAIN p |-> Call(p[i])]
<1>1. IsFiniteSet(Ranks)
  <2>1. 0 \in Int /\ NumRanks - 1 \in Int
    BY WorkloadAssumption
  <2>2. QED
    BY <2>1, FS_Interval DEF Ranks
<1>2. k \in Nat
  BY <1>1, FS_Subset, FS_CardinalityType
<1>3. DOMAIN p = 1..k /\ \A i \in 1..k : p[i] \in P
  BY DEF Orders
<1>4. \A r \in Ranks : Call(r) \in Frame
  BY DEF Call, Frame
<1> HIDE DEF k
<1>5. c \in Seq(Frame) /\ Len(c) = k /\ \A i \in 1..k : c[i] = Call(p[i])
  BY <1>2, <1>3, <1>4
<1> HIDE DEF c
<1>6. /\ s \o c \in Seq(Frame) /\ Len(s \o c) = Len(s) + k /\ Len(s) \in Nat
      /\ \A i \in 1..Len(s) + k : (s \o c)[i] = IF i <= Len(s) THEN s[i] ELSE c[i - Len(s)]
  BY <1>2, <1>5
<1>7. ASSUME NEW i \in Len(s) + 1..Len(s) + k PROVE \E r \in P : (s \o c)[i] = Call(r)
  <2>1. i - Len(s) \in 1..k /\ ~(i <= Len(s)) /\ i \in 1..Len(s) + k
    BY <1>2, <1>6, <1>7
  <2>2. QED
    BY <1>3, <1>5, <1>6, <2>1
<1>8. \A i \in 1..Len(s) : (s \o c)[i] = s[i]
  BY <1>2, <1>6
<1>9. /\ s \o c \in Seq(Frame) /\ Len(s) \in Nat /\ Len(s \o c) \in Nat /\ Len(s \o c) >= Len(s)
      /\ \A i \in 1..Len(s) : (s \o c)[i] = s[i]
      /\ \A i \in Len(s) + 1..Len(s \o c) : \E r \in P : (s \o c)[i] = Call(r)
  BY <1>2, <1>6, <1>7, <1>8
<1>10. QED
  BY <1>9, Zenon DEF c

LEMMA AllRanksFacts ==
    /\ AllRanks \in Seq(Frame) /\ AllRanks \o AllRanks \in Seq(Frame)
    /\ \A i \in DOMAIN AllRanks : AllRanks[i].fresh /\ AllRanks[i].todo = {}
    /\ \A i \in DOMAIN (AllRanks \o AllRanks) :
          (AllRanks \o AllRanks)[i].fresh /\ (AllRanks \o AllRanks)[i].todo = {}
<1> DEFINE a == AllRanks
<1>1. NumRanks \in Nat /\ \A i \in 1..NumRanks : NumRanks - i \in Ranks
  BY WorkloadAssumption DEF Ranks
<1>2. a \in Seq(Frame) /\ Len(a) = NumRanks
      /\ \A i \in 1..NumRanks : a[i].fresh = TRUE /\ a[i].todo = {}
  BY <1>1 DEF AllRanks, Call, Frame
<1> HIDE DEF a
<1>3. /\ a \o a \in Seq(Frame) /\ Len(a \o a) = NumRanks + NumRanks
      /\ \A i \in 1..NumRanks + NumRanks :
            (a \o a)[i] = IF i <= NumRanks THEN a[i] ELSE a[i - NumRanks]
  BY <1>1, <1>2
<1>4. \A i \in 1..NumRanks + NumRanks : (a \o a)[i].fresh = TRUE /\ (a \o a)[i].todo = {}
  <2> SUFFICES ASSUME NEW i \in 1..NumRanks + NumRanks
               PROVE  (a \o a)[i].fresh = TRUE /\ (a \o a)[i].todo = {}
    OBVIOUS
  <2>1. CASE i <= NumRanks
    BY <1>1, <1>2, <1>3, <2>1
  <2>2. CASE ~(i <= NumRanks)
    <3>1. i - NumRanks \in 1..NumRanks
      BY <1>1, <2>2
    <3>2. QED
      BY <1>2, <1>3, <2>2, <3>1
  <2>3. QED
    BY <2>1, <2>2
<1>5. DOMAIN a = 1..NumRanks /\ DOMAIN (a \o a) = 1..NumRanks + NumRanks
  BY <1>1, <1>2, <1>3
<1>6. QED
  BY <1>2, <1>3, <1>4, <1>5 DEF a

-----------------------------------------------------------------------------
(* The invariant *)

\* What runs was free, is not finished, and has the communication resource alone.
GraphInv ==
    \A r \in Ranks :
        /\ ongoing[r] \cap done[r] = {} /\ Closed(r, done[r])
        /\ \A n \in ongoing[r] : Node(r, n).parents \subseteq done[r]
        /\ \A m, n \in ongoing[r] : (IsComm(r, m) /\ IsComm(r, n)) => m = n

Open(g) == vote_rounds[g] = finish_rounds[g] + 1

\* The counts of one rank of a group: how many collectives it has finished and whether
\* it has voted for the next, which is then ready or under way in the open round.
RankRounds(g, r) ==
    /\ votes[g][r] \in {finishes[g][r], finishes[g][r] + 1}
    /\ finishes[g][r] \in {finish_rounds[g], finish_rounds[g] + 1}
    /\ finishes[g][r] = finish_rounds[g] + 1 => Open(g)
    /\ votes[g][r] = finishes[g][r] + 1 => \E n \in OfGroup(g, r) : Ready(r, done[r], n)
    /\ \A n \in OfGroup(g, r) : n \in done[r] <=> Node(r, n).number <= finishes[g][r]
    /\ \A n \in OfGroup(g, r) \cap ongoing[r] :
          finishes[g][r] = finish_rounds[g] /\ Open(g) /\ votes[g][r] = finishes[g][r] + 1

RoundInv ==
    \A g \in Groups :
        /\ vote_rounds[g] = finish_rounds[g] \/ Open(g)
        /\ \A r \in Members[g] : RankRounds(g, r)

\* Who runs a loop has what it has still to look at free; a rank whose loop is
\* interrupted has opened a round, and its loop is not entered again.
FrameInv ==
    /\ \A i \in 1..Len(stack) :
        /\ stack[i].fresh => stack[i].todo = {}
        /\ ~stack[i].fresh => stack[i].todo \subseteq Free(stack[i].rank)
        /\ (~stack[i].fresh /\ i < Len(stack)) =>
              \E n \in ongoing[stack[i].rank] : Voting(stack[i].rank, n)
    /\ \A i, j \in 1..Len(stack) : (i < j /\ ~stack[i].fresh) => stack[i].rank # stack[j].rank

OpenGroups == {g \in Groups : vote_rounds[g] # finish_rounds[g]}
Senders == {r \in Ranks : \E n \in ongoing[r] : Node(r, n).kind = "send"}

InflightInv == inflight = Cardinality(OpenGroups) + Cardinality(Senders)

\* The current topology serves the open round of every group, for the ranks that have not
\* yet joined it too, and every send under way.
ServedInv ==
    /\ \A g \in Groups : Open(g) =>
          \A r \in Members[g] : \A n \in OfGroup(g, r) :
             Node(r, n).number = finish_rounds[g] + 1 => Serves(current, Request(r, n))
    /\ \A r \in Ranks : \A n \in ongoing[r] :
          Node(r, n).kind = "send" => Serves(current, Request(r, n))

WorkInv ==
    /\ TypeOK /\ GraphInv /\ RoundInv
    /\ InflightInv /\ StageStateCoherent /\ ServedInv

-----------------------------------------------------------------------------
(* The dependency graph *)

LEMMA NodeFacts ==
    ASSUME NEW r \in Ranks, NEW n \in Nodes(r)
    PROVE  /\ n \in Nat /\ n \notin Node(r, n).parents
           /\ Node(r, n).kind \in {"coll", "send", "recv", "comp"}
           /\ Voting(r, n) => /\ IsComm(r, n) /\ Node(r, n).grp \in Groups
                              /\ r \in Members[Node(r, n).grp]
                              /\ n \in OfGroup(Node(r, n).grp, r) /\ Node(r, n).number \in Nat
           /\ Node(r, n).kind = "send" => IsComm(r, n) /\ Node(r, n).gated
<1>1. WellFormed(r, n) /\ n \in Nat
  BY WorkloadAssumption
<1>2. QED
  BY <1>1 DEF WellFormed, Voting, IsComm, OfGroup

LEMMA AvailableComm ==
    ASSUME NEW r, NEW n, Available(r, n), IsComm(r, n)
    PROVE  \A k \in ongoing[r] : ~IsComm(r, k)
BY DEF Available, IsComm

LEMMA GraphTake ==
    ASSUME TypeOK, GraphInv, NEW r \in Ranks, NEW n \in Free(r), Available(r, n), Take(r, n)
    PROVE  /\ GraphInv' /\ done' = done
           /\ \A s \in Ranks : ongoing'[s] = IF s = r THEN ongoing[r] \cup {n} ELSE ongoing[s]
<1>1. done' = done
      /\ \A s \in Ranks : ongoing'[s] = IF s = r THEN ongoing[r] \cup {n} ELSE ongoing[s]
  BY DEF Take, TypeOK
<1>2. n \in Nodes(r) /\ n \notin ongoing[r] /\ n \notin done[r] /\ Node(r, n).parents \subseteq done[r]
  BY DEF Free
<1>3. IsComm(r, n) => \A k \in ongoing[r] : ~IsComm(r, k)
  BY AvailableComm
<1>4. ASSUME NEW s \in Ranks
      PROVE  /\ ongoing'[s] \cap done'[s] = {} /\ Closed(s, done'[s])
             /\ \A k \in ongoing'[s] : Node(s, k).parents \subseteq done'[s]
             /\ \A k, l \in ongoing'[s] : (IsComm(s, k) /\ IsComm(s, l)) => k = l
  <2>1. CASE s # r
    BY <1>1, <2>1 DEF GraphInv
  <2>2. CASE s = r
    BY <1>1, <1>2, <1>3, <2>2 DEF GraphInv
  <2>3. QED
    BY <2>1, <2>2
<1>5. QED
  BY <1>1, <1>4 DEF GraphInv

LEMMA GraphFinish ==
    ASSUME TypeOK, GraphInv, NEW r \in Ranks, NEW n \in ongoing[r], Finish(r, n)
    PROVE  /\ GraphInv' /\ n \in Nodes(r) /\ n \notin done[r] /\ Ready(r, done[r], n)
           /\ \A s \in Ranks : /\ ongoing'[s] = IF s = r THEN ongoing[r] \ {n} ELSE ongoing[s]
                               /\ done'[s] = IF s = r THEN done[r] \cup {n} ELSE done[s]
<1>1. \A s \in Ranks : /\ ongoing'[s] = IF s = r THEN ongoing[r] \ {n} ELSE ongoing[s]
                       /\ done'[s] = IF s = r THEN done[r] \cup {n} ELSE done[s]
  BY DEF Finish, TypeOK
<1>2. n \in Nodes(r) /\ n \notin done[r] /\ Node(r, n).parents \subseteq done[r]
  BY DEF TypeOK, GraphInv
<1>3. Closed(r, done[r] \cup {n})
  BY <1>2 DEF GraphInv, Closed
<1>4. ASSUME NEW s \in Ranks
      PROVE  /\ ongoing'[s] \cap done'[s] = {} /\ Closed(s, done'[s])
             /\ \A k \in ongoing'[s] : Node(s, k).parents \subseteq done'[s]
             /\ \A k, l \in ongoing'[s] : (IsComm(s, k) /\ IsComm(s, l)) => k = l
  <2>1. CASE s # r
    BY <1>1, <2>1 DEF GraphInv
  <2>2. CASE s = r
    BY <1>1, <1>2, <1>3, <2>2 DEF GraphInv
  <2>3. QED
    BY <2>1, <2>2
<1>5. QED
  BY <1>1, <1>2, <1>4 DEF GraphInv, Ready

-----------------------------------------------------------------------------
(* Votes and rounds *)

\* A collective that a rank has not finished and could issue is its next in the group.
LEMMA NextNumber ==
    ASSUME Numbered, TypeOK, GraphInv, NEW g \in Groups, NEW r \in Members[g], RankRounds(g, r),
           NEW n \in OfGroup(g, r), Ready(r, done[r], n)
    PROVE  Node(r, n).number = finishes[g][r] + 1
<1>1. r \in Ranks /\ n \in Nodes(r) /\ n \notin done[r] /\ Node(r, n).number \in Nat /\ finishes[g][r] \in Nat
  BY WorkloadAssumption DEF OfGroup, Ready, TypeOK, WellFormed, Voting
<1>2. Node(r, n).number > finishes[g][r] /\ Node(r, n).number > 0
  BY <1>1 DEF RankRounds, Numbered
<1>3. CASE Node(r, n).number > 1
  <2>1. Closed(r, done[r]) /\ done[r] \in SUBSET Nodes(r)
    BY <1>1 DEF GraphInv, Closed
  <2>2. PICK m \in OfGroup(g, r) \cap done[r] : Node(r, m).number = Node(r, n).number - 1
    BY <1>1, <1>3, <2>1 DEF Numbered
  <2>3. Node(r, m).number <= finishes[g][r]
    BY <2>2 DEF RankRounds
  <2>4. QED
    BY <1>1, <1>2, <2>2, <2>3
<1>4. QED
  BY <1>1, <1>2, <1>3

LEMMA MemberFacts ==
    ASSUME TypeOK, NEW g \in Groups, NEW r \in Members[g]
    PROVE  /\ r \in Ranks /\ votes[g][r] \in Nat /\ finishes[g][r] \in Nat
           /\ vote_rounds[g] \in Nat /\ finish_rounds[g] \in Nat
BY WorkloadAssumption DEF TypeOK

\* A rank that finishes, takes or votes for something else keeps its place in the group.
LEMMA RankFrame ==
    ASSUME NEW g \in Groups, NEW r \in Members[g], RankRounds(g, r),
           votes'[g][r] = votes[g][r], finishes'[g][r] = finishes[g][r],
           vote_rounds'[g] = vote_rounds[g], finish_rounds'[g] = finish_rounds[g],
           \A n \in OfGroup(g, r) : n \in ongoing'[r] => n \in ongoing[r],
           \A n \in OfGroup(g, r) : n \in done'[r] <=> n \in done[r],
           done[r] \subseteq done'[r]
    PROVE  RankRounds(g, r)'
<1>1. \A n \in OfGroup(g, r) : Ready(r, done[r], n) => Ready(r, done'[r], n)
  BY DEF Ready
<1>2. QED
  BY <1>1 DEF RankRounds, Open

LEMMA VotedFacts ==
    ASSUME TypeOK, RoundInv, NEW g \in Groups, NEW r \in Members[g], votes' = Voted(g, r)
    PROVE  \A h \in Groups : \A s \in Members[h] :
              votes'[h][s] = IF h = g /\ s = r THEN finishes[g][r] + 1 ELSE votes[h][s]
<1>1. DOMAIN votes = Groups /\ \A h \in Groups : votes[h] \in [Members[h] -> Nat]
  BY DEF TypeOK
<1>2. /\ votes[g][r] \in {finishes[g][r], finishes[g][r] + 1}
      /\ finishes[g][r] \in Nat /\ votes[g][r] \in Nat
  BY MemberFacts DEF RoundInv, RankRounds
<1>3. (IF votes[g][r] > finishes[g][r] THEN votes[g][r] ELSE votes[g][r] + 1) = finishes[g][r] + 1
  BY <1>2
<1>4. votes' = [votes EXCEPT ![g] = [votes[g] EXCEPT ![r] = finishes[g][r] + 1]]
  BY <1>3 DEF Voted
<1>5. QED
  BY <1>1, <1>4

LEMMA RoundColl ==
    ASSUME TypeOK, GraphInv, RoundInv, NEW r \in Ranks, NEW n \in Free(r), Voting(r, n),
           NEW g, g = Node(r, n).grp,
           votes' = Voted(g, r), UNCHANGED <<finishes, finish_rounds, done>>,
           \/ UNCHANGED <<ongoing, vote_rounds>>
           \/ /\ Take(r, n) /\ CheckVote(g, r, votes')
              /\ vote_rounds[g] # finish_rounds[g] /\ UNCHANGED vote_rounds
           \/ /\ Take(r, n) /\ CheckVote(g, r, votes') /\ vote_rounds[g] = finish_rounds[g]
              /\ vote_rounds' = [vote_rounds EXCEPT ![g] = @ + 1]
    PROVE  RoundInv'
<1>1. /\ g \in Groups /\ r \in Members[g] /\ n \in OfGroup(g, r) /\ Ready(r, done[r], n)
      /\ n \notin ongoing[r]
  BY NodeFacts DEF Free, Ready
<1>2. \A h \in Groups : \A s \in Members[h] :
         votes'[h][s] = IF h = g /\ s = r THEN finishes[g][r] + 1 ELSE votes[h][s]
  BY <1>1, VotedFacts
<1>3. \A s \in Ranks : \/ ongoing'[s] = ongoing[s]
                       \/ s = r /\ ongoing'[s] = ongoing[s] \cup {n}
  BY DEF Take, TypeOK
<1>4. \A h \in Groups \ {g} : vote_rounds'[h] = vote_rounds[h] /\ n \notin OfGroup(h, r)
  BY DEF TypeOK, OfGroup
<1>5. /\ finish_rounds[g] \in Nat /\ vote_rounds[g] \in Nat
      /\ vote_rounds'[g] = vote_rounds[g] \/ Open(g)'
      /\ n \in ongoing'[r] => finishes[g][r] = finish_rounds[g] /\ Open(g)'
  <2>1. finishes[g][r] \in Nat /\ finish_rounds[g] \in Nat /\ vote_rounds[g] \in Nat
        /\ finishes[g][r] \in {finish_rounds[g], finish_rounds[g] + 1}
        /\ (vote_rounds[g] = finish_rounds[g] \/ Open(g))
    BY <1>1, MemberFacts DEF RoundInv, RankRounds
  <2>2. CheckVote(g, r, votes') => finishes[g][r] = finish_rounds[g]
    BY <1>1, <1>2, <2>1 DEF CheckVote
  <2>3. CASE UNCHANGED <<ongoing, vote_rounds>>
    BY <1>1, <2>1, <2>3
  <2>4. CASE /\ Take(r, n) /\ CheckVote(g, r, votes')
             /\ vote_rounds[g] # finish_rounds[g] /\ UNCHANGED vote_rounds
    BY <2>1, <2>2, <2>4 DEF Open
  <2>5. CASE /\ Take(r, n) /\ CheckVote(g, r, votes') /\ vote_rounds[g] = finish_rounds[g]
             /\ vote_rounds' = [vote_rounds EXCEPT ![g] = @ + 1]
    <3>1. vote_rounds'[g] = vote_rounds[g] + 1
      BY <1>1, <2>5 DEF TypeOK
    <3>2. QED
      BY <2>1, <2>2, <2>5, <3>1 DEF Open
  <2>6. QED
    BY <2>3, <2>4, <2>5
<1>6. \A h \in Groups : vote_rounds'[h] = finish_rounds'[h] \/ Open(h)'
  BY <1>4, <1>5 DEF RoundInv, Open
<1>7. ASSUME NEW h \in Groups, NEW s \in Members[h] PROVE RankRounds(h, s)'
  <2>1. RankRounds(h, s) /\ s \in Ranks
    BY <1>7, WorkloadAssumption DEF RoundInv
  <2>2. CASE h # g
    <3>1. \A k \in OfGroup(h, s) : k \in ongoing'[s] => k \in ongoing[s]
      BY <1>3, <1>4, <2>1, <2>2
    <3>2. QED
      BY <1>2, <1>4, <2>1, <2>2, <3>1, RankFrame
  <2>3. CASE h = g /\ s # r
    <3>1. ongoing'[s] = ongoing[s] /\ votes'[h][s] = votes[h][s]
      BY <1>2, <1>3, <2>1, <2>3
    <3>2. Open(g) => Open(g)'
      BY <1>5 DEF Open
    <3>3. QED
      BY <2>1, <2>3, <3>1, <3>2 DEF RankRounds
  <2>4. CASE h = g /\ s = r
    <3>1. votes'[g][r] = finishes[g][r] + 1
      BY <1>1, <1>2
    <3>2. \A k \in ongoing'[r] : k \in ongoing[r] \/ (k = n /\ n \in ongoing'[r])
      BY <1>3
    <3>3. Open(g) => Open(g)'
      BY <1>5 DEF Open
    <3>4. \A k \in OfGroup(g, r) \cap ongoing'[r] :
             finishes[g][r] = finish_rounds[g] /\ Open(g)'
      BY <1>5, <2>1, <2>4, <3>2, <3>3 DEF RankRounds
    <3>5. QED
      BY <1>1, <2>1, <2>4, <3>1, <3>3, <3>4 DEF RankRounds
  <2>5. QED
    BY <2>2, <2>3, <2>4
<1>8. QED
  BY <1>6, <1>7 DEF RoundInv

\* A node that does not vote leaves the rounds alone.
LEMMA RoundOther ==
    ASSUME TypeOK, RoundInv, NEW r \in Ranks, NEW n, ~Voting(r, n), UNCHANGED rounds,
           \A s \in Ranks : /\ ongoing'[s] \subseteq ongoing[s] \cup (IF s = r THEN {n} ELSE {})
                            /\ done[s] \subseteq done'[s]
                            /\ done'[s] \subseteq done[s] \cup (IF s = r THEN {n} ELSE {})
    PROVE  RoundInv'
<1>1. ASSUME NEW g \in Groups, NEW s \in Members[g] PROVE RankRounds(g, s)'
  <2>1. s \in Ranks /\ RankRounds(g, s) /\ (s = r => n \notin OfGroup(g, s))
    BY <1>1, WorkloadAssumption DEF RoundInv, OfGroup
  <2>2. /\ \A k \in OfGroup(g, s) : k \in ongoing'[s] => k \in ongoing[s]
        /\ \A k \in OfGroup(g, s) : k \in done'[s] <=> k \in done[s]
        /\ done[s] \subseteq done'[s]
    BY <2>1
  <2>3. QED
    BY <2>1, <2>2, RankFrame DEF rounds
<1>2. QED
  BY <1>1 DEF RoundInv, rounds, Open

LEMMA RoundFinished ==
    ASSUME Numbered, TypeOK, GraphInv, RoundInv, NEW r \in Ranks, NEW n \in ongoing[r],
           Voting(r, n), NEW g, g = Node(r, n).grp, Finish(r, n),
           UNCHANGED <<votes, vote_rounds>>,
           finishes' = [finishes EXCEPT ![g][r] = @ + 1],
           finish_rounds' =
              [finish_rounds EXCEPT ![g] = IF CheckFinish(g, finishes') THEN @ + 1 ELSE @]
    PROVE  /\ RoundInv' /\ vote_rounds[g] = finish_rounds[g] + 1
           /\ finish_rounds'[g] = finish_rounds[g] + (IF CheckFinish(g, finishes') THEN 1 ELSE 0)
           /\ \A h \in Groups \ {g} : finish_rounds'[h] = finish_rounds[h]
<1>1. n \in Nodes(r) /\ n \notin done[r] /\ Ready(r, done[r], n)
  BY GraphFinish
<1>2. g \in Groups /\ r \in Members[g] /\ n \in OfGroup(g, r) /\ IsComm(r, n)
  BY <1>1, NodeFacts
<1>3. RankRounds(g, r)
  BY <1>2 DEF RoundInv
<1>4. /\ finishes[g][r] = finish_rounds[g] /\ Open(g) /\ votes[g][r] = finishes[g][r] + 1
      /\ Node(r, n).number = finishes[g][r] + 1
  BY <1>1, <1>2, <1>3, NextNumber DEF RankRounds
<1>5. finishes[g][r] \in Nat /\ finish_rounds[g] \in Nat
  BY <1>2, MemberFacts
<1>6. \A h \in Groups : \A s \in Members[h] :
         finishes'[h][s] = IF h = g /\ s = r THEN finishes[g][r] + 1 ELSE finishes[h][s]
  BY <1>2 DEF TypeOK
<1>7. \A s \in Ranks : /\ ongoing'[s] = IF s = r THEN ongoing[r] \ {n} ELSE ongoing[s]
                       /\ done'[s] = IF s = r THEN done[r] \cup {n} ELSE done[s]
  BY GraphFinish
<1>8. /\ finish_rounds'[g] = finish_rounds[g] + (IF CheckFinish(g, finishes') THEN 1 ELSE 0)
      /\ \A h \in Groups \ {g} : finish_rounds'[h] = finish_rounds[h]
  <2>1. finish_rounds \in [Groups -> Nat]
    BY DEF TypeOK
  <2>2. CASE CheckFinish(g, finishes')
    BY <1>2, <1>5, <2>1, <2>2
  <2>3. CASE ~CheckFinish(g, finishes')
    BY <1>2, <1>5, <2>1, <2>3
  <2>4. QED
    BY <2>2, <2>3
<1>9. \A h \in Groups : vote_rounds'[h] = finish_rounds'[h] \/ Open(h)'
  BY <1>2, <1>4, <1>5, <1>8 DEF RoundInv, Open
<1>10. ASSUME NEW h \in Groups \ {g}, NEW s \in Members[h] PROVE RankRounds(h, s)'
  <2>1. s \in Ranks /\ RankRounds(h, s) /\ (s = r => n \notin OfGroup(h, s))
    BY <1>10, WorkloadAssumption DEF RoundInv, OfGroup
  <2>2. /\ \A k \in OfGroup(h, s) : k \in ongoing'[s] => k \in ongoing[s]
        /\ \A k \in OfGroup(h, s) : k \in done'[s] <=> k \in done[s]
        /\ done[s] \subseteq done'[s]
    BY <1>7, <2>1
  <2>3. QED
    BY <1>6, <1>8, <2>1, <2>2, RankFrame
<1>11. OfGroup(g, r) \cap ongoing'[r] = {}
  <2> SUFFICES ASSUME NEW k \in OfGroup(g, r), k \in ongoing'[r] PROVE FALSE
    OBVIOUS
  <2>1. k \in ongoing[r] /\ k # n /\ k \in Nodes(r) /\ Voting(r, k)
    BY <1>7 DEF OfGroup
  <2>2. IsComm(r, k)
    BY <2>1, NodeFacts
  <2>3. QED
    BY <1>2, <2>1, <2>2 DEF GraphInv
<1>12. \A k \in OfGroup(g, r) : k \in done'[r] <=> Node(r, k).number <= finishes[g][r] + 1
  <2> SUFFICES ASSUME NEW k \in OfGroup(g, r)
               PROVE  k \in done'[r] <=> Node(r, k).number <= finishes[g][r] + 1
    OBVIOUS
  <2>1. Node(r, k).number \in Nat
    BY NodeFacts DEF OfGroup
  <2>2. k \in done[r] <=> Node(r, k).number <= finishes[g][r]
    BY <1>3 DEF RankRounds
  <2>3. k = n <=> Node(r, k).number = finishes[g][r] + 1
    BY <1>2, <1>4 DEF Numbered
  <2>4. k \in done'[r] <=> (k \in done[r] \/ k = n)
    BY <1>7
  <2>5. QED
    BY <1>5, <2>1, <2>2, <2>3, <2>4
<1>13. CASE ~CheckFinish(g, finishes')
  <2>1. finish_rounds'[g] = finish_rounds[g]
    BY <1>5, <1>8, <1>13
  <2>2. RankRounds(g, r)'
    BY <1>2, <1>4, <1>5, <1>6, <1>11, <1>12, <2>1 DEF RankRounds, Open
  <2>3. ASSUME NEW s \in Members[g], s # r PROVE RankRounds(g, s)'
    <3>1. s \in Ranks /\ RankRounds(g, s)
      BY <1>2, WorkloadAssumption DEF RoundInv
    <3>2. ongoing'[s] = ongoing[s] /\ done'[s] = done[s] /\ finishes'[g][s] = finishes[g][s]
      BY <1>2, <1>6, <1>7, <2>3, <3>1
    <3>3. QED
      BY <1>2, <2>1, <3>1, <3>2, RankFrame
  <2>4. QED
    BY <1>4, <1>8, <1>9, <1>10, <2>2, <2>3 DEF RoundInv, Open
<1>14. CASE CheckFinish(g, finishes')
  <2>1. finish_rounds'[g] = finish_rounds[g] + 1
    BY <1>5, <1>8, <1>14
  <2>2. RankRounds(g, r)'
    BY <1>2, <1>4, <1>5, <1>6, <1>11, <1>12, <2>1 DEF RankRounds, Open
  <2>3. ASSUME NEW s \in Members[g], s # r PROVE RankRounds(g, s)'
    <3>1. s \in Ranks /\ RankRounds(g, s) /\ finishes[g][s] \in Nat
      BY <1>2, MemberFacts DEF RoundInv
    <3>2. ongoing'[s] = ongoing[s] /\ done'[s] = done[s] /\ finishes'[g][s] = finishes[g][s]
      BY <1>2, <1>6, <1>7, <2>3, <3>1
    <3>3. finishes[g][s] > finish_rounds[g]
      BY <1>14, <3>2 DEF CheckFinish
    <3>4. finishes[g][s] = finish_rounds[g] + 1 /\ OfGroup(g, s) \cap ongoing[s] = {}
      BY <1>5, <3>1, <3>3 DEF RankRounds
    <3>5. QED
      BY <1>5, <2>1, <3>1, <3>2, <3>4 DEF RankRounds, Open
  <2>4. QED
    BY <1>4, <1>8, <1>9, <1>10, <2>2, <2>3 DEF RoundInv, Open
<1>15. QED
  BY <1>13, <1>14

-----------------------------------------------------------------------------
(* Topologies and what is in flight *)

\* Links are replaced only while nothing that asked for them is in flight.
SameLinks == circuits[current'] = circuits[current] \/ inflight = 0

\* The topology after the step serves request q.
ServesNext(q) == \E u \in Topologies : circuits'[u] = circuits'[current'] /\ Satisfied(q, u)

LEMMA SwitchFacts ==
    ASSUME TypeOK, NEW t \in Topologies, Grants(t), SimReconfig(t)
    PROVE  current' = t /\ changing' \in BOOLEAN /\ SameLinks
<1>1. current' = t /\ current \in Topologies
  BY DEF SimReconfig, TypeOK
<1>2. changing' \in BOOLEAN
  <2>1. CASE circuits[t] = circuits[current]
    BY <2>1 DEF SimReconfig
  <2>2. CASE circuits[t] # circuits[current]
    BY <2>2 DEF SimReconfig
  <2>3. QED
    BY <2>1, <2>2
<1>3. QED
  BY <1>1, <1>2 DEF Grants, SameLinks

\* pre_reconfig keeps the two copies of the topology together, and says yes only if the
\* topology it leaves serves the request.
LEMMA PreFacts ==
    ASSUME TypeOK, StageStateCoherent, NEW q \in Requests, NEW ok \in BOOLEAN,
           PreReconfig(q, ok)
    PROVE  /\ stage_state' \in Topologies /\ current' = stage_state'
           /\ pending' \subseteq Requests /\ ready' \in {"off", "armed", "open"}
           /\ changing' \in BOOLEAN
           /\ ok => Satisfied(q, current')
           /\ SameLinks
<1> DEFINE open == {p \in pending \cup {q} : ~Satisfied(p, stage_state)}
           left(s) == {p \in open : ~Satisfied(p, s)}
<1>1. stage_state \in Topologies /\ current = stage_state /\ open \subseteq Requests
      /\ ready \in {"off", "armed", "open"} /\ changing \in BOOLEAN
  BY DEF TypeOK, StageStateCoherent, Requests
<1>2. PICK B \in SUBSET open :
        LET next == Applied(B, stage_state) IN
        IF ~Satisfied(q, stage_state) /\ ready = "open" /\ Grants(next)
        THEN /\ ok = Satisfied(q, next)
             /\ stage_state' = next
             /\ pending' = left(next)
             /\ ready' = IF left(next) = {} THEN "off" ELSE "armed"
             /\ SimReconfig(next)
        ELSE /\ ok = Satisfied(q, stage_state)
             /\ pending' = open
             /\ ready' = CASE open = {} -> "off"
                           [] ~ok /\ ready = "off" -> "armed"
                           [] OTHER -> ready
             /\ UNCHANGED <<stage_state, current, changing>>
  BY DEF PreReconfig
<1> DEFINE next == Applied(B, stage_state)
<1>3. next \in Topologies
  BY <1>1, AppliedType
<1>4. CASE ~Satisfied(q, stage_state) /\ ready = "open" /\ Grants(next)
  <2>1. /\ ok = Satisfied(q, next) /\ stage_state' = next /\ pending' = left(next)
        /\ ready' = (IF left(next) = {} THEN "off" ELSE "armed") /\ SimReconfig(next)
    BY <1>2, <1>4
  <2> HIDE DEF next
  <2>2. current' = next /\ changing' \in BOOLEAN /\ SameLinks
    BY <1>3, <1>4, <2>1, SwitchFacts
  <2>3. QED
    BY <1>1, <1>3, <2>1, <2>2
<1>5. CASE ~(~Satisfied(q, stage_state) /\ ready = "open" /\ Grants(next))
  <2>1. /\ ok = Satisfied(q, stage_state) /\ pending' = open
        /\ ready' = CASE open = {} -> "off" [] ~ok /\ ready = "off" -> "armed" [] OTHER -> ready
        /\ UNCHANGED <<stage_state, current, changing>>
    BY <1>2, <1>5
  <2> HIDE DEF open
  <2>2. ready' \in {"off", "armed", "open"}
    <3>1. CASE open = {} /\ ~ok /\ ready = "off"
      BY <1>1, <2>1, <3>1
    <3>2. CASE ~(open = {} /\ ~ok /\ ready = "off")
      BY <1>1, <2>1, <3>2
    <3>3. QED
      BY <3>1, <3>2
  <2>3. SameLinks
    BY <2>1 DEF SameLinks
  <2>4. QED
    BY <1>1, <2>1, <2>2, <2>3
<1>6. QED
  BY <1>4, <1>5

LEMMA RanksFinite == IsFiniteSet(Ranks)
<1>1. 0 \in Int /\ NumRanks - 1 \in Int
  BY WorkloadAssumption
<1>2. QED
  BY <1>1, FS_Interval DEF Ranks

LEMMA Counted ==
    /\ IsFiniteSet(OpenGroups) /\ IsFiniteSet(Senders)
    /\ Cardinality(OpenGroups) \in Nat /\ Cardinality(Senders) \in Nat
<1>1. IsFiniteSet(OpenGroups) /\ IsFiniteSet(Senders)
  BY RanksFinite, WorkloadAssumption, FS_Subset DEF OpenGroups, Senders
<1>2. QED
  BY <1>1, FS_CardinalityType

LEMMA NoneOpen ==
    ASSUME InflightInv, inflight = 0
    PROVE  OpenGroups = {} /\ Senders = {}
<1>1. Cardinality(OpenGroups) = 0 /\ Cardinality(Senders) = 0
  BY Counted DEF InflightInv
<1>2. QED
  BY <1>1, Counted, FS_EmptySet

LEMMA ServedKeeps ==
    ASSUME TypeOK, InflightInv, ServedInv, UNCHANGED circuits, SameLinks,
           NEW G,
           \A g \in Groups \ G : Open(g)' => Open(g) /\ finish_rounds'[g] = finish_rounds[g],
           \A g \in Groups \cap G : \A r \in Members[g] : \A n \in OfGroup(g, r) :
              Node(r, n).number = finish_rounds'[g] + 1 => ServesNext(Request(r, n)),
           \A r \in Ranks : \A n \in ongoing'[r] : Node(r, n).kind = "send" =>
              n \in ongoing[r] \/ ServesNext(Request(r, n))
    PROVE  ServedInv'
<1>1. ASSUME circuits[current'] # circuits[current]
      PROVE  /\ \A g \in Groups : ~Open(g)
             /\ \A r \in Ranks : \A n \in ongoing[r] : Node(r, n).kind # "send"
  <2>1. OpenGroups = {} /\ Senders = {}
    BY <1>1, NoneOpen DEF SameLinks
  <2>2. \A g \in Groups : vote_rounds[g] = finish_rounds[g] /\ finish_rounds[g] \in Nat
    BY <2>1 DEF OpenGroups, TypeOK
  <2>3. QED
    BY <2>1, <2>2 DEF Open, Senders
<1>2. ASSUME NEW g \in Groups, Open(g)', NEW r \in Members[g], NEW n \in OfGroup(g, r),
             Node(r, n).number = finish_rounds'[g] + 1
      PROVE  ServesNext(Request(r, n))
  BY <1>1, <1>2 DEF ServedInv, Serves, ServesNext
<1>3. ASSUME NEW r \in Ranks, NEW n \in ongoing'[r], Node(r, n).kind = "send"
      PROVE  ServesNext(Request(r, n))
  BY <1>1, <1>3 DEF ServedInv, Serves, ServesNext
<1>4. QED
  BY <1>2, <1>3 DEF ServedInv, Serves, ServesNext

-----------------------------------------------------------------------------
(* Loops within loops *)

\* What a step of the loop may do to the graph: nothing, or its rank takes node n.
Takes(r, n) ==
    /\ done' = done
    /\ \A s \in Ranks : ongoing'[s] = ongoing[s] \/ (s = r /\ ongoing'[s] = ongoing[s] \cup {n})

\* Free after the step.
FreeNext(r) ==
    {k \in Nodes(r) \ (ongoing'[r] \cup done'[r]) : Node(r, k).parents \subseteq done'[r]}

\* FrameInv of the next state, with Free written out.
LEMMA FrameNext ==
    ASSUME \A i \in 1..Len(stack') :
              /\ stack'[i].fresh => stack'[i].todo = {}
              /\ ~stack'[i].fresh => stack'[i].todo \subseteq FreeNext(stack'[i].rank)
              /\ (~stack'[i].fresh /\ i < Len(stack')) =>
                    \E k \in ongoing'[stack'[i].rank] : Voting(stack'[i].rank, k),
           \A i, j \in 1..Len(stack') :
              (i < j /\ ~stack'[i].fresh) => stack'[i].rank # stack'[j].rank
    PROVE  FrameInv'
BY DEF FrameInv, Free, FreeNext

LEMMA FrameBelow ==
    ASSUME TypeOK, FrameInv, stack # <<>>, ~Top.fresh, NEW n \in Top.todo, Takes(Top.rank, n)
    PROVE  /\ Top.rank \in Ranks
           /\ \A i \in 1..Len(stack) - 1 : ~stack[i].fresh =>
                 /\ stack[i].rank \in Ranks /\ stack[i].rank # Top.rank
                 /\ stack[i].todo \subseteq FreeNext(stack[i].rank)
                 /\ \E k \in ongoing'[stack[i].rank] : Voting(stack[i].rank, k)
           /\ Top.todo \ {n} \subseteq FreeNext(Top.rank)
<1>1. stack \in Seq(Frame) /\ Len(stack) \in Nat /\ Len(stack) > 0 /\ Top \in Frame
  BY TopFacts DEF TypeOK, Frame
<1>2. \A i \in 1..Len(stack) : stack[i].rank \in Ranks
  <2>1. \A i \in 1..Len(stack) : stack[i] \in Frame
    BY <1>1
  <2>2. QED
    BY <2>1 DEF Frame
<1>3. Top = stack[Len(stack)] /\ Len(stack) \in 1..Len(stack)
  BY <1>1 DEF Top
<1>4. ASSUME NEW i \in 1..Len(stack) - 1, ~stack[i].fresh
      PROVE  /\ stack[i].rank \in Ranks /\ stack[i].rank # Top.rank
             /\ stack[i].todo \subseteq FreeNext(stack[i].rank)
             /\ \E k \in ongoing'[stack[i].rank] : Voting(stack[i].rank, k)
  <2>1. i \in 1..Len(stack) /\ i < Len(stack) /\ stack[i].rank \in Ranks
    BY <1>1, <1>2
  <2>2. stack[i].rank # Top.rank
    BY <1>3, <1>4, <2>1 DEF FrameInv
  <2>3. ongoing'[stack[i].rank] = ongoing[stack[i].rank] /\ done' = done
    BY <2>1, <2>2 DEF Takes
  <2>4. stack[i].todo \subseteq Free(stack[i].rank)
        /\ \E k \in ongoing[stack[i].rank] : Voting(stack[i].rank, k)
    BY <1>4, <2>1 DEF FrameInv
  <2>5. QED
    BY <2>1, <2>2, <2>3, <2>4 DEF Free, FreeNext
<1>5. Top.todo \subseteq Free(Top.rank) /\ Top.rank \in Ranks
  BY <1>1, <1>3 DEF FrameInv, Frame
<1>6. Top.todo \ {n} \subseteq FreeNext(Top.rank)
  BY <1>5 DEF Takes, Free, FreeNext
<1>7. QED
  BY <1>4, <1>5, <1>6

LEMMA FrameAfter ==
    ASSUME TypeOK, FrameInv, stack # <<>>, ~Top.fresh, NEW n \in Top.todo, Takes(Top.rank, n),
           stack' = After(n)
    PROVE  FrameInv' /\ stack' \in Seq(Frame)
<1>1. stack \in Seq(Frame) /\ Top \in Frame
  BY TopFacts DEF TypeOK, Frame
<1>2. /\ stack' \in Seq(Frame) /\ Len(stack') = Len(stack) /\ Len(stack) \in Nat /\ Len(stack) > 0
      /\ stack'[Len(stack)] = [Top EXCEPT !.todo = @ \ {n}]
      /\ \A i \in 1..Len(stack) - 1 : stack'[i] = stack[i]
  BY <1>1, AfterFacts
<1>3. stack'[Len(stack)].rank = Top.rank /\ stack'[Len(stack)].fresh = FALSE
      /\ stack'[Len(stack)].todo = Top.todo \ {n}
  <2>1. Top.fresh = FALSE
    BY <1>1 DEF Frame
  <2>2. QED
    BY <1>1, <1>2, <2>1 DEF Frame
<1>4. Top = stack[Len(stack)]
  BY DEF Top
<1>5. ASSUME NEW i \in 1..Len(stack')
      PROVE  /\ stack'[i].fresh => stack'[i].todo = {}
             /\ ~stack'[i].fresh => stack'[i].todo \subseteq FreeNext(stack'[i].rank)
             /\ (~stack'[i].fresh /\ i < Len(stack')) =>
                   \E k \in ongoing'[stack'[i].rank] : Voting(stack'[i].rank, k)
  <2>1. CASE i = Len(stack)
    <3>1. ~(i < Len(stack'))
      BY <1>2, <2>1
    <3>2. stack'[i].fresh = FALSE
      BY <1>3, <2>1, Zenon
    <3>3. stack'[i].todo \subseteq FreeNext(stack'[i].rank)
      BY <1>3, <2>1, FrameBelow
    <3>4. QED
      BY <3>1, <3>2, <3>3
  <2>2. CASE i # Len(stack)
    <3>1. i \in 1..Len(stack) - 1 /\ stack'[i] = stack[i] /\ i \in 1..Len(stack)
      BY <1>2, <1>5, <2>2
    <3>2. QED
      BY <3>1, FrameBelow DEF FrameInv
  <2>3. QED
    BY <2>1, <2>2
<1>6. ASSUME NEW i \in 1..Len(stack'), NEW j \in 1..Len(stack'), i < j, ~stack'[i].fresh
      PROVE  stack'[i].rank # stack'[j].rank
  <2>1. i \in 1..Len(stack) - 1 /\ stack'[i] = stack[i] /\ i \in 1..Len(stack) /\ j \in 1..Len(stack)
    BY <1>2, <1>6
  <2>2. stack'[j].rank = stack[j].rank
    <3>1. CASE j = Len(stack)
      BY <1>3, <1>4, <3>1
    <3>2. CASE j # Len(stack)
      <4>1. j \in 1..Len(stack) - 1
        BY <1>2, <2>1, <3>2
      <4>2. QED
        BY <1>2, <4>1
    <3>3. QED
      BY <3>1, <3>2
  <2>3. QED
    BY <1>6, <2>1, <2>2 DEF FrameInv
<1>7. QED
  BY <1>2, <1>5, <1>6, FrameNext

\* The loop of a rank that has opened a round is not entered again: the rank cannot have
\* voted in another group, since it has one collective to vote for at a time.
LEMMA NoReentry ==
    ASSUME OneVote, TypeOK, GraphInv, RoundInv, NEW g \in Groups, NEW r \in Members[g],
           NEW s \in Members[g], s # r, votes' = Voted(g, r), CheckVote(g, r, votes'),
           vote_rounds[g] = finish_rounds[g], NEW k \in ongoing[s], Voting(s, k)
    PROVE  FALSE
<1>1. s \in Ranks /\ RankRounds(g, s) /\ finishes[g][s] \in Nat /\ votes[g][s] \in Nat
      /\ finish_rounds[g] \in Nat
  BY MemberFacts DEF RoundInv
<1>2. votes'[g][s] = votes[g][s]
  BY VotedFacts
<1>3. votes[g][s] > finish_rounds[g]
  BY <1>2 DEF CheckVote
<1>4. ~Open(g)
  BY <1>1 DEF Open
<1>5. votes[g][s] = finishes[g][s] + 1
  BY <1>1, <1>3, <1>4 DEF RankRounds
<1>6. PICK n \in OfGroup(g, s) : Ready(s, done[s], n)
  BY <1>1, <1>5 DEF RankRounds
<1>7. k \in Nodes(s) /\ Ready(s, done[s], k) /\ n \in Nodes(s) /\ Voting(s, n)
  BY <1>1, <1>6 DEF TypeOK, GraphInv, Ready, OfGroup
<1>8. Closed(s, done[s]) /\ done[s] \in SUBSET Nodes(s)
  BY <1>1 DEF GraphInv, Closed
<1>9. k = n
  BY <1>1, <1>6, <1>7, <1>8 DEF OneVote
<1>10. QED
  BY <1>1, <1>4, <1>6, <1>9 DEF RankRounds

LEMMA FramePush ==
    ASSUME OneVote, TypeOK, GraphInv, RoundInv, FrameInv, stack # <<>>, ~Top.fresh,
           NEW n \in Top.todo, Takes(Top.rank, n), n \in ongoing'[Top.rank], Voting(Top.rank, n),
           NEW g \in Groups, Top.rank \in Members[g],
           votes' = Voted(g, Top.rank), CheckVote(g, Top.rank, votes'),
           vote_rounds[g] = finish_rounds[g],
           NEW p \in Orders(Peers(g, Top.rank)),
           stack' = After(n) \o [i \in DOMAIN p |-> Call(p[i])]
    PROVE  FrameInv' /\ stack' \in Seq(Frame)
<1> DEFINE r == Top.rank
           P == Peers(g, r)
<1>1. stack \in Seq(Frame) /\ Top \in Frame /\ r \in Ranks
  BY TopFacts DEF TypeOK, Frame
<1>2. P \in SUBSET Ranks /\ r \notin P /\ P \subseteq Members[g]
  BY WorkloadAssumption DEF Peers
<1>3. /\ After(n) \in Seq(Frame) /\ Len(After(n)) = Len(stack) /\ Len(stack) \in Nat /\ Len(stack) > 0
      /\ After(n)[Len(stack)] = [Top EXCEPT !.todo = @ \ {n}]
      /\ \A i \in 1..Len(stack) - 1 : After(n)[i] = stack[i]
  BY <1>1, AfterFacts
<1>4. /\ stack' \in Seq(Frame) /\ Len(stack') \in Nat /\ Len(stack') >= Len(stack)
      /\ \A i \in 1..Len(stack) : stack'[i] = After(n)[i]
      /\ \A i \in Len(stack) + 1..Len(stack') : \E s \in P : stack'[i] = Call(s)
  <2> DEFINE a == After(n)
  <2>1. p \in Orders(P) /\ a \in Seq(Frame) /\ stack' = a \o [i \in DOMAIN p |-> Call(p[i])]
        /\ Len(a) = Len(stack)
    BY <1>3
  <2> HIDE DEF a, P
  <2>2. LET t == a \o [i \in DOMAIN p |-> Call(p[i])] IN
        /\ t \in Seq(Frame) /\ Len(a) \in Nat /\ Len(t) \in Nat /\ Len(t) >= Len(a)
        /\ \A i \in 1..Len(a) : t[i] = a[i]
        /\ \A i \in Len(a) + 1..Len(t) : \E s \in P : t[i] = Call(s)
    BY <1>2, <2>1, PushFacts
  <2>3. /\ stack' \in Seq(Frame) /\ Len(stack') \in Nat /\ Len(stack') >= Len(stack)
        /\ \A i \in 1..Len(stack) : stack'[i] = a[i]
        /\ \A i \in Len(stack) + 1..Len(stack') : \E s \in P : stack'[i] = Call(s)
    BY <2>1, <2>2
  <2>4. QED
    BY <2>3 DEF a
<1>5. /\ stack'[Len(stack)].rank = r /\ stack'[Len(stack)].fresh = FALSE
      /\ stack'[Len(stack)].todo = Top.todo \ {n}
      /\ \A i \in 1..Len(stack) - 1 : stack'[i] = stack[i]
      /\ \A i \in Len(stack) + 1..Len(stack') :
            stack'[i].fresh = TRUE /\ stack'[i].todo = {} /\ stack'[i].rank \in P
  <2>1. Top.fresh = FALSE
    BY <1>1 DEF Frame
  <2>2. Len(stack) \in 1..Len(stack) /\ \A i \in 1..Len(stack) - 1 : i \in 1..Len(stack)
    BY <1>3
  <2>3. stack'[Len(stack)] = [Top EXCEPT !.todo = @ \ {n}]
    BY <1>3, <1>4, <2>2
  <2>4. \A i \in 1..Len(stack) - 1 : stack'[i] = stack[i]
    BY <1>3, <1>4, <2>2
  <2>5. \A i \in Len(stack) + 1..Len(stack') :
            stack'[i].fresh = TRUE /\ stack'[i].todo = {} /\ stack'[i].rank \in P
    <3> HIDE DEF P
    <3>1. \A s : Call(s).fresh = TRUE /\ Call(s).todo = {} /\ Call(s).rank = s
      BY DEF Call
    <3>2. QED
      BY <1>4, <3>1
  <2>6. QED
    BY <1>1, <2>1, <2>3, <2>4, <2>5 DEF Frame
<1>6. Top = stack[Len(stack)]
  BY DEF Top
<1>7. ASSUME NEW i \in 1..Len(stack')
      PROVE  /\ stack'[i].fresh => stack'[i].todo = {}
             /\ ~stack'[i].fresh => stack'[i].todo \subseteq FreeNext(stack'[i].rank)
             /\ (~stack'[i].fresh /\ i < Len(stack')) =>
                   \E k \in ongoing'[stack'[i].rank] : Voting(stack'[i].rank, k)
  <2>1. CASE i = Len(stack)
    BY <1>3, <1>5, <2>1, FrameBelow
  <2>2. CASE i < Len(stack)
    <3>1. i \in 1..Len(stack) - 1 /\ stack'[i] = stack[i] /\ i \in 1..Len(stack)
      BY <1>3, <1>4, <1>5, <1>7, <2>2
    <3>2. QED
      BY <3>1, FrameBelow DEF FrameInv
  <2>3. CASE i > Len(stack)
    <3>1. i \in Len(stack) + 1..Len(stack')
      BY <1>3, <1>4, <2>3
    <3>2. QED
      BY <1>5, <3>1
  <2>4. i = Len(stack) \/ i < Len(stack) \/ i > Len(stack)
    BY <1>3, <1>4, <1>7
  <2>5. QED
    BY <2>1, <2>2, <2>3, <2>4, Zenon
<1>8. ASSUME NEW i \in 1..Len(stack'), NEW j \in 1..Len(stack'), i < j, ~stack'[i].fresh
      PROVE  stack'[i].rank # stack'[j].rank
  <2>1. i <= Len(stack)
    <3>1. i > Len(stack) => i \in Len(stack) + 1..Len(stack')
      BY <1>3, <1>4
    <3>2. i > Len(stack) => stack'[i].fresh = TRUE
      BY <1>5, <3>1
    <3>3. i \in Nat
      BY <1>4, <1>8
    <3>4. QED
      BY <1>3, <1>8, <3>2, <3>3
  <2>2. CASE j <= Len(stack)
    <3>1. i \in 1..Len(stack) - 1 /\ stack'[i] = stack[i] /\ i \in 1..Len(stack) /\ j \in 1..Len(stack)
      BY <1>3, <1>4, <1>5, <1>8, <2>2
    <3>2. stack'[j].rank = stack[j].rank
      <4>1. CASE j = Len(stack)
        BY <1>5, <1>6, <4>1
      <4>2. CASE j # Len(stack)
        <5>1. j \in 1..Len(stack) - 1
          BY <1>3, <3>1, <4>2
        <5>2. QED
          BY <1>5, <5>1
      <4>3. QED
        BY <4>1, <4>2
    <3>3. QED
      BY <1>8, <3>1, <3>2 DEF FrameInv
  <2>3. CASE j > Len(stack)
    <3>1. j \in Len(stack) + 1..Len(stack')
      BY <1>3, <1>4, <2>3
    <3>2. stack'[j].rank \in P
      BY <1>5, <3>1
    <3>3. CASE i = Len(stack)
      BY <1>2, <1>5, <3>2, <3>3
    <3>4. CASE i < Len(stack)
      <4>1. i \in 1..Len(stack) - 1 /\ stack'[i] = stack[i] /\ i \in 1..Len(stack)
        BY <1>3, <1>4, <1>5, <1>8, <3>4
      <4>2. PICK k \in ongoing[stack[i].rank] : Voting(stack[i].rank, k)
        BY <1>8, <3>4, <4>1 DEF FrameInv
      <4>3. stack[i].rank \notin P
        BY <1>2, <4>2, NoReentry
      <4>4. QED
        BY <3>2, <4>1, <4>3
    <3>5. QED
      BY <1>3, <2>1, <3>3, <3>4
  <2>4. QED
    BY <1>3, <1>4, <2>2, <2>3
<1>9. /\ \A i \in 1..Len(stack') :
          /\ stack'[i].fresh => stack'[i].todo = {}
          /\ ~stack'[i].fresh => stack'[i].todo \subseteq FreeNext(stack'[i].rank)
          /\ (~stack'[i].fresh /\ i < Len(stack')) =>
                \E k \in ongoing'[stack'[i].rank] : Voting(stack'[i].rank, k)
      /\ \A i, j \in 1..Len(stack') :
          (i < j /\ ~stack'[i].fresh) => stack'[i].rank # stack'[j].rank
  BY <1>7, <1>8, Zenon
<1>10. QED
  BY <1>4, <1>9, FrameNext, Zenon

LEMMA EnterType ==
    ASSUME stack \in Seq(Frame), EnterLoop
    PROVE  LET f == [Top EXCEPT !.fresh = FALSE, !.todo = Free(Top.rank)] IN
           /\ f \in Frame /\ f.fresh = FALSE /\ f.todo = Free(Top.rank) /\ f.rank = Top.rank
           /\ stack' = Append(Below, f) /\ stack' \in Seq(Frame)
<1> DEFINE f == [Top EXCEPT !.fresh = FALSE, !.todo = Free(Top.rank)]
<1>1. stack # <<>> /\ Top \in Frame /\ Top.rank \in Ranks
  BY TopFacts DEF Frame, EnterLoop
<1>2. f \in Frame /\ f.fresh = FALSE /\ f.todo = Free(Top.rank) /\ f.rank = Top.rank
  <2>1. Free(Top.rank) \subseteq Nat
    BY <1>1, WorkloadAssumption DEF Free
  <2>2. QED
    BY <1>1, <2>1 DEF Frame
<1>3. stack' = Append(Below, f)
  BY DEF EnterLoop
<1> HIDE DEF f
<1>4. stack' \in Seq(Frame)
  BY <1>1, <1>2, <1>3, ReplaceTop
<1>5. QED
  BY <1>2, <1>3, <1>4 DEF f

\* Entering a loop takes the snapshot; leaving one uncovers the caller's.
LEMMA FrameEnter ==
    ASSUME TypeOK, FrameInv, EnterLoop
    PROVE  FrameInv' /\ stack' \in Seq(Frame)
<1> DEFINE f == [Top EXCEPT !.fresh = FALSE, !.todo = Free(Top.rank)]
<1>1. stack \in Seq(Frame) /\ stack # <<>> /\ Top \in Frame /\ Len(stack) \in Nat /\ Len(stack) > 0
      /\ Top.rank \in Ranks
  BY TopFacts DEF TypeOK, Frame, EnterLoop
<1>2. f \in Frame /\ f.fresh = FALSE /\ f.todo = Free(Top.rank) /\ f.rank = Top.rank
  BY <1>1, EnterType
<1>3. stack' = Append(Below, f) /\ UNCHANGED graph
  BY DEF EnterLoop
<1> HIDE DEF f
<1>4. /\ stack' \in Seq(Frame) /\ Len(stack') = Len(stack) /\ stack'[Len(stack)] = f
      /\ \A i \in 1..Len(stack) - 1 : stack'[i] = stack[i]
  BY <1>1, <1>2, <1>3, ReplaceTop
<1>5. Top = stack[Len(stack)]
  BY DEF Top
<1>6. ASSUME NEW i \in 1..Len(stack')
      PROVE  /\ stack'[i].fresh => stack'[i].todo = {}
             /\ ~stack'[i].fresh => stack'[i].todo \subseteq FreeNext(stack'[i].rank)
             /\ (~stack'[i].fresh /\ i < Len(stack')) =>
                   \E k \in ongoing'[stack'[i].rank] : Voting(stack'[i].rank, k)
  <2>1. CASE i = Len(stack)
    <3>1. ~(i < Len(stack'))
      BY <1>1, <1>4, <2>1
    <3>2. stack'[i] = f
      BY <1>4, <2>1
    <3>3. f.todo \subseteq FreeNext(f.rank)
      BY <1>2, <1>3 DEF Free, FreeNext, graph
    <3>4. QED
      BY <1>2, <3>1, <3>2, <3>3
  <2>2. CASE i # Len(stack)
    <3>1. i \in 1..Len(stack) - 1 /\ stack'[i] = stack[i] /\ i \in 1..Len(stack)
      BY <1>1, <1>4, <1>6, <2>2
    <3>2. QED
      BY <1>3, <1>4, <3>1 DEF FrameInv, Free, FreeNext, graph
  <2>3. QED
    BY <2>1, <2>2
<1>7. ASSUME NEW i \in 1..Len(stack'), NEW j \in 1..Len(stack'), i < j, ~stack'[i].fresh
      PROVE  stack'[i].rank # stack'[j].rank
  <2>1. i \in 1..Len(stack) - 1 /\ stack'[i] = stack[i] /\ i \in 1..Len(stack) /\ j \in 1..Len(stack)
    BY <1>1, <1>4, <1>7
  <2>2. stack'[j].rank = stack[j].rank
    <3>1. CASE j = Len(stack)
      BY <1>2, <1>4, <1>5, <3>1
    <3>2. CASE j # Len(stack)
      <4>1. j \in 1..Len(stack) - 1
        BY <1>1, <2>1, <3>2
      <4>2. QED
        BY <1>4, <4>1
    <3>3. QED
      BY <3>1, <3>2
  <2>3. QED
    BY <1>7, <2>1, <2>2 DEF FrameInv
<1>8. QED
  BY <1>4, <1>6, <1>7, FrameNext

LEMMA FrameLeave ==
    ASSUME TypeOK, FrameInv, LeaveLoop
    PROVE  FrameInv' /\ stack' \in Seq(Frame)
<1>1. /\ stack' \in Seq(Frame) /\ Len(stack') = Len(stack) - 1 /\ Len(stack) \in Nat /\ Len(stack) > 0
      /\ \A i \in 1..Len(stack) - 1 : stack'[i] = stack[i]
      /\ UNCHANGED graph
  BY TopFacts DEF TypeOK, Frame, LeaveLoop
<1>2. ASSUME NEW i \in 1..Len(stack')
      PROVE  /\ stack'[i].fresh => stack'[i].todo = {}
             /\ ~stack'[i].fresh => stack'[i].todo \subseteq FreeNext(stack'[i].rank)
             /\ (~stack'[i].fresh /\ i < Len(stack')) =>
                   \E k \in ongoing'[stack'[i].rank] : Voting(stack'[i].rank, k)
  <2>1. stack'[i] = stack[i] /\ i \in 1..Len(stack) /\ i < Len(stack)
    BY <1>1, <1>2
  <2>2. QED
    BY <1>1, <2>1 DEF FrameInv, Free, FreeNext, graph
<1>3. ASSUME NEW i \in 1..Len(stack'), NEW j \in 1..Len(stack'), i < j, ~stack'[i].fresh
      PROVE  stack'[i].rank # stack'[j].rank
  <2>1. /\ stack'[i] = stack[i] /\ i \in 1..Len(stack)
        /\ stack'[j] = stack[j] /\ j \in 1..Len(stack)
    BY <1>1, <1>3
  <2>2. QED
    BY <1>3, <2>1 DEF FrameInv
<1>4. QED
  BY <1>1, <1>2, <1>3, FrameNext

\* Calls none of which has run.
LEMMA FrameFresh ==
    ASSUME stack' \in Seq(Frame), \A i \in DOMAIN stack' : stack'[i].fresh /\ stack'[i].todo = {}
    PROVE  FrameInv'
<1>1. DOMAIN stack' = 1..Len(stack')
  OBVIOUS
<1>2. QED
  BY <1>1, FrameNext

LEMMA FrameSame ==
    ASSUME FrameInv, UNCHANGED <<stack, graph>>
    PROVE  FrameInv'
BY DEF FrameInv, Free, graph

-----------------------------------------------------------------------------
(* What is in flight *)

LEMMA InflightSame ==
    ASSUME InflightInv, inflight' = inflight, Senders' = Senders, OpenGroups' = OpenGroups
    PROVE  InflightInv'
BY DEF InflightInv

LEMMA InflightSend ==
    ASSUME InflightInv, inflight' = inflight + 1, OpenGroups' = OpenGroups,
           NEW r \in Ranks, r \notin Senders, Senders' = Senders \cup {r}
    PROVE  InflightInv' /\ inflight' \in Nat
<1>1. Cardinality(Senders \cup {r}) = Cardinality(Senders) + 1
  BY Counted, FS_AddElement
<1>2. QED
  BY <1>1, Counted DEF InflightInv

LEMMA InflightOpen ==
    ASSUME InflightInv, inflight' = inflight + 1, Senders' = Senders,
           NEW g \in Groups, g \notin OpenGroups, OpenGroups' = OpenGroups \cup {g}
    PROVE  InflightInv' /\ inflight' \in Nat
<1>1. Cardinality(OpenGroups \cup {g}) = Cardinality(OpenGroups) + 1
  BY Counted, FS_AddElement
<1>2. QED
  BY <1>1, Counted DEF InflightInv

LEMMA InflightSent ==
    ASSUME InflightInv, inflight' = inflight - 1, OpenGroups' = OpenGroups,
           NEW r \in Senders, Senders' = Senders \ {r}
    PROVE  InflightInv' /\ inflight' \in Nat
<1>1. /\ Cardinality(Senders \ {r}) = Cardinality(Senders) - 1
      /\ IsFiniteSet(Senders \ {r})
  BY Counted, FS_RemoveElement
<1>2. Cardinality(Senders \ {r}) \in Nat
  BY <1>1, FS_CardinalityType
<1>3. QED
  BY <1>1, <1>2, Counted DEF InflightInv

LEMMA InflightClosed ==
    ASSUME InflightInv, inflight' = inflight - 1, Senders' = Senders,
           NEW g \in OpenGroups, OpenGroups' = OpenGroups \ {g}
    PROVE  InflightInv' /\ inflight' \in Nat
<1>1. /\ Cardinality(OpenGroups \ {g}) = Cardinality(OpenGroups) - 1
      /\ IsFiniteSet(OpenGroups \ {g})
  BY Counted, FS_RemoveElement
<1>2. Cardinality(OpenGroups \ {g}) \in Nat
  BY <1>1, FS_CardinalityType
<1>3. QED
  BY <1>1, <1>2, Counted DEF InflightInv

\* A node that is not a send leaves the set of senders.
LEMMA SendersSame ==
    ASSUME NEW r \in Ranks, NEW n, Node(r, n).kind # "send",
           \A s \in Ranks : \A k : (s # r \/ k # n) => (k \in ongoing'[s] <=> k \in ongoing[s])
    PROVE  Senders' = Senders
<1>1. \A s \in Ranks : (\E k \in ongoing'[s] : Node(s, k).kind = "send")
                       <=> \E k \in ongoing[s] : Node(s, k).kind = "send"
  OBVIOUS
<1>2. QED
  BY <1>1 DEF Senders

LEMMA OpenSame ==
    ASSUME UNCHANGED <<vote_rounds, finish_rounds>>
    PROVE  OpenGroups' = OpenGroups
BY DEF OpenGroups

-----------------------------------------------------------------------------
(* Types *)

GraphType ==
    /\ ongoing \in [Ranks -> SUBSET Nat] /\ done \in [Ranks -> SUBSET Nat]
    /\ \A r \in Ranks : ongoing[r] \cup done[r] \subseteq Nodes(r)

RoundType ==
    /\ DOMAIN votes = Groups /\ DOMAIN finishes = Groups
    /\ \A g \in Groups : votes[g] \in [Members[g] -> Nat] /\ finishes[g] \in [Members[g] -> Nat]
    /\ vote_rounds \in [Groups -> Nat] /\ finish_rounds \in [Groups -> Nat]

SchedulerType ==
    /\ stage_state \in Topologies /\ pending \subseteq Requests /\ ready \in {"off", "armed", "open"}

LEMMA TypeParts ==
    TypeOK <=> /\ circuits \in Schedules /\ stack \in Seq(Frame) /\ GraphType /\ RoundType /\ SchedulerType
               /\ current \in Topologies /\ changing \in BOOLEAN /\ inflight \in Nat
               /\ wakeups \in BOOLEAN /\ phase \in {"run", "poll", "end"}
BY DEF TypeOK, Frame, Requests, GraphType, RoundType, SchedulerType

LEMMA TypeNext ==
    ASSUME circuits' \in Schedules,
           stack' \in Seq(Frame), GraphType', RoundType', SchedulerType',
           current' \in Topologies, changing' \in BOOLEAN, inflight' \in Nat,
           wakeups' \in BOOLEAN, phase' \in {"run", "poll", "end"}
    PROVE  TypeOK'
BY DEF TypeOK, Frame, Requests, GraphType, RoundType, SchedulerType

LEMMA GraphTypeTake ==
    ASSUME GraphType, NEW r \in Ranks, NEW n \in Nodes(r), Take(r, n)
    PROVE  GraphType'
<1>1. n \in Nat
  BY WorkloadAssumption
<1>2. QED
  BY <1>1 DEF GraphType, Take

LEMMA GraphTypeFinish ==
    ASSUME GraphType, NEW r \in Ranks, NEW n \in Nodes(r), Finish(r, n)
    PROVE  GraphType'
<1>1. n \in Nat
  BY WorkloadAssumption
<1>2. QED
  BY <1>1 DEF GraphType, Finish

LEMMA RoundTypeVoted ==
    ASSUME RoundType, NEW g \in Groups, NEW r \in Members[g], votes' = Voted(g, r),
           UNCHANGED <<finishes, finish_rounds>>,
           vote_rounds' = vote_rounds \/ vote_rounds' = [vote_rounds EXCEPT ![g] = @ + 1]
    PROVE  RoundType'
<1>1. DOMAIN votes' = Groups /\ \A h \in Groups : votes'[h] \in [Members[h] -> Nat]
  <2>1. (IF votes[g][r] > finishes[g][r] THEN votes[g][r] ELSE votes[g][r] + 1) \in Nat
    BY DEF RoundType
  <2> DEFINE v == IF votes[g][r] > finishes[g][r] THEN votes[g][r] ELSE votes[g][r] + 1
  <2>2. votes' = [votes EXCEPT ![g] = [votes[g] EXCEPT ![r] = v]]
    BY DEF Voted
  <2>3. v \in Nat
    BY <2>1
  <2> HIDE DEF v
  <2>4. QED
    BY <2>2, <2>3 DEF RoundType
<1>2. vote_rounds' \in [Groups -> Nat]
  BY DEF RoundType
<1>3. QED
  BY <1>1, <1>2 DEF RoundType

LEMMA RoundTypeFinished ==
    ASSUME RoundType, NEW g \in Groups, NEW r \in Members[g], NEW all \in BOOLEAN,
           UNCHANGED <<votes, vote_rounds>>,
           finishes' = [finishes EXCEPT ![g][r] = @ + 1],
           finish_rounds' = [finish_rounds EXCEPT ![g] = IF all THEN @ + 1 ELSE @]
    PROVE  RoundType'
<1>1. DOMAIN finishes' = Groups /\ \A h \in Groups : finishes'[h] \in [Members[h] -> Nat]
  BY DEF RoundType
<1>2. finish_rounds' \in [Groups -> Nat]
  <2>1. (IF all THEN finish_rounds[g] + 1 ELSE finish_rounds[g]) \in Nat
    BY DEF RoundType
  <2>2. QED
    BY <2>1 DEF RoundType
<1>3. QED
  BY <1>1, <1>2 DEF RoundType

-----------------------------------------------------------------------------
(* Steps *)

\* A step that takes or finishes nothing and leaves the rounds and the topology.
LEMMA Unmoved ==
    ASSUME WorkInv, UNCHANGED <<circuits, graph, rounds, stage_state, current, inflight>>,
           pending' \subseteq Requests, ready' \in {"off", "armed", "open"}, changing' \in BOOLEAN,
           wakeups' \in BOOLEAN, phase' \in {"run", "poll", "end"},
           stack' \in Seq(Frame)
    PROVE  WorkInv'
<1>1. GraphInv' /\ GraphType'
  BY TypeParts DEF WorkInv, GraphInv, GraphType, Closed, graph
<1>2. RoundInv' /\ RoundType'
  <2>1. RoundType'
    BY TypeParts DEF WorkInv, RoundType, rounds
  <2>2. RoundInv'
    BY DEF WorkInv, RoundInv, RankRounds, Open, OfGroup, rounds, graph
  <2>3. QED
    BY <2>1, <2>2
<1>3. InflightInv'
  BY DEF WorkInv, InflightInv, OpenGroups, Senders, rounds, graph
<1>4. ServedInv' /\ StageStateCoherent'
  BY DEF WorkInv, ServedInv, Serves, StageStateCoherent, Open, rounds, graph
<1>5. SchedulerType' /\ current' \in Topologies /\ inflight' \in Nat /\ circuits' \in Schedules
  BY TypeParts DEF WorkInv, SchedulerType
<1>6. TypeOK'
  BY <1>1, <1>2, <1>5, TypeNext
<1>7. QED
  BY <1>1, <1>2, <1>3, <1>4, <1>6 DEF WorkInv

LEMMA ServedSame ==
    ASSUME TypeOK, InflightInv, ServedInv, UNCHANGED circuits, SameLinks,
           \A g \in Groups : Open(g)' => Open(g) /\ finish_rounds'[g] = finish_rounds[g],
           \A r \in Ranks : \A n \in ongoing'[r] : Node(r, n).kind = "send" =>
              n \in ongoing[r] \/ ServesNext(Request(r, n))
    PROVE  ServedInv'
<1>1. PICK G : G = {}
  OBVIOUS
<1>2. /\ \A g \in Groups \ G : Open(g)' => Open(g) /\ finish_rounds'[g] = finish_rounds[g]
      /\ \A g \in Groups \cap G : \A r \in Members[g] : \A n \in OfGroup(g, r) :
            Node(r, n).number = finish_rounds'[g] + 1 => ServesNext(Request(r, n))
  BY <1>1
<1>3. QED
  BY <1>2, ServedKeeps

\* What pre_reconfig or a granted switch leaves of the scheduler and the network.
Switched ==
    /\ stage_state' \in Topologies /\ current' = stage_state'
    /\ pending' \subseteq Requests /\ ready' \in {"off", "armed", "open"}
    /\ changing' \in BOOLEAN /\ SameLinks

LEMMA Assemble ==
    ASSUME circuits' \in Schedules, GraphInv', GraphType', RoundInv', RoundType', stack' \in Seq(Frame),
           InflightInv', inflight' \in Nat, ServedInv', Switched,
           wakeups' \in BOOLEAN, phase' \in {"run", "poll", "end"}
    PROVE  WorkInv'
<1>1. SchedulerType' /\ current' \in Topologies /\ changing' \in BOOLEAN /\ StageStateCoherent'
  BY DEF Switched, SchedulerType, StageStateCoherent
<1>2. TypeOK'
  BY <1>1, TypeNext
<1>3. QED
  BY <1>1, <1>2 DEF WorkInv

LEMMA CircuitsSame ==
    ASSUME WorkInv, UNCHANGED circuits
    PROVE  circuits' \in Schedules
BY DEF WorkInv, TypeOK

\* A node stays where it is, although the topology may have been changed for it.
LEMMA StepBlocked ==
    ASSUME UNCHANGED circuits, WorkInv, stack # <<>>, ~Top.fresh, NEW n \in Top.todo, stack' = After(n),
           UNCHANGED <<graph, inflight, vote_rounds, finish_rounds, phase>>,
           RoundInv', RoundType', Switched, wakeups' \in BOOLEAN
    PROVE  WorkInv'
<1>1. TypeOK /\ GraphInv /\ InflightInv /\ ServedInv /\ ongoing' = ongoing /\ done' = done
  BY DEF WorkInv, graph
<1>2. GraphInv' /\ GraphType'
  BY <1>1, TypeParts DEF GraphInv, GraphType, Closed
<1>3. stack' \in Seq(Frame)
  BY <1>1, AfterFacts, TypeParts
<1>4. OpenGroups' = OpenGroups /\ Senders' = Senders
  BY <1>1 DEF OpenGroups, Senders
<1>5. InflightInv' /\ inflight' \in Nat /\ phase' \in {"run", "poll", "end"}
  BY <1>1, <1>4, InflightSame, TypeParts
<1>6. ServedInv'
  <2>1. \A g \in Groups : Open(g)' => Open(g) /\ finish_rounds'[g] = finish_rounds[g]
    BY DEF Open
  <2>2. SameLinks
    BY DEF Switched
  <2>3. QED
    BY <1>1, <2>1, <2>2, ServedSame
<1>7. QED
  BY <1>2, <1>3, <1>5, <1>6, CircuitsSame, Assemble

\* A node is taken that neither votes nor counts as in flight.
LEMMA StepTakes ==
    ASSUME UNCHANGED circuits, WorkInv, stack # <<>>, ~Top.fresh, NEW n \in Top.todo, stack' = After(n),
           Available(Top.rank, n), n \in Free(Top.rank), Take(Top.rank, n),
           ~Voting(Top.rank, n), Node(Top.rank, n).kind # "send",
           UNCHANGED <<rounds, inflight, phase>>, Switched, wakeups' \in BOOLEAN
    PROVE  WorkInv'
<1> DEFINE r == Top.rank
<1>1. TypeOK /\ GraphInv /\ RoundInv /\ InflightInv /\ ServedInv
  BY DEF WorkInv
<1>2. r \in Ranks /\ n \in Nodes(r)
  <2>1. Top \in Frame
    BY <1>1, TopFacts, TypeParts
  <2>2. QED
    BY <2>1 DEF Free, Frame
<1> HIDE DEF r
<1>3. /\ GraphInv' /\ done' = done
      /\ \A s \in Ranks : ongoing'[s] = IF s = r THEN ongoing[r] \cup {n} ELSE ongoing[s]
  BY <1>1, <1>2, GraphTake DEF r
<1>4. GraphType'
  BY <1>1, <1>2, GraphTypeTake, TypeParts DEF r
<1>5. stack' \in Seq(Frame)
  BY <1>1, AfterFacts, TypeParts
<1>6. RoundInv' /\ RoundType'
  <2>1. RoundType'
    BY <1>1, TypeParts DEF RoundType, rounds
  <2>2. \A s \in Ranks : /\ ongoing'[s] \subseteq ongoing[s] \cup (IF s = r THEN {n} ELSE {})
                         /\ done[s] \subseteq done'[s]
                         /\ done'[s] \subseteq done[s] \cup (IF s = r THEN {n} ELSE {})
    BY <1>3
  <2>3. ~Voting(r, n)
    BY DEF r
  <2>4. RoundInv'
    BY <1>1, <1>2, <2>2, <2>3, RoundOther
  <2>5. QED
    BY <2>1, <2>4
<1>7. InflightInv' /\ inflight' \in Nat /\ phase' \in {"run", "poll", "end"}
  <2>1. Senders' = Senders
    <3>1. Node(r, n).kind # "send"
      BY DEF r
    <3>2. \A s \in Ranks : \A k : (s # r \/ k # n) => (k \in ongoing'[s] <=> k \in ongoing[s])
      BY <1>3
    <3>3. QED
      BY <1>2, <3>1, <3>2, SendersSame
  <2>2. OpenGroups' = OpenGroups
    BY OpenSame DEF rounds
  <2>3. QED
    BY <1>1, <2>1, <2>2, InflightSame, TypeParts
<1>8. ServedInv'
  <2>1. \A g \in Groups : Open(g)' => Open(g) /\ finish_rounds'[g] = finish_rounds[g]
    BY DEF Open, rounds
  <2>2. SameLinks
    BY DEF Switched
  <2>3. \A s \in Ranks : \A k \in ongoing'[s] : Node(s, k).kind = "send" => k \in ongoing[s]
    BY <1>3 DEF r
  <2>4. QED
    BY <1>1, <2>1, <2>2, <2>3, ServedSame
<1>9. QED
  BY <1>3, <1>4, <1>5, <1>6, <1>7, <1>8, CircuitsSame, Assemble

LEMMA StepComp ==
    ASSUME UNCHANGED circuits, Conforms, WorkInv, stack # <<>>, ~Top.fresh, NEW n \in Top.todo,
           Available(Top.rank, n), n \in Free(Top.rank), IssueComp(Top.rank, n)
    PROVE  WorkInv'
<1> DEFINE r == Top.rank
<1>1. TypeOK /\ StageStateCoherent /\ r \in Ranks /\ n \in Nodes(r)
  <2>1. Top \in Frame
    BY TopFacts, TypeParts DEF WorkInv
  <2>2. QED
    BY <2>1 DEF WorkInv, Free, Frame
<1> HIDE DEF r
<1>2. /\ Node(r, n).kind = "comp" /\ stack' = After(n) /\ ~Voting(r, n)
      /\ UNCHANGED <<rounds, pending, ready, inflight, phase>>
  BY DEF IssueComp, Voting, r
<1>3. Node(r, n).topo \subseteq Topologies
  BY <1>1, <1>2, WorkloadAssumption DEF WellFormed
<1>4. /\ current = stage_state /\ stage_state \in Topologies /\ pending \subseteq Requests
      /\ ready \in {"off", "armed", "open"} /\ changing \in BOOLEAN /\ wakeups \in BOOLEAN
      /\ phase \in {"run", "poll", "end"}
  BY <1>1, TypeParts DEF StageStateCoherent, SchedulerType
<1>5. CASE Take(r, n) /\ UNCHANGED <<stage_state, current, changing, wakeups>>
  <2>1. Switched /\ wakeups' \in BOOLEAN
    BY <1>2, <1>4, <1>5 DEF Switched, SameLinks
  <2>2. QED
    BY <1>2, <1>5, <2>1, StepTakes DEF r
<1>6. ASSUME NEW t \in Node(r, n).topo, Grants(t), Take(r, n), SimReconfig(t), stage_state' = t,
             UNCHANGED wakeups
      PROVE  WorkInv'
  <2>1. t \in Topologies
    BY <1>3
  <2>2. current' = t /\ changing' \in BOOLEAN /\ SameLinks
    BY <1>1, <1>6, <2>1, SwitchFacts
  <2>3. Switched /\ wakeups' \in BOOLEAN
    BY <1>2, <1>4, <1>6, <2>1, <2>2 DEF Switched
  <2>4. QED
    BY <1>2, <1>6, <2>3, StepTakes DEF r
<1>7. CASE wakeups' = TRUE /\ UNCHANGED <<graph, stage_state, current, changing>>
  <2>1. stack' \in Seq(Frame)
    BY <1>1, <1>2, AfterFacts, TypeParts
  <2>2. QED
    BY <1>2, <1>4, <1>7, <2>1, Unmoved
<1>8. QED
  BY <1>5, <1>6, <1>7 DEF IssueComp, r

LEMMA StepRecv ==
    ASSUME UNCHANGED circuits, WorkInv, stack # <<>>, ~Top.fresh, NEW n \in Top.todo,
           Available(Top.rank, n), n \in Free(Top.rank),
           IssueRecv(Top.rank, n) \/ IssueUngated(Top.rank, n)
    PROVE  WorkInv'
<1>1. /\ stack' = After(n) /\ Take(Top.rank, n) /\ ~Voting(Top.rank, n)
      /\ Node(Top.rank, n).kind # "send"
      /\ UNCHANGED <<rounds, scheduler, network, wakeups, phase>>
  BY DEF IssueRecv, IssueUngated, Voting
<1>2. Switched /\ wakeups' \in BOOLEAN /\ UNCHANGED <<rounds, inflight, phase>>
  BY <1>1, TypeParts
     DEF WorkInv, Switched, SameLinks, StageStateCoherent, SchedulerType, scheduler, network
<1>3. QED
  BY <1>1, <1>2, StepTakes

LEMMA StepSend ==
    ASSUME UNCHANGED circuits, Conforms, WorkInv, stack # <<>>, ~Top.fresh, NEW n \in Top.todo,
           Available(Top.rank, n), n \in Free(Top.rank), IssueSend(Top.rank, n)
    PROVE  WorkInv'
<1> DEFINE r == Top.rank
           q == Request(r, n)
<1>1. /\ TypeOK /\ GraphInv /\ RoundInv /\ InflightInv /\ ServedInv
      /\ StageStateCoherent /\ r \in Ranks /\ n \in Nodes(r)
  <2>1. Top \in Frame
    BY TopFacts, TypeParts DEF WorkInv
  <2>2. QED
    BY <2>1 DEF WorkInv, Free, Frame
<1> HIDE DEF r
<1>2. Node(r, n).kind = "send" /\ UNCHANGED rounds /\ ~Voting(r, n) /\ IsComm(r, n)
  BY DEF IssueSend, Voting, IsComm, r
<1>3. q \in Requests
  BY <1>1, <1>2, NodeFacts, RequestType
<1> HIDE DEF q
<1>4. PICK ok \in BOOLEAN :
        /\ PreReconfig(q, ok)
        /\ IF ok
           THEN /\ stack' = After(n)
                /\ Take(r, n)
                /\ inflight' = inflight + 1
                /\ UNCHANGED <<wakeups, phase>>
           ELSE Blocked(r, n) /\ wakeups' = TRUE
  BY DEF IssueSend, r, q
<1>5. Switched /\ (ok => ServesNext(q))
  BY <1>1, <1>3, <1>4, PreFacts DEF Switched, ServesNext
<1>6. RoundType'
  BY <1>1, <1>2, TypeParts DEF RoundType, rounds
<1>7. CASE ~ok
  <2>1. stack' = After(n) /\ UNCHANGED <<graph, inflight, vote_rounds, finish_rounds, phase>>
    BY <1>2, <1>4, <1>7 DEF Blocked, rounds
  <2>2. RoundInv'
    BY <1>1, <1>2, <2>1, RoundOther DEF graph
  <2>3. wakeups' \in BOOLEAN
    BY <1>4, <1>7
  <2>4. QED
    BY <1>5, <1>6, <2>1, <2>2, <2>3, StepBlocked
<1>8. CASE ok
  <2>1. stack' = After(n) /\ Take(r, n) /\ inflight' = inflight + 1 /\ UNCHANGED <<wakeups, phase>>
    BY <1>4, <1>8
  <2>2. /\ GraphInv' /\ done' = done
        /\ \A s \in Ranks : ongoing'[s] = IF s = r THEN ongoing[r] \cup {n} ELSE ongoing[s]
    BY <1>1, <2>1, GraphTake DEF r
  <2>3. GraphType' /\ wakeups' \in BOOLEAN /\ phase' \in {"run", "poll", "end"}
    BY <1>1, <2>1, GraphTypeTake, TypeParts
  <2>4. stack' \in Seq(Frame)
    BY <1>1, <2>1, AfterFacts, TypeParts
  <2>5. RoundInv'
    <3>1. \A s \in Ranks : /\ ongoing'[s] \subseteq ongoing[s] \cup (IF s = r THEN {n} ELSE {})
                           /\ done[s] \subseteq done'[s]
                           /\ done'[s] \subseteq done[s] \cup (IF s = r THEN {n} ELSE {})
      BY <2>2
    <3>2. QED
      BY <1>1, <1>2, <3>1, RoundOther
  <2>6. InflightInv' /\ inflight' \in Nat
    <3>1. r \notin Senders
      <4>1. \A k \in ongoing[r] : ~IsComm(r, k)
        BY <1>2, AvailableComm DEF r
      <4>2. QED
        BY <4>1 DEF Senders, IsComm
    <3>2. Senders' = Senders \cup {r}
      <4>1. \A s \in Ranks : (\E k \in ongoing'[s] : Node(s, k).kind = "send")
                             <=> (s = r \/ \E k \in ongoing[s] : Node(s, k).kind = "send")
        BY <1>2, <2>2
      <4>2. QED
        BY <1>1, <4>1 DEF Senders
    <3>3. OpenGroups' = OpenGroups
      BY <1>2, OpenSame DEF rounds
    <3>4. QED
      BY <1>1, <2>1, <3>1, <3>2, <3>3, InflightSend
  <2>7. ServedInv'
    <3>1. \A g \in Groups : Open(g)' => Open(g) /\ finish_rounds'[g] = finish_rounds[g]
      BY <1>2 DEF Open, rounds
    <3>2. SameLinks
      BY <1>5 DEF Switched
    <3>3. \A s \in Ranks : \A k \in ongoing'[s] : Node(s, k).kind = "send" =>
             k \in ongoing[s] \/ ServesNext(Request(s, k))
      BY <1>5, <1>8, <2>2 DEF q
    <3>4. QED
      BY <1>1, <3>1, <3>2, <3>3, ServedSame
  <2>8. QED
    BY <1>5, <1>6, <2>2, <2>3, <2>4, <2>5, <2>6, <2>7, CircuitsSame, Assemble
<1>9. QED
  BY <1>7, <1>8

\* The rank that opens a round asks for what every rank of the group asks for in it.
LEMMA OpenedServes ==
    ASSUME Conforms, TypeOK, GraphInv, RoundInv, NEW r \in Ranks, NEW n \in Free(r), Voting(r, n),
           NEW g, g = Node(r, n).grp, votes' = Voted(g, r), CheckVote(g, r, votes'),
           UNCHANGED finish_rounds, ServesNext(Request(r, n))
    PROVE  \A s \in Members[g] : \A k \in OfGroup(g, s) :
              Node(s, k).number = finish_rounds'[g] + 1 => ServesNext(Request(s, k))
<1>1. g \in Groups /\ r \in Members[g] /\ n \in OfGroup(g, r) /\ Ready(r, done[r], n)
  BY NodeFacts DEF Free, Ready
<1>2. RankRounds(g, r) /\ finishes[g][r] \in Nat /\ finish_rounds[g] \in Nat
  BY <1>1, MemberFacts DEF RoundInv
<1>3. Node(r, n).number = finishes[g][r] + 1
  BY <1>1, <1>2, NextNumber DEF Conforms
<1>4. votes'[g][r] = finishes[g][r] + 1
  BY <1>1, VotedFacts
<1>5. finishes[g][r] = finish_rounds[g]
  BY <1>2, <1>4 DEF CheckVote, RankRounds
<1>6. ASSUME NEW s \in Members[g], NEW k \in OfGroup(g, s), Node(s, k).number = finish_rounds'[g] + 1
      PROVE  ServesNext(Request(s, k))
  <2>1. Node(r, n).number = Node(s, k).number
    BY <1>3, <1>5, <1>6
  <2>2. Request(r, n) = Request(s, k)
    BY <1>1, <2>1 DEF Conforms, Uniform
  <2>3. QED
    BY <2>2
<1>7. QED
  BY <1>6

LEMMA StepColl ==
    ASSUME UNCHANGED circuits, Conforms, WorkInv, stack # <<>>, ~Top.fresh, NEW n \in Top.todo,
           Available(Top.rank, n), n \in Free(Top.rank), IssueColl(Top.rank, n)
    PROVE  WorkInv'
<1> DEFINE r == Top.rank
           g == Node(r, n).grp
           q == Request(r, n)
<1>1. /\ TypeOK /\ GraphInv /\ RoundInv /\ InflightInv /\ ServedInv
      /\ StageStateCoherent /\ r \in Ranks /\ n \in Nodes(r)
  <2>1. Top \in Frame
    BY TopFacts, TypeParts DEF WorkInv
  <2>2. QED
    BY <2>1 DEF WorkInv, Free, Frame
<1> HIDE DEF r
<1>2. /\ Voting(r, n) /\ votes' = Voted(g, r) /\ wakeups' \in BOOLEAN
      /\ UNCHANGED <<finishes, finish_rounds>>
  <2>1. Voting(r, n) /\ votes' = Voted(g, r) /\ UNCHANGED <<finishes, finish_rounds>>
    BY DEF IssueColl, Voting, r
  <2>2. wakeups' \in {wakeups \/ Members[g] # {r}, TRUE}
    BY DEF IssueColl, r
  <2>3. wakeups \in BOOLEAN
    BY <1>1, TypeParts
  <2>4. QED
    BY <2>1, <2>2, <2>3
<1>3. g \in Groups /\ r \in Members[g] /\ IsComm(r, n) /\ q \in Requests /\ Node(r, n).kind # "send"
      /\ n \in Free(r) /\ Available(r, n)
  <2>1. Node(r, n).gated /\ Node(r, n).kind = "coll"
    BY <1>2 DEF Voting
  <2>2. QED
    BY <1>1, <1>2, <2>1, NodeFacts, RequestType DEF r
<1> HIDE DEF q, g
<1>4. CASE /\ ~CheckVote(g, r, votes')
           /\ Blocked(r, n)
           /\ UNCHANGED <<scheduler, current, changing>>
  <2>1. stack' = After(n) /\ UNCHANGED <<graph, inflight, vote_rounds, finish_rounds, phase>>
    BY <1>2, <1>4 DEF Blocked
  <2>2. RoundInv'
    BY <1>1, <1>2, <1>3, <2>1, RoundColl DEF g, graph
  <2>3. RoundType'
    BY <1>1, <1>2, <1>3, <2>1, RoundTypeVoted, TypeParts
  <2>4. Switched
    BY <1>1, <1>4, TypeParts DEF Switched, SameLinks, StageStateCoherent, SchedulerType, scheduler
  <2>5. QED
    BY <1>2, <2>1, <2>2, <2>3, <2>4, StepBlocked
<1>5. CASE /\ CheckVote(g, r, votes') /\ vote_rounds[g] # finish_rounds[g]
           /\ stack' = After(n) /\ Take(r, n)
           /\ UNCHANGED <<vote_rounds, scheduler, network, phase>>
  <2>1. /\ GraphInv' /\ done' = done
        /\ \A s \in Ranks : ongoing'[s] = IF s = r THEN ongoing[r] \cup {n} ELSE ongoing[s]
    BY <1>1, <1>3, <1>5, GraphTake
  <2>2. GraphType' /\ wakeups' \in BOOLEAN /\ phase' \in {"run", "poll", "end"}
    BY <1>1, <1>2, <1>5, GraphTypeTake, TypeParts
  <2>3. stack' \in Seq(Frame)
    BY <1>1, <1>5, AfterFacts, TypeParts
  <2>4. RoundInv'
    BY <1>1, <1>2, <1>3, <1>5, <2>1, RoundColl DEF g
  <2>5. RoundType'
    BY <1>1, <1>2, <1>3, <1>5, RoundTypeVoted, TypeParts
  <2>6. Switched /\ inflight' = inflight
    BY <1>1, <1>5, TypeParts DEF Switched, SameLinks, StageStateCoherent, SchedulerType, scheduler, network
  <2>7. InflightInv' /\ inflight' \in Nat
    <3>1. \A s \in Ranks : \A k : (s # r \/ k # n) => (k \in ongoing'[s] <=> k \in ongoing[s])
      BY <2>1
    <3>2. Senders' = Senders
      BY <1>1, <1>3, <3>1, SendersSame
    <3>3. OpenGroups' = OpenGroups
      BY <1>2, <1>5, OpenSame
    <3>4. QED
      BY <1>1, <2>6, <3>2, <3>3, InflightSame, TypeParts
  <2>8. ServedInv'
    <3>1. \A h \in Groups : Open(h)' => Open(h) /\ finish_rounds'[h] = finish_rounds[h]
      BY <1>2, <1>5 DEF Open
    <3>2. SameLinks
      BY <2>6 DEF Switched
    <3>3. \A s \in Ranks : \A k \in ongoing'[s] : Node(s, k).kind = "send" => k \in ongoing[s]
      BY <1>3, <2>1
    <3>4. QED
      BY <1>1, <3>1, <3>2, <3>3, ServedSame
  <2>9. QED
    BY <2>1, <2>2, <2>3, <2>4, <2>5, <2>6, <2>7, <2>8, CircuitsSame, Assemble
<1>6. CASE /\ CheckVote(g, r, votes') /\ vote_rounds[g] = finish_rounds[g]
           /\ \E ok \in BOOLEAN :
                /\ PreReconfig(q, ok)
                /\ IF ok
                   THEN /\ Take(r, n)
                        /\ inflight' = inflight + 1
                        /\ vote_rounds' = [vote_rounds EXCEPT ![g] = @ + 1]
                        /\ \E p \in Orders(Peers(g, r)) :
                             stack' = After(n) \o [i \in DOMAIN p |-> Call(p[i])]
                        /\ UNCHANGED phase
                   ELSE Blocked(r, n)
  <2>1. PICK ok \in BOOLEAN :
           /\ PreReconfig(q, ok)
           /\ IF ok
              THEN /\ Take(r, n)
                   /\ inflight' = inflight + 1
                   /\ vote_rounds' = [vote_rounds EXCEPT ![g] = @ + 1]
                   /\ \E p \in Orders(Peers(g, r)) :
                        stack' = After(n) \o [i \in DOMAIN p |-> Call(p[i])]
                   /\ UNCHANGED phase
              ELSE Blocked(r, n)
    BY <1>6
  <2>2. Switched /\ (ok => ServesNext(q))
    BY <1>1, <1>3, <2>1, PreFacts DEF Switched, ServesNext
  <2>3. CASE ~ok
    <3>1. stack' = After(n) /\ UNCHANGED <<graph, inflight, vote_rounds, finish_rounds, phase>>
      BY <1>2, <2>1, <2>3 DEF Blocked
    <3>2. RoundInv'
      BY <1>1, <1>2, <1>3, <3>1, RoundColl DEF g, graph
    <3>3. RoundType'
      BY <1>1, <1>2, <1>3, <3>1, RoundTypeVoted, TypeParts
    <3>4. QED
      BY <1>2, <2>2, <3>1, <3>2, <3>3, StepBlocked
  <2>4. CASE ok
    <3>1. /\ Take(r, n) /\ inflight' = inflight + 1
          /\ vote_rounds' = [vote_rounds EXCEPT ![g] = @ + 1]
          /\ \E p \in Orders(Peers(g, r)) : stack' = After(n) \o [i \in DOMAIN p |-> Call(p[i])]
          /\ UNCHANGED phase
      BY <2>1, <2>4
    <3>2. /\ GraphInv' /\ done' = done
          /\ \A s \in Ranks : ongoing'[s] = IF s = r THEN ongoing[r] \cup {n} ELSE ongoing[s]
      BY <1>1, <1>3, <3>1, GraphTake
    <3>3. GraphType' /\ wakeups' \in BOOLEAN /\ phase' \in {"run", "poll", "end"}
      BY <1>1, <1>2, <3>1, GraphTypeTake, TypeParts
    <3>4. stack' \in Seq(Frame)
      <4>1. After(n) \in Seq(Frame) /\ Peers(g, r) \in SUBSET Ranks
        BY <1>1, <1>3, AfterFacts, TypeParts, WorkloadAssumption DEF Peers
      <4>2. PICK p \in Orders(Peers(g, r)) :
               stack' = After(n) \o [i \in DOMAIN p |-> Call(p[i])]
        BY <3>1
      <4>3. QED
        BY <4>1, <4>2, PushFacts, Zenon
    <3>5. RoundInv'
      BY <1>1, <1>2, <1>3, <1>6, <3>1, <3>2, RoundColl DEF g
    <3>6. RoundType'
      BY <1>1, <1>2, <1>3, <3>1, RoundTypeVoted, TypeParts
    <3>7. /\ vote_rounds'[g] = vote_rounds[g] + 1 /\ finish_rounds[g] \in Nat
          /\ \A h \in Groups \ {g} : vote_rounds'[h] = vote_rounds[h]
      BY <1>1, <1>3, <3>1 DEF TypeOK
    <3>8. InflightInv' /\ inflight' \in Nat
      <4>1. \A s \in Ranks : \A k : (s # r \/ k # n) => (k \in ongoing'[s] <=> k \in ongoing[s])
        BY <3>2
      <4>2. Senders' = Senders
        BY <1>1, <1>3, <4>1, SendersSame
      <4>3. g \notin OpenGroups /\ OpenGroups' = OpenGroups \cup {g}
        BY <1>2, <1>3, <1>6, <3>7 DEF OpenGroups
      <4>4. QED
        BY <1>1, <1>3, <3>1, <4>2, <4>3, InflightOpen
    <3>9. ServedInv'
      <4>1. PICK G : G = {g}
        OBVIOUS
      <4>2. \A h \in Groups \ G : Open(h)' => Open(h) /\ finish_rounds'[h] = finish_rounds[h]
        BY <1>2, <3>7, <4>1 DEF Open
      <4>3. \A s \in Members[g] : \A k \in OfGroup(g, s) :
               Node(s, k).number = finish_rounds'[g] + 1 => ServesNext(Request(s, k))
        BY <1>1, <1>2, <1>3, <1>6, <2>2, <2>4, OpenedServes DEF g, q
      <4>4. \A h \in Groups \cap G : \A s \in Members[h] : \A k \in OfGroup(h, s) :
               Node(s, k).number = finish_rounds'[h] + 1 => ServesNext(Request(s, k))
        BY <4>1, <4>3
      <4>5. SameLinks
        BY <2>2 DEF Switched
      <4>6. \A s \in Ranks : \A k \in ongoing'[s] : Node(s, k).kind = "send" => k \in ongoing[s]
        BY <1>3, <3>2
      <4>7. QED
        BY <1>1, <4>2, <4>4, <4>5, <4>6, ServedKeeps
    <3>10. QED
      BY <2>2, <3>2, <3>3, <3>4, <3>5, <3>6, <3>8, <3>9, CircuitsSame, Assemble
  <2>5. QED
    BY <2>3, <2>4
<1>7. QED
  BY <1>2, <1>4, <1>5, <1>6 DEF IssueColl, r, g, q

\* What every completion has in common.
LEMMA Finished ==
    ASSUME WorkInv, NEW r \in Ranks, NEW n \in ongoing[r], Finish(r, n)
    PROVE  /\ GraphInv' /\ GraphType' /\ stack' \in Seq(Frame) /\ n \in Nodes(r)
           /\ \A s \in Ranks : /\ ongoing'[s] = IF s = r THEN ongoing[r] \ {n} ELSE ongoing[s]
                               /\ done'[s] = IF s = r THEN done[r] \cup {n} ELSE done[s]
<1>1. /\ GraphInv' /\ n \in Nodes(r)
      /\ \A s \in Ranks : /\ ongoing'[s] = IF s = r THEN ongoing[r] \ {n} ELSE ongoing[s]
                          /\ done'[s] = IF s = r THEN done[r] \cup {n} ELSE done[s]
  BY GraphFinish DEF WorkInv
<1>2. GraphType'
  BY <1>1, GraphTypeFinish, TypeParts DEF WorkInv
<1>3. stack' \in Seq(Frame)
  <2>1. Call(r) \in Frame
    BY DEF Call, Frame
  <2>2. QED
    BY <2>1 DEF Finish
<1>4. QED
  BY <1>1, <1>2, <1>3

\* The topology manager is not asked.
LEMMA NotSwitched ==
    ASSUME WorkInv, UNCHANGED <<scheduler, current, changing>>
    PROVE  Switched
BY TypeParts DEF WorkInv, Switched, SameLinks, StageStateCoherent, SchedulerType, scheduler

LEMMA StepOtherFinished ==
    ASSUME UNCHANGED circuits, WorkInv, NEW r \in Ranks, NEW n, PacketSent(r, n) \/ OtherFinished(r, n)
    PROVE  WorkInv'
<1>1. /\ n \in ongoing[r] /\ Finish(r, n) /\ ~Voting(r, n) /\ Switched
      /\ UNCHANGED <<rounds, wakeups, phase>>
  <2>1. /\ n \in ongoing[r] /\ Finish(r, n) /\ ~Voting(r, n)
        /\ UNCHANGED <<rounds, scheduler, current, changing, wakeups, phase>>
    BY DEF PacketSent, OtherFinished, Completes, Voting, network
  <2>2. QED
    BY <2>1, NotSwitched
<1>2. TypeOK /\ GraphInv /\ RoundInv /\ InflightInv /\ ServedInv
  BY DEF WorkInv
<1>3. /\ GraphInv' /\ GraphType' /\ stack' \in Seq(Frame) /\ n \in Nodes(r)
      /\ \A s \in Ranks : /\ ongoing'[s] = IF s = r THEN ongoing[r] \ {n} ELSE ongoing[s]
                          /\ done'[s] = IF s = r THEN done[r] \cup {n} ELSE done[s]
  BY <1>1, Finished
<1>4. RoundInv'
  <2>1. \A s \in Ranks : /\ ongoing'[s] \subseteq ongoing[s] \cup (IF s = r THEN {n} ELSE {})
                         /\ done[s] \subseteq done'[s]
                         /\ done'[s] \subseteq done[s] \cup (IF s = r THEN {n} ELSE {})
    BY <1>3
  <2>2. QED
    BY <1>1, <1>2, <2>1, RoundOther
<1>5. RoundType' /\ wakeups' \in BOOLEAN /\ phase' \in {"run", "poll", "end"}
  BY <1>1, <1>2, TypeParts DEF RoundType, rounds
<1>6. OpenGroups' = OpenGroups
  BY <1>1, OpenSame DEF rounds
<1>7. InflightInv' /\ inflight' \in Nat
  <2>1. CASE PacketSent(r, n)
    <3>1. Node(r, n).kind = "send" /\ inflight' = inflight - 1 /\ IsComm(r, n)
      BY <2>1 DEF PacketSent, IsComm
    <3>2. \A k \in ongoing[r] : Node(r, k).kind = "send" => k = n
      BY <1>1, <1>2, <3>1 DEF GraphInv, IsComm
    <3>3. r \in Senders /\ Senders' = Senders \ {r}
      <4>1. \A s \in Ranks : (\E k \in ongoing'[s] : Node(s, k).kind = "send")
                             <=> (s # r /\ \E k \in ongoing[s] : Node(s, k).kind = "send")
        BY <1>3, <3>2
      <4>2. QED
        BY <1>1, <3>1, <4>1 DEF Senders
    <3>4. QED
      BY <1>2, <1>6, <3>1, <3>3, InflightSent
  <2>2. CASE OtherFinished(r, n)
    <3>1. Node(r, n).kind # "send" /\ inflight' = inflight
      BY <2>2 DEF OtherFinished, network
    <3>2. \A s \in Ranks : \A k : (s # r \/ k # n) => (k \in ongoing'[s] <=> k \in ongoing[s])
      BY <1>3
    <3>3. Senders' = Senders
      BY <3>1, <3>2, SendersSame
    <3>4. QED
      BY <1>2, <1>6, <3>1, <3>3, InflightSame, TypeParts
  <2>3. QED
    BY <2>1, <2>2
<1>8. ServedInv'
  <2>1. \A g \in Groups : Open(g)' => Open(g) /\ finish_rounds'[g] = finish_rounds[g]
    BY <1>1 DEF Open, rounds
  <2>2. SameLinks
    BY <1>1 DEF Switched
  <2>3. \A s \in Ranks : \A k \in ongoing'[s] : Node(s, k).kind = "send" => k \in ongoing[s]
    BY <1>3
  <2>4. QED
    BY <1>2, <2>1, <2>2, <2>3, ServedSame
<1>9. QED
  BY <1>1, <1>3, <1>4, <1>5, <1>7, <1>8, CircuitsSame, Assemble

LEMMA StepCollFinished ==
    ASSUME UNCHANGED circuits, Conforms, WorkInv, NEW r \in Ranks, NEW n, CollFinished(r, n)
    PROVE  WorkInv'
<1> DEFINE g == Node(r, n).grp
           all == CheckFinish(g, finishes')
<1>1. /\ n \in ongoing[r] /\ Finish(r, n) /\ Voting(r, n) /\ Switched
      /\ finishes' = [finishes EXCEPT ![g][r] = @ + 1]
      /\ finish_rounds' = [finish_rounds EXCEPT ![g] = IF all THEN @ + 1 ELSE @]
      /\ inflight' = IF all THEN inflight - 1 ELSE inflight
      /\ wakeups' = (wakeups \/ all)
      /\ UNCHANGED <<votes, vote_rounds, phase>>
  <2>1. /\ n \in ongoing[r] /\ Finish(r, n) /\ Voting(r, n)
        /\ UNCHANGED <<votes, vote_rounds, scheduler, current, changing, phase>>
    BY DEF CollFinished, Completes, Voting
  <2>2. /\ finishes' = [finishes EXCEPT ![g][r] = @ + 1]
        /\ finish_rounds' = [finish_rounds EXCEPT ![g] = IF all THEN @ + 1 ELSE @]
        /\ inflight' = IF all THEN inflight - 1 ELSE inflight
        /\ wakeups' = (wakeups \/ all)
    BY DEF CollFinished
  <2>3. QED
    BY <2>1, <2>2, NotSwitched
<1>2. TypeOK /\ GraphInv /\ RoundInv /\ InflightInv /\ ServedInv /\ Numbered
  BY DEF WorkInv, Conforms
<1>3. /\ GraphInv' /\ GraphType' /\ stack' \in Seq(Frame) /\ n \in Nodes(r)
      /\ \A s \in Ranks : /\ ongoing'[s] = IF s = r THEN ongoing[r] \ {n} ELSE ongoing[s]
                          /\ done'[s] = IF s = r THEN done[r] \cup {n} ELSE done[s]
  BY <1>1, Finished
<1>4. g \in Groups /\ r \in Members[g] /\ Node(r, n).kind # "send" /\ all \in BOOLEAN
  <2>1. all \in BOOLEAN
    BY DEF CheckFinish
  <2>2. QED
    BY <1>1, <1>3, <2>1, NodeFacts DEF Voting
<1>5. /\ RoundInv' /\ vote_rounds[g] = finish_rounds[g] + 1
      /\ finish_rounds'[g] = finish_rounds[g] + (IF all THEN 1 ELSE 0)
      /\ \A h \in Groups \ {g} : finish_rounds'[h] = finish_rounds[h]
  BY <1>1, <1>2, RoundFinished
<1>6. finish_rounds[g] \in Nat
  BY <1>2, <1>4 DEF TypeOK
<1>7. wakeups' \in BOOLEAN /\ phase' \in {"run", "poll", "end"}
  <2>1. wakeups \in BOOLEAN /\ phase \in {"run", "poll", "end"}
    BY <1>2, TypeParts
  <2>2. QED
    BY <1>1, <1>4, <2>1
<1> HIDE DEF all, g
<1>8. RoundType'
  BY <1>1, <1>2, <1>4, RoundTypeFinished, TypeParts
<1>9. Senders' = Senders
  <2>1. \A s \in Ranks : \A k : (s # r \/ k # n) => (k \in ongoing'[s] <=> k \in ongoing[s])
    BY <1>3
  <2>2. QED
    BY <1>4, <2>1, SendersSame
<1>10. InflightInv' /\ inflight' \in Nat
  <2>1. CASE all
    <3>1. inflight' = inflight - 1 /\ finish_rounds'[g] = finish_rounds[g] + 1
      BY <1>1, <1>5, <2>1
    <3>2. g \in OpenGroups /\ OpenGroups' = OpenGroups \ {g}
      BY <1>1, <1>4, <1>5, <1>6, <3>1 DEF OpenGroups
    <3>3. QED
      BY <1>2, <1>9, <3>1, <3>2, InflightClosed
  <2>2. CASE ~all
    <3>1. inflight' = inflight /\ finish_rounds'[g] = finish_rounds[g]
      BY <1>1, <1>5, <1>6, <2>2
    <3>2. OpenGroups' = OpenGroups
      BY <1>1, <1>4, <1>5, <3>1 DEF OpenGroups
    <3>3. QED
      BY <1>2, <1>9, <3>1, <3>2, InflightSame, TypeParts
  <2>3. QED
    BY <2>1, <2>2
<1>11. ServedInv'
  <2>1. Open(g)' => Open(g) /\ finish_rounds'[g] = finish_rounds[g]
    BY <1>1, <1>5, <1>6 DEF Open
  <2>2. \A h \in Groups : Open(h)' => Open(h) /\ finish_rounds'[h] = finish_rounds[h]
    BY <1>1, <1>5, <2>1 DEF Open
  <2>3. SameLinks
    BY <1>1 DEF Switched
  <2>4. \A s \in Ranks : \A k \in ongoing'[s] : Node(s, k).kind = "send" => k \in ongoing[s]
    BY <1>3
  <2>5. QED
    BY <1>2, <2>2, <2>3, <2>4, ServedSame
<1>12. QED
  BY <1>1, <1>3, <1>5, <1>7, <1>8, <1>10, <1>11, CircuitsSame, Assemble

LEMMA StepLoop ==
    ASSUME UNCHANGED circuits, Conforms, WorkInv, EnterLoop \/ LoopStep \/ LeaveLoop
    PROVE  WorkInv'
<1>1. stack \in Seq(Frame) /\ pending \subseteq Requests /\ ready \in {"off", "armed", "open"}
      /\ changing \in BOOLEAN /\ wakeups \in BOOLEAN /\ phase \in {"run", "poll", "end"}
  BY TypeParts DEF WorkInv, SchedulerType
<1>2. CASE EnterLoop \/ LeaveLoop
  <2>1. stack' \in Seq(Frame)
    BY <1>1, <1>2, EnterType, TopFacts DEF EnterLoop, LeaveLoop
  <2>2. UNCHANGED <<graph, rounds, scheduler, network, wakeups, phase>>
    BY <1>2 DEF EnterLoop, LeaveLoop
  <2>3. QED
    BY <1>1, <2>1, <2>2, Unmoved DEF scheduler, network
<1>3. CASE LoopStep
  <2>1. stack # <<>> /\ ~Top.fresh
    BY <1>3 DEF LoopStep
  <2>2. PICK n \in Top.todo :
          \/ /\ stack' = After(n)
             /\ UNCHANGED <<graph, rounds, scheduler, network, wakeups, phase>>
          \/ /\ Available(Top.rank, n) /\ n \in Free(Top.rank)
             /\ \/ IssueComp(Top.rank, n) \/ IssueRecv(Top.rank, n) \/ IssueSend(Top.rank, n)
                \/ IssueUngated(Top.rank, n) \/ IssueColl(Top.rank, n)
    BY <1>3 DEF LoopStep
  <2>3. CASE /\ stack' = After(n)
             /\ UNCHANGED <<graph, rounds, scheduler, network, wakeups, phase>>
    <3>1. stack' \in Seq(Frame)
      BY <1>1, <2>1, <2>3, AfterFacts
    <3>2. QED
      BY <1>1, <2>3, <3>1, Unmoved DEF scheduler, network
  <2>4. QED
    BY <2>1, <2>2, <2>3, StepComp, StepRecv, StepSend, StepColl
<1>4. QED
  BY <1>2, <1>3

LEMMA StepClock ==
    ASSUME UNCHANGED circuits, WorkInv,
           \/ Settle \/ Wakeup \/ Poll \/ PollEnds \/ WindowOpens \/ WindowPasses
           \/ UNCHANGED vars
    PROVE  WorkInv'
<1>1. stack \in Seq(Frame) /\ pending \subseteq Requests
      /\ ready \in {"off", "armed", "open"}
      /\ changing \in BOOLEAN /\ wakeups \in BOOLEAN /\ phase \in {"run", "poll", "end"}
  BY TypeParts DEF WorkInv, SchedulerType
<1>2. UNCHANGED <<graph, rounds, stage_state, pending, current, inflight>>
  BY DEF Settle, Wakeup, Poll, PollEnds, WindowOpens, WindowPasses, vars, scheduler, network
<1>3. /\ ready' \in {"off", "armed", "open"} /\ changing' \in BOOLEAN /\ wakeups' \in BOOLEAN
      /\ phase' \in {"run", "poll", "end"}
  BY <1>1 DEF Settle, Wakeup, Poll, PollEnds, WindowOpens, WindowPasses, vars, scheduler, network
<1>4. stack' \in Seq(Frame)
  BY <1>1, AllRanksFacts DEF Settle, Wakeup, Poll, PollEnds, WindowOpens, WindowPasses, vars
<1>5. QED
  BY <1>1, <1>2, <1>3, <1>4, Unmoved

LEMMA StepInv ==
    ASSUME Conforms, WorkInv, [Next]_vars
    PROVE  WorkInv'
<1>1. UNCHANGED circuits
  BY DEF Next, Thread, WindowOpens, WindowPasses, vars
<1>2. QED
  BY <1>1, StepLoop, StepClock, StepOtherFinished, StepCollFinished DEF Next, Thread

LEMMA InitInv ==
    ASSUME Conforms, Init
    PROVE  WorkInv
<1>1. \A r \in Ranks : ongoing[r] = {} /\ done[r] = {}
  BY DEF Init
<1>2. \A g \in Groups : /\ vote_rounds[g] = 0 /\ finish_rounds[g] = 0
                        /\ \A r \in Members[g] : votes[g][r] = 0 /\ finishes[g][r] = 0
  BY DEF Init
<1>3. GraphInv /\ GraphType
  BY <1>1 DEF Init, GraphInv, GraphType, Closed
<1>4. RoundInv
  <2>1. ASSUME NEW g \in Groups, NEW r \in Members[g] PROVE RankRounds(g, r)
    <3>1. r \in Ranks
      BY WorkloadAssumption
    <3>2. \A n \in OfGroup(g, r) : Node(r, n).number \in Nat /\ Node(r, n).number > 0
      BY <3>1, NodeFacts DEF Conforms, Numbered, OfGroup
    <3>3. QED
      BY <1>1, <1>2, <3>1, <3>2 DEF RankRounds, Open
  <2>2. QED
    BY <1>2, <2>1 DEF RoundInv
<1>5. RoundType
  BY DEF Init, RoundType
<1>6. stack \in Seq(Frame)
  BY AllRanksFacts DEF Init
<1>7. InflightInv
  <2>1. OpenGroups = {} /\ Senders = {}
    BY <1>1, <1>2 DEF OpenGroups, Senders
  <2>2. QED
    BY <2>1, FS_EmptySet DEF Init, InflightInv
<1>8. ServedInv /\ StageStateCoherent
  BY <1>1, <1>2 DEF Init, ServedInv, StageStateCoherent, Open
<1>9. SchedulerType /\ current \in Topologies /\ circuits \in Schedules
  BY DEF Init, SchedulerType, Topologies, Digits
<1>10. TypeOK
  BY <1>3, <1>5, <1>6, <1>9, TypeParts DEF Init
<1>11. QED
  BY <1>3, <1>4, <1>6, <1>7, <1>8, <1>10 DEF WorkInv

-----------------------------------------------------------------------------
(* Theorems *)

\* For every workload that conforms, every reachable state satisfies the invariant.
THEOREM Workload == Conforms => (Spec => []WorkInv)
<1> SUFFICES ASSUME Conforms PROVE Spec => []WorkInv
  OBVIOUS
<1>1. Init => WorkInv
  BY InitInv
<1>2. WorkInv /\ [Next]_vars => WorkInv'
  BY StepInv
<1>3. QED
  BY <1>1, <1>2, PTL DEF Spec

\* Types, for any number of ranks, stages and groups; inflight_coll, which the handlers
\* of two kinds of completion decrement, never goes below zero.
THEOREM TypeCorrect == Conforms => (Spec => []TypeOK)
<1>1. WorkInv => TypeOK
  BY DEF WorkInv
<1>2. QED
  BY <1>1, Workload, PTL

\* A collective under way in a group is the one of the group's open round.
LEMMA OfRound ==
    ASSUME Conforms, WorkInv, NEW r \in Ranks, NEW n \in ongoing[r], Voting(r, n)
    PROVE  LET g == Node(r, n).grp IN
           /\ g \in Groups /\ r \in Members[g] /\ n \in OfGroup(g, r)
           /\ Open(g) /\ Node(r, n).number = finish_rounds[g] + 1
<1> DEFINE g == Node(r, n).grp
<1>1. n \in Nodes(r) /\ Ready(r, done[r], n)
  BY DEF WorkInv, TypeOK, GraphInv, Ready
<1>2. g \in Groups /\ r \in Members[g] /\ n \in OfGroup(g, r)
  BY <1>1, NodeFacts
<1>3. RankRounds(g, r)
  BY <1>2 DEF WorkInv, RoundInv
<1>4. finishes[g][r] = finish_rounds[g] /\ Open(g)
  BY <1>2, <1>3 DEF RankRounds
<1>5. Node(r, n).number = finishes[g][r] + 1
  BY <1>1, <1>2, <1>3, NextNumber DEF WorkInv, Conforms
<1>6. QED
  BY <1>2, <1>4, <1>5

\* A collective or a send under way runs on links that serve it, for every rank of the
\* group: pre_reconfig was asked by the one rank that opened the round only. It holds for
\* every circuit schedule, those that give two digits the same links included: there the
\* topology manager takes a new id at once, and the links it leaves are the same.
THEOREM Topology == Conforms => (Spec => []RightTopology)
<1> SUFFICES ASSUME Conforms PROVE Spec => []RightTopology
  OBVIOUS
<1>1. WorkInv => RightTopology
  <2> SUFFICES ASSUME WorkInv, NEW r \in Ranks, NEW n \in GatedOngoing(r)
               PROVE  Serves(current, Request(r, n))
    BY DEF RightTopology
  <2>1. n \in ongoing[r] /\ IsComm(r, n) /\ Node(r, n).gated
    BY DEF GatedOngoing
  <2>2. CASE Node(r, n).kind = "send"
    BY <2>1, <2>2 DEF WorkInv, ServedInv
  <2>3. CASE Node(r, n).kind = "coll"
    <3>1. Voting(r, n)
      BY <2>1, <2>3 DEF Voting
    <3>2. QED
      BY <2>1, <3>1, OfRound DEF WorkInv, ServedInv
  <2>4. QED
    BY <2>1, <2>2, <2>3 DEF IsComm
<1>2. QED
  BY <1>1, Workload, PTL

\* inflight_coll counts the open rounds and the sends, a group has at most one round open,
\* and its ranks that are in a round run the same collective.
THEOREM Rounds == Conforms => (Spec => []RoundsAgree)
<1> SUFFICES ASSUME Conforms PROVE Spec => []RoundsAgree
  OBVIOUS
<1>1. WorkInv => RoundsAgree
  <2> SUFFICES ASSUME WorkInv PROVE RoundsAgree
    OBVIOUS
  <2>1. \A g \in Groups : vote_rounds[g] \in {finish_rounds[g], finish_rounds[g] + 1}
    BY DEF WorkInv, RoundInv, Open
  <2>2. inflight = Cardinality({g \in Groups : vote_rounds[g] # finish_rounds[g]})
                   + Cardinality({r \in Ranks : \E n \in ongoing[r] : Node(r, n).kind = "send"})
    BY DEF WorkInv, InflightInv, OpenGroups, Senders
  <2>3. ASSUME NEW r \in Ranks, NEW s \in Ranks, NEW n \in GatedOngoing(r), NEW k \in GatedOngoing(s),
               Node(r, n).kind = "coll", Node(s, k).kind = "coll", Node(r, n).grp = Node(s, k).grp
        PROVE  Node(r, n).number = Node(s, k).number
    <3>1. n \in ongoing[r] /\ Voting(r, n) /\ k \in ongoing[s] /\ Voting(s, k)
      BY <2>3 DEF GatedOngoing, Voting
    <3>2. QED
      BY <2>3, <3>1, OfRound
  <2>4. QED
    BY <2>1, <2>2, <2>3 DEF RoundsAgree
<1>2. QED
  BY <1>1, Workload, PTL

\* Every step of a loop takes its node or none, and returns to the loop unless it opens a round.
LEMMA LoopMoves ==
    ASSUME TypeOK, LoopStep
    PROVE  \E n \in Top.todo :
             /\ Takes(Top.rank, n)
             /\ \/ stack' = After(n)
                \/ \E g \in Groups :
                     /\ Top.rank \in Members[g] /\ n \in ongoing'[Top.rank] /\ Voting(Top.rank, n)
                     /\ votes' = Voted(g, Top.rank) /\ CheckVote(g, Top.rank, votes')
                     /\ vote_rounds[g] = finish_rounds[g]
                     /\ \E p \in Orders(Peers(g, Top.rank)) :
                          stack' = After(n) \o [i \in DOMAIN p |-> Call(p[i])]
<1> DEFINE r == Top.rank
<1>1. r \in Ranks
  BY TopFacts, TypeParts DEF LoopStep, Frame
<1>2. PICK n \in Top.todo :
        \/ stack' = After(n) /\ UNCHANGED graph
        \/ /\ n \in Free(r)
           /\ \/ IssueComp(r, n) \/ IssueRecv(r, n) \/ IssueSend(r, n)
              \/ IssueUngated(r, n) \/ IssueColl(r, n)
  BY DEF LoopStep
<1> HIDE DEF r
<1>3. UNCHANGED graph \/ Take(r, n)
  BY <1>2 DEF IssueComp, IssueRecv, IssueSend, IssueUngated, IssueColl, Blocked
<1>4. Takes(r, n)
  <2>1. CASE UNCHANGED graph
    BY <2>1 DEF Takes, graph
  <2>2. CASE Take(r, n)
    <3>1. ongoing \in [Ranks -> SUBSET Nat]
      BY DEF TypeOK
    <3>2. QED
      BY <1>1, <2>2, <3>1 DEF Takes, Take
  <2>3. QED
    BY <1>3, <2>1, <2>2
<1>5. CASE stack' = After(n)
  BY <1>4, <1>5 DEF r
<1>6. CASE stack' # After(n)
  <2>1. n \in Free(r) /\ IssueColl(r, n)
    BY <1>2, <1>6 DEF IssueComp, IssueRecv, IssueSend, IssueUngated, Blocked
  <2> DEFINE g == Node(r, n).grp
  <2>2. /\ Voting(r, n) /\ votes' = Voted(g, r) /\ CheckVote(g, r, votes')
        /\ vote_rounds[g] = finish_rounds[g] /\ Take(r, n)
        /\ \E p \in Orders(Peers(g, r)) : stack' = After(n) \o [i \in DOMAIN p |-> Call(p[i])]
    BY <1>6, <2>1 DEF IssueColl, Blocked, Voting
  <2>3. n \in Nodes(r)
    BY <2>1 DEF Free
  <2>4. g \in Groups /\ r \in Members[g]
    BY <1>1, <2>2, <2>3, NodeFacts
  <2>5. n \in ongoing'[r]
    BY <1>1, <2>2 DEF Take, TypeOK
  <2> HIDE DEF g
  <2>6. QED
    BY <1>4, <2>2, <2>4, <2>5 DEF r
<1>7. QED
  BY <1>5, <1>6

LEMMA FrameStep ==
    ASSUME OneVote, WorkInv, FrameInv, [Next]_vars
    PROVE  FrameInv'
<1>1. TypeOK /\ GraphInv /\ RoundInv /\ stack \in Seq(Frame)
  BY TypeParts DEF WorkInv
<1>2. CASE LoopStep
  <2>1. PICK n \in Top.todo :
             /\ Takes(Top.rank, n)
             /\ \/ stack' = After(n)
                \/ \E g \in Groups :
                     /\ Top.rank \in Members[g] /\ n \in ongoing'[Top.rank] /\ Voting(Top.rank, n)
                     /\ votes' = Voted(g, Top.rank) /\ CheckVote(g, Top.rank, votes')
                     /\ vote_rounds[g] = finish_rounds[g]
                     /\ \E p \in Orders(Peers(g, Top.rank)) :
                          stack' = After(n) \o [i \in DOMAIN p |-> Call(p[i])]
    BY <1>1, <1>2, LoopMoves
  <2>2. stack # <<>> /\ ~Top.fresh
    BY <1>2 DEF LoopStep
  <2>3. CASE stack' = After(n)
    BY <1>1, <2>1, <2>2, <2>3, FrameAfter
  <2>4. CASE stack' # After(n)
    <3>1. PICK g \in Groups :
             /\ Top.rank \in Members[g] /\ n \in ongoing'[Top.rank] /\ Voting(Top.rank, n)
             /\ votes' = Voted(g, Top.rank) /\ CheckVote(g, Top.rank, votes')
             /\ vote_rounds[g] = finish_rounds[g]
             /\ \E p \in Orders(Peers(g, Top.rank)) :
                  stack' = After(n) \o [i \in DOMAIN p |-> Call(p[i])]
      BY <2>1, <2>4
    <3>2. PICK p \in Orders(Peers(g, Top.rank)) :
             stack' = After(n) \o [i \in DOMAIN p |-> Call(p[i])]
      BY <3>1
    <3>3. QED
      BY <1>1, <2>1, <2>2, <3>1, <3>2, FramePush
  <2>5. QED
    BY <2>3, <2>4
<1>3. CASE EnterLoop \/ LeaveLoop
  BY <1>1, <1>3, FrameEnter, FrameLeave
<1>4. ASSUME NEW r \in Ranks, NEW n, CollFinished(r, n) \/ PacketSent(r, n) \/ OtherFinished(r, n)
      PROVE  FrameInv'
  <2>1. stack' = <<Call(r)>>
    BY <1>4 DEF CollFinished, PacketSent, OtherFinished, Finish
  <2>2. Call(r) \in Frame /\ Call(r).fresh = TRUE /\ Call(r).todo = {}
    BY DEF Call, Frame
  <2>3. stack' \in Seq(Frame) /\ \A i \in DOMAIN stack' : stack'[i].fresh /\ stack'[i].todo = {}
    BY <2>1, <2>2
  <2>4. QED
    BY <2>3, FrameFresh
<1>5. CASE Poll
  BY <1>5, AllRanksFacts, FrameFresh DEF Poll
<1>6. CASE Settle \/ Wakeup \/ PollEnds \/ WindowOpens \/ WindowPasses \/ UNCHANGED vars
  <2>1. UNCHANGED <<stack, graph>>
    BY <1>6 DEF Settle, Wakeup, PollEnds, WindowOpens, WindowPasses, vars
  <2>2. QED
    BY <2>1, FrameSame
<1>7. QED
  BY <1>2, <1>3, <1>4, <1>5, <1>6 DEF Next, Thread

\* take_node never throws: what a loop has still to look at is free, whatever the loops it
\* calls do in between.
THEOREM NoThrow == Conforms /\ OneVote => (Spec => []NoDoubleIssue)
<1> SUFFICES ASSUME Conforms, OneVote PROVE Spec => []NoDoubleIssue
  OBVIOUS
<1>1. Init => FrameInv
  <2> SUFFICES ASSUME Init PROVE FrameInv
    OBVIOUS
  <2>1. stack = AllRanks /\ DOMAIN stack = 1..Len(stack)
    BY AllRanksFacts DEF Init
  <2>2. QED
    BY <2>1, AllRanksFacts DEF FrameInv
<1>2. WorkInv /\ FrameInv /\ [Next]_vars => FrameInv'
  BY FrameStep
<1>3. WorkInv /\ FrameInv => NoDoubleIssue
  <2> SUFFICES ASSUME WorkInv, FrameInv, NEW i \in DOMAIN stack, NEW n \in stack[i].todo
               PROVE  n \in Free(stack[i].rank)
    BY DEF NoDoubleIssue
  <2>1. stack \in Seq(Frame)
    BY TypeParts DEF WorkInv
  <2>2. i \in 1..Len(stack)
    BY <2>1
  <2>3. QED
    BY <2>2 DEF FrameInv
<1>4. QED
  BY <1>1, <1>2, <1>3, Workload, PTL DEF Spec

\* The scheduler's digits are those of the topology manager, whatever the workload.
THEOREM Coherent == Spec => []StageStateCoherent
<1>1. Init => StageStateCoherent
  BY DEF Init, StageStateCoherent
<1>2. StageStateCoherent /\ [Next]_vars => StageStateCoherent'
  <2> SUFFICES ASSUME StageStateCoherent, [Next]_vars PROVE StageStateCoherent'
    OBVIOUS
  <2> USE DEF StageStateCoherent
  <2>1. ASSUME NEW q, NEW ok, PreReconfig(q, ok) PROVE StageStateCoherent'
    BY <2>1 DEF PreReconfig, SimReconfig
  <2>2. CASE LoopStep
    <3>1. PICK r, n :
            \/ UNCHANGED <<scheduler, network>>
            \/ IssueComp(r, n) \/ IssueRecv(r, n) \/ IssueSend(r, n)
            \/ IssueUngated(r, n) \/ IssueColl(r, n)
      BY <2>2 DEF LoopStep
    <3>2. CASE IssueComp(r, n)
      BY <3>2 DEF IssueComp, SimReconfig
    <3>3. CASE IssueSend(r, n)
      BY <2>1, <3>3 DEF IssueSend
    <3>4. CASE IssueColl(r, n)
      BY <2>1, <3>4 DEF IssueColl, scheduler, network
    <3>5. QED
      BY <3>1, <3>2, <3>3, <3>4 DEF IssueRecv, IssueUngated, scheduler, network
  <2>3. CASE EnterLoop \/ LeaveLoop \/ Settle \/ Wakeup \/ Poll \/ PollEnds \/ UNCHANGED vars
    BY <2>3 DEF EnterLoop, LeaveLoop, Settle, Wakeup, Poll, PollEnds, vars, scheduler, network
  <2>4. CASE WindowOpens \/ WindowPasses
    BY <2>4 DEF WindowOpens, WindowPasses, network
  <2>5. ASSUME NEW r, NEW n, CollFinished(r, n) \/ PacketSent(r, n) \/ OtherFinished(r, n)
        PROVE  StageStateCoherent'
    BY <2>5 DEF CollFinished, PacketSent, OtherFinished, scheduler, network
  <2>6. QED
    BY <2>2, <2>3, <2>4, <2>5 DEF Next, Thread
<1>3. QED
  BY <1>1, <1>2, PTL DEF Spec
===============================================================================
