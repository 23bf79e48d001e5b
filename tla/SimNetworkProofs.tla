--------------------------- MODULE SimNetworkProofs ---------------------------
(***************************************************************************)
(* Proofs about SimNetwork, for any devices, topologies, bandwidths and    *)
(* messages, both routing algorithms and either reconfiguration time.      *)
(***************************************************************************)
EXTENDS SimNetwork, FiniteSetTheorems, TLAPS

-----------------------------------------------------------------------------
(* One link *)

QueuedAt(k) == {k.pending[i] : i \in 1..Len(k.pending)}

Held(k) == k.flying \cup QueuedAt(k)

\* LinkServed for one link.
Served(k) ==
    /\ k.pending # <<>> => k.busy \/ k.bw = 0
    /\ k.busy => k.sending # {} \/ k.refits > 0

\* A link holds a chunk once: queued at one place, or in flight.
Once(k) ==
    /\ k.flying \cap QueuedAt(k) = {}
    /\ \A i, j \in 1..Len(k.pending) : k.pending[i] = k.pending[j] => i = j

LinkOK(k) == k \in LinkRecord /\ Served(k) /\ Once(k)

\* What Append does to the chunks of a queue without repetition.
LEMMA AppendFacts ==
    ASSUME NEW s \in Seq(Msgs), NEW m \in Msgs,
           \A i, j \in 1..Len(s) : s[i] = s[j] => i = j
    PROVE  /\ Append(s, m) \in Seq(Msgs)
           /\ {Append(s, m)[i] : i \in 1..Len(Append(s, m))} = {s[i] : i \in 1..Len(s)} \cup {m}
           /\ m \notin {s[i] : i \in 1..Len(s)} =>
                \A i, j \in 1..Len(Append(s, m)) : Append(s, m)[i] = Append(s, m)[j] => i = j
<1>1. /\ Append(s, m) \in Seq(Msgs) /\ Len(Append(s, m)) = Len(s) + 1
      /\ Append(s, m)[Len(s) + 1] = m
      /\ \A i \in 1..Len(s) : Append(s, m)[i] = s[i]
  OBVIOUS
<1>2. {Append(s, m)[i] : i \in 1..Len(Append(s, m))} = {s[i] : i \in 1..Len(s)} \cup {m}
  <2> DEFINE A == {Append(s, m)[i] : i \in 1..Len(Append(s, m))}
             B == {s[i] : i \in 1..Len(s)} \cup {m}
  <2>1. ASSUME NEW x \in A PROVE x \in B
    BY <1>1, <2>1
  <2>2. ASSUME NEW x \in B PROVE x \in A
    BY <1>1, <2>2
  <2>3. QED
    BY <2>1, <2>2
<1>3. m \notin {s[i] : i \in 1..Len(s)} =>
        \A i, j \in 1..Len(Append(s, m)) : Append(s, m)[i] = Append(s, m)[j] => i = j
  <2> SUFFICES ASSUME \A i \in 1..Len(s) : s[i] # m,
                      NEW i \in 1..Len(s) + 1, NEW j \in 1..Len(s) + 1,
                      Append(s, m)[i] = Append(s, m)[j]
               PROVE  i = j
    BY <1>1
  <2> QED
    BY <1>1
<1>4. QED
  BY <1>1, <1>2, <1>3

\* What Tail does to them.
LEMMA TailFacts ==
    ASSUME NEW s \in Seq(Msgs), s # <<>>,
           \A i, j \in 1..Len(s) : s[i] = s[j] => i = j
    PROVE  /\ Head(s) \in Msgs /\ Tail(s) \in Seq(Msgs)
           /\ {s[i] : i \in 1..Len(s)} = {Tail(s)[i] : i \in 1..Len(Tail(s))} \cup {Head(s)}
           /\ Head(s) \notin {Tail(s)[i] : i \in 1..Len(Tail(s))}
           /\ \A i, j \in 1..Len(Tail(s)) : Tail(s)[i] = Tail(s)[j] => i = j
<1>1. /\ Len(s) \in Nat /\ Len(s) > 0 /\ Head(s) = s[1] /\ Head(s) \in Msgs
      /\ Tail(s) \in Seq(Msgs) /\ Len(Tail(s)) = Len(s) - 1
      /\ \A i \in 1..Len(s) - 1 : Tail(s)[i] = s[i + 1]
  OBVIOUS
<1> DEFINE A == {s[i] : i \in 1..Len(s)}
           B == {Tail(s)[i] : i \in 1..Len(Tail(s))} \cup {Head(s)}
<1>2. ASSUME NEW x \in A PROVE x \in B
  <2>1. PICK i \in 1..Len(s) : x = s[i]
    BY <1>2
  <2>2. CASE i = 1
    BY <2>1, <2>2, <1>1
  <2>3. CASE i # 1
    <3>1. i - 1 \in 1..Len(Tail(s)) /\ Tail(s)[i - 1] = x
      BY <2>1, <2>3, <1>1
    <3>2. QED
      BY <3>1
  <2>4. QED
    BY <2>2, <2>3
<1>3. ASSUME NEW x \in B PROVE x \in A
  <2>1. CASE x = Head(s)
    BY <2>1, <1>1
  <2>2. CASE x # Head(s)
    <3>1. PICK i \in 1..Len(s) - 1 : x = s[i + 1]
      BY <1>1, <1>3, <2>2
    <3>2. i + 1 \in 1..Len(s)
      BY <1>1
    <3>3. QED
      BY <3>1, <3>2
  <2>3. QED
    BY <2>1, <2>2
<1>4. A = B
  BY <1>2, <1>3
<1>5. \A i \in 1..Len(Tail(s)) : Tail(s)[i] # Head(s)
  <2> SUFFICES ASSUME NEW i \in 1..Len(s) - 1 PROVE s[i + 1] # s[1]
    BY <1>1
  <2> i + 1 \in 1..Len(s) /\ 1 \in 1..Len(s) /\ i + 1 # 1
    BY <1>1
  <2> QED
    OBVIOUS
<1>6. \A i, j \in 1..Len(Tail(s)) : Tail(s)[i] = Tail(s)[j] => i = j
  <2> SUFFICES ASSUME NEW i \in 1..Len(s) - 1, NEW j \in 1..Len(s) - 1, s[i + 1] = s[j + 1]
               PROVE  i = j
    BY <1>1
  <2>1. i + 1 \in 1..Len(s) /\ j + 1 \in 1..Len(s)
    BY <1>1
  <2>2. i + 1 = j + 1
    BY <2>1
  <2> QED
    BY <2>2
<1>7. QED
  BY <1>1, <1>4, <1>5, <1>6

\* A transmission of a chunk that the link does not hold.
LEMMA TransmitOK ==
    ASSUME NEW k \in LinkRecord, Once(k), NEW m \in Msgs, m \notin Held(k)
    PROVE  /\ LinkOK(Transmit(k, m)) /\ Transmit(k, m).bw = k.bw
           /\ Held(Transmit(k, m)) = Held(k) \cup {m}
<1> DEFINE t == Transmit(k, m)
<1>1. /\ t.pending = k.pending /\ t.bw = k.bw /\ t.refits = k.refits /\ t.busy = TRUE
      /\ t.flying = k.flying \cup {m} /\ t.sending = k.sending \cup {m}
      /\ t \in LinkRecord
  BY DEF LinkRecord, Transmit
<1> HIDE DEF t
<1>2. QueuedAt(t) = QueuedAt(k) /\ Served(t)
  BY <1>1 DEF QueuedAt, Served
<1>3. Held(t) = Held(k) \cup {m}
  BY <1>1, <1>2 DEF Held
<1>4. Once(t)
  BY <1>1, <1>2 DEF Once, Held
<1>5. QED
  BY <1>1, <1>2, <1>3, <1>4 DEF LinkOK, t

\* Device::send takes over the chunk.
LEMMA OfferOK ==
    ASSUME NEW k, LinkOK(k), NEW m \in Msgs, m \notin Held(k)
    PROVE  /\ LinkOK(Offer(k, m)) /\ Offer(k, m).bw = k.bw
           /\ Held(Offer(k, m)) = Held(k) \cup {m}
<1>1. CASE k.busy \/ k.bw = 0
  <2> DEFINE o == [k EXCEPT !.pending = Append(k.pending, m)]
  <2>1. Offer(k, m) = o
    BY <1>1 DEF Offer
  <2>2. k.pending \in Seq(Msgs)
    BY DEF LinkOK, LinkRecord
  <2>3. m \notin QueuedAt(k) /\ m \notin k.flying
    BY DEF Held
  <2>4. /\ o.pending = Append(k.pending, m) /\ o.busy = k.busy /\ o.bw = k.bw
        /\ o.sending = k.sending /\ o.refits = k.refits /\ o.flying = k.flying
    BY DEF LinkOK, LinkRecord
  <2>5. /\ o.pending \in Seq(Msgs) /\ QueuedAt(o) = QueuedAt(k) \cup {m}
        /\ \A i, j \in 1..Len(o.pending) : o.pending[i] = o.pending[j] => i = j
    BY AppendFacts, <2>2, <2>3, <2>4 DEF LinkOK, Once, QueuedAt
  <2>6. o \in LinkRecord
    BY <2>5, <2>4 DEF LinkOK, LinkRecord
  <2>7. Served(o)
    BY <1>1, <2>4 DEF LinkOK, Served
  <2>8. Once(o)
    BY <2>3, <2>4, <2>5, ZenonT(60) DEF LinkOK, Once
  <2> HIDE DEF o
  <2>9. QED
    BY <2>1, <2>4, <2>5, <2>6, <2>7, <2>8 DEF LinkOK, Held
<1>2. CASE ~(k.busy \/ k.bw = 0)
  BY <1>2, TransmitOK DEF Offer, LinkOK
<1>3. QED
  BY <1>1, <1>2

\* link_become_free serves the queue, whatever state the link was in.
LEMMA BecomeFreeOK ==
    ASSUME NEW k \in LinkRecord, Once(k)
    PROVE  /\ LinkOK(BecomeFree(k)) /\ BecomeFree(k).bw = k.bw
           /\ Held(BecomeFree(k)) = Held(k)
<1>1. CASE GoesIdle(k)
  <2> DEFINE t == [k EXCEPT !.busy = FALSE]
  <2>1. /\ t.pending = k.pending /\ t.bw = k.bw /\ t.busy = FALSE /\ t.flying = k.flying
        /\ t \in LinkRecord /\ BecomeFree(k) = t
    BY <1>1 DEF LinkRecord, BecomeFree
  <2> HIDE DEF t
  <2>2. QueuedAt(t) = QueuedAt(k) /\ Served(t)
    BY <1>1, <2>1 DEF QueuedAt, Served, GoesIdle
  <2>3. Once(t) /\ Held(t) = Held(k)
    BY <2>1, <2>2 DEF Once, Held
  <2>4. QED
    BY <2>1, <2>2, <2>3 DEF LinkOK
<1>2. CASE ~GoesIdle(k)
  <2> DEFINE h == Head(k.pending)
             t == [k EXCEPT !.pending = Tail(k.pending)]
  <2>1. BecomeFree(k) = Transmit(t, h)
    BY <1>2 DEF BecomeFree
  <2>2. k.pending \in Seq(Msgs) /\ k.pending # <<>>
    BY <1>2 DEF LinkRecord, GoesIdle
  <2>3. /\ h = Head(k.pending)
        /\ t.pending = Tail(k.pending) /\ t.flying = k.flying /\ t.bw = k.bw
    BY DEF LinkRecord
  <2> HIDE DEF h, t
  <2>4. /\ h \in Msgs /\ t.pending \in Seq(Msgs)
        /\ QueuedAt(k) = QueuedAt(t) \cup {h} /\ h \notin QueuedAt(t)
        /\ \A i, j \in 1..Len(t.pending) : t.pending[i] = t.pending[j] => i = j
    BY TailFacts, <2>2, <2>3 DEF Once, QueuedAt
  <2>5. t \in LinkRecord
    BY <2>3, <2>4 DEF LinkRecord, t
  <2>6. Once(t) /\ h \notin Held(t) /\ Held(k) = Held(t) \cup {h}
    BY <2>3, <2>4 DEF Once, Held
  <2>7. QED
    BY <2>1, <2>3, <2>4, <2>5, <2>6, TransmitOK
<1>3. QED
  BY <1>1, <1>2

\* A reconfiguration gives the link its bandwidth and keeps its chunks.
LEMMA RefitOK ==
    ASSUME NEW k, LinkOK(k), NEW b \in Nat
    PROVE  LinkOK(Refit(k, b)) /\ Refit(k, b).bw = b /\ Held(Refit(k, b)) = Held(k)
<1> DEFINE r == [k EXCEPT !.bw = b]
<1>1. /\ r \in LinkRecord /\ Once(r) /\ Held(r) = Held(k) /\ r.bw = b
      /\ r.pending = k.pending /\ r.busy = k.busy /\ r.sending = k.sending /\ r.refits = k.refits
  BY DEF LinkOK, LinkRecord, Once, Held, QueuedAt
<1>2. CASE (instant \/ b = k.bw) /\ r.pending # <<>> /\ b # 0
  <2>1. Refit(k, b) = BecomeFree(r)
    BY <1>2 DEF Refit
  <2> HIDE DEF r
  <2>2. QED
    BY <2>1, <1>1, BecomeFreeOK
<1>3. CASE (instant \/ b = k.bw) /\ ~(r.pending # <<>> /\ b # 0)
  <2>1. Refit(k, b) = r
    BY <1>3 DEF Refit
  <2>2. Served(r)
    BY <1>1, <1>3 DEF Served, LinkOK
  <2> HIDE DEF r
  <2>3. QED
    BY <2>1, <2>2, <1>1 DEF LinkOK
<1>4. CASE ~(instant \/ b = k.bw)
  <2>1. PICK n \in Nat : n = k.refits + 1 /\ n > 0
    BY DEF LinkOK, LinkRecord
  <2> DEFINE u == [k EXCEPT !.busy = TRUE, !.bw = b, !.refits = n]
  <2>2. /\ u.pending = k.pending /\ u.bw = b /\ u.busy = TRUE /\ u.flying = k.flying
        /\ u.refits = n /\ u \in LinkRecord
    BY DEF LinkOK, LinkRecord
  <2>3. Refit(k, b) = u
    BY <1>4, <2>1 DEF Refit
  <2> HIDE DEF u
  <2>4. QueuedAt(u) = QueuedAt(k) /\ Served(u)
    BY <2>1, <2>2 DEF QueuedAt, Served
  <2>5. Once(u) /\ Held(u) = Held(k)
    BY <2>2, <2>4 DEF LinkOK, Once, Held
  <2>6. QED
    BY <2>2, <2>3, <2>4, <2>5 DEF LinkOK
<1>5. QED
  BY <1>2, <1>3, <1>4

\* A chunk's arrival takes it off the link and leaves the link in use.
LEMMA ArriveOK ==
    ASSUME NEW k, LinkOK(k), NEW m \in k.flying
    PROVE  /\ LinkOK([k EXCEPT !.flying = k.flying \ {m}])
           /\ [k EXCEPT !.flying = k.flying \ {m}].bw = k.bw
           /\ Held([k EXCEPT !.flying = k.flying \ {m}]) = Held(k) \ {m}
BY DEF LinkOK, LinkRecord, Served, Once, Held, QueuedAt
-----------------------------------------------------------------------------
(* The inductive invariant *)

\* A chunk on its way is held by the next link of its route, and by no other.
Placed ==
    \A l \in Links, m \in Msgs :
        m \in Held(link[l]) <=> Len(route[m]) > 1 /\ l = HopOf(route[m])

Installed == \A l \in Links : link[l].bw = Bw[cur_topo_id][l]

\* Outside a change, and once a change only waits for its end, the links are
\* those of the current topology.
GateInv ==
    /\ ~reconfiguring => Installed
    /\ finishing => reconfiguring /\ opus /\ ~draining /\ Installed

NetInv ==
    /\ TypeOK
    /\ \A l \in Links : LinkOK(link[l])
    /\ Placed
    /\ GateInv
    /\ InflightExact

Relying == {m \in Msgs : HoldsGate(m) /\ Travelling(m)}

\* There are finitely many links and communications.
LEMMA Finite == IsFiniteSet(Links) /\ IsFiniteSet(Relying) /\ Cardinality(Links) \in Nat
<1>1. IsFiniteSet(Devices \X Devices)
  BY NetworkAssumption, FS_Product
<1>2. IsFiniteSet(Links)
  BY <1>1, FS_Subset DEF Links
<1>3. IsFiniteSet(Relying)
  BY NetworkAssumption, FS_Subset DEF Relying
<1>4. QED
  BY <1>2, <1>3, FS_CardinalityType

\* A route visits at least two devices.
LEMMA RouteType ==
    ASSUME NEW m \in Msgs, cur_topo_id \in Topos, NEW r \in RoutesFor(m)
    PROVE  r \in Seq(Devices) /\ Len(r) > 1
<1>1. Src[m] \in Devices /\ Dst[m] \in Devices /\ <<Src[m], Dst[m]>> \in Links
  BY NetworkAssumption DEF Links
<1>2. CASE r = <<Src[m], Dst[m]>>
  BY <1>1, <1>2
<1>3. CASE r \in Cheapest[cur_topo_id][<<Src[m], Dst[m]>>]
  <2>1. r \in Paths(Bw[cur_topo_id], Src[m], Dst[m])
    BY <1>1, <1>3 DEF Cheapest
  <2>2. PICK n \in 2..Cardinality(Devices) : r \in [1..n -> Devices]
    BY <2>1 DEF Paths
  <2>3. n \in Nat /\ n > 1
    BY <2>2, NetworkAssumption, FS_CardinalityType
  <2>4. QED
    BY <2>2, <2>3
<1>4. QED
  BY <1>2, <1>3 DEF RoutesFor

\* The state after main.cc's first reconfigure.
LEMMA InitInv == Init => NetInv
<1> SUFFICES ASSUME Init PROVE NetInv
  OBVIOUS
<1>1. cur_topo_id \in Topos /\ Bw[cur_topo_id] \in [Links -> Nat]
  BY NetworkAssumption DEF Init
<1>2. \A l \in Links : LinkOK(link[l]) /\ Held(link[l]) = {} /\ link[l].bw = Bw[cur_topo_id][l]
  <2> SUFFICES ASSUME NEW l \in Links
               PROVE  LinkOK(link[l]) /\ Held(link[l]) = {} /\ link[l].bw = Bw[cur_topo_id][l]
    OBVIOUS
  <2> DEFINE b == Bw[cur_topo_id][l]
             Fresh(f, n) == [bw |-> b, busy |-> f, pending |-> <<>>,
                             flying |-> {}, sending |-> {}, refits |-> n]
  <2>1. link[l] = Fresh(TRUE, 1) \/ link[l] = Fresh(FALSE, 0)
    BY DEF Init, IdleLink
  <2>2. b \in Nat
    BY <1>1
  <2> HIDE DEF b
  <2>3. CASE link[l] = Fresh(TRUE, 1)
    BY <2>2, <2>3 DEF LinkOK, LinkRecord, Served, Once, Held, QueuedAt, b
  <2>4. CASE link[l] = Fresh(FALSE, 0)
    BY <2>2, <2>4 DEF LinkOK, LinkRecord, Served, Once, Held, QueuedAt, b
  <2>5. QED
    BY <2>1, <2>3, <2>4
<1>3. link \in [Links -> LinkRecord]
  BY <1>2 DEF Init, LinkOK
<1>4. TypeOK
  <2>0. /\ route = [m \in Msgs |-> <<>>] /\ handled = [m \in Msgs |-> 0]
        /\ tracker = [m \in Msgs |-> {}]
    BY DEF Init
  <2>1. /\ route \in [Msgs -> Seq(Devices)] /\ handled \in [Msgs -> Nat]
        /\ tracker \in [Msgs -> SUBSET {"send", "recv", "finished"}]
    BY <2>0
  <2>2. /\ reconfiguring \in BOOLEAN /\ finishing \in BOOLEAN /\ draining \in BOOLEAN
        /\ opus \in BOOLEAN /\ instant \in BOOLEAN
    BY DEF Init
  <2>3. QED
    BY <1>1, <1>3, <2>1, <2>2 DEF Init, TypeOK
<1>0. \A m \in Msgs : Len(route[m]) = 0
  BY DEF Init
<1>5. Placed /\ GateInv
  <2>1. Placed
    BY <1>0, <1>2 DEF Placed
  <2>2. GateInv
    BY <1>2 DEF Init, GateInv, Installed
  <2>3. QED
    BY <2>1, <2>2
<1>6. Relying = {}
  BY <1>0 DEF Relying, Travelling
<1>7. InflightExact
  BY <1>6, FS_EmptySet DEF Init, InflightExact, Relying
<1>8. QED
  BY <1>2, <1>4, <1>5, <1>7 DEF NetInv

-----------------------------------------------------------------------------
(* The topology manager *)

\* Links lk whose chunks are those of link.
Keeps(lk) ==
    /\ lk \in [Links -> LinkRecord]
    /\ \A l \in Links : LinkOK(lk[l]) /\ Held(lk[l]) = Held(link[l])

\* A count that is not complete changes no link; a complete one changes all.
LEMMA CountedStep ==
    ASSUME NEW lk, Keeps(lk), NEW t \in Topos, NEW n \in Nat, Counted(lk, t, n)
    PROVE  /\ Keeps(link') /\ num_drained_links' \in Nat
           /\ \/ /\ link' = lk /\ reconfiguring' = TRUE
                 /\ draining' = opus /\ finishing' = finishing
              \/ /\ \A l \in Links : link'[l].bw = Bw[t][l]
                 /\ draining' = FALSE
                 /\ reconfiguring' = (opus /\ ~instant) /\ finishing' = (opus /\ ~instant)
<1>1. CASE n < Cardinality(Links)
  BY <1>1 DEF Counted
<1>2. CASE ~(n < Cardinality(Links))
  <2>1. /\ link' = [l \in Links |-> Refit(lk[l], Bw[t][l])]
        /\ num_drained_links' = 0 /\ draining' = FALSE
        /\ reconfiguring' = (opus /\ ~instant) /\ finishing' = (opus /\ ~instant)
    BY <1>2 DEF Counted, InstallAll
  <2>2. ASSUME NEW l \in Links
        PROVE  /\ LinkOK(link'[l]) /\ link'[l].bw = Bw[t][l]
               /\ Held(link'[l]) = Held(link[l])
    <3>1. Bw[t][l] \in Nat
      BY NetworkAssumption
    <3>2. LinkOK(lk[l]) /\ Held(lk[l]) = Held(link[l])
      BY DEF Keeps
    <3>3. QED
      BY <2>1, <3>1, <3>2, RefitOK
  <2>3. link' \in [Links -> LinkRecord]
    BY <2>1, <2>2 DEF LinkOK
  <2>4. QED
    BY <2>1, <2>2, <2>3 DEF Keeps
<1>3. QED
  BY <1>1, <1>2

\* What a freed link does: nothing to the bandwidths and the change under
\* way, or the installation of the current topology.
LEMMA FreeStep ==
    ASSUME NetInv, NEW l \in Links, NEW k \in LinkRecord, Once(k),
           Held(k) = Held(link[l]), k.bw = link[l].bw, LinkBecomeFree(l, k)
    PROVE  /\ Keeps(link') /\ num_drained_links' \in Nat /\ cur_topo_id' = cur_topo_id
           /\ \/ /\ \A j \in Links : link'[j].bw = link[j].bw
                 /\ reconfiguring' = reconfiguring /\ finishing' = finishing
                 /\ draining' \in BOOLEAN /\ (finishing => draining' = draining)
              \/ /\ reconfiguring
                 /\ \A j \in Links : link'[j].bw = Bw[cur_topo_id][j]
                 /\ draining' = FALSE
                 /\ reconfiguring' = (opus /\ ~instant) /\ finishing' = (opus /\ ~instant)
<1> DEFINE lk == [link EXCEPT ![l] = BecomeFree(k)]
<1>t. /\ TypeOK /\ GateInv /\ cur_topo_id \in Topos /\ num_drained_links + 1 \in Nat
      /\ link \in [Links -> LinkRecord]
      /\ opus \in BOOLEAN /\ draining \in BOOLEAN /\ reconfiguring \in BOOLEAN
  BY DEF NetInv, TypeOK
<1>1. LinkOK(BecomeFree(k)) /\ BecomeFree(k).bw = k.bw /\ Held(BecomeFree(k)) = Held(k)
  BY BecomeFreeOK
<1>2. \A j \in Links : lk[j] = IF j = l THEN BecomeFree(k) ELSE link[j]
  BY <1>t
<1>3. Keeps(lk) /\ \A j \in Links : lk[j].bw = link[j].bw
  BY <1>t, <1>1, <1>2 DEF Keeps, NetInv, LinkOK
<1> HIDE DEF lk
<1>4. CASE /\ link' = lk
           /\ num_drained_links' \in {0, num_drained_links}
           /\ UNCHANGED <<reconfiguring, draining, finishing, cur_topo_id>>
  BY <1>3, <1>4, <1>t DEF TypeOK
<1>5. CASE /\ reconfiguring /\ (opus => draining)
           /\ Counted(lk, cur_topo_id, num_drained_links + 1)
           /\ UNCHANGED cur_topo_id
  <2>1. ~finishing
    BY <1>5, <1>t DEF GateInv
  <2>2. /\ Keeps(link') /\ num_drained_links' \in Nat
        /\ \/ /\ link' = lk /\ reconfiguring' = TRUE
              /\ draining' = opus /\ finishing' = finishing
           \/ /\ \A j \in Links : link'[j].bw = Bw[cur_topo_id][j]
              /\ draining' = FALSE
              /\ reconfiguring' = (opus /\ ~instant) /\ finishing' = (opus /\ ~instant)
    BY <1>5, <1>3, <1>t, CountedStep
  <2>3. reconfiguring = TRUE
    BY <1>5, <1>t
  <2>4. QED
    BY <2>1, <2>2, <2>3, <1>3, <1>5, <1>t
<1>6. QED
  BY <1>4, <1>5 DEF LinkBecomeFree, LinkDrained, lk

\* A step of the topology manager leaves messages alone.
LEMMA ManagerFrame ==
    ASSUME NetInv, UNCHANGED <<config, inflight_coll, route, api>>,
           Keeps(link'), num_drained_links' \in Nat, cur_topo_id' \in Topos,
           reconfiguring' \in BOOLEAN, draining' \in BOOLEAN, finishing' \in BOOLEAN,
           GateInv'
    PROVE  NetInv'
<1>1. TypeOK'
  BY DEF NetInv, TypeOK, config, api, Keeps
<1>2. \A l \in Links : LinkOK(link'[l]) /\ Held(link'[l]) = Held(link[l])
  BY DEF Keeps
<1>3. Placed'
  BY <1>2 DEF NetInv, Placed
<1>4. InflightExact'
  BY DEF NetInv, InflightExact, HoldsGate, Gated, Travelling, config
<1>5. QED
  BY <1>1, <1>2, <1>3, <1>4 DEF NetInv
-----------------------------------------------------------------------------
(* The steps, and what they are for TopologyGate *)

\* The links as TopologyGate sees them.
LEMMA Views ==
    ASSUME NEW t \in Topos
    PROVE  /\ (\A l \in Links : link'[l].bw = link[l].bw) =>
                [l \in Links |-> link'[l].bw] = [l \in Links |-> link[l].bw]
           /\ (\A l \in Links : link'[l].bw = Bw[t][l]) => [l \in Links |-> link'[l].bw] = Bw[t]
           /\ (\A l \in Links : link[l].bw = Bw[t][l]) => [l \in Links |-> link[l].bw] = Bw[t]
<1>1. Bw[t] = [l \in Links |-> Bw[t][l]]
  BY NetworkAssumption
<1>2. QED
  BY <1>1

\* A granted switch is a Relabel or a Switch.
LEMMA ReconfigureStep ==
    ASSUME NetInv, NEW t \in Topos, Reconfigure(t)
    PROVE  NetInv' /\ Gate!GateNext
<1>t. /\ TypeOK /\ GateInv /\ cur_topo_id \in Topos /\ Keeps(link)
      /\ opus \in BOOLEAN /\ draining \in BOOLEAN /\ reconfiguring \in BOOLEAN
      /\ instant \in BOOLEAN /\ finishing \in BOOLEAN
  BY DEF NetInv, TypeOK, Keeps
<1>0. cur_topo_id' = t /\ UNCHANGED <<config, inflight_coll, route, api>>
  BY DEF Reconfigure
<1>1. CASE SameLinks(t) /\ UNCHANGED <<link, num_drained_links, reconfiguring, draining, finishing>>
  <2>1. ~reconfiguring /\ Bw[t] = Bw[cur_topo_id] /\ ~finishing
    BY <1>1, <1>t DEF SameLinks, GateInv
  <2>2. GateInv'
    BY <1>t, <2>1, <1>0, <1>1 DEF GateInv, Installed
  <2>3. NetInv'
    BY <1>t, <1>0, <1>1, <2>2, ManagerFrame DEF TypeOK, Keeps
  <2>4. Gate!Relabel(t)
    BY <1>0, <1>1, <2>1 DEF Gate!Relabel
  <2>5. QED
    BY <2>3, <2>4 DEF Gate!GateNext
<1>2. CASE MayReconfigure /\ Counted(link, t, Cardinality({l \in Links : ~link[l].busy}))
  <2>1. Cardinality({l \in Links : ~link[l].busy}) \in Nat
    BY Finite, FS_Subset, FS_CardinalityType
  <2>2. /\ Keeps(link') /\ num_drained_links' \in Nat
        /\ \/ /\ link' = link /\ reconfiguring' = TRUE
              /\ draining' = opus /\ finishing' = finishing
           \/ /\ \A l \in Links : link'[l].bw = Bw[t][l]
              /\ draining' = FALSE
              /\ reconfiguring' = (opus /\ ~instant) /\ finishing' = (opus /\ ~instant)
    BY <1>2, <1>t, <2>1, CountedStep
  <2>3. ~reconfiguring /\ inflight_coll = 0 /\ ~finishing
    BY <1>2, <1>t DEF MayReconfigure, GateInv
  <2>4. opus' = opus
    BY <1>0 DEF config
  <2>5. GateInv'
    BY <2>2, <2>3, <2>4, <1>0, <1>t DEF GateInv, Installed
  <2>6. NetInv'
    BY <2>2, <2>5, <1>0, <1>t, ManagerFrame
  <2>7. reconfiguring' \in BOOLEAN
    BY <2>2, <1>t
  <2>8. Gate!Switch(t)
    BY <2>2, <2>3, <2>7, <1>0, Views DEF Gate!Switch
  <2>9. QED
    BY <2>6, <2>8 DEF Gate!GateNext
<1>3. QED
  BY <1>1, <1>2 DEF Reconfigure

\* The end of a reconfiguration is a Settle.
LEMMA FinishStep ==
    ASSUME NetInv, FinishReconfiguration
    PROVE  NetInv' /\ Gate!GateNext
<1>1. /\ finishing /\ finishing' = FALSE /\ reconfiguring' = FALSE /\ draining' = FALSE
      /\ num_drained_links' = 0 /\ UNCHANGED <<link, cur_topo_id>>
      /\ UNCHANGED <<config, inflight_coll, route, api>>
  BY DEF FinishReconfiguration
<1>2. reconfiguring /\ Installed /\ cur_topo_id \in Topos /\ Keeps(link)
  BY <1>1 DEF NetInv, GateInv, TypeOK, Keeps
<1>3. GateInv'
  BY <1>1, <1>2 DEF GateInv, Installed
<1>4. NetInv'
  BY <1>1, <1>2, <1>3, ManagerFrame DEF Keeps
<1>5. Gate!Settle
  BY <1>1, <1>2, Views DEF Gate!Settle, Installed
<1>6. QED
  BY <1>4, <1>5 DEF Gate!GateNext

\* The free event of a link is an Install or nothing.
LEMMA FreeKeeps ==
    ASSUME NetInv, NEW l \in Links, NEW k \in LinkRecord, Once(k),
           Held(k) = Held(link[l]), k.bw = link[l].bw, LinkBecomeFree(l, k),
           UNCHANGED <<config, inflight_coll, route, api>>
    PROVE  NetInv' /\ [Gate!GateNext]_(Gate!gateVars)
<1>t. /\ GateInv /\ cur_topo_id \in Topos
      /\ opus \in BOOLEAN /\ draining \in BOOLEAN /\ reconfiguring \in BOOLEAN
      /\ instant \in BOOLEAN /\ finishing \in BOOLEAN
  BY DEF NetInv, TypeOK
<1>0. opus' = opus
  BY DEF config
<1>1. Keeps(link') /\ num_drained_links' \in Nat /\ cur_topo_id' = cur_topo_id
  BY FreeStep
<1>2. CASE /\ \A j \in Links : link'[j].bw = link[j].bw
           /\ reconfiguring' = reconfiguring /\ finishing' = finishing
           /\ draining' \in BOOLEAN /\ (finishing => draining' = draining)
  <2>1. GateInv'
    BY <1>0, <1>1, <1>2, <1>t DEF GateInv, Installed
  <2>2. NetInv'
    BY <1>1, <1>2, <1>t, <2>1, ManagerFrame
  <2>3. UNCHANGED Gate!gateVars
    BY <1>1, <1>2, <1>t, Views DEF Gate!gateVars
  <2>4. QED
    BY <2>2, <2>3
<1>3. CASE /\ reconfiguring
           /\ \A j \in Links : link'[j].bw = Bw[cur_topo_id][j]
           /\ draining' = FALSE
           /\ reconfiguring' = (opus /\ ~instant) /\ finishing' = (opus /\ ~instant)
  <2>1. GateInv'
    BY <1>0, <1>1, <1>3, <1>t DEF GateInv, Installed
  <2>2. reconfiguring' \in BOOLEAN /\ finishing' \in BOOLEAN
    BY <1>3, <1>t
  <2>3. NetInv'
    BY <1>1, <1>3, <1>t, <2>1, <2>2, ManagerFrame
  <2>4. Gate!Install
    BY <1>1, <1>3, <1>t, <2>2, Views DEF Gate!Install
  <2>5. QED
    BY <2>3, <2>4 DEF Gate!GateNext
<1>4. QED
  BY <1>2, <1>3, FreeStep

\* The free event of a transmission is one of them.
LEMMA TransmissionStep ==
    ASSUME NetInv, NEW m \in Msgs, NEW l \in Links, TransmissionEnds(m, l)
    PROVE  NetInv' /\ [Gate!GateNext]_(Gate!gateVars)
<1> DEFINE k == [link[l] EXCEPT !.sending = link[l].sending \ {m}]
<1>1. link[l] \in LinkRecord /\ Once(link[l])
  BY DEF NetInv, LinkOK
<1>2. /\ k \in LinkRecord /\ k.flying = link[l].flying /\ k.pending = link[l].pending
      /\ k.bw = link[l].bw
  BY <1>1 DEF LinkRecord
<1>3. LinkBecomeFree(l, k) /\ UNCHANGED <<config, inflight_coll, route, api>>
  BY DEF TransmissionEnds
<1> HIDE DEF k
<1>4. Once(k) /\ Held(k) = Held(link[l])
  BY <1>1, <1>2 DEF Once, Held, QueuedAt
<1>5. QED
  BY <1>2, <1>3, <1>4, FreeKeeps

\* The free event of a reconfigured link is another.
LEMMA RefitEndsStep ==
    ASSUME NetInv, NEW l \in Links, RefitEnds(l)
    PROVE  NetInv' /\ [Gate!GateNext]_(Gate!gateVars)
<1>1. link[l] \in LinkRecord /\ Once(link[l]) /\ link[l].refits > 0
  BY DEF NetInv, LinkOK, RefitEnds
<1>2. PICK n \in Nat : n = link[l].refits - 1
  BY <1>1 DEF LinkRecord
<1> DEFINE k == [link[l] EXCEPT !.refits = n]
<1>3. /\ k \in LinkRecord /\ k.flying = link[l].flying /\ k.pending = link[l].pending
      /\ k.bw = link[l].bw
  BY <1>1 DEF LinkRecord
<1>4. LinkBecomeFree(l, k) /\ UNCHANGED <<config, inflight_coll, route, api>>
  BY <1>2 DEF RefitEnds
<1> HIDE DEF k
<1>5. Once(k) /\ Held(k) = Held(link[l])
  BY <1>1, <1>3 DEF Once, Held, QueuedAt
<1>6. QED
  BY <1>3, <1>4, <1>5, FreeKeeps
\* A step of a message leaves the topology manager and the bandwidths alone.
LEMMA MessageFrame ==
    ASSUME NetInv, UNCHANGED <<config, manager>>,
           link' \in [Links -> LinkRecord],
           \A l \in Links : LinkOK(link'[l]) /\ link'[l].bw = link[l].bw,
           route' \in [Msgs -> Seq(Devices)],
           tracker' \in [Msgs -> SUBSET {"send", "recv", "finished"}],
           recv_event' \subseteq Msgs, handled' \in [Msgs -> Nat],
           inflight_coll' \in Nat, Placed', InflightExact'
    PROVE  /\ NetInv' /\ UNCHANGED <<cur_topo_id, reconfiguring>>
           /\ [l \in Links |-> link'[l].bw] = [l \in Links |-> link[l].bw]
<1>1. TypeOK'
  BY DEF NetInv, TypeOK, config, manager
<1>2. GateInv'
  BY DEF NetInv, GateInv, Installed, config, manager
<1>3. QED
  BY <1>1, <1>2 DEF NetInv, manager

\* The number of communications that hold the gate.
LEMMA RelyingCount ==
    ASSUME NetInv, NEW m \in Msgs, HoldsGate(m)
    PROVE  /\ Cardinality(Relying) = inflight_coll /\ inflight_coll \in Nat
           /\ ~Travelling(m) => Cardinality(Relying \cup {m}) = inflight_coll + 1
           /\ Travelling(m) => /\ Cardinality(Relying \ {m}) = inflight_coll - 1
                               /\ inflight_coll > 0
<1>1. Cardinality(Relying) = inflight_coll /\ inflight_coll \in Nat
  BY DEF NetInv, TypeOK, InflightExact, Relying
<1>2. ~Travelling(m) => Cardinality(Relying \cup {m}) = inflight_coll + 1
  BY <1>1, Finite, FS_AddElement DEF Relying
<1>3. ASSUME Travelling(m)
      PROVE  Cardinality(Relying \ {m}) = inflight_coll - 1 /\ inflight_coll > 0
  <2>1. m \in Relying
    BY <1>3 DEF Relying
  <2>2. Cardinality(Relying \ {m}) = inflight_coll - 1
    BY <1>1, <2>1, Finite, FS_RemoveElement
  <2>3. Cardinality(Relying \ {m}) \in Nat
    BY Finite, FS_RemoveElement, FS_CardinalityType
  <2>4. QED
    BY <1>1, <2>2, <2>3
<1>4. QED
  BY <1>1, <1>2, <1>3

\* A send that holds the gate is an Enter, any other changes nothing.
LEMMA SendStep ==
    ASSUME NetInv, NEW m \in Msgs, Send(m)
    PROVE  NetInv' /\ [Gate!GateNext]_(Gate!gateVars)
<1>t. /\ link \in [Links -> LinkRecord] /\ route \in [Msgs -> Seq(Devices)]
      /\ cur_topo_id \in Topos /\ inflight_coll \in Nat
      /\ tracker \in [Msgs -> SUBSET {"send", "recv", "finished"}]
      /\ recv_event \subseteq Msgs /\ handled \in [Msgs -> Nat]
  BY DEF NetInv, TypeOK
<1>1. PICK r \in RoutesFor(m) :
        /\ route' = [route EXCEPT ![m] = r]
        /\ link' = [link EXCEPT ![HopOf(r)] = Offer(link[HopOf(r)], m)]
  BY DEF Send
<1>2. /\ route[m] = <<>> /\ inflight_coll' = IF HoldsGate(m) THEN inflight_coll + 1 ELSE inflight_coll
      /\ tracker' = [tracker EXCEPT ![m] = tracker[m] \cup {"send"}]
      /\ UNCHANGED <<config, manager, recv_event, handled>>
  BY DEF Send
<1>3. r \in Seq(Devices) /\ Len(r) > 1 /\ Len(route[m]) = 0
  BY <1>1, <1>2, <1>t, RouteType
<1>4. \A l \in Links : m \notin Held(link[l])
  BY <1>3 DEF NetInv, Placed
<1>5. \A l \in Links : link'[l] = IF l = HopOf(r) THEN Offer(link[l], m) ELSE link[l]
  BY <1>1, <1>t
<1>6. \A l \in Links :
        /\ LinkOK(link'[l]) /\ link'[l].bw = link[l].bw
        /\ Held(link'[l]) = IF l = HopOf(r) THEN Held(link[l]) \cup {m} ELSE Held(link[l])
  <2> SUFFICES ASSUME NEW l \in Links
               PROVE  /\ LinkOK(link'[l]) /\ link'[l].bw = link[l].bw
                      /\ Held(link'[l]) = IF l = HopOf(r) THEN Held(link[l]) \cup {m}
                                                          ELSE Held(link[l])
    OBVIOUS
  <2>1. LinkOK(link[l]) /\ m \notin Held(link[l])
    BY <1>4 DEF NetInv
  <2>2. /\ LinkOK(Offer(link[l], m)) /\ Offer(link[l], m).bw = link[l].bw
        /\ Held(Offer(link[l], m)) = Held(link[l]) \cup {m}
    BY <2>1, OfferOK
  <2>3. QED
    BY <1>5, <2>1, <2>2
<1>7. link' \in [Links -> LinkRecord]
  BY <1>1, <1>5, <1>6, <1>t DEF LinkOK
<1>8. /\ route' \in [Msgs -> Seq(Devices)] /\ route'[m] = r
      /\ \A x \in Msgs \ {m} : route'[x] = route[x]
  BY <1>1, <1>3, <1>t
<1>9. Placed'
  <2> SUFFICES ASSUME NEW l \in Links, NEW x \in Msgs
               PROVE  x \in Held(link'[l]) <=> Len(route'[x]) > 1 /\ l = HopOf(route'[x])
    BY DEF Placed
  <2>1. CASE x = m
    <3>1. x \in Held(link'[l]) <=> l = HopOf(r)
      BY <1>4, <1>6, <2>1
    <3>2. QED
      BY <1>3, <1>8, <2>1, <3>1
  <2>2. CASE x # m
    <3>1. (x \in Held(link'[l]) <=> x \in Held(link[l])) /\ route'[x] = route[x]
      BY <1>6, <1>8, <2>2
    <3>2. QED
      BY <3>1 DEF NetInv, Placed
  <2>3. QED
    BY <2>1, <2>2
<1>10. ~Travelling(m) /\ Relying' = IF HoldsGate(m) THEN Relying \cup {m} ELSE Relying
  BY <1>2, <1>3, <1>8 DEF Relying, Travelling, HoldsGate, Gated, config
<1>11. inflight_coll' = Cardinality(Relying') /\ inflight_coll' \in Nat
  <2>1. CASE HoldsGate(m)
    <3>1. Cardinality(Relying \cup {m}) = inflight_coll + 1
      BY <2>1, <1>10, RelyingCount
    <3>2. Relying' = Relying \cup {m} /\ inflight_coll' = inflight_coll + 1
      BY <2>1, <1>2, <1>10
    <3>3. QED
      BY <3>1, <3>2, <1>t
  <2>2. CASE ~HoldsGate(m)
    BY <2>2, <1>2, <1>10, <1>t DEF NetInv, InflightExact, Relying
  <2>3. QED
    BY <2>1, <2>2
<1>12. InflightExact'
  BY <1>11 DEF InflightExact, Relying
<1>13. /\ NetInv' /\ UNCHANGED <<cur_topo_id, reconfiguring>>
       /\ [l \in Links |-> link'[l].bw] = [l \in Links |-> link[l].bw]
  <2>1. tracker' \in [Msgs -> SUBSET {"send", "recv", "finished"}]
    BY <1>2, <1>t
  <2>2. QED
    BY <1>2, <1>6, <1>7, <1>8, <1>9, <1>11, <1>12, <1>t, <2>1, MessageFrame
<1>14. CASE HoldsGate(m)
  BY <1>2, <1>13, <1>14 DEF Gate!GateNext, Gate!Enter
<1>15. CASE ~HoldsGate(m)
  BY <1>2, <1>13, <1>15 DEF Gate!gateVars
<1>16. QED
  BY <1>13, <1>14, <1>15

\* Receives are none of the topology manager's business.
LEMMA RecvStep ==
    ASSUME NetInv, NEW m \in Msgs, Recv(m) \/ RecvHandler(m)
    PROVE  NetInv' /\ [Gate!GateNext]_(Gate!gateVars)
<1>1. UNCHANGED <<config, link, manager, inflight_coll, route>>
  BY DEF Recv, RecvHandler
<1>2. /\ tracker' \in [Msgs -> SUBSET {"send", "recv", "finished"}]
      /\ recv_event' \subseteq Msgs /\ handled' \in [Msgs -> Nat]
  <2>1. /\ tracker \in [Msgs -> SUBSET {"send", "recv", "finished"}]
        /\ recv_event \subseteq Msgs /\ handled \in [Msgs -> Nat]
    BY DEF NetInv, TypeOK
  <2>2. CASE Recv(m)
    <3>1. handled' = handled /\ recv_event' \subseteq recv_event \cup {m}
      BY <2>2 DEF Recv
    <3>2. tracker' = [tracker EXCEPT ![m] = {}] \/ tracker' = [tracker EXCEPT ![m] = tracker[m] \cup {"recv"}]
      BY <2>2 DEF Recv
    <3>3. tracker' \in [Msgs -> SUBSET {"send", "recv", "finished"}]
      BY <2>1, <3>2
    <3>4. QED
      BY <2>1, <3>1, <3>3
  <2>3. CASE RecvHandler(m)
    BY <2>1, <2>3 DEF RecvHandler
  <2>4. QED
    BY <2>2, <2>3
<1>3. Placed' /\ InflightExact'
  BY <1>1 DEF NetInv, Placed, InflightExact, HoldsGate, Gated, Travelling, config
<1>4. NetInv' /\ UNCHANGED <<cur_topo_id, reconfiguring>>
  BY <1>1, <1>2, <1>3, MessageFrame DEF NetInv, TypeOK
<1>5. QED
  BY <1>1, <1>4 DEF Gate!gateVars

\* The last arrival of a chunk whose message needed a topology is a Leave;
\* any other arrival changes nothing for TopologyGate.
LEMMA ArrivalStep ==
    ASSUME NetInv, NEW m \in Msgs, NEW l \in Links, ChunkArrives(m, l)
    PROVE  NetInv' /\ [Gate!GateNext]_(Gate!gateVars)
<1> DEFINE rest == Tail(route[m])
           off == [link[l] EXCEPT !.flying = link[l].flying \ {m}]
           here == [link EXCEPT ![l] = off]
<1>t. /\ link \in [Links -> LinkRecord] /\ route \in [Msgs -> Seq(Devices)]
      /\ inflight_coll \in Nat
      /\ tracker \in [Msgs -> SUBSET {"send", "recv", "finished"}]
      /\ recv_event \subseteq Msgs /\ handled \in [Msgs -> Nat]
  BY DEF NetInv, TypeOK
<1>1. /\ m \in link[l].flying /\ route' = [route EXCEPT ![m] = rest]
      /\ UNCHANGED <<config, manager, recv_event>>
      /\ \/ Len(rest) = 1 /\ link' = here /\ ProcessArrival(m)
         \/ /\ Len(rest) # 1
            /\ link' = [here EXCEPT ![HopOf(rest)] = Offer(here[HopOf(rest)], m)]
            /\ UNCHANGED <<inflight_coll, tracker, handled>>
  BY DEF ChunkArrives
<1>2. Len(route[m]) > 1 /\ l = HopOf(route[m])
  BY <1>1 DEF NetInv, Placed, Held
<1>3. rest \in Seq(Devices) /\ Len(rest) = Len(route[m]) - 1 /\ Len(rest) \in Nat
  BY <1>2, <1>t
<1>4. LinkOK(off) /\ off.bw = link[l].bw /\ Held(off) = Held(link[l]) \ {m}
  BY <1>1, ArriveOK DEF NetInv
<1>5. here \in [Links -> LinkRecord] /\ \A j \in Links : here[j] = IF j = l THEN off ELSE link[j]
  <2> HIDE DEF off
  <2> QED
    BY <1>t, <1>4 DEF LinkOK
<1> HIDE DEF rest, off, here
<1>6. \A j \in Links : /\ LinkOK(here[j]) /\ here[j].bw = link[j].bw
                       /\ Held(here[j]) = Held(link[j]) \ {m}
  BY <1>2, <1>4, <1>5 DEF NetInv, Placed
<1>7. /\ route' \in [Msgs -> Seq(Devices)] /\ route'[m] = rest
      /\ \A x \in Msgs \ {m} : route'[x] = route[x]
  BY <1>1, <1>3, <1>t
<1>8. CASE Len(rest) = 1
  <2>1. link' = here /\ ProcessArrival(m)
    BY <1>1, <1>8
  <2>2. Placed'
    <3> SUFFICES ASSUME NEW j \in Links, NEW x \in Msgs
                 PROVE  x \in Held(link'[j]) <=> Len(route'[x]) > 1 /\ j = HopOf(route'[x])
      BY DEF Placed
    <3>1. CASE x = m
      <4>1. x \notin Held(link'[j])
        BY <2>1, <1>6, <3>1
      <4>2. route'[x] = rest
        BY <1>7, <3>1
      <4>3. ~(Len(route'[x]) > 1)
        BY <1>8, <4>2
      <4>4. QED
        BY <4>1, <4>3
    <3>2. CASE x # m
      <4>1. (x \in Held(link'[j]) <=> x \in Held(link[j])) /\ route'[x] = route[x]
        BY <2>1, <1>6, <1>7, <3>2
      <4>2. QED
        BY <4>1 DEF NetInv, Placed
    <3>3. QED
      BY <3>1, <3>2
  <2>3. Travelling(m) /\ Relying' = Relying \ {m}
    <3>1. Travelling(m) /\ ~Travelling(m)'
      BY <1>2, <1>7, <1>8 DEF Travelling
    <3>2. \A x \in Msgs \ {m} : Travelling(x)' <=> Travelling(x)
      BY <1>7 DEF Travelling
    <3>3. QED
      BY <3>1, <3>2, <1>1 DEF Relying, HoldsGate, Gated, config
  <2>4. inflight_coll' = IF HoldsGate(m) THEN inflight_coll - 1 ELSE inflight_coll
    BY <2>1 DEF ProcessArrival
  <2>5. ~HoldsGate(m) => Relying \ {m} = Relying
    BY DEF Relying
  <2>6. inflight_coll' = Cardinality(Relying') /\ inflight_coll' \in Nat
    <3>1. CASE HoldsGate(m)
      <4>1. Cardinality(Relying \ {m}) = inflight_coll - 1 /\ inflight_coll > 0
        BY <3>1, <2>3, RelyingCount
      <4>2. QED
        BY <3>1, <4>1, <2>3, <2>4, <1>t
    <3>2. CASE ~HoldsGate(m)
      BY <3>2, <2>3, <2>4, <2>5, <1>t DEF NetInv, InflightExact, Relying
    <3>3. QED
      BY <3>1, <3>2
  <2>7. InflightExact'
    BY <2>6 DEF InflightExact, Relying
  <2>8. /\ tracker' \in [Msgs -> SUBSET {"send", "recv", "finished"}]
        /\ recv_event' \subseteq Msgs /\ handled' \in [Msgs -> Nat]
    <3>1. /\ \/ tracker' = [tracker EXCEPT ![m] = {}]
             \/ tracker' = [tracker EXCEPT ![m] = tracker[m] \cup {"finished"}]
          /\ handled' = handled \/ handled' = [handled EXCEPT ![m] = handled[m] + 1]
      BY <2>1 DEF ProcessArrival
    <3>2. tracker[m] \cup {"finished"} \in SUBSET {"send", "recv", "finished"}
      BY <1>t
    <3>3. tracker' \in [Msgs -> SUBSET {"send", "recv", "finished"}]
      BY <3>1, <3>2, <1>t
    <3>4. handled[m] + 1 \in Nat
      BY <1>t
    <3>5. handled' \in [Msgs -> Nat]
      BY <3>1, <3>4, <1>t
    <3>6. QED
      BY <3>3, <3>5, <1>1, <1>t
  <2>9. /\ NetInv' /\ UNCHANGED <<cur_topo_id, reconfiguring>>
        /\ [j \in Links |-> link'[j].bw] = [j \in Links |-> link[j].bw]
    BY <2>1, <2>2, <2>6, <2>7, <2>8, <1>1, <1>5, <1>6, <1>7, MessageFrame
  <2>10. CASE HoldsGate(m)
    <3>1. Gate!Leave
      BY <2>3, <2>4, <2>9, <2>10, RelyingCount DEF Gate!Leave
    <3>2. QED
      BY <2>9, <3>1 DEF Gate!GateNext
  <2>11. CASE ~HoldsGate(m)
    BY <2>4, <2>9, <2>11 DEF Gate!gateVars
  <2>12. QED
    BY <2>10, <2>11
<1>9. CASE Len(rest) # 1
  <2>1. /\ link' = [here EXCEPT ![HopOf(rest)] = Offer(here[HopOf(rest)], m)]
        /\ UNCHANGED <<inflight_coll, tracker, handled>>
    BY <1>1, <1>9
  <2>0. Len(rest) > 1
    BY <1>2, <1>3, <1>9, <1>t
  <2>2. \A j \in Links : link'[j] = IF j = HopOf(rest) THEN Offer(here[j], m) ELSE here[j]
    BY <2>1, <1>5
  <2>3. \A j \in Links :
          /\ LinkOK(link'[j]) /\ link'[j].bw = link[j].bw
          /\ Held(link'[j]) = IF j = HopOf(rest) THEN Held(link[j]) \cup {m}
                                                 ELSE Held(link[j]) \ {m}
    <3> SUFFICES ASSUME NEW j \in Links
                 PROVE  /\ LinkOK(link'[j]) /\ link'[j].bw = link[j].bw
                        /\ Held(link'[j]) = IF j = HopOf(rest) THEN Held(link[j]) \cup {m}
                                                               ELSE Held(link[j]) \ {m}
      OBVIOUS
    <3>1. LinkOK(here[j]) /\ here[j].bw = link[j].bw /\ Held(here[j]) = Held(link[j]) \ {m}
      BY <1>6
    <3>2. m \notin Held(here[j])
      BY <3>1
    <3>3. /\ LinkOK(Offer(here[j], m)) /\ Offer(here[j], m).bw = here[j].bw
          /\ Held(Offer(here[j], m)) = Held(here[j]) \cup {m}
      BY <3>1, <3>2, OfferOK
    <3>4. QED
      BY <2>2, <3>1, <3>3
  <2>4. link' \in [Links -> LinkRecord]
    BY <2>1, <2>2, <2>3, <1>5 DEF LinkOK
  <2>5. Placed'
    <3> SUFFICES ASSUME NEW j \in Links, NEW x \in Msgs
                 PROVE  x \in Held(link'[j]) <=> Len(route'[x]) > 1 /\ j = HopOf(route'[x])
      BY DEF Placed
    <3>1. CASE x = m
      <4>1. x \in Held(link'[j]) <=> j = HopOf(rest)
        BY <2>3, <3>1
      <4>2. QED
        BY <1>7, <2>0, <3>1, <4>1
    <3>2. CASE x # m
      <4>1. (x \in Held(link'[j]) <=> x \in Held(link[j])) /\ route'[x] = route[x]
        BY <2>3, <1>7, <3>2
      <4>2. QED
        BY <4>1 DEF NetInv, Placed
    <3>3. QED
      BY <3>1, <3>2
  <2>6. \A x \in Msgs : Travelling(x)' <=> Travelling(x)
    BY <2>0, <1>2, <1>7 DEF Travelling
  <2>7. Relying' = Relying
    BY <2>6, <1>1 DEF Relying, HoldsGate, Gated, config
  <2>8. InflightExact'
    BY <2>1, <2>7 DEF NetInv, InflightExact, Relying
  <2>9. /\ NetInv' /\ UNCHANGED <<cur_topo_id, reconfiguring>>
        /\ [j \in Links |-> link'[j].bw] = [j \in Links |-> link[j].bw]
    BY <2>1, <2>3, <2>4, <2>5, <2>8, <1>1, <1>7, <1>t, MessageFrame
  <2>10. QED
    BY <2>1, <2>9 DEF Gate!gateVars
<1>10. QED
  BY <1>8, <1>9
-----------------------------------------------------------------------------
(* The theorems *)

\* Every step keeps the invariant and is a step of TopologyGate or none.
LEMMA NextStep ==
    ASSUME NetInv, [Next]_vars
    PROVE  NetInv' /\ [Gate!GateNext]_(Gate!gateVars)
<1>1. CASE Next
  BY <1>1, ReconfigureStep, FinishStep, SendStep, RecvStep, ArrivalStep, TransmissionStep,
     RefitEndsStep DEF Next
<1>2. CASE UNCHANGED vars
  <2>1. UNCHANGED <<config, inflight_coll, route, api, link, manager>>
    BY <1>2 DEF vars
  <2>2. NetInv'
    BY <2>1 DEF NetInv, TypeOK, Placed, GateInv, Installed, InflightExact, HoldsGate, Gated,
                Travelling, config, manager, api
  <2>3. UNCHANGED Gate!gateVars
    BY <2>1 DEF Gate!gateVars, manager
  <2>4. QED
    BY <2>2, <2>3
<1>3. QED
  BY <1>1, <1>2

\* The network starts as the gate does.
LEMMA InitGate == ASSUME Init PROVE Gate!GateInit
<1>1. NetInv
  BY InitInv
<1>2. cur_topo_id = InitTopo /\ inflight_coll = 0 /\ reconfiguring \in BOOLEAN
  BY <1>1 DEF Init, NetInv, TypeOK
<1>3. Installed
  BY <1>1, <1>2 DEF Init, NetInv, GateInv
<1>4. [l \in Links |-> link[l].bw] = Bw[cur_topo_id]
  BY <1>2, <1>3, Views, NetworkAssumption DEF Installed
<1>5. QED
  BY <1>2, <1>4, NetworkAssumption DEF Gate!GateInit

\* The invariant holds in every reachable state.
LEMMA Invariance == Spec => []NetInv
BY InitInv, NextStep, PTL DEF Spec

\* Every variable has its type in every reachable state: in particular
\* decrement_inflight_coll never takes inflight_coll below zero.
THEOREM TypeCorrect == Spec => []TypeOK
<1>1. NetInv => TypeOK
  BY DEF NetInv
<1>2. QED
  BY <1>1, Invariance, PTL

\* No queue of a link is left without an event that serves it, however
\* transmissions, arrivals and reconfigurations of the link interleave.
THEOREM QueuesServed == Spec => []LinkServed
<1>1. NetInv => LinkServed
  BY DEF NetInv, LinkOK, Served, LinkServed
<1>2. QED
  BY <1>1, Invariance, PTL

\* inflight_coll is the number of communications under way that hold the gate:
\* collectives, and with OPUS routing also point-to-point sends.
THEOREM InflightCorrect == Spec => []InflightExact
<1>1. NetInv => InflightExact
  BY DEF NetInv
<1>2. QED
  BY <1>1, Invariance, PTL

\* The topology manager keeps the promise of TopologyGate, for any devices,
\* topologies and messages, however often links are counted in a drain.
THEOREM GateRefinement == Spec => ImplementsGate
<1>1. Init => Gate!GateInit
  BY InitGate
<1>2. NetInv /\ [Next]_vars => [Gate!GateNext]_(Gate!gateVars)
  BY NextStep
<1>3. QED
  BY <1>1, <1>2, Invariance, PTL DEF Spec, ImplementsGate, Gate!GateSpec

-----------------------------------------------------------------------------
(* Chunks *)

\* The topologies in which the route of a message has to exist: the one it
\* was granted if it holds the gate, and all when it needs no grant.
Regimes(m) ==
    IF HoldsGate(m) THEN {cur_topo_id} ELSE IF Gated(m) THEN {} ELSE Topos

\* The rest of a route is passable.
RoutesInv ==
    \A m \in Msgs : Travelling(m) => \A t \in Regimes(m) : Passable(t, route[m])

\* A path that opus_routes finds is passable in its topology.
LEMMA PathPassable ==
    ASSUME NEW t \in Topos, NEW e \in Links, NEW p \in Cheapest[t][e]
    PROVE  Passable(t, p)
<1>1. p \in Paths(Bw[t], e[1], e[2])
  BY DEF Cheapest
<1>2. PICK n \in 2..Cardinality(Devices) : p \in [1..n -> Devices]
  BY <1>1 DEF Paths
<1>3. n \in Nat /\ n > 1 /\ Len(p) = n
  BY <1>2, NetworkAssumption, FS_CardinalityType
<1>4. /\ \A i, j \in DOMAIN p : p[i] = p[j] => i = j
      /\ \A i \in 1..Len(p)-1 : Bw[t][<<p[i], p[i+1]>>] > 0
  BY <1>1 DEF Paths
<1>5. ASSUME NEW i \in 1..Len(p)-1 PROVE <<p[i], p[i+1]>> \in Links
  <2>1. i \in 1..n /\ i + 1 \in 1..n /\ i # i + 1
    BY <1>3
  <2>2. p[i] \in Devices /\ p[i+1] \in Devices /\ p[i] # p[i+1]
    BY <2>1, <1>2, <1>4
  <2>3. QED
    BY <2>2 DEF Links
<1>6. QED
  BY <1>4, <1>5 DEF Passable

\* What is left of a passable route after a hop is passable.
LEMMA TailPassable ==
    ASSUME NEW t, NEW p \in Seq(Devices), Len(p) > 1, Passable(t, p)
    PROVE  Passable(t, Tail(p))
<1>1. /\ Len(Tail(p)) = Len(p) - 1 /\ Len(p) \in Nat
      /\ \A i \in 1..Len(p)-1 : Tail(p)[i] = p[i+1]
  OBVIOUS
<1> SUFFICES ASSUME NEW i \in 1..Len(p)-2
             PROVE  /\ <<Tail(p)[i], Tail(p)[i+1]>> \in Links
                    /\ Bw[t][<<Tail(p)[i], Tail(p)[i+1]>>] > 0
  BY <1>1 DEF Passable
<1>2. i \in 1..Len(p)-1 /\ i + 1 \in 1..Len(p)-1
  BY <1>1
<1>3. Tail(p)[i] = p[i+1] /\ Tail(p)[i+1] = p[(i+1)+1]
  BY <1>1, <1>2
<1>4. QED
  BY <1>2, <1>3 DEF Passable

\* The route that a message gets is passable.
LEMMA NewRoutePassable ==
    ASSUME LocalTraffic, Connected, NetInv, NEW m \in Msgs, NEW r \in RoutesFor(m),
           Gated(m) => Serves(cur_topo_id, m),
           NEW t \in Regimes(m)
    PROVE  Passable(t, r)
<1> DEFINE e == <<Src[m], Dst[m]>>
<1>1. e \in Links /\ Len(e) = 2 /\ e[1] = Src[m] /\ e[2] = Dst[m]
  BY NetworkAssumption DEF Links
<1>2. cur_topo_id \in Topos /\ t \in Topos
  BY DEF NetInv, TypeOK, Regimes
<1>3. r \in Cheapest[cur_topo_id][e] \/ (r = e /\ (opus => Cheapest[cur_topo_id][e] = {}))
  BY DEF RoutesFor
<1>4. CASE ~Gated(m)
  BY <1>2, <1>3, <1>4 DEF LocalTraffic, Gated
<1>5. CASE Gated(m) /\ r \in Cheapest[cur_topo_id][e]
  <2>1. t = cur_topo_id
    BY <1>5 DEF Regimes
  <2> HIDE DEF e
  <2>2. QED
    BY <1>1, <1>2, <1>5, <2>1, PathPassable
<1>6. CASE Gated(m) /\ r = e /\ (opus => Cheapest[cur_topo_id][e] = {})
  <2>1. t = cur_topo_id /\ cur_topo_id \in Needs[m]
    BY <1>6 DEF Regimes, Serves
  <2>2. ~opus
    BY <1>6, <2>1 DEF Connected
  <2>3. Bw[t][e] > 0
    BY <1>6, <2>1, <2>2 DEF Serves
  <2>4. <<r[1], r[2]>> = e /\ Len(r) = 2
    BY <1>1, <1>6
  <2> HIDE DEF e
  <2>5. QED
    <3> SUFFICES ASSUME NEW i \in 1..Len(r)-1
                 PROVE  <<r[i], r[i+1]>> \in Links /\ Bw[t][<<r[i], r[i+1]>>] > 0
      BY DEF Passable
    <3>1. i = 1
      BY <2>4
    <3>2. QED
      BY <3>1, <1>1, <2>3, <2>4
<1>7. QED
  BY <1>3, <1>4, <1>5, <1>6

\* Every step keeps the routes passable: a switch that takes links away waits
\* for the messages that were granted the old topology.
LEMMA NextRoutes ==
    ASSUME LocalTraffic, Connected, NetInv, RoutesInv, [Next]_vars
    PROVE  RoutesInv'
<1>t. route \in [Msgs -> Seq(Devices)] /\ cur_topo_id \in Topos /\ inflight_coll \in Nat
  BY DEF NetInv, TypeOK
<1>0. opus' = opus
  BY DEF Next, vars, config, Reconfigure, FinishReconfiguration, Send, Recv, RecvHandler,
         ChunkArrives, TransmissionEnds, RefitEnds
<1>1. ASSUME UNCHANGED <<route, cur_topo_id>> PROVE RoutesInv'
  BY <1>0, <1>1 DEF RoutesInv, Travelling, Regimes, HoldsGate, Gated
<1>2. ASSUME NEW t \in Topos, Reconfigure(t) PROVE RoutesInv'
  <2>0. route' = route /\ cur_topo_id' = t
    BY <1>2 DEF Reconfigure
  <2>1. CASE Bw[t] = Bw[cur_topo_id]
    BY <1>0, <2>0, <2>1 DEF RoutesInv, Travelling, Regimes, HoldsGate, Gated, Passable
  <2>2. CASE inflight_coll = 0
    <3>1. Cardinality(Relying) = 0
      BY <2>2 DEF NetInv, InflightExact, Relying
    <3>2. Relying = {}
      BY <3>1, Finite, FS_EmptySet
    <3>3. \A m \in Msgs : Travelling(m) => ~HoldsGate(m)
      BY <3>2 DEF Relying
    <3>4. QED
      BY <1>0, <2>0, <3>3 DEF RoutesInv, Travelling, Regimes, HoldsGate, Gated
  <2>3. QED
    BY <1>2, <2>1, <2>2 DEF Reconfigure, SameLinks, MayReconfigure
<1>3. ASSUME NEW m \in Msgs, Send(m) PROVE RoutesInv'
  <2>1. PICK r \in RoutesFor(m) : route' = [route EXCEPT ![m] = r]
    BY <1>3 DEF Send
  <2>2. (Gated(m) => Serves(cur_topo_id, m)) /\ cur_topo_id' = cur_topo_id
    BY <1>3 DEF Send, manager
  <2>3. \A t \in Regimes(m) : Passable(t, r)
    BY <2>2, NewRoutePassable
  <2>4. route'[m] = r /\ \A x \in Msgs \ {m} : route'[x] = route[x]
    BY <2>1, <1>t
  <2>5. QED
    BY <1>0, <2>2, <2>3, <2>4 DEF RoutesInv, Travelling, Regimes, HoldsGate, Gated
<1>4. ASSUME NEW m \in Msgs, NEW l \in Links, ChunkArrives(m, l) PROVE RoutesInv'
  <2>1. /\ route' = [route EXCEPT ![m] = Tail(route[m])] /\ cur_topo_id' = cur_topo_id
        /\ m \in Held(link[l])
    BY <1>4 DEF ChunkArrives, manager, Held
  <2>2. Len(route[m]) > 1
    BY <2>1 DEF NetInv, Placed
  <2>3. \A t \in Regimes(m) : Passable(t, Tail(route[m]))
    BY <2>2, <1>t, TailPassable DEF RoutesInv, Travelling
  <2>4. route'[m] = Tail(route[m]) /\ \A x \in Msgs \ {m} : route'[x] = route[x]
    BY <2>1, <1>t
  <2>5. QED
    BY <1>0, <2>1, <2>3, <2>4 DEF RoutesInv, Travelling, Regimes, HoldsGate, Gated
<1>5. ASSUME NEW m \in Msgs, Recv(m) \/ RecvHandler(m) PROVE UNCHANGED <<route, cur_topo_id>>
  BY <1>5 DEF Recv, RecvHandler, manager
<1>6. ASSUME FinishReconfiguration PROVE UNCHANGED <<route, cur_topo_id>>
  BY <1>6 DEF FinishReconfiguration
<1>7. ASSUME NEW m \in Msgs, NEW l \in Links, TransmissionEnds(m, l)
      PROVE  UNCHANGED <<route, cur_topo_id>>
  BY <1>7 DEF TransmissionEnds, LinkBecomeFree
<1>8. ASSUME NEW l \in Links, RefitEnds(l) PROVE UNCHANGED <<route, cur_topo_id>>
  BY <1>8 DEF RefitEnds, LinkBecomeFree
<1>9. ASSUME UNCHANGED vars PROVE UNCHANGED <<route, cur_topo_id>>
  BY <1>9 DEF vars, manager
<1>10. QED
  BY <1>1, <1>2, <1>3, <1>4, <1>5, <1>6, <1>7, <1>8, <1>9 DEF Next

\* A chunk on its way is at one place, on a link that the topology has if it is safe.
LEMMA AtOnePlace ==
    ASSUME NetInv, RoutesInv
    PROVE  NoChunkStranded
<1> SUFFICES ASSUME NEW m \in Msgs, NEW l \in Links
             PROVE  IF Travelling(m) /\ l = HopOf(route[m])
                    THEN /\ Cardinality(Queued(m, l)) = IF m \in link[l].flying THEN 0 ELSE 1
                         /\ Safe(m) => Bw[cur_topo_id][l] > 0
                    ELSE Queued(m, l) = {} /\ m \notin link[l].flying
  BY DEF NoChunkStranded
<1>0. /\ link[l].pending \in Seq(Msgs) /\ route[m] \in Seq(Devices) /\ cur_topo_id \in Topos
      /\ DOMAIN link[l].pending = 1..Len(link[l].pending)
  BY DEF NetInv, TypeOK, LinkRecord
<1>1. Once(link[l])
  BY DEF NetInv, LinkOK
<1>2. m \in Held(link[l]) <=> Travelling(m) /\ l = HopOf(route[m])
  BY DEF NetInv, Placed, Travelling
<1>3. m \in QueuedAt(link[l]) <=> Queued(m, l) # {}
  BY <1>0 DEF QueuedAt, Queued
<1>4. CASE ~(Travelling(m) /\ l = HopOf(route[m]))
  BY <1>2, <1>3, <1>4 DEF Held
<1>5. CASE Travelling(m) /\ l = HopOf(route[m])
  <2>1. ASSUME Safe(m) PROVE Bw[cur_topo_id][l] > 0
    <3>1. Passable(cur_topo_id, route[m]) /\ Len(route[m]) > 1
      BY <1>0, <1>5, <2>1 DEF RoutesInv, Regimes, Travelling, Safe
    <3>2. 1 \in 1..Len(route[m])-1
      BY <3>1, <1>0
    <3>3. QED
      BY <3>1, <3>2, <1>5 DEF Passable, HopOf
  <2>2. CASE m \in link[l].flying
    <3>1. Queued(m, l) = {}
      BY <1>1, <1>3, <2>2 DEF Once
    <3>2. QED
      BY <1>5, <2>1, <2>2, <3>1, FS_EmptySet
  <2>3. CASE m \notin link[l].flying
    <3>1. PICK i \in 1..Len(link[l].pending) : link[l].pending[i] = m
      BY <1>2, <1>5, <2>3 DEF Held, QueuedAt
    <3>2. Queued(m, l) = {i}
      BY <1>0, <1>1, <3>1 DEF Once, Queued
    <3>3. QED
      BY <1>5, <2>1, <2>3, <3>2, FS_Singleton
  <2>4. QED
    BY <2>2, <2>3
<1>6. QED
  BY <1>4, <1>5

\* If the schedule connects what is requested and keeps the links of local
\* traffic, no chunk is lost or duplicated, and none but a send that does not hold
\* the gate is left on a link without bandwidth, whatever topologies are requested
\* while it travels.
THEOREM ChunksDelivered ==
    ASSUME LocalTraffic, Connected
    PROVE  Spec => []NoChunkStranded
<1>1. ASSUME Init PROVE RoutesInv
  <2>1. \A m \in Msgs : Len(route[m]) = 0
    BY <1>1 DEF Init
  <2>2. QED
    BY <2>1 DEF RoutesInv, Travelling
<1>2. LocalTraffic /\ Connected /\ NetInv /\ RoutesInv /\ [Next]_vars => RoutesInv'
  BY NextRoutes
<1>3. NetInv /\ RoutesInv => NoChunkStranded
  BY AtOnePlace
<1>4. QED
  BY <1>1, <1>2, <1>3, LocalTraffic, Connected, Invariance, PTL DEF Spec

-----------------------------------------------------------------------------
(* Receives *)

\* What the tracker's entry of a message and its receive handler know of its
\* chunk.
Matching(m) ==
    /\ handled[m] \in {0, 1}
    /\ handled[m] = 1 => Len(route[m]) = 1 /\ tracker[m] = {} /\ m \notin recv_event
    /\ m \in recv_event => Len(route[m]) = 1 /\ tracker[m] = {}
    /\ "finished" \in tracker[m] => Len(route[m]) = 1

TrackerInv == \A m \in Msgs : Matching(m)

\* Whatever a step does to other messages, it keeps the match of m.
LEMMA NextTracker ==
    ASSUME NetInv, TrackerInv, [Next]_vars
    PROVE  TrackerInv'
<1>t. /\ route \in [Msgs -> Seq(Devices)] /\ recv_event \subseteq Msgs
      /\ tracker \in [Msgs -> SUBSET {"send", "recv", "finished"}]
      /\ handled \in [Msgs -> Nat] /\ cur_topo_id \in Topos
  BY DEF NetInv, TypeOK
<1>1. ASSUME UNCHANGED <<route, tracker, recv_event, handled>> PROVE TrackerInv'
  BY <1>1 DEF TrackerInv, Matching
<1>2. ASSUME NEW m \in Msgs, Send(m) PROVE TrackerInv'
  <2>1. PICK r \in RoutesFor(m) : route' = [route EXCEPT ![m] = r]
    BY <1>2 DEF Send
  <2>2. /\ route[m] = <<>> /\ UNCHANGED <<recv_event, handled>>
        /\ tracker' = [tracker EXCEPT ![m] = tracker[m] \cup {"send"}]
    BY <1>2 DEF Send
  <2>3. Len(route[m]) = 0
    BY <2>2
  <2>4. Matching(m)'
    <3>1. handled[m] = 0 /\ m \notin recv_event /\ "finished" \notin tracker[m]
      BY <2>3 DEF TrackerInv, Matching
    <3>2. tracker'[m] = tracker[m] \cup {"send"} /\ handled'[m] = 0 /\ m \notin recv_event'
      BY <2>2, <3>1, <1>t
    <3>3. QED
      BY <3>1, <3>2 DEF Matching
  <2>5. \A x \in Msgs \ {m} : Matching(x)'
    BY <2>1, <2>2, <1>t DEF TrackerInv, Matching
  <2>6. QED
    BY <2>4, <2>5 DEF TrackerInv
<1>3. ASSUME NEW m \in Msgs, Recv(m) PROVE TrackerInv'
  <2>1. /\ m \notin recv_event /\ handled[m] = 0 /\ UNCHANGED <<route, handled>>
    BY <1>3 DEF Recv
  <2>2. \A x \in Msgs \ {m} : tracker'[x] = tracker[x] /\ (x \in recv_event' <=> x \in recv_event)
    BY <1>3, <1>t DEF Recv
  <2>3. Matching(m)'
    <3>1. CASE "finished" \in tracker[m]
      <4>1. tracker'[m] = {} /\ Len(route'[m]) = 1 /\ handled'[m] = 0
        BY <1>3, <1>t, <2>1, <3>1 DEF Recv, TrackerInv, Matching
      <4>2. QED
        BY <4>1 DEF Matching
    <3>2. CASE "finished" \notin tracker[m]
      <4>1. tracker'[m] = tracker[m] \cup {"recv"} /\ recv_event' = recv_event /\ handled'[m] = 0
        BY <1>3, <1>t, <2>1, <3>2 DEF Recv
      <4>2. QED
        BY <2>1, <3>2, <4>1 DEF Matching
    <3>3. QED
      BY <3>1, <3>2
  <2>4. \A x \in Msgs \ {m} : Matching(x)'
    BY <2>1, <2>2 DEF TrackerInv, Matching
  <2>5. QED
    BY <2>3, <2>4 DEF TrackerInv
<1>4. ASSUME NEW m \in Msgs, RecvHandler(m) PROVE TrackerInv'
  <2>1. /\ m \in recv_event /\ recv_event' = recv_event \ {m} /\ UNCHANGED <<route, tracker>>
        /\ handled'[m] = handled[m] + 1 /\ \A x \in Msgs \ {m} : handled'[x] = handled[x]
    BY <1>4, <1>t DEF RecvHandler
  <2>2. handled[m] = 0 /\ Len(route[m]) = 1 /\ tracker[m] = {}
    BY <2>1 DEF TrackerInv, Matching
  <2>3. QED
    BY <2>1, <2>2 DEF TrackerInv, Matching
<1>5. ASSUME NEW m \in Msgs, NEW l \in Links, ChunkArrives(m, l) PROVE TrackerInv'
  <2> DEFINE rest == Tail(route[m])
  <2>1. /\ route' = [route EXCEPT ![m] = rest] /\ recv_event' = recv_event
        /\ m \in Held(link[l])
        /\ \/ Len(rest) = 1 /\ ProcessArrival(m)
           \/ UNCHANGED <<tracker, handled>>
    BY <1>5 DEF ChunkArrives, Held
  <2>2. Len(route[m]) > 1
    BY <2>1 DEF NetInv, Placed
  <2>3. handled[m] = 0 /\ m \notin recv_event /\ "finished" \notin tracker[m]
    <3> DEFINE n == Len(route[m])
    <3>0. n > 1
      BY <2>2
    <3> HIDE DEF n
    <3>1. n # 1
      BY <3>0
    <3>2. Matching(m)
      BY DEF TrackerInv
    <3>3. QED
      BY <3>1, <3>2 DEF Matching, n
  <2>4. route'[m] = rest /\ \A x \in Msgs \ {m} : route'[x] = route[x]
    BY <2>1, <1>t
  <2> HIDE DEF rest
  <2>5. CASE Len(rest) = 1 /\ ProcessArrival(m)
    <3>1. \A x \in Msgs \ {m} : tracker'[x] = tracker[x] /\ handled'[x] = handled[x]
      BY <2>5, <1>t DEF ProcessArrival
    <3>2. \/ tracker'[m] = {} /\ handled'[m] = 1
          \/ handled'[m] = 0
      BY <2>3, <2>5, <1>t DEF ProcessArrival
    <3>3. Matching(m)'
      BY <2>1, <2>3, <2>4, <2>5, <3>2 DEF Matching
    <3>4. \A x \in Msgs \ {m} : Matching(x)'
      BY <2>1, <2>4, <3>1 DEF TrackerInv, Matching
    <3>5. QED
      BY <3>3, <3>4 DEF TrackerInv
  <2>6. CASE UNCHANGED <<tracker, handled>>
    <3>1. Matching(m)'
      BY <2>1, <2>3, <2>6 DEF Matching
    <3>2. \A x \in Msgs \ {m} : Matching(x)'
      BY <2>1, <2>4, <2>6 DEF TrackerInv, Matching
    <3>3. QED
      BY <3>1, <3>2 DEF TrackerInv
  <2>7. QED
    BY <2>1, <2>5, <2>6
<1>6. ASSUME \/ \E t \in Topos : Reconfigure(t)
             \/ FinishReconfiguration
             \/ \E m \in Msgs, l \in Links : TransmissionEnds(m, l)
             \/ \E l \in Links : RefitEnds(l)
             \/ UNCHANGED vars
      PROVE  UNCHANGED <<route, tracker, recv_event, handled>>
  BY <1>6 DEF Reconfigure, FinishReconfiguration, TransmissionEnds, RefitEnds, vars, api
<1>7. QED
  BY <1>1, <1>2, <1>3, <1>4, <1>5, <1>6 DEF Next

\* A receive handler runs at most once, after the chunk and the receive,
\* and leaves nothing in the callback tracker.
THEOREM ReceivedOnce == Spec => []HandledOnce
<1>1. ASSUME Init PROVE TrackerInv
  <2>1. \A m \in Msgs : handled[m] = 0 /\ tracker[m] = {} /\ m \notin recv_event
    BY <1>1 DEF Init
  <2>2. QED
    BY <2>1 DEF TrackerInv, Matching
<1>2. NetInv /\ TrackerInv /\ [Next]_vars => TrackerInv'
  BY NextTracker
<1>3. TrackerInv => HandledOnce
  BY DEF TrackerInv, Matching, HandledOnce
<1>4. QED
  BY <1>1, <1>2, <1>3, Invariance, PTL DEF Spec
===============================================================================
