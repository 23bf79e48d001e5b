--------------------------- MODULE WorkerPoolProofs ---------------------------
(***************************************************************************)
(* Proofs about WorkerPool, for any finite pool and any connections.       *)
(***************************************************************************)
EXTENDS WorkerPool, FiniteSetTheorems, TLAPS

-----------------------------------------------------------------------------
(* Counting threads *)

In(f, st) == {w \in Workers : f[w] = st}

\* A thread that goes from one state to another leaves the threads of the first
\* and joins those of the second; the other states keep theirs.
LEMMA MoveCounts ==
    ASSUME NEW f \in [Workers -> WorkerStates], NEW w \in Workers,
           NEW st \in WorkerStates, st # f[w]
    PROVE  LET g == [f EXCEPT ![w] = st] IN
           /\ Cardinality(In(g, f[w])) = Cardinality(In(f, f[w])) - 1
           /\ Cardinality(In(g, st)) = Cardinality(In(f, st)) + 1
           /\ \A other \in WorkerStates \ {f[w], st} : In(g, other) = In(f, other)
<1> DEFINE g == [f EXCEPT ![w] = st]
<1>1. \A a : IsFiniteSet(In(f, a))
  BY PoolAssumption, FS_Subset DEF In
<1>2. In(g, f[w]) = In(f, f[w]) \ {w} /\ w \in In(f, f[w])
  BY DEF In
<1>3. In(g, st) = In(f, st) \cup {w} /\ w \notin In(f, st)
  BY DEF In
<1>4. Cardinality(In(g, f[w])) = Cardinality(In(f, f[w])) - 1
  BY <1>1, <1>2, FS_RemoveElement
<1>5. Cardinality(In(g, st)) = Cardinality(In(f, st)) + 1
  BY <1>1, <1>3, FS_AddElement
<1>6. \A other \in WorkerStates \ {f[w], st} : In(g, other) = In(f, other)
  BY DEF In
<1>7. QED
  BY <1>4, <1>5, <1>6

\* The number of threads in a state is a number, and it is 0 when there is none.
LEMMA CountFacts ==
    ASSUME NEW f, NEW st
    PROVE  /\ Cardinality(In(f, st)) \in Nat
           /\ Cardinality(In(f, st)) = 0 <=> In(f, st) = {}
<1>1. IsFiniteSet(In(f, st))
  BY PoolAssumption, FS_Subset DEF In
<1>2. QED
  BY <1>1, FS_CardinalityType, FS_EmptySet

-----------------------------------------------------------------------------
(* The invariant *)

\* A socket is queued at one place, and only while it is marked so.
QueueOnce ==
    /\ \A i, j \in 1..Len(socketQueue) : socketQueue[i] = socketQueue[j] => i = j
    /\ \A s \in Socks : sock[s] = "queued" <=> \E i \in 1..Len(socketQueue) : socketQueue[i] = s

\* A thread in handleClient has a socket of its own, which is open.
ServedOnce ==
    /\ \A w \in Workers : worker[w] = "serving" <=> serving[w] # NoSock
    /\ \A w \in Workers : serving[w] # NoSock => sock[serving[w]] = "open"
    /\ \A v, w \in Workers : (serving[v] = serving[w] /\ serving[v] # NoSock) => v = w
    /\ \A s \in Socks : sock[s] = "open" => \E w \in Workers : serving[w] = s

\* shuttingDown is set when the listener is closed and stays set.  No thread sleeps
\* after notify_all, and a thread leaves its loop only when the queue is empty,
\* which it then stays.
Shutdown ==
    /\ shuttingDown <=> main \in {"notifyAll", "join", "done"}
    /\ main \in {"join", "done"} => \A w \in Workers : worker[w] # "waiting"
    /\ \A w \in Workers : worker[w] = "exited" => shuttingDown /\ socketQueue = <<>>
    /\ main = "done" => \A w \in Workers : worker[w] = "exited"

PoolInv == TypeOK /\ QueueOnce /\ ServedOnce /\ Shutdown /\ NoLostWakeup

\* When the destructor of the controller returns, every connection it accepted has been
\* taken from the queue and closed: no rank is left with an accepted socket that
\* nobody serves.
NothingAbandoned ==
    main = "done" => socketQueue = <<>> /\ \A s \in Socks : sock[s] \in {"new", "closed"}

\* What Append does to a queue that holds every socket at one place at most.
LEMMA AppendPlaces ==
    ASSUME NEW q \in Seq(Socks), NEW s \in Socks, \A i \in 1..Len(q) : q[i] # s,
           \A i, j \in 1..Len(q) : q[i] = q[j] => i = j
    PROVE  LET a == Append(q, s) IN
           /\ a \in Seq(Socks) /\ Len(a) = Len(q) + 1
           /\ \A i, j \in 1..Len(a) : a[i] = a[j] => i = j
           /\ \A t \in Socks : (\E i \in 1..Len(a) : a[i] = t) <=>
                                 (t = s \/ \E i \in 1..Len(q) : q[i] = t)
<1> DEFINE a == Append(q, s)
<1>1. /\ a \in Seq(Socks) /\ Len(a) = Len(q) + 1 /\ Len(q) \in Nat
      /\ a[Len(q) + 1] = s /\ \A i \in 1..Len(q) : a[i] = q[i]
  OBVIOUS
<1> HIDE DEF a
<1>2. 1..Len(a) = 1..Len(q) \cup {Len(q) + 1}
  BY <1>1
<1>3. ASSUME NEW i \in 1..Len(a), NEW j \in 1..Len(a), a[i] = a[j] PROVE i = j
  BY <1>1, <1>2, <1>3
<1>4. ASSUME NEW t \in Socks
      PROVE  (\E i \in 1..Len(a) : a[i] = t) <=> (t = s \/ \E i \in 1..Len(q) : q[i] = t)
  BY <1>1, <1>2
<1>5. QED
  BY <1>1, <1>3, <1>4 DEF a

\* What Tail does to it.
LEMMA TailPlaces ==
    ASSUME NEW q \in Seq(Socks), q # <<>>,
           \A i, j \in 1..Len(q) : q[i] = q[j] => i = j
    PROVE  LET a == Tail(q) IN
           /\ Head(q) \in Socks /\ \E i \in 1..Len(q) : q[i] = Head(q)
           /\ a \in Seq(Socks) /\ Len(a) = Len(q) - 1
           /\ \A i, j \in 1..Len(a) : a[i] = a[j] => i = j
           /\ \A t \in Socks : (\E i \in 1..Len(a) : a[i] = t) <=>
                                 (t # Head(q) /\ \E i \in 1..Len(q) : q[i] = t)
<1> DEFINE a == Tail(q)
           n == Len(q)
<1>1. /\ n \in Nat /\ n > 0 /\ Head(q) = q[1] /\ Head(q) \in Socks
      /\ a \in Seq(Socks) /\ Len(a) = n - 1
      /\ \A i \in 1..n - 1 : a[i] = q[i + 1]
  OBVIOUS
<1>2. \A i, j \in 1..n : q[i] = q[j] => i = j
  OBVIOUS
<1> HIDE DEF a, n
<1>3. ASSUME NEW i \in 1..Len(a), NEW j \in 1..Len(a), a[i] = a[j] PROVE i = j
  <2>1. i + 1 \in 1..n /\ j + 1 \in 1..n /\ q[i + 1] = q[j + 1]
    BY <1>1, <1>3
  <2>2. i + 1 = j + 1
    BY <2>1, <1>2
  <2>3. QED
    BY <2>2, <1>1
<1>4. ASSUME NEW t \in Socks, NEW i \in 1..Len(a), a[i] = t
      PROVE  t # Head(q) /\ \E j \in 1..n : q[j] = t
  <2>1. i + 1 \in 1..n /\ q[i + 1] = t /\ 1 \in 1..n /\ i + 1 # 1
    BY <1>1, <1>4
  <2>2. QED
    BY <2>1, <1>1, <1>2
<1>5. ASSUME NEW t \in Socks, t # Head(q), NEW i \in 1..n, q[i] = t
      PROVE  \E j \in 1..Len(a) : a[j] = t
  <2>1. i # 1
    BY <1>1, <1>5
  <2>2. i - 1 \in 1..Len(a) /\ a[i - 1] = q[i]
    BY <2>1, <1>1
  <2>3. QED
    BY <2>2, <1>5
<1>6. 1 \in 1..n
  BY <1>1
<1>7. QED
  BY <1>1, <1>3, <1>4, <1>5, <1>6 DEF a, n

\* What is taken from and put on the queue keeps the state well formed; a thread
\* that reads a line or closes a socket has one.
LEMMA TypeStep ==
    ASSUME TypeOK, QueueOnce, ServedOnce, [Next]_vars
    PROVE  TypeOK'
<1> USE DEF TypeOK, MainStates, WorkerStates
<1>0. \A w \in Workers : worker[w] = "serving" => serving[w] \in Socks
  BY SockAssumption DEF ServedOnce
<1>1. CASE RequestStop
  BY <1>1 DEF RequestStop
<1>2. ASSUME NEW s \in Socks, ClientConnect(s) \/ ClientClose(s) PROVE TypeOK'
  BY <1>2 DEF ClientConnect, ClientClose
<1>3. ASSUME NEW s \in Socks, ClientSend(s) PROVE TypeOK'
  <2>1. lines[s] \in 0..MaxLines /\ lines[s] < MaxLines /\ MaxLines \in Nat
    BY <1>3, PoolAssumption DEF ClientSend
  <2>2. lines[s] + 1 \in 0..MaxLines
    BY <2>1
  <2>3. QED
    BY <1>3, <2>2 DEF ClientSend
<1>4. CASE EnterPoll \/ PollTimeout \/ PollError \/ StopAccepting \/ SetShuttingDown \/ Join
  BY <1>4 DEF EnterPoll, PollTimeout, PollError, StopAccepting, SetShuttingDown, Join
<1>5. ASSUME NEW s \in Socks, Accept(s) PROVE TypeOK'
  BY <1>5 DEF Accept
<1>6. CASE NotifyOne
  BY <1>6 DEF NotifyOne
<1>7. CASE NotifyAll
  BY <1>7 DEF NotifyAll
<1>8. ASSUME NEW w \in Workers, Wait(w) \/ SpuriousWake(w) \/ Leave(w)
      PROVE  TypeOK'
  BY <1>8 DEF Wait, SpuriousWake, Leave
<1>9. ASSUME NEW w \in Workers, Take(w) PROVE TypeOK'
  BY <1>9, TailPlaces DEF Take, QueueOnce
<1>10. ASSUME NEW w \in Workers, ReadLine(w) PROVE TypeOK'
  <2>1. serving[w] \in Socks /\ lines[serving[w]] > 0
    BY <1>0, <1>10 DEF ReadLine
  <2>2. lines[serving[w]] - 1 \in 0..MaxLines
    BY <2>1, PoolAssumption
  <2>3. QED
    BY <1>10, <2>1, <2>2 DEF ReadLine
<1>11. ASSUME NEW w \in Workers, CloseSock(w) \/ RecvError(w) PROVE TypeOK'
  <2>1. 0 \in 0..MaxLines
    BY PoolAssumption
  <2>2. lines' \in [Socks -> 0..MaxLines]
    BY <1>11, <2>1 DEF CloseSock, RecvError
  <2>3. QED
    BY <1>11, <2>2 DEF CloseSock, RecvError
<1>12. CASE UNCHANGED vars
  BY <1>12 DEF vars
<1>13. QED
  BY <1>1, <1>2, <1>3, <1>4, <1>5, <1>6, <1>7, <1>8, <1>9, <1>10, <1>11, <1>12
     DEF Next, Main, Worker

\* Only the accept loop and a thread that takes a socket change the queue.
LEMMA QueueStep ==
    ASSUME TypeOK, QueueOnce, ServedOnce, [Next]_vars
    PROVE  QueueOnce'
<1> USE DEF TypeOK
<1>1. ASSUME NEW s \in Socks, Accept(s) PROVE QueueOnce'
  <2>1. \A i \in 1..Len(socketQueue) : socketQueue[i] # s
    BY <1>1 DEF Accept, Pending, QueueOnce
  <2>2. /\ \A i, j \in 1..Len(socketQueue') : socketQueue'[i] = socketQueue'[j] => i = j
        /\ \A t \in Socks : (\E i \in 1..Len(socketQueue') : socketQueue'[i] = t) <=>
                              (t = s \/ \E i \in 1..Len(socketQueue) : socketQueue[i] = t)
    <3>1. socketQueue \in Seq(Socks) /\ socketQueue' = Append(socketQueue, s)
          /\ \A i, j \in 1..Len(socketQueue) : socketQueue[i] = socketQueue[j] => i = j
      BY <1>1 DEF Accept, QueueOnce
    <3>2. QED
      BY <2>1, <3>1, AppendPlaces
  <2>3. \A t \in Socks : sock'[t] = IF t = s THEN "queued" ELSE sock[t]
    BY <1>1 DEF Accept
  <2>4. QED
    BY <2>2, <2>3 DEF QueueOnce
<1>2. ASSUME NEW w \in Workers, Take(w) PROVE QueueOnce'
  <2>1. socketQueue \in Seq(Socks) /\ socketQueue # <<>> /\ socketQueue' = Tail(socketQueue)
        /\ \A i, j \in 1..Len(socketQueue) : socketQueue[i] = socketQueue[j] => i = j
    BY <1>2 DEF Take, QueueOnce
  <2> DEFINE a == Tail(socketQueue)
  <2>2. /\ Head(socketQueue) \in Socks
        /\ \A i, j \in 1..Len(a) : a[i] = a[j] => i = j
        /\ \A t \in Socks : (\E i \in 1..Len(a) : a[i] = t) <=>
             (t # Head(socketQueue) /\ \E i \in 1..Len(socketQueue) : socketQueue[i] = t)
    BY <2>1, TailPlaces, Zenon
  <2> HIDE DEF a
  <2>3. /\ Head(socketQueue) \in Socks
        /\ \A i, j \in 1..Len(socketQueue') : socketQueue'[i] = socketQueue'[j] => i = j
        /\ \A t \in Socks : (\E i \in 1..Len(socketQueue') : socketQueue'[i] = t) <=>
             (t # Head(socketQueue) /\ \E i \in 1..Len(socketQueue) : socketQueue[i] = t)
    BY <2>1, <2>2, Zenon DEF a
  <2>4. \A t \in Socks : sock'[t] = IF t = Head(socketQueue) THEN "open" ELSE sock[t]
    BY <1>2, <2>3 DEF Take
  <2>5. QED
    BY <2>3, <2>4 DEF QueueOnce
<1>3. ASSUME NEW w \in Workers, CloseSock(w) \/ RecvError(w) PROVE QueueOnce'
  <2>1. serving[w] \in Socks /\ sock[serving[w]] = "open"
    BY <1>3, SockAssumption DEF CloseSock, RecvError, ServedOnce
  <2>2. \A t \in Socks : sock'[t] = "queued" <=> sock[t] = "queued"
    BY <1>3, <2>1 DEF CloseSock, RecvError
  <2>3. socketQueue' = socketQueue
    BY <1>3 DEF CloseSock, RecvError
  <2>4. QED
    BY <2>2, <2>3 DEF QueueOnce
<1>4. CASE UNCHANGED <<socketQueue, sock>>
  BY <1>4 DEF QueueOnce
<1>5. QED
  BY <1>1, <1>2, <1>3, <1>4 DEF Next, Main, Worker, vars, RequestStop, ClientConnect, ClientSend,
     ClientClose, EnterPoll, PollTimeout, PollError, NotifyOne, StopAccepting, SetShuttingDown,
     NotifyAll, Join, Wait, SpuriousWake, Leave, ReadLine

\* A thread takes a socket that was queued, hence no other thread's, and gives it up
\* when it closes it.
LEMMA ServedStep ==
    ASSUME TypeOK, QueueOnce, ServedOnce, [Next]_vars
    PROVE  ServedOnce'
<1> USE SockAssumption DEF TypeOK
<1>1. ASSUME NEW w \in Workers, Take(w) PROVE ServedOnce'
  <2> DEFINE s == Head(socketQueue)
  <2>1. s \in Socks /\ sock[s] = "queued"
    BY <1>1, TailPlaces DEF Take, QueueOnce
  <2>2. \A v \in Workers : serving[v] # s
    BY <2>1 DEF ServedOnce
  <2>3. /\ serving' = [serving EXCEPT ![w] = s] /\ sock' = [sock EXCEPT ![s] = "open"]
        /\ worker' = [worker EXCEPT ![w] = "serving"] /\ worker[w] = "check"
    BY <1>1 DEF Take
  <2> HIDE DEF s
  <2>4. serving[w] = NoSock
    BY <2>3 DEF ServedOnce
  <2>5. \A v \in Workers : serving'[v] = IF v = w THEN s ELSE serving[v]
    BY <2>3
  <2>6. \A t \in Socks : sock'[t] = IF t = s THEN "open" ELSE sock[t]
    BY <2>3
  <2>7. \A v \in Workers : worker'[v] = "serving" <=> serving'[v] # NoSock
    BY <2>1, <2>3, <2>5 DEF ServedOnce
  <2>8. \A v \in Workers : serving'[v] # NoSock => sock'[serving'[v]] = "open"
    <3>1. ASSUME NEW v \in Workers, v # w, serving[v] # NoSock
          PROVE  sock[serving[v]] = "open" /\ serving[v] # s /\ serving[v] \in Socks
      BY <2>2, <3>1 DEF ServedOnce
    <3>2. QED
      BY <2>1, <2>5, <2>6, <3>1
  <2>9. \A u, v \in Workers : (serving'[u] = serving'[v] /\ serving'[u] # NoSock) => u = v
    BY <2>1, <2>2, <2>5, SMTT(30) DEF ServedOnce
  <2>10. \A t \in Socks : sock'[t] = "open" => \E v \in Workers : serving'[v] = t
    <3>1. ASSUME NEW t \in Socks, t # s, sock[t] = "open"
          PROVE  \E v \in Workers : v # w /\ serving[v] = t
      BY <2>4, <3>1 DEF ServedOnce
    <3>2. QED
      BY <2>5, <2>6, <3>1
  <2>11. QED
    BY <2>7, <2>8, <2>9, <2>10 DEF ServedOnce
<1>2. ASSUME NEW w \in Workers, CloseSock(w) \/ RecvError(w) PROVE ServedOnce'
  <2> DEFINE s == serving[w]
  <2>1. s \in Socks /\ sock[s] = "open" /\ \A v \in Workers \ {w} : serving[v] # s
    BY <1>2 DEF CloseSock, RecvError, ServedOnce
  <2>2. /\ serving' = [serving EXCEPT ![w] = NoSock] /\ sock' = [sock EXCEPT ![s] = "closed"]
        /\ worker' = [worker EXCEPT ![w] = "check"]
    BY <1>2 DEF CloseSock, RecvError
  <2> HIDE DEF s
  <2>3. \A v \in Workers : serving'[v] = IF v = w THEN NoSock ELSE serving[v]
    BY <2>2
  <2>4. \A t \in Socks : sock'[t] = IF t = s THEN "closed" ELSE sock[t]
    BY <2>2
  <2>5. \A v \in Workers : worker'[v] = "serving" <=> serving'[v] # NoSock
    BY <2>2, <2>3 DEF ServedOnce
  <2>6. \A v \in Workers : serving'[v] # NoSock => sock'[serving'[v]] = "open"
    BY <2>1, <2>3, <2>4 DEF ServedOnce
  <2>7. \A u, v \in Workers : (serving'[u] = serving'[v] /\ serving'[u] # NoSock) => u = v
    BY <2>3 DEF ServedOnce
  <2>8. \A t \in Socks : sock'[t] = "open" => \E v \in Workers : serving'[v] = t
    BY <2>1, <2>3, <2>4, ZenonT(60) DEF ServedOnce, s
  <2>9. QED
    BY <2>5, <2>6, <2>7, <2>8 DEF ServedOnce
<1>3. ASSUME NEW s \in Socks, Accept(s) PROVE ServedOnce'
  BY <1>3 DEF Accept, Pending, ServedOnce
<1>4. CASE NotifyOne
  BY <1>4 DEF NotifyOne, ServedOnce
<1>5. CASE NotifyAll
  BY <1>5 DEF NotifyAll, ServedOnce
<1>6. ASSUME NEW w \in Workers, Wait(w) \/ SpuriousWake(w) \/ Leave(w) PROVE ServedOnce'
  BY <1>6 DEF Wait, SpuriousWake, Leave, ServedOnce
<1>7. CASE UNCHANGED <<worker, serving, sock>>
  BY <1>7 DEF ServedOnce
<1>8. QED
  BY <1>1, <1>2, <1>3, <1>4, <1>5, <1>6, <1>7 DEF Next, Main, Worker, vars, RequestStop,
     ClientConnect, ClientSend, ClientClose, EnterPoll, PollTimeout, PollError, StopAccepting,
     SetShuttingDown, Join, ReadLine

\* Once shuttingDown is set nothing is pushed and nobody goes to sleep.
LEMMA ShutdownStep ==
    ASSUME TypeOK, Shutdown, [Next]_vars
    PROVE  Shutdown'
<1> USE DEF TypeOK, MainStates, WorkerStates
<1>1. ASSUME NEW s \in Socks, Accept(s) PROVE Shutdown'
  BY <1>1 DEF Accept, Shutdown
<1>2. CASE NotifyOne
  BY <1>2 DEF NotifyOne, Shutdown
<1>3. CASE NotifyAll
  BY <1>3 DEF NotifyAll, Shutdown
<1>4. CASE EnterPoll \/ PollTimeout \/ PollError \/ StopAccepting \/ SetShuttingDown \/ Join
  BY <1>4 DEF EnterPoll, PollTimeout, PollError, StopAccepting, SetShuttingDown, Join, Shutdown
<1>5. ASSUME NEW w \in Workers, Wait(w) \/ SpuriousWake(w) \/ Leave(w) PROVE Shutdown'
  BY <1>5 DEF Wait, SpuriousWake, Leave, Shutdown
<1>6. ASSUME NEW w \in Workers, Take(w) PROVE Shutdown'
  BY <1>6 DEF Take, Shutdown
<1>7. ASSUME NEW w \in Workers, CloseSock(w) \/ RecvError(w) PROVE Shutdown'
  BY <1>7 DEF CloseSock, RecvError, Shutdown
<1>8. CASE UNCHANGED <<socketQueue, shuttingDown, main, worker>>
  BY <1>8 DEF Shutdown
<1>9. QED
  BY <1>1, <1>2, <1>3, <1>4, <1>5, <1>6, <1>7, <1>8 DEF Next, Main, Worker, vars, RequestStop,
     ClientConnect, ClientSend, ClientClose, ReadLine

\* NoLostWakeup is inductive by itself: a push is followed by its notify_one, a woken
\* thread counts until it has taken a socket, and a thread goes to sleep only when
\* the queue is empty.
LEMMA WakeupStep ==
    ASSUME TypeOK, QueueOnce, Shutdown, NoLostWakeup, [Next]_vars
    PROVE  NoLostWakeup'
<1> DEFINE C(st) == Cardinality(In(worker, st))
           D(st) == Cardinality(In(worker', st))
           Bonus == IF main = "notify" THEN 1 ELSE 0
           Bonus1 == IF main' = "notify" THEN 1 ELSE 0
           n == Len(socketQueue)
           n1 == Len(socketQueue')
<1>1. /\ \A st : C(st) \in Nat /\ D(st) \in Nat
      /\ \A st : C(st) = 0 <=> In(worker, st) = {}
      /\ \A st : D(st) = 0 <=> In(worker', st) = {}
  BY CountFacts
<1>2. C("waiting") > 0 => n <= C("check") + Bonus
  BY DEF NoLostWakeup, Count, In
<1>3. NoLostWakeup' <=> (D("waiting") > 0 => n1 <= D("check") + Bonus1)
  BY DEF NoLostWakeup, Count, In
<1>4. n \in Nat /\ worker \in [Workers -> WorkerStates] /\ Bonus \in 0..1
      /\ (socketQueue = <<>> => n = 0)
  BY DEF TypeOK
<1> HIDE DEF C, D
<1>5. ASSUME NEW s \in Socks, Accept(s) PROVE NoLostWakeup'
  <2>1. n1 = n + 1 /\ worker' = worker /\ Bonus = 0 /\ Bonus1 = 1
    BY <1>5 DEF Accept, TypeOK
  <2>2. D("waiting") = C("waiting") /\ D("check") = C("check")
    BY <2>1 DEF C, D
  <2>3. QED
    BY <1>1, <1>2, <1>3, <1>4, <2>1, <2>2
<1>6. CASE NotifyOne
  <2>1. n1 = n /\ Bonus = 1 /\ Bonus1 = 0
    BY <1>6 DEF NotifyOne
  <2>2. CASE \E w \in Workers : worker[w] = "waiting"
    <3>1. PICK w \in Workers : worker[w] = "waiting" /\ worker' = [worker EXCEPT ![w] = "check"]
      BY <1>6, <2>2 DEF NotifyOne
    <3>2. D("waiting") = C("waiting") - 1 /\ D("check") = C("check") + 1
      BY <1>4, <3>1, MoveCounts, ZenonT(60) DEF C, D, WorkerStates
    <3>3. QED
      BY <1>1, <1>2, <1>3, <1>4, <2>1, <3>2
  <2>3. CASE ~\E w \in Workers : worker[w] = "waiting"
    <3>1. In(worker', "waiting") = {}
      BY <1>6, <2>3 DEF NotifyOne, In
    <3>2. QED
      BY <1>1, <1>3, <3>1
  <2>4. QED
    BY <2>2, <2>3
<1>7. CASE NotifyAll
  <2>1. In(worker', "waiting") = {}
    BY <1>7 DEF NotifyAll, In
  <2>2. QED
    BY <1>1, <1>3, <2>1
<1>8. CASE EnterPoll \/ PollTimeout \/ PollError \/ StopAccepting \/ SetShuttingDown \/ Join
  <2>1. n1 = n /\ worker' = worker /\ Bonus = 0 /\ Bonus1 = 0
    BY <1>8 DEF EnterPoll, PollTimeout, PollError, StopAccepting, SetShuttingDown, Join
  <2>2. D("waiting") = C("waiting") /\ D("check") = C("check")
    BY <2>1 DEF C, D
  <2>3. QED
    BY <1>2, <1>3, <2>1, <2>2
<1>9. ASSUME NEW w \in Workers, Wait(w) PROVE NoLostWakeup'
  <2>1. n1 = 0
    BY <1>9, <1>4 DEF Wait
  <2>2. QED
    BY <1>1, <1>3, <2>1
<1>10. ASSUME NEW w \in Workers, SpuriousWake(w) PROVE NoLostWakeup'
  <2>1. n1 = n /\ Bonus = Bonus1 /\ worker[w] = "waiting" /\ worker' = [worker EXCEPT ![w] = "check"]
    BY <1>10 DEF SpuriousWake
  <2>2. D("waiting") = C("waiting") - 1 /\ D("check") = C("check") + 1
    BY <1>4, <2>1, MoveCounts, ZenonT(60) DEF C, D, WorkerStates
  <2>3. QED
    BY <1>1, <1>2, <1>3, <1>4, <2>1, <2>2
<1>11. ASSUME NEW w \in Workers, Take(w) PROVE NoLostWakeup'
  <2>1. /\ n1 = n - 1 /\ Bonus = Bonus1
        /\ worker[w] = "check" /\ worker' = [worker EXCEPT ![w] = "serving"]
    BY <1>11, TailPlaces DEF Take, TypeOK, QueueOnce
  <2>2. D("check") = C("check") - 1 /\ D("waiting") = C("waiting")
    BY <1>4, <2>1, MoveCounts, ZenonT(60) DEF C, D, WorkerStates
  <2>3. QED
    BY <1>1, <1>2, <1>3, <1>4, <2>1, <2>2
<1>12. ASSUME NEW w \in Workers, Leave(w) PROVE NoLostWakeup'
  <2>1. n1 = 0
    BY <1>12, <1>4 DEF Leave
  <2>2. QED
    BY <1>1, <1>3, <2>1
<1>13. ASSUME NEW w \in Workers, CloseSock(w) \/ RecvError(w) PROVE NoLostWakeup'
  <2>1. n1 = n /\ Bonus = Bonus1 /\ worker[w] = "serving" /\ worker' = [worker EXCEPT ![w] = "check"]
    BY <1>13 DEF CloseSock, RecvError
  <2>2. D("check") = C("check") + 1 /\ D("waiting") = C("waiting")
    BY <1>4, <2>1, MoveCounts, ZenonT(60) DEF C, D, WorkerStates
  <2>3. QED
    BY <1>1, <1>2, <1>3, <1>4, <2>1, <2>2
<1>14. CASE UNCHANGED <<socketQueue, main, worker>>
  BY <1>14 DEF NoLostWakeup, Count
<1>15. QED
  BY <1>5, <1>6, <1>7, <1>8, <1>9, <1>10, <1>11, <1>12, <1>13, <1>14 DEF Next, Main, Worker, vars,
     RequestStop, ClientConnect, ClientSend, ClientClose, ReadLine

LEMMA PoolInit == Init => PoolInv
<1> SUFFICES ASSUME Init PROVE PoolInv
  OBVIOUS
<1>1. TypeOK
  <2>1. 0 \in 0..MaxLines
    BY PoolAssumption
  <2>2. socketQueue \in Seq(Socks) /\ main \in MainStates /\ worker \in [Workers -> WorkerStates]
    BY DEF Init, MainStates, WorkerStates
  <2>3. /\ serving \in [Workers -> Socks \cup {NoSock}]
        /\ client \in [Socks -> {"new", "open", "closed", "reset"}]
        /\ sock \in [Socks -> {"new", "queued", "open", "closed"}]
        /\ shuttingDown \in BOOLEAN /\ stop_requested \in BOOLEAN
    BY DEF Init
  <2>4. lines \in [Socks -> 0..MaxLines]
    BY <2>1 DEF Init
  <2>5. QED
    BY <2>2, <2>3, <2>4 DEF TypeOK
<1>2. socketQueue = <<>> /\ Len(socketQueue) = 0 /\ In(worker, "waiting") = {}
  BY DEF Init, In
<1>3. QueueOnce /\ ServedOnce /\ Shutdown
  BY <1>2, SockAssumption DEF Init, QueueOnce, ServedOnce, Shutdown
<1>4. NoLostWakeup
  <2>1. Cardinality({w \in Workers : worker[w] = "waiting"}) = 0
    BY <1>2, CountFacts DEF In
  <2>2. QED
    BY <2>1 DEF NoLostWakeup, Count
<1>5. QED
  BY <1>1, <1>3, <1>4 DEF PoolInv

LEMMA PoolInvariant == Spec => []PoolInv
<1>1. ASSUME PoolInv, [Next]_vars PROVE PoolInv'
  BY <1>1, TypeStep, QueueStep, ServedStep, ShutdownStep, WakeupStep DEF PoolInv
<1>2. QED
  BY <1>1, PoolInit, PTL DEF Spec

\* The state of the accept loop, the queue and the threads is always well formed.
THEOREM TypeCorrect == Spec => []TypeOK
BY PoolInvariant, PTL DEF PoolInv

\* notify_one after the push, without queueMtx, loses no wakeup, whatever threads take
\* sockets or wake spuriously in between.
THEOREM Wakeups == Spec => []NoLostWakeup
BY PoolInvariant, PTL DEF PoolInv

\* Every accepted socket is served by one thread and closed once: the queue never
\* hands one to two threads and never drops one.
THEOREM SocketsOnce == Spec => []EachSocketOnce
<1>1. ASSUME PoolInv PROVE EachSocketOnce
  <2> SUFFICES ASSUME NEW s \in Socks
               PROVE  /\ Cardinality({i \in 1..Len(socketQueue) : socketQueue[i] = s}) =
                            IF sock[s] = "queued" THEN 1 ELSE 0
                      /\ Cardinality({w \in Workers : serving[w] = s}) =
                            IF sock[s] = "open" THEN 1 ELSE 0
    BY DEF EachSocketOnce
  <2> DEFINE Q == {i \in 1..Len(socketQueue) : socketQueue[i] = s}
             W == {w \in Workers : serving[w] = s}
  <2>1. ASSUME sock[s] = "queued" PROVE \E i : Q = {i}
    <3>1. PICK i \in 1..Len(socketQueue) : socketQueue[i] = s
      BY <1>1, <2>1 DEF PoolInv, QueueOnce
    <3>2. Q = {i}
      BY <1>1, <3>1 DEF PoolInv, QueueOnce
    <3>3. QED
      BY <3>2
  <2>2. ASSUME sock[s] # "queued" PROVE Q = {}
    BY <1>1, <2>2 DEF PoolInv, QueueOnce
  <2>3. ASSUME sock[s] = "open" PROVE \E w : W = {w}
    <3>1. PICK w \in Workers : serving[w] = s
      BY <1>1, <2>3 DEF PoolInv, ServedOnce
    <3>2. s # NoSock
      BY SockAssumption
    <3>3. W = {w}
      BY <1>1, <3>1, <3>2 DEF PoolInv, ServedOnce
    <3>4. QED
      BY <3>3
  <2>4. ASSUME sock[s] # "open" PROVE W = {}
    <3>1. s # NoSock
      BY SockAssumption
    <3>2. QED
      BY <1>1, <2>4, <3>1 DEF PoolInv, ServedOnce
  <2> HIDE DEF Q, W
  <2>5. Cardinality(Q) = (IF sock[s] = "queued" THEN 1 ELSE 0)
        /\ Cardinality(W) = IF sock[s] = "open" THEN 1 ELSE 0
    BY <2>1, <2>2, <2>3, <2>4, FS_EmptySet, FS_Singleton
  <2>6. QED
    BY <2>5 DEF Q, W
<1>2. QED
  BY <1>1, PoolInvariant, PTL

\* The safety half of ShutdownCompletes: the destructor returns only after every thread
\* has left its loop, and by then the queue is empty and every accepted
\* connection closed.
THEOREM ShutdownSafe == Spec => []NothingAbandoned
<1>1. ASSUME PoolInv PROVE NothingAbandoned
  <2> SUFFICES ASSUME main = "done"
               PROVE  socketQueue = <<>> /\ \A s \in Socks : sock[s] \in {"new", "closed"}
    BY DEF NothingAbandoned
  <2>1. PICK w \in Workers : worker[w] = "exited"
    BY <1>1, PoolAssumption DEF PoolInv, Shutdown
  <2>2. socketQueue = <<>>
    BY <1>1, <2>1 DEF PoolInv, Shutdown
  <2>3. \A s \in Socks : sock[s] # "queued"
    BY <1>1, <2>2 DEF PoolInv, QueueOnce
  <2>4. \A v \in Workers : serving[v] = NoSock
    BY <1>1 DEF PoolInv, Shutdown, ServedOnce
  <2>5. \A s \in Socks : sock[s] # "open"
    BY <1>1, <2>4, SockAssumption DEF PoolInv, ServedOnce
  <2>6. QED
    BY <1>1, <2>2, <2>3, <2>5 DEF PoolInv, TypeOK
<1>2. QED
  BY <1>1, PoolInvariant, PTL
===============================================================================
