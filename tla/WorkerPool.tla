------------------------------ MODULE WorkerPool ------------------------------
(***************************************************************************)
(* The controller's connection handling: the accept loop (Controller::run),*)
(* the queue of accepted sockets with its mutex and condition variable,    *)
(* the pool threads (workerLoop, handleClient) and shutdown on SIGTERM.    *)
(* A thread stays with a socket until the client closes it.  What a line   *)
(* makes the controller do is in module Controller; here a line is just    *)
(* something that has to be processed.                                     *)
(***************************************************************************)
EXTENDS Naturals, FiniteSets, Sequences

CONSTANTS
    Workers,     \* the pool: max(2, hardware_concurrency) threads
    Socks,       \* client connections (one per rank)
    MaxLines     \* bound: lines of a client that are sent and not yet read

ASSUME PoolAssumption == Workers # {} /\ IsFiniteSet(Workers) /\ MaxLines \in Nat \ {0}

VARIABLES
    socketQueue,     \* accepted sockets no thread has taken
    shuttingDown,    \* set by run() and by ~Controller, under queueMtx
    stop_requested,  \* set by the signal handler
    main,            \* the main thread: see MainStates
    worker,          \* per pool thread: see WorkerStates
    serving,         \* per pool thread: the socket it serves, or NoSock
    client,          \* per socket: the client's side of it
    sock,            \* per socket: the controller's side of it
    lines            \* per socket: lines sent and not yet read

vars == <<socketQueue, shuttingDown, stop_requested, main, worker, serving,
          client, sock, lines>>

NoSock == "none"
ASSUME SockAssumption == NoSock \notin Socks

\* "loop": about to test stop_requested; "poll": in poll(); "notify": between
\* the push and notify_one; "closed": the listener is closed;
\* "notifyAll": shuttingDown is set, notify_all is still to come.
MainStates == {"loop", "poll", "notify", "closed", "notifyAll", "join", "done"}

\* "check": about to evaluate the wait predicate with queueMtx held; "waiting":
\* blocked on queueCv.
WorkerStates == {"check", "waiting", "serving", "exited"}

TypeOK ==
    /\ socketQueue \in Seq(Socks)
    /\ shuttingDown \in BOOLEAN /\ stop_requested \in BOOLEAN
    /\ main \in MainStates
    /\ worker \in [Workers -> WorkerStates]
    /\ serving \in [Workers -> Socks \cup {NoSock}]
    /\ client \in [Socks -> {"new", "open", "closed", "reset"}]
    /\ sock \in [Socks -> {"new", "queued", "open", "closed"}]
    /\ lines \in [Socks -> 0..MaxLines]

Init ==
    /\ socketQueue = <<>>
    /\ shuttingDown = FALSE /\ stop_requested = FALSE
    /\ main = "loop"
    /\ worker = [w \in Workers |-> "check"]
    /\ serving = [w \in Workers |-> NoSock]
    /\ client = [s \in Socks |-> "new"]
    /\ sock = [s \in Socks |-> "new"]
    /\ lines = [s \in Socks |-> 0]

---------------------------------------------------------------------------
(* The environment: ranks and the operator.  What a client does after the  *)
(* controller has closed the connection concerns the controller no more.   *)

ClientConnect(s) ==
    /\ client[s] = "new"
    /\ client' = [client EXCEPT ![s] = "open"]
    /\ UNCHANGED <<socketQueue, shuttingDown, stop_requested, main, worker, serving,
                   sock, lines>>

\* A client may go on sending for ever: only what is unread is bounded, as by the
\* buffers of the connection.
ClientSend(s) ==
    /\ client[s] = "open" /\ sock[s] # "closed" /\ lines[s] < MaxLines
    /\ lines' = [lines EXCEPT ![s] = @ + 1]
    /\ UNCHANGED <<socketQueue, shuttingDown, stop_requested, main, worker, serving, client, sock>>

\* The client closes its side, or its host resets the connection.
ClientClose(s) ==
    /\ client[s] = "open" /\ sock[s] # "closed"
    /\ \E how \in {"closed", "reset"} : client' = [client EXCEPT ![s] = how]
    /\ UNCHANGED <<socketQueue, shuttingDown, stop_requested, main, worker, serving, sock, lines>>

RequestStop ==
    /\ ~stop_requested
    /\ stop_requested' = TRUE
    /\ UNCHANGED <<socketQueue, shuttingDown, main, worker, serving, client, sock, lines>>

---------------------------------------------------------------------------
(* The main thread: run(), then ~Controller.                               *)

Pending(s) == client[s] # "new" /\ sock[s] = "new"

EnterPoll ==
    /\ main = "loop" /\ ~stop_requested
    /\ main' = "poll"
    /\ UNCHANGED <<socketQueue, shuttingDown, stop_requested, worker, serving, client, sock, lines>>

\* No connection within 250 ms, or a signal.
PollTimeout ==
    /\ main = "poll" /\ (stop_requested \/ ~\E s \in Socks : Pending(s))
    /\ main' = "loop"
    /\ UNCHANGED <<socketQueue, shuttingDown, stop_requested, worker, serving, client, sock, lines>>

\* poll fails with another error than EINTR: the accept loop ends although nobody
\* has asked for it, and stop_requested stays as it is.
PollError ==
    /\ main = "poll"
    /\ main' = "closed"
    /\ UNCHANGED <<socketQueue, shuttingDown, stop_requested, worker, serving, client, sock, lines>>

\* accept and push under queueMtx.
Accept(s) ==
    /\ main = "poll" /\ Pending(s)
    /\ socketQueue' = Append(socketQueue, s)
    /\ sock' = [sock EXCEPT ![s] = "queued"]
    /\ main' = "notify"
    /\ UNCHANGED <<shuttingDown, stop_requested, worker, serving, client, lines>>

\* Mutant: the notification is forgotten.
NotifyNobody ==
    /\ main = "notify"
    /\ main' = "loop"
    /\ UNCHANGED <<socketQueue, shuttingDown, stop_requested, worker, serving, client, sock, lines>>

\* notify_one wakes some waiting thread, if there is one.
NotifyOne ==
    /\ main = "notify"
    /\ IF \E w \in Workers : worker[w] = "waiting"
       THEN \E w \in Workers : worker[w] = "waiting" /\ worker' = [worker EXCEPT ![w] = "check"]
       ELSE UNCHANGED worker
    /\ main' = "loop"
    /\ UNCHANGED <<socketQueue, shuttingDown, stop_requested, serving, client, sock, lines>>

\* The accept loop sees the flag and closes the listener.
StopAccepting ==
    /\ main = "loop" /\ stop_requested
    /\ main' = "closed"
    /\ UNCHANGED <<socketQueue, shuttingDown, stop_requested, worker, serving, client, sock, lines>>

SetShuttingDown ==
    /\ main = "closed"
    /\ shuttingDown' = TRUE
    /\ main' = "notifyAll"
    /\ UNCHANGED <<socketQueue, stop_requested, worker, serving, client, sock, lines>>

NotifyAll ==
    /\ main = "notifyAll"
    /\ worker' = [w \in Workers |-> IF worker[w] = "waiting" THEN "check" ELSE worker[w]]
    /\ main' = "join"
    /\ UNCHANGED <<socketQueue, shuttingDown, stop_requested, serving, client, sock, lines>>

Join ==
    /\ main = "join"
    /\ \A w \in Workers : worker[w] = "exited"
    /\ main' = "done"
    /\ UNCHANGED <<socketQueue, shuttingDown, stop_requested, worker, serving, client, sock, lines>>

---------------------------------------------------------------------------
(* A pool thread: workerLoop and handleClient.                             *)

\* The predicate is false: the wait releases queueMtx and blocks.
Wait(w) ==
    /\ worker[w] = "check" /\ ~shuttingDown /\ socketQueue = <<>>
    /\ worker' = [worker EXCEPT ![w] = "waiting"]
    /\ UNCHANGED <<socketQueue, shuttingDown, stop_requested, main, serving, client, sock, lines>>

\* A condition variable may wake without a notification.
SpuriousWake(w) ==
    /\ worker[w] = "waiting"
    /\ worker' = [worker EXCEPT ![w] = "check"]
    /\ UNCHANGED <<socketQueue, shuttingDown, stop_requested, main, serving, client, sock, lines>>

\* Mutant: front() without pop().
TakeNoPop(w) ==
    /\ worker[w] = "check" /\ socketQueue # <<>>
    /\ serving' = [serving EXCEPT ![w] = Head(socketQueue)]
    /\ sock' = [sock EXCEPT ![Head(socketQueue)] = "open"]
    /\ worker' = [worker EXCEPT ![w] = "serving"]
    /\ UNCHANGED <<socketQueue, shuttingDown, stop_requested, main, client, lines>>

\* The predicate holds: the front of the queue is this thread's.
Take(w) ==
    /\ worker[w] = "check" /\ socketQueue # <<>>
    /\ serving' = [serving EXCEPT ![w] = Head(socketQueue)]
    /\ sock' = [sock EXCEPT ![Head(socketQueue)] = "open"]
    /\ socketQueue' = Tail(socketQueue)
    /\ worker' = [worker EXCEPT ![w] = "serving"]
    /\ UNCHANGED <<shuttingDown, stop_requested, main, client, lines>>

Leave(w) ==
    /\ worker[w] = "check" /\ shuttingDown /\ socketQueue = <<>>
    /\ worker' = [worker EXCEPT ![w] = "exited"]
    /\ UNCHANGED <<socketQueue, shuttingDown, stop_requested, main, serving, client, sock, lines>>

\* Mutant: a line is processed that has not been received.
ReadNothing(w) ==
    /\ worker[w] = "serving"
    /\ lines' = [lines EXCEPT ![serving[w]] = @ - 1]
    /\ UNCHANGED <<socketQueue, shuttingDown, stop_requested, main, worker, serving, client, sock>>

\* recv returned data and processLine has run.
ReadLine(w) ==
    /\ worker[w] = "serving" /\ lines[serving[w]] > 0
    /\ lines' = [lines EXCEPT ![serving[w]] = @ - 1]
    /\ UNCHANGED <<socketQueue, shuttingDown, stop_requested, main, worker, serving, client, sock>>

\* Mutant: a receive timeout does not look at stop_requested.
CloseIfClosed(w) ==
    /\ worker[w] = "serving" /\ lines[serving[w]] = 0
    /\ client[serving[w]] = "closed"
    /\ sock' = [sock EXCEPT ![serving[w]] = "closed"]
    /\ worker' = [worker EXCEPT ![w] = "check"]
    /\ serving' = [serving EXCEPT ![w] = NoSock]
    /\ UNCHANGED <<socketQueue, shuttingDown, stop_requested, main, client, lines>>

\* recv returned 0, or it timed out and stop_requested is set: close the socket.
CloseSock(w) ==
    /\ worker[w] = "serving" /\ lines[serving[w]] = 0
    /\ client[serving[w]] = "closed" \/ stop_requested
    /\ sock' = [sock EXCEPT ![serving[w]] = "closed"]
    /\ worker' = [worker EXCEPT ![w] = "check"]
    /\ serving' = [serving EXCEPT ![w] = NoSock]
    /\ UNCHANGED <<socketQueue, shuttingDown, stop_requested, main, client, lines>>

\* recv failed: the socket is closed, and what it still held is lost.
RecvError(w) ==
    /\ worker[w] = "serving" /\ client[serving[w]] = "reset"
    /\ sock' = [sock EXCEPT ![serving[w]] = "closed"]
    /\ worker' = [worker EXCEPT ![w] = "check"]
    /\ serving' = [serving EXCEPT ![w] = NoSock]
    /\ lines' = [lines EXCEPT ![serving[w]] = 0]
    /\ UNCHANGED <<socketQueue, shuttingDown, stop_requested, main, client>>

Main ==
    \/ EnterPoll \/ PollTimeout \/ (\E s \in Socks : Accept(s))
    \/ NotifyOne \/ StopAccepting \/ SetShuttingDown \/ NotifyAll \/ Join

Worker(w) == Wait(w) \/ Take(w) \/ Leave(w) \/ ReadLine(w) \/ CloseSock(w) \/ RecvError(w)

Next ==
    \/ RequestStop
    \/ \E s \in Socks : ClientConnect(s) \/ ClientSend(s) \/ ClientClose(s)
    \/ Main \/ PollError
    \/ \E w \in Workers : Worker(w) \/ SpuriousWake(w)

\* The kernel schedules the main thread and every pool thread.
Fairness ==
    /\ WF_vars(Main)
    /\ \A w \in Workers : WF_vars(Worker(w))

Spec == Init /\ [][Next]_vars /\ Fairness
---------------------------------------------------------------------------
Count(st) == Cardinality({w \in Workers : worker[w] = st})

\* A thread sleeps on queueCv only while every queued socket has a thread on
\* its way to it: a thread that was woken, or the notify_one that follows the
\* push.  Otherwise a rank would wait for a connection that nobody serves.
NoLostWakeup ==
    Count("waiting") > 0 =>
        Len(socketQueue) <= Count("check") + (IF main = "notify" THEN 1 ELSE 0)

\* An accepted socket is in exactly one place: once in the queue, or with exactly
\* one thread, or closed.
EachSocketOnce ==
    \A s \in Socks :
        /\ Cardinality({i \in 1..Len(socketQueue) : socketQueue[i] = s}) =
              IF sock[s] = "queued" THEN 1 ELSE 0
        /\ Cardinality({w \in Workers : serving[w] = s}) = IF sock[s] = "open" THEN 1 ELSE 0

\* controller.cpp:728: the bounded receive timeout "lets the worker notice SIGTERM
\* even when a client keeps its control socket open": after a stop request all
\* threads are joined although no client closes its socket, and no accepted
\* connection is abandoned: those still queued have been taken and closed too.
\* The flag is looked at when a receive times out and at no other place, so
\* this is all the code gives: a client that sends for ever keeps its thread.
ShutdownCompletes ==
    <>[][~\E s \in Socks : ClientSend(s)]_vars =>
        (stop_requested ~> (main = "done" /\ \A s \in Socks : sock[s] \in {"new", "closed"}))

\* Every accepted connection gets a thread, unless all threads are with other
\* connections: then it waits until some client disconnects.
EveryConnectionServed ==
    \A s \in Socks : (sock[s] = "queued") ~>
        (sock[s] # "queued" \/ \A w \in Workers : worker[w] = "serving")
===============================================================================
