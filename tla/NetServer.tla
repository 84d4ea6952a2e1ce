----------------------------- MODULE NetServer ------------------------------
(***************************************************************************)
(* The older engine's server and its workers: Net/Core/IocpServer.cpp and  *)
(* IocpWorker.cpp.  One thread, Owner, starts the server; any thread may   *)
(* stop it, the Owner again when it destroys it.  AcceptEx, the sockets    *)
(* and the completion port are the kernel's: an accept that ends, with a   *)
(* client or because the listening socket was closed, puts a packet into   *)
(* the port's queue, and any worker may take it.                           *)
(*                                                                         *)
(* The worker reads every packet as an OverlappedEx.  For an AcceptCtx the *)
(* field owner lies where AcceptCtx has sess, which is null, in 32- and in *)
(* 64-bit builds: the packet is freed and OnIocpAcceptComplete never runs. *)
(***************************************************************************)
EXTENDS Integers, Sequences, FiniteSets

CONSTANTS
  NumWorkers,     \* workerCount
  Prepost,        \* prepostAccepts_
  Owner, Others,  \* the thread that starts and destroys; threads that stop
  MaxStarts       \* bound: calls of Start

ASSUME NetServerAssumption ==
  /\ NumWorkers \in Nat \ {0}
  /\ Prepost \in Nat
  /\ MaxStarts \in Nat
  /\ Owner \notin Others

VARIABLES
  running,        \* running_
  listen, port,   \* listen_, iocp_: never made, open, or closed
  inflight,       \* inflightAccepts_
  pending,        \* AcceptEx calls the kernel has not ended
  queue,          \* the packets in the port
  alive,          \* IocpWorker::running_ of each worker
  at, packet,     \* where each worker is, the packet it took
  pc,             \* where each thread is in Start or Stop
  turn,           \* the accept Start is at, the worker Stop is at
  told,           \* what the listener was told, in order
  starts          \* calls of Start so far

handleVars == <<running, listen, port, starts>>
acceptVars == <<inflight, pending>>
workerVars == <<alive, at, packet>>
callVars   == <<pc, turn, told>>
vars == <<handleVars, acceptVars, queue, workerVars, callVars>>

Threads == {Owner} \cup Others
WorkerIds == 1..NumWorkers

Init ==
  /\ running = FALSE
  /\ listen = "none" /\ port = "none"
  /\ inflight = 0 /\ pending = 0
  /\ queue = <<>>
  /\ alive = [w \in WorkerIds |-> FALSE]
  /\ at = [w \in WorkerIds |-> "none"]
  /\ packet = [w \in WorkerIds |-> "none"]
  /\ pc = [t \in Threads |-> "idle"]
  /\ turn = [t \in Threads |-> 0]
  /\ told = <<>>
  /\ starts = 0

Tell(what) == told' = Append(told, what)
Goto(t, where, n) ==
  /\ pc' = [pc EXCEPT ![t] = where]
  /\ turn' = [turn EXCEPT ![t] = n]

-----------------------------------------------------------------------------
(* Start.                                                                  *)

\* The Owner starts a server that was never started or has been stopped.
CanStart ==
  /\ pc[Owner] = "idle" /\ ~running
  /\ \A t \in Others : pc[t] \in {"idle", "returned"}
  /\ starts < MaxStarts
  /\ starts' = starts + 1

\* What a failing call of Start leaves.  A handle that was open and is
\* overwritten stays open, and nobody holds it.
NoListenSocket == listen' = "none" /\ UNCHANGED port
NotListening   == listen' = "open" /\ UNCHANGED port
NoPort         == listen' = "open" /\ port' = "none"
NoAcceptEx     == listen' = "closed" /\ port' = "open"  \* or no association

\* Winsock does not start, and nothing was done; or one of the later calls fails.
StartFails ==
  /\ CanStart
  /\ \/ UNCHANGED <<told, listen, port>>
     \/ Tell("starting") /\ (NoListenSocket \/ NotListening \/ NoPort \/ NoAcceptEx)
  /\ UNCHANGED <<running, acceptVars, queue, workerVars, pc, turn>>

\* The handles are made and every worker's thread runs.
StartWorkers ==
  /\ CanStart
  /\ Tell("starting")
  /\ listen' = "open" /\ port' = "open"
  /\ queue' = <<>>
  /\ alive' = [w \in WorkerIds |-> TRUE]
  /\ at' = [w \in WorkerIds |-> "loop"]
  /\ Goto(Owner, "running", 0)
  /\ UNCHANGED <<running, acceptVars, packet>>

StartRunning ==
  /\ pc[Owner] = "running"
  /\ running' = TRUE
  /\ Goto(Owner, "accepts", Prepost)
  /\ UNCHANGED <<listen, port, starts, acceptVars, queue, workerVars, told>>

BatchLeft == turn[Owner] > 0

\* PostAcceptBatch: one accept after another.  PostOneAccept looks at running_
\* before it makes the socket ...
PostAcceptBatch ==
  /\ pc[Owner] = "accepts"
  /\ Goto(Owner, IF BatchLeft /\ running THEN "posting" ELSE "started", turn[Owner])
  /\ UNCHANGED <<handleVars, acceptVars, queue, workerVars, told>>

\* ... and the server may have been stopped before it calls AcceptEx; the first
\* accept that fails, for want of a socket or in AcceptEx, ends the batch.
PostOneAccept ==
  /\ pc[Owner] = "posting"
  /\ \/ /\ listen = "open"
        /\ pending' = pending + 1
        /\ inflight' = inflight + 1
        /\ Goto(Owner, "accepts", turn[Owner] - 1)
     \/ /\ UNCHANGED acceptVars
        /\ Goto(Owner, "started", turn[Owner])
  /\ UNCHANGED <<handleVars, queue, workerVars, told>>

StartReturns ==
  /\ pc[Owner] = "started"
  /\ Tell("started")
  /\ Goto(Owner, "idle", turn[Owner])
  /\ UNCHANGED <<handleVars, acceptVars, queue, workerVars>>

-----------------------------------------------------------------------------
(* Stop.                                                                   *)

\* Mutant: two threads may both find the server running.
StopWins_NotExchanged(t) == running /\ running' \in BOOLEAN

\* running_.exchange(false) returns true for one thread only.
StopWins(t) == running /\ running' = FALSE

StopBegins(t) ==
  /\ pc[t] = "idle"
  /\ StopWins(t)
  /\ Goto(t, "listen", 0)
  /\ UNCHANGED <<listen, port, starts, acceptVars, queue, workerVars, told>>

\* Stop of a server that is not running returns at once.
StopIgnored(t) ==
  /\ pc[t] = "idle" /\ ~running
  /\ Goto(t, "returned", 0)
  /\ UNCHANGED <<handleVars, acceptVars, queue, workerVars, told>>

\* The kernel aborts every pending accept.
StopListening(t) ==
  /\ pc[t] = "listen"
  /\ listen' = "closed"
  /\ queue' = queue \o [i \in 1..pending |-> "accept"]
  /\ pending' = 0
  /\ Goto(t, "quit", 1)
  /\ UNCHANGED <<running, port, starts, inflight, workerVars, told>>

\* Mutant: no packet is posted.
PostQuit_Forgotten == UNCHANGED queue

PostQuit == queue' = Append(queue, "quit")

\* IocpWorker::Stop: one quit packet, then wait for this worker's thread.
StopWorker(t) ==
  /\ pc[t] = "quit" /\ turn[t] <= NumWorkers
  /\ alive' = [alive EXCEPT ![turn[t]] = FALSE]
  /\ PostQuit
  /\ Goto(t, "join", turn[t])
  /\ UNCHANGED <<handleVars, acceptVars, at, packet, told>>

\* Mutant: the thread is not joined.
Joined_NoWait(w) == TRUE

Joined(w) == at[w] = "ended"

JoinWorker(t) ==
  /\ pc[t] = "join"
  /\ Joined(turn[t])
  /\ Goto(t, "quit", turn[t] + 1)
  /\ UNCHANGED <<handleVars, acceptVars, queue, workerVars, told>>

\* workers_ is emptied and the port closed: its packets are gone.
ClosePort(t) ==
  /\ pc[t] = "quit" /\ turn[t] > NumWorkers
  /\ port' = "closed"
  /\ queue' = <<>>
  /\ at' = [w \in WorkerIds |-> IF at[w] = "ended" THEN "none" ELSE at[w]]
  /\ Goto(t, "stopped", 0)
  /\ UNCHANGED <<running, listen, starts, acceptVars, alive, packet, told>>

StopReturnsNow(t) ==
  /\ pc[t] = "stopped"
  /\ Tell("stopped")
  /\ Goto(t, "returned", 0)
  /\ UNCHANGED <<handleVars, acceptVars, queue, workerVars>>

\* The thread goes on with its life; the Owner may start the server again.
CallsAgain(t) ==
  /\ pc[t] = "returned" /\ starts < MaxStarts
  /\ Goto(t, "idle", 0)
  /\ UNCHANGED <<handleVars, acceptVars, queue, workerVars, told>>

-----------------------------------------------------------------------------
(* IocpWorker::Loop.                                                       *)

WorkerUnchanged == UNCHANGED <<handleVars, acceptVars, callVars, alive>>

LoopTest(w) ==
  /\ at[w] = "loop"
  /\ at' = [at EXCEPT ![w] = IF alive[w] THEN "wait" ELSE "ended"]
  /\ UNCHANGED <<queue, packet>>
  /\ WorkerUnchanged

TakePacket(w) ==
  /\ at[w] = "wait" /\ queue # <<>>
  /\ packet' = [packet EXCEPT ![w] = Head(queue)]
  /\ queue' = Tail(queue)
  /\ at' = [at EXCEPT ![w] = "took"]
  /\ WorkerUnchanged

\* A worker told to stop leaves, whatever the packet; a quit packet for another
\* worker, and an accept's packet, which has no owner, are forgotten.
HandlePacket(w) ==
  /\ at[w] = "took"
  /\ at' = [at EXCEPT ![w] = IF alive[w] THEN "loop" ELSE "ended"]
  /\ packet' = [packet EXCEPT ![w] = "none"]
  /\ UNCHANGED queue
  /\ WorkerUnchanged

\* A client connects: an accept ends.
ClientConnects ==
  /\ pending > 0 /\ listen = "open"
  /\ pending' = pending - 1
  /\ queue' = Append(queue, "accept")
  /\ UNCHANGED <<handleVars, inflight, workerVars, callVars>>

StopStep(t) ==
  \/ StopListening(t)
  \/ StopWorker(t)
  \/ JoinWorker(t)
  \/ ClosePort(t)
  \/ StopReturnsNow(t)

StartStep == StartRunning \/ PostAcceptBatch \/ PostOneAccept \/ StartReturns

WorkerStep(w) == LoopTest(w) \/ TakePacket(w) \/ HandlePacket(w)

Next ==
  \/ StartFails \/ StartWorkers \/ StartStep
  \/ \E t \in Threads : StopBegins(t) \/ StopIgnored(t) \/ StopStep(t) \/ CallsAgain(t)
  \/ \E w \in WorkerIds : WorkerStep(w)
  \/ ClientConnects

Spec == Init /\ [][Next]_vars

\* Threads inside a call and workers with something to do go on.
FairSpec ==
  /\ Spec
  /\ WF_vars(StartStep)
  /\ \A t \in Threads : WF_vars(StopStep(t))
  /\ \A w \in WorkerIds : WF_vars(WorkerStep(w))

-----------------------------------------------------------------------------

\* Types.
TypeOK ==
  /\ running \in BOOLEAN
  /\ listen \in {"none", "open", "closed"} /\ port \in {"none", "open", "closed"}
  /\ inflight \in Nat /\ pending \in Nat /\ starts \in Nat
  /\ queue \in Seq({"accept", "quit"})
  /\ alive \in [WorkerIds -> BOOLEAN]
  /\ at \in [WorkerIds -> {"none", "loop", "wait", "took", "ended"}]
  /\ packet \in [WorkerIds -> {"none", "accept", "quit"}]
  /\ pc \in [Threads -> {"idle", "running", "accepts", "posting", "started",
                        "listen", "quit", "join", "stopped", "returned"}]
  /\ turn \in [Threads -> Nat]
  /\ told \in Seq({"starting", "started", "stopped"})

\* As long as a worker's thread may call GetQueuedCompletionStatus, the port it
\* waits at is open: Stop joins every worker before it closes the handle.
PortKept == \A w \in WorkerIds : at[w] \in {"loop", "wait", "took"} => port = "open"

\* The listener hears of one end for each life of the server, whoever calls
\* Stop and however often, the destructor included.
ReportedOnce ==
  \A i \in 1..(Len(told) - 1) : told[i] = "stopped" => told[i + 1] # "stopped"

\* Once the listener has heard that the server stopped, and until it is started
\* again, the handles are closed, no accept is with the kernel and no worker's
\* thread exists: an accept that Start was about to post has failed.
HeardStopped ==
  \E i \in DOMAIN told : told[i] = "stopped" /\ \A j \in i..Len(told) : told[j] # "starting"
StoppedIsClosed ==
  HeardStopped =>
    /\ listen # "open" /\ port # "open"
    /\ pending = 0
    /\ \A w \in WorkerIds : at[w] = "none"

\* Stop returns, unless a worker that was not told to leave takes the packet
\* that was posted for another one and goes back to wait.
Stolen == \E w \in WorkerIds : packet[w] = "quit" /\ alive[w]
StopReturns == \A t \in Threads : pc[t] = "listen" ~> (pc[t] = "returned" \/ Stolen)
=============================================================================
