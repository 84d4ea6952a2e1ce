-------------------------- MODULE NetServerProofs ---------------------------
(***************************************************************************)
(* What Start, Stop and the workers of the older engine keep, for any      *)
(* number of workers, threads and accepts.  One thread at most is past the *)
(* exchange in Stop; it finds the server not running, keeps the port open  *)
(* until every worker has ended, and leaves everything closed.             *)
(***************************************************************************)
EXTENDS NetServer, TLAPS

Stopping(t) == pc[t] \in {"listen", "quit", "join", "stopped"}
NoStop == \A t \in Threads : ~Stopping(t)
NotStarting == pc[Owner] # "running"
AllGone == \A w \in WorkerIds : at[w] = "none"
Closed == listen # "open" /\ port # "open" /\ pending = 0 /\ AllGone

\* What holds at the place of Stop where thread t is.
StopperAt(t) ==
  /\ pc[t] # "stopped" => port = "open"
  /\ pc[t] \in {"quit", "join", "stopped"} => listen = "closed" /\ pending = 0
  /\ pc[t] \in {"quit", "join"} => \A w \in WorkerIds : w < turn[t] => at[w] = "ended"
  /\ pc[t] = "quit" => turn[t] > 0
  /\ pc[t] = "join" => turn[t] \in WorkerIds
  /\ pc[t] = "stopped" => Closed

OneStopper == \A t, u \in Threads : Stopping(t) /\ Stopping(u) => t = u
StopperInv == \A t \in Threads : Stopping(t) => ~running /\ NotStarting /\ StopperAt(t)
PortOpen == (running => port = "open" /\ NotStarting) /\ (~NotStarting => port = "open")
QuietInv ==
  ~running /\ NoStop /\ NotStarting =>
    AllGone /\ (pc[Owner] \in {"accepts", "posting", "started"} => Closed)
HeardInv == HeardStopped => ~running /\ NoStop /\ NotStarting /\ Closed
BatchInv == pc[Owner] = "posting" => turn[Owner] > 0

\* The inductive invariant.  That a report is not repeated rests on HeardInv.
StopInv ==
  /\ TypeOK /\ BatchInv
  /\ OneStopper /\ StopperInv /\ PortOpen /\ QuietInv /\ HeardInv
  /\ ReportedOnce

Events == {"starting", "started", "stopped"}

\* What one more call of the listener changes.
LEMMA ToldStep ==
  ASSUME told \in Seq(Events), NEW x \in Events, Tell(x), ReportedOnce,
         x = "stopped" => ~HeardStopped
  PROVE  /\ told' \in Seq(Events)
         /\ HeardStopped' => x = "stopped" \/ (x = "started" /\ HeardStopped)
         /\ ReportedOnce'
<1>1. told' = Append(told, x) /\ told' \in Seq(Events) /\ Len(told') = Len(told) + 1
      /\ Len(told) \in Nat /\ DOMAIN told = 1..Len(told) /\ DOMAIN told' = 1..(Len(told) + 1)
  BY DEF Tell
<1>2. told'[Len(told) + 1] = x /\ \A i \in 1..Len(told) : told'[i] = told[i]
  BY <1>1
<1>3. HeardStopped' => x = "stopped" \/ (x = "started" /\ HeardStopped)
  <2>1. SUFFICES ASSUME NEW i \in 1..(Len(told) + 1), told'[i] = "stopped",
                        \A j \in i..(Len(told) + 1) : told'[j] # "starting", x # "stopped"
                 PROVE  x = "started" /\ HeardStopped
    BY <1>1 DEF HeardStopped
  <2>2. i \in 1..Len(told) /\ told[i] = "stopped"
    BY <1>1, <1>2, <2>1
  <2>3. x # "starting"
    BY <1>1, <1>2, <2>1
  <2>4. \A j \in i..Len(told) : told[j] # "starting"
    BY <1>1, <1>2, <2>1, <2>2
  <2>5. QED
    BY <1>1, <2>2, <2>3, <2>4 DEF HeardStopped, Events
<1>4. ReportedOnce'
  <2>1. SUFFICES ASSUME NEW i \in 1..Len(told), told'[i] = "stopped", told'[i + 1] = "stopped"
                 PROVE  FALSE
    BY <1>1 DEF ReportedOnce
  <2>2. CASE i < Len(told)
    BY <1>1, <1>2, <2>1, <2>2 DEF ReportedOnce
  <2>3. CASE i = Len(told)
    <3>1. told[i] = "stopped" /\ x = "stopped"
      BY <1>1, <1>2, <2>1, <2>3
    <3>2. HeardStopped
      BY <1>1, <2>3, <3>1 DEF HeardStopped
    <3>3. QED
      BY <3>1, <3>2
  <2>4. Len(told) \in Nat
    BY <1>1
  <2>5. i < Len(told) \/ i = Len(told)
    BY <2>1, <2>4
  <2>6. QED
    BY <2>2, <2>3, <2>5
<1>5. QED
  BY <1>1, <1>3, <1>4

LEMMA ToldSame ==
  ASSUME UNCHANGED told
  PROVE  (HeardStopped' <=> HeardStopped) /\ (ReportedOnce' <=> ReportedOnce)
BY DEF HeardStopped, ReportedOnce

-----------------------------------------------------------------------------
(* Starting.                                                               *)

LEMMA NobodyStops ==
  ASSUME StopInv, CanStart
  PROVE  ~running /\ NoStop /\ NotStarting /\ AllGone
BY DEF StopInv, CanStart, QuietInv, NoStop, Stopping, NotStarting, Threads

LEMMA StartFailsStep == ASSUME StopInv, StartFails PROVE StopInv'
<1>1. /\ ~running /\ NoStop /\ NotStarting /\ AllGone /\ pc[Owner] = "idle"
      /\ starts' = starts + 1
      /\ UNCHANGED <<running, acceptVars, queue, workerVars, pc, turn>>
  BY NobodyStops DEF StartFails, CanStart
<1>2. /\ listen' \in {"none", "open", "closed"} /\ port' \in {"none", "open", "closed"}
      /\ (UNCHANGED <<told, listen, port>> \/ Tell("starting"))
  BY DEF StartFails, StopInv, TypeOK, NoListenSocket, NotListening, NoPort, NoAcceptEx
<1>3. told' \in Seq(Events) /\ ReportedOnce' /\ (HeardStopped' => HeardStopped /\ UNCHANGED <<listen, port>>)
  <2>1. CASE UNCHANGED <<told, listen, port>>
    BY <2>1, ToldSame DEF StopInv, TypeOK, Events
  <2>2. CASE Tell("starting")
    BY <2>2, ToldStep DEF StopInv, TypeOK, Events
  <2>3. QED
    BY <1>2, <2>1, <2>2
<1>4. TypeOK'
  BY <1>1, <1>2, <1>3 DEF StopInv, TypeOK, acceptVars, workerVars, Events
<1>5. QED
  BY <1>1, <1>3, <1>4
     DEF StopInv, BatchInv, OneStopper, StopperInv, PortOpen, QuietInv, HeardInv, NoStop,
         Stopping, NotStarting, AllGone, Closed, acceptVars, workerVars

LEMMA StartWorkersStep == ASSUME StopInv, StartWorkers PROVE StopInv'
<1>1. /\ ~running /\ NoStop /\ pc[Owner] = "idle" /\ starts' = starts + 1
      /\ listen' = "open" /\ port' = "open" /\ queue' = <<>>
      /\ alive' = [w \in WorkerIds |-> TRUE] /\ at' = [w \in WorkerIds |-> "loop"]
      /\ pc' = [pc EXCEPT ![Owner] = "running"] /\ turn' = [turn EXCEPT ![Owner] = 0]
      /\ UNCHANGED <<running, acceptVars, packet>> /\ Tell("starting")
  BY NobodyStops DEF StartWorkers, CanStart, Goto
<1>2. told' \in Seq(Events) /\ ReportedOnce' /\ ~HeardStopped'
  BY <1>1, ToldStep DEF StopInv, TypeOK, Events
<1>3. TypeOK'
  <2>1. /\ turn' \in [Threads -> Nat]
        /\ pc' \in [Threads -> {"idle", "running", "accepts", "posting", "started",
                                "listen", "quit", "join", "stopped", "returned"}]
    BY <1>1 DEF StopInv, TypeOK
  <2>2. /\ alive' \in [WorkerIds -> BOOLEAN]
        /\ at' \in [WorkerIds -> {"none", "loop", "wait", "took", "ended"}]
    BY <1>1
  <2>3. queue' \in Seq({"accept", "quit"})
    BY <1>1
  <2>4. QED
    BY <1>1, <1>2, <2>1, <2>2, <2>3 DEF StopInv, TypeOK, acceptVars, Events
<1>4. pc'[Owner] = "running" /\ \A t \in Threads : ~Stopping(t)'
  BY <1>1 DEF StopInv, TypeOK, NoStop, Stopping, Threads
<1>5. QED
  BY <1>1, <1>2, <1>3, <1>4
     DEF StopInv, BatchInv, OneStopper, StopperInv, PortOpen, QuietInv, HeardInv, NotStarting

LEMMA StartRunningStep == ASSUME StopInv, StartRunning PROVE StopInv'
<1>1. /\ pc[Owner] = "running" /\ running' = TRUE
      /\ pc' = [pc EXCEPT ![Owner] = "accepts"] /\ turn' = [turn EXCEPT ![Owner] = Prepost]
      /\ UNCHANGED <<listen, port, starts, acceptVars, queue, workerVars, told>>
  BY DEF StartRunning, Goto
<1>2. NoStop /\ ~HeardStopped /\ port = "open"
  BY <1>1 DEF StopInv, StopperInv, HeardInv, PortOpen, NotStarting, NoStop
<1>3. TypeOK'
  BY <1>1, NetServerAssumption DEF StopInv, TypeOK, acceptVars, workerVars
<1>4. pc'[Owner] = "accepts" /\ \A t \in Threads : ~Stopping(t)'
  BY <1>1, <1>2 DEF StopInv, TypeOK, NoStop, Stopping, Threads
<1>5. ReportedOnce' /\ ~HeardStopped'
  BY <1>1, <1>2, ToldSame DEF StopInv
<1>6. QED
  BY <1>1, <1>2, <1>3, <1>4, <1>5
     DEF StopInv, BatchInv, OneStopper, StopperInv, PortOpen, QuietInv, HeardInv, NotStarting

\* Steps of the Owner between its places in PostAcceptBatch, after which Start
\* returns: an accept is posted only while the socket listens.
LEMMA BatchFrame ==
  ASSUME StopInv,
         pc[Owner] \in {"accepts", "posting", "started"},
         NEW where \in {"accepts", "posting", "started", "idle"}, NEW n \in Nat, Goto(Owner, where, n),
         where = "posting" => n > 0,
         UNCHANGED <<handleVars, queue, workerVars>>,
         inflight' \in Nat, pending' \in Nat, listen = "open" \/ UNCHANGED pending,
         told' \in Seq(Events), ReportedOnce', HeardStopped' => HeardStopped
  PROVE  StopInv'
<1>1. /\ pc' = [pc EXCEPT ![Owner] = where] /\ turn' = [turn EXCEPT ![Owner] = n]
      /\ UNCHANGED <<running, listen, port, starts, queue, alive, at, packet>>
      /\ Owner \in Threads
  BY DEF Goto, handleVars, workerVars, Threads
<1>2. TypeOK'
  BY <1>1 DEF StopInv, TypeOK, Events
<1>3. /\ pc'[Owner] = where /\ turn'[Owner] = n /\ NotStarting /\ NotStarting'
      /\ ~Stopping(Owner) /\ ~Stopping(Owner)'
      /\ \A t \in Threads \ {Owner} : pc'[t] = pc[t] /\ turn'[t] = turn[t]
  BY <1>1 DEF StopInv, TypeOK, Stopping, NotStarting
<1>4. \A t \in Threads : Stopping(t)' <=> Stopping(t)
  BY <1>3 DEF Stopping
<1>5. OneStopper' /\ (NoStop' <=> NoStop)
  BY <1>4 DEF StopInv, OneStopper, NoStop
<1>6. Closed => Closed'
  BY <1>1 DEF Closed, AllGone
<1>7. StopperInv'
  <2>1. SUFFICES ASSUME NEW t \in Threads, Stopping(t)'
                 PROVE  ~running' /\ NotStarting' /\ StopperAt(t)'
    BY DEF StopperInv
  <2>2. t # Owner /\ Stopping(t) /\ ~running /\ StopperAt(t)
    BY <1>3, <1>4, <2>1 DEF StopInv, StopperInv
  <2>3. pc'[t] = pc[t] /\ turn'[t] = turn[t]
    BY <1>3, <2>2
  <2>4. StopperAt(t)'
    BY <1>1, <1>6, <2>2, <2>3 DEF StopperAt
  <2>5. QED
    BY <1>1, <1>3, <2>2, <2>4
<1>8. PortOpen' /\ BatchInv'
  BY <1>1, <1>3 DEF StopInv, PortOpen, BatchInv
<1>9. QuietInv' /\ HeardInv'
  BY <1>1, <1>3, <1>5, <1>6 DEF StopInv, QuietInv, HeardInv, AllGone
<1>10. QED
  BY <1>2, <1>5, <1>7, <1>8, <1>9 DEF StopInv

LEMMA PostAcceptBatchStep == ASSUME StopInv, PostAcceptBatch PROVE StopInv'
<1> DEFINE where == IF BatchLeft /\ running THEN "posting" ELSE "started"
<1>1. /\ pc[Owner] = "accepts" /\ Goto(Owner, where, turn[Owner])
      /\ UNCHANGED <<handleVars, inflight, pending, queue, workerVars, told>>
  BY DEF PostAcceptBatch, acceptVars
<1>2. turn[Owner] \in Nat /\ inflight \in Nat /\ pending \in Nat /\ told \in Seq(Events)
  BY DEF StopInv, TypeOK, Events, Threads
<1>3. where \in {"accepts", "posting", "started", "idle"} /\ (where = "posting" => turn[Owner] > 0)
  BY DEF BatchLeft
<1>4. ReportedOnce' /\ (HeardStopped' => HeardStopped)
  BY <1>1, ToldSame DEF StopInv
<1> HIDE DEF where
<1>5. QED
  BY <1>1, <1>2, <1>3, <1>4, BatchFrame

LEMMA PostOneAcceptStep == ASSUME StopInv, PostOneAccept PROVE StopInv'
<1>1. /\ pc[Owner] = "posting" /\ UNCHANGED <<handleVars, queue, workerVars, told>>
      /\ turn[Owner] \in Nat /\ turn[Owner] > 0
      /\ inflight \in Nat /\ pending \in Nat /\ told \in Seq(Events)
  BY DEF PostOneAccept, StopInv, TypeOK, Events, Threads, BatchInv
<1>2. ReportedOnce' /\ (HeardStopped' => HeardStopped)
  BY <1>1, ToldSame DEF StopInv
<1>3. CASE listen = "open" /\ pending' = pending + 1 /\ inflight' = inflight + 1
           /\ Goto(Owner, "accepts", turn[Owner] - 1)
  BY <1>1, <1>2, <1>3, BatchFrame
<1>4. CASE UNCHANGED acceptVars /\ Goto(Owner, "started", turn[Owner])
  BY <1>1, <1>2, <1>4, BatchFrame DEF acceptVars
<1>5. QED
  BY <1>3, <1>4 DEF PostOneAccept

LEMMA StartReturnsStep == ASSUME StopInv, StartReturns PROVE StopInv'
<1>1. /\ pc[Owner] = "started" /\ Goto(Owner, "idle", turn[Owner]) /\ Tell("started")
      /\ UNCHANGED <<handleVars, inflight, pending, queue, workerVars>>
      /\ turn[Owner] \in Nat /\ inflight \in Nat /\ pending \in Nat /\ told \in Seq(Events)
  BY DEF StartReturns, acceptVars, StopInv, TypeOK, Events, Threads
<1>2. told' \in Seq(Events) /\ ReportedOnce' /\ (HeardStopped' => HeardStopped)
  BY <1>1, ToldStep DEF StopInv, Events
<1>3. QED
  BY <1>1, <1>2, BatchFrame

-----------------------------------------------------------------------------
(* Stopping.                                                               *)

\* The one thread that stops goes from one place of Stop to the next.
LEMMA StopFrame ==
  ASSUME StopInv, NEW t \in Threads, Stopping(t),
         NEW where \in {"quit", "join", "stopped"}, NEW n \in Nat, Goto(t, where, n),
         UNCHANGED <<running, told>>, TypeOK', StopperAt(t)'
  PROVE  StopInv'
<1>1. /\ pc'[t] = where /\ Stopping(t)'
      /\ \A u \in Threads \ {t} : pc'[u] = pc[u] /\ turn'[u] = turn[u] /\ ~Stopping(u) /\ ~Stopping(u)'
  BY DEF StopInv, TypeOK, Goto, Stopping, OneStopper
<1>2. ~running /\ NotStarting /\ ~NoStop /\ ~HeardStopped /\ Owner \in Threads
  BY DEF StopInv, StopperInv, HeardInv, NoStop, Threads
<1>3. ReportedOnce' /\ ~HeardStopped'
  BY <1>2, ToldSame DEF StopInv
<1>4. ~running' /\ NotStarting' /\ ~NoStop' /\ OneStopper'
  BY <1>1, <1>2 DEF NotStarting, NoStop, OneStopper
<1>5. StopperInv' /\ PortOpen' /\ QuietInv' /\ HeardInv'
  BY <1>1, <1>3, <1>4 DEF StopperInv, PortOpen, QuietInv, HeardInv
<1>6. BatchInv'
  BY <1>1, <1>2 DEF StopInv, BatchInv
<1>7. QED
  BY <1>3, <1>4, <1>5, <1>6 DEF StopInv

\* A thread outside Start and past no exchange returns, or calls again.
LEMMA IdleFrame ==
  ASSUME StopInv, NEW t \in Threads, pc[t] \in {"idle", "returned"},
         NEW where \in {"idle", "returned"}, Goto(t, where, 0),
         UNCHANGED <<handleVars, acceptVars, queue, workerVars, told>>
  PROVE  StopInv'
<1>1. /\ pc' = [pc EXCEPT ![t] = where] /\ turn' = [turn EXCEPT ![t] = 0]
      /\ UNCHANGED <<running, listen, port, starts, inflight, pending, queue, alive, at, packet, told>>
  BY DEF Goto, handleVars, acceptVars, workerVars
<1>2. TypeOK'
  BY <1>1 DEF StopInv, TypeOK
<1>3. /\ pc'[t] = where /\ ~Stopping(t) /\ ~Stopping(t)' /\ Owner \in Threads
      /\ \A u \in Threads \ {t} : pc'[u] = pc[u] /\ turn'[u] = turn[u]
  BY <1>1 DEF StopInv, TypeOK, Stopping, Threads
<1>4. \A u \in Threads : Stopping(u)' <=> Stopping(u)
  BY <1>3 DEF Stopping
<1>5. OneStopper' /\ (NoStop' <=> NoStop) /\ (NotStarting' <=> NotStarting) /\ (Closed' <=> Closed)
  BY <1>1, <1>3, <1>4 DEF StopInv, OneStopper, NoStop, NotStarting, Closed, AllGone
<1>6. StopperInv'
  <2>1. SUFFICES ASSUME NEW u \in Threads, Stopping(u)'
                 PROVE  ~running' /\ NotStarting' /\ StopperAt(u)'
    BY DEF StopperInv
  <2>2. u # t /\ ~running /\ NotStarting /\ StopperAt(u)
    BY <1>3, <1>4, <2>1 DEF StopInv, StopperInv
  <2>3. StopperAt(u)'
    BY <1>1, <1>3, <1>5, <2>2 DEF StopperAt
  <2>4. QED
    BY <1>1, <1>5, <2>2, <2>3
<1>7. PortOpen' /\ BatchInv' /\ QuietInv'
  BY <1>1, <1>3, <1>5 DEF StopInv, PortOpen, BatchInv, QuietInv, AllGone
<1>8. HeardInv' /\ ReportedOnce'
  BY <1>1, <1>5, ToldSame DEF StopInv, HeardInv
<1>9. QED
  BY <1>2, <1>5, <1>6, <1>7, <1>8 DEF StopInv

LEMMA StopIgnoredStep == ASSUME StopInv, NEW t \in Threads, StopIgnored(t) PROVE StopInv'
BY IdleFrame DEF StopIgnored

LEMMA CallsAgainStep == ASSUME StopInv, NEW t \in Threads, CallsAgain(t) PROVE StopInv'
BY IdleFrame DEF CallsAgain

LEMMA StopBeginsStep == ASSUME StopInv, NEW t \in Threads, StopBegins(t) PROVE StopInv'
<1>1. /\ pc[t] = "idle" /\ running /\ running' = FALSE
      /\ pc' = [pc EXCEPT ![t] = "listen"] /\ turn' = [turn EXCEPT ![t] = 0]
      /\ UNCHANGED <<listen, port, starts, inflight, pending, queue, alive, at, packet, told>>
  BY DEF StopBegins, StopWins, Goto, acceptVars, workerVars
<1>2. NoStop /\ port = "open" /\ NotStarting /\ ~HeardStopped /\ Owner \in Threads
  BY <1>1 DEF StopInv, StopperInv, PortOpen, HeardInv, NoStop, Threads
<1>3. TypeOK'
  BY <1>1 DEF StopInv, TypeOK
<1>4. /\ pc'[t] = "listen" /\ Stopping(t)'
      /\ \A u \in Threads \ {t} : pc'[u] = pc[u] /\ turn'[u] = turn[u] /\ ~Stopping(u)'
  BY <1>1, <1>2 DEF StopInv, TypeOK, NoStop, Stopping
<1>5. NotStarting' /\ OneStopper' /\ ~NoStop'
  BY <1>2, <1>4 DEF NotStarting, OneStopper, NoStop
<1>6. StopperAt(t)'
  BY <1>1, <1>2, <1>4 DEF StopperAt
<1>7. StopperInv' /\ PortOpen' /\ QuietInv'
  BY <1>1, <1>4, <1>5, <1>6 DEF StopperInv, PortOpen, QuietInv
<1>8. BatchInv'
  BY <1>2, <1>4 DEF StopInv, BatchInv
<1>9. HeardInv' /\ ReportedOnce'
  BY <1>1, <1>2, ToldSame DEF StopInv, HeardInv
<1>10. QED
  BY <1>3, <1>5, <1>7, <1>8, <1>9 DEF StopInv

LEMMA StopListeningStep == ASSUME StopInv, NEW t \in Threads, StopListening(t) PROVE StopInv'
<1>1. /\ pc[t] = "listen" /\ listen' = "closed" /\ pending' = 0
      /\ queue' = queue \o [i \in 1..pending |-> "accept"]
      /\ pc' = [pc EXCEPT ![t] = "quit"] /\ turn' = [turn EXCEPT ![t] = 1]
      /\ UNCHANGED <<running, port, starts, inflight, alive, at, packet, told>>
  BY DEF StopListening, Goto, workerVars
<1>2. Stopping(t) /\ port = "open"
  BY <1>1 DEF Stopping, StopInv, StopperInv, StopperAt
<1>3. queue' \in Seq({"accept", "quit"})
  <2>1. [i \in 1..pending |-> "accept"] \in Seq({"accept", "quit"})
    BY DEF StopInv, TypeOK
  <2>2. queue \in Seq({"accept", "quit"})
    BY DEF StopInv, TypeOK
  <2>3. QED
    BY <1>1, <2>1, <2>2
<1>4. TypeOK'
  BY <1>1, <1>3 DEF StopInv, TypeOK
<1>5. pc'[t] = "quit" /\ turn'[t] = 1
  BY <1>1 DEF StopInv, TypeOK
<1>6. \A w \in WorkerIds : ~(w < 1)
  BY NetServerAssumption DEF WorkerIds
<1>7. StopperAt(t)'
  BY <1>1, <1>2, <1>5, <1>6 DEF StopperAt
<1>8. QED
  BY <1>1, <1>2, <1>4, <1>7, StopFrame DEF StopListening

LEMMA StopWorkerStep == ASSUME StopInv, NEW t \in Threads, StopWorker(t) PROVE StopInv'
<1>1. /\ pc[t] = "quit" /\ turn[t] <= NumWorkers
      /\ alive' = [alive EXCEPT ![turn[t]] = FALSE] /\ queue' = Append(queue, "quit")
      /\ pc' = [pc EXCEPT ![t] = "join"] /\ turn' = [turn EXCEPT ![t] = turn[t]]
      /\ UNCHANGED <<running, listen, port, starts, inflight, pending, at, packet, told>>
  BY DEF StopWorker, PostQuit, Goto, handleVars, acceptVars
<1>2. Stopping(t) /\ StopperAt(t) /\ turn[t] \in Nat
  BY <1>1 DEF Stopping, StopInv, StopperInv, TypeOK
<1>3. TypeOK'
  <2>1. queue' \in Seq({"accept", "quit"})
    BY <1>1 DEF StopInv, TypeOK
  <2>2. alive' \in [WorkerIds -> BOOLEAN]
    BY <1>1 DEF StopInv, TypeOK
  <2>3. QED
    BY <1>1, <2>1, <2>2 DEF StopInv, TypeOK
<1>4. pc'[t] = "join" /\ turn'[t] = turn[t]
  BY <1>1 DEF StopInv, TypeOK
<1>5. turn[t] \in WorkerIds
  BY <1>1, <1>2, NetServerAssumption DEF StopperAt, WorkerIds
<1>6. StopperAt(t)'
  BY <1>1, <1>2, <1>4, <1>5 DEF StopperAt
<1>7. QED
  BY <1>1, <1>2, <1>3, <1>6, StopFrame DEF StopWorker

LEMMA JoinWorkerStep == ASSUME StopInv, NEW t \in Threads, JoinWorker(t) PROVE StopInv'
<1>1. /\ pc[t] = "join" /\ at[turn[t]] = "ended"
      /\ pc' = [pc EXCEPT ![t] = "quit"] /\ turn' = [turn EXCEPT ![t] = turn[t] + 1]
      /\ UNCHANGED <<running, listen, port, starts, inflight, pending, queue, alive, at, packet, told>>
  BY DEF JoinWorker, Joined, Goto, handleVars, acceptVars, workerVars
<1>2. Stopping(t) /\ StopperAt(t) /\ turn[t] \in Nat /\ turn[t] + 1 \in Nat /\ turn[t] + 1 > 0
  BY <1>1 DEF Stopping, StopInv, StopperInv, TypeOK
<1>3. TypeOK'
  BY <1>1, <1>2 DEF StopInv, TypeOK
<1>4. pc'[t] = "quit" /\ turn'[t] = turn[t] + 1
  BY <1>1 DEF StopInv, TypeOK
<1>5. \A w \in WorkerIds : w < turn[t] + 1 => w < turn[t] \/ w = turn[t]
  BY <1>2, NetServerAssumption DEF WorkerIds
<1>6. StopperAt(t)'
  BY <1>1, <1>2, <1>4, <1>5 DEF StopperAt
<1>7. QED
  BY <1>1, <1>2, <1>3, <1>6, StopFrame DEF JoinWorker

LEMMA ClosePortStep == ASSUME StopInv, NEW t \in Threads, ClosePort(t) PROVE StopInv'
<1>1. /\ pc[t] = "quit" /\ turn[t] > NumWorkers
      /\ port' = "closed" /\ queue' = <<>>
      /\ at' = [w \in WorkerIds |-> IF at[w] = "ended" THEN "none" ELSE at[w]]
      /\ pc' = [pc EXCEPT ![t] = "stopped"] /\ turn' = [turn EXCEPT ![t] = 0]
      /\ UNCHANGED <<running, listen, starts, inflight, pending, alive, packet, told>>
  BY DEF ClosePort, Goto, acceptVars
<1>2. Stopping(t) /\ StopperAt(t) /\ turn[t] \in Nat
  BY <1>1 DEF Stopping, StopInv, StopperInv, TypeOK
<1>3. TypeOK'
  <2>1. at' \in [WorkerIds -> {"none", "loop", "wait", "took", "ended"}]
    BY <1>1 DEF StopInv, TypeOK
  <2>2. QED
    BY <1>1, <2>1 DEF StopInv, TypeOK
<1>4. pc'[t] = "stopped"
  BY <1>1 DEF StopInv, TypeOK
<1>5. \A w \in WorkerIds : at[w] = "ended"
  BY <1>1, <1>2, NetServerAssumption DEF StopperAt, WorkerIds
<1>6. Closed'
  BY <1>1, <1>2, <1>5 DEF StopperAt, Closed, AllGone
<1>7. StopperAt(t)'
  BY <1>1, <1>2, <1>4, <1>6 DEF StopperAt
<1>8. QED
  BY <1>1, <1>2, <1>3, <1>7, StopFrame DEF ClosePort

LEMMA StopReturnsStep == ASSUME StopInv, NEW t \in Threads, StopReturnsNow(t) PROVE StopInv'
<1>1. /\ pc[t] = "stopped" /\ Tell("stopped")
      /\ pc' = [pc EXCEPT ![t] = "returned"] /\ turn' = [turn EXCEPT ![t] = 0]
      /\ UNCHANGED <<running, listen, port, starts, inflight, pending, queue, alive, at, packet>>
  BY DEF StopReturnsNow, Goto, handleVars, acceptVars, workerVars
<1>2. Stopping(t) /\ ~running /\ NotStarting /\ Closed /\ ~HeardStopped /\ Owner \in Threads
  BY <1>1 DEF Stopping, StopInv, StopperInv, StopperAt, HeardInv, NoStop, Threads
<1>3. told' \in Seq(Events) /\ ReportedOnce'
  BY <1>1, <1>2, ToldStep DEF StopInv, TypeOK, Events
<1>4. TypeOK'
  BY <1>1, <1>3 DEF StopInv, TypeOK, Events
<1>5. /\ pc'[t] = "returned" /\ \A u \in Threads : ~Stopping(u)'
      /\ \A u \in Threads \ {t} : pc'[u] = pc[u] /\ turn'[u] = turn[u]
  BY <1>1, <1>2 DEF StopInv, TypeOK, OneStopper, Stopping
<1>6. NoStop' /\ NotStarting' /\ Closed' /\ OneStopper' /\ StopperInv' /\ BatchInv'
  BY <1>1, <1>2, <1>5
     DEF StopInv, NoStop, NotStarting, Closed, AllGone, OneStopper, StopperInv, BatchInv
<1>7. PortOpen' /\ QuietInv' /\ HeardInv'
  BY <1>1, <1>2, <1>6 DEF PortOpen, QuietInv, HeardInv, Closed
<1>8. QED
  BY <1>3, <1>4, <1>6, <1>7 DEF StopInv

-----------------------------------------------------------------------------
(* The workers and the clients.                                            *)

\* While a worker's thread runs, nothing is closed and nobody heard of an end.
LEMMA WorkerFrame ==
  ASSUME StopInv, NEW w \in WorkerIds, at[w] \in {"loop", "wait", "took"},
         NEW place \in {"loop", "wait", "took", "ended"}, at' = [at EXCEPT ![w] = place],
         WorkerUnchanged, TypeOK'
  PROVE  StopInv'
<1>1. UNCHANGED <<running, listen, port, starts, inflight, pending, alive, pc, turn, told>>
  BY DEF WorkerUnchanged, handleVars, acceptVars, callVars
<1>2. ~AllGone /\ ~Closed /\ ~HeardStopped
  BY DEF AllGone, Closed, StopInv, HeardInv
<1>3. /\ \A t \in Threads : (Stopping(t)' <=> Stopping(t))
      /\ (NoStop' <=> NoStop) /\ (NotStarting' <=> NotStarting)
  BY <1>1 DEF Stopping, NoStop, NotStarting
<1>4. \A v \in WorkerIds : at[v] = "ended" => at'[v] = "ended"
  BY DEF StopInv, TypeOK
<1>5. \A t \in Threads : Stopping(t) /\ StopperAt(t) => StopperAt(t)'
  BY <1>1, <1>2, <1>4 DEF StopperAt
<1>6. OneStopper' /\ StopperInv'
  BY <1>1, <1>3, <1>5 DEF StopInv, OneStopper, StopperInv
<1>7. PortOpen' /\ QuietInv' /\ BatchInv'
  BY <1>1, <1>2, <1>3 DEF StopInv, PortOpen, QuietInv, BatchInv
<1>8. HeardInv' /\ ReportedOnce'
  BY <1>1, <1>2, ToldSame DEF StopInv, HeardInv
<1>9. QED
  BY <1>6, <1>7, <1>8 DEF StopInv

LEMMA WorkerStepKeeps == ASSUME StopInv, NEW w \in WorkerIds, WorkerStep(w) PROVE StopInv'
<1>1. CASE LoopTest(w)
  <2>1. TypeOK'
    BY <1>1 DEF LoopTest, WorkerUnchanged, handleVars, acceptVars, callVars, StopInv, TypeOK
  <2>2. QED
    BY <1>1, <2>1, WorkerFrame DEF LoopTest
<1>2. CASE TakePacket(w)
  <2>1. Head(queue) \in {"accept", "quit"} /\ Tail(queue) \in Seq({"accept", "quit"})
    BY <1>2 DEF TakePacket, StopInv, TypeOK
  <2>2. TypeOK'
    BY <1>2, <2>1 DEF TakePacket, WorkerUnchanged, handleVars, acceptVars, callVars, StopInv, TypeOK
  <2>3. QED
    BY <1>2, <2>2, WorkerFrame DEF TakePacket
<1>3. CASE HandlePacket(w)
  <2>1. TypeOK'
    BY <1>3 DEF HandlePacket, WorkerUnchanged, handleVars, acceptVars, callVars, StopInv, TypeOK
  <2>2. QED
    BY <1>3, <2>1, WorkerFrame DEF HandlePacket
<1>4. QED
  BY <1>1, <1>2, <1>3 DEF WorkerStep

LEMMA ClientConnectsStep == ASSUME StopInv, ClientConnects PROVE StopInv'
<1>1. /\ pending > 0 /\ listen = "open" /\ pending' = pending - 1
      /\ queue' = Append(queue, "accept")
      /\ UNCHANGED <<running, listen, port, starts, inflight, alive, at, packet, pc, turn, told>>
  BY DEF ClientConnects, handleVars, workerVars, callVars
<1>2. TypeOK'
  <2>1. queue' \in Seq({"accept", "quit"})
    BY <1>1 DEF StopInv, TypeOK
  <2>2. QED
    BY <1>1, <2>1 DEF StopInv, TypeOK
<1>3. ~Closed /\ ~HeardStopped
  BY <1>1 DEF Closed, StopInv, HeardInv
<1>4. /\ \A t \in Threads : (Stopping(t)' <=> Stopping(t))
      /\ (NoStop' <=> NoStop) /\ (NotStarting' <=> NotStarting) /\ (AllGone' <=> AllGone)
  BY <1>1 DEF Stopping, NoStop, NotStarting, AllGone
<1>5. \A t \in Threads : Stopping(t) /\ StopperAt(t) => StopperAt(t)'
  BY <1>1, <1>3 DEF StopperAt
<1>6. OneStopper' /\ StopperInv'
  BY <1>1, <1>4, <1>5 DEF StopInv, OneStopper, StopperInv
<1>7. PortOpen' /\ QuietInv' /\ BatchInv'
  BY <1>1, <1>3, <1>4 DEF StopInv, PortOpen, QuietInv, BatchInv
<1>8. HeardInv' /\ ReportedOnce'
  BY <1>1, <1>3, ToldSame DEF StopInv, HeardInv
<1>9. QED
  BY <1>2, <1>6, <1>7, <1>8 DEF StopInv

-----------------------------------------------------------------------------
(* The theorems.                                                           *)

LEMMA InitKeeps == Init => StopInv
<1> SUFFICES ASSUME Init PROVE StopInv
  OBVIOUS
<1>1. TypeOK
  <2>1. queue \in Seq({"accept", "quit"}) /\ told \in Seq({"starting", "started", "stopped"})
    BY DEF Init
  <2>2. QED
    BY <2>1 DEF Init, TypeOK
<1>2. ~HeardStopped /\ ReportedOnce
  BY DEF Init, HeardStopped, ReportedOnce
<1>3. \A t \in Threads : pc[t] = "idle"
  BY DEF Init
<1>4. Owner \in Threads
  BY DEF Threads
<1>5. QED
  BY <1>1, <1>2, <1>3, <1>4
     DEF Init, StopInv, BatchInv, OneStopper, StopperInv, PortOpen, QuietInv, HeardInv,
         Stopping, NotStarting, AllGone

LEMMA StutterKeeps == StopInv /\ UNCHANGED vars => StopInv'
<1> SUFFICES ASSUME StopInv, UNCHANGED vars PROVE StopInv'
  OBVIOUS
<1>1. UNCHANGED <<running, listen, port, starts, inflight, pending, queue, alive, at, packet, pc, turn, told>>
  BY DEF vars, handleVars, acceptVars, workerVars, callVars
<1>2. QED
  BY <1>1
     DEF StopInv, TypeOK, BatchInv, OneStopper, StopperInv, StopperAt, PortOpen, QuietInv, HeardInv,
         HeardStopped, ReportedOnce, NoStop, Stopping, NotStarting, AllGone, Closed

LEMMA StepKeeps == StopInv /\ [Next]_vars => StopInv'
<1> SUFFICES ASSUME StopInv, [Next]_vars PROVE StopInv'
  OBVIOUS
<1>1. CASE StartFails \/ StartWorkers \/ StartStep
  BY <1>1, StartFailsStep, StartWorkersStep, StartRunningStep, PostAcceptBatchStep, PostOneAcceptStep,
     StartReturnsStep DEF StartStep
<1>2. ASSUME NEW t \in Threads, StopBegins(t) \/ StopIgnored(t) \/ StopStep(t) \/ CallsAgain(t)
      PROVE  StopInv'
  BY <1>2, StopBeginsStep, StopIgnoredStep, StopListeningStep, StopWorkerStep, JoinWorkerStep,
     ClosePortStep, StopReturnsStep, CallsAgainStep DEF StopStep
<1>3. ASSUME NEW w \in WorkerIds, WorkerStep(w) PROVE StopInv'
  BY <1>3, WorkerStepKeeps
<1>4. CASE ClientConnects
  BY <1>4, ClientConnectsStep
<1>5. CASE UNCHANGED vars
  BY <1>5, StutterKeeps
<1>6. QED
  BY <1>1, <1>2, <1>3, <1>4, <1>5 DEF Next

LEMMA AlwaysStopInv == Spec => []StopInv
BY InitKeeps, StepKeeps, PTL DEF Spec

\* Every variable keeps its type, for any number of workers and threads.
THEOREM TypesKept == Spec => []TypeOK
<1>1. StopInv => TypeOK
  BY DEF StopInv
<1>2. QED
  BY <1>1, AlwaysStopInv, PTL

\* Stop never closes the port a worker's thread may still wait at, for any
\* number of workers and of threads that call Stop.
THEOREM PortOutlivesWorkers == Spec => []PortKept
<1>1. StopInv => PortKept
  <2>1. SUFFICES ASSUME StopInv, NEW w \in WorkerIds, at[w] \in {"loop", "wait", "took"}
                 PROVE  port = "open"
    BY DEF PortKept
  <2>2. ~AllGone /\ ~Closed
    BY <2>1 DEF AllGone, Closed
  <2>3. CASE running \/ ~NotStarting
    BY <2>1, <2>3 DEF StopInv, PortOpen
  <2>4. CASE ~NoStop
    BY <2>1, <2>2, <2>4 DEF StopInv, NoStop, StopperInv, StopperAt
  <2>5. QED
    BY <2>1, <2>2, <2>3, <2>4 DEF StopInv, QuietInv
<1>2. QED
  BY <1>1, AlwaysStopInv, PTL

\* One end is reported for each life of the server, however many threads stop it.
THEOREM EndReportedOnce == Spec => []ReportedOnce
<1>1. StopInv => ReportedOnce
  BY DEF StopInv
<1>2. QED
  BY <1>1, AlwaysStopInv, PTL

\* After the report of an end nothing is open, no accept is with the kernel and
\* no worker's thread exists, until the server is started again.
THEOREM ReportMeansClosed == Spec => []StoppedIsClosed
<1>1. StopInv => StoppedIsClosed
  BY DEF StopInv, HeardInv, StoppedIsClosed, Closed, AllGone
<1>2. QED
  BY <1>1, AlwaysStopInv, PTL
=============================================================================
