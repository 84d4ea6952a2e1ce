------------------------------ MODULE DataPath ------------------------------
(***************************************************************************)
(* What the engine does with buffers and messages: properties of           *)
(* IocpServer about PostSend / OnSendCompleted, PostRecv / OnRecvCompleted *)
(* and the buffer pool.  Most of them hold of a slot's first connection    *)
(* only: a recycled slot can be reached by the completions and callers of  *)
(* its last one.  Two history variables say when that is.                  *)
(***************************************************************************)
EXTENDS IocpServer

VARIABLES
  uses,   \* how many connections each slot has served, the present one included
  dry     \* a step was taken while the pool had no free buffer

SlotInit ==
  /\ Init
  /\ uses = [s \in Sessions |-> 0]
  /\ dry = FALSE

Counts ==
  /\ uses' = [s \in Sessions |-> IF connected'[s] /\ ~connected[s] THEN uses[s] + 1 ELSE uses[s]]
  /\ dry' = (dry \/ ~HasFreeBuffer)

slotVars == <<vars, uses, dry>>
SlotSpec == SlotInit /\ [][Next /\ Counts]_slotVars

FirstUse(s) == uses[s] <= 1

\* The server has not been told to stop: workers handle what they take.
Serving == main \in {"new", "up"}

-----------------------------------------------------------------------------
(* Messages                                                                *)

OpsOf(kind, s) == {o \in ops : o.kind = kind /\ o.s = s}

\* The threads that act for the send of s in progress: its completion was
\* taken, or its WSASend just failed.
SendersOf(s) ==
  {t \in Threads : At(t, "sendDone", s) \/ sendMutex[s] = t}

\* What was sent is exactly the connection's own messages, from the first on.
Exact(c) == \A i \in 1..Len(wire[c]) : wire[c][i] = [conn |-> c, n |-> i]

\* The messages meant for one connection leave in the order the Send calls were
\* accepted and each at most once, whoever calls Send, whichever worker runs
\* OnSendCompleted, and however often the slot is used again.  On a slot's first
\* connection none is left out and none is another's, until the pool is empty.
Fifo ==
  /\ \A c, d \in Sockets : \A i \in 1..Len(wire[c]), j \in 1..Len(wire[d]) :
       wire[c][i] = wire[d][j] => c = d /\ i = j
  /\ \A c \in Sockets : \A i, j \in 1..Len(wire[c]) :
       i < j /\ wire[c][i].conn = wire[c][j].conn => wire[c][i].n < wire[c][j].n
  /\ \A s \in Sessions : FirstUse(s) /\ sock[s] # NoSocket /\ ~dry => Exact(sock[s])

\* sendOvl_ serves one WSASend at a time, on a slot's first connection.
OneSend ==
  \A s \in Sessions : FirstUse(s) =>
    /\ \A o, p \in OpsOf("send", s) : o = p
    /\ \A t, u \in SendersOf(s) : t = u
    /\ OpsOf("send", s) = {} \/ SendersOf(s) = {}

\* sending_ is true only while a send is in progress, and a queued message
\* always has a send in progress to follow (Session.cpp 180-183, 187-192), on a
\* slot's first connection and until the pool is empty or the server stops.
SendAlive ==
  \A s \in Sessions :
    FirstUse(s) /\ ~dry /\ Serving /\ connected[s] /\ sendMutex[s] = NoThread =>
      /\ sendQueue[s] # <<>> => sending[s]
      /\ sending[s] => OpsOf("send", s) # {} \/ SendersOf(s) # {}

-----------------------------------------------------------------------------
(* Receives and buffers                                                    *)

\* The threads that will post the next receive of s, or end its connection.
ReceiversOf(s) ==
  {t \in Threads : /\ cur[t] = s
                   /\ \/ pc[t] \in {"associate", "forget", "process", "postRecv", "setup", "receive"}
                      \/ "process" \in Range(stack[t])}

\* At most one WSARecv of a slot is outstanding or about to be, on its first
\* connection: two would let two workers push a connection's bytes into the ring
\* out of order.
OneReceiver ==
  \A s \in Sessions : FirstUse(s) =>
    /\ \A o, p \in OpsOf("recv", s) : o = p
    /\ \A t, u \in ReceiversOf(s) : t = u
    /\ OpsOf("recv", s) = {} \/ ReceiversOf(s) = {}

\* A connected session goes on receiving: a WSARecv is outstanding, or a thread
\* is on its way to post one or to disconnect; on a slot's first connection and
\* until the pool is empty or the server stops.
ReceiveAlive ==
  \A s \in Sessions : FirstUse(s) /\ ~dry /\ Serving /\ connected[s] =>
    \/ OpsOf("recv", s) # {} \/ ReceiversOf(s) # {}
    \/ \E t \in Threads : At(t, "disconnect", s)

\* Uses of buffer b: places on the free stack, kernel operations, threads that
\* read it or are about to post a receive with it.
OnStack(b)   == {i \in 1..Len(freeList) : freeList[i] = b}
InKernel(b)  == {o \in ops : o.buf = b}
ReadersOf(b) == {t \in Threads : rbuf[t] = b}

\* Until a slot is used again no buffer is lent twice, or lent and free.
NoAliasing ==
  (\A s \in Sessions : FirstUse(s)) =>
    \A b \in Buffers :
      /\ \A i, j \in OnStack(b) : i = j
      /\ \A o, p \in InKernel(b) : o = p
      /\ \A t, u \in ReadersOf(b) : t = u
      /\ OnStack(b) = {} \/ InKernel(b) = {}
      /\ OnStack(b) = {} \/ ReadersOf(b) = {}
      /\ InKernel(b) = {} \/ ReadersOf(b) = {}

\* A buffer on the free stack is not one the kernel may still write to.
FreeIsAvailable ==
  \A o \in ops : \A i \in 1..Len(freeList) : freeList[i] # o.buf

-----------------------------------------------------------------------------
(* Fairness: the scheduler runs every thread; a send on an open connection  *)
(* completes, and as the completion port is a queue, the completion is      *)
(* taken once workers come back to it often enough.  Nothing is assumed of  *)
(* what peers send or of clients that may connect.                          *)

Fairness ==
  /\ WF_vars(Next /\ (Start \/ Joined))
  /\ \A t \in Threads : WF_vars(~crashed /\ Runs(t))
  /\ SF_vars(~crashed /\ \E t \in Workers : SendCompletes(t))

FairSpec == SlotSpec /\ Fairness

\* Every accepted message is sent in the end, unless its connection is closed:
\* it never waits for ever behind a send that is not there.
AllSent ==
  \A c \in Sockets : \A n \in 1..MaxSends :
    accepted[c] >= n ~> Len(wire[c]) >= n \/ c \notin open

\* The process died, or a thread hangs in its second lock of sendMutex_.
Dies == crashed \/ \E t \in Threads : pc[t] = "hung"

\* A session taken down comes back to the pool.
Recycled ==
  \A s \in Sessions : ~connected[s] ~> InPool(s) \/ connected[s] \/ Dies

\* Stop gets all its workers out of GetQueuedCompletionStatus and returns.
StopReturns == main = "stopping" ~> main = "down" \/ Dies
=============================================================================
