----------------------------- MODULE IocpServer -----------------------------
(***************************************************************************)
(* IOCP/IocpServerBase.{h,cpp} on top of its sessions and pools: Start,    *)
(* the worker loop on the completion port, AcceptEx with its single shared *)
(* OverlappedEx, ConnectTo, Stop.  The derived server (external) is the    *)
(* one the header describes: AcquireAcceptedSession and                    *)
(* AcquireOutboundSession take a session from SessionPool, ReleaseSession  *)
(* gives it back, and OnRawPacket may call Send or Disconnect.             *)
(***************************************************************************)
EXTENDS Session

CONSTANTS
  ClientsArrive,   \* do clients connect to the listening socket
  Enders,          \* who ends connections: subset of {"peer", "app", "handler"}
  AssocMayFail,    \* may CreateIoCompletionPort refuse a socket
  MayStop          \* is Stop called

ASSUME EnvironmentAssumption ==
  /\ ClientsArrive \in BOOLEAN
  /\ Enders \subseteq {"peer", "app", "handler"}
  /\ AssocMayFail \in BOOLEAN
  /\ MayStop \in BOOLEAN
ASSUME WorkersAssumption == IsFiniteSet(Workers)

VARIABLES
  main,                    \* "new", "up", "stopping", "down"
  quits,                   \* null packets posted by Stop, not yet taken
  acceptSock, acceptBuf    \* acceptSock_, acceptOvl_.buffer

serverVars == <<main, quits, acceptSock, acceptBuf>>
poolVars   == <<freeList, freeIndices, nextId>>
vars == <<poolVars, fieldVars, threadVars, kernelVars, crashed, ghostVars, serverVars>>

running == main = "up"

Init ==
  /\ SessionInit
  /\ main = "new"
  /\ quits = 0
  /\ acceptSock = NoSocket
  /\ acceptBuf = NoBuffer

-----------------------------------------------------------------------------
(* Accepting                                                               *)

\* PostAccept, rest being the operations outstanding besides it.  When AcceptEx
\* fails at once its buffer is released but stays in acceptOvl_.buffer.
PostAccept(rest) ==
  \/ /\ nextSock > MaxSockets \/ CallsMayFail     \* WSASocket fails
     /\ acceptSock' = NoSocket
     /\ ops' = rest
     /\ UNCHANGED <<freeList, acceptBuf, open, nextSock>>
  \/ /\ nextSock <= MaxSockets
     /\ ~HasFreeBuffer
     /\ acceptSock' = NoSocket
     /\ ops' = rest
     /\ UNCHANGED <<freeList, acceptBuf, open, nextSock>>
  \/ \E b \in Buffers :
     /\ nextSock <= MaxSockets
     /\ AcquireBuffer(b)
     /\ acceptBuf' = b
     /\ acceptSock' = nextSock
     /\ open' = open \cup {nextSock}
     /\ nextSock' = nextSock + 1
     /\ ops' = rest \cup {[kind |-> "accept", s |-> NoSession, sock |-> nextSock, buf |-> b]}
  \/ /\ nextSock <= MaxSockets /\ HasFreeBuffer
     /\ CallsMayFail
     /\ acceptBuf' = TopBuffer
     /\ acceptSock' = NoSocket
     /\ ops' = rest
     /\ UNCHANGED <<freeList, open, nextSock>>

\* WorkerLoop takes an accept completion: OnAcceptCompleted up to PostAccept.
AcceptCompletes(t) ==
  \E o \in ops :
    /\ pc[t] = "wait" /\ running
    /\ ClientsArrive
    /\ o.kind = "accept"
    /\ csock' = [csock EXCEPT ![t] = acceptSock]
    /\ PostAccept(ops \ {o})
    /\ Goto(t, "acquire")
    /\ UNCHANGED <<freeIndices, nextId, fieldVars, rbuf, job, crashed, ghostVars,
                   main, quits>>

\* ConnectTo up to the connected socket.
AppConnects(t) ==
  /\ pc[t] = "idle" /\ t \in Apps
  /\ running
  /\ nextSock <= MaxSockets
  /\ csock' = [csock EXCEPT ![t] = nextSock]
  /\ open' = open \cup {nextSock}
  /\ nextSock' = nextSock + 1
  /\ Goto(t, "acquire")
  /\ UNCHANGED <<poolVars, fieldVars, rbuf, job, ops, crashed, ghostVars, serverVars>>

\* AcquireAcceptedSession / AcquireOutboundSession: SessionPool::Acquire.
AcquireSession(t) ==
  \E s \in Sessions :
    /\ pc[t] = "acquire"
    /\ PopSession(s)
    /\ InitSession(s, csock[t])
    /\ csock' = [csock EXCEPT ![t] = NoSocket]
    /\ Begin(t, "associate", s)
    /\ UNCHANGED <<freeList, rbuf, job, kernelVars, crashed, ghostVars, serverVars>>

PoolExhausted(t) ==
  /\ pc[t] = "acquire"
  /\ ~HasFreeSession
  /\ open' = open \ {csock[t]}
  /\ csock' = [csock EXCEPT ![t] = NoSocket]
  /\ Return(t)
  /\ UNCHANGED <<poolVars, fieldVars, rbuf, job, ops, nextSock, crashed, ghostVars,
                 serverVars>>

\* CreateIoCompletionPort succeeds.  ConnectTo goes on to PostRecv.
\* OnAcceptCompleted first releases acceptOvl_.buffer, which PostAccept has
\* already replaced and a second worker may be releasing as well.
Associate(t) ==
  \E s \in Sessions :
    /\ At(t, "associate", s)
    /\ \/ /\ t \in Workers /\ acceptBuf # NoBuffer
          /\ ReleaseBuffer(acceptBuf)
          /\ Goto(t, "forget")
       \/ /\ t \in Apps \/ acceptBuf = NoBuffer
          /\ TryPostRecv(t, s)
          /\ UNCHANGED freeList
    /\ UNCHANGED <<freeIndices, nextId, fieldVars, rbuf, csock, job, kernelVars,
                   crashed, ghostVars, serverVars>>

\* ovl->buffer = nullptr, then PostRecv.
ForgetBuffer(t) ==
  \E s \in Sessions :
    /\ At(t, "forget", s)
    /\ acceptBuf' = NoBuffer
    /\ TryPostRecv(t, s)
    /\ UNCHANGED <<poolVars, fieldVars, rbuf, csock, job, kernelVars,
                   crashed, ghostVars, main, quits, acceptSock>>

\* It fails: session->Disconnect() and then ReleaseSession(session) again.
AssociateFails(t) ==
  /\ pc[t] = "associate"
  /\ AssocMayFail
  /\ Call(t, "disconnect", "release")
  /\ UNCHANGED <<poolVars, fieldVars, rbuf, csock, job, kernelVars, crashed,
                 ghostVars, serverVars>>

-----------------------------------------------------------------------------
(* Completions                                                             *)

OvlBuffer(o) == IF o.kind = "recv" THEN recvOvl[o.s] ELSE sendOvl[o.s]

\* A worker takes the completion of a receive or a send.  What the handler reads
\* is the OverlappedEx as it is now, not as it was when the call was made.
Takes(t, o) ==
  /\ pc[t] = "wait" /\ running
  /\ o.kind \in {"recv", "send"}
  /\ ops' = ops \ {o}

\* HandleRecvCompleted, HandleSendCompleted: no session or no buffer.
DropCompletion(t) ==
  \E o \in ops :
    /\ Takes(t, o)
    /\ OvlBuffer(o) = NoBuffer
    /\ Goto(t, "idle")
    /\ UNCHANGED <<poolVars, fieldVars, rbuf, csock, job, open, nextSock, crashed,
                   ghostVars, serverVars>>

\* owner_->GetBufferPool()->Release(buf) with owner_ null.
CompletionNullOwner(t) ==
  \E o \in ops :
    /\ Takes(t, o)
    /\ OvlBuffer(o) # NoBuffer
    /\ ~owner[o.s]
    /\ crashed' = TRUE
    /\ UNCHANGED <<poolVars, fieldVars, threadVars, open, nextSock, ghostVars, serverVars>>

\* OnRecvCompleted with bytes = 0, or with a ring that refuses the bytes.
RecvEnds(t) ==
  \E o \in ops :
    /\ Takes(t, o)
    /\ o.kind = "recv"
    /\ "peer" \in Enders \/ o.sock \notin open \/ o.buf = NoBuffer
    /\ recvOvl[o.s] # NoBuffer
    /\ owner[o.s]
    /\ ReleaseBuffer(recvOvl[o.s])
    /\ Begin(t, "disconnect", o.s)
    /\ UNCHANGED <<freeIndices, nextId, fieldVars, rbuf, csock, job, open, nextSock, crashed,
                   ghostVars, serverVars>>

\* OnRecvCompleted with bytes the ring takes.
RecvDelivers(t) ==
  \E o \in ops :
    /\ Takes(t, o)
    /\ o.kind = "recv" /\ o.buf # NoBuffer
    /\ recvOvl[o.s] # NoBuffer
    /\ rbuf' = [rbuf EXCEPT ![t] = recvOvl[o.s]]
    /\ Begin(t, "process", o.s)
    /\ UNCHANGED <<poolVars, fieldVars, csock, job, open, nextSock, crashed, ghostVars,
                   serverVars>>

\* OnSendCompleted: the buffer goes back, the number of bytes is ignored.
SendCompletes(t) ==
  \E o \in ops :
    /\ Takes(t, o)
    /\ o.kind = "send"
    /\ sendOvl[o.s] # NoBuffer
    /\ owner[o.s]
    /\ ReleaseBuffer(sendOvl[o.s])
    /\ Begin(t, "sendDone", o.s)
    /\ UNCHANGED <<freeIndices, nextId, fieldVars, rbuf, csock, job, open, nextSock, crashed,
                   ghostVars, serverVars>>

-----------------------------------------------------------------------------
(* The handler and the application                                         *)

\* Send's test of connected_; the message is meant for the connection the
\* caller sees now.
BeginsSend(t, s) ==
  /\ connected[s]
  /\ accepted[sock[s]] < MaxSends
  /\ job' = [job EXCEPT ![t] = [conn |-> sock[s], n |-> 0]]

HandlerSends(t) ==
  \E s \in Sessions :
    /\ At(t, "process", s)
    /\ owner[s]
    /\ BeginsSend(t, s)
    /\ Call(t, "send", "process")
    /\ UNCHANGED <<poolVars, fieldVars, rbuf, csock, kernelVars, crashed, ghostVars,
                   serverVars>>

HandlerDisconnects(t) ==
  \E s \in Sessions :
    /\ At(t, "process", s)
    /\ owner[s]
    /\ "handler" \in Enders
    /\ Call(t, "disconnect", "process")
    /\ UNCHANGED <<poolVars, fieldVars, rbuf, csock, job, kernelVars, crashed,
                   ghostVars, serverVars>>

\* An application thread uses the pointer of a session it found connected
\* (GetById, or the argument of OnClientConnected).
AppSends(t) ==
  \E s \in Sessions :
    /\ pc[t] = "idle" /\ t \in Apps
    /\ BeginsSend(t, s)
    /\ Begin(t, "send", s)
    /\ UNCHANGED <<poolVars, fieldVars, rbuf, csock, kernelVars, crashed, ghostVars,
                   serverVars>>

AppDisconnects(t) ==
  \E s \in Sessions :
    /\ pc[t] = "idle" /\ t \in Apps
    /\ "app" \in Enders
    /\ connected[s]
    /\ Begin(t, "disconnect", s)
    /\ UNCHANGED <<poolVars, fieldVars, rbuf, csock, job, kernelVars, crashed, ghostVars,
                   serverVars>>

-----------------------------------------------------------------------------
(* Start, the worker loop, Stop                                            *)

Start ==
  /\ main = "new"
  /\ main' = "up"
  /\ PostAccept({})
  /\ UNCHANGED <<freeIndices, nextId, fieldVars, threadVars, crashed, ghostVars, quits>>

\* Mutant: one packet for all the workers.
QuitPackets_One == IF Workers = {} THEN 0 ELSE 1

\* One null packet per worker.
QuitPackets == Cardinality(Workers)

Stop ==
  /\ main = "up"
  /\ MayStop
  /\ main' = "stopping"
  /\ quits' = QuitPackets
  /\ UNCHANGED <<poolVars, fieldVars, threadVars, kernelVars, crashed, ghostVars,
                 acceptSock, acceptBuf>>

\* while (running_) ... GetQueuedCompletionStatus(INFINITE)
WorkerLoops(t) ==
  /\ pc[t] = "idle" /\ t \in Workers
  /\ main # "new"
  /\ Goto(t, IF running THEN "wait" ELSE "exited")
  /\ UNCHANGED <<poolVars, fieldVars, rbuf, csock, job, kernelVars, crashed, ghostVars,
                 serverVars>>

\* if (!running_) break; whatever the packet is.
WorkerBreaks(t) ==
  /\ pc[t] = "wait" /\ ~running
  /\ \/ /\ quits > 0
        /\ quits' = quits - 1
        /\ ops' = ops
     \/ \E o \in ops :
        /\ o.kind # "accept" \/ ClientsArrive
        /\ ops' = ops \ {o}
        /\ quits' = quits
  /\ Goto(t, "exited")
  /\ UNCHANGED <<poolVars, fieldVars, rbuf, csock, job, open, nextSock, crashed,
                 ghostVars, main, acceptSock, acceptBuf>>

\* DestroyWorkerThreads returns and Stop closes its handles.
Joined ==
  /\ main = "stopping"
  /\ \A t \in Workers : pc[t] = "exited"
  /\ main' = "down"
  /\ UNCHANGED <<poolVars, fieldVars, threadVars, kernelVars, crashed, ghostVars, quits,
                 acceptSock, acceptBuf>>

\* A thread's own steps: everything but the calls the environment chooses.
Runs(t) ==
  \/ SessionNext(t) /\ UNCHANGED serverVars
  \/ AcquireSession(t) \/ PoolExhausted(t)
  \/ Associate(t) \/ ForgetBuffer(t) \/ AssociateFails(t)
  \/ WorkerLoops(t) \/ WorkerBreaks(t)

Completes(t) ==
  \/ AcceptCompletes(t)
  \/ DropCompletion(t) \/ CompletionNullOwner(t)
  \/ RecvEnds(t) \/ RecvDelivers(t) \/ SendCompletes(t)

Chooses(t) ==
  \/ AppConnects(t) \/ AppSends(t) \/ AppDisconnects(t)
  \/ HandlerSends(t) \/ HandlerDisconnects(t)

Next ==
  /\ ~crashed
  /\ \/ Start \/ Stop \/ Joined
     \/ \E t \in Threads : Runs(t) \/ Completes(t) \/ Chooses(t)

Spec == Init /\ [][Next]_vars

-----------------------------------------------------------------------------
(* Properties.  Session.cpp, SessionPool.h and IocpServerBase.cpp are the   *)
(* code they are about.                                                     *)

PoolTypes ==
  /\ freeList \in Seq(Buffers)
  /\ freeIndices \in Seq(Sessions)
  /\ nextId \in Nat \ {0}

FieldTypes ==
  /\ sock \in [Sessions -> Sockets \cup {NoSocket}]
  /\ owner \in [Sessions -> BOOLEAN]
  /\ connected \in [Sessions -> BOOLEAN]
  /\ sending \in [Sessions -> BOOLEAN]
  /\ id \in [Sessions -> 0..(nextId - 1)]
  /\ recvOvl \in [Sessions -> MaybeBuffer]
  /\ sendOvl \in [Sessions -> MaybeBuffer]
  /\ sendQueue \in [Sessions -> Seq(Jobs)]
  /\ sendMutex \in [Sessions -> Threads \cup {NoThread}]

ControlTypes ==
  /\ pc \in [Threads -> Labels]
  /\ stack \in [Threads -> Seq(ReturnLabels)]
  /\ cur \in [Threads -> Sessions \cup {NoSession}]

LocalTypes ==
  /\ rbuf \in [Threads -> MaybeBuffer]
  /\ csock \in [Threads -> Sockets \cup {NoSocket}]
  /\ job \in [Threads -> Jobs]

KernelTypes ==
  /\ ops \subseteq Operations
  /\ open \subseteq Sockets
  /\ nextSock \in 1..(MaxSockets + 1)
  /\ crashed \in BOOLEAN

HistoryTypes ==
  /\ wire \in [Sockets -> Seq(Jobs)]
  /\ accepted \in [Sockets \cup {NoSocket} -> Nat]
  /\ notified \in Seq(Nat)
  /\ late \subseteq Sessions

ServerTypes ==
  /\ main \in {"new", "up", "stopping", "down"}
  /\ quits \in Nat
  /\ acceptSock \in Sockets \cup {NoSocket}
  /\ acceptBuf \in MaybeBuffer

\* Types of every variable; an id in a session was drawn from the pool.
TypeOK ==
  PoolTypes /\ FieldTypes /\ ControlTypes /\ LocalTypes /\ KernelTypes
  /\ HistoryTypes /\ ServerTypes

\* s is on the pool's stack.
InPool(s) == \E i \in 1..Len(freeIndices) : freeIndices[i] = s

\* Thread t won the exchange on s and has not pushed it yet.
HoldLabels == {"close", "release", "wipe", "reset", "push", "hung"}

Holds(t, s) == cur[t] = s /\ pc[t] \in HoldLabels

\* No index is on the stack twice: SessionPool::Release pushes without looking,
\* so it relies on its callers to release each session once.
NoDuplicateFree ==
  \A i, j \in 1..Len(freeIndices) : freeIndices[i] = freeIndices[j] => i = j

\* A session is in exactly one place: serving a connection, on the free stack,
\* or in the hands of the one thread that is taking it down.  However many
\* threads call Disconnect at once, none is lost and none is handed out twice.
OnePlace ==
  \A s \in Sessions :
    /\ connected[s] \/ InPool(s) \/ \E t \in Threads : Holds(t, s)
    /\ ~(connected[s] /\ InPool(s))
    /\ \A t \in Threads : Holds(t, s) => ~connected[s] /\ ~InPool(s)
    /\ \A t, u \in Threads : Holds(t, s) /\ Holds(u, s) => t = u

PoolIntegrity == NoDuplicateFree /\ OnePlace

\* A session on the free stack carries nothing of its last connection
\* (ResetForReuse), whatever other threads were doing with it, but for two calls
\* that overtake the reset: a PostRecv that had its buffer leaves it in recvOvl_,
\* for good, and a Send that had passed its test of connected_ may be anywhere
\* before the null owner_ it will meet.
FreeIsClean ==
  \A s \in Sessions : InPool(s) =>
    /\ sock[s] = NoSocket /\ ~owner[s] /\ id[s] = NoId
    /\ sendOvl[s] = NoBuffer
    /\ recvOvl[s] = NoBuffer \/ s \in late
    /\ (sendQueue[s] = <<>> /\ ~sending[s]) \/ \E t \in Threads : At(t, "send", s)

\* An open socket has exactly one place that will close it: a session, the
\* pending accept, or a thread on its way to AcquireSession.
Keepers(c) ==
  {<<"session", s>> : s \in {x \in Sessions : sock[x] = c}}
  \cup {<<"thread", t>> : t \in {x \in Threads : csock[x] = c}}
  \cup IF acceptSock = c THEN {<<"accept", 0>>} ELSE {}

SocketsKept ==
  \A c \in Sockets :
    IF c \in open THEN Cardinality(Keepers(c)) = 1 ELSE Keepers(c) = {}

\* The server hears of the end of each connection at most once, and only after
\* its socket was closed, however many threads called Disconnect
\* (NotifySessionDisconnect; the id is the connection's).
NotifiedOnce ==
  /\ NoId \notin Range(notified)
  /\ \A i, j \in 1..Len(notified) : notified[i] = notified[j] => i = j
  /\ \A s \in Sessions : sock[s] # NoSocket => id[s] \notin Range(notified)

\* The session layer implements the abstract life of a connection.
L == INSTANCE SessionLifecycle WITH
  Slots <- Sessions,
  Connections <- Nat \ {NoId},
  NoConnection <- NoId,
  phase <- [s \in Sessions |-> IF connected[s] THEN "serving"
                               ELSE IF InPool(s) THEN "free" ELSE "closing"],
  conn <- [s \in Sessions |-> IF sock[s] = NoSocket THEN NoId ELSE id[s]],
  reported <- Range(notified)

Lifecycle == L!LSpec
=============================================================================
