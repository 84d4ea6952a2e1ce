------------------------------ MODULE Session ------------------------------
(***************************************************************************)
(* IOCP/Session.{h,cpp}: one connection slot, run by any number of threads *)
(* at once.  Every thread is a program counter with a stack of return      *)
(* labels, because the same method (Disconnect, PostSend, ...) is called   *)
(* from many places and is preempted inside.  A step is the code between   *)
(* two points where another thread's step could change its outcome: an     *)
(* atomic exchange, a critical section of sendMutex_ or of a pool, a       *)
(* Winsock call.  The kernel is a set of outstanding overlapped            *)
(* operations and a set of open sockets.                                   *)
(***************************************************************************)
EXTENDS BufferPool, SessionPool

CONSTANTS
  Workers,         \* threads in WorkerLoop
  Apps,            \* threads of the application that call the public methods
  NoThread,
  MaxSockets,      \* bound: sockets the process ever creates
  MaxSends,        \* bound: Send calls accepted for one connection
  CallsMayFail     \* may WSARecv, WSASend and AcceptEx fail on an open socket

Threads == Workers \cup Apps

ASSUME ThreadsAssumption ==
  /\ Workers \cap Apps = {}
  /\ NoThread \notin Threads
ASSUME BoundsAssumption ==
  /\ MaxSockets \in Nat
  /\ MaxSends \in Nat
  /\ CallsMayFail \in BOOLEAN

VARIABLES
  sock, owner, connected, sending, id,   \* fields of each session
  recvOvl, sendOvl,                      \* OverlappedEx.buffer of each session
  sendQueue, sendMutex,
  pc, stack, cur, rbuf, csock, job,      \* each thread: label, returns, locals
  ops,                                   \* overlapped operations in the kernel
  open, nextSock,                        \* open sockets, next handle
  crashed,                               \* the process died on a null owner_
  wire, accepted, notified, late         \* history, see SessionInit

fieldVars  == <<sock, owner, connected, sending, id, recvOvl, sendOvl, sendQueue, sendMutex>>
threadVars == <<pc, stack, cur, rbuf, csock, job>>
kernelVars == <<ops, open, nextSock>>
ghostVars  == <<wire, accepted, notified, late>>

Sockets   == 1..MaxSockets
NoSocket  == 0                           \* INVALID_SOCKET
NoSession == 0
Jobs == [conn : Sockets \cup {NoSocket}, n : Nat]  \* the n-th message meant for conn
NoJob == [conn |-> NoSocket, n |-> 0]

\* Labels a call may return to.
ReturnLabels == {"idle", "process", "unlock", "release", "wipe"}

Labels == ReturnLabels \cup
  {"wait", "exited", "hung", "send", "sendDone", "postRecv", "setup", "receive",
   "disconnect", "close", "reset", "push", "acquire", "associate",
   "forget"}

\* A receive posted after its OverlappedEx was wiped has no buffer, and gets no bytes.
Operations == [kind : {"recv"}, s : Sessions, sock : Sockets, buf : MaybeBuffer]
              \cup [kind : {"send"}, s : Sessions, sock : Sockets, buf : Buffers]
              \cup [kind : {"accept"}, s : {NoSession}, sock : Sockets, buf : Buffers]

SessionInit ==
  /\ BufferPoolInit
  /\ SessionPoolInit
  /\ sock = [s \in Sessions |-> NoSocket]
  /\ owner = [s \in Sessions |-> FALSE]
  /\ connected = [s \in Sessions |-> FALSE]
  /\ sending = [s \in Sessions |-> FALSE]
  /\ id = [s \in Sessions |-> NoId]
  /\ recvOvl = [s \in Sessions |-> NoBuffer]
  /\ sendOvl = [s \in Sessions |-> NoBuffer]
  /\ sendQueue = [s \in Sessions |-> <<>>]
  /\ sendMutex = [s \in Sessions |-> NoThread]
  /\ pc = [t \in Threads |-> "idle"]
  /\ stack = [t \in Threads |-> <<>>]
  /\ cur = [t \in Threads |-> NoSession]
  /\ rbuf = [t \in Threads |-> NoBuffer]
  /\ csock = [t \in Threads |-> NoSocket]
  /\ job = [t \in Threads |-> NoJob]
  /\ ops = {}
  /\ open = {}
  /\ nextSock = 1
  /\ crashed = FALSE
  /\ wire = [c \in Sockets |-> <<>>]     \* what WSASend was given on c
  /\ accepted = [c \in Sockets \cup {NoSocket} |-> 0]  \* messages for c put in a queue
  /\ notified = <<>>                    \* ids passed to OnClientDisconnected
  /\ late = {}                          \* sessions whose recvOvl_ PostRecv filled last
                                        \* when they had been wiped

-----------------------------------------------------------------------------
(* Control: goto, call and return.  The base of every thread is "idle".    *)

Goto(t, l) ==
  /\ pc' = [pc EXCEPT ![t] = l]
  /\ UNCHANGED <<stack, cur>>

\* A thread at its base starts on session s.
Begin(t, l, s) ==
  /\ pc' = [pc EXCEPT ![t] = l]
  /\ cur' = [cur EXCEPT ![t] = s]
  /\ stack' = stack

Call(t, l, ret) ==
  /\ pc' = [pc EXCEPT ![t] = l]
  /\ stack' = [stack EXCEPT ![t] = Append(@, ret)]
  /\ cur' = cur

Return(t) ==
  IF stack[t] = <<>>
  THEN Begin(t, "idle", NoSession)
  ELSE /\ pc' = [pc EXCEPT ![t] = Last(stack[t])]
       /\ stack' = [stack EXCEPT ![t] = Front(@)]
       /\ cur' = cur

At(t, l, s) == pc[t] = l /\ cur[t] = s

\* owner_->... with owner_ null ends the process.
DerefsOwner(t, s) ==
  \/ At(t, "process", s)                       \* Session.cpp 135
  \/ At(t, "postRecv", s)                      \* Session.cpp 91
  \/ /\ At(t, "send", s) \/ At(t, "sendDone", s)  \* Session.cpp 198
     /\ sendMutex[s] = NoThread
     /\ At(t, "send", s) => ~sending[s]
     /\ At(t, "sendDone", s) => sendQueue[s] # <<>>

NullOwner(t) ==
  /\ \E s \in Sessions : DerefsOwner(t, s) /\ ~owner[s]
  /\ crashed' = TRUE
  /\ UNCHANGED <<freeList, freeIndices, nextId, fieldVars, threadVars, kernelVars, ghostVars>>

-----------------------------------------------------------------------------
(* Init                                                                    *)

\* Session::Init on socket c.  It touches neither sendQueue_ nor the
\* OverlappedEx members.
InitSession(s, c) ==
  /\ sock' = [sock EXCEPT ![s] = c]
  /\ owner' = [owner EXCEPT ![s] = TRUE]
  /\ connected' = [connected EXCEPT ![s] = TRUE]
  /\ sending' = [sending EXCEPT ![s] = FALSE]
  /\ id' = [id EXCEPT ![s] = nextId]
  /\ UNCHANGED <<recvOvl, sendOvl, sendQueue, sendMutex>>

-----------------------------------------------------------------------------
(* Disconnect, NotifySessionDisconnect, SessionPool::Release, ResetForReuse *)

\* Mutant: the flag is not tested by the exchange.
WinsExchange_Always(s) == s \in Sessions

\* connected_.exchange(false) returned true.
WinsExchange(s) == connected[s]

DisconnectLoses(t) ==
  \E s \in Sessions :
    /\ At(t, "disconnect", s)
    /\ ~WinsExchange(s)
    /\ Return(t)
    /\ UNCHANGED <<freeList, freeIndices, nextId, fieldVars, rbuf, csock, job,
                   kernelVars, crashed, ghostVars>>

DisconnectWins(t) ==
  \E s \in Sessions :
    /\ At(t, "disconnect", s)
    /\ WinsExchange(s)
    /\ connected' = [connected EXCEPT ![s] = FALSE]
    /\ Goto(t, "close")
    /\ UNCHANGED <<freeList, freeIndices, nextId, sock, owner, sending, id, recvOvl,
                   sendOvl, sendQueue, sendMutex, rbuf, csock, job, kernelVars,
                   crashed, ghostVars>>

\* closesocket(sock_); sock_ = INVALID_SOCKET; with an owner, NotifySessionDisconnect
\* calls OnClientDisconnected and then ReleaseSession.
CloseSocket(t) ==
  \E s \in Sessions :
    /\ At(t, "close", s)
    /\ open' = open \ {sock[s]}
    /\ sock' = [sock EXCEPT ![s] = NoSocket]
    /\ IF owner[s]
       THEN /\ notified' = Append(notified, id[s])
            /\ Goto(t, "release")
       ELSE /\ notified' = notified
            /\ Return(t)
    /\ UNCHANGED <<freeList, freeIndices, nextId, owner, connected, sending, id, recvOvl,
                   sendOvl, sendQueue, sendMutex, rbuf, csock, job, ops, nextSock,
                   crashed, wire, accepted, late>>

\* The flag part of ResetForReuse (no lock held).
WipeFields(s) ==
  /\ sock' = [sock EXCEPT ![s] = NoSocket]
  /\ owner' = [owner EXCEPT ![s] = FALSE]
  /\ connected' = [connected EXCEPT ![s] = FALSE]
  /\ sending' = [sending EXCEPT ![s] = FALSE]
  /\ id' = [id EXCEPT ![s] = NoId]
  /\ UNCHANGED <<recvOvl, sendOvl, sendQueue, sendMutex>>

\* SessionPool::Release begins with session->Disconnect(), which finds the flag
\* already false unless the session was handed out again in between.
ReleaseDisconnects(t) ==
  \E s \in Sessions :
    /\ At(t, "release", s)
    /\ WinsExchange(s)
    /\ connected' = [connected EXCEPT ![s] = FALSE]
    /\ Call(t, "close", "wipe")
    /\ UNCHANGED <<freeList, freeIndices, nextId, sock, owner, sending, id, recvOvl,
                   sendOvl, sendQueue, sendMutex, rbuf, csock, job, kernelVars,
                   crashed, ghostVars>>

ReleaseWipes(t) ==
  \E s \in Sessions :
    /\ \/ At(t, "release", s) /\ ~WinsExchange(s)
       \/ At(t, "wipe", s)
    /\ WipeFields(s)
    /\ Goto(t, "reset")
    /\ UNCHANGED <<freeList, freeIndices, nextId, rbuf, csock, job, kernelVars,
                   crashed, ghostVars>>

\* Mutant: the OverlappedEx members survive the reset.
ResetMembers_KeepsOverlapped(s) ==
  /\ sendQueue' = [sendQueue EXCEPT ![s] = <<>>]
  /\ UNCHANGED <<recvOvl, sendOvl>>

\* The queue and the OverlappedEx members (both passes of ResetForReuse).
ResetMembers(s) ==
  /\ sendQueue' = [sendQueue EXCEPT ![s] = <<>>]
  /\ recvOvl' = [recvOvl EXCEPT ![s] = NoBuffer]
  /\ sendOvl' = [sendOvl EXCEPT ![s] = NoBuffer]

\* The locked part.  A thread that already holds sendMutex_ (PostSend called
\* Disconnect) locks a std::mutex twice, which is undefined: the lock passes
\* or the thread never comes back.
ResetSession(t) ==
  \E s \in Sessions :
    /\ At(t, "reset", s)
    /\ sendMutex[s] \in {NoThread, t}
    /\ ResetMembers(s)
    /\ late' = late \ {s}
    /\ Goto(t, "push")
    /\ UNCHANGED <<freeList, freeIndices, nextId, sock, owner, connected, sending, id,
                   sendMutex, rbuf, csock, job, kernelVars, crashed, wire, accepted, notified>>

RelockHangs(t) ==
  \E s \in Sessions :
    /\ At(t, "reset", s)
    /\ sendMutex[s] = t
    /\ Goto(t, "hung")
    /\ UNCHANGED <<freeList, freeIndices, nextId, fieldVars, rbuf, csock, job,
                   kernelVars, crashed, ghostVars>>

ReturnToPool(t) ==
  \E s \in Sessions :
    /\ At(t, "push", s)
    /\ PushSession(s)
    /\ Return(t)
    /\ UNCHANGED <<freeList, nextId, fieldVars, rbuf, csock, job, kernelVars,
                   crashed, ghostVars>>

-----------------------------------------------------------------------------
(* PostRecv.  No lock is held: the session may be disconnected, wiped and   *)
(* given back, or be another connection's, between any two of its steps.    *)

\* Mutant: PostRecv is called twice.
TryPostRecv_Twice(t, s) == IF connected[s] THEN Call(t, "postRecv", "postRecv") ELSE Return(t)

\* Mutant: the next receive is forgotten.
TryPostRecv_Never(t, s) == s \in Sessions /\ Return(t)

\* if (!connected_) return; seen by the caller's last step: l is where the
\* thread goes, "postRecv" or back.
TryPostRecv(t, s) == IF connected[s] THEN Goto(t, "postRecv") ELSE Return(t)

PostRecvNoBuffer(t) ==
  \E s \in Sessions :
    /\ At(t, "postRecv", s)
    /\ owner[s]
    /\ ~HasFreeBuffer
    /\ Return(t)
    /\ UNCHANGED <<freeList, freeIndices, nextId, fieldVars, rbuf, csock, job,
                   kernelVars, crashed, ghostVars>>

\* A Winsock call on socket c goes pending.
Pends(c) == c \in open

\* A Winsock call on socket c fails at once.
FailsAtOnce(c) == c \notin open \/ CallsMayFail

\* owner_->GetBufferPool()->Acquire()
PostRecvAcquires(t) ==
  \E s \in Sessions, b \in Buffers :
    /\ At(t, "postRecv", s)
    /\ owner[s]
    /\ AcquireBuffer(b)
    /\ rbuf' = [rbuf EXCEPT ![t] = b]
    /\ Goto(t, "setup")
    /\ UNCHANGED <<freeIndices, nextId, fieldVars, csock, job, kernelVars, crashed,
                   ghostVars>>

\* recvOvl_.Setup
PostRecvSetsUp(t) ==
  \E s \in Sessions :
    /\ At(t, "setup", s)
    /\ recvOvl' = [recvOvl EXCEPT ![s] = rbuf[t]]
    /\ late' = IF owner[s] THEN late \ {s} ELSE late \cup {s}
    /\ Goto(t, "receive")
    /\ UNCHANGED <<freeList, freeIndices, nextId, sock, owner, connected, sending, id,
                   sendOvl, sendQueue, sendMutex, rbuf, csock, job, kernelVars, crashed,
                   wire, accepted, notified>>

\* WSARecv into what recvOvl_ says by now.  An immediate failure leaves the
\* buffer there.
PostRecvCall(t) ==
  \E s \in Sessions :
    /\ At(t, "receive", s)
    /\ \/ /\ Pends(sock[s])
          /\ ops' = ops \cup {[kind |-> "recv", s |-> s, sock |-> sock[s], buf |-> recvOvl[s]]}
          /\ Return(t)
       \/ /\ FailsAtOnce(sock[s])
          /\ ops' = ops
          /\ Goto(t, "disconnect")
    /\ rbuf' = [rbuf EXCEPT ![t] = NoBuffer]
    /\ UNCHANGED <<freeList, freeIndices, nextId, fieldVars, csock, job, open,
                   nextSock, crashed, ghostVars>>

-----------------------------------------------------------------------------
(* Send, PostSend, OnSendCompleted                                         *)

\* PostSend with queue q and flag value f at its entry, sendMutex_ held.
\* Job lost: with no buffer the job is already popped and sending_ stays set.
PostSend(t, s, q, f) ==
  \/ /\ q = <<>>
     /\ sending' = [sending EXCEPT ![s] = FALSE]
     /\ sendQueue' = [sendQueue EXCEPT ![s] = q]
     /\ Return(t)
     /\ UNCHANGED <<freeList, sendOvl, sendMutex, ops, wire>>
  \/ /\ q # <<>>
     /\ owner[s]
     /\ ~HasFreeBuffer
     /\ sending' = [sending EXCEPT ![s] = f]
     /\ sendQueue' = [sendQueue EXCEPT ![s] = Tail(q)]
     /\ Return(t)
     /\ UNCHANGED <<freeList, sendOvl, sendMutex, ops, wire>>
  \/ \E b \in Buffers :
     /\ q # <<>>
     /\ owner[s]
     /\ AcquireBuffer(b)
     /\ sending' = [sending EXCEPT ![s] = f]
     /\ sendQueue' = [sendQueue EXCEPT ![s] = Tail(q)]
     /\ sendOvl' = [sendOvl EXCEPT ![s] = b]
     /\ \/ /\ Pends(sock[s])
           /\ ops' = ops \cup {[kind |-> "send", s |-> s, sock |-> sock[s], buf |-> b]}
           /\ wire' = [wire EXCEPT ![sock[s]] = Append(@, Head(q))]
           /\ Return(t)
           /\ UNCHANGED sendMutex
        \/ /\ FailsAtOnce(sock[s])
           /\ sendMutex' = [sendMutex EXCEPT ![s] = t]
           /\ Call(t, "disconnect", "unlock")
           /\ UNCHANGED <<ops, wire>>

\* Mutant: a Send that finds another in progress posts its own as well.
SendInProgress_Ignored(s) == s \notin Sessions

\* if (sending_) return;
SendInProgress(s) == sending[s]

\* Mutant: the new job goes to the front.
Enqueue_Front(q, j) == <<j>> \o q

\* sendQueue_.push
Enqueue(q, j) == Append(q, j)

\* Send after its test of connected_: the critical section.
SendLocked(t) ==
  \E s \in Sessions :
    LET c == job[t].conn
        j == [conn |-> c, n |-> accepted[c] + 1]
        q == Enqueue(sendQueue[s], j)
    IN /\ At(t, "send", s)
       /\ sendMutex[s] = NoThread
       /\ accepted' = [accepted EXCEPT ![c] = @ + 1]
       /\ job' = [job EXCEPT ![t] = NoJob]
       /\ \/ /\ SendInProgress(s)
             /\ sendQueue' = [sendQueue EXCEPT ![s] = q]
             /\ Return(t)
             /\ UNCHANGED <<freeList, sending, sendOvl, sendMutex, ops, wire>>
          \/ /\ ~SendInProgress(s)
             /\ PostSend(t, s, q, TRUE)
       /\ UNCHANGED <<freeIndices, nextId, sock, owner, connected, id, recvOvl, rbuf,
                      csock, open, nextSock, crashed, notified, late>>

\* Mutant: OnSendCompleted does not call PostSend.
SendNext_Skips(t) ==
  \E s \in Sessions :
    /\ At(t, "sendDone", s)
    /\ Return(t)
    /\ UNCHANGED <<freeList, freeIndices, nextId, fieldVars, rbuf, csock, job, kernelVars,
                   crashed, ghostVars>>

\* OnSendCompleted after the release of its buffer: the critical section.
SendNext(t) ==
  \E s \in Sessions :
    /\ At(t, "sendDone", s)
    /\ sendMutex[s] = NoThread
    /\ PostSend(t, s, sendQueue[s], sending[s])
    /\ UNCHANGED <<freeIndices, nextId, sock, owner, connected, id, recvOvl, rbuf,
                   csock, job, open, nextSock, crashed, accepted, notified, late>>

\* End of the critical section that called Disconnect.
Unlock(t) ==
  \E s \in Sessions :
    /\ At(t, "unlock", s)
    /\ sendMutex' = [sendMutex EXCEPT ![s] = NoThread]
    /\ Return(t)
    /\ UNCHANGED <<freeList, freeIndices, nextId, sock, owner, connected, sending, id,
                   recvOvl, sendOvl, sendQueue, rbuf, csock, job, kernelVars, crashed,
                   ghostVars>>

-----------------------------------------------------------------------------
(* OnRecvCompleted after a successful push into the ring                   *)

\* ProcessPacketsFromRing ends; the buffer goes back and the next receive is
\* posted.  Packets are handed to the handler one at a time before this, by
\* HandlerSends and HandlerDisconnects of module IocpServer.
PacketsProcessed(t) ==
  \E s \in Sessions :
    /\ At(t, "process", s)
    /\ owner[s]
    /\ ReleaseBuffer(rbuf[t])
    /\ rbuf' = [rbuf EXCEPT ![t] = NoBuffer]
    /\ TryPostRecv(t, s)
    /\ UNCHANGED <<freeIndices, nextId, fieldVars, csock, job, kernelVars, crashed,
                   ghostVars>>

SessionNext(t) ==
  \/ NullOwner(t)
  \/ DisconnectLoses(t) \/ DisconnectWins(t) \/ CloseSocket(t)
  \/ ReleaseDisconnects(t) \/ ReleaseWipes(t) \/ ResetSession(t) \/ RelockHangs(t)
  \/ ReturnToPool(t)
  \/ PostRecvNoBuffer(t) \/ PostRecvAcquires(t) \/ PostRecvSetsUp(t) \/ PostRecvCall(t)
  \/ SendLocked(t) \/ SendNext(t) \/ Unlock(t)
  \/ PacketsProcessed(t)
=============================================================================
