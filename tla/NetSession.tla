----------------------------- MODULE NetSession -----------------------------
(***************************************************************************)
(* The older engine's Session (Net/Session/Session.cpp) and the kernel     *)
(* under it: socket handles whose values are used again, overlapped calls  *)
(* and the packets they leave in the completion port.                      *)
(*                                                                         *)
(* A thread's remaining work is a sequence of steps, todo, each a name and *)
(* its arguments: a step does its work and is replaced by the steps it     *)
(* calls for.  Send and OnSendCompleted hold sendMtx_ and are one step     *)
(* each; the socket and the receive handle have no lock, so closing and    *)
(* receiving are several.  The receive ring is modelled in NetRingBuffer.  *)
(***************************************************************************)
EXTENDS NetBufferPool, FiniteSets

CONSTANTS
  MaxSessions,          \* maxSession
  Workers, Callers,     \* worker threads; threads of the acceptor and the application
  MaxSockets,           \* bound: handle values in use at a time
  MaxConns,             \* bound: connections
  MaxOvs,               \* bound: OverlappedEx objects at a time
  MaxMessages,          \* bound: calls of Send
  ClientsSend,          \* clients send bytes
  CallsMayFail,         \* WSARecv and WSASend may fail on an open socket
  AssocMayFail          \* CreateIoCompletionPort may fail

ASSUME NetSessionAssumption ==
  /\ MaxSessions \in Nat \ {0}
  /\ Workers \cap Callers = {}
  /\ MaxSockets \in Nat /\ MaxConns \in Nat /\ MaxOvs \in Nat /\ MaxMessages \in Nat
  /\ ClientsSend \in BOOLEAN /\ CallsMayFail \in BOOLEAN /\ AssocMayFail \in BOOLEAN

Threads == Workers \cup Callers
Sessions == 1..MaxSessions
Sockets == 1..MaxSockets
Conns == 1..MaxConns
Ovs == 1..MaxOvs
Messages == 1..MaxMessages
None == 0               \* INVALID_SOCKET, a null pointer, no connection

VARIABLES
  sock, closing,        \* sock_, closing_
  sendQ, sending,       \* sendQ_, sending_
  rx,                   \* rx_: its block
  serves,               \* the connection each session was last created for
  conn,                 \* the connection behind each open handle
  assoc,                \* the connections associated with the port
  conns,                \* connections so far
  ios, port,            \* the OverlappedEx objects; the packets in the port
  unheard,              \* connections an operation of which ended before they were
                        \* associated with the port: no packet tells of it
  todo,                 \* the steps each thread has left
  sendOf, sent          \* messages: their connection, and those posted, in order

sessionVars == <<sock, closing, sendQ, sending, rx, serves>>
kernelVars  == <<conn, assoc, conns, ios, port, unheard>>
messageVars == <<sendOf, sent>>

NoIo == [type |-> "none"]

NetSessionInit ==
  /\ NetBufferPoolInit
  /\ sock = [s \in Sessions |-> None] /\ closing = [s \in Sessions |-> FALSE]
  /\ sendQ = [s \in Sessions |-> <<>>] /\ sending = [s \in Sessions |-> FALSE]
  /\ rx = [s \in Sessions |-> NoBlock]
  /\ serves = [s \in Sessions |-> None]
  /\ conn = [k \in Sockets |-> None] /\ assoc = {} /\ conns = 0
  /\ ios = [o \in Ovs |-> NoIo] /\ port = <<>> /\ unheard = {}
  /\ todo = [t \in Threads |-> <<>>]
  /\ sendOf = <<>> /\ sent = <<>>

Idle(t) == todo[t] = <<>>
At(t, step) == todo[t] # <<>> /\ Head(todo[t])[1] = step
Arg(t) == Head(todo[t])[2]
Arg2(t) == Head(todo[t])[3]

\* The step is done; steps are what it calls for next.
Then(t, steps) == todo' = [todo EXCEPT ![t] = steps \o Tail(@)]

-----------------------------------------------------------------------------
(* The kernel.                                                             *)

FreeOvs == {o \in Ovs : ios[o] = NoIo}
HasOv == FreeOvs # {}
NewOv == CHOOSE o \in FreeOvs : TRUE

ConnOf(k) == IF k = None THEN None ELSE conn[k]

\* An overlapped call on handle k: it is posted, or fails at once.
Post(io, k) == ios' = [ios EXCEPT ![NewOv] = [io EXCEPT !.conn = conn[k]]]

CanPost(k) == ConnOf(k) # None
CanFail(k) == ~CanPost(k) \/ CallsMayFail

\* What an operation leaves when it ends: a packet, if its socket is associated
\* with the port by then.
Ended(io, how) == IF io.conn \in assoc THEN [io EXCEPT !.state = how] ELSE NoIo
Unheard(os) == unheard \cup ({ios[o].conn : o \in os} \ assoc)

PendingOn(c) == {o \in Ovs : ios[o] # NoIo /\ ios[o].state = "pending" /\ ios[o].conn = c}

\* The packets of operations os, in some order.
Queued(os) == {p \in [1..Cardinality(os) -> os] : \A i, j \in DOMAIN p : p[i] = p[j] => i = j}

\* closesocket(k): pending operations of the connection end in failure.
CloseHandle(k) ==
  LET os == IF ConnOf(k) = None THEN {} ELSE PendingOn(conn[k]) IN
  /\ conn' = [conn EXCEPT ![k] = None]
  /\ ios' = [o \in Ovs |-> IF o \in os THEN Ended(ios[o], "failed") ELSE ios[o]]
  /\ \E p \in Queued({o \in os : ios[o].conn \in assoc}) : port' = port \o p
  /\ unheard' = Unheard(os)

\* A call ends by itself: bytes went out or came in, or the client has closed or
\* the connection broke, which the engine handles alike.
Complete(o) ==
  /\ ios[o] # NoIo /\ ios[o].state = "pending"
  /\ \E how \in {"ok", "failed"} :
       /\ how = "ok" => ios[o].type = "send" \/ ClientsSend
       /\ ios' = [ios EXCEPT ![o] = Ended(ios[o], how)]
  /\ port' = IF ios[o].conn \in assoc THEN Append(port, o) ELSE port
  /\ unheard' = Unheard({o})
  /\ UNCHANGED <<poolVars, sessionVars, conn, assoc, conns, todo, messageVars>>

-----------------------------------------------------------------------------
(* Closing: SocketUtils::CloseSocket(sock_) and Session::Close.            *)

\* The handle is read; an invalid one is left alone.
CloseSocket(t) ==
  LET s == Arg(t) IN
  /\ At(t, "closeSocket")
  /\ Then(t, IF sock[s] = None THEN <<>> ELSE << <<"closeHandle", sock[s]>>, <<"clearSock", s>> >>)
  /\ UNCHANGED <<poolVars, sessionVars, kernelVars, messageVars>>

\* shutdown and closesocket, of whatever the value stands for by now.
CloseSocketHandle(t) ==
  /\ At(t, "closeHandle")
  /\ CloseHandle(Arg(t))
  /\ Then(t, <<>>)
  /\ UNCHANGED <<poolVars, sessionVars, assoc, conns, messageVars>>

ClearSock(t) ==
  /\ At(t, "clearSock")
  /\ sock' = [sock EXCEPT ![Arg(t)] = None]
  /\ Then(t, <<>>)
  /\ UNCHANGED <<poolVars, closing, sendQ, sending, rx, serves, kernelVars, messageVars>>

\* Mutant: the session is closed whatever closing_ says, and its socket is not.
CloseSteps_None(s) == <<>>

CloseSteps(s) == IF closing[s] THEN <<>> ELSE << <<"closeSocket", s>> >>

\* closing_ goes from false to true once, and is never set back.
Close(t) ==
  /\ At(t, "close")
  /\ closing' = [closing EXCEPT ![Arg(t)] = TRUE]
  /\ Then(t, CloseSteps(Arg(t)))
  /\ UNCHANGED <<poolVars, sock, sendQ, sending, rx, serves, kernelVars, messageVars>>

-----------------------------------------------------------------------------
(* Receiving: PostRecv and OnRecvCompleted.                                *)

\* if (!rx_) rx_ = pool_.Acquire(): the handle is looked at and, if it is empty,
\* a block is taken for it.
PostRecvAcquire(t) ==
  LET s == Arg(t) IN
  /\ At(t, "postRecv")
  /\ \/ /\ rx[s] # NoBlock
        /\ Then(t, << <<"recv", s>> >>)
        /\ UNCHANGED poolVars
     \/ /\ rx[s] = NoBlock
        /\ \E b \in Blocks : AllocateBlock(b) /\ Then(t, << <<"fillRx", s, b>>, <<"recv", s>> >>)
  /\ UNCHANGED <<sessionVars, kernelVars, messageVars>>

\* The assignment: reset() gives back the block another PostRecv put there in
\* the meantime, if there is one.
FillRx(t) ==
  LET s == Arg(t)
      move == <<"moveRx", s, Arg2(t)>>
  IN
  /\ At(t, "fillRx")
  /\ Then(t, IF rx[s] = NoBlock THEN <<move>>
             ELSE << <<"clearRx", s>>, <<"releaseRx", rx[s]>>, move >>)
  /\ UNCHANGED <<poolVars, sessionVars, kernelVars, messageVars>>

\* moveFrom, over what the handle holds by now.
MoveRx(t) ==
  /\ At(t, "moveRx")
  /\ rx' = [rx EXCEPT ![Arg(t)] = Arg2(t)]
  /\ Then(t, <<>>)
  /\ UNCHANGED <<poolVars, sock, closing, sendQ, sending, serves, kernelVars, messageVars>>

\* WSARecv into the block; a failure is returned to callers that ignore it.
PostRecvCall(t) ==
  LET s == Arg(t)
      io == [type |-> "recv", owner |-> s, conn |-> None, state |-> "pending"]
  IN
  /\ At(t, "recv")
  /\ \/ HasOv /\ CanPost(sock[s]) /\ Post(io, sock[s])
     \/ CanFail(sock[s]) /\ UNCHANGED ios
  /\ Then(t, <<>>)
  /\ UNCHANGED <<poolVars, sessionVars, conn, assoc, conns, port, unheard, messageVars>>

\* The bytes are copied out of the block, through a null pointer if the handle
\* is empty by now.  Then rx_.reset(): the pointer is read, the handle cleared,
\* the block given back.
ResetRx(t) ==
  LET s == Arg(t) IN
  /\ At(t, "resetRx")
  /\ Then(t, IF rx[s] = NoBlock THEN << <<"crashed">> >>
             ELSE << <<"clearRx", s>>, <<"releaseRx", rx[s]>> >>)
  /\ UNCHANGED <<poolVars, sessionVars, kernelVars, messageVars>>

ClearRx(t) ==
  /\ At(t, "clearRx")
  /\ rx' = [rx EXCEPT ![Arg(t)] = NoBlock]
  /\ Then(t, <<>>)
  /\ UNCHANGED <<poolVars, sock, closing, sendQ, sending, serves, kernelVars, messageVars>>

ReleaseRx(t) ==
  /\ At(t, "releaseRx")
  /\ ReleaseBlock(Arg(t))
  /\ Then(t, <<>>)
  /\ UNCHANGED <<sessionVars, kernelVars, messageVars>>

-----------------------------------------------------------------------------
(* Sending: Send and OnSendCompleted.                                      *)

SendIo(s, m) == [type |-> "send", owner |-> s, conn |-> None, msg |-> m, state |-> "pending"]

\* WSASend of the first message of queue q; if it fails at once, the first
\* message is dropped and nothing is in progress.
PostFront(s, q) ==
  \/ /\ HasOv /\ CanPost(sock[s])
     /\ Post(SendIo(s, Head(q)), sock[s])
     /\ sent' = Append(sent, Head(q))
     /\ sendQ' = [sendQ EXCEPT ![s] = q]
     /\ sending' = [sending EXCEPT ![s] = TRUE]
  \/ /\ CanFail(sock[s])
     /\ sendQ' = [sendQ EXCEPT ![s] = Tail(q)]
     /\ sending' = [sending EXCEPT ![s] = FALSE]
     /\ UNCHANGED <<ios, sent>>

\* Mutant: the sending flag is not looked at.
InProgress_Ignored(s) == FALSE

InProgress(s) == sending[s]

\* Mutant: a message that must wait goes in front.
Pushed_Front(s, m) == <<m>> \o sendQ[s]

Pushed(s, m) == Append(sendQ[s], m)

\* Send on session s.
SendOn(s) ==
  LET m == Len(sendOf) + 1 IN
  /\ m <= MaxMessages
  /\ sendOf' = Append(sendOf, serves[s])
  /\ \/ /\ InProgress(s)
        /\ sendQ' = [sendQ EXCEPT ![s] = Pushed(s, m)]
        /\ UNCHANGED <<ios, sending, sent>>
     \/ ~InProgress(s) /\ PostFront(s, Pushed(s, m))
  /\ UNCHANGED <<poolVars, sock, closing, rx, serves, conn, assoc, conns, port, unheard>>

\* Mutant: the flag stays set when the queue is empty.
QueueDone_StaysSet(s) == sending' = sending

QueueDone(s) == sending' = [sending EXCEPT ![s] = FALSE]

\* The first message is done with, and the next is posted.
SendDone(t) ==
  LET s == Arg(t)
      q == IF sendQ[s] = <<>> THEN <<>> ELSE Tail(sendQ[s])
  IN
  /\ At(t, "sendDone")
  /\ IF q = <<>>
       THEN /\ sendQ' = [sendQ EXCEPT ![s] = <<>>]
            /\ QueueDone(s)
            /\ UNCHANGED <<ios, sent>>
       ELSE PostFront(s, q)
  /\ Then(t, <<>>)
  /\ UNCHANGED <<poolVars, sock, closing, rx, serves, conn, assoc, conns, port, unheard, sendOf>>

-----------------------------------------------------------------------------
(* A worker and a packet: IocpWorker::Loop and Session::OnIoCompleted.     *)

\* A receive of no bytes is handled as a failure.
StepsFor(io) ==
  LET s == io.owner IN
  IF io.state = "failed" THEN << <<"closeSocket", s>>, <<"close", s>> >>
  ELSE IF io.type = "recv" THEN << <<"resetRx", s>>, <<"postRecv", s>> >>
  ELSE << <<"sendDone", s>> >>

\* Nobody but this worker has the OverlappedEx any more; FreeOv comes last in
\* the code, and is done here at once.
TakePacket(w) ==
  /\ Idle(w) /\ port # <<>>
  /\ todo' = [todo EXCEPT ![w] = StepsFor(ios[Head(port)])]
  /\ ios' = [ios EXCEPT ![Head(port)] = NoIo]
  /\ port' = Tail(port)
  /\ UNCHANGED <<poolVars, sessionVars, conn, assoc, conns, unheard, messageVars>>

SessionStep(t) ==
  \/ CloseSocket(t) \/ CloseSocketHandle(t) \/ ClearSock(t) \/ Close(t)
  \/ PostRecvAcquire(t) \/ FillRx(t) \/ MoveRx(t) \/ PostRecvCall(t)
  \/ ResetRx(t) \/ ClearRx(t) \/ ReleaseRx(t)
  \/ SendDone(t)
=============================================================================
