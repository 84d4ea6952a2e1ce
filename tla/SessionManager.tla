--------------------------- MODULE SessionManager ---------------------------
(***************************************************************************)
(* The older engine's SessionManager and SessionPool, the sessions under   *)
(* them, and who calls them: acceptor threads run OnIocpAcceptComplete of  *)
(* Net/Core/IocpServer.cpp for a new socket, application threads send,     *)
(* broadcast, close and destroy, and workers handle completions.           *)
(*                                                                         *)
(* Nothing calls OnIocpAcceptComplete yet (NetServer shows it); it is run  *)
(* here as it is written for.                                              *)
(*                                                                         *)
(* The manager's and the pool's operations hold their mutex throughout;    *)
(* between them a thread holds a session's pointer and nothing else.       *)
(***************************************************************************)
EXTENDS NetSession, Functions

CONSTANT Acts          \* what application threads do: "send", "close", "destroy"

ASSUME SessionManagerAssumption == Acts \subseteq {"send", "close", "destroy"}

VARIABLES
  freeList, freeSet,   \* SessionPool::freeList_, freeSet_
  sid, idGen,          \* Session::id_, SessionPool::idGen_
  sessions, bySock,    \* sessions_, bySock_: 0 where there is no entry
  created, destroyed   \* created_, destroyed_

managerVars == <<sid, idGen, freeList, freeSet, sessions, bySock, created, destroyed>>
vars == <<poolVars, sessionVars, kernelVars, todo, messageVars, managerVars>>

\* Ids are given from 1 on, one for each Allocate.
Ids == 1..MaxConns

Init ==
  /\ NetSessionInit
  /\ freeList = [i \in 1..MaxSessions |-> i] /\ freeSet = Sessions
  /\ sid = [s \in Sessions |-> None] /\ idGen = 1
  /\ sessions = [i \in Ids |-> None] /\ bySock = [k \in Sockets \cup {None} |-> None]
  /\ created = 0 /\ destroyed = 0

Active == {sessions[i] : i \in {j \in Ids : sessions[j] # None}}

-----------------------------------------------------------------------------
(* SessionPool.                                                            *)

HasFree == freeList # <<>>

\* Mutant: the session keeps the id of its last use.
PoolAllocate_KeepsId(s) ==
  /\ s = Head(freeList)
  /\ freeList' = Tail(freeList)
  /\ freeSet' = freeSet \ {s}
  /\ idGen' = idGen + 1
  /\ UNCHANGED sid

\* Allocate: the oldest free session, with a new id.
PoolAllocate(s) ==
  /\ s = Head(freeList)
  /\ freeList' = Tail(freeList)
  /\ freeSet' = freeSet \ {s}
  /\ sid' = [sid EXCEPT ![s] = idGen]
  /\ idGen' = idGen + 1

PoolRelease(s) ==
  /\ freeList' = Append(freeList, s)
  /\ freeSet' = freeSet \cup {s}
  /\ UNCHANGED <<sid, idGen>>

-----------------------------------------------------------------------------
(* The acceptor: OnIocpAcceptComplete.                                     *)

\* An accept ends with a client on a handle that is not open.
Accepted(t) ==
  /\ Idle(t) /\ conns < MaxConns
  /\ \E k \in {j \in Sockets : conn[j] = None} :
       /\ conn' = [conn EXCEPT ![k] = conns + 1]
       /\ todo' = [todo EXCEPT ![t] = << <<"create", k, conns + 1>> >>]
  /\ conns' = conns + 1
  /\ UNCHANGED <<poolVars, sessionVars, assoc, ios, port, unheard, messageVars, managerVars>>

\* CreateSession: pool_.Allocate and set_socket.  Nobody else has the pointer.
CreateAllocate(t) ==
  LET k == Arg(t) IN
  /\ At(t, "create")
  /\ IF ~HasFree
       THEN /\ Then(t, << <<"dropSocket", k>> >>)
            /\ UNCHANGED <<sock, serves, freeList, freeSet, sid, idGen>>
       ELSE LET s == Head(freeList) IN
            /\ PoolAllocate(s)
            /\ sock' = [sock EXCEPT ![s] = k]
            /\ serves' = [serves EXCEPT ![s] = Arg2(t)]
            /\ Then(t, << <<"register", s>>, <<"postRecv", s>>, <<"associate", s, k>> >>)
  /\ UNCHANGED <<poolVars, closing, sendQ, sending, rx, kernelVars, messageVars,
                 sessions, bySock, created, destroyed>>

\* CreateSession enters the session into both maps; then it calls Start, and
\* its caller goes on.
CreateRegister(t) ==
  LET s == Arg(t) IN
  /\ At(t, "register")
  /\ sessions' = [sessions EXCEPT ![sid[s]] = s]
  /\ bySock' = [bySock EXCEPT ![sock[s]] = sid[s]]
  /\ created' = created + 1
  /\ Then(t, <<>>)
  /\ UNCHANGED <<poolVars, sessionVars, kernelVars, messageVars,
                 freeList, freeSet, sid, idGen, destroyed>>

\* RegisterSocketToIocp on the accepted handle, then s->Start(), or
\* DestroySession(s->id()) and CloseSocket.
Associate(t) ==
  LET s == Arg(t)
      k == Arg2(t)
  IN
  /\ At(t, "associate")
  /\ \/ /\ conn[k] # None
        /\ assoc' = assoc \cup {conn[k]}
        /\ Then(t, << <<"postRecv", s>> >>)
     \/ /\ conn[k] = None \/ AssocMayFail
        /\ Then(t, << <<"destroy", sid[s]>>, <<"dropSocket", k>> >>)
        /\ UNCHANGED assoc
  /\ UNCHANGED <<poolVars, sessionVars, conn, conns, ios, port, unheard, messageVars, managerVars>>

\* SocketUtils::CloseSocket(ctx->acceptSock), the context's own copy.
DropSocket(t) ==
  /\ At(t, "dropSocket")
  /\ CloseHandle(Arg(t))
  /\ Then(t, <<>>)
  /\ UNCHANGED <<poolVars, sessionVars, assoc, conns, messageVars, managerVars>>

-----------------------------------------------------------------------------
(* DestroySession.                                                         *)

\* Mutant: the session is looked up under the lock and not erased.
Erased_Not(i) == sessions

Erased(i) == [sessions EXCEPT ![i] = None]

\* The entries are erased under the lock: that of the socket the session has
\* now, which may be none.
DestroyErase(t) ==
  LET i == Arg(t)
      s == sessions[i]
  IN
  /\ At(t, "destroy")
  /\ IF s = None
       THEN /\ Then(t, <<>>)
            /\ UNCHANGED <<sessions, bySock, destroyed>>
       ELSE /\ sessions' = Erased(i)
            /\ bySock' = [bySock EXCEPT ![sock[s]] = None]
            /\ destroyed' = destroyed + 1
            /\ Then(t, << <<"close", s>>, <<"release", s>> >>)
  /\ UNCHANGED <<poolVars, sessionVars, kernelVars, messageVars,
                 freeList, freeSet, sid, idGen, created>>

DestroyRelease(t) ==
  /\ At(t, "release")
  /\ PoolRelease(Arg(t))
  /\ Then(t, <<>>)
  /\ UNCHANGED <<poolVars, sessionVars, kernelVars, messageVars,
                 sessions, bySock, created, destroyed>>

-----------------------------------------------------------------------------
(* The application.                                                        *)

Calls(t, step) ==
  /\ Idle(t)
  /\ todo' = [todo EXCEPT ![t] = <<step>>]
  /\ UNCHANGED <<poolVars, sessionVars, kernelVars, messageVars, managerVars>>

\* Send on one session that Find returned; Broadcast: send to each session of a
\* snapshot.  The pointers are used after the lock is gone.
FindAndSend(t) == "send" \in Acts /\ \E s \in Active : Calls(t, <<"sends", {s}>>)
Broadcast(t) == "send" \in Acts /\ Active # {} /\ Calls(t, <<"sends", Active>>)

\* fn(s) for one session of the snapshot.
SendToNext(t) ==
  /\ At(t, "sends")
  /\ \E s \in Arg(t) :
       /\ SendOn(s)
       /\ Then(t, IF Arg(t) = {s} THEN <<>> ELSE << <<"sends", Arg(t) \ {s}>> >>)
  /\ UNCHANGED managerVars

\* Close on a session that Find returned; DestroySession of any id given so far.
FindAndClose(t) == "close" \in Acts /\ \E s \in Active : Calls(t, <<"close", s>>)
CallDestroy(t) == "destroy" \in Acts /\ \E i \in 1..(idGen - 1) : Calls(t, <<"destroy", i>>)

CallerStep(t) ==
  \/ CreateAllocate(t) \/ CreateRegister(t) \/ Associate(t) \/ DropSocket(t)
  \/ DestroyErase(t) \/ DestroyRelease(t) \/ SendToNext(t)
  \/ SessionStep(t) /\ UNCHANGED managerVars

WorkerStep(w) == (TakePacket(w) \/ SessionStep(w)) /\ UNCHANGED managerVars

Running == \A t \in Threads : ~At(t, "crashed")

Next ==
  /\ Running
  /\ \/ \E t \in Callers :
          \/ Accepted(t) \/ FindAndSend(t) \/ Broadcast(t) \/ FindAndClose(t) \/ CallDestroy(t)
          \/ CallerStep(t)
     \/ \E w \in Workers : WorkerStep(w)
     \/ \E o \in Ovs : Complete(o) /\ UNCHANGED managerVars

Spec == Init /\ [][Next]_vars

-----------------------------------------------------------------------------

\* Where session s is: in the pool's free list, in sessions_, or in the hands of
\* a thread that is creating or destroying it.
Holds(step, s) == step[1] \in {"register", "release"} /\ step[2] = s
Places(s) ==
  {<<"free", i>> : i \in {j \in DOMAIN freeList : freeList[j] = s}}
    \cup {<<"active", i>> : i \in {j \in Ids : sessions[j] = s}}
    \cup UNION {{<<"thread", t, i>> : i \in {j \in DOMAIN todo[t] : Holds(todo[t][j], s)}} : t \in Threads}

\* A session is at any time in exactly one place, whoever calls DestroySession,
\* and though the acceptor asks for s->id() at a time when the session may be
\* another connection's; and freeSet_ has the sessions of the free list.
OnePlace ==
  /\ freeSet = Range(freeList)
  /\ \A s \in Sessions : \E p \in Places(s) : Places(s) = {p}

\* sessions_ finds under an id the session that has it, so Find never returns
\* another connection's session, and the counters agree with the map.
ManagerAgrees ==
  /\ \A i \in Ids : sessions[i] # None => sid[sessions[i]] = i
  /\ created - destroyed = Cardinality(Active)

\* The messages sent on one connection are posted in the order of Send, each
\* once, whatever a late completion of the session's last use does.
Fifo ==
  \A i, j \in DOMAIN sent :
    i < j /\ sendOf[sent[i]] = sendOf[sent[j]] => sent[i] < sent[j]

\* Sessions are given out in turn, so these have served one connection at most.
FirstUse(s) == sid[s] <= MaxSessions

\* A session has one WSASend outstanding at a time, its later uses included.
SendsOf(s) == {o \in Ovs : ios[o].type = "send" /\ ios[o].owner = s}
OneSend ==
  \A s \in Sessions : Cardinality({o \in SendsOf(s) : ios[o].state = "pending"}) <= 1

\* sending_ is set, the session's connection is open, and no send is on its way,
\* in the port or in the hands of a worker that has yet to handle it or to close
\* the socket: nothing will ever be sent again.
Comes(s) ==
  \/ \E o \in SendsOf(s) : ios[o].state = "pending" \/ o \in Range(port)
  \/ \E w \in Workers : Range(todo[w]) \cap {<<"sendDone", s>>, <<"close", s>>} # {}
Stalled(s) ==
  /\ sending[s] /\ sock[s] # None /\ ConnOf(sock[s]) = serves[s]
  /\ ~Comes(s)

\* A session that is used once stalls only if its send ended before the socket
\* was associated with the port.
SendAlive == \A s \in Sessions : Stalled(s) /\ FirstUse(s) => serves[s] \in unheard

\* When every call has returned, a session that comes to the pool from its first
\* use has no open socket.
FreeIsClosed ==
  (\A t \in Threads : Idle(t)) =>
    \A s \in freeSet : FirstUse(s) => ConnOf(sock[s]) = None
=============================================================================
