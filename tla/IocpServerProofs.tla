-------------------------- MODULE IocpServerProofs --------------------------
(***************************************************************************)
(* Proofs about IocpServer, and about its data path (module DataPath), for *)
(* every number of threads, sessions, buffers and sockets.                 *)
(***************************************************************************)
EXTENDS DataPath, FiniteSetTheorems, SequenceTheorems, TLAPS

-----------------------------------------------------------------------------
(* Stacks: what Last, Front and Append do to a sequence.                   *)

LEMMA StackPop ==
  ASSUME NEW S, NEW q \in Seq(S), q # <<>>
  PROVE  /\ Last(q) \in S
         /\ Front(q) \in Seq(S)
         /\ Len(Front(q)) = Len(q) - 1
         /\ Last(q) = q[Len(q)]
         /\ \A i \in 1..(Len(q) - 1) : Front(q)[i] = q[i]
<1>1. Len(q) \in Nat \ {0}
  OBVIOUS
<1>2. Last(q) \in S /\ Last(q) = q[Len(q)]
  BY <1>1 DEF Last
<1>3. \A i \in 1..(Len(q) - 1) : q[i] \in S
  BY <1>1
<1>4. /\ Front(q) \in Seq(S) /\ Len(Front(q)) = Len(q) - 1
      /\ \A i \in 1..(Len(q) - 1) : Front(q)[i] = q[i]
  <2> DEFINE n == Len(q) - 1
  <2>1. n \in Nat /\ Front(q) = SubSeq(q, 1, n)
    BY <1>1 DEF Front
  <2>2. /\ SubSeq(q, 1, n) \in Seq(S)
        /\ Len(SubSeq(q, 1, n)) = IF 1 <= n THEN n - 1 + 1 ELSE 0
        /\ \A i \in 1..(n - 1 + 1) : SubSeq(q, 1, n)[i] = q[1 + i - 1]
    <3> HIDE DEF n
    <3>1. \A i \in 1..n : q[i] \in S
      BY <1>3 DEF n
    <3>2. QED
      BY <2>1, <3>1, SubSeqProperties
  <2>3. n - 1 + 1 = n /\ (IF 1 <= n THEN n - 1 + 1 ELSE 0) = n /\ \A i \in 1..n : 1 + i - 1 = i
    <3> HIDE DEF n
    <3>1. QED
      BY <2>1
  <2>4. QED
    BY <2>1, <2>2, <2>3
<1>5. QED
  BY <1>2, <1>4

LEMMA StackPush ==
  ASSUME NEW S, NEW q \in Seq(S), NEW x \in S
  PROVE  /\ Append(q, x) \in Seq(S)
         /\ Len(Append(q, x)) = Len(q) + 1
         /\ Append(q, x)[Len(q) + 1] = x
         /\ \A i \in 1..Len(q) : Append(q, x)[i] = q[i]
OBVIOUS

-----------------------------------------------------------------------------
(* The control steps keep the types of pc, stack and cur.                  *)

LEMMA LabelFacts == ReturnLabels \subseteq Labels
BY DEF Labels

LEMMA GotoTypes ==
  ASSUME ControlTypes, NEW t \in Threads, NEW l \in Labels, Goto(t, l)
  PROVE  ControlTypes'
BY DEF ControlTypes, Goto

LEMMA BeginTypes ==
  ASSUME ControlTypes, NEW t \in Threads, NEW l \in Labels,
         NEW s \in Sessions \cup {NoSession}, Begin(t, l, s)
  PROVE  ControlTypes'
BY DEF ControlTypes, Begin

LEMMA CallTypes ==
  ASSUME ControlTypes, NEW t \in Threads, NEW l \in Labels, NEW r \in ReturnLabels,
         Call(t, l, r)
  PROVE  ControlTypes'
<1>1. Append(stack[t], r) \in Seq(ReturnLabels)
  BY StackPush DEF ControlTypes
<1>2. QED
  BY <1>1 DEF ControlTypes, Call

LEMMA ReturnTypes ==
  ASSUME ControlTypes, NEW t \in Threads, Return(t)
  PROVE  ControlTypes'
<1>1. CASE stack[t] = <<>>
  <2>1. Begin(t, "idle", NoSession)
    BY <1>1 DEF Return
  <2>2. QED
    BY <2>1, BeginTypes DEF Labels, ReturnLabels
<1>2. CASE stack[t] # <<>>
  <2>1. Last(stack[t]) \in Labels /\ Front(stack[t]) \in Seq(ReturnLabels)
    BY <1>2, StackPop, LabelFacts DEF ControlTypes
  <2>2. QED
    BY <1>2, <2>1 DEF Return, ControlTypes
<1>3. QED
  BY <1>1, <1>2

LEMMA PoolOps ==
  ASSUME PoolTypes
  PROVE  /\ \A b : AcquireBuffer(b) => freeList' \in Seq(Buffers) /\ b \in Buffers
         /\ \A b \in MaybeBuffer : ReleaseBuffer(b) => freeList' \in Seq(Buffers)
         /\ \A s : PopSession(s) => /\ freeIndices' \in Seq(Sessions) /\ s \in Sessions
                                    /\ nextId' \in Nat \ {0} /\ nextId' = nextId + 1
         /\ \A s \in Sessions : PushSession(s) => freeIndices' \in Seq(Sessions)
<1>1. ASSUME NEW b, AcquireBuffer(b)
      PROVE  freeList' \in Seq(Buffers) /\ b \in Buffers
  BY <1>1, StackPop DEF AcquireBuffer, HasFreeBuffer, TopBuffer, PoolTypes
<1>2. ASSUME NEW b \in MaybeBuffer, ReleaseBuffer(b)
      PROVE  freeList' \in Seq(Buffers)
  BY <1>2, StackPush DEF ReleaseBuffer, PoolTypes, MaybeBuffer
<1>3. ASSUME NEW s, PopSession(s)
      PROVE  /\ freeIndices' \in Seq(Sessions) /\ s \in Sessions
             /\ nextId' \in Nat \ {0} /\ nextId' = nextId + 1
  BY <1>3, StackPop DEF PopSession, HasFreeSession, PoolTypes
<1>4. ASSUME NEW s \in Sessions, PushSession(s)
      PROVE  freeIndices' \in Seq(Sessions)
  BY <1>4, StackPush DEF PushSession, PoolTypes
<1>5. QED
  BY <1>1, <1>2, <1>3, <1>4

-----------------------------------------------------------------------------
(* Type correctness.                                                       *)

LEMMA PostSendTypes ==
  ASSUME TypeOK, NEW t \in Threads, NEW s \in Sessions, NEW q \in Seq(Jobs),
         NEW f \in BOOLEAN, PostSend(t, s, q, f)
  PROVE  /\ ControlTypes'
         /\ freeList' \in Seq(Buffers)
         /\ sending' \in [Sessions -> BOOLEAN]
         /\ sendQueue' \in [Sessions -> Seq(Jobs)]
         /\ sendOvl' \in [Sessions -> MaybeBuffer]
         /\ sendMutex' \in [Sessions -> Threads \cup {NoThread}]
         /\ ops' \subseteq Operations
         /\ wire' \in [Sockets -> Seq(Jobs)]
<1> USE DEF TypeOK, PoolTypes, FieldTypes, KernelTypes, HistoryTypes
<1>1. CASE q = <<>>
  <2>1. /\ sending' = [sending EXCEPT ![s] = FALSE]
        /\ sendQueue' = [sendQueue EXCEPT ![s] = q]
        /\ Return(t)
        /\ UNCHANGED <<freeList, sendOvl, sendMutex, ops, wire>>
    BY <1>1 DEF PostSend
  <2>2. QED
    BY <2>1, ReturnTypes
<1>2. CASE q # <<>> /\ ~HasFreeBuffer
  <2>1. /\ sending' = [sending EXCEPT ![s] = f]
        /\ sendQueue' = [sendQueue EXCEPT ![s] = Tail(q)]
        /\ Return(t)
        /\ UNCHANGED <<freeList, sendOvl, sendMutex, ops, wire>>
    BY <1>2 DEF PostSend, AcquireBuffer
  <2>2. Tail(q) \in Seq(Jobs)
    BY <1>2
  <2>3. QED
    BY <2>1, <2>2, ReturnTypes
<1>3. CASE q # <<>> /\ HasFreeBuffer
  <2>1. PICK b \in Buffers :
          /\ AcquireBuffer(b)
          /\ sending' = [sending EXCEPT ![s] = f]
          /\ sendQueue' = [sendQueue EXCEPT ![s] = Tail(q)]
          /\ sendOvl' = [sendOvl EXCEPT ![s] = b]
          /\ \/ /\ Pends(sock[s])
                /\ ops' = ops \cup {[kind |-> "send", s |-> s, sock |-> sock[s], buf |-> b]}
                /\ wire' = [wire EXCEPT ![sock[s]] = Append(@, Head(q))]
                /\ Return(t)
                /\ UNCHANGED sendMutex
             \/ /\ FailsAtOnce(sock[s])
                /\ sendMutex' = [sendMutex EXCEPT ![s] = t]
                /\ Call(t, "disconnect", "unlock")
                /\ UNCHANGED <<ops, wire>>
    BY <1>3 DEF PostSend
  <2>2. Tail(q) \in Seq(Jobs) /\ Head(q) \in Jobs
    BY <1>3
  <2>3. freeList' \in Seq(Buffers)
    BY <2>1, PoolOps
  <2>4. /\ sending' \in [Sessions -> BOOLEAN]
        /\ sendQueue' \in [Sessions -> Seq(Jobs)]
        /\ sendOvl' \in [Sessions -> MaybeBuffer]
    BY <2>1, <2>2 DEF MaybeBuffer
  <2>5. CASE Pends(sock[s]) /\ Return(t) /\ UNCHANGED sendMutex
             /\ ops' = ops \cup {[kind |-> "send", s |-> s, sock |-> sock[s], buf |-> b]}
             /\ wire' = [wire EXCEPT ![sock[s]] = Append(@, Head(q))]
    <3>1. sock[s] \in Sockets
      BY <2>5 DEF Pends
    <3>2. ops' \subseteq Operations
      BY <2>5, <3>1 DEF Operations
    <3>3. Append(wire[sock[s]], Head(q)) \in Seq(Jobs)
      BY <2>2, <3>1, StackPush
    <3>4. wire' \in [Sockets -> Seq(Jobs)]
      BY <2>5, <3>1, <3>3
    <3>5. QED
      BY <2>3, <2>4, <2>5, <3>2, <3>4, ReturnTypes
  <2>6. CASE Call(t, "disconnect", "unlock") /\ UNCHANGED <<ops, wire>>
             /\ sendMutex' = [sendMutex EXCEPT ![s] = t]
    BY <2>3, <2>4, <2>6, CallTypes DEF Labels, ReturnLabels
  <2>7. QED
    BY <2>1, <2>5, <2>6
<1>4. QED
  BY <1>1, <1>2, <1>3

LEMMA SessionTypeStep ==
  ASSUME TypeOK, NEW t \in Threads, SessionNext(t), UNCHANGED serverVars
  PROVE  TypeOK'
<1> USE DEF TypeOK, FieldTypes, LocalTypes, KernelTypes, HistoryTypes, ServerTypes,
            fieldVars, threadVars, kernelVars, ghostVars, serverVars, MaybeBuffer
<1>1. CASE NullOwner(t)
  <2>1. ControlTypes'
    BY <1>1 DEF NullOwner, ControlTypes
  <2>2. PoolTypes'
    BY <1>1, PoolOps DEF NullOwner, PoolTypes
  <2>3. QED
    BY <1>1, <2>1, <2>2 DEF NullOwner, PoolTypes
<1>2. CASE DisconnectLoses(t)
  <2>1. ControlTypes'
    BY <1>2, ReturnTypes DEF DisconnectLoses, Labels, ReturnLabels
  <2>2. PoolTypes'
    BY <1>2, PoolOps DEF DisconnectLoses, PoolTypes
  <2>3. QED
    BY <1>2, <2>1, <2>2 DEF DisconnectLoses, PoolTypes
<1>3. CASE DisconnectWins(t)
  <2>1. ControlTypes'
    BY <1>3, GotoTypes DEF DisconnectWins, Labels, ReturnLabels
  <2>2. PoolTypes'
    BY <1>3, PoolOps DEF DisconnectWins, PoolTypes
  <2>3. QED
    BY <1>3, <2>1, <2>2 DEF DisconnectWins, PoolTypes
<1>4. CASE CloseSocket(t)
  <2>1. ControlTypes'
    BY <1>4, GotoTypes, ReturnTypes DEF CloseSocket, Labels, ReturnLabels
  <2>2. PoolTypes'
    BY <1>4, PoolOps DEF CloseSocket, PoolTypes
  <2>3. QED
    <3>1. PICK s \in Sessions :
             /\ sock' = [sock EXCEPT ![s] = NoSocket]
             /\ notified' \in {notified, Append(notified, id[s])}
      BY <1>4 DEF CloseSocket
    <3>2. id[s] \in Nat
      BY <3>1 DEF PoolTypes
    <3>3. notified' \in Seq(Nat)
      <4>1. notified \in Seq(Nat)
        OBVIOUS
      <4>2. Append(notified, id[s]) \in Seq(Nat)
        BY <3>2, <4>1
      <4>3. QED
        BY <3>1, <4>1, <4>2
    <3>4. QED
      BY <1>4, <2>1, <2>2, <3>1, <3>3 DEF CloseSocket, PoolTypes
<1>5. CASE ReleaseDisconnects(t)
  <2>1. ControlTypes'
    BY <1>5, CallTypes DEF ReleaseDisconnects, Labels, ReturnLabels
  <2>2. PoolTypes'
    BY <1>5, PoolOps DEF ReleaseDisconnects, PoolTypes
  <2>3. QED
    BY <1>5, <2>1, <2>2 DEF ReleaseDisconnects, PoolTypes
<1>6. CASE ReleaseWipes(t)
  <2>1. ControlTypes'
    BY <1>6, GotoTypes DEF ReleaseWipes, Labels, ReturnLabels
  <2>2. PoolTypes'
    BY <1>6, PoolOps DEF ReleaseWipes, PoolTypes
  <2>3. QED
    <3>1. NoId \in 0..(nextId - 1) /\ nextId' = nextId
      BY <1>6 DEF ReleaseWipes, PoolTypes, NoId
    <3>2. PICK s \in Sessions : WipeFields(s)
      BY <1>6 DEF ReleaseWipes
    <3>3. FieldTypes'
      BY <3>1, <3>2 DEF WipeFields
    <3>4. QED
      BY <1>6, <2>1, <2>2, <3>3 DEF ReleaseWipes
<1>7. CASE ResetSession(t)
  <2>1. ControlTypes'
    BY <1>7, GotoTypes DEF ResetSession, Labels, ReturnLabels
  <2>2. PoolTypes'
    BY <1>7, PoolOps DEF ResetSession, PoolTypes
  <2>3. QED
    BY <1>7, <2>1, <2>2 DEF ResetSession, ResetMembers, PoolTypes
<1>8. CASE RelockHangs(t)
  <2>1. ControlTypes'
    BY <1>8, GotoTypes DEF RelockHangs, Labels, ReturnLabels
  <2>2. PoolTypes'
    BY <1>8, PoolOps DEF RelockHangs, PoolTypes
  <2>3. QED
    BY <1>8, <2>1, <2>2 DEF RelockHangs, PoolTypes
<1>9. CASE ReturnToPool(t)
  <2>1. ControlTypes'
    BY <1>9, ReturnTypes DEF ReturnToPool, Labels, ReturnLabels
  <2>2. PoolTypes'
    BY <1>9, PoolOps DEF ReturnToPool, PoolTypes
  <2>3. QED
    BY <1>9, <2>1, <2>2 DEF ReturnToPool, PoolTypes
<1>10. CASE PostRecvNoBuffer(t)
  <2>1. ControlTypes'
    BY <1>10, ReturnTypes DEF PostRecvNoBuffer, Labels, ReturnLabels
  <2>2. PoolTypes'
    BY <1>10, PoolOps DEF PostRecvNoBuffer, PoolTypes
  <2>3. QED
    BY <1>10, <2>1, <2>2 DEF PostRecvNoBuffer, PoolTypes
<1>10a. CASE PostRecvAcquires(t)
  <2>1. ControlTypes'
    BY <1>10a, GotoTypes DEF PostRecvAcquires, Labels, ReturnLabels
  <2>2. PoolTypes'
    BY <1>10a, PoolOps DEF PostRecvAcquires, PoolTypes
  <2>3. QED
    BY <1>10a, <2>1, <2>2 DEF PostRecvAcquires, PoolTypes
<1>10b. CASE PostRecvSetsUp(t)
  <2>1. ControlTypes'
    BY <1>10b, GotoTypes DEF PostRecvSetsUp, Labels, ReturnLabels
  <2>2. PoolTypes'
    BY <1>10b, PoolOps DEF PostRecvSetsUp, PoolTypes
  <2>3. QED
    BY <1>10b, <2>1, <2>2 DEF PostRecvSetsUp, PoolTypes
<1>11. CASE PostRecvCall(t)
  <2>1. ControlTypes'
    BY <1>11, GotoTypes, ReturnTypes DEF PostRecvCall, Labels, ReturnLabels
  <2>2. PoolTypes'
    BY <1>11, PoolOps DEF PostRecvCall, PoolTypes
  <2>3. QED
    <3>1. PICK s \in Sessions :
             \/ ops' = ops
             \/ /\ sock[s] \in open
                /\ ops' = ops \cup {[kind |-> "recv", s |-> s, sock |-> sock[s], buf |-> recvOvl[s]]}
      BY <1>11 DEF PostRecvCall, Pends
    <3>2. ops' \subseteq Operations
      BY <3>1 DEF Operations
    <3>3. QED
      BY <1>11, <2>1, <2>2, <3>1, <3>2 DEF PostRecvCall, PoolTypes
<1>12. CASE Unlock(t)
  <2>1. ControlTypes'
    BY <1>12, ReturnTypes DEF Unlock, Labels, ReturnLabels
  <2>2. PoolTypes'
    BY <1>12, PoolOps DEF Unlock, PoolTypes
  <2>3. QED
    BY <1>12, <2>1, <2>2 DEF Unlock, PoolTypes
<1>13. CASE PacketsProcessed(t)
  <2>1. ControlTypes'
    BY <1>13, GotoTypes, ReturnTypes DEF PacketsProcessed, TryPostRecv, Labels, ReturnLabels
  <2>2. PoolTypes'
    BY <1>13, PoolOps DEF PacketsProcessed, PoolTypes
  <2>3. QED
    BY <1>13, <2>1, <2>2 DEF PacketsProcessed, PoolTypes
<1>14. CASE SendLocked(t)
  <2> DEFINE c == job[t].conn
             j == [conn |-> c, n |-> accepted[c] + 1]
  <2>1. PICK s \in Sessions :
          /\ accepted' = [accepted EXCEPT ![c] = @ + 1]
          /\ job' = [job EXCEPT ![t] = NoJob]
          /\ \/ /\ sendQueue' = [sendQueue EXCEPT ![s] = Enqueue(sendQueue[s], j)]
                /\ Return(t)
                /\ UNCHANGED <<freeList, sending, sendOvl, sendMutex, ops, wire>>
             \/ PostSend(t, s, Enqueue(sendQueue[s], j), TRUE)
    BY <1>14 DEF SendLocked
  <2>2. /\ UNCHANGED <<freeIndices, nextId, sock, owner, connected, id, recvOvl, rbuf, csock>>
        /\ UNCHANGED <<open, nextSock, crashed, notified, late>>
    BY <1>14 DEF SendLocked
  <2>3. accepted' \in [Sockets \cup {NoSocket} -> Nat] /\ job' \in [Threads -> Jobs]
    BY <2>1 DEF Jobs, NoJob
  <2>4. Enqueue(sendQueue[s], j) \in Seq(Jobs)
    <3>1. c \in Sockets \cup {NoSocket}
      BY DEF Jobs
    <3>2. j \in Jobs
      BY <3>1 DEF Jobs
    <3>3. QED
      BY <2>1, <3>2, StackPush DEF Enqueue
  <2>5. CASE /\ sendQueue' = [sendQueue EXCEPT ![s] = Enqueue(sendQueue[s], j)]
             /\ Return(t)
             /\ UNCHANGED <<freeList, sending, sendOvl, sendMutex, ops, wire>>
    <3>1. ControlTypes'
      BY <2>5, ReturnTypes
    <3>2. sendQueue' \in [Sessions -> Seq(Jobs)]
      BY <2>4, <2>5
    <3>3. QED
      BY <2>2, <2>3, <2>5, <3>1, <3>2 DEF PoolTypes
  <2>6. CASE PostSend(t, s, Enqueue(sendQueue[s], j), TRUE)
    <3> HIDE DEF c, j
    <3>1. /\ ControlTypes'
          /\ freeList' \in Seq(Buffers)
          /\ sending' \in [Sessions -> BOOLEAN]
          /\ sendQueue' \in [Sessions -> Seq(Jobs)]
          /\ sendOvl' \in [Sessions -> MaybeBuffer]
          /\ sendMutex' \in [Sessions -> Threads \cup {NoThread}]
          /\ ops' \subseteq Operations
          /\ wire' \in [Sockets -> Seq(Jobs)]
      BY <2>4, <2>6, PostSendTypes
    <3>2. QED
      BY <2>2, <2>3, <3>1 DEF PoolTypes
  <2>7. QED
    BY <2>1, <2>5, <2>6
<1>15. CASE SendNext(t)
  <2>1. PICK s \in Sessions : PostSend(t, s, sendQueue[s], sending[s])
    BY <1>15 DEF SendNext
  <2>2. /\ ControlTypes'
        /\ freeList' \in Seq(Buffers)
        /\ sending' \in [Sessions -> BOOLEAN]
        /\ sendQueue' \in [Sessions -> Seq(Jobs)]
        /\ sendOvl' \in [Sessions -> MaybeBuffer]
        /\ sendMutex' \in [Sessions -> Threads \cup {NoThread}]
        /\ ops' \subseteq Operations
        /\ wire' \in [Sockets -> Seq(Jobs)]
    BY <2>1, PostSendTypes
  <2>3. UNCHANGED <<freeIndices, nextId, sock, owner, connected, id, recvOvl, rbuf, csock, job,
                    open, nextSock, crashed, accepted, notified, late>>
    BY <1>15 DEF SendNext
  <2>4. QED
    BY <2>2, <2>3 DEF PoolTypes
<1>16. QED
  BY <1>1, <1>2, <1>3, <1>4, <1>5, <1>6, <1>7, <1>8, <1>9, <1>10, <1>10a, <1>10b, <1>11, <1>12, <1>13, <1>14,
     <1>15 DEF SessionNext

LEMMA PostAcceptTypes ==
  ASSUME TypeOK, NEW rest \in SUBSET Operations, PostAccept(rest)
  PROVE  /\ freeList' \in Seq(Buffers)
         /\ ops' \subseteq Operations
         /\ open' \subseteq Sockets
         /\ nextSock' \in 1..(MaxSockets + 1)
         /\ acceptSock' \in Sockets \cup {NoSocket}
         /\ acceptBuf' \in MaybeBuffer
<1> USE DEF TypeOK, PoolTypes, KernelTypes, ServerTypes, MaybeBuffer
<1>1. CASE /\ acceptSock' = NoSocket /\ ops' = rest
           /\ UNCHANGED <<freeList, acceptBuf, open, nextSock>>
  BY <1>1
<1>2. CASE \E b \in Buffers :
             /\ nextSock <= MaxSockets
             /\ AcquireBuffer(b)
             /\ acceptBuf' = b
             /\ acceptSock' = nextSock
             /\ open' = open \cup {nextSock}
             /\ nextSock' = nextSock + 1
             /\ ops' = rest \cup {[kind |-> "accept", s |-> NoSession, sock |-> nextSock, buf |-> b]}
  <2>1. nextSock \in Sockets
    BY <1>2, BoundsAssumption DEF Sockets
  <2>2. ops' \subseteq Operations
    BY <1>2, <2>1 DEF Operations
  <2>3. nextSock' \in 1..(MaxSockets + 1)
    BY <1>2, BoundsAssumption
  <2>4. QED
    BY <1>2, <2>1, <2>2, <2>3, PoolOps
<1>3. CASE /\ HasFreeBuffer
           /\ acceptBuf' = TopBuffer
           /\ acceptSock' = NoSocket
           /\ ops' = rest
           /\ UNCHANGED <<freeList, open, nextSock>>
  BY <1>3, StackPop DEF TopBuffer, HasFreeBuffer
<1>4. QED
  BY <1>1, <1>2, <1>3 DEF PostAccept

LEMMA ServerTypeStep ==
  ASSUME TypeOK, NEW t \in Threads,
         \/ AcquireSession(t) \/ PoolExhausted(t) \/ Associate(t) \/ ForgetBuffer(t)
         \/ AssociateFails(t)
         \/ WorkerLoops(t) \/ WorkerBreaks(t)
         \/ Completes(t) \/ Chooses(t)
  PROVE  TypeOK'
<1> USE DEF TypeOK, FieldTypes, LocalTypes, KernelTypes, HistoryTypes, ServerTypes,
            poolVars, fieldVars, threadVars, kernelVars, ghostVars, serverVars, MaybeBuffer
<1>1. CASE AcquireSession(t)
  <2>1. ControlTypes'
    BY <1>1, BeginTypes DEF AcquireSession, Labels, ReturnLabels
  <2>2. PoolTypes'
    BY <1>1, PoolOps DEF AcquireSession, PoolTypes
  <2>3. QED
    <3>1. PICK s \in Sessions :
            /\ InitSession(s, csock[t])
            /\ csock' = [csock EXCEPT ![t] = NoSocket]
            /\ nextId' = nextId + 1
      BY <1>1 DEF AcquireSession, PopSession
    <3>2. nextId \in 0..(nextId' - 1) /\ 0..(nextId - 1) \subseteq 0..(nextId' - 1)
      BY <3>1 DEF PoolTypes
    <3>3. FieldTypes'
      BY <3>1, <3>2 DEF InitSession
    <3>4. QED
      BY <1>1, <2>1, <2>2, <3>1, <3>3 DEF AcquireSession
<1>2. CASE PoolExhausted(t)
  <2>1. ControlTypes'
    BY <1>2, ReturnTypes DEF PoolExhausted, Labels, ReturnLabels
  <2>2. PoolTypes'
    BY <1>2, PoolOps DEF PoolExhausted, PoolTypes
  <2>3. QED
    BY <1>2, <2>1, <2>2 DEF PoolExhausted, PoolTypes
<1>3. CASE Associate(t)
  <2>1. ControlTypes'
    BY <1>3, GotoTypes, ReturnTypes DEF Associate, TryPostRecv, Labels, ReturnLabels
  <2>2. PoolTypes'
    BY <1>3, PoolOps DEF Associate, PoolTypes
  <2>3. QED
    BY <1>3, <2>1, <2>2 DEF Associate, PoolTypes
<1>3a. CASE ForgetBuffer(t)
  <2>1. ControlTypes'
    BY <1>3a, GotoTypes, ReturnTypes DEF ForgetBuffer, TryPostRecv, Labels, ReturnLabels
  <2>2. PoolTypes'
    BY <1>3a DEF ForgetBuffer, PoolTypes
  <2>3. QED
    BY <1>3a, <2>1, <2>2 DEF ForgetBuffer, PoolTypes
<1>4. CASE AssociateFails(t)
  <2>1. ControlTypes'
    BY <1>4, CallTypes DEF AssociateFails, Labels, ReturnLabels
  <2>2. PoolTypes'
    BY <1>4, PoolOps DEF AssociateFails, PoolTypes
  <2>3. QED
    BY <1>4, <2>1, <2>2 DEF AssociateFails, PoolTypes
<1>5. CASE WorkerLoops(t)
  <2>1. ControlTypes'
    BY <1>5, GotoTypes DEF WorkerLoops, Labels, ReturnLabels
  <2>2. PoolTypes'
    BY <1>5, PoolOps DEF WorkerLoops, PoolTypes
  <2>3. QED
    BY <1>5, <2>1, <2>2 DEF WorkerLoops, PoolTypes
<1>6. CASE WorkerBreaks(t)
  <2>1. ControlTypes'
    BY <1>6, GotoTypes DEF WorkerBreaks, Labels, ReturnLabels
  <2>2. PoolTypes'
    BY <1>6, PoolOps DEF WorkerBreaks, PoolTypes
  <2>3. QED
    BY <1>6, <2>1, <2>2 DEF WorkerBreaks, PoolTypes
<1>7. CASE AcceptCompletes(t)
  <2>1. ControlTypes'
    BY <1>7, GotoTypes DEF AcceptCompletes, Labels, ReturnLabels
  <2>2. \E rest \in SUBSET Operations : PostAccept(rest)
    BY <1>7 DEF AcceptCompletes
  <2>3. QED
    BY <1>7, <2>1, <2>2, PostAcceptTypes DEF AcceptCompletes, PoolTypes
<1>8. CASE DropCompletion(t)
  <2>1. ControlTypes'
    BY <1>8, GotoTypes DEF DropCompletion, Takes, Labels, ReturnLabels
  <2>2. PoolTypes'
    BY <1>8, PoolOps DEF DropCompletion, Takes, PoolTypes
  <2>3. QED
    BY <1>8, <2>1, <2>2 DEF DropCompletion, Takes, PoolTypes
<1>9. CASE CompletionNullOwner(t)
  <2>1. ControlTypes'
    BY <1>9 DEF CompletionNullOwner, ControlTypes
  <2>2. PoolTypes'
    BY <1>9, PoolOps DEF CompletionNullOwner, Takes, PoolTypes
  <2>3. QED
    BY <1>9, <2>1, <2>2 DEF CompletionNullOwner, Takes, PoolTypes
<1>10. CASE RecvEnds(t)
  <2>1. ControlTypes'
    BY <1>10, BeginTypes DEF RecvEnds, Takes, Operations, Labels, ReturnLabels
  <2>2. PoolTypes'
    BY <1>10, PoolOps DEF RecvEnds, Takes, Operations, PoolTypes
  <2>3. QED
    <3>1. ops' \subseteq ops
      BY <1>10 DEF RecvEnds, Takes
    <3>2. QED
      BY <1>10, <2>1, <2>2, <3>1 DEF RecvEnds, PoolTypes
<1>11. CASE RecvDelivers(t)
  <2>1. ControlTypes'
    BY <1>11, BeginTypes DEF RecvDelivers, Takes, Operations, Labels, ReturnLabels
  <2>2. PoolTypes'
    BY <1>11, PoolOps DEF RecvDelivers, Takes, Operations, PoolTypes
  <2>3. QED
    BY <1>11, <2>1, <2>2 DEF RecvDelivers, Takes, Operations, PoolTypes
<1>12. CASE SendCompletes(t)
  <2>1. ControlTypes'
    BY <1>12, BeginTypes DEF SendCompletes, Takes, Operations, Labels, ReturnLabels
  <2>2. PoolTypes'
    BY <1>12, PoolOps DEF SendCompletes, Takes, Operations, PoolTypes
  <2>3. /\ ops' \subseteq ops
        /\ UNCHANGED <<nextId, fieldVars, rbuf, csock, job, open, nextSock, crashed,
                       ghostVars, serverVars>>
    BY <1>12 DEF SendCompletes, Takes
  <2>4. QED
    BY <2>1, <2>2, <2>3
<1>13. CASE AppConnects(t)
  <2>1. ControlTypes'
    BY <1>13, GotoTypes DEF AppConnects, Labels, ReturnLabels
  <2>2. PoolTypes'
    BY <1>13, PoolOps DEF AppConnects, PoolTypes
  <2>3. QED
    <3>1. nextSock \in Sockets /\ nextSock' \in 1..(MaxSockets + 1)
      BY <1>13, BoundsAssumption DEF AppConnects, Sockets
    <3>2. QED
      BY <1>13, <2>1, <2>2, <3>1 DEF AppConnects, PoolTypes
<1>14. CASE AppSends(t)
  <2>1. ControlTypes'
    BY <1>14, BeginTypes DEF AppSends, Labels, ReturnLabels
  <2>2. PoolTypes'
    BY <1>14, PoolOps DEF AppSends, PoolTypes
  <2>3. QED
    <3>1. PICK s \in Sessions : job' = [job EXCEPT ![t] = [conn |-> sock[s], n |-> 0]]
      BY <1>14 DEF AppSends, BeginsSend
    <3>2. job' \in [Threads -> Jobs]
      BY <3>1 DEF Jobs
    <3>3. QED
      BY <1>14, <2>1, <2>2, <3>2 DEF AppSends, PoolTypes
<1>15. CASE AppDisconnects(t)
  <2>1. ControlTypes'
    BY <1>15, BeginTypes DEF AppDisconnects, Labels, ReturnLabels
  <2>2. PoolTypes'
    BY <1>15, PoolOps DEF AppDisconnects, PoolTypes
  <2>3. QED
    BY <1>15, <2>1, <2>2 DEF AppDisconnects, PoolTypes
<1>16. CASE HandlerSends(t)
  <2>1. ControlTypes'
    BY <1>16, CallTypes DEF HandlerSends, Labels, ReturnLabels
  <2>2. PoolTypes'
    BY <1>16, PoolOps DEF HandlerSends, PoolTypes
  <2>3. QED
    <3>1. PICK s \in Sessions : job' = [job EXCEPT ![t] = [conn |-> sock[s], n |-> 0]]
      BY <1>16 DEF HandlerSends, BeginsSend
    <3>2. job' \in [Threads -> Jobs]
      BY <3>1 DEF Jobs
    <3>3. QED
      BY <1>16, <2>1, <2>2, <3>2 DEF HandlerSends, PoolTypes
<1>17. CASE HandlerDisconnects(t)
  <2>1. ControlTypes'
    BY <1>17, CallTypes DEF HandlerDisconnects, Labels, ReturnLabels
  <2>2. PoolTypes'
    BY <1>17, PoolOps DEF HandlerDisconnects, PoolTypes
  <2>3. QED
    BY <1>17, <2>1, <2>2 DEF HandlerDisconnects, PoolTypes
<1>18. QED
  BY <1>1, <1>2, <1>3, <1>3a, <1>4, <1>5, <1>6, <1>7, <1>8, <1>9, <1>10, <1>11, <1>12, <1>13, <1>14, <1>15, <1>16, <1>17 DEF Completes, Chooses

LEMMA MainTypeStep ==
  ASSUME TypeOK, Start \/ Stop \/ Joined
  PROVE  TypeOK'
<1> USE DEF TypeOK, FieldTypes, LocalTypes, KernelTypes, HistoryTypes, ServerTypes,
            poolVars, fieldVars, threadVars, kernelVars, ghostVars, serverVars, MaybeBuffer
<1>1. CASE Start
  <2>1. ControlTypes'
    BY <1>1 DEF Start, ControlTypes
  <2>2. \E rest \in SUBSET Operations : PostAccept(rest)
    BY <1>1 DEF Start
  <2>3. QED
    BY <1>1, <2>1, <2>2, PostAcceptTypes DEF Start, PoolTypes
<1>2. CASE Stop
  <2>1. ControlTypes'
    BY <1>2 DEF Stop, ControlTypes
  <2>2. PoolTypes'
    BY <1>2, PoolOps DEF Stop, PoolTypes
  <2>3. QED
    <3>1. quits' \in Nat
      BY <1>2, WorkersAssumption, FS_CardinalityType DEF Stop, QuitPackets
    <3>2. QED
      BY <1>2, <2>1, <2>2, <3>1 DEF Stop, PoolTypes
<1>3. CASE Joined
  <2>1. ControlTypes'
    BY <1>3 DEF Joined, ControlTypes
  <2>2. PoolTypes'
    BY <1>3, PoolOps DEF Joined, PoolTypes
  <2>3. QED
    BY <1>3, <2>1, <2>2 DEF Joined, PoolTypes
<1>4. QED
  BY <1>1, <1>2, <1>3

\* The initial state and every step have the types of TypeOK.
LEMMA TypeInit == Init => TypeOK
<1> SUFFICES ASSUME Init PROVE TypeOK
  OBVIOUS
<1> USE DEF Init, SessionInit
<1>1. PoolTypes
  BY NumBuffersAssumption, MaxSessionsAssumption
     DEF PoolTypes, BufferPoolInit, SessionPoolInit, Buffers, Sessions
<1>2. FieldTypes
  BY <1>1 DEF FieldTypes, PoolTypes, MaybeBuffer, NoId, SessionPoolInit
<1>3. ControlTypes /\ LocalTypes
  BY DEF ControlTypes, LocalTypes, Labels, ReturnLabels, MaybeBuffer, Jobs, NoJob
<1>4. KernelTypes
  <2>1. nextSock \in 1..(MaxSockets + 1)
    BY BoundsAssumption
  <2>2. ops \subseteq Operations /\ open \subseteq Sockets
    OBVIOUS
  <2>3. crashed \in BOOLEAN
    OBVIOUS
  <2>4. QED
    BY <2>1, <2>2, <2>3 DEF KernelTypes
<1>5. HistoryTypes
  BY DEF HistoryTypes
<1>6. ServerTypes
  BY DEF ServerTypes, MaybeBuffer
<1>7. QED
  BY <1>1, <1>2, <1>3, <1>4, <1>5, <1>6 DEF TypeOK

LEMMA TypeStutter == TypeOK /\ UNCHANGED vars => TypeOK'
BY DEF TypeOK, PoolTypes, FieldTypes, ControlTypes, LocalTypes, KernelTypes, HistoryTypes,
       ServerTypes, vars, poolVars, fieldVars, threadVars, kernelVars, ghostVars, serverVars

LEMMA TypeStep == TypeOK /\ [Next]_vars => TypeOK'
<1> SUFFICES ASSUME TypeOK, [Next]_vars PROVE TypeOK'
  OBVIOUS
<1>1. CASE UNCHANGED vars
  BY <1>1, TypeStutter
<1>2. ASSUME NEW t \in Threads, Runs(t) \/ Completes(t) \/ Chooses(t)
      PROVE  TypeOK'
  BY <1>2, SessionTypeStep, ServerTypeStep DEF Runs
<1>3. CASE Start \/ Stop \/ Joined
  BY <1>3, MainTypeStep
<1>4. QED
  BY <1>1, <1>2, <1>3 DEF Next

\* Every variable keeps its type in every behaviour, whatever the numbers of
\* threads, sessions, buffers and sockets (IocpServerBase.cpp, Session.cpp).
THEOREM TypeCorrect == Spec => []TypeOK
<1>1. QED
  BY TypeInit, TypeStep, PTL DEF Spec

-----------------------------------------------------------------------------
(* The session pool.  OnePlace is not inductive by itself: a thread that    *)
(* closes a socket must find an owner (or it would forget the session), and *)
(* a call that returns must not come back into the middle of a release.     *)

\* No call returns into a release, which only the double release of a refused
\* association does.
SafeStack ==
  \A t \in Threads :
    /\ pc[t] # "wipe"
    /\ \A i \in 1..Len(stack[t]) : stack[t][i] \in {"process", "unlock"}

\* owner_ is set from Init to the flag part of ResetForReuse.
OwnerKnown ==
  \A s \in Sessions :
    /\ connected[s] => owner[s]
    /\ \A t \in Threads : At(t, "close", s) => owner[s]

PoolInv == TypeOK /\ SafeStack /\ OwnerKnown /\ PoolIntegrity

LEMMA SafeGoto ==
  ASSUME ControlTypes, SafeStack, NEW t \in Threads, NEW l, l # "wipe",
         pc' = [pc EXCEPT ![t] = l], stack' = stack
  PROVE  SafeStack'
BY DEF SafeStack, ControlTypes

LEMMA SafeCall ==
  ASSUME ControlTypes, SafeStack, NEW t \in Threads, NEW l, l # "wipe",
         NEW r \in {"process", "unlock"}, Call(t, l, r)
  PROVE  SafeStack'
<1>1. \A u \in Threads : pc'[u] # "wipe"
  BY DEF Call, SafeStack, ControlTypes
<1>2. ASSUME NEW u \in Threads, NEW i \in 1..Len(stack'[u])
      PROVE  stack'[u][i] \in {"process", "unlock"}
  <2>1. CASE u # t
    BY <1>2, <2>1 DEF Call, SafeStack, ControlTypes
  <2>2. CASE u = t
    <3>1. stack'[u] = Append(stack[t], r) /\ r \in ReturnLabels
      BY <2>2 DEF Call, ControlTypes, ReturnLabels
    <3>2. QED
      BY <1>2, <2>2, <3>1, StackPush DEF SafeStack, ControlTypes
  <2>3. QED
    BY <2>1, <2>2
<1>3. QED
  BY <1>1, <1>2 DEF SafeStack

\* A call that returns goes on at "process", at "unlock" or at the thread's base.
LEMMA SafeReturn ==
  ASSUME ControlTypes, SafeStack, NEW t \in Threads, Return(t)
  PROVE  /\ SafeStack'
         /\ pc' = [pc EXCEPT ![t] = pc'[t]]
         /\ pc'[t] \in {"idle", "process", "unlock"}
         /\ \A u \in Threads \ {t} : cur'[u] = cur[u]
<1>1. CASE stack[t] = <<>>
  <2>1. /\ pc' = [pc EXCEPT ![t] = "idle"] /\ stack' = stack
        /\ cur' = [cur EXCEPT ![t] = NoSession]
    BY <1>1 DEF Return, Begin
  <2>2. SafeStack'
    BY <2>1, SafeGoto
  <2>3. QED
    BY <2>1, <2>2 DEF ControlTypes
<1>2. CASE stack[t] # <<>>
  <2>1. /\ pc' = [pc EXCEPT ![t] = Last(stack[t])]
        /\ stack' = [stack EXCEPT ![t] = Front(stack[t])]
        /\ cur' = cur
    BY <1>2 DEF Return
  <2>2. stack[t] \in Seq(ReturnLabels) /\ Len(stack[t]) \in Nat \ {0}
    BY <1>2 DEF ControlTypes
  <2>3. /\ Last(stack[t]) = stack[t][Len(stack[t])]
        /\ Len(Front(stack[t])) = Len(stack[t]) - 1
        /\ \A i \in 1..(Len(stack[t]) - 1) : Front(stack[t])[i] = stack[t][i]
    BY <1>2, <2>2, StackPop
  <2>4. Last(stack[t]) \in {"process", "unlock"}
    BY <2>2, <2>3 DEF SafeStack
  <2>5. \A i \in 1..Len(Front(stack[t])) : Front(stack[t])[i] \in {"process", "unlock"}
    BY <2>2, <2>3 DEF SafeStack
  <2>6. SafeStack'
    BY <2>1, <2>4, <2>5 DEF SafeStack, ControlTypes
  <2>7. QED
    BY <2>1, <2>4, <2>6 DEF ControlTypes
<1>3. QED
  BY <1>1, <1>2

\* Steps of a thread that holds nothing before and after.
LEMMA EmptyHanded ==
  ASSUME ControlTypes, NEW t \in Threads, pc[t] \notin HoldLabels, pc'[t] \notin HoldLabels,
         pc' = [pc EXCEPT ![t] = pc'[t]],
         \A u \in Threads \ {t} : cur'[u] = cur[u]
  PROVE  \A u \in Threads, s \in Sessions :
           (Holds(u, s)' <=> Holds(u, s)) /\ (At(u, "close", s)' => At(u, "close", s))
BY DEF Holds, At, HoldLabels, ControlTypes

\* Steps of a thread that goes on holding the same session.
LEMMA StillHolding ==
  ASSUME ControlTypes, NEW t \in Threads, NEW l \in HoldLabels \ {"close"},
         pc[t] \in HoldLabels, Goto(t, l)
  PROVE  \A u \in Threads, s \in Sessions :
           (Holds(u, s)' <=> Holds(u, s)) /\ (At(u, "close", s)' => At(u, "close", s))
BY DEF Goto, Holds, At, ControlTypes

\* Steps that move no session.
LEMMA QuietStep ==
  ASSUME PoolInv, UNCHANGED <<freeIndices, connected, owner>>,
         \A u \in Threads, s \in Sessions :
           (Holds(u, s)' <=> Holds(u, s)) /\ (At(u, "close", s)' => At(u, "close", s))
  PROVE  OwnerKnown' /\ PoolIntegrity'
<1>1. OwnerKnown'
  BY DEF PoolInv, OwnerKnown
<1>2. NoDuplicateFree'
  BY DEF PoolInv, PoolIntegrity, NoDuplicateFree
<1>3. \A s \in Sessions : InPool(s)' <=> InPool(s)
  BY DEF InPool
<1>4. OnePlace'
  BY <1>3 DEF PoolInv, PoolIntegrity, OnePlace
<1>5. QED
  BY <1>1, <1>2, <1>4 DEF PoolIntegrity

\* The same, by the way the thread moves.
LEMMA QuietReturn ==
  ASSUME PoolInv, NEW t \in Threads, pc[t] \notin HoldLabels, Return(t),
         UNCHANGED <<freeIndices, connected, owner>>
  PROVE  SafeStack' /\ OwnerKnown' /\ PoolIntegrity'
<1>1. ControlTypes /\ SafeStack
  BY DEF PoolInv, TypeOK
<1>2. /\ SafeStack'
      /\ pc' = [pc EXCEPT ![t] = pc'[t]]
      /\ pc'[t] \in {"idle", "process", "unlock"}
      /\ \A u \in Threads \ {t} : cur'[u] = cur[u]
  BY <1>1, SafeReturn
<1>3. pc'[t] \notin HoldLabels
  BY <1>2 DEF HoldLabels
<1>4. QED
  BY <1>1, <1>2, <1>3, EmptyHanded, QuietStep

LEMMA QuietBegin ==
  ASSUME PoolInv, NEW t \in Threads, pc[t] \notin HoldLabels,
         NEW l, l \notin HoldLabels, NEW s, Begin(t, l, s) \/ Goto(t, l),
         UNCHANGED <<freeIndices, connected, owner>>
  PROVE  SafeStack' /\ OwnerKnown' /\ PoolIntegrity'
<1>1. ControlTypes /\ SafeStack
  BY DEF PoolInv, TypeOK
<1>2. /\ pc' = [pc EXCEPT ![t] = l] /\ stack' = stack /\ l # "wipe"
      /\ \A u \in Threads \ {t} : cur'[u] = cur[u]
  BY <1>1 DEF Begin, Goto, ControlTypes, HoldLabels
<1>3. pc'[t] = l
  BY <1>1, <1>2 DEF ControlTypes
<1>4. QED
  BY <1>1, <1>2, <1>3, SafeGoto, EmptyHanded, QuietStep

LEMMA QuietCall ==
  ASSUME PoolInv, NEW t \in Threads, pc[t] \notin HoldLabels,
         NEW l, l \notin HoldLabels, NEW r \in {"process", "unlock"}, Call(t, l, r),
         UNCHANGED <<freeIndices, connected, owner>>
  PROVE  SafeStack' /\ OwnerKnown' /\ PoolIntegrity'
<1>1. ControlTypes /\ SafeStack
  BY DEF PoolInv, TypeOK
<1>2. /\ pc' = [pc EXCEPT ![t] = l] /\ l # "wipe" /\ cur' = cur
  BY DEF Call, HoldLabels
<1>3. SafeStack' /\ pc'[t] = l
  BY <1>1, <1>2, SafeCall DEF ControlTypes
<1>4. QED
  BY <1>1, <1>2, <1>3, EmptyHanded, QuietStep

LEMMA QuietHold ==
  ASSUME PoolInv, NEW t \in Threads, pc[t] \in HoldLabels,
         NEW l \in HoldLabels \ {"close", "wipe"}, Goto(t, l),
         UNCHANGED <<freeIndices, connected, owner>>
  PROVE  SafeStack' /\ OwnerKnown' /\ PoolIntegrity'
<1>1. ControlTypes /\ SafeStack
  BY DEF PoolInv, TypeOK
<1>2. SafeStack'
  BY <1>1, SafeGoto DEF Goto
<1>3. QED
  BY <1>1, <1>2, StillHolding, QuietStep

LEMMA QuietStutter ==
  ASSUME PoolInv, UNCHANGED <<pc, stack, cur, freeIndices, connected, owner>>
  PROVE  SafeStack' /\ OwnerKnown' /\ PoolIntegrity'
<1>1. SafeStack'
  BY DEF PoolInv, SafeStack
<1>2. \A u \in Threads, s \in Sessions :
        (Holds(u, s)' <=> Holds(u, s)) /\ (At(u, "close", s)' => At(u, "close", s))
  BY DEF Holds, At
<1>3. QED
  BY <1>1, <1>2, QuietStep

\* The thread that wins the exchange takes the session from its connection.
LEMMA WinsStep ==
  ASSUME PoolInv, NEW t \in Threads, DisconnectWins(t)
  PROVE  SafeStack' /\ OwnerKnown' /\ PoolIntegrity'
<1>1. PICK s \in Sessions :
        /\ At(t, "disconnect", s) /\ connected[s]
        /\ connected' = [connected EXCEPT ![s] = FALSE]
        /\ Goto(t, "close")
        /\ UNCHANGED <<freeIndices, owner>>
  BY DEF DisconnectWins, WinsExchange
<1>2. ControlTypes /\ SafeStack /\ FieldTypes /\ OwnerKnown /\ NoDuplicateFree /\ OnePlace
  BY DEF PoolInv, TypeOK, PoolIntegrity
<1>3. SafeStack'
  BY <1>1, <1>2, SafeGoto DEF Goto
<1>4. /\ \A u \in Threads, r \in Sessions :
           Holds(u, r)' <=> (Holds(u, r) \/ (u = t /\ r = s))
      /\ \A u \in Threads, r \in Sessions :
           At(u, "close", r)' => (At(u, "close", r) \/ (u = t /\ r = s))
  BY <1>1, <1>2 DEF Goto, Holds, At, HoldLabels, ControlTypes
<1>5. OwnerKnown'
  BY <1>1, <1>2, <1>4 DEF OwnerKnown, FieldTypes
<1>6. \A r \in Sessions : InPool(r)' <=> InPool(r)
  BY <1>1 DEF InPool
<1>7. OnePlace'
  BY <1>1, <1>2, <1>4, <1>6 DEF OnePlace, FieldTypes
<1>8. NoDuplicateFree'
  BY <1>1, <1>2 DEF NoDuplicateFree
<1>9. QED
  BY <1>3, <1>5, <1>7, <1>8 DEF PoolIntegrity

\* The flags are wiped by the only thread that holds the session.
LEMMA WipeStep ==
  ASSUME PoolInv, NEW t \in Threads, ReleaseWipes(t)
  PROVE  SafeStack' /\ OwnerKnown' /\ PoolIntegrity'
<1>1. PICK s \in Sessions :
        /\ Holds(t, s)
        /\ owner' = [owner EXCEPT ![s] = FALSE]
        /\ connected' = [connected EXCEPT ![s] = FALSE]
        /\ Goto(t, "reset")
        /\ UNCHANGED freeIndices
  BY DEF ReleaseWipes, WipeFields, Holds, At, HoldLabels
<1>2. ControlTypes /\ SafeStack /\ FieldTypes /\ OwnerKnown /\ NoDuplicateFree /\ OnePlace
  BY DEF PoolInv, TypeOK, PoolIntegrity
<1>3. SafeStack'
  BY <1>1, <1>2, SafeGoto DEF Goto
<1>4. connected' = connected
  BY <1>1, <1>2 DEF OnePlace, FieldTypes
<1>5. /\ \A u \in Threads, r \in Sessions : Holds(u, r)' <=> Holds(u, r)
      /\ \A u \in Threads, r \in Sessions : At(u, "close", r)' => At(u, "close", r) /\ u # t
  BY <1>1, <1>2 DEF Goto, Holds, At, HoldLabels, ControlTypes
<1>6. \A u \in Threads : At(u, "close", s) => u = t
  BY <1>1, <1>2 DEF OnePlace, Holds, At, HoldLabels
<1>7. ~connected[s]
  BY <1>1, <1>2 DEF OnePlace
<1>8. OwnerKnown'
  BY <1>1, <1>2, <1>4, <1>5, <1>6, <1>7 DEF OwnerKnown, FieldTypes
<1>9. \A r \in Sessions : InPool(r)' <=> InPool(r)
  BY <1>1 DEF InPool
<1>10. OnePlace'
  BY <1>2, <1>4, <1>5, <1>9 DEF OnePlace
<1>11. NoDuplicateFree'
  BY <1>1, <1>2 DEF NoDuplicateFree
<1>12. QED
  BY <1>3, <1>8, <1>10, <1>11 DEF PoolIntegrity

\* The index of a session held by one thread is not on the stack: pushing it
\* makes no duplicate.
LEMMA PushStep ==
  ASSUME PoolInv, NEW t \in Threads, ReturnToPool(t)
  PROVE  SafeStack' /\ OwnerKnown' /\ PoolIntegrity'
<1>1. PICK s \in Sessions :
        /\ At(t, "push", s)
        /\ freeIndices' = Append(freeIndices, s)
        /\ Return(t)
        /\ UNCHANGED <<connected, owner>>
  BY DEF ReturnToPool, PushSession, fieldVars
<1>2. /\ ControlTypes /\ SafeStack /\ OwnerKnown /\ NoDuplicateFree /\ OnePlace
      /\ freeIndices \in Seq(Sessions)
  BY DEF PoolInv, TypeOK, PoolIntegrity, PoolTypes
<1>3. /\ SafeStack'
      /\ pc' = [pc EXCEPT ![t] = pc'[t]]
      /\ pc'[t] \in {"idle", "process", "unlock"}
      /\ \A u \in Threads \ {t} : cur'[u] = cur[u]
  BY <1>1, <1>2, SafeReturn
<1>4. /\ \A u \in Threads, r \in Sessions : Holds(u, r)' <=> (Holds(u, r) /\ u # t)
      /\ \A u \in Threads, r \in Sessions : At(u, "close", r)' => At(u, "close", r)
  BY <1>2, <1>3 DEF Holds, At, HoldLabels, ControlTypes
<1>5. Holds(t, s) /\ ~InPool(s) /\ ~connected[s]
  BY <1>1, <1>2 DEF Holds, At, HoldLabels, OnePlace
<1>6. /\ Len(freeIndices') = Len(freeIndices) + 1
      /\ freeIndices'[Len(freeIndices) + 1] = s
      /\ \A i \in 1..Len(freeIndices) : freeIndices'[i] = freeIndices[i]
      /\ Len(freeIndices) \in Nat
  BY <1>1, <1>2, StackPush
<1>7. \A r \in Sessions : InPool(r)' <=> (InPool(r) \/ r = s)
  <2>1. \A i \in 1..Len(freeIndices') : i \in 1..Len(freeIndices) \/ i = Len(freeIndices) + 1
    BY <1>6
  <2>2. 1..Len(freeIndices) \subseteq 1..Len(freeIndices') /\ Len(freeIndices) + 1 \in 1..Len(freeIndices')
    BY <1>6
  <2>3. QED
    BY <1>6, <2>1, <2>2 DEF InPool
<1>8. NoDuplicateFree'
  <2>1. \A i \in 1..Len(freeIndices) : freeIndices[i] # s
    BY <1>5 DEF InPool
  <2>2. \A i \in 1..Len(freeIndices') : i \in 1..Len(freeIndices) \/ i = Len(freeIndices) + 1
    BY <1>6
  <2>3. QED
    BY <1>2, <1>6, <2>1, <2>2 DEF NoDuplicateFree
<1>9. OnePlace'
  <2>1. ASSUME NEW u \in Threads, Holds(u, s) PROVE u = t
    BY <1>2, <1>5, <2>1 DEF OnePlace
  <2>2. SUFFICES ASSUME NEW r \in Sessions
                 PROVE  /\ connected[r] \/ InPool(r)' \/ \E u \in Threads : Holds(u, r)'
                        /\ ~(connected[r] /\ InPool(r)')
                        /\ \A u \in Threads : Holds(u, r)' => ~connected[r] /\ ~InPool(r)'
                        /\ \A u, v \in Threads : Holds(u, r)' /\ Holds(v, r)' => u = v
    BY <1>1 DEF OnePlace
  <2>3. CASE r = s
    BY <1>4, <1>5, <1>7, <2>1, <2>3
  <2>4. CASE r # s
    <3>1. InPool(r)' <=> InPool(r)
      BY <1>7, <2>4
    <3>2. /\ connected[r] \/ InPool(r) \/ \E u \in Threads : Holds(u, r)
          /\ ~(connected[r] /\ InPool(r))
          /\ \A u \in Threads : Holds(u, r) => ~connected[r] /\ ~InPool(r)
          /\ \A u, v \in Threads : Holds(u, r) /\ Holds(v, r) => u = v
      BY <1>2 DEF OnePlace
    <3>3. ~Holds(t, r)
      BY <1>5, <2>4 DEF Holds
    <3>4. \A u \in Threads : Holds(u, r)' <=> Holds(u, r)
      BY <1>4, <3>3
    <3>5. QED
      BY <3>1, <3>2, <3>4
  <2>5. QED
    BY <2>3, <2>4
<1>10. OwnerKnown'
  BY <1>1, <1>2, <1>4 DEF OwnerKnown
<1>11. QED
  BY <1>3, <1>8, <1>9, <1>10 DEF PoolIntegrity

LEMMA PoolSessionStep ==
  ASSUME PoolInv, NEW t \in Threads, SessionNext(t)
  PROVE  SafeStack' /\ OwnerKnown' /\ PoolIntegrity'
<1> USE DEF fieldVars, threadVars, kernelVars, ghostVars
<1>1. CASE NullOwner(t)
  BY <1>1, QuietStutter DEF NullOwner
<1>2. CASE DisconnectLoses(t)
  BY <1>2, QuietReturn DEF DisconnectLoses, At, HoldLabels
<1>3. CASE DisconnectWins(t)
  BY <1>3, WinsStep
<1>4. CASE CloseSocket(t)
  <2>1. PICK s \in Sessions : At(t, "close", s)
    BY <1>4 DEF CloseSocket
  <2>2. owner[s]
    BY <2>1 DEF PoolInv, OwnerKnown
  <2>3. Goto(t, "release") /\ UNCHANGED <<freeIndices, connected, owner>>
    BY <1>4, <2>1, <2>2 DEF CloseSocket, At
  <2>4. QED
    BY <2>1, <2>3, QuietHold DEF At, HoldLabels
<1>5. CASE ReleaseDisconnects(t)
  <2>1. PICK s \in Sessions : At(t, "release", s) /\ connected[s]
    BY <1>5 DEF ReleaseDisconnects, WinsExchange
  <2>2. Holds(t, s)
    BY <2>1 DEF At, Holds, HoldLabels
  <2>3. QED
    BY <2>1, <2>2 DEF PoolInv, PoolIntegrity, OnePlace
<1>6. CASE ReleaseWipes(t)
  BY <1>6, WipeStep
<1>7. CASE ResetSession(t)
  BY <1>7, QuietHold DEF ResetSession, At, HoldLabels
<1>8. CASE RelockHangs(t)
  BY <1>8, QuietHold DEF RelockHangs, At, HoldLabels
<1>9. CASE ReturnToPool(t)
  BY <1>9, PushStep
<1>10. CASE PostRecvNoBuffer(t)
  BY <1>10, QuietReturn DEF PostRecvNoBuffer, At, HoldLabels
<1>10a. CASE PostRecvAcquires(t)
  BY <1>10a, QuietBegin DEF PostRecvAcquires, At, HoldLabels
<1>10b. CASE PostRecvSetsUp(t)
  BY <1>10b, QuietBegin DEF PostRecvSetsUp, At, HoldLabels
<1>11. CASE PostRecvCall(t)
  <2>1. pc[t] \notin HoldLabels /\ "disconnect" \notin HoldLabels
    BY <1>11 DEF PostRecvCall, At, HoldLabels
  <2>2. Return(t) \/ Goto(t, "disconnect")
    BY <1>11 DEF PostRecvCall
  <2>3. UNCHANGED <<freeIndices, connected, owner>>
    BY <1>11 DEF PostRecvCall
  <2>4. QED
    BY <2>1, <2>2, <2>3, QuietReturn, QuietBegin
<1>12. CASE SendLocked(t)
  <2>1. pc[t] \notin HoldLabels /\ "disconnect" \notin HoldLabels
    BY <1>12 DEF SendLocked, At, HoldLabels
  <2>2. Return(t) \/ Call(t, "disconnect", "unlock")
    BY <1>12 DEF SendLocked, PostSend
  <2>3. UNCHANGED <<freeIndices, connected, owner>>
    BY <1>12 DEF SendLocked
  <2>4. QED
    BY <2>1, <2>2, <2>3, QuietReturn, QuietCall
<1>13. CASE SendNext(t)
  <2>1. pc[t] \notin HoldLabels /\ "disconnect" \notin HoldLabels
    BY <1>13 DEF SendNext, At, HoldLabels
  <2>2. Return(t) \/ Call(t, "disconnect", "unlock")
    BY <1>13 DEF SendNext, PostSend
  <2>3. UNCHANGED <<freeIndices, connected, owner>>
    BY <1>13 DEF SendNext
  <2>4. QED
    BY <2>1, <2>2, <2>3, QuietReturn, QuietCall
<1>14. CASE Unlock(t)
  BY <1>14, QuietReturn DEF Unlock, At, HoldLabels
<1>15. CASE PacketsProcessed(t)
  <2>1. pc[t] \notin HoldLabels /\ "postRecv" \notin HoldLabels
    BY <1>15 DEF PacketsProcessed, At, HoldLabels
  <2>2. Return(t) \/ Goto(t, "postRecv")
    BY <1>15 DEF PacketsProcessed, TryPostRecv
  <2>3. UNCHANGED <<freeIndices, connected, owner>>
    BY <1>15 DEF PacketsProcessed
  <2>4. QED
    BY <2>1, <2>2, <2>3, QuietReturn, QuietBegin
<1>16. QED
  BY <1>1, <1>2, <1>3, <1>4, <1>5, <1>6, <1>7, <1>8, <1>9, <1>10, <1>10a, <1>10b, <1>11, <1>12, <1>13, <1>14,
     <1>15 DEF SessionNext

\* SessionPool::Acquire: the popped index leaves the stack, where it was once,
\* and its session is connected from then on.
LEMMA PopStep ==
  ASSUME PoolInv, NEW t \in Threads, AcquireSession(t)
  PROVE  SafeStack' /\ OwnerKnown' /\ PoolIntegrity'
<1>1. PICK s \in Sessions :
        /\ pc[t] = "acquire"
        /\ freeIndices # <<>> /\ s = Last(freeIndices)
        /\ freeIndices' = Front(freeIndices)
        /\ owner' = [owner EXCEPT ![s] = TRUE]
        /\ connected' = [connected EXCEPT ![s] = TRUE]
        /\ Begin(t, "associate", s)
  BY DEF AcquireSession, PopSession, HasFreeSession, InitSession
<1>2. /\ ControlTypes /\ SafeStack /\ OwnerKnown /\ NoDuplicateFree /\ OnePlace
      /\ FieldTypes /\ freeIndices \in Seq(Sessions)
  BY DEF PoolInv, TypeOK, PoolIntegrity, PoolTypes
<1>3. SafeStack'
  BY <1>1, <1>2, SafeGoto DEF Begin
<1>4. \A u \in Threads, r \in Sessions :
        (Holds(u, r)' <=> Holds(u, r)) /\ (At(u, "close", r)' => At(u, "close", r))
  BY <1>1, <1>2, EmptyHanded DEF Begin, HoldLabels, ControlTypes
<1>5. /\ Len(freeIndices) \in Nat \ {0} /\ s = freeIndices[Len(freeIndices)]
      /\ Len(freeIndices') = Len(freeIndices) - 1
      /\ \A i \in 1..(Len(freeIndices) - 1) : freeIndices'[i] = freeIndices[i]
  BY <1>1, <1>2, StackPop
<1>6. \A r \in Sessions : InPool(r)' <=> (InPool(r) /\ r # s)
  <2>1. \A i \in 1..Len(freeIndices') : i \in 1..Len(freeIndices) /\ i # Len(freeIndices)
    BY <1>5
  <2>2. \A i \in 1..Len(freeIndices) : i # Len(freeIndices) => i \in 1..Len(freeIndices')
    BY <1>5
  <2>3. Len(freeIndices) \in 1..Len(freeIndices)
    BY <1>5
  <2>4. \A i \in 1..Len(freeIndices') : freeIndices'[i] # s
    BY <1>2, <1>5, <2>1, <2>3 DEF NoDuplicateFree
  <2>5. \A i \in 1..Len(freeIndices') : freeIndices'[i] = freeIndices[i]
    BY <1>5
  <2>6. QED
    BY <1>5, <2>1, <2>2, <2>4, <2>5 DEF InPool
<1>7. NoDuplicateFree'
  <2>1. \A i \in 1..Len(freeIndices') : i \in 1..Len(freeIndices) /\ freeIndices'[i] = freeIndices[i]
    BY <1>5
  <2>2. QED
    BY <1>2, <2>1 DEF NoDuplicateFree
<1>8. InPool(s)
  <2>1. Len(freeIndices) \in 1..Len(freeIndices)
    BY <1>5
  <2>2. QED
    BY <1>5, <2>1 DEF InPool
<1>9. OwnerKnown'
  BY <1>1, <1>2, <1>4 DEF OwnerKnown, FieldTypes
<1>10. OnePlace'
  <2>1. \A r \in Sessions : connected'[r] = (IF r = s THEN TRUE ELSE connected[r])
    BY <1>1, <1>2 DEF FieldTypes
  <2>2. \A u \in Threads : ~Holds(u, s)
    BY <1>2, <1>8 DEF OnePlace
  <2>3. SUFFICES ASSUME NEW r \in Sessions
                 PROVE  /\ connected'[r] \/ InPool(r)' \/ \E u \in Threads : Holds(u, r)'
                        /\ ~(connected'[r] /\ InPool(r)')
                        /\ \A u \in Threads : Holds(u, r)' => ~connected'[r] /\ ~InPool(r)'
                        /\ \A u, v \in Threads : Holds(u, r)' /\ Holds(v, r)' => u = v
    BY DEF OnePlace
  <2>4. CASE r = s
    BY <1>4, <1>6, <2>1, <2>2, <2>4
  <2>5. CASE r # s
    <3>1. (InPool(r)' <=> InPool(r)) /\ connected'[r] = connected[r]
      BY <1>6, <2>1, <2>5
    <3>2. /\ connected[r] \/ InPool(r) \/ \E u \in Threads : Holds(u, r)
          /\ ~(connected[r] /\ InPool(r))
          /\ \A u \in Threads : Holds(u, r) => ~connected[r] /\ ~InPool(r)
          /\ \A u, v \in Threads : Holds(u, r) /\ Holds(v, r) => u = v
      BY <1>2 DEF OnePlace
    <3>3. \A u \in Threads : Holds(u, r)' <=> Holds(u, r)
      BY <1>4
    <3>4. QED
      BY <3>1, <3>2, <3>3
  <2>6. QED
    BY <2>4, <2>5
<1>11. QED
  BY <1>3, <1>7, <1>9, <1>10 DEF PoolIntegrity

LEMMA PoolServerStep ==
  ASSUME PoolInv, ~AssocMayFail, NEW t \in Threads,
         \/ AcquireSession(t) \/ PoolExhausted(t) \/ Associate(t) \/ ForgetBuffer(t)
         \/ AssociateFails(t)
         \/ WorkerLoops(t) \/ WorkerBreaks(t) \/ Completes(t) \/ Chooses(t)
  PROVE  SafeStack' /\ OwnerKnown' /\ PoolIntegrity'
<1> USE DEF poolVars, fieldVars, threadVars
<1>1. CASE AcquireSession(t)
  BY <1>1, PopStep
<1>2. CASE PoolExhausted(t)
  BY <1>2, QuietReturn DEF PoolExhausted, HoldLabels
<1>3. CASE Associate(t)
  <2>1. pc[t] \notin HoldLabels /\ "postRecv" \notin HoldLabels /\ "forget" \notin HoldLabels
    BY <1>3 DEF Associate, At, HoldLabels
  <2>2. Return(t) \/ Goto(t, "postRecv") \/ Goto(t, "forget")
    BY <1>3 DEF Associate, TryPostRecv
  <2>3. UNCHANGED <<freeIndices, connected, owner>>
    BY <1>3 DEF Associate
  <2>4. QED
    BY <2>1, <2>2, <2>3, QuietReturn, QuietBegin
<1>3a. CASE ForgetBuffer(t)
  <2>1. pc[t] \notin HoldLabels /\ "postRecv" \notin HoldLabels
    BY <1>3a DEF ForgetBuffer, At, HoldLabels
  <2>2. Return(t) \/ Goto(t, "postRecv")
    BY <1>3a DEF ForgetBuffer, TryPostRecv
  <2>3. UNCHANGED <<freeIndices, connected, owner>>
    BY <1>3a DEF ForgetBuffer
  <2>4. QED
    BY <2>1, <2>2, <2>3, QuietReturn, QuietBegin
<1>4. CASE AssociateFails(t)
  BY <1>4 DEF AssociateFails
<1>5. CASE WorkerLoops(t)
  <2>1. pc[t] \notin HoldLabels /\ "wait" \notin HoldLabels /\ "exited" \notin HoldLabels
    BY <1>5 DEF WorkerLoops, HoldLabels
  <2>2. Goto(t, "wait") \/ Goto(t, "exited")
    BY <1>5 DEF WorkerLoops
  <2>3. UNCHANGED <<freeIndices, connected, owner>>
    BY <1>5 DEF WorkerLoops
  <2>4. QED
    BY <2>1, <2>2, <2>3, QuietBegin
<1>6. CASE WorkerBreaks(t)
  BY <1>6, QuietBegin DEF WorkerBreaks, HoldLabels
<1>7. CASE AcceptCompletes(t)
  BY <1>7, QuietBegin DEF AcceptCompletes, HoldLabels
<1>8. CASE DropCompletion(t)
  BY <1>8, QuietBegin DEF DropCompletion, Takes, HoldLabels
<1>9. CASE CompletionNullOwner(t)
  BY <1>9, QuietStutter DEF CompletionNullOwner
<1>10. CASE RecvEnds(t)
  BY <1>10, QuietBegin DEF RecvEnds, Takes, HoldLabels
<1>11. CASE RecvDelivers(t)
  BY <1>11, QuietBegin DEF RecvDelivers, Takes, HoldLabels
<1>12. CASE SendCompletes(t)
  BY <1>12, QuietBegin DEF SendCompletes, Takes, HoldLabels
<1>13. CASE AppConnects(t)
  BY <1>13, QuietBegin DEF AppConnects, HoldLabels
<1>14. CASE AppSends(t)
  BY <1>14, QuietBegin DEF AppSends, HoldLabels
<1>15. CASE AppDisconnects(t)
  BY <1>15, QuietBegin DEF AppDisconnects, HoldLabels
<1>16. CASE HandlerSends(t)
  BY <1>16, QuietCall DEF HandlerSends, At, HoldLabels
<1>17. CASE HandlerDisconnects(t)
  BY <1>17, QuietCall DEF HandlerDisconnects, At, HoldLabels
<1>18. QED
  BY <1>1, <1>2, <1>3, <1>3a, <1>4, <1>5, <1>6, <1>7, <1>8, <1>9, <1>10, <1>11, <1>12, <1>13,
     <1>14, <1>15, <1>16, <1>17 DEF Completes, Chooses

LEMMA PoolInit == Init => PoolInv
<1> SUFFICES ASSUME Init PROVE PoolInv
  OBVIOUS
<1>1. TypeOK
  BY TypeInit
<1>2. /\ freeIndices = [i \in 1..MaxSessions |-> i]
      /\ owner = [s \in Sessions |-> FALSE] /\ connected = [s \in Sessions |-> FALSE]
      /\ pc = [t \in Threads |-> "idle"] /\ stack = [t \in Threads |-> <<>>]
  BY DEF Init, SessionInit, SessionPoolInit
<1>3. Len(freeIndices) = MaxSessions
  BY <1>2, MaxSessionsAssumption
<1>4. SafeStack /\ OwnerKnown
  BY <1>2 DEF SafeStack, OwnerKnown, At
<1>5. NoDuplicateFree
  BY <1>2, <1>3 DEF NoDuplicateFree
<1>6. \A s \in Sessions : InPool(s)
  BY <1>2, <1>3 DEF InPool, Sessions
<1>7. \A t \in Threads, s \in Sessions : ~Holds(t, s)
  BY <1>2 DEF Holds, HoldLabels
<1>8. OnePlace
  BY <1>2, <1>6, <1>7 DEF OnePlace
<1>9. QED
  BY <1>1, <1>4, <1>5, <1>8 DEF PoolInv, PoolIntegrity

LEMMA PoolStep == PoolInv /\ ~AssocMayFail /\ [Next]_vars => PoolInv'
<1> SUFFICES ASSUME PoolInv, ~AssocMayFail, [Next]_vars PROVE PoolInv'
  OBVIOUS
<1>1. TypeOK'
  BY TypeStep DEF PoolInv
<1>2. CASE UNCHANGED vars
  <2>1. UNCHANGED <<pc, stack, cur, freeIndices, connected, owner>>
    BY <1>2 DEF vars, poolVars, fieldVars, threadVars
  <2>2. QED
    BY <1>1, <2>1, QuietStutter DEF PoolInv
<1>3. CASE Start \/ Stop \/ Joined
  <2>1. UNCHANGED <<pc, stack, cur, freeIndices, connected, owner>>
    BY <1>3 DEF Start, Stop, Joined, poolVars, fieldVars, threadVars
  <2>2. QED
    BY <1>1, <2>1, QuietStutter DEF PoolInv
<1>4. ASSUME NEW t \in Threads, Runs(t) \/ Completes(t) \/ Chooses(t)
      PROVE  PoolInv'
  BY <1>1, <1>4, PoolSessionStep, PoolServerStep DEF Runs, PoolInv
<1>5. QED
  BY <1>2, <1>3, <1>4 DEF Next

\* As long as every accepted socket can be associated with the completion port,
\* no session is lost, handed out twice or freed twice, for any number of
\* workers, application threads, sessions, buffers and connections
\* (Session::Disconnect, ResetForReuse, SessionPool::Acquire and Release).
THEOREM PoolSafe ==
  ASSUME ~AssocMayFail
  PROVE  Spec => []PoolIntegrity
<1>1. Init => PoolInv
  BY PoolInit
<1>2. PoolInv /\ [Next]_vars => PoolInv'
  BY PoolStep
<1>3. PoolInv => PoolIntegrity
  BY DEF PoolInv
<1>4. QED
  BY <1>1, <1>2, <1>3, PTL DEF Spec

-----------------------------------------------------------------------------
(* The life of a connection.  A connected session, and one whose socket is  *)
(* about to be closed, has a socket, and its id was not reported; a thread  *)
(* past the close, and the pool, have none.                                 *)

\* One accept is outstanding, on the socket PostAccept made for it.
AcceptInv ==
  /\ \A o \in ops : o.kind = "accept" => o.sock = acceptSock
  /\ \A o, p \in ops : o.kind = "accept" /\ p.kind = "accept" => o = p
  /\ \A t \in Threads : pc[t] = "acquire" => csock[t] # NoSocket

SocketInv ==
  /\ \A s \in Sessions : connected[s] => sock[s] # NoSocket
  /\ \A t \in Threads, s \in Sessions : At(t, "close", s) => sock[s] # NoSocket
  /\ \A s \in Sessions : InPool(s) => sock[s] = NoSocket
  /\ \A t \in Threads, s \in Sessions : Holds(t, s) /\ pc[t] # "close" => sock[s] = NoSocket

IdInv ==
  /\ \A s \in Sessions : sock[s] # NoSocket => id[s] # NoId /\ id[s] \notin Range(notified)
  /\ \A r, s \in Sessions : id[r] = id[s] /\ id[s] # NoId => r = s
  /\ \A i \in 1..Len(notified) : notified[i] \in 1..(nextId - 1)
  /\ \A i, j \in 1..Len(notified) : notified[i] = notified[j] => i = j

LifeInv == PoolInv /\ AcceptInv /\ SocketInv /\ IdInv

\* What LifeInv is about besides threads and accepts.
lifeVars == <<connected, freeIndices, sock, id, notified, nextId>>

\* Thread t takes no session and goes on with the one it holds, if any.
Calm(t) ==
  /\ \A u \in Threads \ {t} : pc'[u] = pc[u] /\ cur'[u] = cur[u]
  /\ \/ pc'[t] \notin HoldLabels
     \/ pc[t] \in HoldLabels \ {"close"} /\ pc'[t] # "close" /\ cur'[t] = cur[t]
     \/ pc'[t] = pc[t] /\ cur'[t] = cur[t]

\* No accept is posted, and no thread is on its way to AcquireSession.
NoAccept ==
  /\ acceptSock' = acceptSock
  /\ \A o \in ops' : o.kind = "accept" => o \in ops
  /\ \A t \in Threads : pc'[t] = "acquire" => pc[t] = "acquire" /\ csock'[t] = csock[t]

LEMMA CalmReturn ==
  ASSUME PoolInv, NEW t \in Threads, Return(t)
  PROVE  /\ Calm(t) /\ pc'[t] \in {"idle", "process", "unlock"}
         /\ \A u \in Threads \ {t} : pc'[u] = pc[u]
<1>1. ControlTypes /\ SafeStack
  BY DEF PoolInv, TypeOK
<1>2. /\ pc' = [pc EXCEPT ![t] = pc'[t]]
      /\ pc'[t] \in {"idle", "process", "unlock"}
      /\ \A u \in Threads \ {t} : cur'[u] = cur[u]
  BY <1>1, SafeReturn
<1>3. \A u \in Threads \ {t} : pc'[u] = pc[u]
  BY <1>1, <1>2 DEF ControlTypes
<1>4. pc'[t] \notin HoldLabels
  BY <1>2 DEF HoldLabels
<1>5. QED
  BY <1>2, <1>3, <1>4 DEF Calm

LEMMA CalmMove ==
  ASSUME PoolInv, NEW t \in Threads, NEW l, NEW s, NEW r,
         Begin(t, l, s) \/ Goto(t, l) \/ Call(t, l, r), l \notin HoldLabels
  PROVE  Calm(t) /\ pc'[t] = l /\ \A u \in Threads \ {t} : pc'[u] = pc[u]
BY DEF PoolInv, TypeOK, ControlTypes, Begin, Goto, Call, Calm

LEMMA CalmHold ==
  ASSUME PoolInv, NEW t \in Threads, NEW l, pc[t] \in HoldLabels \ {"close"}, Goto(t, l), l # "close"
  PROVE  Calm(t) /\ pc'[t] = l /\ \A u \in Threads \ {t} : pc'[u] = pc[u]
BY DEF PoolInv, TypeOK, ControlTypes, Goto, Calm

LEMMA CalmStutter ==
  ASSUME NEW t, UNCHANGED <<pc, cur>>
  PROVE  Calm(t)
BY DEF Calm

\* The accepts are left alone by a thread that does not go to "acquire".
LEMMA NoAcceptBy ==
  ASSUME PoolInv, NEW t \in Threads, pc'[t] # "acquire",
         \A u \in Threads \ {t} : pc'[u] = pc[u],
         csock' = csock \/ csock' = [csock EXCEPT ![t] = NoSocket],
         acceptSock' = acceptSock, \A o \in ops' : o.kind = "accept" => o \in ops
  PROVE  NoAccept
BY DEF PoolInv, TypeOK, LocalTypes, NoAccept

LEMMA CalmAccepts ==
  ASSUME AcceptInv, NoAccept
  PROVE  AcceptInv'
BY DEF AcceptInv, NoAccept

LEMMA CalmLife ==
  ASSUME LifeInv, NEW t \in Threads, Calm(t), UNCHANGED lifeVars
  PROVE  SocketInv' /\ IdInv'
<1>1. UNCHANGED <<connected, freeIndices, sock, id, notified, nextId>>
  BY DEF lifeVars
<1>2. \A u \in Threads, s \in Sessions : At(u, "close", s)' => At(u, "close", s)
  BY DEF Calm, At, HoldLabels
<1>3. \A u \in Threads, s \in Sessions :
        (Holds(u, s)' /\ pc'[u] # "close") => (Holds(u, s) /\ pc[u] # "close")
  BY DEF Calm, Holds
<1>4. \A s \in Sessions : InPool(s)' <=> InPool(s)
  BY <1>1 DEF InPool
<1>5. SocketInv'
  BY <1>1, <1>2, <1>3, <1>4 DEF LifeInv, SocketInv
<1>6. IdInv'
  BY <1>1 DEF LifeInv, IdInv
<1>7. QED
  BY <1>5, <1>6

\* The quiet steps: neither the life of a session nor an accept moves on.
Quiet(t) == Calm(t) /\ NoAccept /\ UNCHANGED lifeVars

\* The variables, besides the thread's, of a quiet step.
Aside(t) ==
  /\ UNCHANGED lifeVars
  /\ csock' = csock \/ csock' = [csock EXCEPT ![t] = NoSocket]
  /\ acceptSock' = acceptSock
  /\ \A o \in ops' : o.kind = "accept" => o \in ops

LEMMA ReturnsQuietly ==
  ASSUME PoolInv, NEW t \in Threads, Aside(t), Return(t)
  PROVE  Quiet(t)
<1>1. Calm(t) /\ pc'[t] # "acquire" /\ \A u \in Threads \ {t} : pc'[u] = pc[u]
  BY CalmReturn
<1>2. QED
  BY <1>1, NoAcceptBy DEF Quiet, Aside

LEMMA GoesQuietly ==
  ASSUME PoolInv, NEW t \in Threads, Aside(t), NEW l, Goto(t, l),
         l \notin HoldLabels, l # "acquire"
  PROVE  Quiet(t)
<1>1. Calm(t) /\ pc'[t] # "acquire" /\ \A u \in Threads \ {t} : pc'[u] = pc[u]
  BY CalmMove
<1>2. QED
  BY <1>1, NoAcceptBy DEF Quiet, Aside

LEMMA BeginsQuietly ==
  ASSUME PoolInv, NEW t \in Threads, Aside(t), NEW l, NEW s, Begin(t, l, s),
         l \notin HoldLabels, l # "acquire"
  PROVE  Quiet(t)
<1>1. Calm(t) /\ pc'[t] # "acquire" /\ \A u \in Threads \ {t} : pc'[u] = pc[u]
  BY CalmMove
<1>2. QED
  BY <1>1, NoAcceptBy DEF Quiet, Aside

LEMMA CallsQuietly ==
  ASSUME PoolInv, NEW t \in Threads, Aside(t), NEW l, NEW r, Call(t, l, r),
         l \notin HoldLabels, l # "acquire"
  PROVE  Quiet(t)
<1>1. Calm(t) /\ pc'[t] # "acquire" /\ \A u \in Threads \ {t} : pc'[u] = pc[u]
  BY CalmMove
<1>2. QED
  BY <1>1, NoAcceptBy DEF Quiet, Aside

LEMMA HoldsQuietly ==
  ASSUME PoolInv, NEW t \in Threads, Aside(t), NEW l, Goto(t, l),
         pc[t] \in HoldLabels \ {"close"}, l # "close", l # "acquire"
  PROVE  Quiet(t)
<1>1. Calm(t) /\ pc'[t] # "acquire" /\ \A u \in Threads \ {t} : pc'[u] = pc[u]
  BY CalmHold
<1>2. QED
  BY <1>1, NoAcceptBy DEF Quiet, Aside

LEMMA QuietIfStill ==
  ASSUME PoolInv, NEW t \in Threads, UNCHANGED <<pc, cur, csock, acceptSock, lifeVars>>,
         \A o \in ops' : o.kind = "accept" => o \in ops
  PROVE  Quiet(t)
BY DEF Quiet, Calm, NoAccept

LEMMA QuietSession ==
  ASSUME PoolInv, NEW t \in Threads, SessionNext(t), acceptSock' = acceptSock,
         ~DisconnectWins(t), ~CloseSocket(t), ~ReleaseWipes(t), ~ReturnToPool(t)
  PROVE  Quiet(t)
<1> USE DEF fieldVars, threadVars, kernelVars, ghostVars, lifeVars
<1>1. CASE NullOwner(t)
  BY <1>1, QuietIfStill DEF NullOwner
<1>2. CASE DisconnectLoses(t)
  BY <1>2, ReturnsQuietly DEF DisconnectLoses, Aside
<1>3. CASE ReleaseDisconnects(t)
  <2>1. PICK s \in Sessions : At(t, "release", s) /\ connected[s]
    BY <1>3 DEF ReleaseDisconnects, WinsExchange
  <2>2. Holds(t, s)
    BY <2>1 DEF At, Holds, HoldLabels
  <2>3. QED
    BY <2>1, <2>2 DEF PoolInv, PoolIntegrity, OnePlace
<1>4. CASE ResetSession(t)
  BY <1>4, HoldsQuietly DEF ResetSession, Aside, At, HoldLabels
<1>5. CASE RelockHangs(t)
  BY <1>5, HoldsQuietly DEF RelockHangs, Aside, At, HoldLabels
<1>6. CASE PostRecvNoBuffer(t)
  BY <1>6, ReturnsQuietly DEF PostRecvNoBuffer, Aside
<1>6a. CASE PostRecvAcquires(t)
  BY <1>6a, GoesQuietly DEF PostRecvAcquires, Aside, HoldLabels
<1>6b. CASE PostRecvSetsUp(t)
  BY <1>6b, GoesQuietly DEF PostRecvSetsUp, Aside, HoldLabels
<1>7. CASE PostRecvCall(t)
  <2>1. Return(t) \/ Goto(t, "disconnect")
    BY <1>7 DEF PostRecvCall
  <2>2. Aside(t)
    BY <1>7 DEF PostRecvCall, Aside
  <2>3. QED
    BY <2>1, <2>2, ReturnsQuietly, GoesQuietly DEF HoldLabels
<1>8. CASE SendLocked(t)
  <2>1. Return(t) \/ Call(t, "disconnect", "unlock")
    BY <1>8 DEF SendLocked, PostSend
  <2>2. UNCHANGED <<freeIndices, nextId, sock, connected, id, csock, notified>>
    BY <1>8 DEF SendLocked
  <2>3. \A o \in ops' : o.kind = "accept" => o \in ops
    BY <1>8 DEF SendLocked, PostSend
  <2>4. Aside(t)
    BY <2>2, <2>3 DEF Aside
  <2>5. QED
    BY <2>1, <2>4, ReturnsQuietly, CallsQuietly DEF HoldLabels
<1>8a. CASE SendNext(t)
  <2>1. PICK s \in Sessions : PostSend(t, s, sendQueue[s], sending[s])
    BY <1>8a DEF SendNext
  <2>2. Return(t) \/ Call(t, "disconnect", "unlock")
    BY <2>1 DEF PostSend
  <2>3. UNCHANGED <<freeIndices, nextId, sock, connected, id, csock, notified>>
    BY <1>8a DEF SendNext
  <2>4. \A o \in ops' : o.kind = "accept" => o \in ops
    BY <2>1 DEF PostSend
  <2>5. Aside(t)
    BY <2>3, <2>4 DEF Aside
  <2>6. QED
    BY <2>2, <2>5, ReturnsQuietly, CallsQuietly DEF HoldLabels
<1>9. CASE Unlock(t)
  BY <1>9, ReturnsQuietly DEF Unlock, Aside
<1>10. CASE PacketsProcessed(t)
  <2>1. Return(t) \/ Goto(t, "postRecv")
    BY <1>10 DEF PacketsProcessed, TryPostRecv
  <2>2. Aside(t)
    BY <1>10 DEF PacketsProcessed, Aside
  <2>3. QED
    BY <2>1, <2>2, ReturnsQuietly, GoesQuietly DEF HoldLabels
<1>11. QED
  BY <1>1, <1>2, <1>3, <1>4, <1>5, <1>6, <1>6a, <1>6b, <1>7, <1>8, <1>8a, <1>9, <1>10
     DEF SessionNext

LEMMA QuietServer ==
  ASSUME PoolInv, NEW t \in Threads,
         \/ PoolExhausted(t) \/ Associate(t) \/ ForgetBuffer(t)
         \/ WorkerLoops(t) \/ WorkerBreaks(t)
         \/ DropCompletion(t) \/ CompletionNullOwner(t)
         \/ RecvEnds(t) \/ RecvDelivers(t) \/ SendCompletes(t)
         \/ AppSends(t) \/ AppDisconnects(t)
         \/ HandlerSends(t) \/ HandlerDisconnects(t)
  PROVE  Quiet(t)
<1> USE DEF poolVars, fieldVars, threadVars, kernelVars, ghostVars, serverVars, lifeVars
<1>1. CASE PoolExhausted(t)
  BY <1>1, ReturnsQuietly DEF PoolExhausted, Aside
<1>2. CASE Associate(t)
  <2>1. Return(t) \/ Goto(t, "postRecv") \/ Goto(t, "forget")
    BY <1>2 DEF Associate, TryPostRecv
  <2>2. Aside(t)
    BY <1>2 DEF Associate, Aside
  <2>3. QED
    BY <2>1, <2>2, ReturnsQuietly, GoesQuietly DEF HoldLabels
<1>3. CASE ForgetBuffer(t)
  <2>1. Return(t) \/ Goto(t, "postRecv")
    BY <1>3 DEF ForgetBuffer, TryPostRecv
  <2>2. Aside(t)
    BY <1>3 DEF ForgetBuffer, Aside
  <2>3. QED
    BY <2>1, <2>2, ReturnsQuietly, GoesQuietly DEF HoldLabels
<1>4. CASE WorkerLoops(t)
  <2>1. Goto(t, "wait") \/ Goto(t, "exited")
    BY <1>4 DEF WorkerLoops
  <2>2. Aside(t)
    BY <1>4 DEF WorkerLoops, Aside
  <2>3. QED
    BY <2>1, <2>2, ReturnsQuietly, GoesQuietly DEF HoldLabels
<1>5. CASE WorkerBreaks(t)
  <2>1. Goto(t, "exited") /\ Aside(t)
    BY <1>5 DEF WorkerBreaks, Aside
  <2>2. QED
    BY <2>1, GoesQuietly DEF HoldLabels
<1>6. CASE CompletionNullOwner(t)
  BY <1>6, QuietIfStill DEF CompletionNullOwner, Takes
<1>7. CASE DropCompletion(t)
  <2>1. PICK o \in ops : Goto(t, "idle") /\ ops' = ops \ {o}
    BY <1>7 DEF DropCompletion, Takes
  <2>2. Aside(t)
    BY <1>7, <2>1 DEF DropCompletion, Aside
  <2>3. QED
    BY <2>1, <2>2, GoesQuietly DEF HoldLabels
<1>8. CASE RecvEnds(t)
  <2>1. PICK o \in ops : Begin(t, "disconnect", o.s) /\ ops' = ops \ {o}
    BY <1>8 DEF RecvEnds, Takes
  <2>2. Aside(t)
    BY <1>8, <2>1 DEF RecvEnds, Aside
  <2>3. QED
    BY <2>1, <2>2, BeginsQuietly DEF HoldLabels
<1>9. CASE RecvDelivers(t)
  <2>1. PICK o \in ops : Begin(t, "process", o.s) /\ ops' = ops \ {o}
    BY <1>9 DEF RecvDelivers, Takes
  <2>2. Aside(t)
    BY <1>9, <2>1 DEF RecvDelivers, Aside
  <2>3. QED
    BY <2>1, <2>2, BeginsQuietly DEF HoldLabels
<1>10. CASE SendCompletes(t)
  <2>1. PICK o \in ops : Begin(t, "sendDone", o.s) /\ ops' = ops \ {o}
    BY <1>10 DEF SendCompletes, Takes
  <2>2. Aside(t)
    BY <1>10, <2>1 DEF SendCompletes, Aside
  <2>3. QED
    BY <2>1, <2>2, BeginsQuietly DEF HoldLabels
<1>11. CASE AppSends(t)
  <2>1. PICK s \in Sessions : Begin(t, "send", s)
    BY <1>11 DEF AppSends
  <2>2. Aside(t)
    BY <1>11 DEF AppSends, Aside
  <2>3. QED
    BY <2>1, <2>2, BeginsQuietly DEF HoldLabels
<1>12. CASE AppDisconnects(t)
  <2>1. PICK s \in Sessions : Begin(t, "disconnect", s)
    BY <1>12 DEF AppDisconnects
  <2>2. Aside(t)
    BY <1>12 DEF AppDisconnects, Aside
  <2>3. QED
    BY <2>1, <2>2, BeginsQuietly DEF HoldLabels
<1>13. CASE HandlerSends(t)
  BY <1>13, CallsQuietly DEF HandlerSends, Aside, HoldLabels
<1>14. CASE HandlerDisconnects(t)
  BY <1>14, CallsQuietly DEF HandlerDisconnects, Aside, HoldLabels
<1>15. QED
  BY <1>1, <1>2, <1>3, <1>4, <1>5, <1>6, <1>7, <1>8, <1>9, <1>10, <1>11, <1>12, <1>13, <1>14

\* The steps of a session's life, one by one.
LEMMA WinsLife ==
  ASSUME LifeInv, NEW t \in Threads, DisconnectWins(t)
  PROVE  SocketInv' /\ IdInv'
<1>1. PICK s \in Sessions :
        /\ At(t, "disconnect", s) /\ connected[s]
        /\ connected' = [connected EXCEPT ![s] = FALSE]
        /\ Goto(t, "close")
        /\ UNCHANGED <<freeIndices, sock, id, notified, nextId>>
  BY DEF DisconnectWins, WinsExchange, ghostVars
<1>2. SocketInv /\ IdInv /\ ControlTypes /\ FieldTypes
  BY DEF LifeInv, PoolInv, TypeOK
<1>3. \A u \in Threads, r \in Sessions :
        At(u, "close", r)' => (At(u, "close", r) \/ r = s)
  BY <1>1, <1>2 DEF Goto, At, ControlTypes
<1>4. \A u \in Threads, r \in Sessions :
        (Holds(u, r)' /\ pc'[u] # "close") => (Holds(u, r) /\ pc[u] # "close")
  BY <1>1, <1>2 DEF Goto, Holds, ControlTypes
<1>5. \A r \in Sessions : (InPool(r)' <=> InPool(r)) /\ (connected'[r] => connected[r])
  BY <1>1, <1>2 DEF InPool, FieldTypes
<1>6. SocketInv'
  BY <1>1, <1>2, <1>3, <1>4, <1>5 DEF SocketInv
<1>7. IdInv'
  BY <1>1, <1>2 DEF IdInv
<1>8. QED
  BY <1>6, <1>7

\* CloseSocket reports the id of a connection that was not reported before.
LEMMA ClosesSocket ==
  ASSUME LifeInv, NEW t \in Threads, CloseSocket(t)
  PROVE  \E s \in Sessions :
           /\ At(t, "close", s) /\ Holds(t, s) /\ ~connected[s] /\ ~InPool(s)
           /\ \A u \in Threads : Holds(u, s) => u = t
           /\ sock' = [sock EXCEPT ![s] = NoSocket]
           /\ notified' = Append(notified, id[s])
           /\ Goto(t, "release")
           /\ UNCHANGED <<freeIndices, connected, id, nextId>>
<1>1. PICK s \in Sessions :
        /\ At(t, "close", s)
        /\ sock' = [sock EXCEPT ![s] = NoSocket]
        /\ IF owner[s]
           THEN notified' = Append(notified, id[s]) /\ Goto(t, "release")
           ELSE notified' = notified /\ Return(t)
        /\ UNCHANGED <<freeIndices, connected, id, nextId>>
  BY DEF CloseSocket
<1>2. owner[s]
  BY <1>1 DEF LifeInv, PoolInv, OwnerKnown
<1>3. Holds(t, s)
  BY <1>1 DEF At, Holds, HoldLabels
<1>4. ~connected[s] /\ ~InPool(s) /\ \A u \in Threads : Holds(u, s) => u = t
  BY <1>3 DEF LifeInv, PoolInv, PoolIntegrity, OnePlace
<1>5. QED
  BY <1>1, <1>2, <1>3, <1>4

LEMMA CloseLife ==
  ASSUME LifeInv, NEW t \in Threads, CloseSocket(t)
  PROVE  SocketInv' /\ IdInv'
<1>1. PICK s \in Sessions :
        /\ At(t, "close", s) /\ Holds(t, s) /\ ~connected[s] /\ ~InPool(s)
        /\ \A u \in Threads : Holds(u, s) => u = t
        /\ sock' = [sock EXCEPT ![s] = NoSocket]
        /\ notified' = Append(notified, id[s])
        /\ Goto(t, "release")
        /\ UNCHANGED <<freeIndices, connected, id, nextId>>
  BY ClosesSocket
<1>2. SocketInv /\ IdInv /\ ControlTypes /\ FieldTypes /\ PoolTypes /\ notified \in Seq(Nat)
  BY DEF LifeInv, PoolInv, TypeOK, HistoryTypes
<1>3. \A r \in Sessions : sock'[r] = IF r = s THEN NoSocket ELSE sock[r]
  BY <1>1, <1>2 DEF FieldTypes
<1>4. \A u \in Threads, r \in Sessions : At(u, "close", r)' => At(u, "close", r) /\ u # t
  BY <1>1, <1>2 DEF Goto, At, ControlTypes
<1>5. \A u \in Threads, r \in Sessions :
        (Holds(u, r)' /\ pc'[u] # "close") => ((Holds(u, r) /\ pc[u] # "close") \/ r = s)
  BY <1>1, <1>2 DEF Goto, Holds, At, ControlTypes
<1>6. SocketInv'
  <2>1. \A r \in Sessions : connected'[r] => sock'[r] # NoSocket
    BY <1>1, <1>2, <1>3 DEF SocketInv
  <2>2. \A u \in Threads, r \in Sessions : At(u, "close", r)' => sock'[r] # NoSocket
    <3>1. SUFFICES ASSUME NEW u \in Threads, NEW r \in Sessions, At(u, "close", r)'
                   PROVE  sock'[r] # NoSocket
      OBVIOUS
    <3>2. At(u, "close", r) /\ Holds(u, r) /\ u # t
      BY <1>4, <3>1 DEF At, Holds, HoldLabels
    <3>3. r # s
      BY <1>1, <3>2
    <3>4. QED
      BY <1>2, <1>3, <3>2, <3>3 DEF SocketInv
  <2>3. \A r \in Sessions : InPool(r)' => sock'[r] = NoSocket
    BY <1>1, <1>2, <1>3 DEF SocketInv, InPool
  <2>4. \A u \in Threads, r \in Sessions : Holds(u, r)' /\ pc'[u] # "close" => sock'[r] = NoSocket
    BY <1>2, <1>3, <1>5 DEF SocketInv
  <2>5. QED
    BY <2>1, <2>2, <2>3, <2>4 DEF SocketInv
<1>7. sock[s] # NoSocket /\ id[s] \in Nat /\ id[s] \in 1..(nextId - 1)
  <2>1. sock[s] # NoSocket
    BY <1>1, <1>2 DEF SocketInv
  <2>2. id[s] # NoId /\ id[s] \in 0..(nextId - 1) /\ nextId \in Nat \ {0}
    BY <1>2, <2>1 DEF IdInv, FieldTypes, PoolTypes
  <2>3. QED
    BY <2>1, <2>2 DEF NoId
<1>8. IdInv'
  <2> DEFINE n == Len(notified)
  <2>1. /\ n \in Nat /\ Len(notified') = n + 1
        /\ notified'[n + 1] = id[s]
        /\ \A i \in 1..n : notified'[i] = notified[i]
    BY <1>1, <1>2, <1>7, StackPush
  <2>2. Range(notified) = {notified[i] : i \in 1..n} /\ Range(notified') = {notified'[i] : i \in 1..(n + 1)}
    <3>1. DOMAIN notified = 1..n /\ DOMAIN notified' = 1..(n + 1)
      BY <1>1, <1>2, <1>7, <2>1
    <3>2. QED
      BY <3>1 DEF Range
  <2> HIDE DEF n
  <2>3. \A i \in 1..(n + 1) : i \in 1..n \/ i = n + 1
    BY <2>1
  <2>4. \A i \in 1..n : notified[i] # id[s]
    BY <1>2, <1>7, <2>2 DEF IdInv
  <2>5. \A r \in Sessions : sock'[r] # NoSocket => id'[r] # NoId /\ id'[r] \notin Range(notified')
    <3>1. SUFFICES ASSUME NEW r \in Sessions, sock'[r] # NoSocket
                   PROVE  id[r] # NoId /\ id[r] \notin Range(notified')
      BY <1>1
    <3>2. r # s /\ sock[r] # NoSocket
      BY <1>3, <3>1
    <3>3. id[r] # NoId /\ id[r] \notin Range(notified) /\ id[r] # id[s]
      BY <1>2, <3>2 DEF IdInv
    <3>4. QED
      BY <2>1, <2>2, <2>3, <3>3
  <2>6. \A i \in 1..(n + 1) : notified'[i] \in 1..(nextId - 1)
    BY <1>2, <1>7, <2>1, <2>3 DEF IdInv, n
  <2>7. \A i, j \in 1..(n + 1) : notified'[i] = notified'[j] => i = j
    <3>1. \A i, j \in 1..n : notified[i] = notified[j] => i = j
      BY <1>2 DEF IdInv, n
    <3>2. QED
      BY <2>1, <2>3, <2>4, <3>1
  <2>8. QED
    BY <1>1, <1>2, <2>1, <2>5, <2>6, <2>7 DEF IdInv
<1>9. QED
  BY <1>6, <1>8

\* The id is wiped by the holder, after the socket.
LEMMA WipeLife ==
  ASSUME LifeInv, NEW t \in Threads, ReleaseWipes(t)
  PROVE  /\ SocketInv' /\ IdInv'
         /\ UNCHANGED <<sock, connected, freeIndices, notified>>
         /\ \A r \in Sessions : sock[r] # NoSocket => id'[r] = id[r]
<1>1. PICK s \in Sessions :
        /\ At(t, "release", s) \/ At(t, "wipe", s)
        /\ WipeFields(s)
        /\ Goto(t, "reset")
        /\ UNCHANGED <<freeIndices, nextId, notified>>
  BY DEF ReleaseWipes, ghostVars
<1>2. SocketInv /\ IdInv /\ ControlTypes /\ FieldTypes
  BY DEF LifeInv, PoolInv, TypeOK
<1>3. Holds(t, s) /\ pc[t] # "close" /\ pc[t] \in HoldLabels
  BY <1>1 DEF At, Holds, HoldLabels
<1>4. sock[s] = NoSocket /\ ~connected[s]
  BY <1>2, <1>3 DEF SocketInv, LifeInv, PoolInv, PoolIntegrity, OnePlace
<1>5. sock' = sock /\ connected' = connected
  BY <1>1, <1>2, <1>4 DEF WipeFields, FieldTypes
<1>6. \A u \in Threads, r \in Sessions : At(u, "close", r)' => At(u, "close", r)
  BY <1>1, <1>2 DEF Goto, At, ControlTypes
<1>7. \A u \in Threads, r \in Sessions :
        (Holds(u, r)' /\ pc'[u] # "close") => (Holds(u, r) /\ pc[u] # "close")
  BY <1>1, <1>2, <1>3 DEF Goto, Holds, ControlTypes
<1>8. SocketInv'
  BY <1>1, <1>2, <1>5, <1>6, <1>7 DEF SocketInv, InPool
<1>9. \A r \in Sessions : id'[r] = IF r = s THEN NoId ELSE id[r]
  BY <1>1, <1>2 DEF WipeFields, FieldTypes
<1>10. IdInv'
  BY <1>1, <1>2, <1>4, <1>5, <1>9 DEF IdInv
<1>11. QED
  BY <1>1, <1>4, <1>5, <1>8, <1>9, <1>10

LEMMA PushLife ==
  ASSUME LifeInv, NEW t \in Threads, ReturnToPool(t)
  PROVE  /\ SocketInv' /\ IdInv'
         /\ UNCHANGED <<sock, id, connected, notified>>
         /\ \E s \in Sessions :
              /\ Holds(t, s) /\ sock[s] = NoSocket
              /\ \A r \in Sessions : InPool(r)' <=> (InPool(r) \/ r = s)
<1>1. PICK s \in Sessions :
        /\ At(t, "push", s)
        /\ freeIndices' = Append(freeIndices, s)
        /\ Return(t)
        /\ UNCHANGED <<sock, id, connected, notified, nextId>>
  BY DEF ReturnToPool, PushSession, fieldVars, ghostVars
<1>2. SocketInv /\ IdInv /\ freeIndices \in Seq(Sessions)
  BY DEF LifeInv, PoolInv, TypeOK, PoolTypes
<1>3. Holds(t, s) /\ sock[s] = NoSocket
  BY <1>1, <1>2 DEF At, Holds, HoldLabels, SocketInv
<1>4. \A r \in Sessions : InPool(r)' <=> (InPool(r) \/ r = s)
  <2>1. /\ Len(freeIndices') = Len(freeIndices) + 1
        /\ freeIndices'[Len(freeIndices) + 1] = s
        /\ \A i \in 1..Len(freeIndices) : freeIndices'[i] = freeIndices[i]
        /\ Len(freeIndices) \in Nat
    BY <1>1, <1>2, StackPush
  <2>2. \A i \in 1..Len(freeIndices') : i \in 1..Len(freeIndices) \/ i = Len(freeIndices) + 1
    BY <2>1
  <2>3. 1..Len(freeIndices) \subseteq 1..Len(freeIndices') /\ Len(freeIndices) + 1 \in 1..Len(freeIndices')
    BY <2>1
  <2>4. QED
    BY <2>1, <2>2, <2>3 DEF InPool
<1>5. Calm(t)
  BY <1>1, CalmReturn DEF LifeInv
<1>6. \A u \in Threads, r \in Sessions : At(u, "close", r)' => At(u, "close", r)
  BY <1>5 DEF Calm, At, HoldLabels
<1>7. \A u \in Threads, r \in Sessions :
        (Holds(u, r)' /\ pc'[u] # "close") => (Holds(u, r) /\ pc[u] # "close")
  BY <1>5 DEF Calm, Holds
<1>8. SocketInv'
  BY <1>1, <1>2, <1>3, <1>4, <1>6, <1>7 DEF SocketInv
<1>9. IdInv'
  BY <1>1, <1>2 DEF IdInv
<1>10. QED
  BY <1>1, <1>3, <1>4, <1>8, <1>9

\* SessionPool::Acquire gives a free session the socket of the new connection
\* and an id that no session has and no report named.
LEMMA Establishes ==
  ASSUME LifeInv, NEW t \in Threads, AcquireSession(t)
  PROVE  \E s \in Sessions :
           /\ InPool(s) /\ ~connected[s] /\ \A u \in Threads : ~Holds(u, s)
           /\ csock[t] # NoSocket
           /\ sock' = [sock EXCEPT ![s] = csock[t]]
           /\ connected' = [connected EXCEPT ![s] = TRUE]
           /\ id' = [id EXCEPT ![s] = nextId]
           /\ nextId' = nextId + 1
           /\ \A r \in Sessions : InPool(r)' <=> (InPool(r) /\ r # s)
           /\ Begin(t, "associate", s)
           /\ pc[t] = "acquire"
           /\ csock' = [csock EXCEPT ![t] = NoSocket]
           /\ UNCHANGED <<notified, ops, acceptSock>>
<1>1. PICK s \in Sessions :
        /\ pc[t] = "acquire"
        /\ freeIndices # <<>> /\ s = Last(freeIndices)
        /\ freeIndices' = Front(freeIndices)
        /\ sock' = [sock EXCEPT ![s] = csock[t]]
        /\ connected' = [connected EXCEPT ![s] = TRUE]
        /\ id' = [id EXCEPT ![s] = nextId]
        /\ nextId' = nextId + 1
        /\ Begin(t, "associate", s)
        /\ csock' = [csock EXCEPT ![t] = NoSocket]
        /\ UNCHANGED <<notified, ops, acceptSock>>
  BY DEF AcquireSession, PopSession, HasFreeSession, InitSession, kernelVars, ghostVars, serverVars
<1>2. NoDuplicateFree /\ OnePlace /\ freeIndices \in Seq(Sessions)
  BY DEF LifeInv, PoolInv, PoolIntegrity, TypeOK, PoolTypes
<1>3. /\ Len(freeIndices) \in Nat \ {0} /\ s = freeIndices[Len(freeIndices)]
      /\ Len(freeIndices') = Len(freeIndices) - 1
      /\ \A i \in 1..(Len(freeIndices) - 1) : freeIndices'[i] = freeIndices[i]
  BY <1>1, <1>2, StackPop
<1>4. \A r \in Sessions : InPool(r)' <=> (InPool(r) /\ r # s)
  <2>1. \A i \in 1..Len(freeIndices') : i \in 1..Len(freeIndices) /\ i # Len(freeIndices)
    BY <1>3
  <2>2. \A i \in 1..Len(freeIndices) : i # Len(freeIndices) => i \in 1..Len(freeIndices')
    BY <1>3
  <2>3. Len(freeIndices) \in 1..Len(freeIndices)
    BY <1>3
  <2>4. \A i \in 1..Len(freeIndices') : freeIndices'[i] # s
    BY <1>2, <1>3, <2>1, <2>3 DEF NoDuplicateFree
  <2>5. \A i \in 1..Len(freeIndices') : freeIndices'[i] = freeIndices[i]
    BY <1>3
  <2>6. QED
    BY <1>3, <2>1, <2>2, <2>4, <2>5 DEF InPool
<1>5. InPool(s)
  <2>1. Len(freeIndices) \in 1..Len(freeIndices)
    BY <1>3
  <2>2. QED
    BY <1>3, <2>1 DEF InPool
<1>6. ~connected[s] /\ \A u \in Threads : ~Holds(u, s)
  BY <1>2, <1>5 DEF OnePlace
<1>7. csock[t] # NoSocket
  BY <1>1 DEF LifeInv, AcceptInv
<1>8. QED
  BY <1>1, <1>4, <1>5, <1>6, <1>7

LEMMA AcquireLife ==
  ASSUME LifeInv, NEW t \in Threads, AcquireSession(t)
  PROVE  AcceptInv' /\ SocketInv' /\ IdInv'
<1>1. PICK s \in Sessions :
        /\ InPool(s) /\ ~connected[s] /\ \A u \in Threads : ~Holds(u, s)
        /\ csock[t] # NoSocket
        /\ sock' = [sock EXCEPT ![s] = csock[t]]
        /\ connected' = [connected EXCEPT ![s] = TRUE]
        /\ id' = [id EXCEPT ![s] = nextId]
        /\ nextId' = nextId + 1
        /\ \A r \in Sessions : InPool(r)' <=> (InPool(r) /\ r # s)
        /\ Begin(t, "associate", s)
        /\ pc[t] = "acquire"
        /\ csock' = [csock EXCEPT ![t] = NoSocket]
        /\ UNCHANGED <<notified, ops, acceptSock>>
  BY Establishes
<1>2. /\ AcceptInv /\ SocketInv /\ IdInv /\ ControlTypes /\ FieldTypes /\ LocalTypes
      /\ nextId \in Nat \ {0}
  BY DEF LifeInv, PoolInv, TypeOK, PoolTypes
<1>3. /\ \A u \in Threads : pc'[u] = IF u = t THEN "associate" ELSE pc[u]
      /\ \A u \in Threads \ {t} : cur'[u] = cur[u] /\ csock'[u] = csock[u]
  BY <1>1, <1>2 DEF Begin, ControlTypes, LocalTypes
<1>4. /\ \A u \in Threads, r \in Sessions : Holds(u, r)' => Holds(u, r) /\ pc'[u] = pc[u]
      /\ \A u \in Threads, r \in Sessions : At(u, "close", r)' => At(u, "close", r) /\ Holds(u, r)
  BY <1>3 DEF Holds, At, HoldLabels
<1>5. \A r \in Sessions : /\ sock'[r] = IF r = s THEN csock[t] ELSE sock[r]
                          /\ connected'[r] = IF r = s THEN TRUE ELSE connected[r]
                          /\ id'[r] = IF r = s THEN nextId ELSE id[r]
  BY <1>1, <1>2 DEF FieldTypes
<1>6. AcceptInv'
  <2>1. \A u \in Threads : pc'[u] = "acquire" => csock'[u] # NoSocket
    BY <1>2, <1>3 DEF AcceptInv
  <2>2. ops' = ops /\ acceptSock' = acceptSock
    BY <1>1
  <2>3. QED
    BY <1>2, <2>1, <2>2 DEF AcceptInv
<1>7. SocketInv'
  <2>1. \A r \in Sessions : connected'[r] => sock'[r] # NoSocket
    <3>1. csock[t] # NoSocket /\ \A r \in Sessions : connected[r] => sock[r] # NoSocket
      BY <1>1, <1>2 DEF SocketInv
    <3>2. QED
      BY <1>5, <3>1
  <2>2. \A u \in Threads, r \in Sessions : At(u, "close", r)' => sock'[r] # NoSocket
    BY <1>1, <1>2, <1>4, <1>5 DEF SocketInv
  <2>3. \A r \in Sessions : InPool(r)' => sock'[r] = NoSocket
    BY <1>1, <1>2, <1>5 DEF SocketInv
  <2>4. \A u \in Threads, r \in Sessions : Holds(u, r)' /\ pc'[u] # "close" => sock'[r] = NoSocket
    BY <1>1, <1>2, <1>4, <1>5 DEF SocketInv
  <2>5. QED
    BY <2>1, <2>2, <2>3, <2>4 DEF SocketInv
<1>8. IdInv'
  <2>1. \A r \in Sessions : id[r] \in 0..(nextId - 1) /\ id[r] # nextId
    BY <1>2 DEF FieldTypes
  <2>2. nextId # NoId /\ nextId \notin Range(notified)
    <3>1. \A i \in 1..Len(notified) : notified[i] # nextId
      BY <1>2 DEF IdInv
    <3>2. DOMAIN notified = 1..Len(notified)
      BY DEF LifeInv, PoolInv, TypeOK, HistoryTypes
    <3>3. QED
      BY <1>2, <3>1, <3>2 DEF Range, NoId
  <2>3. \A r \in Sessions : sock'[r] # NoSocket => id'[r] # NoId /\ id'[r] \notin Range(notified)
    BY <1>2, <1>5, <2>2 DEF IdInv
  <2>4. \A q, r \in Sessions : id'[q] = id'[r] /\ id'[r] # NoId => q = r
    BY <1>2, <1>5, <2>1 DEF IdInv
  <2>5. \A i \in 1..Len(notified) : notified[i] \in 1..(nextId' - 1)
    BY <1>1, <1>2 DEF IdInv
  <2>6. QED
    BY <1>1, <1>2, <2>3, <2>4, <2>5 DEF IdInv
<1>9. QED
  BY <1>6, <1>7, <1>8

\* PostAccept leaves one accept outstanding, on the socket it made.
LEMMA PostsOneAccept ==
  ASSUME TypeOK, NEW rest, \A o \in rest : o.kind # "accept", PostAccept(rest)
  PROVE  /\ \A o \in ops' : o.kind = "accept" => o.sock = acceptSock'
         /\ \A o, p \in ops' : o.kind = "accept" /\ p.kind = "accept" => o = p
<1>1. CASE ops' = rest
  BY <1>1
<1>2. ASSUME NEW b, acceptSock' = nextSock,
             ops' = rest \cup {[kind |-> "accept", s |-> NoSession, sock |-> nextSock, buf |-> b]}
      PROVE  /\ \A o \in ops' : o.kind = "accept" => o.sock = acceptSock'
             /\ \A o, p \in ops' : o.kind = "accept" /\ p.kind = "accept" => o = p
  BY <1>2
<1>3. QED
  BY <1>1, <1>2 DEF PostAccept

LEMMA AcceptLife ==
  ASSUME LifeInv, NEW t \in Threads, AcceptCompletes(t)
  PROVE  AcceptInv' /\ SocketInv' /\ IdInv' /\ UNCHANGED lifeVars
<1>1. PICK o \in ops :
        /\ o.kind = "accept"
        /\ csock' = [csock EXCEPT ![t] = acceptSock]
        /\ PostAccept(ops \ {o})
        /\ Goto(t, "acquire")
        /\ UNCHANGED lifeVars
  BY DEF AcceptCompletes, fieldVars, ghostVars, lifeVars
<1>2. AcceptInv /\ TypeOK /\ ControlTypes /\ LocalTypes /\ ops \subseteq Operations
  BY DEF LifeInv, PoolInv, TypeOK, KernelTypes
<1>3. acceptSock # NoSocket
  <2>1. o.sock = acceptSock
    BY <1>1, <1>2 DEF AcceptInv
  <2>2. o.sock \in Sockets
    BY <1>2 DEF Operations
  <2>3. QED
    BY <2>1, <2>2 DEF Sockets, NoSocket
<1>4. \A p \in ops \ {o} : p.kind # "accept"
  BY <1>1, <1>2 DEF AcceptInv
<1>5. \A u \in Threads : pc'[u] = "acquire" => csock'[u] # NoSocket
  BY <1>1, <1>2, <1>3 DEF AcceptInv, Goto, ControlTypes, LocalTypes
<1>6. AcceptInv'
  BY <1>1, <1>2, <1>4, <1>5, PostsOneAccept DEF AcceptInv
<1>7. Calm(t)
  BY <1>1, CalmMove DEF HoldLabels, LifeInv
<1>8. QED
  BY <1>1, <1>6, <1>7, CalmLife

LEMMA ConnectLife ==
  ASSUME LifeInv, NEW t \in Threads, AppConnects(t)
  PROVE  AcceptInv' /\ SocketInv' /\ IdInv' /\ UNCHANGED lifeVars
<1>1. /\ csock' = [csock EXCEPT ![t] = nextSock]
      /\ Goto(t, "acquire")
      /\ UNCHANGED <<lifeVars, ops, acceptSock>>
  BY DEF AppConnects, poolVars, fieldVars, ghostVars, serverVars, lifeVars
<1>2. AcceptInv /\ ControlTypes /\ LocalTypes /\ nextSock \in 1..(MaxSockets + 1)
  BY DEF LifeInv, PoolInv, TypeOK, KernelTypes
<1>3. nextSock # NoSocket
  BY <1>2, BoundsAssumption DEF NoSocket
<1>4. \A u \in Threads : pc'[u] = "acquire" => csock'[u] # NoSocket
  BY <1>1, <1>2, <1>3 DEF AcceptInv, Goto, ControlTypes, LocalTypes
<1>5. AcceptInv'
  BY <1>1, <1>2, <1>4 DEF AcceptInv
<1>6. Calm(t)
  BY <1>1, CalmMove DEF HoldLabels, LifeInv
<1>7. QED
  BY <1>1, <1>5, <1>6, CalmLife

LEMMA MainLife ==
  ASSUME LifeInv, Start \/ Stop \/ Joined
  PROVE  AcceptInv' /\ SocketInv' /\ IdInv' /\ UNCHANGED lifeVars
<1>1. UNCHANGED <<pc, cur, csock, lifeVars>>
  BY DEF Start, Stop, Joined, poolVars, fieldVars, threadVars, ghostVars, lifeVars
<1>2. AcceptInv'
  <2>1. CASE Start
    <3>1. PostAccept({})
      BY <2>1 DEF Start
    <3>2. QED
      BY <1>1, <3>1, PostsOneAccept DEF AcceptInv, LifeInv, PoolInv
  <2>2. CASE Stop \/ Joined
    <3>1. UNCHANGED <<ops, acceptSock>>
      BY <2>2 DEF Stop, Joined, kernelVars
    <3>2. QED
      BY <1>1, <3>1 DEF AcceptInv, LifeInv
  <2>3. QED
    BY <2>1, <2>2
<1>3. SocketInv' /\ IdInv'
  BY <1>1 DEF LifeInv, SocketInv, IdInv, lifeVars, At, Holds, InPool
<1>4. QED
  BY <1>1, <1>2, <1>3

\* What a step of thread t may be, as far as the life of sessions goes.
LEMMA LifeSteps ==
  ASSUME LifeInv, ~AssocMayFail, NEW t \in Threads, Runs(t) \/ Completes(t) \/ Chooses(t)
  PROVE  \/ Quiet(t)
         \/ SessionNext(t) /\ UNCHANGED serverVars
            /\ (DisconnectWins(t) \/ CloseSocket(t) \/ ReleaseWipes(t) \/ ReturnToPool(t))
         \/ AcquireSession(t) \/ AcceptCompletes(t) \/ AppConnects(t)
<1>1. CASE SessionNext(t) /\ UNCHANGED serverVars
  <2>1. acceptSock' = acceptSock
    BY <1>1 DEF serverVars
  <2>2. QED
    BY <1>1, <2>1, QuietSession DEF LifeInv
<1>2. CASE AssociateFails(t)
  BY <1>2 DEF AssociateFails
<1>3. CASE \/ PoolExhausted(t) \/ Associate(t) \/ ForgetBuffer(t)
           \/ WorkerLoops(t) \/ WorkerBreaks(t)
           \/ DropCompletion(t) \/ CompletionNullOwner(t)
           \/ RecvEnds(t) \/ RecvDelivers(t) \/ SendCompletes(t)
           \/ AppSends(t) \/ AppDisconnects(t)
           \/ HandlerSends(t) \/ HandlerDisconnects(t)
  BY <1>3, QuietServer DEF LifeInv
<1>4. QED
  BY <1>1, <1>2, <1>3 DEF Runs, Completes, Chooses

\* The four steps of a release leave the accepts alone.
LEMMA ReleaseAccepts ==
  ASSUME LifeInv, NEW t \in Threads, UNCHANGED serverVars,
         DisconnectWins(t) \/ CloseSocket(t) \/ ReleaseWipes(t) \/ ReturnToPool(t)
  PROVE  AcceptInv'
<1>1. UNCHANGED <<csock, ops, acceptSock>>
  BY DEF DisconnectWins, CloseSocket, ReleaseWipes, ReturnToPool, kernelVars, serverVars
<1>2. pc'[t] # "acquire" /\ \A u \in Threads \ {t} : pc'[u] = pc[u]
  <2>1. ControlTypes
    BY DEF LifeInv, PoolInv, TypeOK
  <2>2. CASE CloseSocket(t)
    <3>1. Goto(t, "release")
      BY <2>2, ClosesSocket
    <3>2. QED
      BY <2>1, <3>1 DEF Goto, ControlTypes
  <2>3. CASE ReturnToPool(t)
    <3>1. Return(t)
      BY <2>3 DEF ReturnToPool
    <3>2. QED
      BY <3>1, CalmReturn DEF LifeInv
  <2>4. CASE DisconnectWins(t) \/ ReleaseWipes(t)
    <3>1. Goto(t, "close") \/ Goto(t, "reset")
      BY <2>4 DEF DisconnectWins, ReleaseWipes
    <3>2. QED
      BY <2>1, <3>1 DEF Goto, ControlTypes
  <2>5. QED
    BY <2>2, <2>3, <2>4
<1>3. QED
  BY <1>1, <1>2 DEF AcceptInv, LifeInv

LEMMA LifeStep == LifeInv /\ ~AssocMayFail /\ [Next]_vars => LifeInv'
<1> SUFFICES ASSUME LifeInv, ~AssocMayFail, [Next]_vars PROVE LifeInv'
  OBVIOUS
<1>1. PoolInv'
  BY PoolStep DEF LifeInv
<1>2. CASE UNCHANGED vars
  <2>1. UNCHANGED <<pc, cur, csock, ops, acceptSock, lifeVars>>
    BY <1>2 DEF vars, poolVars, fieldVars, threadVars, kernelVars, ghostVars, serverVars, lifeVars
  <2>2. AcceptInv'
    BY <2>1 DEF AcceptInv, LifeInv
  <2>3. SocketInv' /\ IdInv'
    BY <2>1 DEF LifeInv, SocketInv, IdInv, lifeVars, At, Holds, InPool
  <2>4. QED
    BY <1>1, <2>2, <2>3 DEF LifeInv
<1>3. CASE Start \/ Stop \/ Joined
  BY <1>1, <1>3, MainLife DEF LifeInv
<1>4. ASSUME NEW t \in Threads, Runs(t) \/ Completes(t) \/ Chooses(t)
      PROVE  LifeInv'
  <2>1. CASE Quiet(t)
    BY <1>1, <2>1, CalmLife, CalmAccepts DEF Quiet, LifeInv
  <2>2. CASE UNCHANGED serverVars
             /\ (DisconnectWins(t) \/ CloseSocket(t) \/ ReleaseWipes(t) \/ ReturnToPool(t))
    BY <1>1, <2>2, ReleaseAccepts, WinsLife, CloseLife, WipeLife, PushLife DEF LifeInv
  <2>3. CASE AcquireSession(t) \/ AcceptCompletes(t) \/ AppConnects(t)
    BY <1>1, <2>3, AcquireLife, AcceptLife, ConnectLife DEF LifeInv
  <2>4. QED
    BY <1>4, <2>1, <2>2, <2>3, LifeSteps
<1>5. QED
  BY <1>2, <1>3, <1>4 DEF Next

LEMMA LifeInit == Init => LifeInv
<1> SUFFICES ASSUME Init PROVE LifeInv
  OBVIOUS
<1>1. PoolInv
  BY PoolInit
<1>2. /\ sock = [s \in Sessions |-> NoSocket] /\ connected = [s \in Sessions |-> FALSE]
      /\ id = [s \in Sessions |-> NoId] /\ notified = <<>> /\ ops = {}
      /\ pc = [t \in Threads |-> "idle"]
  BY DEF Init, SessionInit
<1>3. AcceptInv /\ SocketInv
  BY <1>2 DEF AcceptInv, SocketInv, At, Holds, HoldLabels
<1>4. IdInv
  BY <1>2 DEF IdInv
<1>5. QED
  BY <1>1, <1>3, <1>4 DEF LifeInv

\* As long as every accepted socket can be associated with the completion port,
\* OnClientDisconnected runs at most once for each connection and never for one
\* whose socket is open, for any number of workers, application threads,
\* sessions, buffers and connections, however many of them call Disconnect
\* (Session::Disconnect, NotifySessionDisconnect).
THEOREM EndReported ==
  ASSUME ~AssocMayFail
  PROVE  Spec => []NotifiedOnce
<1>1. Init => LifeInv
  BY LifeInit
<1>2. LifeInv /\ [Next]_vars => LifeInv'
  BY LifeStep
<1>3. LifeInv => NotifiedOnce
  <2> SUFFICES ASSUME LifeInv PROVE NotifiedOnce
    OBVIOUS
  <2>1. IdInv /\ notified \in Seq(Nat)
    BY DEF LifeInv, PoolInv, TypeOK, HistoryTypes
  <2>2. Range(notified) = {notified[i] : i \in 1..Len(notified)}
    BY <2>1 DEF Range
  <2>3. NoId \notin Range(notified)
    BY <2>1, <2>2 DEF IdInv, NoId
  <2>4. QED
    BY <2>1, <2>3 DEF NotifiedOnce, IdInv
<1>4. QED
  BY <1>1, <1>2, <1>3, PTL DEF Spec

-----------------------------------------------------------------------------
(* The refinement of SessionLifecycle.                                     *)

Phase == [s \in Sessions |-> IF connected[s] THEN "serving"
                             ELSE IF InPool(s) THEN "free" ELSE "closing"]
Conn  == [s \in Sessions |-> IF sock[s] = NoSocket THEN NoId ELSE id[s]]

\* The steps of the abstract life, over the concrete state.
LEMMA MappedSteps ==
  /\ L!LInit <=> /\ Phase = [s \in Sessions |-> "free"]
                 /\ Conn = [s \in Sessions |-> NoId]
                 /\ Range(notified) = {}
  /\ L!LNext <=> \E s \in Sessions :
       \/ /\ Phase[s] = "free"
          /\ Conn'[s] \in (Nat \ {NoId}) \ Range(notified)
          /\ \A r \in Sessions : Conn[r] # Conn'[s]
          /\ Phase' = [Phase EXCEPT ![s] = "serving"]
          /\ Conn' = [Conn EXCEPT ![s] = Conn'[s]]
          /\ Range(notified') = Range(notified)
       \/ /\ Phase[s] = "serving"
          /\ Phase' = [Phase EXCEPT ![s] = "closing"]
          /\ Conn' = Conn /\ Range(notified') = Range(notified)
       \/ /\ Phase[s] = "closing"
          /\ Conn[s] \in (Nat \ {NoId}) \ Range(notified)
          /\ Conn' = [Conn EXCEPT ![s] = NoId]
          /\ Range(notified') = Range(notified) \cup {Conn[s]}
          /\ Phase' = Phase
       \/ /\ Phase[s] = "closing"
          /\ Conn[s] = NoId
          /\ Phase' = [Phase EXCEPT ![s] = "free"]
          /\ Conn' = Conn /\ Range(notified') = Range(notified)
  /\ (UNCHANGED L!lifecycleVars) <=> Phase' = Phase /\ Conn' = Conn
                                     /\ Range(notified') = Range(notified)
BY DEF L!LInit, L!LNext, L!Establish, L!Drop, L!Report, L!Recycle, L!lifecycleVars, Phase, Conn

LEMMA StaysMapped ==
  ASSUME UNCHANGED <<sock, connected, freeIndices, notified>>,
         \A r \in Sessions : sock[r] # NoSocket => id'[r] = id[r]
  PROVE  UNCHANGED L!lifecycleVars
<1>1. \A r \in Sessions : InPool(r)' <=> InPool(r)
  BY DEF InPool
<1>2. Phase' = Phase
  BY <1>1 DEF Phase
<1>3. Conn' = Conn
  BY DEF Conn
<1>4. QED
  BY <1>2, <1>3, MappedSteps

\* The exchange that wins drops the connection.
LEMMA WinsDrops ==
  ASSUME LifeInv, NEW t \in Threads, DisconnectWins(t)
  PROVE  L!LNext
<1>1. PICK s \in Sessions :
        /\ connected[s]
        /\ connected' = [connected EXCEPT ![s] = FALSE]
        /\ UNCHANGED <<freeIndices, sock, id, notified>>
  BY DEF DisconnectWins, WinsExchange, ghostVars
<1>2. FieldTypes /\ ~InPool(s)
  BY <1>1 DEF LifeInv, PoolInv, TypeOK, PoolIntegrity, OnePlace
<1>3. \A r \in Sessions : /\ InPool(r)' <=> InPool(r)
                          /\ connected'[r] = IF r = s THEN FALSE ELSE connected[r]
  BY <1>1, <1>2 DEF InPool, FieldTypes
<1>4. Phase[s] = "serving" /\ Phase' = [Phase EXCEPT ![s] = "closing"]
  BY <1>1, <1>2, <1>3 DEF Phase
<1>5. Conn' = Conn /\ Range(notified') = Range(notified)
  BY <1>1 DEF Conn
<1>6. QED
  BY <1>4, <1>5, MappedSteps

LEMMA RangeOf ==
  ASSUME NEW S, NEW q \in Seq(S)
  PROVE  Range(q) = {q[i] : i \in 1..Len(q)}
BY DEF Range

\* closesocket and the notification report it.
LEMMA CloseReports ==
  ASSUME LifeInv, NEW t \in Threads, CloseSocket(t)
  PROVE  L!LNext
<1>1. PICK s \in Sessions :
        /\ At(t, "close", s) /\ ~connected[s] /\ ~InPool(s)
        /\ sock' = [sock EXCEPT ![s] = NoSocket]
        /\ notified' = Append(notified, id[s])
        /\ UNCHANGED <<freeIndices, connected, id>>
  BY ClosesSocket
<1>2. FieldTypes /\ PoolTypes /\ SocketInv /\ IdInv /\ notified \in Seq(Nat)
  BY DEF LifeInv, PoolInv, TypeOK, HistoryTypes
<1>3. sock[s] # NoSocket
  BY <1>1, <1>2 DEF SocketInv
<1>4. id[s] \in (Nat \ {NoId}) \ Range(notified)
  BY <1>2, <1>3 DEF IdInv, FieldTypes, PoolTypes
<1>5. Conn[s] = id[s] /\ Conn' = [Conn EXCEPT ![s] = NoId]
  BY <1>1, <1>2, <1>3 DEF Conn, FieldTypes
<1>6. Phase[s] = "closing" /\ Phase' = Phase
  BY <1>1 DEF Phase, InPool
<1>7. Range(notified') = Range(notified) \cup {id[s]}
  <2> DEFINE n == Len(notified)
  <2>1. /\ n \in Nat /\ Len(notified') = n + 1
        /\ notified'[n + 1] = id[s]
        /\ \A i \in 1..n : notified'[i] = notified[i]
        /\ notified' \in Seq(Nat)
    BY <1>1, <1>2, <1>4, StackPush
  <2>2. /\ Range(notified) = {notified[i] : i \in 1..n}
        /\ Range(notified') = {notified'[i] : i \in 1..(n + 1)}
    <3>1. Range(notified) = {notified[i] : i \in 1..n}
      BY <1>2, RangeOf
    <3>2. Range(notified') = {notified'[i] : i \in 1..Len(notified')}
      BY <2>1, RangeOf
    <3>3. QED
      BY <2>1, <3>1, <3>2
  <2> HIDE DEF n
  <2>3. \A i : i \in 1..(n + 1) <=> (i \in 1..n \/ i = n + 1)
    BY <2>1
  <2>4. QED
    BY <2>1, <2>2, <2>3
<1>8. QED
  BY <1>4, <1>5, <1>6, <1>7, MappedSteps

\* SessionPool::Release recycles the slot.
LEMMA PushRecycles ==
  ASSUME LifeInv, NEW t \in Threads, ReturnToPool(t)
  PROVE  L!LNext
<1>1. PICK s \in Sessions :
        /\ Holds(t, s) /\ sock[s] = NoSocket
        /\ \A r \in Sessions : InPool(r)' <=> (InPool(r) \/ r = s)
        /\ UNCHANGED <<sock, id, connected, notified>>
  BY PushLife
<1>2. ~connected[s] /\ ~InPool(s)
  BY <1>1 DEF LifeInv, PoolInv, PoolIntegrity, OnePlace
<1>3. Phase[s] = "closing" /\ Phase' = [Phase EXCEPT ![s] = "free"]
  BY <1>1, <1>2 DEF Phase
<1>4. Conn[s] = NoId /\ Conn' = Conn /\ Range(notified') = Range(notified)
  BY <1>1 DEF Conn
<1>5. QED
  BY <1>3, <1>4, MappedSteps

\* SessionPool::Acquire and Session::Init establish a new one.
LEMMA AcquireEstablishes ==
  ASSUME LifeInv, NEW t \in Threads, AcquireSession(t)
  PROVE  L!LNext
<1>1. PICK s \in Sessions :
        /\ InPool(s) /\ ~connected[s]
        /\ csock[t] # NoSocket
        /\ sock' = [sock EXCEPT ![s] = csock[t]]
        /\ connected' = [connected EXCEPT ![s] = TRUE]
        /\ id' = [id EXCEPT ![s] = nextId]
        /\ \A r \in Sessions : InPool(r)' <=> (InPool(r) /\ r # s)
        /\ notified' = notified
  BY Establishes
<1>2. FieldTypes /\ IdInv /\ nextId \in Nat \ {0} /\ notified \in Seq(Nat)
  BY DEF LifeInv, PoolInv, TypeOK, PoolTypes, HistoryTypes
<1>3. \A r \in Sessions : /\ sock'[r] = IF r = s THEN csock[t] ELSE sock[r]
                          /\ connected'[r] = IF r = s THEN TRUE ELSE connected[r]
                          /\ id'[r] = IF r = s THEN nextId ELSE id[r]
  BY <1>1, <1>2 DEF FieldTypes
<1>4. Phase[s] = "free" /\ Phase' = [Phase EXCEPT ![s] = "serving"]
  <2>1. \A r \in Sessions : Phase'[r] = IF r = s THEN "serving" ELSE Phase[r]
    BY <1>1, <1>3 DEF Phase
  <2>2. QED
    BY <1>1, <2>1 DEF Phase
<1>5. Conn'[s] = nextId /\ Conn' = [Conn EXCEPT ![s] = Conn'[s]]
  BY <1>1, <1>3 DEF Conn
<1>6. \A r \in Sessions : Conn[r] # nextId
  BY <1>2 DEF Conn, FieldTypes, NoId
<1>7. nextId \in (Nat \ {NoId}) \ Range(notified)
  <2>1. \A i \in 1..Len(notified) : notified[i] # nextId
    BY <1>2 DEF IdInv
  <2>2. Range(notified) = {notified[i] : i \in 1..Len(notified)}
    BY <1>2 DEF Range
  <2>3. QED
    BY <1>2, <2>1, <2>2 DEF NoId
<1>8. QED
  BY <1>1, <1>4, <1>5, <1>6, <1>7, MappedSteps

LEMMA LifecycleInit == Init => L!LInit
<1> SUFFICES ASSUME Init PROVE L!LInit
  OBVIOUS
<1>1. /\ sock = [s \in Sessions |-> NoSocket] /\ connected = [s \in Sessions |-> FALSE]
      /\ notified = <<>> /\ freeIndices = [i \in 1..MaxSessions |-> i]
  BY DEF Init, SessionInit, SessionPoolInit
<1>2. \A s \in Sessions : InPool(s)
  <2>1. Len(freeIndices) = MaxSessions
    BY <1>1, MaxSessionsAssumption
  <2>2. QED
    BY <1>1, <2>1 DEF InPool, Sessions
<1>3. Phase = [s \in Sessions |-> "free"] /\ Conn = [s \in Sessions |-> NoId]
  BY <1>1, <1>2 DEF Phase, Conn
<1>4. Range(notified) = {}
  BY <1>1 DEF Range
<1>5. QED
  BY <1>3, <1>4, MappedSteps

LEMMA LifecycleStep ==
  LifeInv /\ ~AssocMayFail /\ [Next]_vars => [L!LNext]_(L!lifecycleVars)
<1> SUFFICES ASSUME LifeInv, ~AssocMayFail, [Next]_vars
             PROVE  L!LNext \/ UNCHANGED L!lifecycleVars
  OBVIOUS
<1>1. ASSUME UNCHANGED lifeVars PROVE UNCHANGED L!lifecycleVars
  BY <1>1, StaysMapped DEF lifeVars
<1>2. CASE UNCHANGED vars
  <2>1. UNCHANGED lifeVars
    BY <1>2 DEF vars, poolVars, fieldVars, ghostVars, lifeVars
  <2>2. QED
    BY <1>1, <2>1
<1>3. CASE Start \/ Stop \/ Joined
  BY <1>1, <1>3, MainLife
<1>4. ASSUME NEW t \in Threads, Runs(t) \/ Completes(t) \/ Chooses(t)
      PROVE  L!LNext \/ UNCHANGED L!lifecycleVars
  <2>1. CASE Quiet(t)
    BY <1>1, <2>1 DEF Quiet
  <2>2. CASE ReleaseWipes(t)
    BY <2>2, WipeLife, StaysMapped
  <2>3. CASE DisconnectWins(t) \/ CloseSocket(t) \/ ReturnToPool(t) \/ AcquireSession(t)
    BY <2>3, WinsDrops, CloseReports, PushRecycles, AcquireEstablishes
  <2>4. CASE AcceptCompletes(t) \/ AppConnects(t)
    BY <1>1, <2>4, AcceptLife, ConnectLife
  <2>5. QED
    BY <1>4, <2>1, <2>2, <2>3, <2>4, LifeSteps
<1>5. QED
  BY <1>2, <1>3, <1>4 DEF Next

\* As long as every accepted socket can be associated with the completion port,
\* the session layer implements SessionLifecycle: every step of every thread is
\* one abstract step of one slot or none, for any number of workers, application
\* threads, sessions, buffers and connections (Session, SessionPool).
THEOREM LifecycleHolds ==
  ASSUME ~AssocMayFail
  PROVE  Spec => Lifecycle
<1>1. Init => LifeInv /\ L!LInit
  BY LifeInit, LifecycleInit
<1>2. LifeInv /\ [Next]_vars => LifeInv' /\ [L!LNext]_(L!lifecycleVars)
  BY LifeStep, LifecycleStep
<1>3. QED
  BY <1>1, <1>2, PTL DEF Spec, Lifecycle, L!LSpec

-----------------------------------------------------------------------------
(* A free session carries nothing over.  The holder wipes the flags, then   *)
(* the queue and the OverlappedEx members; from the first of these on, a    *)
(* late call on the session finds no owner and touches nothing, but for the *)
(* PostRecv that had looked before: it fills recvOvl_ all the same.         *)

Wiped(s) == sock[s] = NoSocket /\ ~owner[s] /\ ~sending[s] /\ id[s] = NoId

Clean(s) ==
  /\ Wiped(s) /\ sendQueue[s] = <<>> /\ sendOvl[s] = NoBuffer
  /\ recvOvl[s] = NoBuffer \/ s \in late

CleanInv ==
  /\ \A t \in Threads, s \in Sessions : At(t, "reset", s) => Wiped(s)
  /\ \A t \in Threads, s \in Sessions : At(t, "push", s) => Clean(s)
  /\ \A s \in Sessions : InPool(s) => Clean(s)

FreeInv == LifeInv /\ CleanInv

cleanVars == <<sock, owner, sending, id, sendQueue, recvOvl, sendOvl, late>>

\* A wiped session stays wiped, a clean one clean.
KeepsClean == \A s \in Sessions : (Wiped(s) => Wiped(s)') /\ (Clean(s) => Clean(s)')

\* Thread t comes to neither of the labels CleanInv is about.
StaysAway(t) ==
  /\ \A u \in Threads \ {t} : pc'[u] = pc[u] /\ cur'[u] = cur[u]
  /\ \/ pc'[t] \notin {"reset", "push"}
     \/ pc'[t] = pc[t] /\ cur'[t] = cur[t]

LEMMA ReturnStays ==
  ASSUME PoolInv, NEW t \in Threads, Return(t)
  PROVE  StaysAway(t)
<1>1. Calm(t) /\ pc'[t] \in {"idle", "process", "unlock"}
  BY CalmReturn
<1>2. QED
  BY <1>1 DEF Calm, StaysAway

LEMMA GotoStays ==
  ASSUME PoolInv, NEW t \in Threads, NEW l, Goto(t, l), l \notin {"reset", "push"}
  PROVE  StaysAway(t)
BY DEF PoolInv, TypeOK, ControlTypes, Goto, StaysAway

LEMMA BeginStays ==
  ASSUME PoolInv, NEW t \in Threads, NEW l, NEW s, Begin(t, l, s), l \notin {"reset", "push"}
  PROVE  StaysAway(t)
BY DEF PoolInv, TypeOK, ControlTypes, Begin, StaysAway

LEMMA CallStays ==
  ASSUME PoolInv, NEW t \in Threads, NEW l, NEW r, Call(t, l, r), l \notin {"reset", "push"}
  PROVE  StaysAway(t)
BY DEF PoolInv, TypeOK, ControlTypes, Call, StaysAway

LEMMA StillStays ==
  ASSUME NEW t \in Threads, UNCHANGED <<pc, cur>>
  PROVE  StaysAway(t)
BY DEF StaysAway

LEMMA StaysClean ==
  ASSUME FreeInv, NEW t \in Threads, StaysAway(t), KeepsClean, freeIndices' = freeIndices
  PROVE  CleanInv'
<1>1. \A u \in Threads, s \in Sessions :
        (At(u, "reset", s)' => At(u, "reset", s)) /\ (At(u, "push", s)' => At(u, "push", s))
  BY DEF StaysAway, At
<1>2. \A s \in Sessions : InPool(s)' <=> InPool(s)
  BY DEF InPool
<1>3. QED
  BY <1>1, <1>2 DEF FreeInv, CleanInv, KeepsClean

LEMMA SameFieldsClean ==
  ASSUME UNCHANGED cleanVars
  PROVE  KeepsClean
BY DEF cleanVars, KeepsClean, Wiped, Clean

\* PostSend writes to no clean session: it has no owner.
LEMMA PostSendClean ==
  ASSUME PoolInv, NEW t \in Threads, NEW s \in Sessions, NEW q, NEW f, PostSend(t, s, q, f),
         ~owner[s] => q = <<>>, UNCHANGED <<sock, owner, id, recvOvl, late>>
  PROVE  KeepsClean
<1>1. FieldTypes
  BY DEF PoolInv, TypeOK
<1>2. CASE q = <<>>
  <2>1. /\ sending' = [sending EXCEPT ![s] = FALSE]
        /\ sendQueue' = [sendQueue EXCEPT ![s] = <<>>]
        /\ sendOvl' = sendOvl
    BY <1>2 DEF PostSend
  <2>2. QED
    BY <1>1, <2>1 DEF FieldTypes, KeepsClean, Wiped, Clean
<1>3. CASE q # <<>>
  <2>1. /\ owner[s]
        /\ \A r \in Sessions \ {s} :
             sending'[r] = sending[r] /\ sendQueue'[r] = sendQueue[r] /\ sendOvl'[r] = sendOvl[r]
    BY <1>1, <1>3 DEF PostSend, FieldTypes
  <2>2. QED
    BY <2>1 DEF KeepsClean, Wiped, Clean
<1>4. QED
  BY <1>2, <1>3

LEMMA SendLockedClean ==
  ASSUME PoolInv, NEW t \in Threads, SendLocked(t)
  PROVE  KeepsClean /\ StaysAway(t)
<1> DEFINE c == job[t].conn
           j == [conn |-> c, n |-> accepted[c] + 1]
<1>1. PICK s \in Sessions :
        \/ /\ sending[s]
           /\ sendQueue' = [sendQueue EXCEPT ![s] = Enqueue(sendQueue[s], j)]
           /\ Return(t)
           /\ UNCHANGED <<sending, sendOvl>>
        \/ PostSend(t, s, Enqueue(sendQueue[s], j), TRUE)
  BY DEF SendLocked, SendInProgress
<1>2. UNCHANGED <<sock, owner, id, recvOvl, late>>
  BY DEF SendLocked
<1>3. FieldTypes
  BY DEF PoolInv, TypeOK
<1> HIDE DEF j
<1>4. CASE /\ sending[s]
           /\ sendQueue' = [sendQueue EXCEPT ![s] = Enqueue(sendQueue[s], j)]
           /\ Return(t)
           /\ UNCHANGED <<sending, sendOvl>>
  <2>1. \A r \in Sessions \ {s} : sendQueue'[r] = sendQueue[r]
    BY <1>3, <1>4 DEF FieldTypes
  <2>2. KeepsClean
    BY <1>2, <1>4, <2>1 DEF KeepsClean, Wiped, Clean
  <2>3. QED
    BY <1>4, <2>2, ReturnStays
<1>5. CASE PostSend(t, s, Enqueue(sendQueue[s], j), TRUE)
  <2>1. Enqueue(sendQueue[s], j) # <<>>
    <3>1. sendQueue[s] \in Seq(Jobs)
      BY <1>3 DEF FieldTypes
    <3>2. QED
      BY <3>1 DEF Enqueue
  <2>2. owner[s] /\ (Return(t) \/ Call(t, "disconnect", "unlock"))
    BY <1>5, <2>1 DEF PostSend
  <2>3. KeepsClean
    BY <1>2, <1>5, <2>2, PostSendClean
  <2>4. QED
    BY <2>2, <2>3, ReturnStays, CallStays
<1>6. QED
  BY <1>1, <1>4, <1>5

\* The queue of a clean session is empty, of a wiped one at most left over:
\* PostSend drops out on its null owner before it writes.
LEMMA SendNextClean ==
  ASSUME PoolInv, NEW t \in Threads, SendNext(t)
  PROVE  KeepsClean /\ StaysAway(t)
<1>1. PICK s \in Sessions : PostSend(t, s, sendQueue[s], sending[s])
  BY DEF SendNext
<1>2. UNCHANGED <<sock, owner, id, recvOvl, late>>
  BY DEF SendNext
<1>3. ~owner[s] => sendQueue[s] = <<>>
  BY <1>1 DEF PostSend
<1>4. Return(t) \/ Call(t, "disconnect", "unlock")
  BY <1>1 DEF PostSend
<1>5. KeepsClean
  BY <1>1, <1>2, <1>3, PostSendClean
<1>6. QED
  BY <1>4, <1>5, ReturnStays, CallStays

\* The holder wipes the flags,
LEMMA WipeClean ==
  ASSUME FreeInv, NEW t \in Threads, ReleaseWipes(t)
  PROVE  CleanInv'
<1>1. PICK s \in Sessions :
        /\ At(t, "release", s) \/ At(t, "wipe", s)
        /\ WipeFields(s)
        /\ Goto(t, "reset")
        /\ UNCHANGED <<freeIndices, late>>
  BY DEF ReleaseWipes, ghostVars
<1>2. FieldTypes /\ ControlTypes
  BY DEF FreeInv, LifeInv, PoolInv, TypeOK
<1>3. Wiped(s)'
  BY <1>1, <1>2 DEF WipeFields, FieldTypes, Wiped
<1>4. KeepsClean
  BY <1>1, <1>2 DEF WipeFields, FieldTypes, KeepsClean, Wiped, Clean
<1>5. \A u \in Threads, r \in Sessions : At(u, "reset", r)' => (At(u, "reset", r) \/ r = s)
  BY <1>1, <1>2 DEF Goto, At, ControlTypes
<1>6. \A u \in Threads, r \in Sessions : At(u, "push", r)' => At(u, "push", r)
  BY <1>1, <1>2 DEF Goto, At, ControlTypes
<1>7. \A r \in Sessions : InPool(r)' <=> InPool(r)
  BY <1>1 DEF InPool
<1>8. QED
  BY <1>3, <1>4, <1>5, <1>6, <1>7 DEF FreeInv, CleanInv, KeepsClean

\* then the members,
LEMMA ResetClean ==
  ASSUME FreeInv, NEW t \in Threads, ResetSession(t)
  PROVE  CleanInv'
<1>1. PICK s \in Sessions :
        /\ At(t, "reset", s)
        /\ ResetMembers(s)
        /\ Goto(t, "push")
        /\ late' = late \ {s}
        /\ UNCHANGED <<freeIndices, sock, owner, sending, id>>
  BY DEF ResetSession
<1>2. FieldTypes /\ ControlTypes /\ Wiped(s)
  BY <1>1 DEF FreeInv, CleanInv, LifeInv, PoolInv, TypeOK
<1>3. Clean(s)'
  BY <1>1, <1>2 DEF ResetMembers, FieldTypes, Wiped, Clean
<1>4. KeepsClean
  BY <1>1, <1>2 DEF ResetMembers, FieldTypes, KeepsClean, Wiped, Clean
<1>5. \A u \in Threads, r \in Sessions : At(u, "push", r)' => (At(u, "push", r) \/ r = s)
  BY <1>1, <1>2 DEF Goto, At, ControlTypes
<1>6. \A u \in Threads, r \in Sessions : At(u, "reset", r)' => At(u, "reset", r)
  BY <1>1, <1>2 DEF Goto, At, ControlTypes
<1>7. \A r \in Sessions : InPool(r)' <=> InPool(r)
  BY <1>1 DEF InPool
<1>8. QED
  BY <1>3, <1>4, <1>5, <1>6, <1>7 DEF FreeInv, CleanInv, KeepsClean

\* and pushes the index.
LEMMA PushClean ==
  ASSUME FreeInv, NEW t \in Threads, ReturnToPool(t)
  PROVE  CleanInv'
<1>1. PICK s \in Sessions :
        /\ At(t, "push", s)
        /\ freeIndices' = Append(freeIndices, s)
        /\ Return(t)
        /\ UNCHANGED <<fieldVars, late>>
  BY DEF ReturnToPool, PushSession, ghostVars
<1>2. \A r \in Sessions : InPool(r)' => (InPool(r) \/ r = s)
  <2>1. freeIndices \in Seq(Sessions)
    BY DEF FreeInv, LifeInv, PoolInv, TypeOK, PoolTypes
  <2>2. /\ Len(freeIndices') = Len(freeIndices) + 1
        /\ freeIndices'[Len(freeIndices) + 1] = s
        /\ \A i \in 1..Len(freeIndices) : freeIndices'[i] = freeIndices[i]
        /\ Len(freeIndices) \in Nat
    BY <1>1, <2>1, StackPush
  <2>3. \A i \in 1..Len(freeIndices') : i \in 1..Len(freeIndices) \/ i = Len(freeIndices) + 1
    BY <2>2
  <2>4. QED
    BY <2>2, <2>3 DEF InPool
<1>3. Clean(s)
  BY <1>1 DEF FreeInv, CleanInv
<1>4. KeepsClean
  BY <1>1, SameFieldsClean DEF fieldVars, cleanVars
<1>5. StaysAway(t)
  BY <1>1, ReturnStays DEF FreeInv, LifeInv
<1>6. \A u \in Threads, r \in Sessions :
        (At(u, "reset", r)' => At(u, "reset", r)) /\ (At(u, "push", r)' => At(u, "push", r))
  BY <1>5 DEF StaysAway, At
<1>7. QED
  BY <1>1, <1>2, <1>3, <1>4, <1>6 DEF FreeInv, CleanInv, KeepsClean

\* Acquire takes its session out of the pool, and nobody is releasing it.
LEMMA AcquireClean ==
  ASSUME FreeInv, NEW t \in Threads, AcquireSession(t)
  PROVE  CleanInv'
<1>1. PICK s \in Sessions :
        /\ \A u \in Threads : ~Holds(u, s)
        /\ \A r \in Sessions : InPool(r)' <=> (InPool(r) /\ r # s)
        /\ Begin(t, "associate", s)
        /\ pc[t] = "acquire"
  BY Establishes DEF FreeInv
<1>2. PICK q \in Sessions : InitSession(q, csock[t]) /\ Begin(t, "associate", q) /\ late' = late
  BY DEF AcquireSession, ghostVars
<1>3. FieldTypes /\ ControlTypes
  BY DEF FreeInv, LifeInv, PoolInv, TypeOK
<1>4. q = s
  BY <1>1, <1>2, <1>3 DEF Begin, ControlTypes
<1>5. \A r \in Sessions \ {s} : (Wiped(r) => Wiped(r)') /\ (Clean(r) => Clean(r)')
  BY <1>2, <1>3, <1>4 DEF InitSession, FieldTypes, Wiped, Clean
<1>6. \A u \in Threads, r \in Sessions :
        /\ At(u, "reset", r)' => At(u, "reset", r) /\ r # s
        /\ At(u, "push", r)' => At(u, "push", r) /\ r # s
  BY <1>1, <1>3 DEF Begin, At, Holds, HoldLabels, ControlTypes
<1>7. QED
  BY <1>1, <1>5, <1>6 DEF FreeInv, CleanInv

LEMMA CleanSessionStep ==
  ASSUME FreeInv, NEW t \in Threads, SessionNext(t)
  PROVE  CleanInv'
<1> USE DEF fieldVars, threadVars, ghostVars, cleanVars
<1>1. PoolInv
  BY DEF FreeInv, LifeInv
<1>2. SUFFICES ASSUME ~ReleaseWipes(t), ~ResetSession(t), ~ReturnToPool(t)
               PROVE  StaysAway(t) /\ KeepsClean /\ freeIndices' = freeIndices
  BY WipeClean, ResetClean, PushClean, StaysClean
<1>3. CASE NullOwner(t)
  BY <1>3, StillStays, SameFieldsClean DEF NullOwner
<1>4. CASE DisconnectLoses(t) \/ PostRecvNoBuffer(t) \/ Unlock(t)
  BY <1>1, <1>4, ReturnStays, SameFieldsClean DEF DisconnectLoses, PostRecvNoBuffer, Unlock
<1>5. CASE DisconnectWins(t)
  BY <1>1, <1>5, GotoStays, SameFieldsClean DEF DisconnectWins
<1>6. CASE ReleaseDisconnects(t)
  BY <1>1, <1>6, CallStays, SameFieldsClean DEF ReleaseDisconnects
<1>7. CASE RelockHangs(t)
  BY <1>1, <1>7, GotoStays, SameFieldsClean DEF RelockHangs
<1>8. CASE CloseSocket(t)
  <2>1. PICK s \in Sessions :
          /\ sock' = [sock EXCEPT ![s] = NoSocket]
          /\ Return(t) \/ Goto(t, "release")
          /\ UNCHANGED <<freeIndices, owner, sending, id, recvOvl, sendOvl, sendQueue, late>>
    BY <1>8 DEF CloseSocket
  <2>2. KeepsClean
    BY <1>1, <2>1 DEF PoolInv, TypeOK, FieldTypes, KeepsClean, Wiped, Clean
  <2>3. QED
    BY <1>1, <2>1, <2>2, ReturnStays, GotoStays
<1>9. CASE PostRecvSetsUp(t)
  <2>1. PICK s \in Sessions :
          /\ recvOvl' = [recvOvl EXCEPT ![s] = rbuf[t]]
          /\ late' = IF owner[s] THEN late \ {s} ELSE late \cup {s}
          /\ Goto(t, "receive")
          /\ UNCHANGED <<freeIndices, sock, owner, sending, id, sendOvl, sendQueue>>
    BY <1>9 DEF PostRecvSetsUp
  <2>2. KeepsClean
    BY <1>1, <2>1 DEF PoolInv, TypeOK, FieldTypes, KeepsClean, Wiped, Clean
  <2>3. QED
    BY <1>1, <2>1, <2>2, GotoStays
<1>9a. CASE PostRecvAcquires(t)
  BY <1>1, <1>9a, GotoStays, SameFieldsClean DEF PostRecvAcquires
<1>9b. CASE PostRecvCall(t)
  <2>1. /\ Return(t) \/ Goto(t, "disconnect")
        /\ UNCHANGED <<freeIndices, cleanVars>>
    BY <1>9b DEF PostRecvCall
  <2>2. QED
    BY <1>1, <2>1, ReturnStays, GotoStays, SameFieldsClean
<1>10. CASE SendLocked(t)
  BY <1>1, <1>10, SendLockedClean DEF SendLocked
<1>11. CASE SendNext(t)
  BY <1>1, <1>11, SendNextClean DEF SendNext
<1>12. CASE PacketsProcessed(t)
  <2>1. /\ Return(t) \/ Goto(t, "postRecv")
        /\ UNCHANGED <<freeIndices, cleanVars>>
    BY <1>12 DEF PacketsProcessed, TryPostRecv
  <2>2. QED
    BY <1>1, <2>1, ReturnStays, GotoStays, SameFieldsClean
<1>13. QED
  BY <1>2, <1>3, <1>4, <1>5, <1>6, <1>7, <1>8, <1>9, <1>9a, <1>9b, <1>10, <1>11, <1>12 DEF SessionNext

LEMMA CleanServerStep ==
  ASSUME FreeInv, ~AssocMayFail, NEW t \in Threads,
         \/ PoolExhausted(t) \/ Associate(t) \/ ForgetBuffer(t) \/ AssociateFails(t)
         \/ WorkerLoops(t) \/ WorkerBreaks(t) \/ Completes(t) \/ Chooses(t)
  PROVE  CleanInv'
<1> USE DEF poolVars, fieldVars, threadVars, ghostVars, cleanVars
<1>1. PoolInv
  BY DEF FreeInv, LifeInv
<1>2. UNCHANGED <<freeIndices, cleanVars>>
  <2>1. CASE PoolExhausted(t) \/ Associate(t) \/ ForgetBuffer(t) \/ AssociateFails(t)
    BY <2>1 DEF PoolExhausted, Associate, ForgetBuffer, AssociateFails
  <2>2. CASE WorkerLoops(t) \/ WorkerBreaks(t)
    BY <2>2 DEF WorkerLoops, WorkerBreaks
  <2>3. CASE Completes(t)
    BY <2>3 DEF Completes, AcceptCompletes, DropCompletion, CompletionNullOwner, RecvEnds,
                RecvDelivers, SendCompletes
  <2>4. CASE Chooses(t)
    BY <2>4 DEF Chooses, AppConnects, AppSends, AppDisconnects, HandlerSends, HandlerDisconnects
  <2>5. QED
    BY <2>1, <2>2, <2>3, <2>4
<1>3. StaysAway(t)
  <2>1. CASE PoolExhausted(t)
    BY <1>1, <2>1, ReturnStays DEF PoolExhausted
  <2>2. CASE Associate(t) \/ ForgetBuffer(t)
    <3>1. Return(t) \/ Goto(t, "postRecv") \/ Goto(t, "forget")
      BY <2>2 DEF Associate, ForgetBuffer, TryPostRecv
    <3>2. QED
      BY <1>1, <3>1, ReturnStays, GotoStays
  <2>3. CASE AssociateFails(t)
    BY <2>3 DEF AssociateFails
  <2>4. CASE WorkerLoops(t) \/ WorkerBreaks(t)
    <3>1. Goto(t, "wait") \/ Goto(t, "exited")
      BY <2>4 DEF WorkerLoops, WorkerBreaks
    <3>2. QED
      BY <1>1, <3>1, GotoStays
  <2>5. CASE AcceptCompletes(t) \/ AppConnects(t) \/ DropCompletion(t)
    <3>1. Goto(t, "acquire") \/ Goto(t, "idle")
      BY <2>5 DEF AcceptCompletes, AppConnects, DropCompletion
    <3>2. QED
      BY <1>1, <3>1, GotoStays
  <2>6. CASE CompletionNullOwner(t)
    BY <2>6, StillStays DEF CompletionNullOwner
  <2>7. CASE RecvEnds(t) \/ RecvDelivers(t) \/ SendCompletes(t) \/ AppSends(t) \/ AppDisconnects(t)
    <3>1. \E s, l : Begin(t, l, s) /\ l \in {"disconnect", "process", "sendDone", "send"}
      BY <2>7 DEF RecvEnds, RecvDelivers, SendCompletes, AppSends, AppDisconnects
    <3>2. QED
      BY <1>1, <3>1, BeginStays
  <2>8. CASE HandlerSends(t) \/ HandlerDisconnects(t)
    <3>1. Call(t, "send", "process") \/ Call(t, "disconnect", "process")
      BY <2>8 DEF HandlerSends, HandlerDisconnects
    <3>2. QED
      BY <1>1, <3>1, CallStays
  <2>9. QED
    BY <2>1, <2>2, <2>3, <2>4, <2>5, <2>6, <2>7, <2>8 DEF Completes, Chooses
<1>4. QED
  BY <1>2, <1>3, SameFieldsClean, StaysClean

LEMMA CleanStutter ==
  ASSUME FreeInv, UNCHANGED <<pc, cur, freeIndices, cleanVars>>
  PROVE  CleanInv'
BY DEF FreeInv, CleanInv, cleanVars, At, InPool, Wiped, Clean

LEMMA FreeStep == FreeInv /\ ~AssocMayFail /\ [Next]_vars => FreeInv'
<1> SUFFICES ASSUME FreeInv, ~AssocMayFail, [Next]_vars PROVE FreeInv'
  OBVIOUS
<1>1. LifeInv'
  BY LifeStep DEF FreeInv
<1>2. CASE UNCHANGED vars
  <2>1. UNCHANGED <<pc, cur, freeIndices, cleanVars>>
    BY <1>2 DEF vars, poolVars, fieldVars, threadVars, ghostVars, cleanVars
  <2>2. QED
    BY <1>1, <2>1, CleanStutter DEF FreeInv
<1>3. CASE Start \/ Stop \/ Joined
  <2>1. UNCHANGED <<pc, cur, freeIndices, cleanVars>>
    BY <1>3 DEF Start, Stop, Joined, poolVars, fieldVars, threadVars, ghostVars, cleanVars
  <2>2. QED
    BY <1>1, <2>1, CleanStutter DEF FreeInv
<1>4. ASSUME NEW t \in Threads, Runs(t) \/ Completes(t) \/ Chooses(t)
      PROVE  CleanInv'
  BY <1>4, CleanSessionStep, CleanServerStep, AcquireClean DEF Runs
<1>5. QED
  BY <1>1, <1>2, <1>3, <1>4 DEF Next, FreeInv

LEMMA FreeInit == Init => FreeInv
<1> SUFFICES ASSUME Init PROVE FreeInv
  OBVIOUS
<1>1. LifeInv
  BY LifeInit
<1>2. freeIndices \in Seq(Sessions)
  BY <1>1 DEF LifeInv, PoolInv, TypeOK, PoolTypes
<1>3. \A s \in Sessions : Clean(s)
  BY DEF Init, SessionInit, Wiped, Clean
<1>4. CleanInv
  BY <1>3 DEF CleanInv, Clean
<1>5. QED
  BY <1>1, <1>4 DEF FreeInv

\* As long as every accepted socket can be associated with the completion port,
\* a session on the pool's stack has no socket, owner, id, send buffer or queued
\* message of its last connection, for any number of workers, application threads,
\* sessions, buffers and connections, and it has a receive buffer only if a
\* PostRecv set it up after the session was wiped (Session::ResetForReuse,
\* PostRecv, PostSend).
THEOREM FreeSessionsAreClean ==
  ASSUME ~AssocMayFail
  PROVE  Spec => []FreeIsClean
<1>1. Init => FreeInv
  BY FreeInit
<1>2. FreeInv /\ [Next]_vars => FreeInv'
  BY FreeStep
<1>3. FreeInv => FreeIsClean
  BY DEF FreeInv, CleanInv, FreeIsClean, Clean, Wiped
<1>4. QED
  BY <1>1, <1>2, <1>3, PTL DEF Spec

-----------------------------------------------------------------------------
(* The sockets.  A handle moves from PostAccept or ConnectTo to a thread on *)
(* its way to AcquireSession and from there to a session; each of these is  *)
(* its only place, and leaving the last one closes it.                      *)

SocketTypes == \A c \in open : c < nextSock

\* Who keeps a socket keeps an open one, alone.
KeepersInv ==
  /\ \A s \in Sessions : sock[s] # NoSocket => sock[s] \in open
  /\ \A t \in Threads : csock[t] # NoSocket => csock[t] \in open /\ pc[t] = "acquire"
  /\ acceptSock # NoSocket => acceptSock \in open
  /\ \A r, s \in Sessions : sock[r] = sock[s] /\ sock[s] # NoSocket => r = s
  /\ \A t, u \in Threads : csock[t] = csock[u] /\ csock[u] # NoSocket => t = u
  /\ \A s \in Sessions, t \in Threads : sock[s] # NoSocket => sock[s] # csock[t]
  /\ \A s \in Sessions : sock[s] # NoSocket => sock[s] # acceptSock
  /\ \A t \in Threads : csock[t] # NoSocket => csock[t] # acceptSock

\* Every open socket is kept.
KeptInv ==
  \A c \in open :
    (\E s \in Sessions : sock[s] = c) \/ (\E t \in Threads : csock[t] = c) \/ acceptSock = c

KeepInv ==
  /\ LifeInv /\ SocketTypes /\ KeepersInv /\ KeptInv
  /\ main = "new" => acceptSock = NoSocket

socketVars == <<sock, csock, acceptSock, open, nextSock>>

OthersWait(t) == \A u \in Threads \ {t} : pc'[u] = pc[u]

LEMMA OneMoves ==
  ASSUME ControlTypes, NEW t \in Threads
  PROVE  /\ \A l : Goto(t, l) => OthersWait(t)
         /\ \A l, s : Begin(t, l, s) => OthersWait(t)
         /\ \A l, r : Call(t, l, r) => OthersWait(t)
         /\ Return(t) => OthersWait(t)
BY DEF ControlTypes, Goto, Begin, Call, Return, OthersWait

LEMMA SameSockets ==
  ASSUME KeepInv, UNCHANGED socketVars, main' = "new" => main = "new",
         NEW t \in Threads, pc[t] # "acquire" \/ pc' = pc, OthersWait(t) \/ pc' = pc
  PROVE  SocketTypes' /\ KeepersInv' /\ KeptInv' /\ (main' = "new" => acceptSock' = NoSocket)
<1>1. \A u \in Threads : pc[u] = "acquire" => pc'[u] = "acquire"
  BY DEF OthersWait
<1>2. UNCHANGED <<sock, csock, acceptSock, open, nextSock>>
  BY DEF socketVars
<1>3. SocketTypes'
  BY <1>2 DEF KeepInv, SocketTypes
<1>4. KeepersInv'
  BY <1>1, <1>2 DEF KeepInv, KeepersInv
<1>5. KeptInv'
  BY <1>2 DEF KeepInv, KeptInv
<1>6. QED
  BY <1>2, <1>3, <1>4, <1>5 DEF KeepInv

\* closesocket(sock_) closes the socket where the session leaves it.
LEMMA CloseKeeps ==
  ASSUME KeepInv, NEW t \in Threads, CloseSocket(t), UNCHANGED serverVars
  PROVE  SocketTypes' /\ KeepersInv' /\ KeptInv' /\ (main' = "new" => acceptSock' = NoSocket)
<1>1. PICK s \in Sessions :
        /\ At(t, "close", s)
        /\ open' = open \ {sock[s]}
        /\ sock' = [sock EXCEPT ![s] = NoSocket]
        /\ UNCHANGED <<csock, nextSock>>
        /\ Return(t) \/ Goto(t, "release")
  BY DEF CloseSocket
<1>2. KeepersInv /\ KeptInv /\ SocketTypes /\ FieldTypes /\ ControlTypes
  BY DEF KeepInv, LifeInv, PoolInv, TypeOK
<1>3. sock[s] # NoSocket
  BY <1>1 DEF KeepInv, LifeInv, SocketInv
<1>4. \A r \in Sessions : sock'[r] = IF r = s THEN NoSocket ELSE sock[r]
  BY <1>1, <1>2 DEF FieldTypes
<1>5. \A u \in Threads : pc[u] = "acquire" => pc'[u] = "acquire"
  BY <1>1, <1>2, OneMoves DEF OthersWait, At
<1>6. csock' = csock /\ acceptSock' = acceptSock /\ main' = main
  BY <1>1 DEF serverVars
<1>7. KeepersInv'
  <2>1. \A r \in Sessions : sock'[r] # NoSocket => sock'[r] \in open'
    BY <1>1, <1>2, <1>3, <1>4 DEF KeepersInv
  <2>2. \A u \in Threads : csock'[u] # NoSocket => csock'[u] \in open' /\ pc'[u] = "acquire"
    BY <1>1, <1>2, <1>3, <1>5, <1>6 DEF KeepersInv
  <2>3. acceptSock' # NoSocket => acceptSock' \in open'
    BY <1>1, <1>2, <1>3, <1>6 DEF KeepersInv
  <2>4. QED
    BY <1>2, <1>4, <1>6, <2>1, <2>2, <2>3 DEF KeepersInv
<1>8. KeptInv'
  BY <1>1, <1>2, <1>4, <1>6 DEF KeptInv
<1>9. SocketTypes'
  BY <1>1, <1>2 DEF SocketTypes
<1>10. QED
  BY <1>6, <1>7, <1>8, <1>9 DEF KeepInv

\* AcquireSession hands the thread's socket to the session.
LEMMA AcquireKeeps ==
  ASSUME KeepInv, NEW t \in Threads, AcquireSession(t)
  PROVE  SocketTypes' /\ KeepersInv' /\ KeptInv' /\ (main' = "new" => acceptSock' = NoSocket)
<1>1. PICK s \in Sessions :
        /\ InPool(s)
        /\ csock[t] # NoSocket
        /\ sock' = [sock EXCEPT ![s] = csock[t]]
        /\ csock' = [csock EXCEPT ![t] = NoSocket]
        /\ Begin(t, "associate", s)
  BY Establishes DEF KeepInv
<1>2. KeepersInv /\ KeptInv /\ SocketTypes /\ FieldTypes /\ ControlTypes /\ LocalTypes
  BY DEF KeepInv, LifeInv, PoolInv, TypeOK
<1>3. sock[s] = NoSocket
  BY <1>1 DEF KeepInv, LifeInv, SocketInv
<1>4. /\ \A r \in Sessions : sock'[r] = IF r = s THEN csock[t] ELSE sock[r]
      /\ \A u \in Threads : csock'[u] = IF u = t THEN NoSocket ELSE csock[u]
  BY <1>1, <1>2 DEF FieldTypes, LocalTypes
<1>5. \A u \in Threads \ {t} : pc'[u] = pc[u]
  BY <1>1, <1>2, OneMoves DEF OthersWait
<1>6. UNCHANGED <<open, nextSock, acceptSock, main>>
  BY DEF AcquireSession, kernelVars, serverVars
<1>7. KeepersInv'
  <2>1. \A r \in Sessions : sock'[r] # NoSocket => sock'[r] \in open'
    BY <1>2, <1>4, <1>6 DEF KeepersInv
  <2>2. \A u \in Threads : csock'[u] # NoSocket => csock'[u] \in open' /\ pc'[u] = "acquire"
    BY <1>2, <1>4, <1>5, <1>6 DEF KeepersInv
  <2>3. \A q, r \in Sessions : sock'[q] = sock'[r] /\ sock'[r] # NoSocket => q = r
    BY <1>1, <1>2, <1>4 DEF KeepersInv
  <2>4. \A r \in Sessions, u \in Threads : sock'[r] # NoSocket => sock'[r] # csock'[u]
    BY <1>1, <1>2, <1>4 DEF KeepersInv
  <2>5. \A u, v \in Threads : csock'[u] = csock'[v] /\ csock'[v] # NoSocket => u = v
    BY <1>2, <1>4 DEF KeepersInv
  <2>6. QED
    BY <1>1, <1>2, <1>4, <1>6, <2>1, <2>2, <2>3, <2>4, <2>5 DEF KeepersInv
<1>8. KeptInv'
  <2>1. SUFFICES ASSUME NEW c \in open
                 PROVE  \/ \E r \in Sessions : sock'[r] = c
                        \/ \E u \in Threads : csock'[u] = c
                        \/ acceptSock = c
    BY <1>6 DEF KeptInv
  <2>2. CASE \E r \in Sessions : sock[r] = c
    <3>1. PICK r \in Sessions : sock[r] = c
      BY <2>2
    <3>2. CASE r = s
      <4>1. c = NoSocket
        BY <1>3, <3>1, <3>2
      <4>2. c \in Sockets
        BY DEF KeepInv, LifeInv, PoolInv, TypeOK, KernelTypes
      <4>3. QED
        BY <4>1, <4>2 DEF Sockets, NoSocket
    <3>3. QED
      BY <1>4, <3>1, <3>2
  <2>3. CASE \E u \in Threads : csock[u] = c
    BY <1>1, <1>4, <2>3
  <2>4. QED
    BY <1>2, <2>2, <2>3 DEF KeptInv
<1>9. SocketTypes'
  BY <1>2, <1>6 DEF SocketTypes
<1>10. QED
  BY <1>6, <1>7, <1>8, <1>9 DEF KeepInv

\* Without a free session the thread closes its socket.
LEMMA ExhaustedKeeps ==
  ASSUME KeepInv, NEW t \in Threads, PoolExhausted(t)
  PROVE  SocketTypes' /\ KeepersInv' /\ KeptInv' /\ (main' = "new" => acceptSock' = NoSocket)
<1>1. /\ pc[t] = "acquire"
      /\ open' = open \ {csock[t]}
      /\ csock' = [csock EXCEPT ![t] = NoSocket]
      /\ Return(t)
      /\ UNCHANGED <<sock, nextSock, acceptSock, main>>
  BY DEF PoolExhausted, fieldVars, serverVars
<1>2. KeepersInv /\ KeptInv /\ SocketTypes /\ ControlTypes /\ LocalTypes
  BY DEF KeepInv, LifeInv, PoolInv, TypeOK
<1>3. csock[t] # NoSocket
  BY <1>1 DEF KeepInv, LifeInv, AcceptInv
<1>4. \A u \in Threads : csock'[u] = IF u = t THEN NoSocket ELSE csock[u]
  BY <1>1, <1>2 DEF LocalTypes
<1>5. \A u \in Threads \ {t} : pc'[u] = pc[u]
  BY <1>1, <1>2, OneMoves DEF OthersWait
<1>6. KeepersInv'
  <2>1. \A r \in Sessions : sock'[r] # NoSocket => sock'[r] \in open'
    BY <1>1, <1>2, <1>3 DEF KeepersInv
  <2>2. \A u \in Threads : csock'[u] # NoSocket => csock'[u] \in open' /\ pc'[u] = "acquire"
    BY <1>1, <1>2, <1>3, <1>4, <1>5 DEF KeepersInv
  <2>3. acceptSock' # NoSocket => acceptSock' \in open'
    BY <1>1, <1>2, <1>3 DEF KeepersInv
  <2>4. QED
    BY <1>1, <1>2, <1>4, <2>1, <2>2, <2>3 DEF KeepersInv
<1>7. KeptInv'
  BY <1>1, <1>2, <1>4 DEF KeptInv
<1>8. SocketTypes'
  BY <1>1, <1>2 DEF SocketTypes
<1>9. QED
  BY <1>1, <1>6, <1>7, <1>8 DEF KeepInv

\* PostAccept leaves no socket, or a new one.
LEMMA PostsSocket ==
  ASSUME NEW rest, PostAccept(rest)
  PROVE  \/ acceptSock' = NoSocket /\ open' = open /\ nextSock' = nextSock
         \/ acceptSock' = nextSock /\ open' = open \cup {nextSock} /\ nextSock' = nextSock + 1
BY DEF PostAccept

LEMMA NewSocket ==
  ASSUME KeepInv
  PROVE  /\ nextSock \in Nat \ {0} /\ nextSock # NoSocket /\ nextSock \notin open
         /\ \A c \in open : c \in Nat /\ c < nextSock + 1
         /\ \A s \in Sessions : sock[s] # nextSock
         /\ \A t \in Threads : csock[t] # nextSock
         /\ acceptSock # nextSock
<1>1. open \subseteq Sockets /\ nextSock \in 1..(MaxSockets + 1)
  BY DEF KeepInv, LifeInv, PoolInv, TypeOK, KernelTypes
<1>2. nextSock \in Nat \ {0} /\ \A c \in open : c \in Nat
  BY <1>1, BoundsAssumption DEF Sockets
<1>3. \A c \in open : c < nextSock
  BY DEF KeepInv, SocketTypes
<1>4. nextSock \notin open /\ \A c \in open : c < nextSock + 1
  BY <1>2, <1>3
<1>5. nextSock # NoSocket
  BY <1>2 DEF NoSocket
<1>6. QED
  BY <1>2, <1>4, <1>5 DEF KeepInv, KeepersInv

\* ConnectTo makes a socket and keeps it in a local.
LEMMA ConnectKeeps ==
  ASSUME KeepInv, NEW t \in Threads, AppConnects(t)
  PROVE  SocketTypes' /\ KeepersInv' /\ KeptInv' /\ (main' = "new" => acceptSock' = NoSocket)
<1>1. /\ pc[t] = "idle"
      /\ csock' = [csock EXCEPT ![t] = nextSock]
      /\ open' = open \cup {nextSock}
      /\ nextSock' = nextSock + 1
      /\ Goto(t, "acquire")
      /\ UNCHANGED <<sock, acceptSock, main>>
  BY DEF AppConnects, fieldVars, serverVars
<1>2. KeepersInv /\ KeptInv /\ SocketTypes /\ ControlTypes /\ LocalTypes
  BY DEF KeepInv, LifeInv, PoolInv, TypeOK
<1>3. csock[t] = NoSocket
  BY <1>1, <1>2 DEF KeepersInv
<1>4. /\ \A u \in Threads : csock'[u] = IF u = t THEN nextSock ELSE csock[u]
      /\ \A u \in Threads : pc'[u] = IF u = t THEN "acquire" ELSE pc[u]
  BY <1>1, <1>2 DEF LocalTypes, Goto, ControlTypes
<1>5. KeepersInv'
  <2>1. \A u \in Threads : csock'[u] # NoSocket => csock'[u] \in open' /\ pc'[u] = "acquire"
    BY <1>1, <1>2, <1>4 DEF KeepersInv
  <2>2. \A u, v \in Threads : csock'[u] = csock'[v] /\ csock'[v] # NoSocket => u = v
    BY <1>2, <1>4, NewSocket DEF KeepersInv
  <2>3. \A r \in Sessions, u \in Threads : sock[r] # NoSocket => sock[r] # csock'[u]
    BY <1>2, <1>4, NewSocket DEF KeepersInv
  <2>4. \A u \in Threads : csock'[u] # NoSocket => csock'[u] # acceptSock
    BY <1>2, <1>4, NewSocket DEF KeepersInv
  <2>5. QED
    BY <1>1, <1>2, <2>1, <2>2, <2>3, <2>4 DEF KeepersInv
<1>6. KeptInv'
  <2>1. \A c \in open : \/ \E r \in Sessions : sock[r] = c
                        \/ \E u \in Threads : csock'[u] = c
                        \/ acceptSock = c
    <3>1. SUFFICES ASSUME NEW c \in open, NEW u \in Threads, csock[u] = c
                   PROVE  csock'[u] = c
      BY <1>2 DEF KeptInv
    <3>2. c # NoSocket
      BY DEF KeepInv, LifeInv, PoolInv, TypeOK, KernelTypes, Sockets, NoSocket
    <3>3. QED
      BY <1>3, <1>4, <3>1, <3>2
  <2>2. csock'[t] = nextSock
    BY <1>4
  <2>3. QED
    BY <1>1, <2>1, <2>2 DEF KeptInv
<1>7. SocketTypes'
  BY <1>1, <1>2, NewSocket DEF SocketTypes
<1>8. QED
  BY <1>1, <1>5, <1>6, <1>7 DEF KeepInv

\* OnAcceptCompleted takes the accepted socket before PostAccept makes the next.
LEMMA AcceptKeeps ==
  ASSUME KeepInv, NEW t \in Threads, AcceptCompletes(t)
  PROVE  SocketTypes' /\ KeepersInv' /\ KeptInv' /\ (main' = "new" => acceptSock' = NoSocket)
<1>1. /\ pc[t] = "wait" /\ main' = main /\ main = "up"
      /\ csock' = [csock EXCEPT ![t] = acceptSock]
      /\ \E o \in ops : o.kind = "accept" /\ PostAccept(ops \ {o})
      /\ Goto(t, "acquire")
      /\ sock' = sock
  BY DEF AcceptCompletes, fieldVars, running
<1>2. KeepersInv /\ KeptInv /\ SocketTypes /\ ControlTypes /\ LocalTypes
  BY DEF KeepInv, LifeInv, PoolInv, TypeOK
<1>3. \/ acceptSock' = NoSocket /\ open' = open /\ nextSock' = nextSock
      \/ acceptSock' = nextSock /\ open' = open \cup {nextSock} /\ nextSock' = nextSock + 1
  BY <1>1, PostsSocket
<1>4. csock[t] = NoSocket
  BY <1>1, <1>2 DEF KeepersInv
<1>5. acceptSock # NoSocket
  <2>1. PICK o \in ops : o.kind = "accept"
    BY <1>1
  <2>2. o.sock = acceptSock
    BY <2>1 DEF KeepInv, LifeInv, AcceptInv
  <2>3. o.sock \in Sockets
    BY DEF KeepInv, LifeInv, PoolInv, TypeOK, KernelTypes, Operations
  <2>4. QED
    BY <2>2, <2>3 DEF Sockets, NoSocket
<1>6. /\ \A u \in Threads : csock'[u] = IF u = t THEN acceptSock ELSE csock[u]
      /\ \A u \in Threads : pc'[u] = IF u = t THEN "acquire" ELSE pc[u]
  BY <1>1, <1>2 DEF LocalTypes, Goto, ControlTypes
<1>7. open \subseteq open' /\ acceptSock' # acceptSock
      /\ (acceptSock' # NoSocket => acceptSock' \in open')
  BY <1>3, <1>5, NewSocket
<1>8. KeepersInv'
  <2>1. \A r \in Sessions : sock'[r] # NoSocket => sock'[r] \in open'
    BY <1>1, <1>2, <1>7 DEF KeepersInv
  <2>2. \A u \in Threads : csock'[u] # NoSocket => csock'[u] \in open' /\ pc'[u] = "acquire"
    BY <1>2, <1>6, <1>7 DEF KeepersInv
  <2>3. \A u, v \in Threads : csock'[u] = csock'[v] /\ csock'[v] # NoSocket => u = v
    BY <1>2, <1>6 DEF KeepersInv
  <2>4. \A r \in Sessions, u \in Threads : sock[r] # NoSocket => sock[r] # csock'[u]
    BY <1>2, <1>6 DEF KeepersInv
  <2>5. \A r \in Sessions : sock[r] # NoSocket => sock[r] # acceptSock'
    BY <1>3, NewSocket
  <2>6. \A u \in Threads : csock'[u] # NoSocket => csock'[u] # acceptSock'
    BY <1>3, <1>6, <1>7, NewSocket
  <2>7. QED
    BY <1>1, <1>2, <1>7, <2>1, <2>2, <2>3, <2>4, <2>5, <2>6 DEF KeepersInv
<1>9. KeptInv'
  <2>1. \A c \in open : \/ \E r \in Sessions : sock[r] = c
                        \/ \E u \in Threads : csock'[u] = c
    <3>1. SUFFICES ASSUME NEW c \in open
                   PROVE  \/ \E r \in Sessions : sock[r] = c
                          \/ \E u \in Threads : csock'[u] = c
      OBVIOUS
    <3>2. c # NoSocket
      BY DEF KeepInv, LifeInv, PoolInv, TypeOK, KernelTypes, Sockets, NoSocket
    <3>3. \A u \in Threads : csock[u] = c => csock'[u] = c
      BY <1>4, <1>6, <3>2
    <3>4. acceptSock = c => csock'[t] = c
      BY <1>6
    <3>5. QED
      BY <1>2, <3>3, <3>4 DEF KeptInv
  <2>2. \A c \in open' : c \in open \/ acceptSock' = c
    BY <1>3
  <2>3. QED
    BY <1>1, <2>1, <2>2 DEF KeptInv
<1>10. SocketTypes'
  BY <1>2, <1>3, NewSocket DEF SocketTypes
<1>11. QED
  BY <1>1, <1>8, <1>9, <1>10

\* Start posts the first accept.
LEMMA StartKeeps ==
  ASSUME KeepInv, Start
  PROVE  SocketTypes' /\ KeepersInv' /\ KeptInv' /\ (main' = "new" => acceptSock' = NoSocket)
<1>1. /\ acceptSock = NoSocket /\ main' = "up"
      /\ PostAccept({})
      /\ UNCHANGED <<sock, csock, pc>>
  BY DEF Start, fieldVars, threadVars, KeepInv
<1>2. KeepersInv /\ KeptInv /\ SocketTypes
  BY DEF KeepInv
<1>3. \/ acceptSock' = NoSocket /\ open' = open /\ nextSock' = nextSock
      \/ acceptSock' = nextSock /\ open' = open \cup {nextSock} /\ nextSock' = nextSock + 1
  BY <1>1, PostsSocket
<1>4. KeepersInv'
  BY <1>1, <1>2, <1>3, NewSocket DEF KeepersInv
<1>5. KeptInv'
  <2>1. \A c \in open : c # NoSocket
    BY DEF KeepInv, LifeInv, PoolInv, TypeOK, KernelTypes, Sockets, NoSocket
  <2>2. \A c \in open' : c \in open \/ acceptSock' = c
    BY <1>3
  <2>3. QED
    BY <1>1, <1>2, <2>1, <2>2 DEF KeptInv
<1>6. SocketTypes'
  BY <1>2, <1>3, NewSocket DEF SocketTypes
<1>7. QED
  BY <1>1, <1>4, <1>5, <1>6

LEMMA KeepsSession ==
  ASSUME KeepInv, NEW t \in Threads, SessionNext(t), UNCHANGED serverVars
  PROVE  SocketTypes' /\ KeepersInv' /\ KeptInv' /\ (main' = "new" => acceptSock' = NoSocket)
<1> USE DEF fieldVars, threadVars, kernelVars, socketVars
<1>1. ControlTypes /\ main' = main /\ acceptSock' = acceptSock
  BY DEF KeepInv, LifeInv, PoolInv, TypeOK, serverVars
<1>2. SUFFICES ASSUME ~CloseSocket(t)
               PROVE  UNCHANGED socketVars /\ (pc[t] # "acquire" \/ pc' = pc)
                      /\ (OthersWait(t) \/ pc' = pc)
  BY <1>1, CloseKeeps, SameSockets
<1>3. CASE NullOwner(t)
  BY <1>1, <1>3 DEF NullOwner
<1>4. CASE DisconnectLoses(t) \/ PostRecvNoBuffer(t) \/ Unlock(t) \/ ReturnToPool(t)
  BY <1>1, <1>4, OneMoves DEF DisconnectLoses, PostRecvNoBuffer, Unlock, ReturnToPool, At
<1>5. CASE DisconnectWins(t) \/ RelockHangs(t) \/ ResetSession(t)
  BY <1>1, <1>5, OneMoves DEF DisconnectWins, RelockHangs, ResetSession, At
<1>5a. CASE PostRecvAcquires(t) \/ PostRecvSetsUp(t)
  BY <1>1, <1>5a, OneMoves DEF PostRecvAcquires, PostRecvSetsUp, At
<1>6. CASE ReleaseDisconnects(t)
  BY <1>1, <1>6, OneMoves DEF ReleaseDisconnects, At
<1>7. CASE ReleaseWipes(t)
  <2>1. sock' = sock
    BY <1>7, WipeLife DEF KeepInv
  <2>2. QED
    BY <1>1, <1>7, <2>1, OneMoves DEF ReleaseWipes, At
<1>8. CASE PostRecvCall(t)
  <2>1. Return(t) \/ Goto(t, "disconnect")
    BY <1>8 DEF PostRecvCall
  <2>2. pc[t] = "receive" /\ UNCHANGED <<sock, csock, open, nextSock>>
    BY <1>8 DEF PostRecvCall, At
  <2>3. QED
    BY <1>1, <2>1, <2>2, OneMoves
<1>9. CASE SendLocked(t)
  <2>1. Return(t) \/ Call(t, "disconnect", "unlock")
    BY <1>9 DEF SendLocked, PostSend
  <2>2. pc[t] = "send" /\ UNCHANGED <<sock, csock, open, nextSock>>
    BY <1>9 DEF SendLocked, At
  <2>3. QED
    BY <1>1, <2>1, <2>2, OneMoves
<1>10. CASE SendNext(t)
  <2>1. Return(t) \/ Call(t, "disconnect", "unlock")
    BY <1>10 DEF SendNext, PostSend
  <2>2. pc[t] = "sendDone" /\ UNCHANGED <<sock, csock, open, nextSock>>
    BY <1>10 DEF SendNext, At
  <2>3. QED
    BY <1>1, <2>1, <2>2, OneMoves
<1>11. CASE PacketsProcessed(t)
  <2>1. Return(t) \/ Goto(t, "postRecv")
    BY <1>11 DEF PacketsProcessed, TryPostRecv
  <2>2. pc[t] = "process" /\ UNCHANGED <<sock, csock, open, nextSock>>
    BY <1>11 DEF PacketsProcessed, At
  <2>3. QED
    BY <1>1, <2>1, <2>2, OneMoves
<1>12. QED
  BY <1>2, <1>3, <1>4, <1>5, <1>5a, <1>6, <1>7, <1>8, <1>9, <1>10, <1>11 DEF SessionNext

LEMMA KeepsServer ==
  ASSUME KeepInv, ~AssocMayFail, NEW t \in Threads,
         \/ Associate(t) \/ ForgetBuffer(t) \/ AssociateFails(t)
         \/ WorkerLoops(t) \/ WorkerBreaks(t) \/ Completes(t) \/ Chooses(t),
         ~AcceptCompletes(t), ~AppConnects(t)
  PROVE  SocketTypes' /\ KeepersInv' /\ KeptInv' /\ (main' = "new" => acceptSock' = NoSocket)
<1> USE DEF poolVars, fieldVars, threadVars, kernelVars, serverVars, socketVars
<1>1. ControlTypes
  BY DEF KeepInv, LifeInv, PoolInv, TypeOK
<1>2. SUFFICES UNCHANGED <<socketVars, main>> /\ (pc[t] # "acquire" \/ pc' = pc)
               /\ (OthersWait(t) \/ pc' = pc)
  BY SameSockets
<1>3. CASE Associate(t) \/ ForgetBuffer(t)
  <2>1. Return(t) \/ Goto(t, "postRecv") \/ Goto(t, "forget")
    BY <1>3 DEF Associate, ForgetBuffer, TryPostRecv
  <2>2. pc[t] # "acquire" /\ UNCHANGED <<socketVars, main>>
    BY <1>3 DEF Associate, ForgetBuffer, At
  <2>3. QED
    BY <1>1, <2>1, <2>2, OneMoves
<1>4. CASE AssociateFails(t)
  BY <1>4 DEF AssociateFails
<1>5. CASE WorkerLoops(t) \/ WorkerBreaks(t)
  <2>1. (Goto(t, "wait") \/ Goto(t, "exited")) /\ pc[t] # "acquire"
    BY <1>5 DEF WorkerLoops, WorkerBreaks
  <2>2. UNCHANGED <<socketVars, main>>
    BY <1>5 DEF WorkerLoops, WorkerBreaks
  <2>3. QED
    BY <1>1, <2>1, <2>2, OneMoves
<1>6. CASE DropCompletion(t) \/ CompletionNullOwner(t)
  <2>1. Goto(t, "idle") \/ pc' = pc
    BY <1>6 DEF DropCompletion, CompletionNullOwner
  <2>2. pc[t] # "acquire" /\ UNCHANGED <<socketVars, main>>
    BY <1>6 DEF DropCompletion, CompletionNullOwner, Takes
  <2>3. QED
    BY <1>1, <2>1, <2>2, OneMoves
<1>7. CASE RecvEnds(t) \/ RecvDelivers(t) \/ SendCompletes(t)
  <2>1. \E l, s : Begin(t, l, s)
    BY <1>7 DEF RecvEnds, RecvDelivers, SendCompletes
  <2>2. pc[t] # "acquire" /\ UNCHANGED <<socketVars, main>>
    BY <1>7 DEF RecvEnds, RecvDelivers, SendCompletes, Takes
  <2>3. QED
    BY <1>1, <2>1, <2>2, OneMoves
<1>8. CASE AppSends(t) \/ AppDisconnects(t)
  <2>1. \E l, s : Begin(t, l, s)
    BY <1>8 DEF AppSends, AppDisconnects
  <2>2. pc[t] # "acquire" /\ UNCHANGED <<socketVars, main>>
    BY <1>8 DEF AppSends, AppDisconnects
  <2>3. QED
    BY <1>1, <2>1, <2>2, OneMoves
<1>9. CASE HandlerSends(t) \/ HandlerDisconnects(t)
  <2>1. Call(t, "send", "process") \/ Call(t, "disconnect", "process")
    BY <1>9 DEF HandlerSends, HandlerDisconnects
  <2>2. pc[t] # "acquire" /\ UNCHANGED <<socketVars, main>>
    BY <1>9 DEF HandlerSends, HandlerDisconnects, At
  <2>3. QED
    BY <1>1, <2>1, <2>2, OneMoves
<1>10. QED
  BY <1>3, <1>4, <1>5, <1>6, <1>7, <1>8, <1>9 DEF Completes, Chooses

LEMMA KeepStep == KeepInv /\ ~AssocMayFail /\ [Next]_vars => KeepInv'
<1> SUFFICES ASSUME KeepInv, ~AssocMayFail, [Next]_vars PROVE KeepInv'
  OBVIOUS
<1>1. LifeInv'
  BY LifeStep DEF KeepInv
<1>2. CASE UNCHANGED vars \/ Stop \/ Joined
  <2>1. UNCHANGED <<sock, csock, acceptSock, open, nextSock, pc>> /\ (main' = "new" => main = "new")
    BY <1>2 DEF vars, Stop, Joined, poolVars, fieldVars, threadVars, kernelVars, serverVars
  <2>2. QED
    BY <1>1, <2>1 DEF KeepInv, SocketTypes, KeepersInv, KeptInv
<1>3. CASE Start
  BY <1>1, <1>3, StartKeeps DEF KeepInv
<1>4. ASSUME NEW t \in Threads, Runs(t) \/ Completes(t) \/ Chooses(t)
      PROVE  SocketTypes' /\ KeepersInv' /\ KeptInv' /\ (main' = "new" => acceptSock' = NoSocket)
  <2>1. CASE AcquireSession(t) \/ PoolExhausted(t) \/ AcceptCompletes(t) \/ AppConnects(t)
    BY <2>1, AcquireKeeps, ExhaustedKeeps, AcceptKeeps, ConnectKeeps
  <2>2. CASE SessionNext(t) /\ UNCHANGED serverVars
    BY <2>2, KeepsSession
  <2>3. QED
    BY <1>4, <2>1, <2>2, KeepsServer DEF Runs
<1>5. QED
  BY <1>1, <1>2, <1>3, <1>4 DEF Next, KeepInv

LEMMA KeepInit == Init => KeepInv
<1> SUFFICES ASSUME Init PROVE KeepInv
  OBVIOUS
<1>1. LifeInv
  BY LifeInit
<1>2. /\ sock = [s \in Sessions |-> NoSocket] /\ csock = [t \in Threads |-> NoSocket]
      /\ acceptSock = NoSocket /\ open = {}
  BY DEF Init, SessionInit
<1>3. SocketTypes /\ KeepersInv /\ KeptInv
  BY <1>2 DEF SocketTypes, KeepersInv, KeptInv
<1>4. QED
  BY <1>1, <1>2, <1>3 DEF KeepInv

\* As long as every accepted socket can be associated with the completion port,
\* no socket is leaked and none has two places that would close it, for any
\* number of workers, application threads, sessions, buffers and connections
\* (PostAccept, OnAcceptCompleted, ConnectTo, Session::Init and Disconnect).
THEOREM NoSocketLeaks ==
  ASSUME ~AssocMayFail
  PROVE  Spec => []SocketsKept
<1>1. Init => KeepInv
  BY KeepInit
<1>2. KeepInv /\ [Next]_vars => KeepInv'
  BY KeepStep
<1>3. KeepInv => SocketsKept
  <2> SUFFICES ASSUME KeepInv, NEW c \in Sockets
               PROVE  IF c \in open THEN Cardinality(Keepers(c)) = 1 ELSE Keepers(c) = {}
    BY DEF SocketsKept
  <2>1. KeepersInv /\ KeptInv /\ c # NoSocket
    BY DEF KeepInv, Sockets, NoSocket
  <2>2. CASE c \notin open
    <3>1. /\ \A s \in Sessions : sock[s] # c
          /\ \A t \in Threads : csock[t] # c
          /\ acceptSock # c
      BY <2>1, <2>2 DEF KeepersInv
    <3>2. QED
      BY <2>2, <3>1 DEF Keepers
  <2>3. CASE c \in open
    <3>1. CASE \E s \in Sessions : sock[s] = c
      <4>1. PICK s \in Sessions : sock[s] = c
        BY <3>1
      <4>2. /\ {x \in Sessions : sock[x] = c} = {s}
            /\ {x \in Threads : csock[x] = c} = {}
            /\ acceptSock # c
        BY <2>1, <4>1 DEF KeepersInv
      <4>3. Keepers(c) = {<<"session", s>>}
        BY <4>2 DEF Keepers
      <4>4. QED
        BY <2>3, <4>3, FS_Singleton
    <3>2. CASE \E t \in Threads : csock[t] = c
      <4>1. PICK t \in Threads : csock[t] = c
        BY <3>2
      <4>2. /\ {x \in Sessions : sock[x] = c} = {}
            /\ {x \in Threads : csock[x] = c} = {t}
            /\ acceptSock # c
        BY <2>1, <4>1 DEF KeepersInv
      <4>3. Keepers(c) = {<<"thread", t>>}
        BY <4>2 DEF Keepers
      <4>4. QED
        BY <2>3, <4>3, FS_Singleton
    <3>3. CASE acceptSock = c
      <4>1. /\ {x \in Sessions : sock[x] = c} = {}
            /\ {x \in Threads : csock[x] = c} = {}
        BY <2>1, <3>3 DEF KeepersInv
      <4>2. Keepers(c) = {<<"accept", 0>>}
        BY <3>3, <4>1 DEF Keepers
      <4>3. QED
        BY <2>3, <4>2, FS_Singleton
    <3>4. QED
      BY <2>1, <2>3, <3>1, <3>2, <3>3 DEF KeptInv
  <2>4. QED
    BY <2>2, <2>3
<1>4. QED
  BY <1>1, <1>2, <1>3, PTL DEF Spec

-----------------------------------------------------------------------------
(* The data path.  The calls that nest are few, which says who holds a      *)
(* session's sendMutex_: the thread that will return to "unlock".           *)

Stacks == {<<>>, <<"process">>, <<"unlock">>, <<"process", "unlock">>}

\* The labels of a thread that is called by nobody.
BaseLabels == {"idle", "wait", "exited", "acquire", "associate", "forget", "process",
               "postRecv", "setup", "receive", "sendDone"}
\* The labels of a thread that works on no session.
AwayLabels == {"idle", "wait", "exited", "acquire"}

ControlOK(l, q, s) ==
  /\ q \in Stacks
  /\ l \in BaseLabels => q = <<>>
  /\ l \in {"send", "unlock"} => q \in {<<>>, <<"process">>}
  /\ l \in AwayLabels <=> s = NoSession
ControlInv == \A t \in Threads : ControlOK(pc[t], stack[t], cur[t])

InHandler(q) == q \in {<<"process">>, <<"process", "unlock">>}
WillUnlock(l, q) == l = "unlock" \/ q \in {<<"unlock">>, <<"process", "unlock">>}
MutexInv ==
  \A s \in Sessions, t \in Threads :
    sendMutex[s] = t <=> cur[t] = s /\ WillUnlock(pc[t], stack[t])

\* A slot that served nobody yet is known to nobody.
UsesInv ==
  /\ uses \in [Sessions -> Nat]
  /\ \A s \in Sessions : connected[s] => uses[s] # 0
  /\ \A s \in Sessions : uses[s] = 0 =>
       /\ \A t \in Threads : cur[t] # s
       /\ \A o \in ops : o.s # s
  /\ dry \in BOOLEAN

\* There is one at most, in A or in B.
OneOf(A, B) ==
  /\ \A x, y \in A : x = y
  /\ \A x, y \in B : x = y
  /\ A = {} \/ B = {}

Sends(s) == OpsOf("send", s)
Recvs(s) == OpsOf("recv", s)

\* The send in progress, on a slot's first connection.
SendOK(s) ==
  /\ OneOf(Sends(s), SendersOf(s))
  /\ Sends(s) # {} \/ SendersOf(s) # {} => sending[s] \/ ~owner[s]
  /\ \A t \in Threads : connected[s] /\ sendMutex[s] = t => At(t, "disconnect", s)
  /\ \A o \in Sends(s) : sendOvl[s] = o.buf \/ (sock[s] = NoSocket /\ sendOvl[s] = NoBuffer)
  /\ ~dry /\ Serving /\ connected[s] =>
       /\ sendQueue[s] # <<>> => sending[s]
       /\ sending[s] => Sends(s) # {} \/ SendersOf(s) # {}
SendsInv == \A s \in Sessions : FirstUse(s) => SendOK(s)

RecvOK(s) ==
  /\ OneOf(Recvs(s), ReceiversOf(s))
  /\ \A o \in Recvs(s) : recvOvl[s] = o.buf \/ (sock[s] = NoSocket /\ recvOvl[s] = NoBuffer)
  /\ ~dry /\ Serving /\ connected[s] =>
       Recvs(s) # {} \/ ReceiversOf(s) # {} \/ \E t \in Threads : At(t, "disconnect", s)
RecvsInv == \A s \in Sessions : FirstUse(s) => RecvOK(s)

\* The buffer of a PostRecv under way, and of the receives that are outstanding.
PostLabels == {"setup", "receive"}
LentOK(s) ==
  /\ \A t \in Threads : cur[t] = s /\ pc[t] \in PostLabels => rbuf[t] \in Buffers
  /\ \A t \in Threads : At(t, "receive", s) => recvOvl[s] = rbuf[t] \/ sock[s] = NoSocket
  /\ \A o \in Recvs(s) : o.buf \in Buffers
LentInv == \A s \in Sessions : FirstUse(s) => LentOK(s)

BlockOK(b) ==
  /\ \A i, j \in OnStack(b) : i = j
  /\ \A o, p \in InKernel(b) : o = p
  /\ \A t, u \in ReadersOf(b) : t = u
  /\ OnStack(b) = {} \/ InKernel(b) = {}
  /\ OnStack(b) = {} \/ ReadersOf(b) = {}
  /\ InKernel(b) = {} \/ ReadersOf(b) = {}
AllFirst == \A s \in Sessions : FirstUse(s)
BlocksInv ==
  /\ AllFirst => \A b \in Buffers : BlockOK(b)
  /\ \A t \in Workers : pc[t] \notin {"acquire", "associate", "forget"}

-----------------------------------------------------------------------------
(* How threads move.                                                       *)

LEMMA StackTops ==
  ASSUME NEW a, NEW b
  PROVE  /\ Append(<<>>, a) = <<a>> /\ Append(<<a>>, b) = <<a, b>>
         /\ Last(<<a>>) = a /\ Front(<<a>>) = <<>>
         /\ Last(<<a, b>>) = b /\ Front(<<a, b>>) = <<a>>
<1>1. <<a>> \in Seq({a, b}) /\ Len(<<a>>) = 1 /\ <<a>>[1] = a
  OBVIOUS
<1>1a. <<a, b>> \in Seq({a, b})
  OBVIOUS
<1>1b. Len(<<a, b>>) = 2 /\ <<a, b>>[1] = a /\ <<a, b>>[2] = b
  OBVIOUS
<1>2. Append(<<>>, a) = <<a>> /\ Append(<<a>>, b) = <<a, b>>
  <2>1. <<a>> = [i \in 1..1 |-> a] /\ <<a, b>> = [i \in 1..2 |-> IF i = 1 THEN a ELSE b]
    OBVIOUS
  <2>2. Append(<<>>, a) = [i \in 1..1 |-> a]
    OBVIOUS
  <2>3. Append(<<a>>, b) = [i \in 1..2 |-> IF i = 1 THEN a ELSE b]
    BY <1>1
  <2>4. QED
    BY <2>1, <2>2, <2>3
<1>3. Last(<<a>>) = a /\ Last(<<a, b>>) = b
  BY <1>1, <1>1b DEF Last
<1>4. Front(<<a>>) = <<>>
  <2>1. PICK q : q = <<a>>
    OBVIOUS
  <2>2. q \in Seq({a, b}) /\ q # <<>> /\ Len(q) = 1
    BY <1>1, <2>1
  <2>3. Front(q) \in Seq({a, b}) /\ Len(Front(q)) = 0
    BY <2>2, StackPop
  <2>4. QED
    BY <2>1, <2>3
<1>5. Front(<<a, b>>) = <<a>>
  <2>1. PICK q : q = <<a, b>>
    OBVIOUS
  <2>2. q \in Seq({a, b}) /\ Len(q) = 2 /\ q[1] = a
    BY <1>1a, <1>1b, <2>1
  <2>2a. q # <<>>
    BY <2>2
  <2>3. Len(q) - 1 = 1 /\ 1 \in 1..1
    BY <2>2
  <2>3a. Front(q) \in Seq({a, b}) /\ Len(Front(q)) = 1 /\ Front(q)[1] = a
    BY <2>2, <2>2a, <2>3, StackPop
  <2>4. QED
    BY <2>1, <2>3a
<1>6. QED
  BY <1>2, <1>3, <1>4, <1>5

OnlyMoves(t) == \A u \in Threads \ {t} : pc'[u] = pc[u] /\ stack'[u] = stack[u] /\ cur'[u] = cur[u]

Returned(t) ==
  /\ OnlyMoves(t)
  /\ \/ /\ stack[t] = <<>>
        /\ pc'[t] = "idle" /\ stack'[t] = <<>> /\ cur'[t] = NoSession
     \/ /\ stack[t] = <<"process">>
        /\ pc'[t] = "process" /\ stack'[t] = <<>> /\ cur'[t] = cur[t]
     \/ /\ stack[t] = <<"unlock">>
        /\ pc'[t] = "unlock" /\ stack'[t] = <<>> /\ cur'[t] = cur[t]
     \/ /\ stack[t] = <<"process", "unlock">>
        /\ pc'[t] = "unlock" /\ stack'[t] = <<"process">> /\ cur'[t] = cur[t]

\* What the control steps do to the thread and to the others.
LEMMA GotoMoves ==
  ASSUME ControlTypes, NEW t \in Threads, NEW l, Goto(t, l)
  PROVE  OnlyMoves(t) /\ pc'[t] = l /\ stack'[t] = stack[t] /\ cur'[t] = cur[t]
BY DEF ControlTypes, Goto, OnlyMoves

LEMMA BeginMoves ==
  ASSUME ControlTypes, NEW t \in Threads, NEW l, NEW s, Begin(t, l, s)
  PROVE  OnlyMoves(t) /\ pc'[t] = l /\ stack'[t] = stack[t] /\ cur'[t] = s
BY DEF ControlTypes, Begin, OnlyMoves

LEMMA CallMoves ==
  ASSUME ControlTypes, NEW t \in Threads, NEW l, NEW r, Call(t, l, r)
  PROVE  OnlyMoves(t) /\ pc'[t] = l /\ stack'[t] = Append(stack[t], r) /\ cur'[t] = cur[t]
BY DEF ControlTypes, Call, OnlyMoves

LEMMA ReturnMoves ==
  ASSUME ControlTypes, ControlInv, NEW t \in Threads, Return(t)
  PROVE  Returned(t)
<1>1. stack[t] \in Stacks
  BY DEF ControlInv, ControlOK
<1>2. CASE stack[t] = <<>>
  <2>1. Begin(t, "idle", NoSession)
    BY <1>2 DEF Return
  <2>2. QED
    BY <1>2, <2>1, BeginMoves DEF Returned
<1>3. CASE stack[t] # <<>>
  <2>1. /\ OnlyMoves(t) /\ cur'[t] = cur[t]
        /\ pc'[t] = Last(stack[t]) /\ stack'[t] = Front(stack[t])
    BY <1>3 DEF Return, ControlTypes, OnlyMoves
  <2>2. CASE stack[t] = <<"process">>
    BY <2>1, <2>2, StackTops DEF Returned
  <2>3. CASE stack[t] = <<"unlock">>
    BY <2>1, <2>3, StackTops DEF Returned
  <2>4. CASE stack[t] = <<"process", "unlock">>
    <3>1. Last(<<"process", "unlock">>) = "unlock" /\ Front(<<"process", "unlock">>) = <<"process">>
      BY StackTops
    <3>2. QED
      BY <2>1, <2>4, <3>1 DEF Returned
  <2>5. QED
    BY <1>1, <1>3, <2>2, <2>3, <2>4 DEF Stacks
<1>4. QED
  BY <1>2, <1>3

LEMMA ControlFrom ==
  ASSUME ControlInv, NEW t \in Threads, OnlyMoves(t), ControlOK(pc'[t], stack'[t], cur'[t])
  PROVE  ControlInv'
BY DEF ControlInv, OnlyMoves

\* The mutexes stay with their threads, when none is taken or given back.
KeepsMutex(t) ==
  /\ WillUnlock(pc[t], stack[t])' <=> WillUnlock(pc[t], stack[t])
  /\ WillUnlock(pc[t], stack[t]) => cur'[t] = cur[t]

LEMMA MutexFrom ==
  ASSUME MutexInv, NEW t \in Threads, OnlyMoves(t), KeepsMutex(t), sendMutex' = sendMutex
  PROVE  MutexInv'
<1>1. SUFFICES ASSUME NEW s \in Sessions, NEW u \in Threads
               PROVE  sendMutex'[s] = u <=> cur'[u] = s /\ WillUnlock(pc[u], stack[u])'
  BY DEF MutexInv
<1>2. sendMutex[s] = u <=> cur[u] = s /\ WillUnlock(pc[u], stack[u])
  BY DEF MutexInv
<1>3. CASE u = t
  BY <1>2, <1>3 DEF KeepsMutex
<1>4. CASE u # t
  BY <1>2, <1>4 DEF OnlyMoves, WillUnlock
<1>5. QED
  BY <1>3, <1>4

LEMMA StackShapes ==
  /\ <<"process">> # <<>> /\ <<"unlock">> # <<>> /\ <<"process", "unlock">> # <<>>
  /\ <<"process">> # <<"unlock">> /\ <<"process">> # <<"process", "unlock">>
  /\ <<"unlock">> # <<"process", "unlock">>
<1>1. Len(<<>>) = 0 /\ Len(<<"process">>) = 1 /\ Len(<<"unlock">>) = 1
      /\ Len(<<"process", "unlock">>) = 2
  OBVIOUS
<1>2. <<"process">>[1] = "process" /\ <<"unlock">>[1] = "unlock"
  OBVIOUS
<1>3. QED
  BY <1>1, <1>2

\* A step that returns, from no critical section.
LEMMA ReturnKeeps ==
  ASSUME ControlTypes, ControlInv, MutexInv, NEW t \in Threads, Return(t), pc[t] # "unlock",
         sendMutex' = sendMutex
  PROVE  ControlInv' /\ MutexInv'
<1>1. Returned(t) /\ ControlOK(pc[t], stack[t], cur[t])
  BY ReturnMoves DEF ControlInv
<1>2. ControlOK(pc'[t], stack'[t], cur'[t]) /\ KeepsMutex(t)
  BY <1>1, StackShapes DEF Returned, ControlOK, Stacks, BaseLabels, AwayLabels, KeepsMutex, WillUnlock
<1>3. QED
  BY <1>1, <1>2, ControlFrom, MutexFrom DEF Returned

\* A step that goes on, and takes no mutex.
LEMMA MoveKeeps ==
  ASSUME ControlTypes, ControlInv, MutexInv, NEW t \in Threads, NEW l, NEW s,
         Begin(t, l, s) \/ (Goto(t, l) /\ s = cur[t]),
         l # "unlock", pc[t] # "unlock", sendMutex' = sendMutex,
         stack[t] = <<>> \/ (l \notin BaseLabels \cup {"send"} /\ s = cur[t]),
         l \in AwayLabels <=> s = NoSession
  PROVE  ControlInv' /\ MutexInv'
<1>1. OnlyMoves(t) /\ pc'[t] = l /\ stack'[t] = stack[t] /\ cur'[t] = s
  BY GotoMoves, BeginMoves
<1>2. ControlOK(pc[t], stack[t], cur[t])
  BY DEF ControlInv
<1>3. ControlOK(pc'[t], stack'[t], cur'[t]) /\ KeepsMutex(t)
  BY <1>1, <1>2, StackShapes DEF ControlOK, Stacks, BaseLabels, KeepsMutex, WillUnlock
<1>4. QED
  BY <1>1, <1>3, ControlFrom, MutexFrom

LEMMA CallKeeps ==
  ASSUME ControlTypes, ControlInv, MutexInv, NEW t \in Threads, pc[t] = "process",
         NEW l \in {"send", "disconnect"}, Call(t, l, "process"), sendMutex' = sendMutex
  PROVE  ControlInv' /\ MutexInv'
<1>1. ControlOK(pc[t], stack[t], cur[t])
  BY DEF ControlInv
<1>2. stack[t] = <<>> /\ cur[t] # NoSession
  BY <1>1 DEF ControlOK, BaseLabels, AwayLabels
<1>3. OnlyMoves(t) /\ pc'[t] = l /\ stack'[t] = <<"process">> /\ cur'[t] = cur[t]
  BY <1>2, CallMoves, StackTops
<1>4. ControlOK(pc'[t], stack'[t], cur'[t]) /\ KeepsMutex(t)
  BY <1>2, <1>3, StackShapes DEF ControlOK, Stacks, BaseLabels, AwayLabels, KeepsMutex, WillUnlock
<1>5. QED
  BY <1>3, <1>4, ControlFrom, MutexFrom

LEMMA StillKeeps ==
  ASSUME ControlInv, MutexInv, UNCHANGED <<pc, stack, cur, sendMutex>>
  PROVE  ControlInv' /\ MutexInv'
BY DEF ControlInv, MutexInv

LEMMA AtBase ==
  ASSUME ControlInv, NEW t \in Threads
  PROVE  /\ pc[t] \in BaseLabels => stack[t] = <<>>
         /\ pc[t] \in AwayLabels <=> cur[t] = NoSession
BY DEF ControlInv, ControlOK

LEMMA LockKeeps ==
  ASSUME TypeOK, ControlInv, MutexInv, NEW t \in Threads, NEW s \in Sessions,
         pc[t] \in {"send", "sendDone"}, cur[t] = s, sendMutex[s] = NoThread,
         Call(t, "disconnect", "unlock"), sendMutex' = [sendMutex EXCEPT ![s] = t]
  PROVE  ControlInv' /\ MutexInv'
<1>1. ControlOK(pc[t], stack[t], cur[t]) /\ ControlTypes /\ FieldTypes
  BY DEF ControlInv, TypeOK
<1>2. /\ OnlyMoves(t) /\ pc'[t] = "disconnect" /\ cur'[t] = s
      /\ stack'[t] = Append(stack[t], "unlock")
  BY <1>1, CallMoves
<1>3. stack[t] \in {<<>>, <<"process">>} /\ s # NoSession
  BY <1>1 DEF ControlOK, BaseLabels, AwayLabels
<1>4. stack'[t] \in {<<"unlock">>, <<"process", "unlock">>}
  <2>1. CASE stack[t] = <<>>
    <3>1. Append(<<>>, "unlock") = <<"unlock">>
      BY StackTops
    <3>2. QED
      BY <1>2, <2>1, <3>1
  <2>2. CASE stack[t] = <<"process">>
    <3>1. Append(<<"process">>, "unlock") = <<"process", "unlock">>
      BY StackTops
    <3>2. QED
      BY <1>2, <2>2, <3>1
  <2>3. QED
    BY <1>3, <2>1, <2>2
<1>5. ControlInv'
  <2>1. ControlOK(pc'[t], stack'[t], cur'[t])
    BY <1>2, <1>3, <1>4, StackShapes DEF ControlOK, Stacks, BaseLabels, AwayLabels
  <2>2. QED
    BY <1>2, <2>1, ControlFrom
<1>6. MutexInv'
  <2>1. SUFFICES ASSUME NEW r \in Sessions, NEW u \in Threads
                 PROVE  sendMutex'[r] = u <=> cur'[u] = r /\ WillUnlock(pc[u], stack[u])'
    BY DEF MutexInv
  <2>2. sendMutex[r] = u <=> cur[u] = r /\ WillUnlock(pc[u], stack[u])
    BY DEF MutexInv
  <2>3. sendMutex'[r] = IF r = s THEN t ELSE sendMutex[r]
    BY <1>1 DEF FieldTypes
  <2>4. CASE u = t
    BY <1>2, <1>4, <2>2, <2>3, <2>4 DEF WillUnlock
  <2>5. CASE u # t
    BY <1>2, <2>2, <2>3, <2>5, ThreadsAssumption DEF WillUnlock, OnlyMoves
  <2>6. QED
    BY <2>4, <2>5
<1>7. QED
  BY <1>5, <1>6

LEMMA UnlockKeeps ==
  ASSUME TypeOK, ControlInv, MutexInv, NEW t \in Threads, Unlock(t)
  PROVE  ControlInv' /\ MutexInv'
<1>1. PICK s \in Sessions : /\ At(t, "unlock", s) /\ Return(t)
                            /\ sendMutex' = [sendMutex EXCEPT ![s] = NoThread]
  BY DEF Unlock
<1>2. ControlOK(pc[t], stack[t], cur[t]) /\ ControlTypes /\ FieldTypes
  BY DEF ControlInv, TypeOK
<1>3. Returned(t) /\ stack[t] \in {<<>>, <<"process">>} /\ cur[t] = s /\ s # NoSession
  BY <1>1, <1>2, ReturnMoves DEF ControlOK, At, AwayLabels
<1>4. ControlOK(pc'[t], stack'[t], cur'[t]) /\ ~WillUnlock(pc'[t], stack'[t])
  BY <1>3, StackShapes DEF Returned, ControlOK, Stacks, BaseLabels, AwayLabels, WillUnlock
<1>5. MutexInv'
  <2>1. SUFFICES ASSUME NEW r \in Sessions, NEW u \in Threads
                 PROVE  sendMutex'[r] = u <=> cur'[u] = r /\ WillUnlock(pc[u], stack[u])'
    BY DEF MutexInv
  <2>2. sendMutex[r] = u <=> cur[u] = r /\ WillUnlock(pc[u], stack[u])
    BY DEF MutexInv
  <2>3. sendMutex'[r] = IF r = s THEN NoThread ELSE sendMutex[r]
    BY <1>1, <1>2 DEF FieldTypes
  <2>4. sendMutex[s] = t
    BY <1>1 DEF MutexInv, At, WillUnlock
  <2>5. CASE u = t
    BY <1>3, <1>4, <2>2, <2>3, <2>5, ThreadsAssumption
  <2>6. CASE u # t
    BY <1>3, <2>2, <2>3, <2>4, <2>6, ThreadsAssumption DEF WillUnlock, Returned, OnlyMoves
  <2>7. QED
    BY <2>5, <2>6
<1>6. QED
  BY <1>3, <1>4, <1>5, ControlFrom DEF Returned

\* The steps that do not touch a mutex, by the way the thread moves.
LEMMA ControlSession ==
  ASSUME PoolInv, ControlInv, MutexInv, NEW t \in Threads, SessionNext(t)
  PROVE  ControlInv' /\ MutexInv'
<1> USE DEF fieldVars, threadVars
<1>1. /\ TypeOK /\ ControlTypes /\ FieldTypes
      /\ pc[t] \in BaseLabels => stack[t] = <<>>
      /\ pc[t] \in AwayLabels <=> cur[t] = NoSession
  BY AtBase DEF PoolInv, TypeOK
<1>2. CASE NullOwner(t)
  BY <1>2, StillKeeps DEF NullOwner
<1>3. CASE DisconnectLoses(t) \/ ReturnToPool(t) \/ PostRecvNoBuffer(t)
  <2>1. Return(t) /\ pc[t] # "unlock" /\ sendMutex' = sendMutex
    BY <1>3 DEF DisconnectLoses, ReturnToPool, PostRecvNoBuffer, At
  <2>2. QED
    BY <1>1, <2>1, ReturnKeeps
<1>4. CASE DisconnectWins(t) \/ CloseSocket(t) \/ ReleaseWipes(t) \/ ResetSession(t) \/ RelockHangs(t)
  <2>1. PICK l \in {"close", "release", "reset", "push", "hung"} : Goto(t, l)
    <3>1. ASSUME NEW s \in Sessions, At(t, "close", s) PROVE owner[s]
      BY <3>1 DEF PoolInv, OwnerKnown
    <3>2. QED
      BY <1>4, <3>1 DEF DisconnectWins, CloseSocket, ReleaseWipes, ResetSession, RelockHangs
  <2>2. /\ pc[t] \in {"disconnect", "close", "release", "wipe", "reset"}
        /\ sendMutex' = sendMutex
    BY <1>4 DEF DisconnectWins, CloseSocket, ReleaseWipes, ResetSession, RelockHangs, At, WipeFields
  <2>3. l \notin BaseLabels \cup {"send"} /\ l \notin AwayLabels /\ l # "unlock"
    BY DEF BaseLabels, AwayLabels
  <2>4. cur[t] # NoSession /\ pc[t] # "unlock"
    BY <1>1, <2>2 DEF AwayLabels
  <2>5. QED
    BY <1>1, <2>1, <2>2, <2>3, <2>4, MoveKeeps
<1>5. CASE ReleaseDisconnects(t)
  <2>1. PICK s \in Sessions : At(t, "release", s) /\ connected[s]
    BY <1>5 DEF ReleaseDisconnects, WinsExchange
  <2>2. Holds(t, s)
    BY <2>1 DEF At, Holds, HoldLabels
  <2>3. QED
    BY <2>1, <2>2 DEF PoolInv, PoolIntegrity, OnePlace
<1>5a. CASE PostRecvAcquires(t) \/ PostRecvSetsUp(t)
  <2>1. PICK l \in {"setup", "receive"} : Goto(t, l)
    BY <1>5a DEF PostRecvAcquires, PostRecvSetsUp
  <2>2. pc[t] \in {"postRecv", "setup"} /\ sendMutex' = sendMutex
    BY <1>5a DEF PostRecvAcquires, PostRecvSetsUp, At
  <2>3. /\ stack[t] = <<>> /\ cur[t] # NoSession /\ pc[t] # "unlock" /\ l # "unlock"
        /\ l \notin AwayLabels
    BY <1>1, <2>1, <2>2 DEF BaseLabels, AwayLabels
  <2>4. QED
    BY <1>1, <2>1, <2>2, <2>3, MoveKeeps
<1>6. CASE PostRecvCall(t) \/ PacketsProcessed(t)
  <2>1. /\ pc[t] \in {"receive", "process"} /\ sendMutex' = sendMutex
        /\ Return(t) \/ Goto(t, "disconnect") \/ Goto(t, "postRecv")
    BY <1>6 DEF PostRecvCall, PacketsProcessed, TryPostRecv, At
  <2>2. /\ stack[t] = <<>> /\ cur[t] # NoSession /\ pc[t] # "unlock"
        /\ "disconnect" \notin AwayLabels /\ "postRecv" \notin AwayLabels
    BY <1>1, <2>1 DEF BaseLabels, AwayLabels
  <2>3. CASE Return(t)
    BY <1>1, <2>1, <2>2, <2>3, ReturnKeeps
  <2>4. CASE Goto(t, "disconnect")
    BY <1>1, <2>1, <2>2, <2>4, MoveKeeps
  <2>5. CASE Goto(t, "postRecv")
    BY <1>1, <2>1, <2>2, <2>5, MoveKeeps
  <2>6. QED
    BY <2>1, <2>3, <2>4, <2>5
<1>7. CASE SendLocked(t)
  <2>1. PICK s \in Sessions :
          /\ At(t, "send", s) /\ sendMutex[s] = NoThread
          /\ \/ Return(t) /\ sendMutex' = sendMutex
             \/ Call(t, "disconnect", "unlock") /\ sendMutex' = [sendMutex EXCEPT ![s] = t]
    BY <1>7 DEF SendLocked, PostSend
  <2>2. pc[t] = "send" /\ cur[t] = s /\ pc[t] # "unlock"
    BY <2>1 DEF At
  <2>3. QED
    BY <1>1, <2>1, <2>2, ReturnKeeps, LockKeeps
<1>8. CASE SendNext(t)
  <2>1. PICK s \in Sessions :
          /\ At(t, "sendDone", s) /\ sendMutex[s] = NoThread
          /\ \/ Return(t) /\ sendMutex' = sendMutex
             \/ Call(t, "disconnect", "unlock") /\ sendMutex' = [sendMutex EXCEPT ![s] = t]
    BY <1>8 DEF SendNext, PostSend
  <2>2. pc[t] = "sendDone" /\ cur[t] = s /\ pc[t] # "unlock"
    BY <2>1 DEF At
  <2>3. QED
    BY <1>1, <2>1, <2>2, ReturnKeeps, LockKeeps
<1>9. CASE Unlock(t)
  BY <1>1, <1>9, UnlockKeeps
<1>10. QED
  BY <1>2, <1>3, <1>4, <1>5, <1>5a, <1>6, <1>7, <1>8, <1>9 DEF SessionNext

LEMMA ControlServer ==
  ASSUME PoolInv, ControlInv, MutexInv, ~AssocMayFail, NEW t \in Threads,
         \/ AcquireSession(t) \/ PoolExhausted(t) \/ Associate(t) \/ ForgetBuffer(t)
         \/ AssociateFails(t)
         \/ WorkerLoops(t) \/ WorkerBreaks(t) \/ Completes(t) \/ Chooses(t)
  PROVE  ControlInv' /\ MutexInv'
<1> USE DEF poolVars, fieldVars, threadVars
<1>1. /\ TypeOK /\ ControlTypes /\ FieldTypes
      /\ pc[t] \in BaseLabels => stack[t] = <<>>
      /\ pc[t] \in AwayLabels <=> cur[t] = NoSession
      /\ \A s \in Sessions : s # NoSession
  BY AtBase DEF PoolInv, TypeOK, Sessions, NoSession
<1>2. CASE PoolExhausted(t)
  <2>1. Return(t) /\ pc[t] # "unlock" /\ sendMutex' = sendMutex
    BY <1>2 DEF PoolExhausted
  <2>2. QED
    BY <1>1, <2>1, ReturnKeeps
<1>3. CASE Associate(t) \/ ForgetBuffer(t)
  <2>1. /\ pc[t] \in {"associate", "forget"} /\ sendMutex' = sendMutex
        /\ Return(t) \/ Goto(t, "forget") \/ Goto(t, "postRecv")
    BY <1>3 DEF Associate, ForgetBuffer, TryPostRecv, At
  <2>2. /\ stack[t] = <<>> /\ cur[t] # NoSession /\ pc[t] # "unlock"
        /\ "forget" \notin AwayLabels /\ "postRecv" \notin AwayLabels
    BY <1>1, <2>1 DEF BaseLabels, AwayLabels
  <2>3. CASE Return(t)
    BY <1>1, <2>1, <2>2, <2>3, ReturnKeeps
  <2>4. CASE Goto(t, "forget")
    BY <1>1, <2>1, <2>2, <2>4, MoveKeeps
  <2>5. CASE Goto(t, "postRecv")
    BY <1>1, <2>1, <2>2, <2>5, MoveKeeps
  <2>6. QED
    BY <2>1, <2>3, <2>4, <2>5
<1>4. CASE WorkerLoops(t) \/ WorkerBreaks(t) \/ DropCompletion(t) \/ AcceptCompletes(t) \/ AppConnects(t)
  <2>1. PICK l \in AwayLabels : Goto(t, l)
    BY <1>4 DEF WorkerLoops, WorkerBreaks, DropCompletion, AcceptCompletes, AppConnects, AwayLabels
  <2>2. pc[t] \in AwayLabels /\ sendMutex' = sendMutex
    BY <1>4 DEF WorkerLoops, WorkerBreaks, DropCompletion, Takes, AcceptCompletes, AppConnects, AwayLabels
  <2>3. stack[t] = <<>> /\ cur[t] = NoSession /\ l # "unlock" /\ pc[t] # "unlock"
    BY <1>1, <2>2 DEF BaseLabels, AwayLabels
  <2>4. QED
    BY <1>1, <2>1, <2>2, <2>3, MoveKeeps
<1>5. CASE AcquireSession(t) \/ RecvEnds(t) \/ RecvDelivers(t) \/ SendCompletes(t)
           \/ AppSends(t) \/ AppDisconnects(t)
  <2>1. PICK l \in {"associate", "disconnect", "process", "sendDone", "send"}, s \in Sessions :
          Begin(t, l, s)
    <3>1. \A o \in ops : o.kind \in {"recv", "send"} => o.s \in Sessions
      BY <1>1 DEF TypeOK, KernelTypes, Operations
    <3>2. CASE AcquireSession(t)
      BY <3>2 DEF AcquireSession
    <3>3. CASE RecvEnds(t)
      BY <3>1, <3>3 DEF RecvEnds, Takes
    <3>4. CASE RecvDelivers(t)
      BY <3>1, <3>4 DEF RecvDelivers, Takes
    <3>5. CASE SendCompletes(t)
      BY <3>1, <3>5 DEF SendCompletes, Takes
    <3>6. CASE AppSends(t) \/ AppDisconnects(t)
      BY <3>6 DEF AppSends, AppDisconnects
    <3>7. QED
      BY <1>5, <3>2, <3>3, <3>4, <3>5, <3>6
  <2>2. pc[t] \in AwayLabels /\ sendMutex' = sendMutex
    BY <1>5 DEF AcquireSession, InitSession, RecvEnds, RecvDelivers, SendCompletes, Takes, AppSends,
       AppDisconnects, AwayLabels
  <2>3. /\ stack[t] = <<>> /\ l # "unlock" /\ pc[t] # "unlock" /\ l \notin AwayLabels /\ s # NoSession
    BY <1>1, <2>2 DEF BaseLabels, AwayLabels
  <2>4. QED
    BY <1>1, <2>1, <2>2, <2>3, MoveKeeps
<1>6. CASE HandlerSends(t) \/ HandlerDisconnects(t)
  <2>1. /\ pc[t] = "process" /\ sendMutex' = sendMutex
        /\ Call(t, "send", "process") \/ Call(t, "disconnect", "process")
    BY <1>6 DEF HandlerSends, HandlerDisconnects, At
  <2>2. QED
    BY <1>1, <2>1, CallKeeps
<1>7. CASE AssociateFails(t)
  BY <1>7 DEF AssociateFails
<1>8. CASE CompletionNullOwner(t)
  BY <1>8, StillKeeps DEF CompletionNullOwner
<1>9. QED
  BY <1>2, <1>3, <1>4, <1>5, <1>6, <1>7, <1>8 DEF Completes, Chooses

-----------------------------------------------------------------------------
(* The slots nobody was handed yet.                                        *)

\* Whoever comes to a session knew it, or found it connected, or took it from
\* an operation on it; the kernel works for sessions that threads are on.
Reaches ==
  /\ \A u \in Threads, s \in Sessions :
       cur'[u] = s => cur[u] = s \/ connected[s] \/ connected'[s] \/ \E o \in ops : o.s = s
  /\ \A o \in ops' : o \in ops \/ o.s = NoSession \/ \E u \in Threads : cur[u] = o.s

LEMMA SlotsCounted ==
  ASSUME UsesInv, Counts, Reaches
  PROVE  UsesInv'
<1>1. /\ uses' = [s \in Sessions |-> IF connected'[s] /\ ~connected[s] THEN uses[s] + 1 ELSE uses[s]]
      /\ uses \in [Sessions -> Nat] /\ dry \in BOOLEAN /\ dry' \in BOOLEAN
  BY DEF UsesInv, Counts
<1>2. uses' \in [Sessions -> Nat]
  BY <1>1
<1>3. ASSUME NEW s \in Sessions PROVE connected'[s] => uses'[s] # 0
  BY <1>1 DEF UsesInv
<1>4. ASSUME NEW s \in Sessions, uses'[s] = 0
      PROVE  (\A t \in Threads : cur'[t] # s) /\ (\A o \in ops' : o.s # s)
  <2>1. uses[s] = 0 /\ ~connected'[s] /\ ~connected[s] /\ s # NoSession
    BY <1>1, <1>3, <1>4 DEF UsesInv, Sessions, NoSession
  <2>2. (\A t \in Threads : cur[t] # s) /\ (\A o \in ops : o.s # s)
    BY <2>1 DEF UsesInv
  <2>3. QED
    BY <2>1, <2>2 DEF Reaches
<1>5. QED
  BY <1>1, <1>2, <1>3, <1>4 DEF UsesInv

LEMMA ReachesSession ==
  ASSUME PoolInv, ControlInv, NEW t \in Threads, SessionNext(t)
  PROVE  Reaches /\ (OnlyMoves(t) \/ UNCHANGED <<pc, stack, cur>>)
<1> USE DEF fieldVars, threadVars, kernelVars
<1>1. /\ TypeOK /\ ControlTypes
      /\ \A s \in Sessions : s # NoSession
  BY DEF PoolInv, TypeOK, Sessions, NoSession
<1>2. CASE NullOwner(t)
  BY <1>2 DEF NullOwner, Reaches
<1>3. CASE \/ DisconnectLoses(t) \/ DisconnectWins(t) \/ CloseSocket(t) \/ ReleaseDisconnects(t)
           \/ ReleaseWipes(t) \/ ResetSession(t) \/ RelockHangs(t) \/ ReturnToPool(t)
           \/ PostRecvNoBuffer(t) \/ PostRecvAcquires(t) \/ PostRecvSetsUp(t)
           \/ Unlock(t) \/ PacketsProcessed(t)
  <2>1. ops' = ops /\ (Return(t) \/ (\E l : Goto(t, l)) \/ \E l, r : Call(t, l, r))
    BY <1>3 DEF DisconnectLoses, DisconnectWins, CloseSocket, ReleaseDisconnects, ReleaseWipes,
       ResetSession, RelockHangs, ReturnToPool, PostRecvNoBuffer, PostRecvAcquires, PostRecvSetsUp,
       Unlock, PacketsProcessed, TryPostRecv
  <2>2. OnlyMoves(t) /\ cur'[t] \in {cur[t], NoSession}
    BY <1>1, <2>1, ReturnMoves, GotoMoves, CallMoves DEF Returned
  <2>3. QED
    BY <1>1, <2>1, <2>2 DEF Reaches, OnlyMoves
<1>4. CASE PostRecvCall(t) \/ SendLocked(t) \/ SendNext(t)
  <2>1. /\ Return(t) \/ (\E l : Goto(t, l)) \/ \E l, r : Call(t, l, r)
        /\ \A o \in ops' : o \in ops \/ o.s = cur[t]
    BY <1>4 DEF PostRecvCall, SendLocked, SendNext, PostSend, At
  <2>2. OnlyMoves(t) /\ cur'[t] \in {cur[t], NoSession}
    BY <1>1, <2>1, ReturnMoves, GotoMoves, CallMoves DEF Returned
  <2>3. QED
    BY <1>1, <2>1, <2>2 DEF Reaches, OnlyMoves
<1>5. QED
  BY <1>2, <1>3, <1>4 DEF SessionNext

LEMMA ReachesServer ==
  ASSUME PoolInv, ControlInv, NEW t \in Threads,
         \/ AcquireSession(t) \/ PoolExhausted(t) \/ Associate(t) \/ ForgetBuffer(t)
         \/ AssociateFails(t)
         \/ WorkerLoops(t) \/ WorkerBreaks(t) \/ Completes(t) \/ Chooses(t)
  PROVE  Reaches /\ (OnlyMoves(t) \/ UNCHANGED <<pc, stack, cur>>)
<1> USE DEF poolVars, fieldVars, threadVars, kernelVars
<1>1. /\ TypeOK /\ ControlTypes /\ FieldTypes
      /\ \A s \in Sessions : s # NoSession
  BY DEF PoolInv, TypeOK, Sessions, NoSession
<1>2. CASE AcceptCompletes(t)
  <2>1. Goto(t, "acquire") /\ \A o \in ops' : o \in ops \/ o.s = NoSession
    BY <1>2 DEF AcceptCompletes, PostAccept
  <2>2. OnlyMoves(t) /\ cur'[t] = cur[t]
    BY <1>1, <2>1, GotoMoves
  <2>3. QED
    BY <1>1, <2>1, <2>2 DEF Reaches, OnlyMoves
<1>3. CASE \/ PoolExhausted(t) \/ Associate(t) \/ ForgetBuffer(t) \/ AssociateFails(t)
           \/ WorkerLoops(t) \/ WorkerBreaks(t) \/ DropCompletion(t)
           \/ AppConnects(t) \/ HandlerSends(t) \/ HandlerDisconnects(t)
  <2>1. ops' \subseteq ops /\ (Return(t) \/ (\E l : Goto(t, l)) \/ \E l, r : Call(t, l, r))
    BY <1>3 DEF PoolExhausted, Associate, ForgetBuffer, AssociateFails, WorkerLoops, WorkerBreaks,
       DropCompletion, Takes, AppConnects, HandlerSends, HandlerDisconnects, TryPostRecv
  <2>2. OnlyMoves(t) /\ cur'[t] \in {cur[t], NoSession}
    BY <1>1, <2>1, ReturnMoves, GotoMoves, CallMoves DEF Returned
  <2>3. QED
    BY <1>1, <2>1, <2>2 DEF Reaches, OnlyMoves
<1>4. CASE AcquireSession(t) \/ AppSends(t) \/ AppDisconnects(t)
  <2>1. PICK s \in Sessions : ops' = ops /\ (\E l : Begin(t, l, s)) /\ (connected[s] \/ connected'[s])
    BY <1>1, <1>4 DEF AcquireSession, InitSession, AppSends, AppDisconnects, BeginsSend, FieldTypes
  <2>2. OnlyMoves(t) /\ cur'[t] = s
    BY <1>1, <2>1, BeginMoves
  <2>3. QED
    BY <1>1, <2>1, <2>2 DEF Reaches, OnlyMoves
<1>5. CASE RecvEnds(t) \/ RecvDelivers(t) \/ SendCompletes(t)
  <2>1. PICK o \in ops : ops' = ops \ {o} /\ \E l : Begin(t, l, o.s)
    BY <1>5 DEF RecvEnds, RecvDelivers, SendCompletes, Takes
  <2>2. OnlyMoves(t) /\ cur'[t] = o.s
    BY <1>1, <2>1, BeginMoves
  <2>3. QED
    BY <1>1, <2>1, <2>2 DEF Reaches, OnlyMoves
<1>6. CASE CompletionNullOwner(t)
  BY <1>6 DEF CompletionNullOwner, Takes, Reaches
<1>7. QED
  BY <1>2, <1>3, <1>4, <1>5, <1>6 DEF Completes, Chooses

\* Before Start nothing happens.
NewInv == main = "new" => (\A t \in Threads : pc[t] = "idle") /\ \A s \in Sessions : ~connected[s]

LEMMA NothingBeforeStart ==
  ASSUME NewInv, NEW t \in Threads, Runs(t) \/ Completes(t) \/ Chooses(t)
  PROVE  main # "new" /\ main' = main
<1>1. main' = main
  BY DEF Runs, Completes, Chooses, serverVars, AcquireSession, PoolExhausted, Associate, ForgetBuffer,
     AssociateFails, WorkerLoops, WorkerBreaks, AcceptCompletes, DropCompletion, CompletionNullOwner,
     RecvEnds, RecvDelivers, SendCompletes, AppConnects, AppSends, AppDisconnects, HandlerSends,
     HandlerDisconnects
<1>2. ASSUME main = "new" PROVE FALSE
  <2>1. pc[t] = "idle" /\ ~running /\ \A s \in Sessions : ~connected[s]
    BY <1>2 DEF NewInv, running
  <2>2. ~SessionNext(t)
    BY <2>1 DEF SessionNext, At, NullOwner, DerefsOwner, DisconnectLoses, DisconnectWins, CloseSocket,
       ReleaseDisconnects, ReleaseWipes, ResetSession, RelockHangs, ReturnToPool, PostRecvNoBuffer,
       PostRecvAcquires, PostRecvSetsUp, PostRecvCall, SendLocked, SendNext, Unlock, PacketsProcessed
  <2>3. ~Runs(t)
    BY <1>2, <2>1, <2>2 DEF Runs, At, AcquireSession, PoolExhausted, Associate, ForgetBuffer,
       AssociateFails, WorkerLoops, WorkerBreaks
  <2>4. ~Completes(t)
    BY <2>1 DEF Completes, Takes, AcceptCompletes, DropCompletion, CompletionNullOwner, RecvEnds,
       RecvDelivers, SendCompletes
  <2>5. ~Chooses(t)
    BY <2>1 DEF Chooses, At, AppConnects, AppSends, AppDisconnects, BeginsSend, HandlerSends,
       HandlerDisconnects
  <2>6. QED
    BY <2>3, <2>4, <2>5
<1>3. QED
  BY <1>1, <1>2

\* The ground the data path stands on.
GroundInv == KeepInv /\ FreeInv /\ ControlInv /\ MutexInv /\ UsesInv /\ NewInv

LEMMA GroundStep ==
  ASSUME GroundInv, ~AssocMayFail, [Next /\ Counts]_slotVars
  PROVE  GroundInv'
<1> USE DEF GroundInv
<1>1. [Next]_vars
  BY DEF slotVars
<1>2. KeepInv' /\ FreeInv' /\ PoolInv
  BY <1>1, KeepStep, FreeStep DEF FreeInv, LifeInv
<1>3. CASE UNCHANGED slotVars
  <2>1. UNCHANGED <<pc, stack, cur, sendMutex, connected, ops, uses, dry>>
    BY <1>3 DEF slotVars, vars, fieldVars, threadVars, kernelVars
  <2>2. UsesInv' /\ NewInv'
    BY <1>3, <2>1 DEF UsesInv, NewInv, slotVars, vars, serverVars
  <2>3. QED
    BY <1>2, <2>1, <2>2, StillKeeps
<1>4. CASE Counts /\ (Start \/ Stop \/ Joined)
  <2>1. UNCHANGED <<pc, stack, cur, sendMutex, connected>> /\ \A o \in ops' : o \in ops \/ o.s = NoSession
    BY <1>4 DEF Start, Stop, Joined, PostAccept, fieldVars, threadVars, kernelVars
  <2>2. Reaches /\ NewInv'
    BY <1>4, <2>1 DEF Reaches, NewInv, Start, Stop, Joined
  <2>3. QED
    BY <1>2, <1>4, <2>1, <2>2, StillKeeps, SlotsCounted
<1>5. ASSUME NEW t \in Threads, Runs(t) \/ Completes(t) \/ Chooses(t), Counts
      PROVE  GroundInv'
  <2>1. ControlInv' /\ MutexInv' /\ Reaches
    BY <1>2, <1>5, ControlSession, ControlServer, ReachesSession, ReachesServer DEF Runs
  <2>2. NewInv'
    BY <1>5, NothingBeforeStart DEF NewInv
  <2>3. QED
    BY <1>2, <1>5, <2>1, <2>2, SlotsCounted
<1>6. QED
  BY <1>3, <1>4, <1>5 DEF Next

LEMMA GroundInit == SlotInit => GroundInv
<1> SUFFICES ASSUME SlotInit PROVE GroundInv
  OBVIOUS
<1>1. Init /\ KeepInv /\ FreeInv /\ TypeOK
  BY KeepInit, FreeInit, TypeInit DEF SlotInit
<1>2. /\ pc = [t \in Threads |-> "idle"] /\ stack = [t \in Threads |-> <<>>]
      /\ cur = [t \in Threads |-> NoSession] /\ ops = {}
      /\ sendMutex = [s \in Sessions |-> NoThread]
      /\ connected = [s \in Sessions |-> FALSE]
      /\ uses = [s \in Sessions |-> 0] /\ dry = FALSE
      /\ \A s \in Sessions : s # NoSession
  BY <1>1 DEF Init, SessionInit, SlotInit, Sessions, NoSession
<1>3. ControlInv
  BY <1>2 DEF ControlInv, ControlOK, Stacks, AwayLabels
<1>4. MutexInv
  BY <1>2, ThreadsAssumption DEF MutexInv
<1>5. UsesInv /\ NewInv
  BY <1>2 DEF UsesInv, NewInv
<1>6. QED
  BY <1>1, <1>3, <1>4, <1>5 DEF GroundInv

-----------------------------------------------------------------------------
(* One send at a time.                                                     *)

\* The step leaves the send of s alone, or ends it on a closed connection.
SendCalm(s) ==
  /\ Sends(s)' \subseteq Sends(s) /\ SendersOf(s)' \subseteq SendersOf(s)
  /\ ~owner'[s] \/ (sending'[s] = sending[s] /\ owner'[s] = owner[s])
  /\ \/ sendOvl'[s] = sendOvl[s] /\ (sock'[s] = sock[s] \/ sock'[s] = NoSocket)
     \/ sendOvl'[s] = NoBuffer /\ sock'[s] = NoSocket
  /\ connected'[s] =>
       /\ connected[s] /\ sending'[s] = sending[s] /\ sendQueue'[s] = sendQueue[s]
       /\ sendMutex'[s] = sendMutex[s]
       /\ \A u \in Threads : At(u, "disconnect", s) => At(u, "disconnect", s)'
       /\ Serving' => Serving /\ Sends(s)' = Sends(s) /\ SendersOf(s)' = SendersOf(s)

LEMMA CalmSends ==
  ASSUME NEW s \in Sessions, SendOK(s), SendCalm(s), dry => dry'
  PROVE  SendOK(s)'
<1> DEFINE A == Sends(s)
           B == SendersOf(s)
<1>1. /\ OneOf(A, B) /\ A' \subseteq A /\ B' \subseteq B
      /\ (A # {} \/ B # {} => sending[s] \/ ~owner[s])
  BY DEF SendOK, SendCalm
<1>2. OneOf(A', B')
  BY <1>1 DEF OneOf
<1>3. A' # {} \/ B' # {} => sending'[s] \/ ~owner'[s]
  BY <1>1 DEF SendCalm
<1>4. \A t \in Threads : connected'[s] /\ sendMutex'[s] = t => At(t, "disconnect", s)'
  BY DEF SendOK, SendCalm
<1>5. \A o \in A' : sendOvl'[s] = o.buf \/ (sock'[s] = NoSocket /\ sendOvl'[s] = NoBuffer)
  BY DEF SendOK, SendCalm
<1>6. ~dry' /\ Serving' /\ connected'[s] =>
        /\ sendQueue'[s] # <<>> => sending'[s]
        /\ sending'[s] => A' # {} \/ B' # {}
  BY DEF SendOK, SendCalm
<1>7. QED
  BY <1>2, <1>3, <1>4, <1>5, <1>6 DEF SendOK, OneOf

LEMMA UsesGrow ==
  ASSUME UsesInv, Counts, NEW s \in Sessions
  PROVE  /\ FirstUse(s)' => FirstUse(s)
         /\ dry => dry'
         /\ FirstUse(s)' /\ connected'[s] /\ ~connected[s] => uses[s] = 0
         /\ ~HasFreeBuffer => dry'
<1>1. dry' = (dry \/ ~HasFreeBuffer)
  BY DEF Counts
<1>2. /\ uses[s] \in Nat
      /\ uses'[s] = IF connected'[s] /\ ~connected[s] THEN uses[s] + 1 ELSE uses[s]
  BY DEF UsesInv, Counts
<1>3. FirstUse(s)' => FirstUse(s)
  BY <1>2 DEF FirstUse
<1>4. FirstUse(s)' /\ connected'[s] /\ ~connected[s] => uses[s] = 0
  BY <1>2 DEF FirstUse
<1>5. QED
  BY <1>1, <1>3, <1>4

\* Threads that neither end a send nor lose a connection.
Bystander(t) ==
  /\ OnlyMoves(t) /\ pc[t] # "sendDone" /\ pc'[t] # "sendDone"
  /\ \A s \in Sessions : At(t, "disconnect", s) => At(t, "disconnect", s)' \/ ~connected'[s]

SameSends == \A s \in Sessions : Sends(s)' = Sends(s)

LEMMA OpsAside ==
  ASSUME \A o \in ops' : o \in ops \/ o.kind # "send",
         \A o \in ops : o \in ops' \/ o.kind # "send"
  PROVE  SameSends
BY DEF SameSends, Sends, OpsOf

\* The senders, when t is a bystander and no mutex moves.
LEMMA SameSenders ==
  ASSUME NEW t \in Threads, Bystander(t) \/ UNCHANGED <<pc, cur>>, NEW s \in Sessions,
         sendMutex'[s] = sendMutex[s]
  PROVE  /\ SendersOf(s)' = SendersOf(s)
         /\ connected'[s] => \A u \in Threads : At(u, "disconnect", s) => At(u, "disconnect", s)'
<1>1. \A u \in Threads : At(u, "sendDone", s)' <=> At(u, "sendDone", s)
  BY DEF Bystander, OnlyMoves, At
<1>2. SendersOf(s)' = SendersOf(s)
  BY <1>1 DEF SendersOf
<1>3. ASSUME connected'[s], NEW u \in Threads, At(u, "disconnect", s)
      PROVE  At(u, "disconnect", s)'
  BY <1>3 DEF Bystander, OnlyMoves, At
<1>4. QED
  BY <1>2, <1>3

LEMMA Aloof ==
  ASSUME NEW t \in Threads, Bystander(t) \/ UNCHANGED <<pc, cur>>, NEW s \in Sessions,
         Sends(s)' = Sends(s), Serving' => Serving, connected'[s] => connected[s],
         sock'[s] = sock[s], owner'[s] = owner[s], sending'[s] = sending[s],
         sendOvl'[s] = sendOvl[s], sendQueue'[s] = sendQueue[s], sendMutex'[s] = sendMutex[s]
  PROVE  SendCalm(s)
BY SameSenders DEF SendCalm

sendVars == <<sock, owner, connected, sending, sendOvl, sendQueue, sendMutex>>

LEMMA AloofAll ==
  ASSUME NEW t \in Threads, Bystander(t) \/ UNCHANGED <<pc, cur>>, SameSends, Serving' => Serving,
         UNCHANGED sendVars
  PROVE  \A s \in Sessions : SendCalm(s)
BY Aloof DEF SameSends, sendVars

\* The ways a thread may move.
LEMMA Moves ==
  ASSUME ControlTypes, ControlInv, NEW t \in Threads, NEW l, NEW s, NEW r,
         Return(t) \/ Goto(t, l) \/ Begin(t, l, s) \/ Call(t, l, r)
  PROVE  OnlyMoves(t) /\ pc'[t] \in {"idle", "process", "unlock", l}
BY ReturnMoves, GotoMoves, BeginMoves, CallMoves DEF Returned

LEMMA StandsBy ==
  ASSUME ControlTypes, ControlInv, NEW t \in Threads, NEW l, NEW s, NEW r,
         Return(t) \/ Goto(t, l) \/ Begin(t, l, s) \/ Call(t, l, r),
         pc[t] # "sendDone", l # "sendDone",
         pc[t] = "disconnect" => ~connected'[cur[t]]
  PROVE  Bystander(t)
BY Moves DEF Bystander, At

LEMMA AsideSession ==
  ASSUME GroundInv, NEW t \in Threads, UNCHANGED serverVars,
         \/ NullOwner(t) \/ DisconnectLoses(t) \/ RelockHangs(t) \/ ReturnToPool(t)
         \/ PostRecvNoBuffer(t) \/ PostRecvAcquires(t) \/ PostRecvSetsUp(t) \/ PostRecvCall(t)
         \/ PacketsProcessed(t)
  PROVE  \A s \in Sessions : SendCalm(s)
<1> USE DEF fieldVars, threadVars, kernelVars
<1>1. ControlTypes /\ ControlInv
  BY DEF GroundInv, KeepInv, LifeInv, PoolInv, TypeOK
<1>2. /\ UNCHANGED sendVars /\ (Serving' => Serving)
      /\ \A o \in ops' : o \in ops \/ o.kind # "send"
      /\ \A o \in ops : o \in ops' \/ o.kind # "send"
  BY DEF NullOwner, DisconnectLoses, RelockHangs, ReturnToPool, PostRecvNoBuffer, PostRecvAcquires,
     PostRecvSetsUp, PostRecvCall, PacketsProcessed, sendVars, Serving, serverVars
<1>3. CASE NullOwner(t)
  BY <1>2, <1>3, AloofAll, OpsAside DEF NullOwner
<1>4. CASE DisconnectLoses(t)
  <2>1. Return(t) /\ pc[t] = "disconnect" /\ ~connected'[cur[t]]
    BY <1>4 DEF DisconnectLoses, WinsExchange, At
  <2>2. Bystander(t)
    BY <1>1, <2>1, StandsBy
  <2>3. QED
    BY <1>2, <2>2, AloofAll, OpsAside
<1>5. CASE \/ RelockHangs(t) \/ ReturnToPool(t) \/ PostRecvNoBuffer(t) \/ PostRecvAcquires(t)
           \/ PostRecvSetsUp(t) \/ PostRecvCall(t) \/ PacketsProcessed(t)
  <2>1. /\ \/ Return(t)
           \/ \E l \in {"hung", "disconnect", "postRecv", "setup", "receive"} : Goto(t, l)
        /\ pc[t] \notin {"sendDone", "disconnect"}
    BY <1>5 DEF RelockHangs, ReturnToPool, PostRecvNoBuffer, PostRecvAcquires, PostRecvSetsUp,
       PostRecvCall, PacketsProcessed, TryPostRecv, At
  <2>2. Bystander(t)
    BY <1>1, <2>1, StandsBy
  <2>3. QED
    BY <1>2, <2>2, AloofAll, OpsAside
<1>6. QED
  BY <1>3, <1>4, <1>5

LEMMA AsideServer ==
  ASSUME GroundInv, NEW t \in Threads,
         \/ PoolExhausted(t) \/ Associate(t) \/ ForgetBuffer(t)
         \/ WorkerLoops(t) \/ AcceptCompletes(t)
         \/ RecvEnds(t) \/ RecvDelivers(t)
         \/ Chooses(t)
  PROVE  \A s \in Sessions : SendCalm(s)
<1> USE DEF poolVars, fieldVars, threadVars, kernelVars
<1>1. ControlTypes /\ ControlInv
  BY DEF GroundInv, KeepInv, LifeInv, PoolInv, TypeOK
<1>2. /\ UNCHANGED sendVars /\ (Serving' => Serving)
      /\ \A o \in ops' : o \in ops \/ o.kind # "send"
      /\ \A o \in ops : o \in ops' \/ o.kind # "send"
  BY DEF PoolExhausted, Associate, ForgetBuffer, WorkerLoops, AcceptCompletes, PostAccept, RecvEnds,
     RecvDelivers, Takes, Chooses, AppConnects, AppSends, AppDisconnects, HandlerSends,
     HandlerDisconnects, sendVars, Serving, serverVars
<1>3. /\ pc[t] \notin {"sendDone", "disconnect"}
      /\ \/ Return(t)
         \/ \E l \in {"forget", "postRecv", "wait", "exited", "acquire"} : Goto(t, l)
         \/ \E s : \E l \in {"disconnect", "process", "send"} : Begin(t, l, s)
         \/ \E l \in {"send", "disconnect"} : Call(t, l, "process")
  BY DEF PoolExhausted, Associate, ForgetBuffer, WorkerLoops, AcceptCompletes, RecvEnds,
     RecvDelivers, Takes, Chooses, AppConnects, AppSends, AppDisconnects, HandlerSends,
     HandlerDisconnects, TryPostRecv, At
<1>4. Bystander(t)
  BY <1>1, <1>3, StandsBy
<1>5. QED
  BY <1>2, <1>4, AloofAll, OpsAside

LEMMA GroundFacts ==
  ASSUME GroundInv
  PROVE  /\ TypeOK /\ ControlTypes /\ FieldTypes /\ KernelTypes /\ PoolTypes
         /\ SocketInv /\ OwnerKnown /\ ControlInv /\ MutexInv /\ UsesInv /\ PoolInv /\ KeepersInv
         /\ \A s \in Sessions : s # NoSession
         /\ \A t \in Threads, s \in Sessions : Holds(t, s) => ~connected[s]
         /\ \A s \in Sessions : InPool(s) => Clean(s) /\ ~connected[s]
         /\ \A o \in ops : o.kind \in {"recv", "send"} => o.s \in Sessions
         /\ \A o \in ops : o.kind = "send" => o.buf # NoBuffer
<1>1. /\ TypeOK /\ ControlTypes /\ FieldTypes /\ KernelTypes /\ PoolTypes
      /\ SocketInv /\ OwnerKnown /\ ControlInv /\ MutexInv /\ UsesInv /\ PoolInv /\ KeepersInv
      /\ \A t \in Threads, s \in Sessions : Holds(t, s) => ~connected[s]
      /\ \A s \in Sessions : InPool(s) => Clean(s) /\ ~connected[s]
  BY DEF GroundInv, KeepInv, FreeInv, CleanInv, LifeInv, PoolInv, TypeOK, PoolIntegrity, OnePlace
<1>2. /\ \A o \in ops : o.kind \in {"recv", "send"} => o.s \in Sessions
      /\ \A o \in ops : o.kind = "send" => o.buf \in Buffers
  BY <1>1 DEF KernelTypes, Operations
<1>3. NoBuffer \notin Buffers /\ \A s \in Sessions : s # NoSession
  BY NumBuffersAssumption DEF NoBuffer, Buffers, Sessions, NoSession
<1>4. QED
  BY <1>1, <1>2, <1>3

\* A thread that is not and does not come to session s changes no label on s.
LEMMA Elsewhere ==
  ASSUME NEW t \in Threads, OnlyMoves(t), NEW s, cur[t] # s, cur'[t] # s
  PROVE  \A l : \A u \in Threads : At(u, l, s)' <=> At(u, l, s)
BY DEF OnlyMoves, At

LEMMA AloofElsewhere ==
  ASSUME NEW t \in Threads, OnlyMoves(t), NEW s \in Sessions, cur[t] # s, cur'[t] # s,
         Sends(s)' = Sends(s), Serving' => Serving, connected'[s] = connected[s],
         sock'[s] = sock[s], owner'[s] = owner[s], sending'[s] = sending[s],
         sendOvl'[s] = sendOvl[s], sendQueue'[s] = sendQueue[s], sendMutex'[s] = sendMutex[s]
  PROVE  SendCalm(s)
<1>1. \A l : \A u \in Threads : At(u, l, s)' <=> At(u, l, s)
  BY Elsewhere
<1>2. SendersOf(s)' = SendersOf(s)
  BY <1>1 DEF SendersOf
<1>3. QED
  BY <1>1, <1>2 DEF SendCalm

\* The thread that closes s.
LEMMA Closing ==
  ASSUME NEW t \in Threads, Bystander(t), NEW s \in Sessions, ~connected'[s],
         Sends(s)' = Sends(s), sendMutex'[s] = sendMutex[s],
         ~owner'[s] \/ (sending'[s] = sending[s] /\ owner'[s] = owner[s]),
         \/ sendOvl'[s] = sendOvl[s] /\ (sock'[s] = sock[s] \/ sock'[s] = NoSocket)
         \/ sendOvl'[s] = NoBuffer /\ sock'[s] = NoSocket
  PROVE  SendCalm(s)
BY SameSenders DEF SendCalm

LEMMA ClosingSends ==
  ASSUME GroundInv, NEW t \in Threads, UNCHANGED serverVars,
         DisconnectWins(t) \/ CloseSocket(t) \/ ReleaseWipes(t) \/ ResetSession(t)
  PROVE  \A s \in Sessions : SendCalm(s)
<1> USE DEF kernelVars
<1>1. ControlTypes /\ ControlInv /\ FieldTypes
  BY GroundFacts
<1>2. PICK s \in Sessions : /\ cur[t] = s
                            /\ \/ pc[t] = "disconnect" /\ DisconnectWins(t)
                               \/ pc[t] = "close" /\ CloseSocket(t)
                               \/ pc[t] \in {"release", "wipe"} /\ ReleaseWipes(t)
                               \/ pc[t] = "reset" /\ ResetSession(t)
  BY DEF DisconnectWins, CloseSocket, ReleaseWipes, ResetSession, At
<1>3. SameSends /\ (Serving' => Serving) /\ sendMutex' = sendMutex
  BY DEF DisconnectWins, CloseSocket, ReleaseWipes, ResetSession, ResetMembers, WipeFields, SameSends,
     Sends, OpsOf, Serving, serverVars
<1>4. ~connected'[s]
  <2>1. CASE DisconnectWins(t)
    BY <1>1, <1>2, <2>1 DEF DisconnectWins, FieldTypes, At
  <2>2. CASE pc[t] \in {"close", "release", "wipe", "reset"}
    <3>1. Holds(t, s)
      BY <1>2, <2>2 DEF Holds, HoldLabels
    <3>2. ~connected[s]
      BY <3>1, GroundFacts
    <3>3. QED
      BY <1>1, <1>2, <2>2, <3>2 DEF CloseSocket, ReleaseWipes, WipeFields, ResetSession, FieldTypes, At
  <2>3. QED
    BY <1>2, <2>1, <2>2
<1>5. Bystander(t)
  <2>1. /\ pc[t] # "sendDone"
        /\ \/ Return(t)
           \/ \E l \in {"close", "release", "reset", "push"} : Goto(t, l)
    BY <1>2 DEF DisconnectWins, CloseSocket, ReleaseWipes, ResetSession
  <2>2. QED
    BY <1>1, <1>2, <1>4, <2>1, StandsBy
<1>6. SendCalm(s)
  <2>1. ~owner'[s] \/ (sending'[s] = sending[s] /\ owner'[s] = owner[s])
    BY <1>1, <1>2 DEF DisconnectWins, CloseSocket, ReleaseWipes, WipeFields, ResetSession, FieldTypes, At
  <2>2. \/ sendOvl'[s] = sendOvl[s] /\ (sock'[s] = sock[s] \/ sock'[s] = NoSocket)
        \/ sendOvl'[s] = NoBuffer /\ sock'[s] = NoSocket
    <3>1. CASE ResetSession(t)
      <4>1. At(t, "reset", s) /\ sendOvl'[s] = NoBuffer /\ sock' = sock
        BY <1>1, <1>2, <3>1 DEF ResetSession, ResetMembers, FieldTypes, At
      <4>2. sock[s] = NoSocket
        BY <4>1 DEF GroundInv, FreeInv, CleanInv, Wiped
      <4>3. QED
        BY <4>1, <4>2
    <3>2. CASE DisconnectWins(t) \/ CloseSocket(t) \/ ReleaseWipes(t)
      BY <1>1, <1>2, <3>2 DEF DisconnectWins, CloseSocket, ReleaseWipes, WipeFields, FieldTypes, At
    <3>3. QED
      BY <3>1, <3>2
  <2>3. QED
    BY <1>3, <1>4, <1>5, <2>1, <2>2, Closing DEF SameSends
<1>7. ASSUME NEW r \in Sessions, r # s PROVE SendCalm(r)
  <2>1. /\ connected'[r] = connected[r] /\ sock'[r] = sock[r] /\ owner'[r] = owner[r]
        /\ sending'[r] = sending[r] /\ sendOvl'[r] = sendOvl[r] /\ sendQueue'[r] = sendQueue[r]
    BY <1>1, <1>2, <1>7 DEF DisconnectWins, CloseSocket, ReleaseWipes, WipeFields, ResetSession,
       ResetMembers, FieldTypes, At
  <2>2. QED
    BY <1>3, <1>5, <2>1, Aloof DEF SameSends
<1>8. QED
  BY <1>6, <1>7

LEMMA UnlockSends ==
  ASSUME GroundInv, SendsInv, NEW t \in Threads, UNCHANGED serverVars, Unlock(t)
  PROVE  \A s \in Sessions : FirstUse(s) => SendCalm(s)
<1> USE DEF kernelVars
<1>1. ControlTypes /\ ControlInv /\ FieldTypes /\ MutexInv
  BY GroundFacts
<1>2. PICK s \in Sessions : /\ At(t, "unlock", s) /\ Return(t)
                            /\ sendMutex' = [sendMutex EXCEPT ![s] = NoThread]
                            /\ UNCHANGED <<sock, owner, connected, sending, sendOvl, sendQueue, ops>>
  BY DEF Unlock
<1>3. /\ Bystander(t) /\ SameSends /\ (Serving' => Serving)
      /\ \A r \in Sessions : sendMutex'[r] = IF r = s THEN NoThread ELSE sendMutex[r]
      /\ sendMutex[s] = t
  <2>1. pc[t] = "unlock" /\ cur[t] = s
    BY <1>2 DEF At
  <2>2. Bystander(t)
    BY <1>1, <1>2, <2>1, StandsBy
  <2>3. QED
    BY <1>1, <1>2, <2>1, <2>2 DEF SameSends, Sends, OpsOf, Serving, serverVars, FieldTypes, MutexInv, WillUnlock
<1>4. ASSUME NEW r \in Sessions, r # s PROVE SendCalm(r)
  BY <1>2, <1>3, <1>4, Aloof DEF SameSends
<1>5. ASSUME FirstUse(s) PROVE SendCalm(s)
  <2>1. ~connected[s]
    BY <1>2, <1>3, <1>5 DEF SendsInv, SendOK, At
  <2>2. SendersOf(s)' \subseteq SendersOf(s)
    BY <1>3, ThreadsAssumption DEF SendersOf, Bystander, OnlyMoves, At
  <2>3. QED
    BY <1>2, <1>3, <2>1, <2>2 DEF SendCalm, SameSends
<1>6. QED
  BY <1>4, <1>5

\* An operation goes, of a closed session or when nobody serves any more.
LEMMA Shrinks ==
  ASSUME NEW t \in Threads, Bystander(t) \/ UNCHANGED <<pc, cur>>, NEW o, ops' = ops \ {o},
         Serving' => Serving, UNCHANGED sendVars, NEW s \in Sessions,
         o.kind = "send" /\ o.s = s => ~connected[s] \/ ~Serving'
  PROVE  SendCalm(s)
<1>1. /\ SendersOf(s)' = SendersOf(s)
      /\ connected'[s] => \A u \in Threads : At(u, "disconnect", s) => At(u, "disconnect", s)'
  BY SameSenders DEF sendVars
<1>2. Sends(s)' \subseteq Sends(s)
  BY DEF Sends, OpsOf
<1>3. ~(o.kind = "send" /\ o.s = s) => Sends(s)' = Sends(s)
  BY DEF Sends, OpsOf
<1>4. QED
  BY <1>1, <1>2, <1>3 DEF SendCalm, sendVars

LEMMA DropsSends ==
  ASSUME GroundInv, SendsInv, NEW t \in Threads,
         WorkerBreaks(t) \/ DropCompletion(t) \/ CompletionNullOwner(t)
  PROVE  \A s \in Sessions : FirstUse(s) => SendCalm(s)
<1> USE DEF fieldVars, threadVars, kernelVars, poolVars
<1>1. ControlTypes /\ ControlInv /\ FieldTypes /\ SocketInv /\ OwnerKnown
  BY GroundFacts
<1>2. /\ main' = main /\ UNCHANGED sendVars
      /\ Bystander(t) \/ UNCHANGED <<pc, cur>>
  <2>1. CASE CompletionNullOwner(t)
    BY <2>1 DEF CompletionNullOwner, sendVars, serverVars
  <2>2. CASE WorkerBreaks(t) \/ DropCompletion(t)
    <3>1. (Goto(t, "exited") \/ Goto(t, "idle")) /\ pc[t] = "wait"
      BY <2>2 DEF WorkerBreaks, DropCompletion, Takes
    <3>2. Bystander(t)
      BY <1>1, <3>1, StandsBy
    <3>3. QED
      BY <2>2, <3>2 DEF WorkerBreaks, DropCompletion, sendVars, serverVars
  <2>3. QED
    BY <2>1, <2>2
<1>3. CASE WorkerBreaks(t)
  <2>1. ~Serving'
    BY <1>2, <1>3 DEF WorkerBreaks, Serving, running, GroundInv, NewInv
  <2>2. PICK o : ops' = ops \ {o}
    <3>1. CASE ops' = ops
      BY <3>1, NoSetContainsEverything
    <3>2. CASE \E o \in ops : ops' = ops \ {o}
      BY <3>2
    <3>3. QED
      BY <1>3, <3>1, <3>2 DEF WorkerBreaks
  <2>3. QED
    BY <1>2, <2>1, <2>2, Shrinks
<1>4. CASE DropCompletion(t) \/ CompletionNullOwner(t)
  <2>1. PICK o \in ops : Takes(t, o) /\ (OvlBuffer(o) = NoBuffer \/ ~owner[o.s])
    BY <1>4 DEF DropCompletion, CompletionNullOwner
  <2>2. /\ o.kind \in {"recv", "send"} /\ o.s \in Sessions /\ ops' = ops \ {o}
        /\ o.kind = "send" => o.buf # NoBuffer
    BY <2>1, GroundFacts DEF Takes
  <2>3. ASSUME NEW s \in Sessions, FirstUse(s), o.kind = "send", o.s = s PROVE ~connected[s]
    <3>1. CASE ~owner[s]
      BY <1>1, <3>1 DEF OwnerKnown
    <3>2. CASE sendOvl[s] = NoBuffer
      <4>1. o \in Sends(s) /\ SendOK(s)
        BY <2>3 DEF Sends, OpsOf, SendsInv
      <4>2. sock[s] = NoSocket
        BY <2>2, <2>3, <3>2, <4>1 DEF SendOK
      <4>3. QED
        BY <1>1, <4>2 DEF SocketInv
    <3>3. QED
      BY <2>1, <2>3, <3>1, <3>2 DEF OvlBuffer
  <2>4. QED
    BY <1>2, <2>2, <2>3, Shrinks DEF Serving
<1>5. QED
  BY <1>3, <1>4

\* Nothing that was done on a slot before its first connection can be under way.
LEMMA FreshSlot ==
  ASSUME GroundInv, NEW s \in Sessions, uses[s] = 0
  PROVE  /\ \A t \in Threads : cur[t] # s /\ sendMutex[s] # t
         /\ \A o \in ops : o.s # s
         /\ Sends(s) = {} /\ SendersOf(s) = {}
<1>1. (\A t \in Threads : cur[t] # s) /\ (\A o \in ops : o.s # s)
  BY GroundFacts DEF UsesInv
<1>2. \A t \in Threads : sendMutex[s] # t
  BY <1>1, GroundFacts DEF MutexInv
<1>3. QED
  BY <1>1, <1>2 DEF Sends, OpsOf, SendersOf, At

\* What AcquireSession does to the session it takes, and that it leaves the others.
LEMMA Acquires ==
  ASSUME GroundInv, NEW t \in Threads, AcquireSession(t)
  PROVE  \E s \in Sessions :
           /\ InPool(s) /\ Clean(s) /\ ~connected[s]
           /\ connected'[s] /\ owner'[s] /\ ~sending'[s] /\ sock'[s] = csock[t]
           /\ \A r \in Sessions \ {s} :
                /\ connected'[r] = connected[r] /\ sock'[r] = sock[r] /\ owner'[r] = owner[r]
                /\ sending'[r] = sending[r]
           /\ UNCHANGED <<sendOvl, recvOvl, sendQueue, sendMutex, ops, main, freeList, rbuf, job>>
           /\ OnlyMoves(t) /\ pc[t] = "acquire" /\ pc'[t] = "associate" /\ cur'[t] = s
           /\ stack'[t] = stack[t]
<1>1. PICK s \in Sessions : /\ pc[t] = "acquire" /\ PopSession(s) /\ InitSession(s, csock[t])
                            /\ Begin(t, "associate", s)
                            /\ UNCHANGED <<freeList, rbuf, job, kernelVars, serverVars>>
  BY DEF AcquireSession
<1>2. InPool(s)
  <2>1. PICK q : q = freeIndices
    OBVIOUS
  <2>2. q \in Seq(Sessions) /\ q # <<>> /\ s = Last(q)
    BY <1>1, <2>1, GroundFacts DEF PopSession, HasFreeSession, PoolTypes
  <2>3. Len(q) \in 1..Len(q) /\ s = q[Len(q)]
    BY <2>2 DEF Last
  <2>4. QED
    BY <2>1, <2>3 DEF InPool
<1>3. Clean(s) /\ ~connected[s]
  BY <1>2, GroundFacts
<1>4. OnlyMoves(t) /\ pc'[t] = "associate" /\ cur'[t] = s /\ stack'[t] = stack[t]
  BY <1>1, GroundFacts, BeginMoves
<1>5. /\ connected'[s] /\ owner'[s] /\ ~sending'[s] /\ sock'[s] = csock[t]
      /\ \A r \in Sessions \ {s} :
           /\ connected'[r] = connected[r] /\ sock'[r] = sock[r] /\ owner'[r] = owner[r]
           /\ sending'[r] = sending[r]
      /\ UNCHANGED <<sendOvl, recvOvl, sendQueue, sendMutex>>
  BY <1>1, GroundFacts DEF InitSession, FieldTypes
<1>6. QED
  BY <1>1, <1>2, <1>3, <1>4, <1>5 DEF kernelVars, serverVars

LEMMA AcquireSends ==
  ASSUME GroundInv, SendsInv, Counts, NEW t \in Threads, AcquireSession(t)
  PROVE  SendsInv'
<1>1. PICK s \in Sessions :
        /\ Clean(s) /\ ~connected[s]
        /\ connected'[s] /\ owner'[s] /\ ~sending'[s]
        /\ \A r \in Sessions \ {s} :
             /\ connected'[r] = connected[r] /\ sock'[r] = sock[r] /\ owner'[r] = owner[r]
             /\ sending'[r] = sending[r]
        /\ UNCHANGED <<sendOvl, sendQueue, sendMutex, ops, main>>
        /\ OnlyMoves(t) /\ pc[t] = "acquire" /\ pc'[t] = "associate" /\ cur'[t] = s
  BY Acquires
<1>2. cur[t] = NoSession
  BY <1>1, GroundFacts, AtBase DEF AwayLabels
<1>3. ASSUME NEW r \in Sessions, r # s, FirstUse(r)' PROVE SendOK(r)'
  <2>1. SendCalm(r)
    BY <1>1, <1>2, <1>3, AloofElsewhere, GroundFacts DEF Sends, OpsOf, Serving
  <2>2. QED
    BY <1>3, <2>1, UsesGrow, CalmSends, GroundFacts DEF SendsInv
<1>4. ASSUME FirstUse(s)' PROVE SendOK(s)'
  <2>1. uses[s] = 0
    BY <1>1, <1>4, UsesGrow, GroundFacts
  <2>2. Sends(s)' = {} /\ SendersOf(s)' = {} /\ \A u \in Threads : sendMutex'[s] # u
    <3>1. (\A u \in Threads : cur[u] # s /\ sendMutex'[s] # u) /\ Sends(s) = {}
      BY <1>1, <2>1, FreshSlot
    <3>2. \A u \in Threads : ~At(u, "sendDone", s)'
      BY <1>1, <3>1 DEF At, OnlyMoves
    <3>3. QED
      BY <1>1, <3>1, <3>2 DEF Sends, OpsOf, SendersOf
  <2>3. sendQueue'[s] = <<>>
    BY <1>1 DEF Clean
  <2>4. QED
    BY <1>1, <2>2, <2>3 DEF SendOK, OneOf
<1>5. QED
  BY <1>3, <1>4 DEF SendsInv

LEMMA CompletesSends ==
  ASSUME GroundInv, SendsInv, Counts, NEW t \in Threads, SendCompletes(t)
  PROVE  SendsInv'
<1> USE DEF fieldVars, poolVars
<1>1. PICK o \in ops : /\ Takes(t, o) /\ o.kind = "send" /\ Begin(t, "sendDone", o.s)
                       /\ UNCHANGED sendVars /\ main' = main
  BY DEF SendCompletes, sendVars, serverVars
<1>2. PICK s \in Sessions : s = o.s
  BY <1>1, GroundFacts
<1>3. /\ OnlyMoves(t) /\ pc'[t] = "sendDone" /\ cur'[t] = s /\ pc[t] = "wait" /\ cur[t] = NoSession
      /\ ops' = ops \ {o} /\ s # NoSession
  BY <1>1, <1>2, GroundFacts, BeginMoves, AtBase DEF Takes, AwayLabels
<1>4. ASSUME NEW r \in Sessions, r # s, FirstUse(r)' PROVE SendOK(r)'
  <2>1. Sends(r)' = Sends(r)
    BY <1>2, <1>3, <1>4 DEF Sends, OpsOf
  <2>1a. cur[t] # r
    BY <1>3, GroundFacts
  <2>2. SendCalm(r)
    BY <1>1, <1>3, <1>4, <2>1, <2>1a, AloofElsewhere DEF sendVars, Serving
  <2>3. QED
    BY <1>4, <2>2, UsesGrow, CalmSends, GroundFacts DEF SendsInv
<1>5. ASSUME FirstUse(s)' PROVE SendOK(s)'
  <2>1. SendOK(s) /\ (dry => dry')
    BY <1>5, UsesGrow, GroundFacts DEF SendsInv
  <2>2. o \in Sends(s)
    BY <1>1, <1>2 DEF Sends, OpsOf
  <2>3. Sends(s) = {o} /\ SendersOf(s) = {}
    BY <2>1, <2>2 DEF SendOK, OneOf
  <2>4. Sends(s)' = {}
    BY <1>3, <2>3 DEF Sends, OpsOf
  <2>5. SendersOf(s)' = {t}
    <3>1. At(t, "sendDone", s)'
      BY <1>3 DEF At
    <3>2. \A u \in Threads \ {t} : At(u, "sendDone", s)' <=> At(u, "sendDone", s)
      BY <1>3 DEF At, OnlyMoves
    <3>3. sendMutex' = sendMutex
      BY <1>1 DEF sendVars
    <3>4. QED
      BY <2>3, <3>1, <3>2, <3>3 DEF SendersOf
  <2>6. \A u \in Threads : ~(connected[s] /\ sendMutex[s] = u)
    BY <2>3 DEF SendersOf
  <2>7. QED
    BY <1>1, <2>1, <2>2, <2>4, <2>5, <2>6 DEF SendOK, OneOf, sendVars, Serving
<1>6. QED
  BY <1>4, <1>5 DEF SendsInv

\* PostSend on s, when the thread is the only one that acts for a send of s.
LEMMA PostsOne ==
  ASSUME GroundInv, Counts, NEW t \in Threads, NEW s \in Sessions, NEW q, NEW f \in BOOLEAN,
         PostSend(t, s, q, f), f \/ ~owner[s], cur[t] = s, pc[t] \in {"send", "sendDone"},
         sendMutex[s] = NoThread, Sends(s) = {}, SendersOf(s) \subseteq {t},
         owner' = owner, connected' = connected, sock' = sock
  PROVE  SendOK(s)'
<1>1. ControlTypes /\ ControlInv /\ FieldTypes /\ (\A b \in Buffers : b # NoBuffer)
  BY GroundFacts, NumBuffersAssumption DEF Buffers, NoBuffer
<1>2. \A u \in Threads \ {t} : ~At(u, "sendDone", s)
  BY DEF SendersOf
<1>3. CASE /\ Return(t) /\ UNCHANGED <<sendOvl, sendMutex, ops>>
           /\ \/ sending'[s] = FALSE /\ sendQueue'[s] = <<>>
              \/ sending'[s] = f /\ ~HasFreeBuffer
  <2>1. OnlyMoves(t) /\ pc'[t] # "sendDone"
    BY <1>1, <1>3, Moves
  <2>2. Sends(s)' = {}
    BY <1>3 DEF Sends, OpsOf
  <2>3. SendersOf(s)' = {}
    BY <1>2, <1>3, <2>1, ThreadsAssumption DEF SendersOf, At, OnlyMoves
  <2>4. ~dry' => ~sending'[s] /\ sendQueue'[s] = <<>>
    BY <1>3, UsesGrow, GroundFacts
  <2>5. \A u \in Threads : sendMutex'[s] # u
    BY <1>3, ThreadsAssumption
  <2>6. QED
    BY <2>2, <2>3, <2>4, <2>5 DEF SendOK, OneOf
<1>4. CASE \E b \in Buffers :
             /\ Return(t) /\ sendMutex' = sendMutex /\ sending'[s] = f /\ sendOvl'[s] = b
             /\ ops' = ops \cup {[kind |-> "send", s |-> s, sock |-> sock[s], buf |-> b]}
  <2>1. PICK b \in Buffers :
             /\ Return(t) /\ sendMutex' = sendMutex /\ sending'[s] = f /\ sendOvl'[s] = b
             /\ ops' = ops \cup {[kind |-> "send", s |-> s, sock |-> sock[s], buf |-> b]}
    BY <1>4
  <2>2. OnlyMoves(t) /\ pc'[t] # "sendDone"
    BY <1>1, <2>1, Moves
  <2>3. PICK o : o = [kind |-> "send", s |-> s, sock |-> sock[s], buf |-> b]
    OBVIOUS
  <2>4. o.kind = "send" /\ o.s = s /\ o.buf = b /\ ops' = ops \cup {o}
    BY <2>1, <2>3
  <2>5. Sends(s)' = {o}
    BY <2>4 DEF Sends, OpsOf
  <2>6. SendersOf(s)' = {}
    BY <1>2, <2>1, <2>2, ThreadsAssumption DEF SendersOf, At, OnlyMoves
  <2>7. \A u \in Threads : sendMutex'[s] # u
    BY <2>1, ThreadsAssumption
  <2>7a. (sending'[s] \/ ~owner'[s]) /\ sendOvl'[s] = o.buf /\ (connected'[s] => sending'[s])
    BY <2>1, <2>4, GroundFacts DEF OwnerKnown
  <2>8. QED
    BY <2>5, <2>6, <2>7, <2>7a DEF SendOK, OneOf
<1>5. CASE /\ Call(t, "disconnect", "unlock") /\ sendMutex' = [sendMutex EXCEPT ![s] = t]
           /\ sending'[s] = f /\ ops' = ops
  <2>1. OnlyMoves(t) /\ pc'[t] = "disconnect" /\ cur'[t] = s
    BY <1>1, <1>5, CallMoves
  <2>2. sendMutex'[s] = t /\ At(t, "disconnect", s)'
    BY <1>1, <1>5, <2>1 DEF FieldTypes, At
  <2>3. Sends(s)' = {}
    BY <1>5 DEF Sends, OpsOf
  <2>4. SendersOf(s)' = {t}
    BY <1>2, <2>1, <2>2 DEF SendersOf, At, OnlyMoves
  <2>4a. (sending'[s] \/ ~owner'[s]) /\ (connected'[s] => sending'[s])
    BY <1>5, GroundFacts DEF OwnerKnown
  <2>4b. \A u \in Threads : sendMutex'[s] = u => At(u, "disconnect", s)'
    BY <2>2
  <2>5. QED
    BY <2>3, <2>4, <2>4a, <2>4b DEF SendOK, OneOf
<1>6. QED
  <2>1. FieldTypes
    BY <1>1
  <2>2. CASE q = <<>>
    BY <1>3, <2>1, <2>2 DEF PostSend, FieldTypes
  <2>3. CASE q # <<>> /\ ~HasFreeBuffer
    BY <1>3, <2>1, <2>3 DEF PostSend, FieldTypes, AcquireBuffer
  <2>4. CASE q # <<>> /\ HasFreeBuffer
    <3>1. PICK b \in Buffers :
            /\ sending' = [sending EXCEPT ![s] = f] /\ sendOvl' = [sendOvl EXCEPT ![s] = b]
            /\ \/ /\ ops' = ops \cup {[kind |-> "send", s |-> s, sock |-> sock[s], buf |-> b]}
                  /\ Return(t) /\ sendMutex' = sendMutex
               \/ /\ sendMutex' = [sendMutex EXCEPT ![s] = t]
                  /\ Call(t, "disconnect", "unlock") /\ ops' = ops
      BY <2>4 DEF PostSend
    <3>2. sending'[s] = f /\ sendOvl'[s] = b
      BY <2>1, <3>1 DEF FieldTypes
    <3>3. QED
      BY <1>4, <1>5, <3>1, <3>2
  <2>5. QED
    BY <2>2, <2>3, <2>4

\* Of the other sessions PostSend touches nothing.
LEMMA PostsElsewhere ==
  ASSUME GroundInv, NEW t \in Threads, NEW s \in Sessions, NEW q, NEW f,
         PostSend(t, s, q, f), NEW r \in Sessions, r # s
  PROVE  /\ sending'[r] = sending[r] /\ sendOvl'[r] = sendOvl[r] /\ sendQueue'[r] = sendQueue[r]
         /\ sendMutex'[r] = sendMutex[r] /\ Sends(r)' = Sends(r)
<1>1. FieldTypes
  BY GroundFacts
<1>2. /\ sending'[r] = sending[r] /\ sendOvl'[r] = sendOvl[r] /\ sendQueue'[r] = sendQueue[r]
      /\ sendMutex'[r] = sendMutex[r]
  BY <1>1 DEF PostSend, FieldTypes
<1>3. \/ ops' = ops
      \/ \E b \in Buffers : ops' = ops \cup {[kind |-> "send", s |-> s, sock |-> sock[s], buf |-> b]}
  BY DEF PostSend
<1>4. Sends(r)' = Sends(r)
  <2>1. CASE ops' = ops
    BY <2>1 DEF Sends, OpsOf
  <2>2. CASE \E b \in Buffers : ops' = ops \cup {[kind |-> "send", s |-> s, sock |-> sock[s], buf |-> b]}
    <3>1. PICK o : o.s = s /\ ops' = ops \cup {o}
      BY <2>2
    <3>2. QED
      BY <3>1 DEF Sends, OpsOf
  <2>3. QED
    BY <1>3, <2>1, <2>2
<1>5. QED
  BY <1>2, <1>4

LEMMA SendElsewhere ==
  ASSUME GroundInv, UNCHANGED serverVars, NEW t \in Threads, SendLocked(t) \/ SendNext(t),
         NEW r \in Sessions, cur[t] # r
  PROVE  SendCalm(r)
<1>1. PICK s \in Sessions :
        /\ cur[t] = s
        /\ \/ /\ Return(t) /\ UNCHANGED <<sending, sendOvl, sendMutex, ops>>
              /\ \E q : sendQueue' = [sendQueue EXCEPT ![s] = q]
           \/ \E q, f : PostSend(t, s, q, f)
        /\ UNCHANGED <<sock, owner, connected>>
  <2>1. CASE SendLocked(t)
    BY <2>1 DEF SendLocked, At
  <2>2. CASE SendNext(t)
    BY <2>2 DEF SendNext, At
  <2>3. QED
    BY <2>1, <2>2
<1>2. /\ sending'[r] = sending[r] /\ sendOvl'[r] = sendOvl[r] /\ sendQueue'[r] = sendQueue[r]
      /\ sendMutex'[r] = sendMutex[r] /\ Sends(r)' = Sends(r)
  <2>1. r # s /\ FieldTypes
    BY <1>1, GroundFacts
  <2>2. CASE /\ UNCHANGED <<sending, sendOvl, sendMutex, ops>>
             /\ \E q : sendQueue' = [sendQueue EXCEPT ![s] = q]
    BY <2>1, <2>2 DEF FieldTypes, Sends, OpsOf
  <2>3. QED
    BY <1>1, <2>1, <2>2, PostsElsewhere
<1>3. OnlyMoves(t) /\ cur'[t] \in {cur[t], NoSession}
  <2>1. Return(t) \/ Call(t, "disconnect", "unlock")
    BY <1>1 DEF PostSend
  <2>2. QED
    BY <2>1, GroundFacts, ReturnMoves, CallMoves DEF Returned
<1>4. cur'[t] # r /\ (Serving' => Serving)
  BY <1>3, GroundFacts DEF Serving, serverVars
<1>5. QED
  BY <1>1, <1>2, <1>3, <1>4, AloofElsewhere

LEMMA NextSends ==
  ASSUME GroundInv, SendsInv, Counts, UNCHANGED serverVars, NEW t \in Threads, SendNext(t)
  PROVE  SendsInv'
<1>1. PICK s \in Sessions : /\ At(t, "sendDone", s) /\ sendMutex[s] = NoThread
                            /\ PostSend(t, s, sendQueue[s], sending[s])
                            /\ UNCHANGED <<sock, owner, connected>>
  BY DEF SendNext
<1>2. ASSUME NEW r \in Sessions, r # s, FirstUse(r)' PROVE SendOK(r)'
  BY <1>1, <1>2, SendElsewhere, UsesGrow, CalmSends, GroundFacts DEF SendsInv, At
<1>3. ASSUME FirstUse(s)' PROVE SendOK(s)'
  <2>1. SendOK(s)
    BY <1>3, UsesGrow, GroundFacts DEF SendsInv
  <2>2. t \in SendersOf(s)
    BY <1>1 DEF SendersOf
  <2>3. /\ SendersOf(s) \subseteq {t} /\ Sends(s) = {} /\ (sending[s] \/ ~owner[s])
    BY <2>1, <2>2 DEF SendOK, OneOf
  <2>4. pc[t] \in {"send", "sendDone"} /\ cur[t] = s /\ sending[s] \in BOOLEAN
    BY <1>1, GroundFacts DEF At, FieldTypes
  <2>5. QED
    BY <1>1, <2>3, <2>4, PostsOne
<1>4. QED
  BY <1>2, <1>3 DEF SendsInv

LEMMA LockedSends ==
  ASSUME GroundInv, SendsInv, Counts, UNCHANGED serverVars, NEW t \in Threads, SendLocked(t)
  PROVE  SendsInv'
<1>1. PICK s \in Sessions :
        /\ At(t, "send", s) /\ sendMutex[s] = NoThread
        /\ \/ /\ sending[s] /\ Return(t) /\ UNCHANGED <<sending, sendOvl, sendMutex, ops>>
           \/ /\ ~sending[s] /\ \E j : PostSend(t, s, Append(sendQueue[s], j), TRUE)
        /\ UNCHANGED <<sock, owner, connected>>
  BY DEF SendLocked, SendInProgress, Enqueue
<1>2. ASSUME NEW r \in Sessions, r # s, FirstUse(r)' PROVE SendOK(r)'
  BY <1>1, <1>2, SendElsewhere, UsesGrow, CalmSends, GroundFacts DEF SendsInv, At
<1>3. ASSUME FirstUse(s)' PROVE SendOK(s)'
  <2>1. SendOK(s) /\ (dry => dry')
    BY <1>3, UsesGrow, GroundFacts DEF SendsInv
  <2>2. pc[t] = "send" /\ cur[t] = s /\ \A u \in Threads : sendMutex[s] # u
    BY <1>1, ThreadsAssumption DEF At
  <2>3. CASE sending[s] /\ Return(t) /\ UNCHANGED <<sending, sendOvl, sendMutex, ops>>
    <3>1. Bystander(t)
      BY <2>2, <2>3, StandsBy, GroundFacts
    <3>2. SendersOf(s)' = SendersOf(s) /\ Sends(s)' = Sends(s)
      BY <2>3, <3>1, SameSenders DEF Sends, OpsOf
    <3>3. Serving' => Serving
      BY DEF Serving, serverVars
    <3>4. QED
      BY <1>1, <2>1, <2>2, <2>3, <3>2, <3>3 DEF SendOK, OneOf
  <2>4. CASE ~sending[s] /\ \E j : PostSend(t, s, Append(sendQueue[s], j), TRUE)
    <3> PICK j : PostSend(t, s, Append(sendQueue[s], j), TRUE)
      BY <2>4
    <3>1. CASE owner[s]
      <4>1. Sends(s) = {} /\ SendersOf(s) = {}
        BY <2>1, <2>4, <3>1 DEF SendOK
      <4>2. QED
        BY <1>1, <2>2, <2>4, <4>1, PostsOne
    <3>2. CASE ~owner[s]
      <4>1. Append(sendQueue[s], j) # <<>>
        <5>1. sendQueue[s] \in Seq(Jobs)
          BY GroundFacts DEF FieldTypes
        <5>2. QED
          BY <5>1
      <4>2. QED
        BY <2>4, <3>2, <4>1 DEF PostSend
    <3>3. QED
      BY <3>1, <3>2
  <2>5. QED
    BY <1>1, <2>3, <2>4
<1>4. QED
  BY <1>2, <1>3 DEF SendsInv

LEMMA SendsStep ==
  ASSUME GroundInv, SendsInv, ~AssocMayFail, [Next /\ Counts]_slotVars
  PROVE  SendsInv'
<1>1. CASE UNCHANGED slotVars
  <2>1. UNCHANGED <<pc, stack, cur, sendMutex, connected, ops, uses, dry, sock, owner, sending,
                    sendOvl, sendQueue, main>>
    BY <1>1 DEF slotVars, vars, fieldVars, threadVars, kernelVars, serverVars
  <2>2. ASSUME NEW s \in Sessions, FirstUse(s)' PROVE SendOK(s)'
    <3>1. SendOK(s)
      BY <2>1, <2>2 DEF SendsInv, FirstUse
    <3>2. Sends(s)' = Sends(s) /\ SendersOf(s)' = SendersOf(s)
      BY <2>1 DEF Sends, OpsOf, SendersOf, At
    <3>3. SendCalm(s)
      BY <2>1, <3>2 DEF SendCalm, At, Serving
    <3>4. QED
      BY <2>1, <3>1, <3>3, CalmSends
  <2>3. QED
    BY <2>2 DEF SendsInv
<1>2. ASSUME Counts, \A s \in Sessions : FirstUse(s) => SendCalm(s)
      PROVE  SendsInv'
  BY <1>2, UsesGrow, CalmSends, GroundFacts DEF SendsInv
<1>3. CASE Counts /\ (Start \/ Stop \/ Joined)
  <2>1. UNCHANGED <<pc, cur>> /\ UNCHANGED sendVars /\ (Serving' => Serving)
    BY <1>3 DEF Start, Stop, Joined, fieldVars, threadVars, sendVars, Serving
  <2>2. ASSUME NEW s \in Sessions PROVE SendCalm(s)
    <3>1. CASE Start
      <4>1. ~connected[s]
        BY <3>1 DEF Start, GroundInv, NewInv
      <4>2. Sends(s)' \subseteq Sends(s) /\ SendersOf(s)' = SendersOf(s)
        BY <2>1, <3>1 DEF Start, PostAccept, Sends, OpsOf, SendersOf, At, sendVars
      <4>3. QED
        BY <2>1, <4>1, <4>2 DEF SendCalm, sendVars
    <3>2. CASE Stop \/ Joined
      <4>1. Sends(s)' = Sends(s) /\ SendersOf(s)' = SendersOf(s)
        BY <2>1, <3>2 DEF Stop, Joined, kernelVars, Sends, OpsOf, SendersOf, At, sendVars
      <4>2. QED
        BY <2>1, <4>1 DEF SendCalm, sendVars, At
    <3>3. QED
      BY <1>3, <3>1, <3>2
  <2>3. QED
    BY <1>2, <1>3, <2>2
<1>4. ASSUME NEW t \in Threads, Runs(t) \/ Completes(t) \/ Chooses(t), Counts
      PROVE  SendsInv'
  <2>1. CASE SessionNext(t) /\ UNCHANGED serverVars
    <3>1. CASE ReleaseDisconnects(t)
      <4>1. PICK s \in Sessions : At(t, "release", s) /\ connected[s]
        BY <3>1 DEF ReleaseDisconnects, WinsExchange
      <4>2. QED
        BY <4>1, GroundFacts DEF At, Holds, HoldLabels
    <3>2. CASE \/ NullOwner(t) \/ DisconnectLoses(t) \/ RelockHangs(t) \/ ReturnToPool(t)
               \/ PostRecvNoBuffer(t) \/ PostRecvAcquires(t) \/ PostRecvSetsUp(t)
               \/ PostRecvCall(t) \/ PacketsProcessed(t)
      BY <1>2, <1>4, <2>1, <3>2, AsideSession
    <3>3. CASE DisconnectWins(t) \/ CloseSocket(t) \/ ReleaseWipes(t) \/ ResetSession(t)
      BY <1>2, <1>4, <2>1, <3>3, ClosingSends
    <3>4. CASE Unlock(t)
      BY <1>2, <1>4, <2>1, <3>4, UnlockSends
    <3>5. QED
      BY <1>4, <2>1, <3>1, <3>2, <3>3, <3>4, LockedSends, NextSends DEF SessionNext
  <2>2. CASE AcquireSession(t) \/ SendCompletes(t)
    BY <1>4, <2>2, AcquireSends, CompletesSends
  <2>3. CASE WorkerBreaks(t) \/ DropCompletion(t) \/ CompletionNullOwner(t)
    BY <1>2, <1>4, <2>3, DropsSends
  <2>4. CASE \/ PoolExhausted(t) \/ Associate(t) \/ ForgetBuffer(t) \/ WorkerLoops(t)
             \/ AcceptCompletes(t) \/ RecvEnds(t) \/ RecvDelivers(t) \/ Chooses(t)
    BY <1>2, <1>4, <2>4, AsideServer
  <2>5. CASE AssociateFails(t)
    BY <2>5 DEF AssociateFails
  <2>6. QED
    BY <1>4, <2>1, <2>2, <2>3, <2>4, <2>5 DEF Runs, Completes
<1>5. QED
  BY <1>1, <1>3, <1>4 DEF Next

LEMMA SendsInit == SlotInit => SendsInv
<1> SUFFICES ASSUME SlotInit PROVE SendsInv
  OBVIOUS
<1>1. /\ ops = {} /\ pc = [t \in Threads |-> "idle"]
      /\ sendMutex = [s \in Sessions |-> NoThread]
      /\ connected = [s \in Sessions |-> FALSE]
  BY DEF SlotInit, Init, SessionInit
<1>2. ASSUME NEW s \in Sessions PROVE SendOK(s)
  <2>1. Sends(s) = {} /\ SendersOf(s) = {} /\ ~connected[s]
    BY <1>1, ThreadsAssumption DEF Sends, OpsOf, SendersOf, At
  <2>2. QED
    BY <2>1 DEF SendOK, OneOf
<1>3. QED
  BY <1>2 DEF SendsInv

\* As long as every accepted socket can be associated with the completion port,
\* a slot's first connection has one WSASend outstanding or one thread acting
\* for the next, never two, for any number of workers, application threads,
\* sessions, buffers and connections (Session::Send, PostSend, OnSendCompleted).
THEOREM OneSendAtATime ==
  ASSUME ~AssocMayFail
  PROVE  SlotSpec => []OneSend
<1>1. SlotInit => GroundInv /\ SendsInv
  BY GroundInit, SendsInit
<1>2. GroundInv /\ SendsInv /\ [Next /\ Counts]_slotVars => (GroundInv /\ SendsInv)'
  BY GroundStep, SendsStep
<1>3. SendsInv => OneSend
  BY DEF SendsInv, SendOK, OneOf, OneSend, Sends
<1>4. QED
  BY <1>1, <1>2, <1>3, PTL DEF SlotSpec

\* As long as every accepted socket can be associated with the completion port,
\* a message in the queue of a slot's first connection has a send in progress
\* to follow, until the pool is empty or the server stops: none is left waiting
\* behind a flag that nobody will clear (Session::Send, PostSend).
THEOREM SendingEnds ==
  ASSUME ~AssocMayFail
  PROVE  SlotSpec => []SendAlive
<1>1. SlotInit => GroundInv /\ SendsInv
  BY GroundInit, SendsInit
<1>2. GroundInv /\ SendsInv /\ [Next /\ Counts]_slotVars => (GroundInv /\ SendsInv)'
  BY GroundStep, SendsStep
<1>3. SendsInv => SendAlive
  BY DEF SendsInv, SendOK, SendAlive, Sends
<1>4. QED
  BY <1>1, <1>2, <1>3, PTL DEF SlotSpec

-----------------------------------------------------------------------------
(* One receive at a time.                                                  *)

RecvLabels == {"associate", "forget", "process", "postRecv", "setup", "receive"}
Receiving(l, q) == l \in RecvLabels \/ InHandler(q)

LEMMA HandlerStacks ==
  ASSUME NEW q \in Stacks
  PROVE  "process" \in Range(q) <=> InHandler(q)
<1>1. Range(<<>>) = {} /\ Range(<<"process">>) = {"process"} /\ Range(<<"unlock">>) = {"unlock"}
  BY DEF Range
<1>2. "process" \in Range(<<"process", "unlock">>)
  <2>1. 1 \in DOMAIN <<"process", "unlock">> /\ <<"process", "unlock">>[1] = "process"
    OBVIOUS
  <2>2. QED
    BY <2>1 DEF Range
<1>3. QED
  BY <1>1, <1>2, StackShapes DEF Stacks, InHandler

LEMMA ReceiversAre ==
  ASSUME ControlInv, NEW s
  PROVE  ReceiversOf(s) = {t \in Threads : cur[t] = s /\ Receiving(pc[t], stack[t])}
BY HandlerStacks DEF ControlInv, ControlOK, ReceiversOf, Receiving, RecvLabels

LEMMA ReceiversWillBe ==
  ASSUME ControlInv', NEW s
  PROVE  ReceiversOf(s)' = {t \in Threads : cur'[t] = s /\ Receiving(pc'[t], stack'[t])}
BY HandlerStacks DEF ControlInv, ControlOK, ReceiversOf, Receiving, RecvLabels

\* Thread t goes on receiving for the session it receives for, if any.
Retains(t) ==
  /\ OnlyMoves(t)
  /\ Receiving(pc'[t], stack'[t]) <=> Receiving(pc[t], stack[t])
  /\ Receiving(pc[t], stack[t]) => cur'[t] = cur[t]

LEMMA SameReceivers ==
  ASSUME ControlInv, ControlInv', NEW t \in Threads, Retains(t) \/ UNCHANGED <<pc, stack, cur>>, NEW s
  PROVE  ReceiversOf(s)' = ReceiversOf(s)
BY ReceiversAre, ReceiversWillBe DEF Retains, OnlyMoves, Receiving

LEMMA OneReceiverLess ==
  ASSUME ControlInv, ControlInv', NEW t \in Threads, OnlyMoves(t), ~Receiving(pc'[t], stack'[t]), NEW s
  PROVE  ReceiversOf(s)' = ReceiversOf(s) \ {t}
BY ReceiversAre, ReceiversWillBe DEF OnlyMoves, Receiving

LEMMA ReturnRetains ==
  ASSUME ControlTypes, ControlInv, NEW t \in Threads, Return(t), pc[t] \notin RecvLabels
  PROVE  Retains(t)
<1>1. Returned(t)
  BY ReturnMoves
<1>2. QED
  BY <1>1, StackShapes DEF Returned, Retains, Receiving, InHandler, RecvLabels

LEMMA GotoRetains ==
  ASSUME ControlTypes, ControlInv, NEW t \in Threads, NEW l, Goto(t, l),
         l \in RecvLabels <=> pc[t] \in RecvLabels
  PROVE  Retains(t)
BY GotoMoves DEF Retains, Receiving

LEMMA BeginRetains ==
  ASSUME ControlTypes, ControlInv, NEW t \in Threads, NEW l, NEW s, Begin(t, l, s),
         pc[t] \in AwayLabels, l \notin RecvLabels
  PROVE  Retains(t)
<1>1. stack[t] = <<>> /\ pc[t] \notin RecvLabels
  BY AtBase DEF BaseLabels, AwayLabels, RecvLabels
<1>2. QED
  BY <1>1, BeginMoves, StackShapes DEF Retains, Receiving, InHandler

LEMMA CallRetains ==
  ASSUME ControlTypes, ControlInv, NEW t \in Threads, NEW l,
         \/ pc[t] = "process" /\ Call(t, l, "process")
         \/ pc[t] \in {"send", "sendDone"} /\ Call(t, l, "unlock"),
         l \notin RecvLabels
  PROVE  Retains(t)
<1>1. ControlOK(pc[t], stack[t], cur[t])
  BY DEF ControlInv
<1>2. CASE pc[t] = "process" /\ Call(t, l, "process")
  <2>1. stack[t] = <<>>
    BY <1>1, <1>2 DEF ControlOK, BaseLabels
  <2>2. OnlyMoves(t) /\ stack'[t] = <<"process">> /\ cur'[t] = cur[t]
    BY <1>2, <2>1, CallMoves, StackTops
  <2>3. QED
    BY <1>2, <2>2 DEF Retains, Receiving, InHandler, RecvLabels
<1>3. CASE pc[t] \in {"send", "sendDone"} /\ Call(t, l, "unlock")
  <2>1. stack[t] \in {<<>>, <<"process">>}
    BY <1>1, <1>3 DEF ControlOK, BaseLabels
  <2>2. OnlyMoves(t) /\ pc'[t] = l /\ stack'[t] = Append(stack[t], "unlock") /\ cur'[t] = cur[t]
    BY <1>3, CallMoves
  <2>3. \/ stack[t] = <<>> /\ stack'[t] = <<"unlock">>
        \/ stack[t] = <<"process">> /\ stack'[t] = <<"process", "unlock">>
    BY <2>1, <2>2, StackTops
  <2>4. QED
    BY <1>3, <2>2, <2>3, StackShapes DEF Retains, Receiving, InHandler, RecvLabels
<1>4. QED
  BY <1>2, <1>3

\* The connected session has a receive, or a thread that will see to it.
Attended(s) ==
  Recvs(s) # {} \/ ReceiversOf(s) # {} \/ \E t \in Threads : At(t, "disconnect", s)

RecvCalm(s) ==
  /\ Recvs(s)' \subseteq Recvs(s) /\ ReceiversOf(s)' \subseteq ReceiversOf(s)
  /\ \/ recvOvl'[s] = recvOvl[s] /\ (sock'[s] = sock[s] \/ sock'[s] = NoSocket)
     \/ recvOvl'[s] = NoBuffer /\ sock'[s] = NoSocket
  /\ ~dry' /\ Serving' /\ connected'[s] =>
       /\ ~dry /\ Serving /\ connected[s]
       /\ Attended(s) => Attended(s)'

LEMMA CalmRecvs ==
  ASSUME NEW s \in Sessions, RecvOK(s), RecvCalm(s)
  PROVE  RecvOK(s)'
<1>1. OneOf(Recvs(s), ReceiversOf(s))'
  BY DEF RecvOK, RecvCalm, OneOf
<1>2. \A o \in Recvs(s)' : recvOvl'[s] = o.buf \/ (sock'[s] = NoSocket /\ recvOvl'[s] = NoBuffer)
  BY DEF RecvOK, RecvCalm
<1>3. ~dry' /\ Serving' /\ connected'[s] => Attended(s)'
  BY DEF RecvOK, RecvCalm, Attended
<1>4. QED
  BY <1>1, <1>2, <1>3 DEF RecvOK, Attended

SameRecvs == \A s \in Sessions : Recvs(s)' = Recvs(s)

LEMMA RecvsAside ==
  ASSUME \A o \in ops' : o \in ops \/ o.kind # "recv",
         \A o \in ops : o \in ops' \/ o.kind # "recv"
  PROVE  SameRecvs
BY DEF SameRecvs, Recvs, OpsOf

recvVars == <<recvOvl, sock, connected>>

\* The receives go on, whatever t does.
LEMMA RetainsAll ==
  ASSUME ControlInv, ControlInv', NEW t \in Threads, Retains(t) \/ UNCHANGED <<pc, stack, cur>>,
         SameRecvs, Serving' => Serving, dry => dry', NEW s \in Sessions,
         connected'[s] => connected[s],
         \/ recvOvl'[s] = recvOvl[s] /\ (sock'[s] = sock[s] \/ sock'[s] = NoSocket)
         \/ recvOvl'[s] = NoBuffer /\ sock'[s] = NoSocket,
         connected'[s] /\ At(t, "disconnect", s) => At(t, "disconnect", s)'
  PROVE  RecvCalm(s)
<1>1. ReceiversOf(s)' = ReceiversOf(s) /\ Recvs(s)' = Recvs(s)
  BY SameReceivers DEF SameRecvs
<1>2. connected'[s] => \A u \in Threads : At(u, "disconnect", s) => At(u, "disconnect", s)'
  BY DEF Retains, OnlyMoves, At
<1>3. QED
  BY <1>1, <1>2 DEF RecvCalm, Attended

LEMMA RetainsSession ==
  ASSUME GroundInv, ControlInv', Counts, UNCHANGED serverVars, NEW t \in Threads,
         \/ NullOwner(t) \/ DisconnectLoses(t) \/ DisconnectWins(t) \/ CloseSocket(t)
         \/ ReleaseWipes(t) \/ ResetSession(t) \/ RelockHangs(t) \/ ReturnToPool(t)
         \/ SendLocked(t) \/ SendNext(t) \/ Unlock(t)
  PROVE  \A s \in Sessions : RecvCalm(s)
<1> USE DEF fieldVars, threadVars, kernelVars
<1>1. ControlTypes /\ ControlInv /\ FieldTypes /\ (dry => dry') /\ (Serving' => Serving)
  BY GroundFacts DEF Counts, Serving, serverVars
<1>2. Retains(t) \/ UNCHANGED <<pc, stack, cur>>
  <2>1. CASE NullOwner(t)
    BY <2>1 DEF NullOwner
  <2>2. CASE DisconnectLoses(t) \/ ReturnToPool(t) \/ Unlock(t)
    <3>1. Return(t) /\ pc[t] \notin RecvLabels
      BY <2>2 DEF DisconnectLoses, ReturnToPool, Unlock, At, RecvLabels
    <3>2. QED
      BY <1>1, <3>1, ReturnRetains
  <2>3. CASE DisconnectWins(t) \/ CloseSocket(t) \/ ReleaseWipes(t) \/ ResetSession(t) \/ RelockHangs(t)
    <3>1. /\ pc[t] \notin RecvLabels
          /\ Return(t) \/ \E l \in {"close", "release", "reset", "push", "hung"} : Goto(t, l)
      BY <2>3 DEF DisconnectWins, CloseSocket, ReleaseWipes, ResetSession, RelockHangs, At, RecvLabels
    <3>2. QED
      BY <1>1, <3>1, ReturnRetains, GotoRetains DEF RecvLabels
  <2>4. CASE SendLocked(t) \/ SendNext(t)
    <3>1. pc[t] \in {"send", "sendDone"} /\ (Return(t) \/ Call(t, "disconnect", "unlock"))
      BY <2>4 DEF SendLocked, SendNext, PostSend, At
    <3>2. pc[t] \notin RecvLabels /\ "disconnect" \notin RecvLabels
      BY <3>1 DEF RecvLabels
    <3>3. QED
      BY <1>1, <3>1, <3>2, ReturnRetains, CallRetains
  <2>5. QED
    BY <2>1, <2>2, <2>3, <2>4
<1>3. SameRecvs
  <2>1. CASE SendLocked(t) \/ SendNext(t)
    <3>0. \/ ops' = ops
          \/ \E s, c, b : ops' = ops \cup {[kind |-> "send", s |-> s, sock |-> c, buf |-> b]}
      BY <2>1 DEF SendLocked, SendNext, PostSend
    <3>1. \A o \in ops' : o \in ops \/ o.kind # "recv"
      BY <3>0
    <3>2. ops \subseteq ops'
      BY <3>0
    <3>3. QED
      BY <3>1, <3>2, RecvsAside
  <2>2. CASE ops' = ops
    BY <2>2 DEF SameRecvs, Recvs, OpsOf
  <2>3. QED
    BY <2>1, <2>2 DEF NullOwner, DisconnectLoses, DisconnectWins, CloseSocket, ReleaseWipes, ResetSession,
       RelockHangs, ReturnToPool, Unlock
<1>4. ASSUME NEW s \in Sessions PROVE RecvCalm(s)
  <2>1. connected'[s] => connected[s]
    BY <1>1 DEF NullOwner, DisconnectLoses, DisconnectWins, CloseSocket, ReleaseWipes, WipeFields,
       ResetSession, RelockHangs, ReturnToPool, Unlock, SendLocked, SendNext, FieldTypes
  <2>2. \/ recvOvl'[s] = recvOvl[s] /\ (sock'[s] = sock[s] \/ sock'[s] = NoSocket)
        \/ recvOvl'[s] = NoBuffer /\ sock'[s] = NoSocket
    <3>1. CASE ResetSession(t)
      <4>1. PICK r \in Sessions : At(t, "reset", r) /\ recvOvl' = [recvOvl EXCEPT ![r] = NoBuffer]
                                  /\ sock' = sock
        BY <3>1 DEF ResetSession, ResetMembers
      <4>2. sock[r] = NoSocket
        BY <4>1 DEF GroundInv, FreeInv, CleanInv, Wiped
      <4>3. QED
        BY <1>1, <4>1, <4>2 DEF FieldTypes
    <3>2. CASE ~ResetSession(t)
      BY <1>1, <3>2 DEF NullOwner, DisconnectLoses, DisconnectWins, CloseSocket, ReleaseWipes, WipeFields,
         RelockHangs, ReturnToPool, Unlock, SendLocked, SendNext, FieldTypes
    <3>3. QED
      BY <3>1, <3>2
  <2>3. connected'[s] /\ At(t, "disconnect", s) => At(t, "disconnect", s)'
    <3>1. CASE ~At(t, "disconnect", s)
      BY <3>1
    <3>2. CASE At(t, "disconnect", s)
      BY <1>1, <3>2 DEF At, NullOwner, DerefsOwner, DisconnectLoses, DisconnectWins, WinsExchange,
         CloseSocket, ReleaseWipes, ResetSession, RelockHangs, ReturnToPool, Unlock, SendLocked,
         SendNext, FieldTypes
    <3>3. QED
      BY <3>1, <3>2
  <2>4. QED
    BY <1>1, <1>2, <1>3, <2>1, <2>2, <2>3, RetainsAll
<1>5. QED
  BY <1>4

LEMMA RetainsServer ==
  ASSUME GroundInv, ControlInv', Counts, NEW t \in Threads,
         \/ PoolExhausted(t) \/ WorkerLoops(t) \/ AcceptCompletes(t) \/ SendCompletes(t) \/ Chooses(t)
  PROVE  \A s \in Sessions : RecvCalm(s)
<1> USE DEF fieldVars, threadVars, kernelVars, poolVars
<1>1. ControlTypes /\ ControlInv /\ FieldTypes /\ (dry => dry')
  BY GroundFacts DEF Counts
<1>2. Retains(t)
  <2>1. CASE PoolExhausted(t)
    BY <1>1, <2>1, ReturnRetains DEF PoolExhausted, RecvLabels
  <2>2. CASE WorkerLoops(t) \/ AcceptCompletes(t) \/ AppConnects(t)
    <3>1. /\ pc[t] \notin RecvLabels
          /\ \E l \in {"wait", "exited", "acquire"} : Goto(t, l)
      BY <2>2 DEF WorkerLoops, AcceptCompletes, AppConnects, RecvLabels
    <3>2. QED
      BY <1>1, <3>1, GotoRetains DEF RecvLabels
  <2>3. CASE SendCompletes(t) \/ AppSends(t) \/ AppDisconnects(t)
    <3>1. /\ pc[t] \in AwayLabels
          /\ \E l \in {"sendDone", "send", "disconnect"} : \E s : Begin(t, l, s)
      BY <2>3 DEF SendCompletes, Takes, AppSends, AppDisconnects, AwayLabels
    <3>2. QED
      BY <1>1, <3>1, BeginRetains DEF RecvLabels
  <2>4. CASE HandlerSends(t) \/ HandlerDisconnects(t)
    <3>1. pc[t] = "process" /\ \E l \in {"send", "disconnect"} : Call(t, l, "process")
      BY <2>4 DEF HandlerSends, HandlerDisconnects, At
    <3>2. QED
      BY <1>1, <3>1, CallRetains DEF RecvLabels
  <2>5. QED
    BY <2>1, <2>2, <2>3, <2>4 DEF Chooses
<1>3. SameRecvs
  <2>1. /\ \A o \in ops' : o \in ops \/ o.kind # "recv"
        /\ \A o \in ops : o \in ops' \/ o.kind # "recv"
    BY DEF PoolExhausted, WorkerLoops, AcceptCompletes, PostAccept, SendCompletes, Takes, Chooses,
       AppConnects, AppSends, AppDisconnects, HandlerSends, HandlerDisconnects
  <2>2. QED
    BY <2>1, RecvsAside
<1>4. UNCHANGED recvVars /\ main' = main /\ pc[t] # "disconnect"
  BY DEF PoolExhausted, WorkerLoops, AcceptCompletes, PostAccept, SendCompletes, Takes, Chooses,
       AppConnects, AppSends, AppDisconnects, HandlerSends, HandlerDisconnects, recvVars, serverVars, At
<1>5. QED
  BY <1>1, <1>2, <1>3, <1>4, RetainsAll DEF recvVars, Serving, At

\* A thread stops receiving, for a closed session or with no buffer left.
LEMMA LeavesRecv ==
  ASSUME ControlInv, ControlInv', NEW t \in Threads, OnlyMoves(t), ~Receiving(pc'[t], stack'[t]),
         pc[t] # "disconnect", Serving' => Serving, dry => dry',
         NEW s \in Sessions, Recvs(s)' = Recvs(s), cur[t] = s => ~connected'[s] \/ dry',
         connected'[s] => connected[s], recvOvl'[s] = recvOvl[s], sock'[s] = sock[s]
  PROVE  RecvCalm(s)
<1>1. ReceiversOf(s)' = ReceiversOf(s) \ {t}
  BY OneReceiverLess
<1>2. cur[t] # s => ReceiversOf(s)' = ReceiversOf(s)
  BY <1>1 DEF ReceiversOf
<1>3. \A u \in Threads : At(u, "disconnect", s) => At(u, "disconnect", s)'
  BY DEF OnlyMoves, At
<1>4. QED
  BY <1>1, <1>2, <1>3 DEF RecvCalm, Attended

LEMMA ReturnLeaves ==
  ASSUME ControlTypes, ControlInv, NEW t \in Threads, Return(t), pc[t] \in RecvLabels
  PROVE  OnlyMoves(t) /\ ~Receiving(pc'[t], stack'[t]) /\ stack[t] = <<>>
<1>1. stack[t] = <<>> /\ Returned(t)
  BY AtBase, ReturnMoves DEF RecvLabels, BaseLabels
<1>2. QED
  BY <1>1, StackShapes DEF Returned, Receiving, InHandler, RecvLabels

\* if (!connected_) return; at the end of a step of a receiving thread, or its
\* next step.
LEMMA TriesRecv ==
  ASSUME GroundInv, ControlInv', Counts, NEW t \in Threads,
         Associate(t) \/ ForgetBuffer(t) \/ PacketsProcessed(t) \/ PostRecvAcquires(t), main' = main
  PROVE  \A s \in Sessions : RecvCalm(s)
<1> USE DEF fieldVars, threadVars, kernelVars, poolVars
<1>1. ControlTypes /\ ControlInv /\ FieldTypes /\ (dry => dry') /\ (Serving' => Serving)
  BY GroundFacts DEF Counts, Serving
<1>2. /\ UNCHANGED recvVars /\ SameRecvs
      /\ pc[t] \in RecvLabels /\ pc[t] # "disconnect"
      /\ \/ Goto(t, "forget") \/ Goto(t, "postRecv") \/ Goto(t, "setup")
         \/ Return(t) /\ ~connected[cur[t]]
  BY DEF Associate, ForgetBuffer, PacketsProcessed, PostRecvAcquires, TryPostRecv, At, recvVars, SameRecvs,
     Recvs, OpsOf, RecvLabels
<1>3. CASE Goto(t, "forget") \/ Goto(t, "postRecv") \/ Goto(t, "setup")
  <2>1. Retains(t)
    BY <1>1, <1>2, <1>3, GotoRetains DEF RecvLabels
  <2>2. QED
    BY <1>1, <1>2, <2>1, RetainsAll DEF recvVars, At
<1>4. CASE Return(t) /\ ~connected[cur[t]]
  <2>1. OnlyMoves(t) /\ ~Receiving(pc'[t], stack'[t])
    BY <1>1, <1>2, <1>4, ReturnLeaves
  <2>2. QED
    BY <1>1, <1>2, <1>4, <2>1, LeavesRecv DEF recvVars, SameRecvs
<1>5. QED
  BY <1>2, <1>3, <1>4

LEMMA NoBufferRecv ==
  ASSUME GroundInv, ControlInv', Counts, UNCHANGED serverVars, NEW t \in Threads, PostRecvNoBuffer(t)
  PROVE  \A s \in Sessions : RecvCalm(s)
<1> USE DEF fieldVars, kernelVars
<1>1. ControlTypes /\ ControlInv /\ (dry => dry') /\ (Serving' => Serving) /\ dry'
  BY GroundFacts DEF Counts, Serving, serverVars, PostRecvNoBuffer
<1>2. /\ UNCHANGED recvVars /\ SameRecvs
      /\ pc[t] \in RecvLabels /\ pc[t] # "disconnect" /\ Return(t)
  BY DEF PostRecvNoBuffer, At, recvVars, SameRecvs, Recvs, OpsOf, RecvLabels
<1>3. OnlyMoves(t) /\ ~Receiving(pc'[t], stack'[t])
  BY <1>1, <1>2, ReturnLeaves
<1>4. QED
  BY <1>1, <1>2, <1>3, LeavesRecv DEF recvVars, SameRecvs

\* A receive goes, of a closed session or when nobody serves any more, or the
\* thread that took it is on its way to disconnect the session.
LEMMA RecvShrinks ==
  ASSUME ControlInv, ControlInv', NEW t \in Threads, Retains(t) \/ UNCHANGED <<pc, stack, cur>>,
         NEW o, ops' = ops \ {o}, Serving' => Serving, dry => dry', UNCHANGED recvVars,
         pc[t] # "disconnect", NEW s \in Sessions,
         o.kind = "recv" /\ o.s = s => ~connected[s] \/ ~Serving' \/ At(t, "disconnect", s)'
  PROVE  RecvCalm(s)
<1>1. ReceiversOf(s)' = ReceiversOf(s)
  BY SameReceivers
<1>2. Recvs(s)' \subseteq Recvs(s)
  BY DEF Recvs, OpsOf
<1>3. ~(o.kind = "recv" /\ o.s = s) => Recvs(s)' = Recvs(s)
  BY DEF Recvs, OpsOf
<1>4. \A u \in Threads : At(u, "disconnect", s) => At(u, "disconnect", s)'
  BY DEF Retains, OnlyMoves, At
<1>5. QED
  BY <1>1, <1>2, <1>3, <1>4 DEF RecvCalm, recvVars, Attended

LEMMA DropsRecvs ==
  ASSUME GroundInv, RecvsInv, LentInv, ControlInv', Counts, NEW t \in Threads,
         WorkerBreaks(t) \/ DropCompletion(t) \/ CompletionNullOwner(t) \/ RecvEnds(t)
  PROVE  \A s \in Sessions : FirstUse(s) => RecvCalm(s)
<1> USE DEF fieldVars, threadVars, kernelVars, poolVars
<1>1. ControlTypes /\ ControlInv /\ FieldTypes /\ SocketInv /\ OwnerKnown /\ (dry => dry')
  BY GroundFacts DEF Counts
<1>2. /\ main' = main /\ UNCHANGED recvVars /\ pc[t] = "wait"
  BY DEF WorkerBreaks, DropCompletion, CompletionNullOwner, RecvEnds, Takes, recvVars, serverVars
<1>3. CASE WorkerBreaks(t)
  <2>1. ~Serving' /\ Goto(t, "exited")
    BY <1>2, <1>3 DEF WorkerBreaks, Serving, running, GroundInv, NewInv
  <2>2. Retains(t)
    BY <1>1, <1>2, <2>1, GotoRetains DEF RecvLabels
  <2>3. PICK o : ops' = ops \ {o}
    <3>1. CASE ops' = ops
      BY <3>1, NoSetContainsEverything
    <3>2. CASE \E o \in ops : ops' = ops \ {o}
      BY <3>2
    <3>3. QED
      BY <1>3, <3>1, <3>2 DEF WorkerBreaks
  <2>4. QED
    BY <1>1, <1>2, <2>1, <2>2, <2>3, RecvShrinks
<1>4. CASE DropCompletion(t) \/ CompletionNullOwner(t)
  <2>1. PICK o \in ops : /\ Takes(t, o) /\ (OvlBuffer(o) = NoBuffer \/ ~owner[o.s])
                         /\ Goto(t, "idle") \/ UNCHANGED <<pc, stack, cur>>
    BY <1>4 DEF DropCompletion, CompletionNullOwner
  <2>2. o.kind \in {"recv", "send"} /\ o.s \in Sessions /\ ops' = ops \ {o}
    BY <2>1, GroundFacts DEF Takes
  <2>3. Retains(t) \/ UNCHANGED <<pc, stack, cur>>
    BY <1>1, <1>2, <2>1, GotoRetains DEF RecvLabels
  <2>4. ASSUME NEW s \in Sessions, FirstUse(s), o.kind = "recv", o.s = s PROVE ~connected[s]
    <3>1. CASE ~owner[s]
      BY <1>1, <3>1 DEF OwnerKnown
    <3>2. CASE recvOvl[s] = NoBuffer
      <4>1. o \in Recvs(s) /\ RecvOK(s) /\ o.buf # NoBuffer
        BY <2>4, NumBuffersAssumption DEF Recvs, OpsOf, RecvsInv, LentInv, LentOK, Buffers, NoBuffer
      <4>2. sock[s] = NoSocket
        BY <3>2, <4>1 DEF RecvOK
      <4>3. QED
        BY <1>1, <4>2 DEF SocketInv
    <3>3. QED
      BY <2>1, <2>4, <3>1, <3>2 DEF OvlBuffer
  <2>5. QED
    BY <1>1, <1>2, <2>2, <2>3, <2>4, RecvShrinks DEF Serving
<1>5. CASE RecvEnds(t)
  <2>1. PICK o \in ops : ops' = ops \ {o} /\ Begin(t, "disconnect", o.s)
    BY <1>5 DEF RecvEnds, Takes
  <2>2. Retains(t)
    BY <1>1, <1>2, <2>1, BeginRetains DEF RecvLabels, AwayLabels
  <2>3. At(t, "disconnect", o.s)'
    BY <1>1, <2>1, BeginMoves DEF At
  <2>4. QED
    BY <1>1, <1>2, <2>1, <2>2, <2>3, RecvShrinks DEF Serving
<1>6. QED
  BY <1>3, <1>4, <1>5

\* Of the sessions t is not on and does not come to, the receives stay.
LEMMA RecvElsewhere ==
  ASSUME NEW t \in Threads, OnlyMoves(t), NEW s \in Sessions, cur[t] # s, cur'[t] # s,
         Recvs(s)' = Recvs(s), Serving' => Serving, dry => dry', connected'[s] = connected[s],
         sock'[s] = sock[s], recvOvl'[s] = recvOvl[s]
  PROVE  RecvCalm(s)
<1>1. \A l : \A u \in Threads : At(u, l, s)' <=> At(u, l, s)
  BY Elsewhere
<1>2. ReceiversOf(s)' = ReceiversOf(s)
  BY DEF ReceiversOf, OnlyMoves
<1>3. QED
  BY <1>1, <1>2 DEF RecvCalm, Attended

\* Thread t comes to s and is the only one to receive for it.
LEMMA OneComes ==
  ASSUME ControlInv, ControlInv', NEW t \in Threads, OnlyMoves(t), NEW s \in Sessions,
         Receiving(pc'[t], stack'[t]), cur'[t] = s, ReceiversOf(s) \subseteq {t}
  PROVE  ReceiversOf(s)' = {t}
BY ReceiversAre, ReceiversWillBe DEF OnlyMoves, Receiving

LEMMA AcquireRecvs ==
  ASSUME GroundInv, ControlInv', RecvsInv, Counts, NEW t \in Threads, AcquireSession(t)
  PROVE  RecvsInv'
<1>1. PICK s \in Sessions :
        /\ Clean(s) /\ ~connected[s] /\ connected'[s]
        /\ \A r \in Sessions \ {s} : connected'[r] = connected[r] /\ sock'[r] = sock[r]
        /\ UNCHANGED <<recvOvl, ops, main>>
        /\ OnlyMoves(t) /\ pc[t] = "acquire" /\ pc'[t] = "associate" /\ cur'[t] = s
  BY Acquires
<1>2. cur[t] = NoSession
  BY <1>1, GroundFacts, AtBase DEF AwayLabels
<1>3. ASSUME NEW r \in Sessions, r # s, FirstUse(r)' PROVE RecvOK(r)'
  <2>1. RecvCalm(r)
    BY <1>1, <1>2, <1>3, RecvElsewhere, GroundFacts DEF Recvs, OpsOf, Serving, Counts
  <2>2. QED
    BY <1>3, <2>1, UsesGrow, CalmRecvs, GroundFacts DEF RecvsInv
<1>4. ASSUME FirstUse(s)' PROVE RecvOK(s)'
  <2>1. uses[s] = 0
    BY <1>1, <1>4, UsesGrow, GroundFacts
  <2>2. (\A u \in Threads : cur[u] # s) /\ (\A o \in ops : o.s # s)
    BY <2>1, FreshSlot
  <2>3. Recvs(s)' = {}
    BY <1>1, <2>2 DEF Recvs, OpsOf
  <2>4. ReceiversOf(s) = {} /\ Receiving(pc'[t], stack'[t])
    BY <1>1, <2>2 DEF ReceiversOf, Receiving, RecvLabels
  <2>5. ReceiversOf(s)' = {t}
    BY <1>1, <2>4, OneComes, GroundFacts
  <2>6. QED
    BY <2>3, <2>5 DEF RecvOK, OneOf
<1>5. QED
  BY <1>3, <1>4 DEF RecvsInv

LEMMA DeliversRecvs ==
  ASSUME GroundInv, ControlInv', RecvsInv, Counts, NEW t \in Threads, RecvDelivers(t)
  PROVE  RecvsInv'
<1> USE DEF fieldVars, poolVars
<1>1. PICK o \in ops : /\ Takes(t, o) /\ o.kind = "recv" /\ Begin(t, "process", o.s)
                       /\ UNCHANGED recvVars /\ main' = main
  BY DEF RecvDelivers, recvVars, serverVars
<1>2. PICK s \in Sessions : s = o.s
  BY <1>1, GroundFacts
<1>3. /\ OnlyMoves(t) /\ pc'[t] = "process" /\ cur'[t] = s /\ pc[t] = "wait" /\ cur[t] = NoSession
      /\ ops' = ops \ {o} /\ s # NoSession
  BY <1>1, <1>2, GroundFacts, BeginMoves, AtBase DEF Takes, AwayLabels
<1>3a. dry => dry'
  BY DEF Counts
<1>4. ASSUME NEW r \in Sessions, r # s, FirstUse(r)' PROVE RecvOK(r)'
  <2>1. Recvs(r)' = Recvs(r)
    BY <1>2, <1>3, <1>4 DEF Recvs, OpsOf
  <2>1a. cur[t] # r
    BY <1>3, GroundFacts
  <2>2. RecvCalm(r)
    BY <1>1, <1>3, <1>3a, <1>4, <2>1, <2>1a, RecvElsewhere DEF recvVars, Serving
  <2>3. QED
    BY <1>4, <2>2, UsesGrow, CalmRecvs, GroundFacts DEF RecvsInv
<1>5. ASSUME FirstUse(s)' PROVE RecvOK(s)'
  <2>1. RecvOK(s)
    BY <1>5, UsesGrow, GroundFacts DEF RecvsInv
  <2>2. o \in Recvs(s)
    BY <1>1, <1>2 DEF Recvs, OpsOf
  <2>3. Recvs(s) = {o} /\ ReceiversOf(s) = {}
    BY <2>1, <2>2 DEF RecvOK, OneOf
  <2>4. Recvs(s)' = {}
    BY <1>3, <2>3 DEF Recvs, OpsOf
  <2>5. ReceiversOf(s)' = {t}
    <3>1. Receiving(pc'[t], stack'[t])
      BY <1>3 DEF Receiving, RecvLabels
    <3>2. QED
      BY <1>3, <2>3, <3>1, OneComes, GroundFacts
  <2>6. QED
    BY <2>4, <2>5 DEF RecvOK, OneOf
<1>6. QED
  BY <1>4, <1>5 DEF RecvsInv

\* recvOvl_.Setup, by the one thread that receives.
LEMMA SetsUpRecvs ==
  ASSUME GroundInv, ControlInv', RecvsInv, Counts, UNCHANGED serverVars, NEW t \in Threads,
         PostRecvSetsUp(t)
  PROVE  RecvsInv'
<1>1. PICK s \in Sessions :
        /\ At(t, "setup", s) /\ Goto(t, "receive")
        /\ recvOvl' = [recvOvl EXCEPT ![s] = rbuf[t]]
        /\ UNCHANGED <<sock, connected, ops>>
  BY DEF PostRecvSetsUp, kernelVars
<1>2. /\ pc[t] = "setup" /\ cur[t] = s /\ (dry => dry') /\ (Serving' => Serving)
      /\ ControlTypes /\ ControlInv /\ FieldTypes
  BY <1>1, GroundFacts DEF At, Counts, Serving, serverVars
<1>3. Retains(t)
  BY <1>1, <1>2, GotoRetains DEF RecvLabels
<1>4. SameRecvs
  BY <1>1 DEF SameRecvs, Recvs, OpsOf
<1>5. ASSUME NEW r \in Sessions, r # s, FirstUse(r)' PROVE RecvOK(r)'
  <2>1. recvOvl'[r] = recvOvl[r] /\ ~At(t, "disconnect", r)
    BY <1>1, <1>2, <1>5 DEF FieldTypes, At
  <2>2. RecvCalm(r)
    BY <1>1, <1>2, <1>3, <1>4, <2>1, RetainsAll
  <2>3. QED
    BY <1>5, <2>2, UsesGrow, CalmRecvs, GroundFacts DEF RecvsInv
<1>6. ASSUME FirstUse(s)' PROVE RecvOK(s)'
  <2>1. RecvOK(s)
    BY <1>6, UsesGrow, GroundFacts DEF RecvsInv
  <2>2. t \in ReceiversOf(s)
    BY <1>2 DEF ReceiversOf
  <2>3. Recvs(s) = {} /\ ReceiversOf(s) = {t}
    BY <2>1, <2>2 DEF RecvOK, OneOf
  <2>4. Recvs(s)' = {} /\ ReceiversOf(s)' = {t}
    BY <1>2, <1>3, <1>4, <2>3, SameReceivers DEF SameRecvs
  <2>5. QED
    BY <2>4 DEF RecvOK, OneOf
<1>7. QED
  BY <1>5, <1>6 DEF RecvsInv

LEMMA CallsRecv ==
  ASSUME GroundInv, ControlInv', RecvsInv, Counts, UNCHANGED serverVars, NEW t \in Threads,
         PostRecvCall(t)
  PROVE  RecvsInv'
<1>1. PICK s \in Sessions :
        /\ At(t, "receive", s)
        /\ \/ /\ ops' = ops \cup {[kind |-> "recv", s |-> s, sock |-> sock[s], buf |-> recvOvl[s]]}
              /\ Return(t)
           \/ ops' = ops /\ Goto(t, "disconnect")
        /\ UNCHANGED <<sock, connected, recvOvl>>
  BY DEF PostRecvCall, fieldVars
<1>2. /\ pc[t] = "receive" /\ cur[t] = s /\ stack[t] = <<>> /\ (dry => dry') /\ (Serving' => Serving)
      /\ ControlTypes /\ ControlInv /\ FieldTypes
  BY <1>1, AtBase, GroundFacts DEF At, BaseLabels, Counts, Serving, serverVars
<1>3. OnlyMoves(t) /\ ~Receiving(pc'[t], stack'[t]) /\ cur'[t] \in {s, NoSession}
  <2>1. CASE Return(t)
    BY <1>2, <2>1, ReturnLeaves, ReturnMoves DEF RecvLabels, Returned
  <2>2. CASE Goto(t, "disconnect")
    <3>1. OnlyMoves(t) /\ pc'[t] = "disconnect" /\ stack'[t] = <<>> /\ cur'[t] = s
      BY <1>2, <2>2, GotoMoves
    <3>2. QED
      BY <3>1, StackShapes DEF Receiving, RecvLabels, InHandler
  <2>3. QED
    BY <1>1, <2>1, <2>2
<1>4. ASSUME NEW r \in Sessions, r # s, FirstUse(r)' PROVE RecvOK(r)'
  <2>1. Recvs(r)' = Recvs(r)
    <3>1. ops' = ops \/ \E o : o.s = s /\ ops' = ops \cup {o}
      BY <1>1
    <3>2. QED
      BY <1>4, <3>1 DEF Recvs, OpsOf
  <2>2. cur[t] # r /\ cur'[t] # r /\ recvOvl'[r] = recvOvl[r]
    BY <1>1, <1>2, <1>3, <1>4, GroundFacts DEF FieldTypes
  <2>3. RecvCalm(r)
    BY <1>1, <1>2, <1>3, <2>1, <2>2, RecvElsewhere
  <2>4. QED
    BY <1>4, <2>3, UsesGrow, CalmRecvs, GroundFacts DEF RecvsInv
<1>5. ASSUME FirstUse(s)' PROVE RecvOK(s)'
  <2>1. RecvOK(s)
    BY <1>5, UsesGrow, GroundFacts DEF RecvsInv
  <2>2. t \in ReceiversOf(s)
    BY <1>2 DEF ReceiversOf
  <2>3. Recvs(s) = {} /\ ReceiversOf(s) = {t}
    BY <2>1, <2>2 DEF RecvOK, OneOf
  <2>4. ReceiversOf(s)' = {}
    BY <1>2, <1>3, <2>3, OneReceiverLess
  <2>5. CASE ops' = ops \cup {[kind |-> "recv", s |-> s, sock |-> sock[s], buf |-> recvOvl[s]]}
    <3>1. PICK o : o = [kind |-> "recv", s |-> s, sock |-> sock[s], buf |-> recvOvl[s]]
      OBVIOUS
    <3>2. o.kind = "recv" /\ o.s = s /\ o.buf = recvOvl[s] /\ ops' = ops \cup {o}
      BY <2>5, <3>1
    <3>3. Recvs(s)' = {o} /\ recvOvl'[s] = o.buf
      BY <1>1, <1>2, <2>3, <3>2 DEF Recvs, OpsOf, FieldTypes
    <3>4. QED
      BY <2>4, <3>3 DEF RecvOK, OneOf
  <2>6. CASE ops' = ops /\ Goto(t, "disconnect")
    <3>1. At(t, "disconnect", s)' /\ Recvs(s)' = {}
      BY <1>2, <2>3, <2>6, GotoMoves DEF At, Recvs, OpsOf
    <3>2. QED
      BY <2>4, <3>1 DEF RecvOK, OneOf
  <2>7. QED
    BY <1>1, <2>5, <2>6
<1>6. QED
  BY <1>4, <1>5 DEF RecvsInv

LEMMA RecvsStep ==
  ASSUME GroundInv, RecvsInv, LentInv, ~AssocMayFail, [Next /\ Counts]_slotVars
  PROVE  RecvsInv'
<1>0. ControlInv /\ ControlInv' /\ UsesInv
  BY GroundStep DEF GroundInv
<1>1. CASE UNCHANGED slotVars
  <2>1. UNCHANGED <<pc, stack, cur, connected, ops, uses, dry, sock, recvOvl, main>>
    BY <1>1 DEF slotVars, vars, fieldVars, threadVars, kernelVars, serverVars
  <2>2. ASSUME NEW s \in Sessions, FirstUse(s)' PROVE RecvOK(s)'
    <3>1. RecvOK(s)
      BY <2>1, <2>2 DEF RecvsInv, FirstUse
    <3>2. Recvs(s)' = Recvs(s) /\ ReceiversOf(s)' = ReceiversOf(s)
      BY <2>1 DEF Recvs, OpsOf, ReceiversOf
    <3>3. RecvCalm(s)
      BY <2>1, <3>2 DEF RecvCalm, Attended, At, Serving
    <3>4. QED
      BY <3>1, <3>3, CalmRecvs
  <2>3. QED
    BY <2>2 DEF RecvsInv
<1>2. ASSUME Counts, \A s \in Sessions : FirstUse(s) => RecvCalm(s)
      PROVE  RecvsInv'
  BY <1>0, <1>2, UsesGrow, CalmRecvs DEF RecvsInv
<1>3. CASE Counts /\ (Start \/ Stop \/ Joined)
  <2>1. UNCHANGED <<pc, cur, stack>> /\ UNCHANGED recvVars /\ (Serving' => Serving) /\ (dry => dry')
    BY <1>3 DEF Start, Stop, Joined, fieldVars, threadVars, recvVars, Serving, Counts
  <2>2. ASSUME NEW s \in Sessions PROVE RecvCalm(s)
    <3>1. CASE Start
      <4>1. ~connected[s]
        BY <3>1 DEF Start, GroundInv, NewInv
      <4>2. Recvs(s)' \subseteq Recvs(s) /\ ReceiversOf(s)' = ReceiversOf(s)
        BY <2>1, <3>1 DEF Start, PostAccept, Recvs, OpsOf, ReceiversOf, recvVars
      <4>3. QED
        BY <2>1, <4>1, <4>2 DEF RecvCalm, recvVars
    <3>2. CASE Stop \/ Joined
      <4>1. Recvs(s)' = Recvs(s) /\ ReceiversOf(s)' = ReceiversOf(s)
        BY <2>1, <3>2 DEF Stop, Joined, kernelVars, Recvs, OpsOf, ReceiversOf, recvVars
      <4>2. QED
        BY <2>1, <4>1 DEF RecvCalm, Attended, recvVars, At
    <3>3. QED
      BY <1>3, <3>1, <3>2
  <2>3. QED
    BY <1>2, <1>3, <2>2
<1>4. ASSUME NEW t \in Threads, Runs(t) \/ Completes(t) \/ Chooses(t), Counts
      PROVE  RecvsInv'
  <2>0. main' = main
    BY <1>4, NothingBeforeStart DEF GroundInv
  <2>1. CASE SessionNext(t) /\ UNCHANGED serverVars
    <3>1. CASE ReleaseDisconnects(t)
      <4>1. PICK s \in Sessions : At(t, "release", s) /\ connected[s]
        BY <3>1 DEF ReleaseDisconnects, WinsExchange
      <4>2. QED
        BY <4>1, GroundFacts DEF At, Holds, HoldLabels
    <3>2. CASE \/ NullOwner(t) \/ DisconnectLoses(t) \/ DisconnectWins(t) \/ CloseSocket(t)
               \/ ReleaseWipes(t) \/ ResetSession(t) \/ RelockHangs(t) \/ ReturnToPool(t)
               \/ SendLocked(t) \/ SendNext(t) \/ Unlock(t)
      BY <1>0, <1>2, <1>4, <2>1, <3>2, RetainsSession
    <3>3. CASE PostRecvNoBuffer(t)
      BY <1>0, <1>2, <1>4, <2>1, <3>3, NoBufferRecv
    <3>4. CASE PacketsProcessed(t) \/ PostRecvAcquires(t)
      BY <1>0, <1>2, <1>4, <2>0, <3>4, TriesRecv
    <3>5. CASE PostRecvSetsUp(t) \/ PostRecvCall(t)
      BY <1>0, <1>4, <2>1, <3>5, SetsUpRecvs, CallsRecv
    <3>6. QED
      BY <2>1, <3>1, <3>2, <3>3, <3>4, <3>5 DEF SessionNext
  <2>2. CASE AcquireSession(t) \/ RecvDelivers(t)
    BY <1>0, <1>4, <2>2, AcquireRecvs, DeliversRecvs
  <2>3. CASE WorkerBreaks(t) \/ DropCompletion(t) \/ CompletionNullOwner(t) \/ RecvEnds(t)
    BY <1>0, <1>2, <1>4, <2>3, DropsRecvs
  <2>4. CASE \/ PoolExhausted(t) \/ WorkerLoops(t) \/ AcceptCompletes(t) \/ SendCompletes(t)
             \/ Chooses(t)
    BY <1>0, <1>2, <1>4, <2>4, RetainsServer
  <2>5. CASE Associate(t) \/ ForgetBuffer(t)
    BY <1>0, <1>2, <1>4, <2>0, <2>5, TriesRecv
  <2>6. CASE AssociateFails(t)
    BY <2>6 DEF AssociateFails
  <2>7. QED
    BY <1>4, <2>1, <2>2, <2>3, <2>4, <2>5, <2>6 DEF Runs, Completes
<1>5. QED
  BY <1>1, <1>3, <1>4 DEF Next

\* The step has nothing to do with a PostRecv under way.
Unlent(t) ==
  /\ \A u \in Threads : pc'[u] \in PostLabels =>
       pc'[u] = pc[u] /\ cur'[u] = cur[u] /\ rbuf'[u] = rbuf[u]
  /\ \A o \in ops' : o \in ops \/ o.kind # "recv"

LEMMA StaysLent ==
  ASSUME NEW t \in Threads, Unlent(t), NEW s \in Sessions, LentOK(s),
         recvOvl'[s] = recvOvl[s] \/ sock'[s] = NoSocket,
         sock'[s] = sock[s] \/ sock'[s] = NoSocket \/ \A u \in Threads : cur[u] # s
  PROVE  LentOK(s)'
<1>1. ASSUME NEW u \in Threads, cur'[u] = s, pc'[u] \in PostLabels
      PROVE  pc'[u] = pc[u] /\ cur[u] = s /\ rbuf'[u] = rbuf[u]
  BY <1>1 DEF Unlent
<1>2. \A u \in Threads : cur'[u] = s /\ pc'[u] \in PostLabels => rbuf'[u] \in Buffers
  BY <1>1 DEF LentOK
<1>3. ASSUME NEW u \in Threads, At(u, "receive", s)' PROVE recvOvl'[s] = rbuf'[u] \/ sock'[s] = NoSocket
  <2>1. At(u, "receive", s) /\ rbuf'[u] = rbuf[u] /\ cur[u] = s
    BY <1>1, <1>3 DEF At, PostLabels
  <2>2. QED
    BY <2>1 DEF LentOK
<1>4. \A o \in Recvs(s)' : o \in Recvs(s)
  BY DEF Unlent, Recvs, OpsOf
<1>5. QED
  BY <1>2, <1>3, <1>4 DEF LentOK

\* Where the other steps lead.
LEMMA QuietMoves ==
  ASSUME ControlTypes, ControlInv, NEW t \in Threads,
         \/ UNCHANGED <<pc, cur>>
         \/ Return(t)
         \/ \E l : l \notin PostLabels /\ (Goto(t, l) \/ (\E s : Begin(t, l, s)) \/ \E r : Call(t, l, r)),
         rbuf' = rbuf \/ (pc[t] \notin PostLabels /\ \E b : rbuf' = [rbuf EXCEPT ![t] = b]),
         rbuf \in [Threads -> MaybeBuffer],
         \A o \in ops' : o \in ops \/ o.kind # "recv"
  PROVE  Unlent(t)
<1>1. UNCHANGED <<pc, cur>> \/ (OnlyMoves(t) /\ pc'[t] \notin PostLabels)
  <2>1. CASE Return(t)
    BY <2>1, ReturnMoves DEF Returned, PostLabels
  <2>2. CASE \E l : l \notin PostLabels /\ (Goto(t, l) \/ (\E s : Begin(t, l, s)) \/ \E r : Call(t, l, r))
    BY <2>2, GotoMoves, BeginMoves, CallMoves
  <2>3. QED
    BY <2>1, <2>2
<1>2. \A u \in Threads \ {t} : rbuf'[u] = rbuf[u]
  OBVIOUS
<1>3. pc[t] \in PostLabels => rbuf'[t] = rbuf[t]
  OBVIOUS
<1>4. QED
  BY <1>1, <1>2, <1>3 DEF Unlent, OnlyMoves

LEMMA UnlentSession ==
  ASSUME GroundInv, NEW t \in Threads,
         \/ NullOwner(t) \/ DisconnectLoses(t) \/ DisconnectWins(t) \/ CloseSocket(t)
         \/ ReleaseDisconnects(t) \/ ReleaseWipes(t) \/ ResetSession(t) \/ RelockHangs(t)
         \/ ReturnToPool(t) \/ PostRecvNoBuffer(t) \/ SendLocked(t) \/ SendNext(t) \/ Unlock(t)
         \/ PacketsProcessed(t)
  PROVE  Unlent(t)
<1> USE DEF fieldVars, threadVars, kernelVars
<1>1. ControlTypes /\ ControlInv /\ rbuf \in [Threads -> MaybeBuffer]
  BY GroundFacts DEF TypeOK, LocalTypes
<1>2. \/ UNCHANGED <<pc, cur>>
      \/ Return(t)
      \/ \E l : l \notin PostLabels /\ (Goto(t, l) \/ (\E s : Begin(t, l, s)) \/ \E r : Call(t, l, r))
  BY DEF NullOwner, DisconnectLoses, DisconnectWins, CloseSocket, ReleaseDisconnects, ReleaseWipes,
     ResetSession, RelockHangs, ReturnToPool, PostRecvNoBuffer, SendLocked, SendNext, PostSend, Unlock,
     PacketsProcessed, TryPostRecv, PostLabels
<1>3. rbuf' = rbuf \/ (pc[t] \notin PostLabels /\ \E b : rbuf' = [rbuf EXCEPT ![t] = b])
  BY DEF NullOwner, DisconnectLoses, DisconnectWins, CloseSocket, ReleaseDisconnects, ReleaseWipes,
     ResetSession, RelockHangs, ReturnToPool, PostRecvNoBuffer, SendLocked, SendNext, Unlock,
     PacketsProcessed, At, PostLabels
<1>4. \A o \in ops' : o \in ops \/ o.kind # "recv"
  BY DEF NullOwner, DisconnectLoses, DisconnectWins, CloseSocket, ReleaseDisconnects, ReleaseWipes,
     ResetSession, RelockHangs, ReturnToPool, PostRecvNoBuffer, SendLocked, SendNext, PostSend, Unlock,
     PacketsProcessed
<1>5. QED
  BY <1>1, <1>2, <1>3, <1>4, QuietMoves

LEMMA UnlentServer ==
  ASSUME GroundInv, NEW t \in Threads,
         \/ AcquireSession(t) \/ PoolExhausted(t) \/ Associate(t) \/ ForgetBuffer(t)
         \/ WorkerLoops(t) \/ WorkerBreaks(t) \/ Completes(t) \/ Chooses(t)
  PROVE  Unlent(t)
<1> USE DEF fieldVars, threadVars, kernelVars, Completes, Chooses
<1>1. ControlTypes /\ ControlInv /\ rbuf \in [Threads -> MaybeBuffer]
  BY GroundFacts DEF TypeOK, LocalTypes
<1>2. \/ UNCHANGED <<pc, cur>>
      \/ Return(t)
      \/ \E l : l \notin PostLabels /\ (Goto(t, l) \/ (\E s : Begin(t, l, s)) \/ \E r : Call(t, l, r))
  BY DEF AcquireSession, PoolExhausted, Associate, ForgetBuffer, TryPostRecv, WorkerLoops, WorkerBreaks,
     AcceptCompletes, DropCompletion, CompletionNullOwner, RecvEnds, RecvDelivers, SendCompletes,
     AppConnects, AppSends, AppDisconnects, HandlerSends, HandlerDisconnects, PostLabels
<1>3. rbuf' = rbuf \/ (pc[t] \notin PostLabels /\ \E b : rbuf' = [rbuf EXCEPT ![t] = b])
  BY DEF AcquireSession, PoolExhausted, Associate, ForgetBuffer, WorkerLoops, WorkerBreaks,
     AcceptCompletes, DropCompletion, CompletionNullOwner, RecvEnds, RecvDelivers, SendCompletes, Takes,
     AppConnects, AppSends, AppDisconnects, HandlerSends, HandlerDisconnects, PostLabels
<1>4. \A o \in ops' : o \in ops \/ o.kind # "recv"
  BY DEF AcquireSession, PoolExhausted, Associate, ForgetBuffer, WorkerLoops, WorkerBreaks,
     AcceptCompletes, PostAccept, DropCompletion, CompletionNullOwner, RecvEnds, RecvDelivers,
     SendCompletes, Takes, AppConnects, AppSends, AppDisconnects, HandlerSends, HandlerDisconnects
<1>5. QED
  BY <1>1, <1>2, <1>3, <1>4, QuietMoves

\* recvOvl_ and sock_ under the steps of the others.
LEMMA FieldsLent ==
  ASSUME GroundInv, NEW t \in Threads,
         \/ SessionNext(t) /\ ~PostRecvSetsUp(t)
         \/ PoolExhausted(t) \/ Associate(t) \/ ForgetBuffer(t)
         \/ WorkerLoops(t) \/ WorkerBreaks(t) \/ Completes(t) \/ Chooses(t),
         NEW s \in Sessions
  PROVE  /\ recvOvl'[s] = recvOvl[s] \/ sock'[s] = NoSocket
         /\ sock'[s] = sock[s] \/ sock'[s] = NoSocket
<1> USE DEF fieldVars, Completes, Chooses
<1>1. CASE ResetSession(t)
  <2>1. PICK r \in Sessions : At(t, "reset", r) /\ recvOvl' = [recvOvl EXCEPT ![r] = NoBuffer] /\ sock' = sock
    BY <1>1 DEF ResetSession, ResetMembers
  <2>2. sock[r] = NoSocket
    BY <2>1 DEF GroundInv, FreeInv, CleanInv, Wiped
  <2>3. QED
    BY <2>1, <2>2, GroundFacts DEF FieldTypes
<1>2. CASE ~ResetSession(t)
  <2>1. recvOvl' = recvOvl /\ (sock' = sock \/ \E r \in Sessions : sock' = [sock EXCEPT ![r] = NoSocket])
    BY <1>2 DEF SessionNext, NullOwner, DisconnectLoses, DisconnectWins, CloseSocket, ReleaseDisconnects,
       ReleaseWipes, WipeFields, RelockHangs, ReturnToPool, PostRecvNoBuffer, PostRecvAcquires, PostRecvCall,
       SendLocked, SendNext, Unlock, PacketsProcessed,
       PoolExhausted, Associate, ForgetBuffer, WorkerLoops, WorkerBreaks,
       AcceptCompletes, DropCompletion, CompletionNullOwner, RecvEnds, RecvDelivers, SendCompletes,
       AppConnects, AppSends, AppDisconnects, HandlerSends, HandlerDisconnects
  <2>2. QED
    BY <2>1, GroundFacts DEF FieldTypes
<1>3. QED
  BY <1>1, <1>2

\* PostRecv's own steps on session s.
LEMMA PostsLent ==
  ASSUME GroundInv, RecvsInv, NEW t \in Threads, NEW s \in Sessions, FirstUse(s), LentOK(s),
         PostRecvAcquires(t) \/ PostRecvSetsUp(t) \/ PostRecvCall(t)
  PROVE  LentOK(s)'
<1> USE DEF fieldVars, kernelVars
<1>1. /\ ControlTypes /\ ControlInv /\ FieldTypes /\ KernelTypes
      /\ rbuf \in [Threads -> MaybeBuffer] /\ NoSocket \notin Sockets
  BY GroundFacts DEF TypeOK, LocalTypes, Sockets, NoSocket
<1>2. CASE PostRecvAcquires(t)
  <2>1. PICK b \in Buffers : /\ rbuf' = [rbuf EXCEPT ![t] = b] /\ Goto(t, "setup")
                             /\ UNCHANGED <<recvOvl, sock, ops>>
    BY <1>2 DEF PostRecvAcquires
  <2>2. OnlyMoves(t) /\ pc'[t] = "setup" /\ cur'[t] = cur[t]
    BY <1>1, <2>1, GotoMoves
  <2>3. rbuf'[t] = b /\ \A u \in Threads \ {t} : rbuf'[u] = rbuf[u]
    BY <1>1, <2>1
  <2>4. Recvs(s)' = Recvs(s)
    BY <2>1 DEF Recvs, OpsOf
  <2>5. QED
    BY <2>1, <2>2, <2>3, <2>4 DEF LentOK, OnlyMoves, At
<1>3. CASE PostRecvSetsUp(t)
  <2>1. PICK r \in Sessions : /\ At(t, "setup", r) /\ Goto(t, "receive")
                              /\ recvOvl' = [recvOvl EXCEPT ![r] = rbuf[t]]
                              /\ UNCHANGED <<sock, ops, rbuf>>
    BY <1>3 DEF PostRecvSetsUp
  <2>2. OnlyMoves(t) /\ pc'[t] = "receive" /\ cur'[t] = r /\ cur[t] = r /\ pc[t] = "setup"
    BY <1>1, <2>1, GotoMoves DEF At
  <2>3. Recvs(s)' = Recvs(s)
    BY <2>1 DEF Recvs, OpsOf
  <2>4. \A u \in Threads : cur'[u] = s /\ pc'[u] \in PostLabels => rbuf'[u] \in Buffers
    BY <2>1, <2>2 DEF LentOK, OnlyMoves, PostLabels
  <2>5. ASSUME NEW u \in Threads, At(u, "receive", s)'
        PROVE  recvOvl'[s] = rbuf'[u] \/ sock'[s] = NoSocket
    <3>1. CASE u = t
      BY <1>1, <2>1, <2>2, <2>5, <3>1 DEF At, FieldTypes
    <3>2. CASE u # t
      <4>1. At(u, "receive", s)
        BY <2>2, <2>5, <3>2 DEF OnlyMoves, At
      <4>2. r # s
        <5>1. ASSUME r = s PROVE FALSE
          <6>1. t \in ReceiversOf(s) /\ u \in ReceiversOf(s)
            BY <2>2, <4>1, <5>1 DEF ReceiversOf, At
          <6>2. QED
            BY <3>2, <6>1 DEF RecvsInv, RecvOK, OneOf
        <5>2. QED
          BY <5>1
      <4>3. recvOvl'[s] = recvOvl[s]
        BY <1>1, <2>1, <4>2 DEF FieldTypes
      <4>4. QED
        BY <2>1, <4>1, <4>3 DEF LentOK
    <3>3. QED
      BY <3>1, <3>2
  <2>6. QED
    BY <2>3, <2>4, <2>5 DEF LentOK
<1>4. CASE PostRecvCall(t)
  <2>1. PICK r \in Sessions :
          /\ At(t, "receive", r)
          /\ \/ /\ sock[r] \in open /\ Return(t)
                /\ ops' = ops \cup {[kind |-> "recv", s |-> r, sock |-> sock[r], buf |-> recvOvl[r]]}
             \/ ops' = ops /\ Goto(t, "disconnect")
          /\ rbuf' = [rbuf EXCEPT ![t] = NoBuffer]
          /\ UNCHANGED <<recvOvl, sock>>
    BY <1>4 DEF PostRecvCall, Pends
  <2>2. OnlyMoves(t) /\ pc'[t] \notin PostLabels
    BY <1>1, <2>1, GotoMoves, ReturnMoves DEF Returned, PostLabels
  <2>3. \A u \in Threads \ {t} : rbuf'[u] = rbuf[u]
    BY <1>1, <2>1
  <2>4. ASSUME NEW o \in Recvs(s)' PROVE o.buf \in Buffers
    <3>1. CASE o \in ops
      BY <2>4, <3>1 DEF LentOK, Recvs, OpsOf
    <3>2. CASE o \notin ops
      <4>1. o = [kind |-> "recv", s |-> r, sock |-> sock[r], buf |-> recvOvl[r]] /\ sock[r] \in open
        BY <2>1, <2>4, <3>2 DEF Recvs, OpsOf
      <4>2. r = s /\ o.buf = recvOvl[s]
        BY <2>4, <4>1 DEF Recvs, OpsOf
      <4>3. recvOvl[s] = rbuf[t] /\ rbuf[t] \in Buffers
        BY <1>1, <2>1, <4>1, <4>2 DEF LentOK, At, PostLabels, KernelTypes
      <4>4. QED
        BY <4>2, <4>3
    <3>3. QED
      BY <3>1, <3>2
  <2>5. \A u \in Threads : pc'[u] \in PostLabels =>
          u # t /\ pc'[u] = pc[u] /\ cur'[u] = cur[u] /\ rbuf'[u] = rbuf[u]
    BY <2>2, <2>3 DEF OnlyMoves
  <2>6. QED
    BY <2>1, <2>4, <2>5 DEF LentOK, At, PostLabels
<1>5. QED
  BY <1>2, <1>3, <1>4

LEMMA LentStep ==
  ASSUME GroundInv, RecvsInv, LentInv, ~AssocMayFail, [Next /\ Counts]_slotVars
  PROVE  LentInv'
<1>1. CASE UNCHANGED slotVars
  BY <1>1 DEF slotVars, vars, fieldVars, threadVars, kernelVars, LentInv, LentOK, FirstUse, At, Recvs, OpsOf
<1>2. CASE Counts /\ (Start \/ Stop \/ Joined)
  <2>1. UNCHANGED <<pc, cur, rbuf, sock, recvOvl>> /\ \A o \in ops' : o \in ops \/ o.kind # "recv"
    BY <1>2 DEF Start, Stop, Joined, PostAccept, fieldVars, threadVars, kernelVars
  <2>2. QED
    BY <1>2, <2>1, UsesGrow, GroundFacts DEF LentInv, LentOK, At, Recvs, OpsOf
<1>3. ASSUME NEW t \in Threads, Runs(t) \/ Completes(t) \/ Chooses(t), Counts, NEW s \in Sessions, FirstUse(s)'
      PROVE  LentOK(s)'
  <2>1. FirstUse(s) /\ LentOK(s)
    BY <1>3, UsesGrow, GroundFacts DEF LentInv
  <2>2. CASE PostRecvAcquires(t) \/ PostRecvSetsUp(t) \/ PostRecvCall(t)
    BY <2>1, <2>2, PostsLent
  <2>3. CASE AcquireSession(t)
    <3>1. PICK r \in Sessions : /\ ~connected[r] /\ connected'[r] /\ recvOvl' = recvOvl
                                /\ \A q \in Sessions \ {r} : sock'[q] = sock[q]
      BY <2>3, Acquires
    <3>2. s = r => \A u \in Threads : cur[u] # s
      BY <1>3, <3>1, UsesGrow, FreshSlot, GroundFacts
    <3>3. QED
      BY <2>1, <2>3, <3>1, <3>2, UnlentServer, StaysLent
  <2>4. CASE \/ PoolExhausted(t) \/ Associate(t) \/ ForgetBuffer(t)
             \/ WorkerLoops(t) \/ WorkerBreaks(t) \/ Completes(t) \/ Chooses(t)
    BY <2>1, <2>4, UnlentServer, FieldsLent, StaysLent
  <2>5. CASE SessionNext(t) /\ ~(PostRecvAcquires(t) \/ PostRecvSetsUp(t) \/ PostRecvCall(t))
    <3>1. Unlent(t)
      BY <2>5, UnlentSession DEF SessionNext
    <3>2. QED
      BY <2>1, <2>5, <3>1, FieldsLent, StaysLent
  <2>6. CASE AssociateFails(t)
    BY <2>6 DEF AssociateFails
  <2>7. QED
    BY <1>3, <2>2, <2>3, <2>4, <2>5, <2>6 DEF Runs
<1>4. QED
  BY <1>1, <1>2, <1>3 DEF Next, LentInv

LEMMA RecvsInit == SlotInit => RecvsInv /\ LentInv
<1> SUFFICES ASSUME SlotInit PROVE RecvsInv /\ LentInv
  OBVIOUS
<1>1. /\ ops = {} /\ cur = [t \in Threads |-> NoSession]
      /\ connected = [s \in Sessions |-> FALSE]
  BY DEF SlotInit, Init, SessionInit
<1>2. ASSUME NEW s \in Sessions PROVE RecvOK(s)
  <2>1. Recvs(s) = {} /\ ReceiversOf(s) = {} /\ ~connected[s]
    BY <1>1 DEF Recvs, OpsOf, ReceiversOf, Sessions, NoSession
  <2>2. QED
    BY <2>1 DEF RecvOK, OneOf
<1>3. LentInv
  BY <1>1 DEF LentInv, LentOK, At, Recvs, OpsOf, Sessions, NoSession
<1>4. QED
  BY <1>2, <1>3 DEF RecvsInv

\* As long as every accepted socket can be associated with the completion port,
\* no two receives of a slot's first connection are outstanding or on their way,
\* so no two workers push its bytes at once, for any number of workers,
\* application threads, sessions, buffers and connections
\* (OnAcceptCompleted, PostRecv, OnRecvCompleted).
THEOREM OneReceiverAtATime ==
  ASSUME ~AssocMayFail
  PROVE  SlotSpec => []OneReceiver
<1>1. SlotInit => GroundInv /\ RecvsInv /\ LentInv
  BY GroundInit, RecvsInit
<1>2. GroundInv /\ RecvsInv /\ LentInv /\ [Next /\ Counts]_slotVars
      => (GroundInv /\ RecvsInv /\ LentInv)'
  BY GroundStep, RecvsStep, LentStep
<1>3. RecvsInv => OneReceiver
  BY DEF RecvsInv, RecvOK, OneOf, OneReceiver, Recvs
<1>4. QED
  BY <1>1, <1>2, <1>3, PTL DEF SlotSpec

\* As long as every accepted socket can be associated with the completion port,
\* the first connection of a slot goes on receiving until it is closed, the pool
\* is empty or the server stops: no path of OnRecvCompleted or PostRecv gives
\* the receive up silently.
THEOREM ReceivingGoesOn ==
  ASSUME ~AssocMayFail
  PROVE  SlotSpec => []ReceiveAlive
<1>1. SlotInit => GroundInv /\ RecvsInv /\ LentInv
  BY GroundInit, RecvsInit
<1>2. GroundInv /\ RecvsInv /\ LentInv /\ [Next /\ Counts]_slotVars
      => (GroundInv /\ RecvsInv /\ LentInv)'
  BY GroundStep, RecvsStep, LentStep
<1>3. RecvsInv => ReceiveAlive
  BY DEF RecvsInv, RecvOK, ReceiveAlive, Recvs
<1>4. QED
  BY <1>1, <1>2, <1>3, PTL DEF SlotSpec

-----------------------------------------------------------------------------
(* The buffers.  Each is on the free stack, with the kernel or with a       *)
(* reader; accepted sockets are left out, because two workers may give the  *)
(* one buffer of the shared accept operation back.                          *)

Blocks == \A b \in Buffers : BlockOK(b)

\* No buffer is taken or given back.
LEMMA SameBlocks ==
  ASSUME Blocks, freeList' = freeList,
         \A b \in Buffers : InKernel(b)' \subseteq InKernel(b) /\ ReadersOf(b)' \subseteq ReadersOf(b)
  PROVE  Blocks'
<1>1. \A b : OnStack(b)' = OnStack(b)
  BY DEF OnStack
<1>2. ASSUME NEW b \in Buffers PROVE BlockOK(b)'
  <2>1. BlockOK(b) /\ OnStack(b)' = OnStack(b)
        /\ InKernel(b)' \subseteq InKernel(b) /\ ReadersOf(b)' \subseteq ReadersOf(b)
    BY <1>1 DEF Blocks
  <2>2. QED
    BY <2>1 DEF BlockOK
<1>3. QED
  BY <1>2 DEF Blocks

\* The buffer on top is taken, and used in one operation or left aside.
LEMMA PopBlocks ==
  ASSUME Blocks, PoolTypes, NEW x, AcquireBuffer(x), rbuf' = rbuf,
         ops' \subseteq ops \/ \E o : o.buf = x /\ ops' \subseteq ops \cup {o}
  PROVE  Blocks'
<1>1. PICK q : q = freeList
  OBVIOUS
<1>2. q \in Seq(Buffers) /\ q # <<>> /\ x = q[Len(q)] /\ freeList' = Front(q) /\ x \in Buffers
  BY <1>1, StackPop DEF AcquireBuffer, HasFreeBuffer, TopBuffer, PoolTypes
<1>3. /\ Len(q) \in Nat \ {0} /\ Len(Front(q)) = Len(q) - 1
      /\ \A i \in 1..(Len(q) - 1) : Front(q)[i] = q[i]
  BY <1>2, StackPop
<1>4. \A b : OnStack(b)' = OnStack(b) \ {Len(q)}
  BY <1>1, <1>2, <1>3 DEF OnStack
<1>5. Len(q) \in OnStack(x)
  BY <1>1, <1>2, <1>3 DEF OnStack
<1>6. ASSUME NEW b \in Buffers PROVE BlockOK(b)'
  <2>1. BlockOK(b) /\ ReadersOf(b)' = ReadersOf(b)
    BY DEF Blocks, ReadersOf
  <2>2. CASE b # x
    <3>1. InKernel(b)' \subseteq InKernel(b)
      BY <2>2 DEF InKernel
    <3>2. OnStack(b)' \subseteq OnStack(b)
      BY <1>4
    <3>3. QED
      BY <2>1, <3>1, <3>2 DEF BlockOK
  <2>3. CASE b = x
    <3>1. OnStack(b) = {Len(q)} /\ InKernel(b) = {} /\ ReadersOf(b) = {}
      BY <1>5, <2>1, <2>3 DEF BlockOK
    <3>2. OnStack(b)' = {} /\ ReadersOf(b)' = {}
      BY <1>4, <2>1, <3>1
    <3>3. \A o, p \in InKernel(b)' : o = p
      BY <3>1 DEF InKernel
    <3>4. QED
      BY <3>2, <3>3 DEF BlockOK
  <2>4. QED
    BY <2>2, <2>3
<1>7. QED
  BY <1>6 DEF Blocks

\* A buffer nobody else uses is given back.
LEMMA PushBlocks ==
  ASSUME Blocks, PoolTypes, NEW x \in Buffers, ReleaseBuffer(x), OnStack(x) = {},
         InKernel(x)' = {}, ReadersOf(x)' = {},
         \A b \in Buffers : InKernel(b)' \subseteq InKernel(b) /\ ReadersOf(b)' \subseteq ReadersOf(b)
  PROVE  Blocks'
<1>1. PICK q : q = freeList
  OBVIOUS
<1>2. q \in Seq(Buffers) /\ freeList' = Append(q, x)
  BY <1>1, NumBuffersAssumption DEF ReleaseBuffer, PoolTypes, NoBuffer, Buffers
<1>3. /\ Len(q) \in Nat /\ Len(Append(q, x)) = Len(q) + 1 /\ Append(q, x)[Len(q) + 1] = x
      /\ \A i \in 1..Len(q) : Append(q, x)[i] = q[i]
  BY <1>2, StackPush
<1>4. ASSUME NEW b, b # x PROVE OnStack(b)' \subseteq OnStack(b)
  BY <1>1, <1>2, <1>3, <1>4 DEF OnStack
<1>5. OnStack(x)' \subseteq {Len(q) + 1}
  BY <1>1, <1>2, <1>3 DEF OnStack
<1>6. ASSUME NEW b \in Buffers PROVE BlockOK(b)'
  <2>1. BlockOK(b) /\ InKernel(b)' \subseteq InKernel(b) /\ ReadersOf(b)' \subseteq ReadersOf(b)
    BY DEF Blocks
  <2>2. CASE b # x
    BY <1>4, <2>1, <2>2 DEF BlockOK
  <2>3. CASE b = x
    <3>1. InKernel(b)' = {} /\ ReadersOf(b)' = {} /\ OnStack(b)' \subseteq {Len(q) + 1}
      BY <1>5, <2>3
    <3>2. QED
      BY <3>1 DEF BlockOK
  <2>4. QED
    BY <2>2, <2>3
<1>7. QED
  BY <1>6 DEF Blocks

LEMMA StillBlocks ==
  ASSUME Blocks, freeList' = freeList, ops' \subseteq ops, rbuf' = rbuf
  PROVE  Blocks'
<1>1. \A b \in Buffers : InKernel(b)' \subseteq InKernel(b) /\ ReadersOf(b)' \subseteq ReadersOf(b)
  BY DEF InKernel, ReadersOf
<1>2. QED
  BY <1>1, SameBlocks

\* The OverlappedEx member holds the operation's own buffer.
LEMMA OwnBuffer ==
  ASSUME GroundInv, SendsInv, RecvsInv, LentInv, AllFirst, NEW o \in ops, o.kind \in {"recv", "send"},
         OvlBuffer(o) # NoBuffer
  PROVE  OvlBuffer(o) = o.buf /\ o.s \in Sessions /\ o.buf \in Buffers
<1>0. o.s \in Sessions /\ (o.kind = "send" => o.buf \in Buffers)
  BY GroundFacts DEF KernelTypes, Operations
<1>2. FirstUse(o.s)
  BY <1>0 DEF AllFirst
<1>1. o.s \in Sessions /\ o.buf \in Buffers
  BY <1>0, <1>2 DEF LentInv, LentOK, Recvs, OpsOf
<1>3. CASE o.kind = "recv"
  <2>1. RecvOK(o.s) /\ o \in Recvs(o.s)
    BY <1>1, <1>2, <1>3 DEF RecvsInv, Recvs, OpsOf
  <2>2. QED
    BY <1>1, <1>3, <2>1 DEF RecvOK, OvlBuffer
<1>4. CASE o.kind = "send"
  <2>1. SendOK(o.s) /\ o \in Sends(o.s)
    BY <1>1, <1>2, <1>4 DEF SendsInv, Sends, OpsOf
  <2>2. QED
    BY <1>1, <1>4, <2>1 DEF SendOK, OvlBuffer
<1>5. QED
  BY <1>3, <1>4

\* The buffer of a completed operation goes back.
LEMMA CompletesBlocks ==
  ASSUME GroundInv, SendsInv, RecvsInv, LentInv, AllFirst, Blocks, NEW t \in Threads,
         RecvEnds(t) \/ SendCompletes(t)
  PROVE  Blocks'
<1>1. PICK o \in ops : /\ Takes(t, o) /\ OvlBuffer(o) # NoBuffer /\ ReleaseBuffer(OvlBuffer(o))
                       /\ rbuf' = rbuf
  BY DEF RecvEnds, SendCompletes, OvlBuffer
<1>2. PICK x : x = o.buf
  OBVIOUS
<1>3. ReleaseBuffer(x) /\ x \in Buffers /\ ops' = ops \ {o}
  BY <1>1, <1>2, OwnBuffer DEF Takes
<1>4. BlockOK(x) /\ o \in InKernel(x)
  BY <1>2, <1>3 DEF Blocks, InKernel
<1>5. OnStack(x) = {} /\ ReadersOf(x) = {} /\ InKernel(x) = {o}
  BY <1>4 DEF BlockOK
<1>6. InKernel(x)' = {} /\ ReadersOf(x)' = {}
  BY <1>1, <1>3, <1>5 DEF InKernel, ReadersOf
<1>7. \A b \in Buffers : InKernel(b)' \subseteq InKernel(b) /\ ReadersOf(b)' \subseteq ReadersOf(b)
  BY <1>1, <1>3 DEF InKernel, ReadersOf
<1>8. QED
  BY <1>3, <1>5, <1>6, <1>7, PushBlocks, GroundFacts

\* The buffer of a completed receive goes to the thread that reads it.
LEMMA DeliversBlocks ==
  ASSUME GroundInv, SendsInv, RecvsInv, LentInv, AllFirst, Blocks, NEW t \in Threads, RecvDelivers(t)
  PROVE  Blocks'
<1> USE DEF poolVars
<1>1. PICK o \in ops : /\ Takes(t, o) /\ OvlBuffer(o) # NoBuffer
                       /\ rbuf' = [rbuf EXCEPT ![t] = OvlBuffer(o)] /\ freeList' = freeList
  BY DEF RecvDelivers, OvlBuffer
<1>2. PICK x : x = o.buf
  OBVIOUS
<1>3. rbuf' = [rbuf EXCEPT ![t] = x] /\ x \in Buffers /\ ops' = ops \ {o}
  BY <1>1, <1>2, OwnBuffer DEF Takes
<1>4. BlockOK(x) /\ o \in InKernel(x)
  BY <1>2, <1>3 DEF Blocks, InKernel
<1>5. OnStack(x) = {} /\ ReadersOf(x) = {} /\ InKernel(x) = {o}
  BY <1>4 DEF BlockOK
<1>6. ASSUME NEW b \in Buffers PROVE BlockOK(b)'
  <2>1. BlockOK(b) /\ OnStack(b)' = OnStack(b) /\ InKernel(b)' \subseteq InKernel(b)
    BY <1>1, <1>3 DEF Blocks, OnStack, InKernel
  <2>2. \A u \in Threads : rbuf'[u] = IF u = t THEN x ELSE rbuf[u]
    BY <1>3, GroundFacts DEF TypeOK, LocalTypes
  <2>3. CASE b # x
    <3>1. ReadersOf(b)' \subseteq ReadersOf(b)
      BY <2>2, <2>3 DEF ReadersOf
    <3>2. QED
      BY <2>1, <3>1 DEF BlockOK
  <2>4. CASE b = x
    <3>1. ReadersOf(b)' \subseteq {t} /\ InKernel(b)' = {} /\ OnStack(b)' = {}
      BY <1>3, <1>5, <2>1, <2>2, <2>4 DEF ReadersOf, InKernel
    <3>2. QED
      BY <3>1 DEF BlockOK
  <2>5. QED
    BY <2>3, <2>4
<1>7. QED
  BY <1>6 DEF Blocks

LEMMA ProcessedBlocks ==
  ASSUME GroundInv, Blocks, NEW t \in Threads, PacketsProcessed(t)
  PROVE  Blocks'
<1> USE DEF kernelVars
<1>1. /\ ReleaseBuffer(rbuf[t]) /\ rbuf' = [rbuf EXCEPT ![t] = NoBuffer] /\ ops' = ops
      /\ rbuf \in [Threads -> MaybeBuffer]
  BY GroundFacts DEF PacketsProcessed, TypeOK, LocalTypes
<1>2. \A b \in Buffers : b # NoBuffer
  BY NumBuffersAssumption DEF Buffers, NoBuffer
<1>3. \A b \in Buffers : InKernel(b)' = InKernel(b) /\ ReadersOf(b)' = ReadersOf(b) \ {t}
  BY <1>1, <1>2 DEF InKernel, ReadersOf
<1>4. CASE rbuf[t] = NoBuffer
  <2>1. freeList' = freeList
    BY <1>1, <1>4 DEF ReleaseBuffer
  <2>2. QED
    BY <1>3, <2>1, SameBlocks
<1>5. CASE rbuf[t] # NoBuffer
  <2>1. PICK x : x = rbuf[t]
    OBVIOUS
  <2>2. x \in Buffers /\ ReleaseBuffer(x) /\ t \in ReadersOf(x)
    BY <1>1, <1>5, <2>1 DEF MaybeBuffer, ReadersOf
  <2>3. OnStack(x) = {} /\ InKernel(x) = {} /\ ReadersOf(x) = {t}
    BY <2>2 DEF Blocks, BlockOK
  <2>4. InKernel(x)' = {} /\ ReadersOf(x)' = {}
    BY <1>3, <2>2, <2>3
  <2>5. QED
    BY <1>3, <2>2, <2>3, <2>4, PushBlocks, GroundFacts
<1>6. QED
  BY <1>4, <1>5

\* PostSend takes a buffer or none.
LEMMA PostsBlocks ==
  ASSUME GroundInv, Blocks, NEW t, NEW s, NEW q, NEW f, PostSend(t, s, q, f), rbuf' = rbuf
  PROVE  Blocks'
<1>1. CASE freeList' = freeList /\ ops' = ops
  BY <1>1, StillBlocks
<1>2. CASE \E b \in Buffers :
             /\ AcquireBuffer(b)
             /\ \/ ops' = ops
                \/ ops' = ops \cup {[kind |-> "send", s |-> s, sock |-> sock[s], buf |-> b]}
  <2>1. PICK b \in Buffers :
             /\ AcquireBuffer(b)
             /\ \/ ops' = ops
                \/ ops' = ops \cup {[kind |-> "send", s |-> s, sock |-> sock[s], buf |-> b]}
    BY <1>2
  <2>2. ops' \subseteq ops \/ \E o : o.buf = b /\ ops' \subseteq ops \cup {o}
    BY <2>1
  <2>3. QED
    BY <2>1, <2>2, PopBlocks, GroundFacts
<1>3. QED
  BY <1>1, <1>2 DEF PostSend

\* PostRecv takes a buffer and keeps it for its next steps.
LEMMA PostAcquiresBlocks ==
  ASSUME GroundInv, Blocks, NEW t \in Threads, PostRecvAcquires(t)
  PROVE  Blocks'
<1> USE DEF kernelVars
<1>1. PICK x \in Buffers : AcquireBuffer(x) /\ rbuf' = [rbuf EXCEPT ![t] = x] /\ ops' = ops
  BY DEF PostRecvAcquires
<1>2. PICK q : q = freeList
  OBVIOUS
<1>3. q \in Seq(Buffers) /\ q # <<>> /\ x = q[Len(q)] /\ freeList' = Front(q)
  BY <1>1, <1>2, StackPop, GroundFacts DEF AcquireBuffer, HasFreeBuffer, TopBuffer, PoolTypes
<1>4. /\ Len(q) \in Nat \ {0} /\ Len(Front(q)) = Len(q) - 1
      /\ \A i \in 1..(Len(q) - 1) : Front(q)[i] = q[i]
  BY <1>3, StackPop
<1>5. \A b : OnStack(b)' = OnStack(b) \ {Len(q)}
  BY <1>2, <1>3, <1>4 DEF OnStack
<1>6. Len(q) \in OnStack(x)
  BY <1>2, <1>3, <1>4 DEF OnStack
<1>7. \A u \in Threads : rbuf'[u] = IF u = t THEN x ELSE rbuf[u]
  BY <1>1, GroundFacts DEF TypeOK, LocalTypes
<1>8. ASSUME NEW b \in Buffers PROVE BlockOK(b)'
  <2>1. BlockOK(b) /\ InKernel(b)' = InKernel(b) /\ OnStack(b)' \subseteq OnStack(b)
    BY <1>1, <1>5 DEF Blocks, InKernel
  <2>2. CASE b # x
    <3>1. ReadersOf(b)' \subseteq ReadersOf(b)
      BY <1>7, <2>2 DEF ReadersOf
    <3>2. QED
      BY <2>1, <3>1 DEF BlockOK
  <2>3. CASE b = x
    <3>1. OnStack(b) = {Len(q)} /\ InKernel(b) = {} /\ ReadersOf(b) = {}
      BY <1>6, <2>1, <2>3 DEF BlockOK
    <3>2. OnStack(b)' = {} /\ InKernel(b)' = {}
      BY <1>5, <2>1, <3>1
    <3>3. ReadersOf(b)' \subseteq {t}
      BY <1>7, <3>1 DEF ReadersOf
    <3>4. QED
      BY <3>2, <3>3 DEF BlockOK
  <2>4. QED
    BY <2>2, <2>3
<1>9. QED
  BY <1>8 DEF Blocks

\* WSARecv: the buffer goes to the kernel, or is left in recvOvl_.
LEMMA PostCallsBlocks ==
  ASSUME GroundInv, LentInv, AllFirst, Blocks, NEW t \in Threads, PostRecvCall(t)
  PROVE  Blocks'
<1>1. PICK s \in Sessions :
        /\ At(t, "receive", s)
        /\ \/ ops' = ops
           \/ /\ sock[s] \in open
              /\ ops' = ops \cup {[kind |-> "recv", s |-> s, sock |-> sock[s], buf |-> recvOvl[s]]}
        /\ rbuf' = [rbuf EXCEPT ![t] = NoBuffer] /\ freeList' = freeList
  BY DEF PostRecvCall, Pends
<1>2. rbuf[t] \in Buffers /\ (sock[s] \in open => recvOvl[s] = rbuf[t])
  <2>1. LentOK(s) /\ NoSocket \notin open
    BY GroundFacts DEF LentInv, AllFirst, KernelTypes, Sockets, NoSocket
  <2>2. QED
    BY <1>1, <2>1 DEF LentOK, At, PostLabels
<1>3. PICK x \in Buffers : x = rbuf[t]
  BY <1>2
<1>4. BlockOK(x) /\ t \in ReadersOf(x)
  BY <1>3 DEF Blocks, ReadersOf
<1>5. OnStack(x) = {} /\ InKernel(x) = {} /\ ReadersOf(x) = {t}
  BY <1>4 DEF BlockOK
<1>6. \A b \in Buffers : ReadersOf(b)' = ReadersOf(b) \ {t} /\ OnStack(b)' = OnStack(b)
  <2>1. \A b \in Buffers : b # NoBuffer
    BY NumBuffersAssumption DEF Buffers, NoBuffer
  <2>2. \A u \in Threads : rbuf'[u] = IF u = t THEN NoBuffer ELSE rbuf[u]
    BY <1>1, GroundFacts DEF TypeOK, LocalTypes
  <2>3. QED
    BY <1>1, <2>1, <2>2 DEF ReadersOf, OnStack
<1>7. CASE ops' = ops
  <2>1. \A b \in Buffers : InKernel(b)' \subseteq InKernel(b) /\ ReadersOf(b)' \subseteq ReadersOf(b)
    BY <1>6, <1>7 DEF InKernel
  <2>2. QED
    BY <1>1, <2>1, SameBlocks
<1>8. CASE \E o : o.buf = x /\ ops' = ops \cup {o}
  <2>1. PICK o : o.buf = x /\ ops' = ops \cup {o}
    BY <1>8
  <2>2. ASSUME NEW b \in Buffers PROVE BlockOK(b)'
    <3>1. BlockOK(b)
      BY DEF Blocks
    <3>2. CASE b # x
      <4>1. InKernel(b)' \subseteq InKernel(b)
        BY <2>1, <3>2 DEF InKernel
      <4>2. QED
        BY <1>6, <3>1, <4>1 DEF BlockOK
    <3>3. CASE b = x
      <4>1. OnStack(b)' = {} /\ ReadersOf(b)' = {} /\ \A p, r \in InKernel(b)' : p = r
        BY <1>5, <1>6, <2>1, <3>3 DEF InKernel
      <4>2. QED
        BY <4>1 DEF BlockOK
    <3>4. QED
      BY <3>2, <3>3
  <2>3. QED
    BY <2>2 DEF Blocks
<1>9. QED
  <2>1. CASE sock[s] \in open /\ ops' = ops \cup {[kind |-> "recv", s |-> s, sock |-> sock[s], buf |-> recvOvl[s]]}
    <3>1. PICK o : o = [kind |-> "recv", s |-> s, sock |-> sock[s], buf |-> recvOvl[s]]
      OBVIOUS
    <3>2. o.buf = x /\ ops' = ops \cup {o}
      BY <1>2, <1>3, <2>1, <3>1
    <3>3. QED
      BY <1>8, <3>2
  <2>2. QED
    BY <1>1, <1>7, <2>1

LEMMA BlocksSession ==
  ASSUME GroundInv, LentInv, AllFirst, Blocks, NEW t \in Threads, SessionNext(t)
  PROVE  Blocks'
<1> USE DEF kernelVars, threadVars
<1>1. CASE SendLocked(t) \/ SendNext(t)
  <2>1. rbuf' = rbuf /\ \/ freeList' = freeList /\ ops' = ops
                        \/ \E s, q, f : PostSend(t, s, q, f)
    BY <1>1 DEF SendLocked, SendNext
  <2>2. QED
    BY <2>1, StillBlocks, PostsBlocks
<1>2. CASE PostRecvAcquires(t) \/ PostRecvCall(t)
  BY <1>2, PostAcquiresBlocks, PostCallsBlocks
<1>3. CASE PacketsProcessed(t)
  BY <1>3, ProcessedBlocks
<1>4. CASE freeList' = freeList /\ ops' = ops /\ rbuf' = rbuf
  BY <1>4, StillBlocks
<1>5. QED
  BY <1>1, <1>2, <1>3, <1>4 DEF SessionNext, NullOwner, DisconnectLoses, DisconnectWins, CloseSocket,
     ReleaseDisconnects, ReleaseWipes, ResetSession, RelockHangs, ReturnToPool, PostRecvNoBuffer,
     PostRecvSetsUp, Unlock

\* No worker accepts.
NoAcceptor == \A t \in Workers : pc[t] \notin {"acquire", "associate", "forget"}

LEMMA BlocksServer ==
  ASSUME GroundInv, SendsInv, RecvsInv, LentInv, AllFirst, Blocks, NoAcceptor, ~ClientsArrive, ~AssocMayFail,
         NEW t \in Threads,
         \/ AcquireSession(t) \/ PoolExhausted(t) \/ Associate(t) \/ ForgetBuffer(t)
         \/ AssociateFails(t)
         \/ WorkerLoops(t) \/ WorkerBreaks(t) \/ Completes(t) \/ Chooses(t)
  PROVE  Blocks'
<1> USE DEF kernelVars, threadVars, poolVars
<1>1. CASE RecvEnds(t) \/ SendCompletes(t) \/ RecvDelivers(t)
  BY <1>1, CompletesBlocks, DeliversBlocks
<1>2. CASE Associate(t)
  <2>1. pc[t] = "associate" /\ freeList' = freeList /\ ops' = ops /\ rbuf' = rbuf
    BY <1>2 DEF Associate, At, NoAcceptor
  <2>2. QED
    BY <2>1, StillBlocks
<1>3. CASE AcceptCompletes(t) \/ AssociateFails(t)
  BY <1>3 DEF AcceptCompletes, AssociateFails
<1>4. CASE freeList' = freeList /\ ops' \subseteq ops /\ rbuf' = rbuf
  BY <1>4, StillBlocks
<1>5. QED
  BY <1>1, <1>2, <1>3, <1>4 DEF AcquireSession, PoolExhausted, ForgetBuffer, WorkerLoops, WorkerBreaks,
     Completes, DropCompletion, CompletionNullOwner, Takes, Chooses, AppConnects, AppSends,
     AppDisconnects, HandlerSends, HandlerDisconnects

LEMMA NoAcceptorStep ==
  ASSUME GroundInv, NoAcceptor, ~ClientsArrive, NEW t \in Threads,
         Runs(t) \/ Completes(t) \/ Chooses(t)
  PROVE  NoAcceptor'
<1> USE DEF kernelVars, threadVars, poolVars, fieldVars
<1>1. ControlTypes /\ ControlInv
  BY GroundFacts
<1>2. CASE UNCHANGED pc
  BY <1>2 DEF NoAcceptor
<1>3. CASE \/ Return(t) \/ (\E l \in {"close", "release", "reset", "push", "hung", "disconnect", "postRecv",
                                      "setup", "receive", "wait", "exited", "idle"} : Goto(t, l))
           \/ (\E l \in {"disconnect", "process", "sendDone", "send"} : \E s : Begin(t, l, s))
           \/ \E l \in {"disconnect", "send"}, r \in {"wipe", "unlock", "process", "release"} : Call(t, l, r)
  <2>1. PICK l \in {"close", "release", "reset", "push", "hung", "disconnect", "postRecv", "setup",
                    "receive", "wait", "exited", "idle", "process", "sendDone", "send"} :
          Return(t) \/ Goto(t, l) \/ (\E s : Begin(t, l, s)) \/ \E r : Call(t, l, r)
    BY <1>3
  <2>2. OnlyMoves(t) /\ pc'[t] \in {"idle", "process", "unlock", l}
    BY <1>1, <2>1, Moves
  <2>3. pc'[t] \notin {"acquire", "associate", "forget"}
    BY <2>2
  <2>4. QED
    BY <2>2, <2>3 DEF NoAcceptor, OnlyMoves, Threads
<1>4. CASE AcquireSession(t) \/ Associate(t) \/ AppConnects(t) \/ AcceptCompletes(t) \/ ForgetBuffer(t)
  <2>1. t \in Apps
    BY <1>4 DEF AcquireSession, Associate, AppConnects, AcceptCompletes, ForgetBuffer, NoAcceptor, At, Threads
  <2>2. OnlyMoves(t)
    <3>1. \/ Return(t) \/ (\E l : Goto(t, l)) \/ (\E l, s : Begin(t, l, s))
      BY <1>4 DEF AcquireSession, Associate, AppConnects, AcceptCompletes, ForgetBuffer, TryPostRecv
    <3>2. QED
      BY <1>1, <3>1, Moves
  <2>3. ASSUME NEW u \in Workers PROVE pc'[u] = pc[u]
    <3>1. u \in Threads \ {t}
      BY <2>1, ThreadsAssumption DEF Threads
    <3>2. QED
      BY <2>2, <3>1 DEF OnlyMoves
  <2>4. QED
    BY <2>3 DEF NoAcceptor
<1>5. CASE SessionNext(t)
  <2>1. CASE NullOwner(t)
    BY <1>2, <2>1 DEF NullOwner
  <2>2. CASE DisconnectLoses(t) \/ ReturnToPool(t) \/ PostRecvNoBuffer(t) \/ Unlock(t)
    BY <1>3, <2>2 DEF DisconnectLoses, ReturnToPool, PostRecvNoBuffer, Unlock
  <2>3. CASE DisconnectWins(t) \/ CloseSocket(t) \/ ReleaseWipes(t) \/ ResetSession(t) \/ RelockHangs(t)
    <3>1. Return(t) \/ \E l \in {"close", "release", "reset", "push", "hung"} : Goto(t, l)
      BY <2>3 DEF DisconnectWins, CloseSocket, ReleaseWipes, ResetSession, RelockHangs
    <3>2. QED
      BY <1>3, <3>1
  <2>4. CASE ReleaseDisconnects(t)
    <3>1. PICK s \in Sessions : At(t, "release", s) /\ connected[s]
      BY <2>4 DEF ReleaseDisconnects, WinsExchange
    <3>2. QED
      BY <3>1, GroundFacts DEF At, Holds, HoldLabels
  <2>5. CASE PostRecvAcquires(t) \/ PostRecvSetsUp(t) \/ PostRecvCall(t) \/ PacketsProcessed(t)
    <3>1. Return(t) \/ \E l \in {"disconnect", "postRecv", "setup", "receive"} : Goto(t, l)
      BY <2>5 DEF PostRecvAcquires, PostRecvSetsUp, PostRecvCall, PacketsProcessed, TryPostRecv
    <3>2. QED
      BY <1>3, <3>1
  <2>6. CASE SendLocked(t) \/ SendNext(t)
    <3>1. Return(t) \/ Call(t, "disconnect", "unlock")
      BY <2>6 DEF SendLocked, SendNext, PostSend
    <3>2. QED
      BY <1>3, <3>1
  <2>7. QED
    BY <1>5, <2>1, <2>2, <2>3, <2>4, <2>5, <2>6 DEF SessionNext
<1>6. QED
  BY <1>2, <1>3, <1>4, <1>5 DEF Runs, Completes, Chooses, PoolExhausted, AssociateFails, WorkerLoops,
     WorkerBreaks, DropCompletion, CompletionNullOwner, RecvEnds, RecvDelivers, SendCompletes, Takes,
     AppSends, AppDisconnects, HandlerSends, HandlerDisconnects

LEMMA BlocksStep ==
  ASSUME GroundInv, SendsInv, RecvsInv, LentInv, BlocksInv, ~ClientsArrive, ~AssocMayFail,
         [Next /\ Counts]_slotVars
  PROVE  BlocksInv'
<1>1. NoAcceptor /\ (AllFirst => Blocks)
  BY DEF BlocksInv, NoAcceptor, Blocks
<1>2. AllFirst' => AllFirst
  <2>1. CASE UNCHANGED slotVars
    BY <2>1 DEF slotVars, AllFirst, FirstUse
  <2>2. CASE Counts
    BY <2>2, UsesGrow, GroundFacts DEF AllFirst
  <2>3. QED
    BY <2>1, <2>2
<1>3. ASSUME AllFirst' PROVE Blocks'
  <2> Blocks /\ AllFirst
    BY <1>1, <1>2, <1>3
  <2>1. CASE UNCHANGED slotVars
    <3>1. freeList' = freeList /\ ops' = ops /\ rbuf' = rbuf
      BY <2>1 DEF slotVars, vars, poolVars, threadVars, kernelVars
    <3>2. QED
      BY <3>1, StillBlocks
  <2>2. CASE Stop \/ Joined
    <3>1. freeList' = freeList /\ ops' = ops /\ rbuf' = rbuf
      BY <2>2 DEF Stop, Joined, poolVars, threadVars, kernelVars
    <3>2. QED
      BY <3>1, StillBlocks
  <2>3. CASE Start
    <3>1. rbuf' = rbuf /\ PostAccept({})
      BY <2>3 DEF Start, threadVars
    <3>2. \/ freeList' = freeList /\ ops' = {}
          \/ \E b \in Buffers : /\ AcquireBuffer(b)
                                /\ \E o : o.buf = b /\ ops' = {o}
      BY <3>1 DEF PostAccept
    <3>3. CASE freeList' = freeList /\ ops' = {}
      BY <3>1, <3>3, StillBlocks
    <3>4. CASE \E b \in Buffers : AcquireBuffer(b) /\ \E o : o.buf = b /\ ops' = {o}
      <4>1. PICK b \in Buffers : AcquireBuffer(b) /\ \E o : o.buf = b /\ ops' = {o}
        BY <3>4
      <4>2. \E o : o.buf = b /\ ops' \subseteq ops \cup {o}
        BY <4>1
      <4>3. QED
        BY <3>1, <4>1, <4>2, PopBlocks, GroundFacts
    <3>5. QED
      BY <3>2, <3>3, <3>4
  <2>4. ASSUME NEW t \in Threads, Runs(t) \/ Completes(t) \/ Chooses(t) PROVE Blocks'
    BY <1>1, <2>4, BlocksSession, BlocksServer DEF Runs
  <2>5. QED
    BY <2>1, <2>2, <2>3, <2>4 DEF Next
<1>4. NoAcceptor'
  <2>1. CASE UNCHANGED slotVars \/ Start \/ Stop \/ Joined
    <3>1. pc' = pc
      BY <2>1 DEF slotVars, vars, threadVars, Start, Stop, Joined
    <3>2. QED
      BY <1>1, <3>1 DEF NoAcceptor
  <2>2. ASSUME NEW t \in Threads, Runs(t) \/ Completes(t) \/ Chooses(t) PROVE NoAcceptor'
    BY <1>1, <2>2, NoAcceptorStep
  <2>3. QED
    BY <2>1, <2>2 DEF Next
<1>5. QED
  BY <1>3, <1>4 DEF BlocksInv, NoAcceptor, Blocks

LEMMA BlocksInit == SlotInit => BlocksInv
<1> SUFFICES ASSUME SlotInit PROVE BlocksInv
  OBVIOUS
<1>1. /\ ops = {} /\ rbuf = [t \in Threads |-> NoBuffer] /\ pc = [t \in Threads |-> "idle"]
      /\ freeList = [i \in 1..NumBuffers |-> i]
  BY DEF SlotInit, Init, SessionInit, BufferPoolInit
<1>2. ASSUME NEW b \in Buffers PROVE BlockOK(b)
  <2>1. InKernel(b) = {} /\ ReadersOf(b) = {}
    BY <1>1, NumBuffersAssumption DEF InKernel, ReadersOf, Buffers, NoBuffer
  <2>2. \A i \in OnStack(b) : i = b
    <3>1. Len(freeList) = NumBuffers
      BY <1>1, NumBuffersAssumption
    <3>2. QED
      BY <1>1, <3>1 DEF OnStack
  <2>3. QED
    BY <2>1, <2>2 DEF BlockOK
<1>3. \A t \in Workers : t \in Threads
  BY DEF Threads
<1>4. QED
  BY <1>1, <1>2, <1>3 DEF BlocksInv

\* As long as no socket is accepted (the server only connects out) and every
\* socket can be associated with the completion port, no buffer is lent twice or
\* lent and free until a slot is used again, for any number of workers,
\* application threads, sessions, buffers and connections (BufferPool, PostRecv,
\* OnRecvCompleted, PostSend, OnSendCompleted).
THEOREM BuffersLentOnce ==
  ASSUME ~AssocMayFail, ~ClientsArrive
  PROVE  SlotSpec => []NoAliasing
<1>1. SlotInit => GroundInv /\ SendsInv /\ RecvsInv /\ LentInv /\ BlocksInv
  BY GroundInit, SendsInit, RecvsInit, BlocksInit
<1>2. GroundInv /\ SendsInv /\ RecvsInv /\ LentInv /\ BlocksInv /\ [Next /\ Counts]_slotVars
      => (GroundInv /\ SendsInv /\ RecvsInv /\ LentInv /\ BlocksInv)'
  BY GroundStep, SendsStep, RecvsStep, LentStep, BlocksStep
<1>3. BlocksInv => NoAliasing
  BY DEF BlocksInv, AllFirst, BlockOK, NoAliasing
<1>4. QED
  BY <1>1, <1>2, <1>3, PTL DEF SlotSpec

-----------------------------------------------------------------------------
(* The order of messages.                                                  *)

\* Session s has to do with the messages meant for c.
Hosts(s, c) ==
  \/ sock[s] = c
  \/ \E t \in Threads : At(t, "send", s) /\ job[t].conn = c
  \/ \E i \in 1..Len(sendQueue[s]) : sendQueue[s][i].conn = c

\* A socket no session has had yet.
Young(c) == c >= nextSock \/ acceptSock = c \/ \E t \in Threads : csock[t] = c

HostInv ==
  /\ \A c \in Sockets, r, s \in Sessions : Hosts(r, c) /\ Hosts(s, c) => r = s
  /\ \A t \in Threads : pc[t] = "send" => job[t].conn # NoSocket
  /\ \A c \in Sockets : Young(c) =>
       /\ \A s \in Sessions : ~Hosts(s, c)
       /\ accepted[c] = 0 /\ wire[c] = <<>>

\* m was accepted before n, if they are meant for one connection.
Before(m, n) == m.conn = n.conn => m.n < n.n
AcceptedIn(A, m) == m.conn # NoSocket /\ m.n \in 1..A[m.conn]

\* Queues Q and wires W hold accepted messages, each connection's in order, and
\* those on a wire are before those in a queue.
Ordered(Q, W, A) ==
  /\ \A s \in Sessions : \A i \in 1..Len(Q[s]) : AcceptedIn(A, Q[s][i])
  /\ \A c \in Sockets : \A i \in 1..Len(W[c]) : AcceptedIn(A, W[c][i])
  /\ \A s \in Sessions : \A i, j \in 1..Len(Q[s]) : i < j => Before(Q[s][i], Q[s][j])
  /\ \A c \in Sockets, s \in Sessions : \A i \in 1..Len(W[c]), j \in 1..Len(Q[s]) :
       Before(W[c][i], Q[s][j])
  /\ \A c \in Sockets : \A i, j \in 1..Len(W[c]) : i < j => Before(W[c][i], W[c][j])
  /\ \A c, d \in Sockets : \A i \in 1..Len(W[c]), j \in 1..Len(W[d]) :
       W[c][i] = W[d][j] => c = d /\ i = j

OrderInv == Ordered(sendQueue, wire, accepted)

\* sending_ is set and nobody will clear it.
Stuck(s) == sending[s] /\ Sends(s) = {} /\ ~\E t \in Threads : At(t, "sendDone", s)

\* A queue goes on after the first k messages of c, up to the a-th.
Follows(q, c, k, a) ==
  /\ \A i \in 1..Len(q) : q[i] = [conn |-> c, n |-> k + i]
  /\ a = k + Len(q)

ExactOK(s) ==
  /\ Exact(sock[s])
  /\ ~Stuck(s) => Follows(sendQueue[s], sock[s], Len(wire[sock[s]]), accepted[sock[s]])
  /\ \A t \in Threads : At(t, "send", s) => job[t].conn = sock[s]
ExactInv == \A s \in Sessions : FirstUse(s) /\ sock[s] # NoSocket /\ ~dry => ExactOK(s)

\* What a queue and the wires go through, whoever does it.

Queues   == [Sessions -> Seq(Jobs)]
Wires    == [Sockets -> Seq(Jobs)]
Counters == [Sockets \cup {NoSocket} -> Nat]

LEMMA TailFacts ==
  ASSUME NEW S, NEW q \in Seq(S), q # <<>>
  PROVE  /\ Tail(q) \in Seq(S) /\ Len(Tail(q)) = Len(q) - 1 /\ Len(q) \in Nat \ {0}
         /\ Head(q) = q[1] /\ 1 \in 1..Len(q) /\ q[1] \in S
         /\ \A i \in 1..Len(Tail(q)) : Tail(q)[i] = q[i + 1] /\ i + 1 \in 1..Len(q)
<1>1. Len(q) \in Nat \ {0}
  OBVIOUS
<1>2. /\ Tail(q) \in Seq(S) /\ Len(Tail(q)) = Len(q) - 1
      /\ Head(q) = q[1] /\ 1 \in 1..Len(q) /\ q[1] \in S
  BY <1>1
<1>3. \A i \in 1..Len(Tail(q)) : Tail(q)[i] = q[i + 1] /\ i + 1 \in 1..Len(q)
  BY <1>1, <1>2
<1>4. QED
  BY <1>1, <1>2, <1>3

\* A message is accepted for c and goes to the end of a queue.
LEMMA Enqueued ==
  ASSUME NEW Q \in Queues, NEW W \in Wires, NEW A \in Counters, NEW s \in Sessions,
         NEW c \in Sockets, NEW m \in Jobs, m.conn = c, m.n = A[c] + 1, Ordered(Q, W, A)
  PROVE  Ordered([Q EXCEPT ![s] = Append(Q[s], m)], W, [A EXCEPT ![c] = @ + 1])
<1> DEFINE P == [Q EXCEPT ![s] = Append(Q[s], m)]
           B == [A EXCEPT ![c] = @ + 1]
<1>1. /\ c # NoSocket /\ A[c] \in Nat /\ B[c] = A[c] + 1
      /\ \A d \in Sockets : A[d] \in Nat /\ B[d] \in Nat /\ A[d] <= B[d]
  BY DEF Counters, Sockets, NoSocket
<1>2. \A r \in Sessions : Q[r] \in Seq(Jobs) /\ (r # s => P[r] = Q[r])
  BY DEF Queues
<1>3. /\ Len(Q[s]) \in Nat /\ Len(P[s]) = Len(Q[s]) + 1 /\ P[s][Len(Q[s]) + 1] = m
      /\ \A i \in 1..Len(Q[s]) : P[s][i] = Q[s][i]
  BY <1>2, StackPush DEF Queues
<1>3a. \A d \in Sockets : W[d] \in Seq(Jobs) /\ Len(W[d]) \in Nat
  BY DEF Wires
<1> HIDE DEF P, B
<1>4. \A k : k \in Jobs /\ AcceptedIn(A, k) => AcceptedIn(B, k) /\ Before(k, m)
  <2>1. SUFFICES ASSUME NEW k \in Jobs, AcceptedIn(A, k) PROVE AcceptedIn(B, k) /\ Before(k, m)
    OBVIOUS
  <2>2. k.conn \in Sockets /\ k.n \in Nat /\ k.n \in 1..A[k.conn]
    BY <2>1 DEF Jobs, AcceptedIn
  <2>3. k.n \in 1..B[k.conn] /\ (k.conn = c => k.n < m.n)
    BY <1>1, <2>2
  <2>4. QED
    BY <2>1, <2>3 DEF AcceptedIn, Before
<1>5. AcceptedIn(B, m)
  BY <1>1 DEF AcceptedIn
<1>6. \A r \in Sessions : \A i \in 1..Len(P[r]) :
        \/ P[r][i] = m /\ r = s /\ i = Len(Q[s]) + 1
        \/ i \in 1..Len(Q[r]) /\ P[r][i] = Q[r][i] /\ Q[r][i] \in Jobs
  BY <1>2, <1>3
<1>7. \A r \in Sessions : \A i \in 1..Len(P[r]) : AcceptedIn(B, P[r][i])
  BY <1>4, <1>5, <1>6 DEF Ordered
<1>8. \A d \in Sockets : \A i \in 1..Len(W[d]) : AcceptedIn(B, W[d][i]) /\ Before(W[d][i], m)
  BY <1>3a, <1>4 DEF Ordered
<1>9. \A r \in Sessions : \A i, j \in 1..Len(P[r]) : i < j => Before(P[r][i], P[r][j])
  <2> SUFFICES ASSUME NEW r \in Sessions, NEW i \in 1..Len(P[r]), NEW j \in 1..Len(P[r]), i < j
               PROVE  Before(P[r][i], P[r][j])
    OBVIOUS
  <2>1. i \in 1..Len(Q[r]) /\ P[r][i] = Q[r][i] /\ Q[r][i] \in Jobs
    BY <1>2, <1>3, <1>6
  <2>2. CASE P[r][j] = m
    BY <1>4, <2>1, <2>2 DEF Ordered
  <2>3. CASE j \in 1..Len(Q[r]) /\ P[r][j] = Q[r][j]
    BY <2>1, <2>3 DEF Ordered
  <2>4. QED
    BY <1>6, <2>2, <2>3
<1>10. \A d \in Sockets, r \in Sessions : \A i \in 1..Len(W[d]), j \in 1..Len(P[r]) :
         Before(W[d][i], P[r][j])
  BY <1>6, <1>8 DEF Ordered
<1>11. QED
  BY <1>7, <1>8, <1>9, <1>10 DEF Ordered, P, B

\* The first message of a queue leaves it.
LEMMA Dropped ==
  ASSUME NEW Q \in Queues, NEW W \in Wires, NEW A \in Counters, NEW s \in Sessions, NEW q,
         q = <<>> \/ (Q[s] # <<>> /\ q = Tail(Q[s])), Ordered(Q, W, A)
  PROVE  Ordered([Q EXCEPT ![s] = q], W, A)
<1> DEFINE P == [Q EXCEPT ![s] = q]
<1>1. \A r \in Sessions : Q[r] \in Seq(Jobs) /\ Len(Q[r]) \in Nat /\ P[r] = IF r = s THEN q ELSE Q[r]
  BY DEF Queues
<1> HIDE DEF P
<1>2. \E k \in Nat : \A i \in 1..Len(q) : q[i] = Q[s][i + k] /\ i + k \in 1..Len(Q[s])
  <2>1. CASE q = <<>>
    BY <2>1
  <2>2. CASE Q[s] # <<>> /\ q = Tail(Q[s])
    BY <1>1, <2>2, TailFacts
  <2>3. QED
    BY <2>1, <2>2
<1>3. PICK k \in Nat : \A i \in 1..Len(q) : q[i] = Q[s][i + k] /\ i + k \in 1..Len(Q[s])
  BY <1>2
<1>3a. \A i \in 1..Len(q) : i \in Int
  OBVIOUS
<1>4. \A r \in Sessions : \A i \in 1..Len(P[r]) : AcceptedIn(A, P[r][i])
  BY <1>1, <1>3 DEF Ordered
<1>5. \A r \in Sessions : \A i, j \in 1..Len(P[r]) : i < j => Before(P[r][i], P[r][j])
  <2> SUFFICES ASSUME NEW r \in Sessions, NEW i \in 1..Len(P[r]), NEW j \in 1..Len(P[r]), i < j
               PROVE  Before(P[r][i], P[r][j])
    OBVIOUS
  <2>1. CASE r = s
    <3>1. P[r] = q /\ i \in 1..Len(q) /\ j \in 1..Len(q)
      BY <1>1, <2>1
    <3>2. /\ i + k \in 1..Len(Q[s]) /\ q[i] = Q[s][i + k]
          /\ j + k \in 1..Len(Q[s]) /\ q[j] = Q[s][j + k]
      BY <1>3, <3>1
    <3>3. i \in Int /\ j \in Int /\ k \in Int
      BY <1>3a, <3>1
    <3>4. i + k < j + k
      BY <3>3
    <3>5. Before(Q[s][i + k], Q[s][j + k])
      BY <3>2, <3>4 DEF Ordered
    <3>6. QED
      BY <3>1, <3>2, <3>5
  <2>2. CASE r # s
    BY <1>1, <2>2 DEF Ordered
  <2>3. QED
    BY <2>1, <2>2
<1>6. \A d \in Sockets, r \in Sessions : \A i \in 1..Len(W[d]), j \in 1..Len(P[r]) :
        Before(W[d][i], P[r][j])
  BY <1>1, <1>3 DEF Ordered
<1>7. QED
  BY <1>4, <1>5, <1>6 DEF Ordered, P

\* It goes to a wire; no other queue holds messages of its connection.
LEMMA Posted ==
  ASSUME NEW Q \in Queues, NEW W \in Wires, NEW A \in Counters, NEW s \in Sessions, NEW d \in Sockets,
         NEW m, Q[s] # <<>>, m = Head(Q[s]),
         \A r \in Sessions \ {s} : \A j \in 1..Len(Q[r]) : Q[r][j].conn # m.conn,
         Ordered(Q, W, A)
  PROVE  Ordered([Q EXCEPT ![s] = Tail(Q[s])], [W EXCEPT ![d] = Append(W[d], m)], A)
<1> DEFINE P == [Q EXCEPT ![s] = Tail(Q[s])]
           V == [W EXCEPT ![d] = Append(W[d], m)]
<1>1. Ordered(P, W, A)
  BY Dropped
<1>2. \A r \in Sessions : Q[r] \in Seq(Jobs) /\ P[r] = IF r = s THEN Tail(Q[s]) ELSE Q[r]
  BY DEF Queues
<1>3. /\ m = Q[s][1] /\ 1 \in 1..Len(Q[s]) /\ m \in Jobs
      /\ \A i \in 1..Len(Tail(Q[s])) : Tail(Q[s])[i] = Q[s][i + 1] /\ i + 1 \in 1..Len(Q[s]) /\ 1 < i + 1
  BY <1>2, TailFacts
<1>4. \A e \in Sockets : W[e] \in Seq(Jobs) /\ Len(W[e]) \in Nat /\ (e # d => V[e] = W[e])
  BY DEF Wires
<1>5. /\ Len(V[d]) = Len(W[d]) + 1 /\ V[d][Len(W[d]) + 1] = m
      /\ \A i \in 1..Len(W[d]) : V[d][i] = W[d][i]
  BY <1>3, <1>4, StackPush DEF Wires
<1> HIDE DEF P, V
<1>6. \A e \in Sockets : \A i \in 1..Len(V[e]) :
        \/ V[e][i] = m /\ e = d /\ i = Len(W[d]) + 1
        \/ i \in 1..Len(W[e]) /\ V[e][i] = W[e][i]
  BY <1>4, <1>5
<1>6a. ASSUME NEW e \in Sockets, NEW i \in 1..Len(V[e]), V[e][i] # m
       PROVE  i \in 1..Len(W[e]) /\ V[e][i] = W[e][i]
  BY <1>6, <1>6a
<1>7. AcceptedIn(A, m)
  BY <1>3 DEF Ordered
<1>8. \A e \in Sockets : \A i \in 1..Len(W[e]) : Before(W[e][i], m) /\ W[e][i] # m
  <2> SUFFICES ASSUME NEW e \in Sockets, NEW i \in 1..Len(W[e])
               PROVE  Before(W[e][i], m) /\ W[e][i] # m
    OBVIOUS
  <2>1. Before(W[e][i], m)
    BY <1>3 DEF Ordered
  <2>2. m.n \in Nat
    BY <1>3 DEF Jobs
  <2>3. QED
    BY <2>1, <2>2 DEF Before
<1>9. \A r \in Sessions : \A j \in 1..Len(P[r]) : Before(m, P[r][j])
  <2> SUFFICES ASSUME NEW r \in Sessions, NEW j \in 1..Len(P[r])
               PROVE  Before(m, P[r][j])
    OBVIOUS
  <2>1. CASE r = s
    <3>1. P[r] = Tail(Q[s]) /\ j \in 1..Len(Tail(Q[s]))
      BY <1>2, <2>1
    <3>2. Tail(Q[s])[j] = Q[s][j + 1] /\ j + 1 \in 1..Len(Q[s]) /\ 1 < j + 1
      BY <1>3, <3>1
    <3>3. Before(Q[s][1], Q[s][j + 1])
      BY <1>3, <3>2 DEF Ordered
    <3>4. QED
      BY <1>3, <3>1, <3>2, <3>3
  <2>2. CASE r # s
    BY <1>2, <2>2 DEF Before
  <2>3. QED
    BY <2>1, <2>2
<1>10. \A e \in Sockets : \A i \in 1..Len(V[e]) : AcceptedIn(A, V[e][i])
  BY <1>1, <1>6, <1>7 DEF Ordered
<1>11. \A e \in Sockets, r \in Sessions : \A i \in 1..Len(V[e]), j \in 1..Len(P[r]) :
         Before(V[e][i], P[r][j])
  BY <1>1, <1>6, <1>9 DEF Ordered
<1>12. \A e \in Sockets : \A i, j \in 1..Len(V[e]) : i < j => Before(V[e][i], V[e][j])
  <2> SUFFICES ASSUME NEW e \in Sockets, NEW i \in 1..Len(V[e]), NEW j \in 1..Len(V[e]), i < j
               PROVE  Before(V[e][i], V[e][j])
    OBVIOUS
  <2>1. i \in 1..Len(W[e]) /\ V[e][i] = W[e][i]
    BY <1>4, <1>5, <1>6
  <2>2. CASE V[e][j] = m
    BY <1>8, <2>1, <2>2
  <2>3. CASE j \in 1..Len(W[e]) /\ V[e][j] = W[e][j]
    BY <1>1, <2>1, <2>3 DEF Ordered
  <2>4. QED
    BY <1>6, <2>2, <2>3
<1>12a. \A e, f \in Sockets : \A i \in 1..Len(W[e]), j \in 1..Len(W[f]) :
          W[e][i] = W[f][j] => e = f /\ i = j
  BY <1>1 DEF Ordered
<1>13. \A e, f \in Sockets : \A i \in 1..Len(V[e]), j \in 1..Len(V[f]) :
         V[e][i] = V[f][j] => e = f /\ i = j
  <2> SUFFICES ASSUME NEW e \in Sockets, NEW f \in Sockets, NEW i \in 1..Len(V[e]), NEW j \in 1..Len(V[f]),
                      V[e][i] = V[f][j]
               PROVE  e = f /\ i = j
    OBVIOUS
  <2>1. CASE V[e][i] = m /\ e = d /\ i = Len(W[d]) + 1
    BY <1>6, <1>8, <2>1
  <2>2. CASE i \in 1..Len(W[e]) /\ V[e][i] = W[e][i]
    <3>1. W[e][i] # m
      BY <1>8, <2>2
    <3>1a. V[f][j] # m
      BY <2>2, <3>1
    <3>1b. j \in 1..Len(W[f]) /\ V[f][j] = W[f][j]
      BY <1>6a, <3>1a
    <3>2. W[e][i] = W[f][j]
      BY <2>2, <3>1b
    <3>3. QED
      BY <1>12a, <2>2, <3>1b, <3>2
  <2>3. QED
    BY <1>6, <2>1, <2>2
<1>14. QED
  BY <1>1, <1>10, <1>11, <1>12, <1>13 DEF Ordered, P, V

\* Queues that are emptied stay in order.
LEMMA Emptied ==
  ASSUME NEW Q, NEW P, NEW W, NEW A, Ordered(Q, W, A),
         \A s \in Sessions : P[s] = Q[s] \/ P[s] = <<>>
  PROVE  Ordered(P, W, A)
<1>1. \A s \in Sessions : \A i \in 1..Len(P[s]) : i \in 1..Len(Q[s]) /\ P[s][i] = Q[s][i]
  <2>1. Len(<<>>) = 0
    OBVIOUS
  <2>2. QED
    BY <2>1
<1>2. QED
  BY <1>1 DEF Ordered

\* The step gives session s no message, no socket and no more to send.
Passive(s) ==
  /\ sock'[s] \in {sock[s], NoSocket}
  /\ sendQueue'[s] = sendQueue[s] \/ (sendQueue'[s] = <<>> /\ sock'[s] = NoSocket)
  /\ sock'[s] = NoSocket \/ sending'[s] = sending[s]
  /\ Sends(s)' \subseteq Sends(s)
  /\ \A u \in Threads : At(u, "send", s)' =>
       \/ At(u, "send", s) /\ job'[u] = job[u]
       \/ sock[s] # NoSocket /\ job'[u].conn = sock[s]
  /\ \A u \in Threads : At(u, "sendDone", s)' => At(u, "sendDone", s) \/ Sends(s) # {}

NoneYounger == \A c \in Sockets : Young(c)' => Young(c)

Silent ==
  /\ \A s \in Sessions : Passive(s)
  /\ NoneYounger
  /\ wire' = wire /\ accepted' = accepted

LEMMA PassiveHosts ==
  ASSUME NEW s \in Sessions, NEW c \in Sockets, Passive(s), Hosts(s, c)'
  PROVE  Hosts(s, c)
<1>1. c # NoSocket /\ Len(<<>>) = 0
  BY DEF Sockets, NoSocket
<1>2. CASE sock'[s] = c
  BY <1>1, <1>2 DEF Passive, Hosts
<1>3. CASE \E t \in Threads : At(t, "send", s)' /\ job'[t].conn = c
  BY <1>1, <1>3 DEF Passive, Hosts
<1>4. CASE \E i \in 1..Len(sendQueue'[s]) : sendQueue'[s][i].conn = c
  <2>1. sendQueue'[s] = sendQueue[s]
    BY <1>1, <1>4 DEF Passive
  <2>2. QED
    BY <1>4, <2>1 DEF Hosts
<1>5. QED
  BY <1>2, <1>3, <1>4 DEF Hosts

\* A session that stays passive, on a connection whose messages stay as they are.
LEMMA PassiveExact ==
  ASSUME NEW s \in Sessions, Passive(s), ExactOK(s), sock'[s] # NoSocket,
         wire'[sock[s]] = wire[sock[s]], accepted'[sock[s]] = accepted[sock[s]]
  PROVE  ExactOK(s)'
<1>1. sock'[s] = sock[s] /\ sendQueue'[s] = sendQueue[s] /\ sending'[s] = sending[s]
  BY DEF Passive
<1>2. PICK c : c = sock[s]
  OBVIOUS
<1>3. wire'[c] = wire[c] /\ accepted'[c] = accepted[c] /\ sock'[s] = c
  BY <1>1, <1>2
<1>4. Exact(c)'
  <2>1. Exact(c)
    BY <1>2 DEF ExactOK
  <2>2. QED
    BY <1>3, <2>1 DEF Exact
<1>5. Stuck(s) => Stuck(s)'
  BY <1>1 DEF Stuck, Passive
<1>6. ~Stuck(s)' => Follows(sendQueue'[s], c, Len(wire'[c]), accepted'[c])
  BY <1>1, <1>2, <1>3, <1>5 DEF ExactOK
<1>7. \A t \in Threads : At(t, "send", s)' => job'[t].conn = c
  BY <1>2 DEF ExactOK, Passive
<1>8. QED
  BY <1>3, <1>4, <1>6, <1>7 DEF ExactOK

LEMMA SendJobs ==
  ASSUME GroundInv', HostInv, \A s \in Sessions : Passive(s)
  PROVE  \A t \in Threads : pc'[t] = "send" => job'[t].conn # NoSocket
<1>1. SUFFICES ASSUME NEW t \in Threads, pc'[t] = "send" PROVE job'[t].conn # NoSocket
  OBVIOUS
<1>2. ControlInv' /\ ControlTypes'
  BY DEF GroundInv, KeepInv, LifeInv, PoolInv, TypeOK
<1>3. cur'[t] \in Sessions
  BY <1>1, <1>2 DEF ControlInv, ControlOK, AwayLabels, ControlTypes
<1>4. QED
  BY <1>1, <1>3 DEF Passive, At, HostInv

LEMMA SilentKeeps ==
  ASSUME GroundInv, GroundInv', HostInv, OrderInv, ExactInv, Silent,
         Counts \/ UNCHANGED <<uses, dry>>
  PROVE  HostInv' /\ OrderInv' /\ ExactInv'
<1>1. \A s \in Sessions, c \in Sockets : Hosts(s, c)' => Hosts(s, c)
  BY PassiveHosts DEF Silent
<1>2. HostInv'
  <2>1. \A c \in Sockets, r, s \in Sessions : Hosts(r, c)' /\ Hosts(s, c)' => r = s
    BY <1>1 DEF HostInv
  <2>2. \A c \in Sockets : Young(c)' =>
          (\A s \in Sessions : ~Hosts(s, c)') /\ accepted'[c] = 0 /\ wire'[c] = <<>>
    BY <1>1 DEF HostInv, Silent, NoneYounger
  <2>3. QED
    BY <2>1, <2>2, SendJobs DEF HostInv, Silent
<1>3. OrderInv'
  BY Emptied DEF OrderInv, Silent, Passive
<1>4. ExactInv'
  <2>1. SUFFICES ASSUME NEW s \in Sessions, FirstUse(s)', sock'[s] # NoSocket, ~dry'
                 PROVE  ExactOK(s)'
    BY DEF ExactInv
  <2>2. FirstUse(s) /\ ~dry
    <3>1. CASE Counts
      BY <2>1, <3>1, UsesGrow, GroundFacts
    <3>2. CASE UNCHANGED <<uses, dry>>
      BY <2>1, <3>2 DEF FirstUse
    <3>3. QED
      BY <3>1, <3>2
  <2>3. sock[s] # NoSocket
    BY <2>1 DEF Silent, Passive
  <2>4. QED
    BY <2>1, <2>2, <2>3, PassiveExact DEF ExactInv, Silent
<1>5. QED
  BY <1>2, <1>3, <1>4

\* A thread that goes neither to Send nor to OnSendCompleted.
SendsNothing(t) == OnlyMoves(t) /\ pc'[t] \notin {"send", "sendDone"} /\ job' = job

LEMMA MovesAway ==
  ASSUME ControlTypes, ControlInv, NEW t \in Threads, job' = job,
         \/ Return(t)
         \/ \E l \in Labels \ {"send", "sendDone"} :
              Goto(t, l) \/ (\E s : Begin(t, l, s)) \/ (\E r : Call(t, l, r))
  PROVE  SendsNothing(t)
<1>1. CASE Return(t)
  BY <1>1, ReturnMoves DEF SendsNothing, Returned
<1>2. ASSUME NEW l \in Labels \ {"send", "sendDone"},
             Goto(t, l) \/ (\E s : Begin(t, l, s)) \/ (\E r : Call(t, l, r))
      PROVE  SendsNothing(t)
  BY <1>2, GotoMoves, BeginMoves, CallMoves DEF SendsNothing
<1>3. QED
  BY <1>1, <1>2

LEMMA Idles ==
  ASSUME NEW t \in Threads, SendsNothing(t) \/ UNCHANGED <<pc, cur, job>>, NEW s \in Sessions
  PROVE  /\ \A u \in Threads : At(u, "send", s)' => At(u, "send", s) /\ job'[u] = job[u]
         /\ \A u \in Threads : At(u, "sendDone", s)' => At(u, "sendDone", s)
BY DEF SendsNothing, OnlyMoves, At

\* Nobody gets a new socket, but out of the hands of PostAccept.
LEMMA Elder ==
  ASSUME KernelTypes, \A t \in Threads : csock'[t] \in {csock[t], acceptSock, nextSock, NoSocket},
         acceptSock' \in {acceptSock, nextSock, NoSocket}, nextSock' \in {nextSock, nextSock + 1}
  PROVE  NoneYounger
<1>1. SUFFICES ASSUME NEW c \in Sockets, Young(c)' PROVE Young(c)
  BY DEF NoneYounger
<1>2. c # NoSocket /\ c \in Nat /\ nextSock \in Nat
  BY DEF Sockets, NoSocket, KernelTypes
<1>3. CASE c >= nextSock'
  BY <1>2, <1>3 DEF Young
<1>4. CASE acceptSock' = c
  BY <1>2, <1>4 DEF Young
<1>5. CASE \E t \in Threads : csock'[t] = c
  BY <1>2, <1>5 DEF Young
<1>6. QED
  BY <1>1, <1>3, <1>4, <1>5 DEF Young

LEMMA SameYoung == UNCHANGED <<csock, acceptSock, nextSock>> => NoneYounger
BY DEF NoneYounger, Young

silentVars == <<wire, accepted, job>>

LEMMA SilentSession ==
  ASSUME GroundInv, NEW t \in Threads, UNCHANGED serverVars, SessionNext(t),
         ~SendLocked(t), ~SendNext(t)
  PROVE  Silent
<1> USE DEF fieldVars, threadVars, kernelVars, ghostVars
<1>1. ControlTypes /\ ControlInv /\ FieldTypes
  BY GroundFacts
<1>2. /\ UNCHANGED silentVars /\ UNCHANGED <<csock, acceptSock, nextSock>>
      /\ \A o \in ops' : o \in ops \/ o.kind # "send"
  BY DEF SessionNext, NullOwner, DisconnectLoses, DisconnectWins, CloseSocket, ReleaseDisconnects,
     ReleaseWipes, ResetSession, RelockHangs, ReturnToPool, PostRecvNoBuffer, PostRecvAcquires,
     PostRecvSetsUp, PostRecvCall, Unlock,
     PacketsProcessed, silentVars, serverVars
<1>3. SendsNothing(t) \/ UNCHANGED <<pc, cur, job>>
  <2>1. CASE NullOwner(t)
    BY <2>1 DEF NullOwner
  <2>2. CASE ~NullOwner(t)
    <3>1. \/ Return(t)
          \/ \E l \in {"close", "release", "reset", "push", "hung",
                   "disconnect", "postRecv", "setup", "receive"} : Goto(t, l)
          \/ Call(t, "close", "wipe")
      BY <2>2 DEF SessionNext, DisconnectLoses, DisconnectWins, CloseSocket, ReleaseDisconnects,
         ReleaseWipes, ResetSession, RelockHangs, ReturnToPool, PostRecvNoBuffer, PostRecvAcquires,
         PostRecvSetsUp, PostRecvCall, Unlock,
         PacketsProcessed, TryPostRecv
    <3>2. QED
      BY <1>1, <1>2, <3>1, MovesAway DEF silentVars, Labels, ReturnLabels
  <2>3. QED
    BY <2>1, <2>2
<1>4. ASSUME NEW s \in Sessions PROVE Passive(s)
  <2>1. /\ sock'[s] \in {sock[s], NoSocket}
        /\ sendQueue'[s] = sendQueue[s] \/ (sendQueue'[s] = <<>> /\ sock'[s] = NoSocket)
        /\ sock'[s] = NoSocket \/ sending'[s] = sending[s]
    <3>1. CASE ResetSession(t)
      <4>1. PICK r \in Sessions : At(t, "reset", r) /\ ResetMembers(r) /\ UNCHANGED <<sock, sending>>
        BY <3>1 DEF ResetSession
      <4>2. sock[r] = NoSocket
        BY <4>1 DEF GroundInv, FreeInv, CleanInv, Wiped
      <4>3. sendQueue'[s] = IF s = r THEN <<>> ELSE sendQueue[s]
        BY <1>1, <4>1 DEF ResetMembers, FieldTypes
      <4>4. QED
        BY <4>1, <4>2, <4>3
    <3>2. CASE CloseSocket(t) \/ ReleaseWipes(t)
      BY <1>1, <3>2 DEF CloseSocket, ReleaseWipes, WipeFields, FieldTypes
    <3>3. CASE ~ResetSession(t) /\ ~CloseSocket(t) /\ ~ReleaseWipes(t)
      <4>1. UNCHANGED <<sock, sendQueue, sending>>
        BY <3>3 DEF SessionNext, NullOwner, DisconnectLoses, DisconnectWins, ReleaseDisconnects,
           RelockHangs, ReturnToPool, PostRecvNoBuffer, PostRecvAcquires,
           PostRecvSetsUp, PostRecvCall, Unlock, PacketsProcessed
      <4>2. QED
        BY <4>1
    <3>4. QED
      BY <3>1, <3>2, <3>3
  <2>2. Sends(s)' \subseteq Sends(s)
    BY <1>2 DEF Sends, OpsOf
  <2>3. QED
    BY <1>3, <2>1, <2>2, Idles DEF Passive
<1>5. QED
  BY <1>2, <1>4, SameYoung DEF Silent, silentVars

LEMMA SilentServer ==
  ASSUME GroundInv, NEW t \in Threads,
         \/ PoolExhausted(t) \/ Associate(t) \/ ForgetBuffer(t) \/ WorkerLoops(t) \/ WorkerBreaks(t)
         \/ Completes(t) \/ Chooses(t)
  PROVE  Silent
<1> USE DEF poolVars, fieldVars, threadVars, kernelVars, ghostVars, serverVars
<1>1. ControlTypes /\ ControlInv /\ FieldTypes /\ KernelTypes /\ LocalTypes
  BY GroundFacts DEF TypeOK
<1>2. /\ UNCHANGED <<wire, accepted, sock, sendQueue, sending>>
      /\ \A o \in ops' : o \in ops \/ o.kind # "send"
  BY DEF PoolExhausted, Associate, ForgetBuffer, WorkerLoops, WorkerBreaks, Completes, AcceptCompletes,
     PostAccept, DropCompletion, CompletionNullOwner, Takes, RecvEnds, RecvDelivers, SendCompletes,
     Chooses, AppConnects, AppSends, AppDisconnects, HandlerSends, HandlerDisconnects
<1>3. NoneYounger
  <2>1. CASE PoolExhausted(t) \/ AcceptCompletes(t) \/ AppConnects(t)
    <3>1. /\ \A u \in Threads : csock'[u] \in {csock[u], acceptSock, nextSock, NoSocket}
          /\ acceptSock' \in {acceptSock, nextSock, NoSocket} /\ nextSock' \in {nextSock, nextSock + 1}
      BY <1>1, <2>1 DEF PoolExhausted, AcceptCompletes, AppConnects, PostAccept, LocalTypes
    <3>2. QED
      BY <1>1, <3>1, Elder
  <2>2. CASE ~PoolExhausted(t) /\ ~AcceptCompletes(t) /\ ~AppConnects(t)
    <3>1. UNCHANGED <<csock, acceptSock, nextSock>>
      BY <2>2 DEF Associate, ForgetBuffer, WorkerLoops, WorkerBreaks, Completes,
         DropCompletion, CompletionNullOwner, Takes, RecvEnds, RecvDelivers, SendCompletes,
         Chooses, AppSends, AppDisconnects, HandlerSends, HandlerDisconnects
    <3>2. QED
      BY <3>1, SameYoung
  <2>3. QED
    BY <2>1, <2>2
<1>4. ASSUME NEW s \in Sessions
      PROVE  /\ \A u \in Threads : At(u, "send", s)' =>
                  \/ At(u, "send", s) /\ job'[u] = job[u]
                  \/ sock[s] # NoSocket /\ job'[u].conn = sock[s]
             /\ \A u \in Threads : At(u, "sendDone", s)' => At(u, "sendDone", s) \/ Sends(s) # {}
  <2>1. CASE HandlerSends(t) \/ AppSends(t)
    <3>1. PICK r \in Sessions : /\ connected[r] /\ job' = [job EXCEPT ![t] = [conn |-> sock[r], n |-> 0]]
                                /\ (At(t, "process", r) /\ Call(t, "send", "process")) \/ Begin(t, "send", r)
      BY <2>1 DEF HandlerSends, AppSends, BeginsSend
    <3>2. OnlyMoves(t) /\ pc'[t] = "send" /\ cur'[t] = r
      BY <1>1, <3>1, CallMoves, BeginMoves DEF At
    <3>3. sock[r] # NoSocket /\ job'[t].conn = sock[r] /\ \A u \in Threads \ {t} : job'[u] = job[u]
      BY <1>1, <3>1, GroundFacts DEF SocketInv, LocalTypes
    <3>4. QED
      BY <3>2, <3>3 DEF At, OnlyMoves
  <2>2. CASE SendCompletes(t)
    <3>1. PICK o \in ops : o.kind = "send" /\ Begin(t, "sendDone", o.s) /\ job' = job
      BY <2>2 DEF SendCompletes
    <3>2. OnlyMoves(t) /\ pc'[t] = "sendDone" /\ cur'[t] = o.s
      BY <1>1, <3>1, BeginMoves
    <3>3. o \in Sends(o.s)
      BY <3>1 DEF Sends, OpsOf
    <3>4. QED
      BY <3>1, <3>2, <3>3 DEF At, OnlyMoves
  <2>3. CASE ~HandlerSends(t) /\ ~AppSends(t) /\ ~SendCompletes(t)
    <3>1. job' = job
      BY <2>3 DEF PoolExhausted, Associate, ForgetBuffer, WorkerLoops, WorkerBreaks, Completes,
         AcceptCompletes, DropCompletion, CompletionNullOwner, RecvEnds, RecvDelivers,
         Chooses, AppConnects, AppDisconnects, HandlerDisconnects
    <3>2. \/ Return(t) \/ UNCHANGED <<pc, cur>>
          \/ \E l \in {"forget", "postRecv", "wait", "exited", "acquire", "idle"} : Goto(t, l)
          \/ \E r : \E l \in {"disconnect", "process"} : Begin(t, l, r)
          \/ Call(t, "disconnect", "process")
      BY <2>3 DEF PoolExhausted, Associate, ForgetBuffer, WorkerLoops, WorkerBreaks, Completes,
         AcceptCompletes, DropCompletion, CompletionNullOwner, RecvEnds, RecvDelivers,
         Chooses, AppConnects, AppDisconnects, HandlerDisconnects, TryPostRecv
    <3>3. SendsNothing(t) \/ UNCHANGED <<pc, cur, job>>
      BY <1>1, <3>1, <3>2, MovesAway DEF Labels, ReturnLabels
    <3>4. QED
      BY <3>3, Idles
  <2>4. QED
    BY <2>1, <2>2, <2>3
<1>5. ASSUME NEW s \in Sessions PROVE Passive(s)
  <2>1. Sends(s)' \subseteq Sends(s)
    BY <1>2 DEF Sends, OpsOf
  <2>2. QED
    BY <1>2, <1>4, <2>1 DEF Passive
<1>6. QED
  BY <1>2, <1>3, <1>5 DEF Silent

LEMMA SilentRest ==
  ASSUME GroundInv, Start \/ Stop \/ Joined \/ UNCHANGED slotVars
  PROVE  Silent
<1> USE DEF poolVars, fieldVars, threadVars, kernelVars, ghostVars, serverVars
<1>1. /\ UNCHANGED <<wire, accepted, sock, sendQueue, sending, pc, cur, job, csock>>
      /\ \A o \in ops' : o \in ops \/ o.kind # "send"
      /\ acceptSock' \in {acceptSock, nextSock, NoSocket} /\ nextSock' \in {nextSock, nextSock + 1}
  BY DEF Start, Stop, Joined, PostAccept, slotVars, vars
<1>2. NoneYounger
  BY <1>1, Elder, GroundFacts
<1>3. ASSUME NEW s \in Sessions PROVE Passive(s)
  <2>1. Sends(s)' \subseteq Sends(s)
    BY <1>1 DEF Sends, OpsOf
  <2>2. QED
    BY <1>1, <2>1 DEF Passive, At
<1>4. QED
  BY <1>1, <1>2, <1>3 DEF Silent

\* A session takes a socket nobody had before, and an empty queue.
LEMMA AcquireOrders ==
  ASSUME GroundInv, GroundInv', HostInv, OrderInv, ExactInv, Counts, NEW t \in Threads, AcquireSession(t)
  PROVE  HostInv' /\ OrderInv' /\ ExactInv'
<1>1. PICK s \in Sessions :
        /\ Clean(s) /\ ~connected[s] /\ connected'[s] /\ ~sending'[s] /\ sock'[s] = csock[t]
        /\ \A r \in Sessions \ {s} : sock'[r] = sock[r] /\ sending'[r] = sending[r]
        /\ UNCHANGED <<sendQueue, ops, job>>
        /\ OnlyMoves(t) /\ pc[t] = "acquire" /\ pc'[t] = "associate" /\ cur'[t] = s
  BY Acquires
<1>2. /\ wire' = wire /\ accepted' = accepted /\ acceptSock' = acceptSock /\ nextSock' = nextSock
      /\ csock' = [csock EXCEPT ![t] = NoSocket]
  BY DEF AcquireSession, ghostVars, serverVars, kernelVars
<1>3. PICK c : c = csock[t]
  OBVIOUS
<1>4. /\ LocalTypes /\ KernelTypes /\ SocketTypes /\ KeepersInv /\ FieldTypes
      /\ c \in Sockets /\ c # NoSocket /\ nextSock \in Nat
  <2>1. LocalTypes /\ KernelTypes /\ SocketTypes /\ KeepersInv /\ FieldTypes
    BY GroundFacts DEF GroundInv, KeepInv, TypeOK
  <2>2. c # NoSocket
    BY <1>1, <1>3 DEF GroundInv, KeepInv, LifeInv, AcceptInv
  <2>3. QED
    BY <1>3, <2>1, <2>2 DEF LocalTypes, KernelTypes
<1>5. Young(c)
  BY <1>3 DEF Young
<1>6. \A u \in Threads, r \in Sessions :
        /\ At(u, "send", r)' => At(u, "send", r)
        /\ At(u, "sendDone", r)' => At(u, "sendDone", r)
  BY <1>1 DEF At, OnlyMoves
<1>7. \A d \in Sockets : Young(d)' => Young(d) /\ d # c
  <2>1. SUFFICES ASSUME NEW d \in Sockets, Young(d)' PROVE Young(d) /\ d # c
    OBVIOUS
  <2>2. d # NoSocket /\ d \in Nat
    BY DEF Sockets, NoSocket
  <2>3. c \in open /\ c < nextSock /\ c # acceptSock /\ \A u \in Threads \ {t} : csock[u] # c
    BY <1>3, <1>4 DEF KeepersInv, SocketTypes
  <2>4. \A u \in Threads : csock'[u] = IF u = t THEN NoSocket ELSE csock[u]
    BY <1>2, <1>4 DEF LocalTypes
  <2>5. CASE d >= nextSock
    <3>1. d # c
      BY <1>4, <2>2, <2>3, <2>5 DEF Sockets
    <3>2. QED
      BY <2>5, <3>1 DEF Young
  <2>6. CASE acceptSock = d
    BY <2>3, <2>6 DEF Young
  <2>7. CASE \E u \in Threads : csock'[u] = d
    BY <2>2, <2>3, <2>4, <2>7 DEF Young
  <2>8. QED
    BY <1>2, <2>1, <2>5, <2>6, <2>7 DEF Young
<1>8. \A r \in Sessions, d \in Sockets : Hosts(r, d)' => Hosts(r, d) \/ (r = s /\ d = c)
  BY <1>1, <1>3, <1>6 DEF Hosts
<1>9. HostInv'
  <2>1. ASSUME NEW d \in Sockets, NEW r \in Sessions, NEW q \in Sessions, Hosts(r, d)', Hosts(q, d)'
        PROVE  r = q
    <3>1. (Hosts(r, d) \/ (r = s /\ d = c)) /\ (Hosts(q, d) \/ (q = s /\ d = c))
      BY <1>8, <2>1
    <3>2. \A p \in Sessions : ~Hosts(p, c)
      BY <1>4, <1>5 DEF HostInv
    <3>3. QED
      BY <3>1, <3>2 DEF HostInv
  <2>2. \A u \in Threads : pc'[u] = "send" => job'[u].conn # NoSocket
    <3>1. \A u \in Threads : pc'[u] = "send" => pc[u] = "send"
      BY <1>1 DEF OnlyMoves
    <3>2. QED
      BY <1>1, <3>1 DEF HostInv
  <2>3. \A d \in Sockets : Young(d)' =>
          (\A r \in Sessions : ~Hosts(r, d)') /\ accepted'[d] = 0 /\ wire'[d] = <<>>
    BY <1>2, <1>7, <1>8 DEF HostInv
  <2>4. QED
    BY <2>1, <2>2, <2>3 DEF HostInv
<1>10. OrderInv'
  BY <1>1, <1>2 DEF OrderInv
<1>11. ExactInv'
  <2>1. ASSUME NEW r \in Sessions, r # s, FirstUse(r)', sock'[r] # NoSocket, ~dry'
        PROVE  ExactOK(r)'
    <3>1. FirstUse(r) /\ ~dry
      BY <2>1, UsesGrow, GroundFacts
    <3>2. Passive(r)
      BY <1>1, <1>6, <2>1 DEF Passive, Sends, OpsOf
    <3>3. QED
      BY <1>1, <1>2, <2>1, <3>1, <3>2, PassiveExact DEF ExactInv
  <2>2. ASSUME FirstUse(s)' PROVE ExactOK(s)'
    <3>1. \A u \in Threads : cur[u] # s
      BY <1>1, <2>2, UsesGrow, GroundFacts, FreshSlot
    <3>2. accepted'[c] = 0 /\ wire'[c] = <<>> /\ sendQueue'[s] = <<>> /\ sock'[s] = c
      BY <1>1, <1>2, <1>3, <1>4, <1>5 DEF HostInv, Clean
    <3>3. Exact(c)' /\ Len(<<>>) = 0
      BY <3>2 DEF Exact
    <3>4. Follows(<<>>, c, 0, 0)
      BY <3>3 DEF Follows
    <3>5. \A u \in Threads : ~At(u, "send", s)'
      BY <1>6, <3>1 DEF At
    <3>6. QED
      BY <3>2, <3>3, <3>4, <3>5 DEF ExactOK
  <2>3. QED
    BY <2>1, <2>2 DEF ExactInv
<1>12. QED
  BY <1>9, <1>10, <1>11

\* What PostSend takes from queue q and where it puts it.
Popped(t, s, q) ==
  /\ sendQueue' = [sendQueue EXCEPT ![s] = Tail(q)]
  /\ q # <<>> /\ owner[s]

LEMMA PostMoves ==
  ASSUME GroundInv, NEW t \in Threads, NEW s \in Sessions, NEW q, NEW f, PostSend(t, s, q, f)
  PROVE  /\ OnlyMoves(t) /\ pc'[t] \notin {"send", "sendDone"}
         /\ sendQueue' = [sendQueue EXCEPT ![s] = q] \/ Popped(t, s, q)
         /\ \/ wire' = wire
            \/ /\ Popped(t, s, q) /\ sock[s] \in Sockets
               /\ wire' = [wire EXCEPT ![sock[s]] = Append(wire[sock[s]], Head(q))]
<1>1. ControlTypes /\ ControlInv /\ FieldTypes /\ KernelTypes
  BY GroundFacts
<1>2. Return(t) \/ Call(t, "disconnect", "unlock")
  BY DEF PostSend
<1>3. OnlyMoves(t) /\ pc'[t] \notin {"send", "sendDone"}
  BY <1>1, <1>2, ReturnMoves, CallMoves DEF Returned
<1>4. sendQueue' = [sendQueue EXCEPT ![s] = q] \/ Popped(t, s, q)
  BY DEF PostSend, Popped
<1>5. \/ wire' = wire
      \/ /\ Popped(t, s, q) /\ sock[s] \in open
         /\ wire' = [wire EXCEPT ![sock[s]] = Append(wire[sock[s]], Head(q))]
  BY DEF PostSend, Popped, Pends
<1>6. QED
  BY <1>1, <1>3, <1>4, <1>5 DEF KernelTypes

\* q is the queue of s and perhaps one more message, of a connection s hosts.
LEMMA PostHosts ==
  ASSUME GroundInv, HostInv, NEW t \in Threads, NEW s \in Sessions, NEW q \in Seq(Jobs),
         NEW A, Ordered([sendQueue EXCEPT ![s] = q], wire, A), A \in Counters,
         \A i \in 1..Len(q) : q[i].conn \in Sockets => Hosts(s, q[i].conn),
         \/ sendQueue' = [sendQueue EXCEPT ![s] = q]
         \/ Popped(t, s, q),
         \/ wire' = wire
         \/ /\ Popped(t, s, q) /\ sock[s] \in Sockets
            /\ wire' = [wire EXCEPT ![sock[s]] = Append(wire[sock[s]], Head(q))]
  PROVE  /\ Ordered(sendQueue', wire', A)
         /\ \A r \in Sessions : \A i \in 1..Len(sendQueue'[r]) :
              sendQueue'[r][i].conn \in Sockets => Hosts(r, sendQueue'[r][i].conn)
<1> DEFINE Q == [sendQueue EXCEPT ![s] = q]
<1>1. sendQueue \in Queues /\ wire \in Wires
  BY GroundFacts DEF Queues, Wires, TypeOK, FieldTypes, HistoryTypes
<1>2. /\ Q \in Queues /\ Q[s] = q /\ \A r \in Sessions \ {s} : Q[r] = sendQueue[r]
      /\ [Q EXCEPT ![s] = Tail(Q[s])] = [sendQueue EXCEPT ![s] = Tail(q)]
  BY <1>1 DEF Queues
<1> HIDE DEF Q
<1>3. \A r \in Sessions : \A i \in 1..Len(Q[r]) : Q[r][i].conn \in Sockets => Hosts(r, Q[r][i].conn)
  BY <1>2 DEF Hosts
<1>4. Popped(t, s, q) => q # <<>> /\ sendQueue' = [Q EXCEPT ![s] = Tail(Q[s])]
  BY <1>2 DEF Popped
<1>5. \A r \in Sessions : \A i \in 1..Len(sendQueue'[r]) :
        sendQueue'[r][i].conn \in Sockets => Hosts(r, sendQueue'[r][i].conn)
  <2>1. CASE sendQueue' = Q
    BY <1>3, <2>1
  <2>2. CASE Popped(t, s, q)
    <3>1. \A i \in 1..Len(Tail(q)) : Tail(q)[i] = q[i + 1] /\ i + 1 \in 1..Len(q)
      BY <1>4, <2>2, TailFacts
    <3>2. sendQueue'[s] = Tail(q) /\ \A r \in Sessions \ {s} : sendQueue'[r] = Q[r]
      BY <1>2, <1>4, <2>2 DEF Queues
    <3>3. ASSUME NEW i \in 1..Len(Tail(q)), Tail(q)[i].conn \in Sockets PROVE Hosts(s, Tail(q)[i].conn)
      BY <3>1, <3>3
    <3>4. QED
      BY <1>3, <3>2, <3>3
  <2>3. QED
    BY <2>1, <2>2 DEF Q
<1>6. Ordered(Q, wire, A)
  BY DEF Q
<1>7. CASE wire' = wire
  <2>1. CASE sendQueue' = Q
    <3>1. Ordered(sendQueue', wire', A)
      BY <1>6, <1>7, <2>1
    <3>2. QED
      BY <1>5, <3>1
  <2>2. CASE Popped(t, s, q)
    <3>1. Q[s] # <<>> /\ sendQueue' = [Q EXCEPT ![s] = Tail(Q[s])]
      BY <1>2, <1>4, <2>2
    <3>2. Ordered([Q EXCEPT ![s] = Tail(Q[s])], wire, A)
      BY <1>1, <1>2, <1>6, <3>1, Dropped
    <3>3. QED
      BY <1>5, <1>7, <3>1, <3>2
  <2>3. QED
    BY <1>5, <2>1, <2>2 DEF Q
<1>8. CASE /\ Popped(t, s, q) /\ sock[s] \in Sockets
           /\ wire' = [wire EXCEPT ![sock[s]] = Append(wire[sock[s]], Head(q))]
  <2>1. PICK m : m = Head(Q[s])
    OBVIOUS
  <2>2. q # <<>> /\ m = q[1] /\ 1 \in 1..Len(q) /\ m \in Jobs /\ AcceptedIn(A, m)
    <3>1. m = q[1] /\ 1 \in 1..Len(q) /\ q[1] \in Jobs /\ q # <<>>
      BY <1>2, <1>4, <1>8, <2>1, TailFacts
    <3>2. QED
      BY <1>2, <1>6, <3>1 DEF Ordered
  <2>3. m.conn \in Sockets /\ Hosts(s, m.conn)
    BY <2>2 DEF AcceptedIn, Jobs
  <2>4. \A r \in Sessions \ {s} : \A j \in 1..Len(Q[r]) : Q[r][j].conn # m.conn
    BY <1>3, <2>3 DEF HostInv
  <2>5. Ordered([Q EXCEPT ![s] = Tail(Q[s])], [wire EXCEPT ![sock[s]] = Append(wire[sock[s]], m)], A)
    BY <1>1, <1>2, <1>6, <1>8, <2>1, <2>2, <2>4, Posted
  <2>6. QED
    BY <1>2, <1>4, <1>5, <1>8, <2>1, <2>5
<1>9. QED
  BY <1>5, <1>7, <1>8

\* The messages of one queue and one wire, counted.
LEMMA FollowsPush ==
  ASSUME NEW q \in Seq(Jobs), NEW c, NEW k \in Nat, NEW a \in Nat, Follows(q, c, k, a),
         NEW m \in Jobs, m = [conn |-> c, n |-> a + 1]
  PROVE  Follows(Append(q, m), c, k, a + 1)
<1>1. Len(q) \in Nat /\ a = k + Len(q) /\ \A i \in 1..Len(q) : q[i] = [conn |-> c, n |-> k + i]
  BY DEF Follows
<1>2. /\ Len(Append(q, m)) = Len(q) + 1 /\ Append(q, m)[Len(q) + 1] = m
      /\ \A i \in 1..Len(q) : Append(q, m)[i] = q[i]
  BY StackPush
<1>3. a + 1 = k + (Len(q) + 1)
  BY <1>1
<1>4. ASSUME NEW i \in 1..(Len(q) + 1) PROVE Append(q, m)[i] = [conn |-> c, n |-> k + i]
  <2>1. CASE i = Len(q) + 1
    <3>1. k + i = a + 1
      BY <1>1, <2>1
    <3>2. QED
      BY <1>2, <2>1, <3>1
  <2>2. CASE i # Len(q) + 1
    <3>1. i \in 1..Len(q)
      BY <1>1, <2>2
    <3>2. QED
      BY <1>1, <1>2, <3>1
  <2>3. QED
    BY <2>1, <2>2
<1>5. QED
  BY <1>2, <1>3, <1>4 DEF Follows

ExactWire(w, c) == \A i \in 1..Len(w) : w[i] = [conn |-> c, n |-> i]

LEMMA FollowsPop ==
  ASSUME NEW q \in Seq(Jobs), q # <<>>, NEW c, NEW w \in Seq(Jobs), NEW a \in Nat, Follows(q, c, Len(w), a),
         ExactWire(w, c)
  PROVE  /\ Follows(Tail(q), c, Len(Append(w, Head(q))), a)
         /\ ExactWire(Append(w, Head(q)), c)
<1>1. /\ Len(q) \in Nat /\ Len(w) \in Nat /\ a = Len(w) + Len(q)
      /\ \A i \in 1..Len(q) : q[i] = [conn |-> c, n |-> Len(w) + i]
  BY DEF Follows
<1>2. /\ Len(Tail(q)) = Len(q) - 1 /\ Head(q) = q[1] /\ 1 \in 1..Len(q) /\ q[1] \in Jobs
      /\ \A i \in 1..Len(Tail(q)) : Tail(q)[i] = q[i + 1] /\ i + 1 \in 1..Len(q)
  BY TailFacts
<1>3. PICK v : v = Append(w, Head(q))
  OBVIOUS
<1>4. /\ Len(v) = Len(w) + 1 /\ v[Len(w) + 1] = Head(q)
      /\ \A i \in 1..Len(w) : v[i] = w[i]
  BY <1>2, <1>3, StackPush
<1>5. Head(q) = [conn |-> c, n |-> Len(w) + 1]
  BY <1>1, <1>2
<1>6. ASSUME NEW i \in 1..(Len(w) + 1) PROVE v[i] = [conn |-> c, n |-> i]
  <2>1. i = Len(w) + 1 \/ i \in 1..Len(w)
    BY <1>1
  <2>2. QED
    BY <1>4, <1>5, <2>1 DEF ExactWire
<1>7. ASSUME NEW i \in 1..Len(Tail(q)) PROVE Tail(q)[i] = [conn |-> c, n |-> Len(v) + i]
  <2>1. Tail(q)[i] = [conn |-> c, n |-> Len(w) + (i + 1)]
    BY <1>1, <1>2
  <2>2. Len(w) + (i + 1) = Len(v) + i
    BY <1>1, <1>4
  <2>3. QED
    BY <2>1, <2>2
<1>8. a = Len(v) + Len(Tail(q))
  BY <1>1, <1>2, <1>4
<1>9. QED
  BY <1>3, <1>4, <1>6, <1>7, <1>8 DEF Follows, ExactWire

\* PostSend on queue q of s, which goes on where the wire ends: q goes on so,
\* or the flag is left with nobody to clear it.
LEMMA PostExact ==
  ASSUME GroundInv, NEW t \in Threads, NEW s \in Sessions, NEW q \in Seq(Jobs), NEW f \in BOOLEAN,
         PostSend(t, s, q, f), HasFreeBuffer, sock' = sock, sock[s] \in Sockets,
         Exact(sock[s]), NEW a \in Nat, Follows(q, sock[s], Len(wire[sock[s]]), a),
         f \/ ~owner[s], Sends(s) = {}, SendersOf(s) \subseteq {t}
  PROVE  /\ Exact(sock[s])'
         /\ ~Stuck(s)' => Follows(sendQueue'[s], sock[s], Len(wire'[sock[s]]), a)
<1>1. /\ FieldTypes /\ wire \in [Sockets -> Seq(Jobs)]
      /\ OnlyMoves(t) /\ pc'[t] \notin {"send", "sendDone"}
  BY PostMoves, GroundFacts DEF TypeOK, HistoryTypes
<1>2. PICK c \in Sockets : c = sock[s]
  OBVIOUS
<1>3. PICK w \in Seq(Jobs) : w = wire[c]
  BY <1>1
<1>4. ExactWire(w, c)
  BY <1>2, <1>3 DEF Exact, ExactWire
<1>5. ASSUME wire' = wire PROVE Exact(sock[s])' /\ Len(wire'[sock[s]]) = Len(w)
  BY <1>2, <1>3, <1>5 DEF Exact
<1>6. CASE q = <<>>
  <2>1. sendQueue'[s] = q /\ wire' = wire
    BY <1>1, <1>6 DEF PostSend, FieldTypes
  <2>2. QED
    BY <1>2, <1>3, <1>5, <2>1
<1>7. CASE q # <<>>
  <2>1. /\ owner[s] /\ sendQueue'[s] = Tail(q) /\ sending'[s] = f
        /\ \/ wire' = [wire EXCEPT ![sock[s]] = Append(@, Head(q))]
           \/ wire' = wire /\ ops' = ops
    BY <1>1, <1>7 DEF PostSend, FieldTypes
  <2>2. CASE wire' = [wire EXCEPT ![sock[s]] = Append(@, Head(q))]
    <3>1. wire'[c] = Append(w, Head(q)) /\ sock'[s] = c
      BY <1>1, <1>2, <1>3, <2>2
    <3>1a. Follows(q, c, Len(w), a)
      BY <1>2, <1>3
    <3>1b. Follows(Tail(q), c, Len(Append(w, Head(q))), a) /\ ExactWire(Append(w, Head(q)), c)
      BY <1>4, <1>7, <3>1a, FollowsPop
    <3>2. Follows(Tail(q), c, Len(wire'[c]), a) /\ ExactWire(wire'[c], c)
      BY <3>1, <3>1b
    <3>3. QED
      BY <1>2, <2>1, <3>1, <3>2 DEF Exact, ExactWire
  <2>3. CASE wire' = wire /\ ops' = ops
    <3>1. Sends(s)' = {}
      BY <2>3 DEF Sends, OpsOf
    <3>2. \A u \in Threads : ~At(u, "sendDone", s)'
      BY <1>1 DEF SendersOf, At, OnlyMoves
    <3>3. Stuck(s)'
      BY <2>1, <3>1, <3>2 DEF Stuck
    <3>4. QED
      BY <1>5, <2>3, <3>3
  <2>4. QED
    BY <2>1, <2>2, <2>3
<1>8. QED
  BY <1>6, <1>7

\* The session hosts what it is given to send.
LEMMA GivenHosts ==
  ASSUME GroundInv', HostInv, NEW t \in Threads, OnlyMoves(t), pc'[t] \notin {"send", "sendDone"},
         NEW s \in Sessions, UNCHANGED <<sock, csock, acceptSock, nextSock>>,
         \A u \in Threads \ {t} : job'[u] = job[u],
         \A r \in Sessions : \A i \in 1..Len(sendQueue'[r]) :
           sendQueue'[r][i].conn \in Sockets => Hosts(r, sendQueue'[r][i].conn),
         \A d \in Sockets : Hosts(s, d) \/ (accepted'[d] = accepted[d] /\ wire'[d] = wire[d])
  PROVE  HostInv'
<1>1. \A u \in Threads, r \in Sessions : At(u, "send", r)' => At(u, "send", r) /\ job'[u] = job[u]
  BY DEF At, OnlyMoves
<1>2. \A d \in Sockets, r \in Sessions : Hosts(r, d)' => Hosts(r, d)
  BY <1>1 DEF Hosts
<1>3. \A d \in Sockets, q, r \in Sessions : Hosts(q, d)' /\ Hosts(r, d)' => q = r
  BY <1>2 DEF HostInv
<1>4. \A u \in Threads : pc'[u] = "send" => job'[u].conn # NoSocket
  BY DEF OnlyMoves, HostInv
<1>5. \A d \in Sockets : Young(d)' => Young(d)
  BY SameYoung DEF NoneYounger
<1>6. \A d \in Sockets : Young(d)' =>
        (\A r \in Sessions : ~Hosts(r, d)') /\ accepted'[d] = 0 /\ wire'[d] = <<>>
  <2>1. SUFFICES ASSUME NEW d \in Sockets, Young(d)'
                 PROVE  (\A r \in Sessions : ~Hosts(r, d)') /\ accepted'[d] = 0 /\ wire'[d] = <<>>
    OBVIOUS
  <2>2. (\A r \in Sessions : ~Hosts(r, d)) /\ accepted[d] = 0 /\ wire[d] = <<>>
    BY <1>5, <2>1 DEF HostInv
  <2>3. QED
    BY <1>2, <2>2
<1>7. QED
  BY <1>3, <1>4, <1>6 DEF HostInv

\* Of the other sessions it leaves everything as it is.
LEMMA OthersExact ==
  ASSUME GroundInv, HostInv, ExactInv, Counts, NEW t \in Threads, OnlyMoves(t),
         pc'[t] \notin {"send", "sendDone"}, NEW s \in Sessions, sock' = sock,
         \A u \in Threads \ {t} : job'[u] = job[u],
         NEW r \in Sessions, r # s, sendQueue'[r] = sendQueue[r], sending'[r] = sending[r],
         Sends(r)' = Sends(r),
         \A d \in Sockets : Hosts(s, d) \/ (accepted'[d] = accepted[d] /\ wire'[d] = wire[d]),
         FirstUse(r)', sock'[r] # NoSocket, ~dry'
  PROVE  ExactOK(r)'
<1>1. FirstUse(r) /\ ~dry
  BY UsesGrow, GroundFacts
<1>2. PICK d \in Sockets : d = sock[r]
  BY GroundFacts DEF FieldTypes
<1>3. Hosts(r, d) /\ ~Hosts(s, d)
  BY <1>2 DEF Hosts, HostInv
<1>4. Passive(r)
  BY DEF Passive, At, OnlyMoves
<1>5. QED
  BY <1>1, <1>2, <1>3, <1>4, PassiveExact DEF ExactInv

LEMMA NextOrders ==
  ASSUME GroundInv, GroundInv', SendsInv, HostInv, OrderInv, ExactInv, Counts, UNCHANGED serverVars,
         NEW t \in Threads, SendNext(t)
  PROVE  HostInv' /\ OrderInv' /\ ExactInv'
<1>1. PICK s \in Sessions :
        /\ At(t, "sendDone", s)
        /\ PostSend(t, s, sendQueue[s], sending[s])
        /\ UNCHANGED <<sock, csock, nextSock, job, accepted>>
  BY DEF SendNext
<1>2. PICK q : q = sendQueue[s]
  OBVIOUS
<1>3. /\ q \in Seq(Jobs) /\ sending[s] \in BOOLEAN /\ accepted \in Counters
      /\ sendQueue = [sendQueue EXCEPT ![s] = q] /\ acceptSock' = acceptSock
  BY <1>2, GroundFacts DEF TypeOK, FieldTypes, HistoryTypes, Counters, serverVars
<1>4. /\ OnlyMoves(t) /\ pc'[t] \notin {"send", "sendDone"}
      /\ sendQueue' = [sendQueue EXCEPT ![s] = q] \/ Popped(t, s, q)
      /\ \/ wire' = wire
         \/ /\ Popped(t, s, q) /\ sock[s] \in Sockets
            /\ wire' = [wire EXCEPT ![sock[s]] = Append(wire[sock[s]], Head(q))]
  BY <1>1, <1>2, PostMoves
<1>5. /\ Ordered(sendQueue', wire', accepted)
      /\ \A r \in Sessions : \A i \in 1..Len(sendQueue'[r]) :
           sendQueue'[r][i].conn \in Sockets => Hosts(r, sendQueue'[r][i].conn)
  <2>1. Ordered([sendQueue EXCEPT ![s] = q], wire, accepted)
    BY <1>3 DEF OrderInv
  <2>2. \A i \in 1..Len(q) : q[i].conn \in Sockets => Hosts(s, q[i].conn)
    BY <1>2 DEF Hosts
  <2>3. QED
    BY <1>3, <1>4, <2>1, <2>2, PostHosts
<1>6. OrderInv'
  BY <1>1, <1>5 DEF OrderInv
<1>7. \A d \in Sockets : Hosts(s, d) \/ (accepted'[d] = accepted[d] /\ wire'[d] = wire[d])
  BY <1>1, <1>4, GroundFacts DEF TypeOK, HistoryTypes, Hosts
<1>8. HostInv'
  BY <1>1, <1>3, <1>4, <1>5, <1>7, GivenHosts
<1>9. ASSUME NEW r \in Sessions, r # s, FirstUse(r)', sock'[r] # NoSocket, ~dry'
      PROVE  ExactOK(r)'
  <2>1. /\ sendQueue'[r] = sendQueue[r] /\ sending'[r] = sending[r] /\ Sends(r)' = Sends(r)
    BY <1>1, <1>9, PostsElsewhere
  <2>2. QED
    BY <1>1, <1>4, <1>7, <1>9, <2>1, OthersExact
<1>10. ASSUME FirstUse(s)', sock'[s] # NoSocket, ~dry'
       PROVE  ExactOK(s)'
  <2>1. FirstUse(s) /\ ~dry /\ HasFreeBuffer /\ SendOK(s)
    BY <1>10, UsesGrow, GroundFacts DEF SendsInv
  <2>2. ExactOK(s) /\ sock[s] \in Sockets
    BY <1>1, <1>10, <2>1, GroundFacts DEF ExactInv, FieldTypes
  <2>3. ~Stuck(s)
    BY <1>1 DEF Stuck
  <2>4. PICK a \in Nat : a = accepted[sock[s]] /\ accepted'[sock[s]] = a
    BY <1>1, <1>3, <2>2 DEF Counters
  <2>5. Follows(q, sock[s], Len(wire[sock[s]]), a) /\ Exact(sock[s])
    BY <1>2, <2>2, <2>3, <2>4 DEF ExactOK
  <2>6. t \in SendersOf(s)
    BY <1>1 DEF SendersOf
  <2>7. SendersOf(s) \subseteq {t} /\ Sends(s) = {} /\ (sending[s] \/ ~owner[s])
    BY <2>1, <2>6 DEF SendOK, OneOf
  <2>8. /\ Exact(sock[s])'
        /\ ~Stuck(s)' => Follows(sendQueue'[s], sock[s], Len(wire'[sock[s]]), a)
    BY <1>1, <1>2, <1>3, <2>1, <2>2, <2>5, <2>7, PostExact
  <2>9. \A u \in Threads : At(u, "send", s)' => job'[u].conn = sock[s]
    BY <1>1, <1>4, <2>2 DEF ExactOK, At, OnlyMoves
  <2>10. QED
    BY <1>1, <2>4, <2>8, <2>9 DEF ExactOK
<1>11. QED
  BY <1>6, <1>8, <1>9, <1>10 DEF ExactInv

LEMMA LockedOrders ==
  ASSUME GroundInv, GroundInv', SendsInv, HostInv, OrderInv, ExactInv, Counts, UNCHANGED serverVars,
         NEW t \in Threads, SendLocked(t)
  PROVE  HostInv' /\ OrderInv' /\ ExactInv'
<1>0. PICK s \in Sessions : \E m :
        /\ At(t, "send", s)
        /\ m = [conn |-> job[t].conn, n |-> accepted[job[t].conn] + 1]
        /\ accepted' = [accepted EXCEPT ![job[t].conn] = @ + 1]
        /\ job' = [job EXCEPT ![t] = NoJob]
        /\ \/ /\ sending[s] /\ Return(t)
              /\ sendQueue' = [sendQueue EXCEPT ![s] = Append(sendQueue[s], m)]
              /\ UNCHANGED <<sending, ops, wire>>
           \/ /\ ~sending[s]
              /\ PostSend(t, s, Append(sendQueue[s], m), TRUE)
        /\ UNCHANGED <<sock, csock, nextSock>>
  BY DEF SendLocked, SendInProgress, Enqueue
<1>1. PICK m :
        /\ At(t, "send", s)
        /\ m = [conn |-> job[t].conn, n |-> accepted[job[t].conn] + 1]
        /\ accepted' = [accepted EXCEPT ![job[t].conn] = @ + 1]
        /\ job' = [job EXCEPT ![t] = NoJob]
        /\ \/ /\ sending[s] /\ Return(t)
              /\ sendQueue' = [sendQueue EXCEPT ![s] = Append(sendQueue[s], m)]
              /\ UNCHANGED <<sending, ops, wire>>
           \/ /\ ~sending[s]
              /\ PostSend(t, s, Append(sendQueue[s], m), TRUE)
        /\ UNCHANGED <<sock, csock, nextSock>>
  BY <1>0
<1>2. /\ FieldTypes /\ LocalTypes /\ ControlTypes /\ ControlInv /\ HistoryTypes
      /\ accepted \in Counters /\ sendQueue \in Queues /\ wire \in Wires
  BY GroundFacts DEF TypeOK, FieldTypes, HistoryTypes, Counters, Queues, Wires
<1>3. PICK c \in Sockets : c = job[t].conn
  <2>1. pc[t] = "send" /\ job[t].conn \in Sockets \cup {NoSocket}
    BY <1>1, <1>2 DEF At, LocalTypes, Jobs
  <2>2. QED
    BY <2>1 DEF HostInv
<1>4. /\ Hosts(s, c) /\ c # NoSocket
      /\ accepted[c] \in Nat /\ m = [conn |-> c, n |-> accepted[c] + 1] /\ m \in Jobs
      /\ accepted' = [accepted EXCEPT ![c] = @ + 1]
  <2>1. Hosts(s, c) /\ accepted[c] \in Nat /\ m = [conn |-> c, n |-> accepted[c] + 1]
    BY <1>1, <1>2, <1>3 DEF Hosts, Counters
  <2>2. QED
    BY <1>1, <1>3, <2>1 DEF Jobs, Sockets, NoSocket
<1>5. PICK q : q = Append(sendQueue[s], m)
  OBVIOUS
<1>6. q \in Seq(Jobs) /\ q # <<>> /\ sendQueue[s] \in Seq(Jobs)
  <2>1. sendQueue[s] \in Seq(Jobs)
    BY <1>2 DEF FieldTypes
  <2>2. QED
    BY <1>4, <1>5, <2>1
<1>7. /\ OnlyMoves(t) /\ pc'[t] \notin {"send", "sendDone"}
      /\ sendQueue' = [sendQueue EXCEPT ![s] = q] \/ Popped(t, s, q)
      /\ \/ wire' = wire
         \/ /\ Popped(t, s, q) /\ sock[s] \in Sockets
            /\ wire' = [wire EXCEPT ![sock[s]] = Append(wire[sock[s]], Head(q))]
  <2>1. CASE Return(t) /\ sendQueue' = [sendQueue EXCEPT ![s] = q] /\ wire' = wire
    BY <1>2, <2>1, ReturnMoves DEF Returned
  <2>2. CASE PostSend(t, s, q, TRUE)
    BY <2>2, PostMoves
  <2>3. QED
    BY <1>1, <1>5, <2>1, <2>2
<1>8. /\ Ordered(sendQueue', wire', accepted')
      /\ \A r \in Sessions : \A i \in 1..Len(sendQueue'[r]) :
           sendQueue'[r][i].conn \in Sockets => Hosts(r, sendQueue'[r][i].conn)
  <2>1. Ordered([sendQueue EXCEPT ![s] = q], wire, accepted')
    BY <1>2, <1>4, <1>5, Enqueued DEF OrderInv
  <2>2. \A i \in 1..Len(q) : q[i].conn \in Sockets => Hosts(s, q[i].conn)
    <3>1. /\ Len(sendQueue[s]) \in Nat /\ Len(q) = Len(sendQueue[s]) + 1
          /\ q[Len(sendQueue[s]) + 1] = m
          /\ \A i \in 1..Len(sendQueue[s]) : q[i] = sendQueue[s][i]
      BY <1>4, <1>5, <1>6, StackPush
    <3>2. ASSUME NEW i \in 1..Len(q), q[i].conn \in Sockets PROVE Hosts(s, q[i].conn)
      <4>1. i = Len(sendQueue[s]) + 1 \/ i \in 1..Len(sendQueue[s])
        BY <3>1
      <4>2. CASE i = Len(sendQueue[s]) + 1
        BY <1>4, <3>1, <4>2
      <4>3. CASE i \in 1..Len(sendQueue[s])
        BY <3>1, <4>3 DEF Hosts
      <4>4. QED
        BY <4>1, <4>2, <4>3
    <3>3. QED
      BY <3>2
  <2>3. accepted' \in Counters
    BY <1>2, <1>4 DEF Counters
  <2>4. QED
    BY <1>6, <1>7, <2>1, <2>2, <2>3, PostHosts
<1>9. OrderInv'
  BY <1>8 DEF OrderInv
<1>10. /\ \A d \in Sockets : Hosts(s, d) \/ (accepted'[d] = accepted[d] /\ wire'[d] = wire[d])
       /\ \A u \in Threads \ {t} : job'[u] = job[u]
       /\ accepted'[c] = accepted[c] + 1 /\ acceptSock' = acceptSock
  BY <1>1, <1>2, <1>4, <1>7 DEF Wires, Counters, LocalTypes, serverVars, Hosts
<1>11. HostInv'
  BY <1>1, <1>4, <1>7, <1>8, <1>10, GivenHosts
<1>12. ASSUME NEW r \in Sessions, r # s, FirstUse(r)', sock'[r] # NoSocket, ~dry'
       PROVE  ExactOK(r)'
  <2>1. /\ sendQueue'[r] = sendQueue[r] /\ sending'[r] = sending[r] /\ Sends(r)' = Sends(r)
    <3>1. CASE /\ sendQueue' = [sendQueue EXCEPT ![s] = q]
               /\ UNCHANGED <<sending, ops>>
      BY <1>2, <1>12, <3>1 DEF FieldTypes, Sends, OpsOf
    <3>2. CASE PostSend(t, s, q, TRUE)
      BY <1>12, <3>2, PostsElsewhere
    <3>3. QED
      BY <1>1, <1>5, <3>1, <3>2
  <2>2. QED
    BY <1>1, <1>4, <1>7, <1>10, <1>12, <2>1, OthersExact
<1>13. ASSUME FirstUse(s)', sock'[s] # NoSocket, ~dry'
       PROVE  ExactOK(s)'
  <2>1. FirstUse(s) /\ ~dry /\ HasFreeBuffer /\ SendOK(s)
    BY <1>13, UsesGrow, GroundFacts DEF SendsInv
  <2>2. ExactOK(s) /\ sock'[s] = sock[s]
    BY <1>1, <1>13, <2>1 DEF ExactInv
  <2>3. sock[s] = c
    BY <1>1, <1>3, <2>2 DEF ExactOK
  <2>4. \A u \in Threads : At(u, "send", s)' => job'[u].conn = c
    BY <1>7, <1>10, <2>2, <2>3 DEF ExactOK, At, OnlyMoves
  <2>5. PICK a \in Nat : a = accepted[c] /\ accepted'[c] = a + 1
    BY <1>4, <1>10
  <2>6. PICK k \in Nat : k = Len(wire[c])
    BY <1>2 DEF Wires
  <2>7. ASSUME ~Stuck(s) PROVE Follows(q, c, k, a + 1)
    <3>1. Follows(sendQueue[s], c, k, a)
      BY <2>2, <2>3, <2>5, <2>6, <2>7 DEF ExactOK
    <3>2. QED
      BY <1>4, <1>5, <1>6, <2>5, <3>1, FollowsPush
  <2>8. CASE /\ sending[s] /\ Return(t)
             /\ sendQueue' = [sendQueue EXCEPT ![s] = q]
             /\ UNCHANGED <<sending, ops, wire>>
    <3>1. Exact(c)' /\ sendQueue'[s] = q
      BY <1>2, <2>2, <2>3, <2>8 DEF ExactOK, Exact, FieldTypes
    <3>2. Stuck(s) => Stuck(s)'
      BY <1>7, <2>8 DEF Stuck, Sends, OpsOf, At, OnlyMoves
    <3>3. ~Stuck(s)' => Follows(sendQueue'[s], c, Len(wire'[c]), accepted'[c])
      BY <2>5, <2>6, <2>7, <2>8, <3>1, <3>2
    <3>4. QED
      BY <2>2, <2>3, <2>4, <3>1, <3>3 DEF ExactOK
  <2>9. CASE ~sending[s] /\ PostSend(t, s, q, TRUE)
    <3>1. ~Stuck(s) /\ owner[s]
      BY <1>6, <2>9 DEF Stuck, PostSend
    <3>2. Sends(s) = {} /\ SendersOf(s) = {}
      BY <2>1, <2>9, <3>1 DEF SendOK
    <3>3. Follows(q, sock[s], Len(wire[sock[s]]), a + 1) /\ Exact(sock[s]) /\ a + 1 \in Nat
      BY <2>2, <2>3, <2>6, <2>7, <3>1 DEF ExactOK
    <3>4. /\ Exact(sock[s])'
          /\ ~Stuck(s)' => Follows(sendQueue'[s], sock[s], Len(wire'[sock[s]]), a + 1)
      BY <1>1, <1>6, <2>1, <2>3, <2>9, <3>2, <3>3, PostExact
    <3>5. QED
      BY <2>2, <2>3, <2>4, <2>5, <3>4 DEF ExactOK
  <2>10. QED
    BY <1>1, <1>5, <2>8, <2>9
<1>14. QED
  BY <1>9, <1>11, <1>12, <1>13 DEF ExactInv

LEMMA OrdersStep ==
  ASSUME GroundInv, GroundInv', SendsInv, HostInv, OrderInv, ExactInv, ~AssocMayFail,
         [Next /\ Counts]_slotVars
  PROVE  HostInv' /\ OrderInv' /\ ExactInv'
<1>1. CASE UNCHANGED slotVars
  <2>1. Silent /\ UNCHANGED <<uses, dry>>
    BY <1>1, SilentRest DEF slotVars
  <2>2. QED
    BY <2>1, SilentKeeps
<1>2. CASE Counts /\ (Start \/ Stop \/ Joined)
  BY <1>2, SilentRest, SilentKeeps
<1>3. ASSUME NEW t \in Threads, Runs(t) \/ Completes(t) \/ Chooses(t), Counts
      PROVE  HostInv' /\ OrderInv' /\ ExactInv'
  <2>1. CASE SessionNext(t) /\ UNCHANGED serverVars
    <3>1. CASE SendLocked(t)
      BY <1>3, <2>1, <3>1, LockedOrders
    <3>2. CASE SendNext(t)
      BY <1>3, <2>1, <3>2, NextOrders
    <3>3. CASE ~SendLocked(t) /\ ~SendNext(t)
      BY <1>3, <2>1, <3>3, SilentSession, SilentKeeps
    <3>4. QED
      BY <3>1, <3>2, <3>3
  <2>2. CASE AcquireSession(t)
    BY <1>3, <2>2, AcquireOrders
  <2>3. CASE AssociateFails(t)
    BY <2>3 DEF AssociateFails
  <2>4. CASE \/ PoolExhausted(t) \/ Associate(t) \/ ForgetBuffer(t) \/ WorkerLoops(t) \/ WorkerBreaks(t)
             \/ Completes(t) \/ Chooses(t)
    BY <1>3, <2>4, SilentServer, SilentKeeps
  <2>5. QED
    BY <1>3, <2>1, <2>2, <2>3, <2>4 DEF Runs
<1>4. QED
  BY <1>1, <1>2, <1>3 DEF Next

LEMMA OrdersInit == SlotInit => HostInv /\ OrderInv /\ ExactInv
<1> SUFFICES ASSUME SlotInit PROVE HostInv /\ OrderInv /\ ExactInv
  OBVIOUS
<1>1. /\ pc = [t \in Threads |-> "idle"] /\ sock = [s \in Sessions |-> NoSocket]
      /\ sendQueue = [s \in Sessions |-> <<>>] /\ wire = [c \in Sockets |-> <<>>]
      /\ accepted = [c \in Sockets \cup {NoSocket} |-> 0]
  BY DEF SlotInit, Init, SessionInit
<1>2. Len(<<>>) = 0 /\ \A c \in Sockets : c # NoSocket
  BY DEF Sockets, NoSocket
<1>3. \A s \in Sessions, c \in Sockets : ~Hosts(s, c)
  BY <1>1, <1>2 DEF Hosts, At
<1>4. HostInv
  BY <1>1, <1>3 DEF HostInv
<1>5. OrderInv
  BY <1>1, <1>2 DEF OrderInv, Ordered
<1>6. ExactInv
  BY <1>1 DEF ExactInv
<1>7. QED
  BY <1>4, <1>5, <1>6

\* As long as every accepted socket can be associated with the completion port,
\* the messages of every connection reach its wire in the order Send accepted
\* them and none twice, over any number of uses of a slot and for any number of
\* threads, sessions and buffers; and on a slot's first connection none is
\* missing and none is another's until the pool is empty (Session::Send, PostSend).
THEOREM MessagesInOrder ==
  ASSUME ~AssocMayFail
  PROVE  SlotSpec => []Fifo
<1> DEFINE DataInv == GroundInv /\ SendsInv /\ HostInv /\ OrderInv /\ ExactInv
<1>1. SlotInit => DataInv
  BY GroundInit, SendsInit, OrdersInit
<1>2. DataInv /\ [Next /\ Counts]_slotVars => DataInv'
  BY GroundStep, SendsStep, OrdersStep
<1>3. DataInv => Fifo
  <2>1. SUFFICES ASSUME DataInv PROVE Fifo
    OBVIOUS
  <2>2. \A c \in Sockets : \A i, j \in 1..Len(wire[c]) :
          i < j /\ wire[c][i].conn = wire[c][j].conn => wire[c][i].n < wire[c][j].n
    BY <2>1 DEF OrderInv, Ordered, Before
  <2>3. \A s \in Sessions : FirstUse(s) /\ sock[s] # NoSocket /\ ~dry => Exact(sock[s])
    BY <2>1 DEF ExactInv, ExactOK
  <2>4. \A c, d \in Sockets : \A i \in 1..Len(wire[c]), j \in 1..Len(wire[d]) :
          wire[c][i] = wire[d][j] => c = d /\ i = j
    BY <2>1 DEF OrderInv, Ordered
  <2>5. QED
    BY <2>2, <2>3, <2>4 DEF Fifo
<1>4. QED
  BY <1>1, <1>2, <1>3, PTL DEF SlotSpec
=============================================================================
