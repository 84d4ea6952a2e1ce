---------------------------- MODULE SessionPool ----------------------------
(***************************************************************************)
(* IOCP/SessionPool.h: the sessions are built once and a stack holds the   *)
(* indices of those that may be handed out.  Acquire pops an index, draws  *)
(* the next id and calls Session::Init under the pool's mutex.  Release    *)
(* disconnects and resets the session first, outside the mutex (those      *)
(* steps are in module Session), and pushes the index last, without asking *)
(* whether it is already there.                                            *)
(***************************************************************************)
EXTENDS SequencesExt

CONSTANT MaxSessions      \* size of the pool

ASSUME MaxSessionsAssumption == MaxSessions \in Nat

VARIABLES
  freeIndices,            \* stack of free session indices, top last
  nextId                  \* next connection id, never reused

Sessions == 1..MaxSessions
NoId     == 0

SessionPoolInit ==
  /\ freeIndices = [i \in 1..MaxSessions |-> i]
  /\ nextId = 1

HasFreeSession == freeIndices # <<>>

\* Mutant: the session handed out stays on the stack.
PopSession_Keeps(s) ==
  /\ HasFreeSession
  /\ s = Last(freeIndices)
  /\ freeIndices' = freeIndices
  /\ nextId' = nextId + 1

\* Mutant: ids are not drawn from the counter.
PopSession_SameId(s) ==
  /\ HasFreeSession
  /\ s = Last(freeIndices)
  /\ freeIndices' = Front(freeIndices)
  /\ nextId' = nextId

\* The pool's part of Acquire: the popped index is s, the id drawn is nextId.
PopSession(s) ==
  /\ HasFreeSession
  /\ s = Last(freeIndices)
  /\ freeIndices' = Front(freeIndices)
  /\ nextId' = nextId + 1

\* Mutant: the index is not given back.
PushSession_Leaks(s) == freeIndices' = freeIndices

\* The last part of Release: push the index of the session.
PushSession(s) == freeIndices' = Append(freeIndices, s)
=============================================================================
