----------------------------- MODULE BufferPool -----------------------------
(***************************************************************************)
(* IOCP/BufferPool.h: a fixed vector of buffers and a stack of the indices *)
(* that may be lent.  Acquire and Release run under the pool's mutex, so   *)
(* each is one step.  Release pushes whatever index it is given: nothing   *)
(* in the pool checks that the buffer was lent.  The contents of a buffer  *)
(* are left out.                                                           *)
(***************************************************************************)
EXTENDS SequencesExt

CONSTANT NumBuffers       \* bufferCount of IocpConfig

ASSUME NumBuffersAssumption == NumBuffers \in Nat

VARIABLE freeList         \* the stack of lendable indices, top last

Buffers  == 1..NumBuffers
NoBuffer == 0             \* nullptr
MaybeBuffer == Buffers \cup {NoBuffer}

BufferPoolInit == freeList = [i \in 1..NumBuffers |-> i]

HasFreeBuffer == freeList # <<>>
TopBuffer     == Last(freeList)

\* Acquire(): pops the top.  A caller that finds no buffer gets nullptr and
\* takes another action (HasFreeBuffer is false).
AcquireBuffer(b) ==
  /\ HasFreeBuffer
  /\ b = TopBuffer
  /\ freeList' = Front(freeList)

\* Mutant: the index is pushed twice.
ReleaseBuffer_Twice(b) ==
  freeList' = IF b = NoBuffer THEN freeList ELSE Append(Append(freeList, b), b)

\* Release(buffer): ignores nullptr, pushes the index of anything else.
ReleaseBuffer(b) ==
  freeList' = IF b = NoBuffer THEN freeList ELSE Append(freeList, b)
=============================================================================
