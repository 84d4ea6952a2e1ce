--------------------------- MODULE NetBufferPool ----------------------------
(***************************************************************************)
(* Util::BufferPool of the older engine: blocks of one size on a stack.    *)
(* Acquire takes the top or, when the stack is empty, a new block from the *)
(* heap, without a limit.  Each operation holds mtx_ throughout.           *)
(***************************************************************************)
EXTENDS Integers, Sequences

CONSTANTS
  InitialCount,   \* initialCount
  MaxBlocks       \* bound: blocks taken from the heap

ASSUME NetBufferPoolAssumption ==
  /\ InitialCount \in Nat
  /\ MaxBlocks \in Nat
  /\ InitialCount <= MaxBlocks

VARIABLES
  free,           \* free_
  heap            \* stats_.totalAlloc: blocks taken from the heap

poolVars == <<free, heap>>

\* Blocks in the order the heap gave them; 0 is the null pointer.
Blocks == 1..MaxBlocks
NoBlock == 0

NetBufferPoolInit ==
  /\ free = [i \in 1..InitialCount |-> i]
  /\ heap = InitialCount

\* A new block, when the stack is empty.
NewBlock(b) ==
  /\ free = <<>>
  /\ heap < MaxBlocks
  /\ b = heap + 1
  /\ heap' = b
  /\ UNCHANGED free

TopBlock(b) ==
  /\ free # <<>>
  /\ b = free[Len(free)]
  /\ free' = SubSeq(free, 1, Len(free) - 1)
  /\ UNCHANGED heap

\* Allocate gives b.
AllocateBlock(b) == TopBlock(b) \/ NewBlock(b)

\* Release of a block; its callers do not release the null pointer.
ReleaseBlock(b) ==
  /\ free' = Append(free, b)
  /\ UNCHANGED heap
=============================================================================
