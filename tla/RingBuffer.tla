----------------------------- MODULE RingBuffer -----------------------------
(***************************************************************************)
(* IOCP/RingBuffer.h: a circular array with a read position, a write       *)
(* position and a count.  Each operation is one step; the ring has no lock *)
(* and is used by one thread at a time.  Reads of nothing return nothing   *)
(* and leave the ring alone.                                               *)
(***************************************************************************)
EXTENDS Integers, Sequences

CONSTANTS
  Bytes,               \* what a cell may hold
  Capacity,            \* cap_
  Inputs               \* what write is given

ASSUME CapacityAssumption == Capacity \in Nat \ {0}
ASSUME InputsAssumption == Inputs \subseteq Seq(Bytes)

VARIABLES
  buf, head, tail, size,  \* buf_, head_, tail_, size_
  moved                \* the bytes write was last given, or read or peek copied out

ringVars == <<buf, head, tail, size>>
vars == <<ringVars, moved>>

Cells == 0..(Capacity - 1)

Fewer(m, n) == IF m < n THEN m ELSE n

ClearRing ==
  /\ head' = 0 /\ tail' = 0 /\ size' = 0
  /\ UNCHANGED buf

Init ==
  /\ buf \in [Cells -> Bytes]
  /\ head = 0 /\ tail = 0 /\ size = 0
  /\ moved = <<>>

FreeSpace == Capacity - size

\* Mutant: the second copy goes on where the first stopped in the array.
Stored_NoWrap(d, n) ==
  [j \in Cells |-> IF tail <= j /\ j < tail + n THEN d[j - tail + 1] ELSE buf[j]]

\* The two copies of write: from tail_ to the end, then from cell 0.
Stored(d, n) ==
  LET first == Fewer(n, Capacity - tail) IN
  [j \in Cells |->
     IF tail <= j /\ j < tail + first THEN d[j - tail + 1]
     ELSE IF j < n - first THEN d[first + j + 1]
     ELSE buf[j]]

\* write: as many bytes as fit.
WriteRing(d) ==
  LET n == Fewer(Len(d), FreeSpace) IN
  /\ buf' = Stored(d, n)
  /\ tail' = (tail + n) % Capacity
  /\ size' = size + n
  /\ UNCHANGED head

\* The two copies of read and peek.
Fetched(n) ==
  LET first == Fewer(n, Capacity - head) IN
  [i \in 1..n |-> IF i <= first THEN buf[head + i - 1] ELSE buf[i - first - 1]]

\* n bytes leave; a ring that is empty then starts again at cell 0.
Advance(n) ==
  /\ size' = size - n
  /\ head' = IF size = n THEN 0 ELSE (head + n) % Capacity
  /\ tail' = IF size = n THEN 0 ELSE tail
  /\ UNCHANGED buf

Write(d) ==
  /\ WriteRing(d)
  /\ moved' = d

\* read(out, len) with len > 0.
ReadRing(len) ==
  LET n == Fewer(len, size) IN
  /\ moved' = Fetched(n)
  /\ IF size = 0 THEN UNCHANGED ringVars ELSE Advance(n)

Peek(len) ==
  /\ moved' = Fetched(Fewer(len, size))
  /\ UNCHANGED ringVars

Consume(len) ==
  /\ size # 0
  /\ Advance(Fewer(len, size))
  /\ UNCHANGED moved

Clear ==
  /\ ClearRing
  /\ UNCHANGED moved

Lengths == 1..(Capacity + 1)

Next ==
  \/ \E d \in Inputs : Write(d)
  \/ \E n \in Lengths : ReadRing(n) \/ Peek(n) \/ Consume(n)
  \/ Clear

Spec == Init /\ [][Next]_vars

-----------------------------------------------------------------------------

\* Types, and where the write position is.
TypeOK ==
  /\ buf \in [Cells -> Bytes]
  /\ head \in Cells /\ tail \in Cells /\ size \in 0..Capacity
  /\ tail = (head + size) % Capacity
  /\ moved \in Seq(Bytes)

\* What the ring holds, by first_segment and second_segment.
FirstSegment  == [i \in 1..Fewer(size, Capacity - head) |-> buf[head + i - 1]]
SecondSegment == [i \in 1..(size - Fewer(size, Capacity - head)) |-> buf[i - 1]]

Contents == FirstSegment \o SecondSegment

\* The ring is a bounded queue: bytes come out once, in order, unchanged, and
\* the two segments are its contents, wherever the positions wrap.
Q == INSTANCE ByteQueue WITH contents <- Contents

Queue == Q!Spec
=============================================================================
