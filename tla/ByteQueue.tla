----------------------------- MODULE ByteQueue ------------------------------
(***************************************************************************)
(* What a ring buffer promises: a bounded queue.  RingBuffer implements it.*)
(***************************************************************************)
EXTENDS Naturals, Sequences

CONSTANTS Bytes, Capacity, Inputs

VARIABLES contents, moved    \* what is stored, what was last given or copied out

queueVars == <<contents, moved>>

Fewer(m, n) == IF m < n THEN m ELSE n

Init ==
  /\ contents = <<>>
  /\ moved = <<>>

\* As much of d as there is room for.
Write(d) ==
  /\ contents' = contents \o SubSeq(d, 1, Fewer(Len(d), Capacity - Len(contents)))
  /\ moved' = d

Drop(n) == contents' = SubSeq(contents, Fewer(n, Len(contents)) + 1, Len(contents))

Read(n) ==
  /\ moved' = SubSeq(contents, 1, Fewer(n, Len(contents)))
  /\ Drop(n)

Peek(n) ==
  /\ moved' = SubSeq(contents, 1, Fewer(n, Len(contents)))
  /\ UNCHANGED contents

Consume(n) == Drop(n) /\ UNCHANGED moved

Clear ==
  /\ contents' = <<>>
  /\ UNCHANGED moved

Next ==
  \/ \E d \in Inputs : Write(d)
  \/ \E n \in 1..(Capacity + 1) : Read(n) \/ Peek(n) \/ Consume(n)
  \/ Clear

Spec == Init /\ [][Next]_queueVars
=============================================================================
