--------------------------- MODULE NetRingBuffer ----------------------------
(***************************************************************************)
(* Util::RingBuffer of the older engine, and RecvRing, which only passes   *)
(* the calls on.  It stores and fetches as the newer engine's ring does;   *)
(* its read position goes round and never starts again at cell 0, and a    *)
(* reader looks at the segments in place of peek.                          *)
(***************************************************************************)
EXTENDS RingBuffer

\* n bytes leave.
NetAdvance(n) ==
  /\ head' = (head + n) % Capacity
  /\ size' = size - n
  /\ UNCHANGED <<buf, tail>>

NetRead(len) ==
  LET n == Fewer(len, size) IN
  /\ moved' = Fetched(n)
  /\ NetAdvance(n)

NetConsume(len) ==
  /\ NetAdvance(Fewer(len, size))
  /\ UNCHANGED moved

NetNext ==
  \/ \E d \in Inputs : Write(d)
  \/ \E n \in Lengths : NetRead(n) \/ NetConsume(n)
  \/ Clear

NetSpec == Init /\ [][NetNext]_vars
=============================================================================
