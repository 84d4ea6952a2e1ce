-------------------------- MODULE MCSessionManager --------------------------
EXTENDS SessionManager, TLC

\* The threads of one kind are alike.
Symmetry == Permutations(Workers) \cup Permutations(Callers)

BusyWorkers == {w \in Workers : ~Idle(w)}
BusyThreads == {t \in Threads : ~Idle(t)}
Receives == {o \in Ovs : ios[o].type = "recv"}

\* A thread fills the receive handle, or has: a second block is about.
Filling == heap > 1 \/ \E t \in Threads : At(t, "fillRx") \/ At(t, "moveRx")

\* Bytes are in the port or a worker copies them.
Arrived ==
  \/ \E w \in Workers : At(w, "resetRx") \/ At(w, "clearRx") \/ At(w, "releaseRx")
  \/ \E o \in Receives : ios[o].state = "ok"

\* Bounds.  One worker at a time once there is a second connection, and two
\* threads in all and no receive outstanding (WSARecv failed) if messages are
\* sent by then or are left over from the first.  A receive handle is filled,
\* and bytes arrive, as long as no message was sent, on the first connection;
\* bytes are handled with at most one call outstanding.
Scope ==
  /\ conns > 1 => Cardinality(BusyWorkers) <= 1
  /\ conns > 1 /\ sendOf # <<>> => Receives = {} /\ Cardinality(BusyThreads) <= 2
  /\ conns > 1 \/ sendOf # <<>> => ~Filling /\ ~Arrived
  /\ Arrived => Cardinality(BusyWorkers) <= 1 /\ Cardinality(Ovs \ FreeOvs) <= 1
=============================================================================
