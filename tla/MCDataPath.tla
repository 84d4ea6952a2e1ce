----------------------------- MODULE MCDataPath -----------------------------
EXTENDS DataPath
Symmetry == Permutations(Workers) \cup Permutations(Apps)

\* A slot is used again once, for a connection that receives nothing and ends
\* nothing; two messages are sent in all, then.  A PostRecv left over from the
\* first connection meets one other thread at a time.
Busy == {t \in Threads : pc[t] \notin {"idle", "wait", "hung"}}

Scope ==
  \A s \in Sessions : uses[s] > 1 =>
    /\ FoldFunctionOnSet(+, 0, accepted, Sockets) <= 2
    /\ \A o \in ops : o.kind = "recv" => o.sock # sock[s]
    /\ uses[s] = 2 /\ Len(notified) = 1
    /\ (\E t \in Threads : pc[t] \in {"setup", "receive"}) => Cardinality(Busy) <= 2
=============================================================================
