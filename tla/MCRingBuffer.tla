---------------------------- MODULE MCRingBuffer ----------------------------
EXTENDS NetRingBuffer

MCInputs == UNION {[1..n -> Bytes] : n \in 0..(Capacity + 1)}

\* The ring of either engine.
VARIABLE engine

MCInit == Init /\ engine \in {"IOCP", "Net"}

MCNext ==
  /\ \/ engine = "IOCP" /\ Next
     \/ engine = "Net" /\ NetNext
  /\ UNCHANGED engine

MCSpec == MCInit /\ [][MCNext]_<<vars, engine>>
=============================================================================
