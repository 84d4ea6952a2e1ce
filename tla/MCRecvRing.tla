----------------------------- MODULE MCRecvRing -----------------------------
EXTENDS RecvRing
MCBytes == ((1..NumPackets) \X (1..10)) \cup {<<0, 0>>}
MCInputs == {}
=============================================================================
