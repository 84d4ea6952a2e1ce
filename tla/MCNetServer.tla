---------------------------- MODULE MCNetServer -----------------------------
EXTENDS NetServer
=============================================================================
