---------------------------- MODULE MCIocpServer ----------------------------
EXTENDS IocpServer
Symmetry == Permutations(Workers) \cup Permutations(Apps)
=============================================================================
