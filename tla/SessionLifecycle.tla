-------------------------- MODULE SessionLifecycle --------------------------
(***************************************************************************)
(* What the session layer promises to the server built on it: a session    *)
(* slot serves one connection at a time; a connection that is dropped is   *)
(* reported exactly once, and only then does its slot become free again.   *)
(* IocpServer implements this (property Lifecycle there).                  *)
(***************************************************************************)
CONSTANTS Slots, Connections, NoConnection

VARIABLES phase, conn, reported

lifecycleVars == <<phase, conn, reported>>

LInit ==
  /\ phase = [s \in Slots |-> "free"]
  /\ conn = [s \in Slots |-> NoConnection]
  /\ reported = {}

\* A free slot takes a connection that no slot serves and that never ended.
Establish(s) ==
  LET c == conn'[s] IN
  /\ phase[s] = "free"
  /\ c \in Connections \ reported
  /\ \A r \in Slots : conn[r] # c
  /\ phase' = [phase EXCEPT ![s] = "serving"]
  /\ conn' = [conn EXCEPT ![s] = c]
  /\ UNCHANGED reported

\* The one caller of Disconnect that counts.
Drop(s) ==
  /\ phase[s] = "serving"
  /\ phase' = [phase EXCEPT ![s] = "closing"]
  /\ UNCHANGED <<conn, reported>>

\* The socket is gone and the server is told.
Report(s) ==
  /\ phase[s] = "closing"
  /\ conn[s] \in Connections \ reported
  /\ conn' = [conn EXCEPT ![s] = NoConnection]
  /\ reported' = reported \cup {conn[s]}
  /\ UNCHANGED phase

Recycle(s) ==
  /\ phase[s] = "closing"
  /\ conn[s] = NoConnection
  /\ phase' = [phase EXCEPT ![s] = "free"]
  /\ UNCHANGED <<conn, reported>>

LNext ==
  \E s \in Slots : Establish(s) \/ Drop(s) \/ Report(s) \/ Recycle(s)

LSpec == LInit /\ [][LNext]_lifecycleVars
=============================================================================
