------------------------------ MODULE MCParts -------------------------------
(***************************************************************************)
(* Components that share no state with any other: the id generator, the    *)
(* blocks of the older engine with the handles that own them, a gateway    *)
(* session, a hasher.  A behaviour is one of one of them, so the states of *)
(* the run are the sum of theirs.                                          *)
(***************************************************************************)
EXTENDS UidGenerator, BufferHandle, GatewaySession, Hasher, TLC

VARIABLE part

partVars == <<vars, handlesVars, gatewayVars, hasherVars>>

MCInit ==
  /\ part \in {"ids", "blocks", "session", "hasher"}
  /\ Init /\ HandlesInit /\ GatewayInit /\ HasherInit
  /\ part # "session" => class = "client"

MCNext ==
  /\ UNCHANGED part
  /\ \/ part = "ids" /\ Next /\ UNCHANGED <<handlesVars, gatewayVars, hasherVars>>
     \/ part = "blocks" /\ HandlesNext /\ UNCHANGED <<vars, gatewayVars, hasherVars>>
     \/ part = "session" /\ GatewayNext /\ UNCHANGED <<vars, handlesVars, hasherVars>>
     \/ part = "hasher" /\ HasherNext /\ UNCHANGED <<vars, handlesVars, gatewayVars>>

MCSpec == MCInit /\ [][MCNext]_<<partVars, part>>

\* Bound: calls of Acquire and Allocate.
MaxAcquire == 5
Bounded == acquired <= MaxAcquire

Symmetry == Permutations(Callers) \cup Permutations(Handles)
=============================================================================
