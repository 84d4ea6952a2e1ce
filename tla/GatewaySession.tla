--------------------------- MODULE GatewaySession ---------------------------
(***************************************************************************)
(* The gateway's sessions: GatewayClientSession over GatewaySession, and   *)
(* GatewayServerSession.  A session object is pooled: Session::Init and    *)
(* ResetForReuse, from the engine, call the hooks OnInit and OnReset of    *)
(* its class.  Its fields are plain, and its setters look at nothing: a    *)
(* handler that still holds the object when its connection ends may write  *)
(* at any moment, between two assignments of a hook too.                   *)
(*                                                                         *)
(* A field holds who wrote it: the number of the connection whose handler  *)
(* did, or 0 for the value the hooks give it.                              *)
(***************************************************************************)
EXTENDS Integers, Sequences

CONSTANTS
  Handlers,       \* threads in a packet handler
  MaxConns,       \* bound: connections the object serves, one after another
  MaxWrites       \* bound: calls of setters

ASSUME GatewayAssumption == MaxConns \in Nat /\ MaxWrites \in Nat

VARIABLES
  class,          \* the object's class
  life,           \* the connection it serves, 0 when it is free
  conns,          \* connections served so far
  val,            \* who wrote each field
  flags,          \* connectionFlags_: bits that are set, each with who set it
  todo,           \* the fields a hook has still to assign
  holds,          \* the connection each handler began for, 0 when it has none
  seen,           \* what a handler has read of the flags and will write back: {} or {the flags}
  late,           \* a handler of an earlier connection wrote since the last hook
  writes          \* calls of setters so far

gatewayVars == <<class, life, conns, val, flags, todo, holds, seen, late, writes>>

Flags == {"LoginServer", "WorldServer", "ChatServer", "TestServer"}
BaseFields == <<"kind", "connectedAt", "lastActivityAt">>
ClientFields == <<"phase", "connectionFlags", "lastRedirectTarget",
                  "lastRedirectToken", "protocolVersion", "accountId">>
ServerFields == <<"backendType", "backendState", "serverId">>
AllFields == LET s == BaseFields \o ClientFields \o ServerFields IN {s[i] : i \in DOMAIN s}

GatewayInit ==
  /\ class \in {"client", "server"}
  /\ life = 0 /\ conns = 0
  /\ val = [f \in AllFields |-> 0]
  /\ flags = {}
  /\ todo = <<>>
  /\ holds = [h \in Handlers |-> 0]
  /\ seen = [h \in Handlers |-> {}]
  /\ late = FALSE
  /\ writes = 0

-----------------------------------------------------------------------------
(* The hooks.                                                              *)

Fields == IF class = "client" THEN BaseFields \o ClientFields ELSE ServerFields

\* Mutant: OnInit leaves the account of the last connection.
OnInitFields_NotAccount == SelectSeq(Fields, LAMBDA f : f # "accountId")

\* What OnInit of the class assigns, its base class's OnInit first.
OnInitFields == Fields

\* What OnReset assigns.
OnResetFields == Fields

InitSession ==
  /\ life = 0 /\ todo = <<>> /\ conns < MaxConns
  /\ life' = conns + 1 /\ conns' = conns + 1
  /\ todo' = OnInitFields
  /\ late' = FALSE
  /\ UNCHANGED <<class, val, flags, holds, seen, writes>>

ResetForReuse ==
  /\ life # 0 /\ todo = <<>>
  /\ life' = 0
  /\ todo' = OnResetFields
  /\ late' = FALSE
  /\ UNCHANGED <<class, conns, val, flags, holds, seen, writes>>

\* One assignment of a hook.  OnInit takes both times from the clock.
HookAssigns ==
  /\ todo # <<>>
  /\ LET f == Head(todo) IN
       IF f = "connectionFlags"
         THEN flags' = {} /\ UNCHANGED val
         ELSE /\ val' = [val EXCEPT ![f] = IF f \in {"connectedAt", "lastActivityAt"} THEN life ELSE 0]
              /\ UNCHANGED flags
  /\ todo' = Tail(todo)
  /\ UNCHANGED <<class, life, conns, holds, seen, late, writes>>

-----------------------------------------------------------------------------
(* Handlers.                                                               *)

HandlerBegins(h) ==
  /\ holds[h] = 0
  /\ life # 0 /\ todo = <<>>
  /\ holds' = [holds EXCEPT ![h] = life]
  /\ UNCHANGED <<class, life, conns, val, flags, todo, seen, late, writes>>

HandlerEnds(h) ==
  /\ holds[h] # 0 /\ seen[h] = {}
  /\ holds' = [holds EXCEPT ![h] = 0]
  /\ UNCHANGED <<class, life, conns, val, flags, todo, seen, late, writes>>

\* A handler stores into the object.
Stores(h) ==
  /\ holds[h] # 0
  /\ late' = (late \/ holds[h] # life)
  /\ UNCHANGED <<class, life, conns, todo, holds>>

Calls(h) == seen[h] = {} /\ writes < MaxWrites /\ writes' = writes + 1

\* Touch and the setters of one field.
Settable ==
  IF class = "client"
    THEN {"kind", "lastActivityAt", "phase", "lastRedirectTarget",
          "lastRedirectToken", "protocolVersion", "accountId"}
    ELSE {"backendType", "backendState", "serverId"}

SetField(h, f) ==
  /\ f \in Settable
  /\ Calls(h)
  /\ Stores(h)
  /\ val' = [val EXCEPT ![f] = holds[h]]
  /\ UNCHANGED <<flags, seen>>

\* ClearRedirectInfo, ClearAccountInfo, ClearConnections.
Clear(h) ==
  /\ class = "client"
  /\ Calls(h)
  /\ Stores(h)
  /\ \/ val' = [val EXCEPT !["lastRedirectTarget"] = 0, !["lastRedirectToken"] = 0] /\ UNCHANGED flags
     \/ val' = [val EXCEPT !["accountId"] = 0] /\ UNCHANGED flags
     \/ flags' = {} /\ UNCHANGED val
  /\ UNCHANGED seen

\* AddConnection and RemoveConnection read the byte ...
ReadFlags(h) ==
  /\ class = "client" /\ holds[h] # 0
  /\ Calls(h)
  /\ seen' = [seen EXCEPT ![h] = {flags}]
  /\ UNCHANGED <<class, life, conns, val, flags, todo, holds, late>>

Without(s, f) == {p \in s : p.flag # f}

\* ... and write it back with one bit set or cleared.
WriteFlags(h, f) ==
  /\ Stores(h)
  /\ \E read \in seen[h] :
       \/ flags' = Without(read, f) \cup {[flag |-> f, by |-> holds[h]]}
       \/ flags' = Without(read, f)
  /\ seen' = [seen EXCEPT ![h] = {}]
  /\ UNCHANGED <<val, writes>>

GatewayNext ==
  \/ InitSession \/ ResetForReuse \/ HookAssigns
  \/ \E h \in Handlers :
       \/ HandlerBegins(h) \/ HandlerEnds(h)
       \/ \E f \in AllFields : SetField(h, f)
       \/ Clear(h)
       \/ ReadFlags(h)
       \/ \E f \in Flags : WriteFlags(h, f)

GatewaySpec == GatewayInit /\ [][GatewayNext]_gatewayVars

-----------------------------------------------------------------------------

Writers == {val[f] : f \in AllFields} \cup {p.by : p \in flags}

\* Once a hook has run, a session shows only what the handlers of the connection
\* it serves have written, and a free session shows nothing: whatever handlers
\* wrote between two connections, or while the reset ran, is gone when the next
\* connection begins.  A handler that writes later than that is not covered.
Isolation == todo = <<>> /\ ~late => Writers \subseteq {0, life}
=============================================================================
