---------------------------- MODULE PartsProofs -----------------------------
(***************************************************************************)
(* Theorems about two components that share no state with any other: the   *)
(* gateway sessions and the hasher.                                        *)
(***************************************************************************)
EXTENDS GatewaySession, Hasher, SequenceTheorems, TLAPS

-----------------------------------------------------------------------------
(* Isolation for any number of handlers, connections and writes.  A field  *)
(* a hook has still to assign may show anything; every other one shows the *)
(* connection that is served, as long as nobody came late.  A set of flags *)
(* that was read before the hook is written back late, or not at all.      *)

Elements(s) == {s[i] : i \in DOMAIN s}

Names == {"kind", "connectedAt", "lastActivityAt", "phase", "connectionFlags",
          "lastRedirectTarget", "lastRedirectToken", "protocolVersion", "accountId",
          "backendType", "backendState", "serverId"}

Marks == [flag : Flags, by : Nat]

\* Only the fields of the object's class are ever written.
Foreign ==
  /\ class \in {"client", "server"}
  /\ \A f \in AllFields : f \notin Elements(Fields) \/ f = "connectionFlags" => val[f] = 0
  /\ class = "server" => flags = {} /\ \A h \in Handlers : seen[h] = {}

\* Nobody holds a connection that has not begun.
HoldsInv ==
  /\ life \in Nat /\ conns \in Nat /\ life <= conns
  /\ holds \in [Handlers -> Nat]
  /\ \A h \in Handlers : holds[h] <= conns
  /\ todo # <<>> /\ life # 0 => \A h \in Handlers : holds[h] # life

TodoInv == todo \in Seq(Names) /\ Elements(todo) \subseteq Elements(Fields)

FieldsInv == ~late => \A f \in AllFields : val[f] \in {0, life} \/ f \in Elements(todo)
FlagsInv  == ~late => (\A p \in flags : p.by \in {0, life}) \/ "connectionFlags" \in Elements(todo)

SeenInv ==
  \A h \in Handlers :
    /\ holds[h] = 0 => seen[h] = {}
    /\ ~late /\ holds[h] = life => \A read \in seen[h] : \A p \in read : p.by \in {0, life}

GatewayTypes ==
  /\ val \in [AllFields -> Nat]
  /\ flags \in SUBSET Marks
  /\ seen \in [Handlers -> SUBSET SUBSET Marks]
  /\ late \in BOOLEAN

GatewayInv == GatewayTypes /\ Foreign /\ HoldsInv /\ TodoInv /\ FieldsInv /\ FlagsInv /\ SeenInv

LEMMA TwoLists ==
  ASSUME NEW S, NEW s \in Seq(S), NEW t \in Seq(S), Len(s) = 3, Len(t) = 6
  PROVE  /\ s \o t \in Seq(S) /\ Len(s \o t) = 9
         /\ \A i \in 1..9 : (s \o t)[i] = IF i <= 3 THEN s[i] ELSE t[i - 3]
<1>1. /\ s \o t \in Seq(S) /\ Len(s \o t) = Len(s) + Len(t)
      /\ \A i \in 1..(Len(s) + Len(t)) : (s \o t)[i] = IF i <= Len(s) THEN s[i] ELSE t[i - Len(s)]
  BY ConcatProperties
<1>2. QED
  BY <1>1

\* What the proof needs to know of the lists of fields.
LEMMA FieldsAre ==
  ASSUME class \in {"client", "server"}
  PROVE  /\ Fields \in Seq(Names)
         /\ Settable \subseteq Elements(Fields) \ {"connectionFlags"}
         /\ class = "client" => "connectionFlags" \in Elements(Fields)
         /\ class = "client" => {"lastRedirectTarget", "lastRedirectToken", "accountId"} \subseteq Settable
<1>1. CASE class = "client"
  <2>1. BaseFields \in Seq(Names) /\ Len(BaseFields) = 3
    BY DEF BaseFields, Names
  <2>2. ClientFields \in Seq(Names) /\ Len(ClientFields) = 6
    BY DEF ClientFields, Names
  <2>3. Fields = BaseFields \o ClientFields
    BY <1>1 DEF Fields
  <2>4. Fields \in Seq(Names) /\ Len(Fields) = 9
    BY <2>1, <2>2, <2>3, TwoLists
  <2>5. \A i \in 1..9 : Fields[i] = IF i <= 3 THEN BaseFields[i] ELSE ClientFields[i - 3]
    BY <2>1, <2>2, <2>3, TwoLists
  <2>6. /\ Fields[1] = "kind" /\ Fields[3] = "lastActivityAt" /\ Fields[4] = "phase"
        /\ Fields[5] = "connectionFlags" /\ Fields[6] = "lastRedirectTarget"
        /\ Fields[7] = "lastRedirectToken" /\ Fields[8] = "protocolVersion" /\ Fields[9] = "accountId"
    BY <2>5 DEF BaseFields, ClientFields
  <2>7. \A i \in 1..9 : Fields[i] \in Elements(Fields)
    BY <2>4 DEF Elements
  <2>8. QED
    BY <1>1, <2>4, <2>6, <2>7 DEF Settable
<1>2. CASE class = "server"
  <2>1. Fields = ServerFields
    BY <1>2 DEF Fields
  <2>2. ServerFields \in Seq(Names) /\ Len(ServerFields) = 3
    BY DEF ServerFields, Names
  <2>3. ServerFields[1] = "backendType" /\ ServerFields[2] = "backendState" /\ ServerFields[3] = "serverId"
    BY DEF ServerFields
  <2>4. \A i \in 1..3 : Fields[i] \in Elements(Fields)
    BY <2>1, <2>2 DEF Elements
  <2>5. QED
    BY <1>2, <2>1, <2>2, <2>3, <2>4 DEF Settable
<1>3. QED
  BY <1>1, <1>2

LEMMA FieldsSame ==
  ASSUME UNCHANGED class
  PROVE  Fields' = Fields /\ Elements(Fields)' = Elements(Fields)
BY DEF Fields, Elements

LEMMA TailElements ==
  ASSUME NEW s \in Seq(Names), s # <<>>
  PROVE  /\ Tail(s) \in Seq(Names) /\ Head(s) \in Elements(s)
         /\ Elements(Tail(s)) \subseteq Elements(s)
         /\ \A f \in Elements(s) : f = Head(s) \/ f \in Elements(Tail(s))
<1>1. /\ Tail(s) \in Seq(Names) /\ Len(s) \in Nat /\ Len(s) > 0 /\ Len(Tail(s)) = Len(s) - 1
      /\ DOMAIN s = 1..Len(s) /\ DOMAIN Tail(s) = 1..(Len(s) - 1) /\ Head(s) = s[1]
      /\ \A i \in 1..(Len(s) - 1) : Tail(s)[i] = s[i + 1]
  OBVIOUS
<1>2. ASSUME NEW i \in 1..Len(s) PROVE s[i] = Head(s) \/ s[i] \in Elements(Tail(s))
  <2>1. CASE i = 1
    BY <1>1, <2>1
  <2>2. CASE i # 1
    <3>1. i - 1 \in 1..(Len(s) - 1) /\ (i - 1) + 1 = i
      BY <1>1, <2>2
    <3>2. Tail(s)[i - 1] = s[i]
      BY <1>1, <3>1
    <3>3. QED
      BY <1>1, <3>1, <3>2 DEF Elements
  <2>3. QED
    BY <2>1, <2>2
<1>3. \A i \in 1..(Len(s) - 1) : Tail(s)[i] \in Elements(s)
  BY <1>1 DEF Elements
<1>4. QED
  BY <1>1, <1>2, <1>3 DEF Elements

LEMMA NoElements == Elements(<<>>) = {}
BY DEF Elements

-----------------------------------------------------------------------------
(* The hooks.                                                              *)

\* A hook begins: everything of the class is still to be assigned.
LEMMA HookFrame ==
  ASSUME GatewayInv, todo = <<>>, todo' = Fields, late' = FALSE,
         UNCHANGED <<class, val, flags, holds, seen>>,
         life' \in Nat, conns' \in Nat, conns <= conns', life' <= conns',
         \A h \in Handlers : holds[h] # 0 => holds[h] # life'
  PROVE  GatewayInv'
<1>1. class \in {"client", "server"}
  BY DEF GatewayInv, Foreign
<1>2. Foreign' /\ GatewayTypes'
  BY FieldsSame DEF GatewayInv, Foreign, GatewayTypes
<1>3. HoldsInv'
  BY DEF GatewayInv, HoldsInv
<1>4. TodoInv'
  BY <1>1, FieldsAre, FieldsSame DEF TodoInv
<1>5. FieldsInv'
  BY DEF GatewayInv, Foreign, FieldsInv, Elements
<1>6. FlagsInv'
  BY <1>1, FieldsAre DEF GatewayInv, Foreign, FlagsInv, Elements
<1>7. SeenInv'
  BY DEF GatewayInv, SeenInv
<1>8. QED
  BY <1>2, <1>3, <1>4, <1>5, <1>6, <1>7 DEF GatewayInv

LEMMA InitSessionStep == ASSUME GatewayInv, InitSession PROVE GatewayInv'
<1>1. /\ life' = conns + 1 /\ conns' = conns + 1
      /\ \A h \in Handlers : holds[h] # life'
      /\ life' \in Nat /\ conns' \in Nat /\ conns <= conns' /\ life' <= conns'
  BY DEF InitSession, GatewayInv, HoldsInv
<1>2. QED
  BY <1>1, HookFrame DEF InitSession, OnInitFields

LEMMA ResetForReuseStep == ASSUME GatewayInv, ResetForReuse PROVE GatewayInv'
<1>1. /\ life' = 0 /\ conns' = conns /\ conns \in Nat
      /\ life' \in Nat /\ conns' \in Nat /\ life' <= conns' /\ conns <= conns'
      /\ \A h \in Handlers : holds[h] # 0 => holds[h] # life'
  BY DEF ResetForReuse, GatewayInv, HoldsInv
<1>2. QED
  BY <1>1, HookFrame DEF ResetForReuse, OnResetFields

LEMMA HookAssignsStep == ASSUME GatewayInv, HookAssigns PROVE GatewayInv'
<1> DEFINE f == Head(todo)
<1>1. /\ todo # <<>> /\ todo' = Tail(todo) /\ UNCHANGED <<class, life, conns, holds, seen, late>>
      /\ \/ f = "connectionFlags" /\ flags' = {} /\ val' = val
         \/ /\ f # "connectionFlags" /\ flags' = flags
            /\ \E n \in {0, life} : val' = [val EXCEPT ![f] = n]
  BY DEF HookAssigns
<1>2. life \in Nat /\ todo \in Seq(Names) /\ Elements(todo) \subseteq Elements(Fields)
  BY DEF GatewayInv, HoldsInv, TodoInv
<1>3. /\ todo' \in Seq(Names) /\ f \in Elements(todo) /\ Elements(todo') \subseteq Elements(todo)
      /\ \A g \in Elements(todo) : g = f \/ g \in Elements(todo')
  BY <1>1, <1>2, TailElements
<1> HIDE DEF f
<1>4. \A g \in AllFields : val'[g] = val[g] \/ (g = f /\ f # "connectionFlags" /\ val'[g] \in {0, life})
  BY <1>1 DEF GatewayInv, GatewayTypes
<1>5. \A g \in AllFields : g # f \/ f = "connectionFlags" \/ val'[g] \in {0, life}
  BY <1>1 DEF GatewayInv, GatewayTypes
<1>6. Fields' = Fields /\ Elements(Fields') = Elements(Fields) /\ Elements(todo)' = Elements(todo')
      /\ Elements(Fields)' = Elements(Fields)
  BY <1>1, FieldsSame DEF Elements
<1>7. GatewayTypes'
  BY <1>1, <1>2 DEF GatewayInv, GatewayTypes
<1>8. Foreign'
  BY <1>1, <1>2, <1>3, <1>4, <1>6 DEF GatewayInv, Foreign
<1>9. HoldsInv'
  BY <1>1 DEF GatewayInv, HoldsInv
<1>10. TodoInv'
  BY <1>2, <1>3, <1>6 DEF TodoInv
<1>11. FieldsInv'
  <2>1. SUFFICES ASSUME ~late, NEW g \in AllFields, g \notin Elements(todo')
                 PROVE  val'[g] \in {0, life}
    BY <1>1, <1>6 DEF FieldsInv
  <2>2. CASE g = f /\ f # "connectionFlags"
    BY <1>5, <2>2
  <2>3. CASE g = f /\ f = "connectionFlags"
    BY <1>4, <2>1, <2>3 DEF GatewayInv, Foreign
  <2>4. CASE g # f
    BY <1>3, <1>4, <2>1, <2>4 DEF GatewayInv, FieldsInv
  <2>5. QED
    BY <2>2, <2>3, <2>4
<1>12. FlagsInv'
  BY <1>1, <1>3, <1>6 DEF GatewayInv, FlagsInv
<1>13. SeenInv'
  BY <1>1 DEF GatewayInv, SeenInv
<1>14. QED
  BY <1>7, <1>8, <1>9, <1>10, <1>11, <1>12, <1>13 DEF GatewayInv

-----------------------------------------------------------------------------
(* The handlers.                                                           *)

LEMMA HandlerBeginsStep == ASSUME GatewayInv, NEW h \in Handlers, HandlerBegins(h) PROVE GatewayInv'
<1>1. /\ holds[h] = 0 /\ life # 0 /\ todo = <<>> /\ holds' = [holds EXCEPT ![h] = life]
      /\ UNCHANGED <<class, life, conns, val, flags, todo, seen, late>>
  BY DEF HandlerBegins
<1>2. Foreign' /\ GatewayTypes' /\ TodoInv' /\ FieldsInv' /\ FlagsInv'
  BY <1>1, FieldsSame DEF GatewayInv, Foreign, GatewayTypes, TodoInv, FieldsInv, FlagsInv, Elements
<1>3. HoldsInv'
  BY <1>1 DEF GatewayInv, HoldsInv
<1>4. SeenInv'
  BY <1>1 DEF GatewayInv, SeenInv, HoldsInv
<1>5. QED
  BY <1>2, <1>3, <1>4 DEF GatewayInv

LEMMA HandlerEndsStep == ASSUME GatewayInv, NEW h \in Handlers, HandlerEnds(h) PROVE GatewayInv'
<1>1. /\ seen[h] = {} /\ holds' = [holds EXCEPT ![h] = 0]
      /\ UNCHANGED <<class, life, conns, val, flags, todo, seen, late>>
  BY DEF HandlerEnds
<1>2. Foreign' /\ GatewayTypes' /\ TodoInv' /\ FieldsInv' /\ FlagsInv'
  BY <1>1, FieldsSame DEF GatewayInv, Foreign, GatewayTypes, TodoInv, FieldsInv, FlagsInv, Elements
<1>3. HoldsInv'
  BY <1>1 DEF GatewayInv, HoldsInv
<1>4. SeenInv'
  BY <1>1 DEF GatewayInv, SeenInv, HoldsInv
<1>5. QED
  BY <1>2, <1>3, <1>4 DEF GatewayInv

\* A handler stores into fields of the class, or into the flags.
LEMMA StoreFrame ==
  ASSUME GatewayInv, NEW h \in Handlers, Stores(h),
         val' \in [AllFields -> Nat], flags' \in SUBSET Marks, seen' \in [Handlers -> SUBSET SUBSET Marks],
         \A g \in Handlers : seen'[g] \subseteq seen[g],
         \A f \in AllFields : val'[f] = val[f] \/ (f \in Settable /\ val'[f] \in {0, holds[h]}),
         class = "server" => flags' = {},
         ~late /\ holds[h] = life /\ (\A p \in flags : p.by \in {0, life})
           => \A p \in flags' : p.by \in {0, life}
  PROVE  GatewayInv'
<1>1. /\ holds[h] # 0 /\ late' = (late \/ holds[h] # life)
      /\ UNCHANGED <<class, life, conns, todo, holds>>
      /\ class \in {"client", "server"}
  BY DEF Stores, GatewayInv, Foreign
<1>2. /\ Settable \subseteq Elements(Fields) \ {"connectionFlags"}
      /\ Elements(Fields)' = Elements(Fields) /\ Elements(todo)' = Elements(todo)
  BY <1>1, FieldsAre, FieldsSame DEF Elements
<1>3. GatewayTypes'
  BY <1>1 DEF GatewayInv, GatewayTypes
<1>4. Foreign'
  BY <1>1, <1>2 DEF GatewayInv, Foreign
<1>5. HoldsInv' /\ TodoInv'
  BY <1>1, <1>2 DEF GatewayInv, HoldsInv, TodoInv
<1>6. ~late' => ~late /\ holds[h] = life /\ todo = <<>> /\ Elements(todo) = {}
  BY <1>1, NoElements DEF GatewayInv, GatewayTypes, HoldsInv
<1>7. FieldsInv'
  BY <1>1, <1>2, <1>6 DEF GatewayInv, FieldsInv
<1>8. FlagsInv'
  BY <1>1, <1>2, <1>6 DEF GatewayInv, FlagsInv
<1>9. SeenInv'
  BY <1>1, <1>6 DEF GatewayInv, SeenInv
<1>10. QED
  BY <1>3, <1>4, <1>5, <1>7, <1>8, <1>9 DEF GatewayInv

LEMMA SetFieldStep == ASSUME GatewayInv, NEW h \in Handlers, NEW f \in AllFields, SetField(h, f) PROVE GatewayInv'
<1>1. /\ f \in Settable /\ Stores(h) /\ val' = [val EXCEPT ![f] = holds[h]]
      /\ UNCHANGED <<flags, seen>>
  BY DEF SetField
<1>2. /\ val \in [AllFields -> Nat] /\ flags \in SUBSET Marks /\ seen \in [Handlers -> SUBSET SUBSET Marks]
      /\ holds[h] \in Nat /\ (class = "server" => flags = {})
  BY DEF GatewayInv, GatewayTypes, HoldsInv, Foreign
<1>3. /\ val' \in [AllFields -> Nat]
      /\ \A g \in AllFields : val'[g] = val[g] \/ (g \in Settable /\ val'[g] \in {0, holds[h]})
  BY <1>1, <1>2
<1>4. QED
  BY <1>1, <1>2, <1>3, StoreFrame

LEMMA ClearStep == ASSUME GatewayInv, NEW h \in Handlers, Clear(h) PROVE GatewayInv'
<1>1. /\ class = "client" /\ Stores(h) /\ UNCHANGED seen
      /\ \/ /\ val' = [val EXCEPT !["lastRedirectTarget"] = 0, !["lastRedirectToken"] = 0]
            /\ flags' = flags
         \/ val' = [val EXCEPT !["accountId"] = 0] /\ flags' = flags
         \/ flags' = {} /\ val' = val
  BY DEF Clear
<1>2. /\ val \in [AllFields -> Nat] /\ flags \in SUBSET Marks /\ seen \in [Handlers -> SUBSET SUBSET Marks]
  BY DEF GatewayInv, GatewayTypes
<1>3. {"lastRedirectTarget", "lastRedirectToken", "accountId"} \subseteq Settable
  BY <1>1, FieldsAre
<1>4. /\ val' \in [AllFields -> Nat]
      /\ \A g \in AllFields : val'[g] = val[g] \/ (g \in Settable /\ val'[g] \in {0, holds[h]})
  BY <1>1, <1>2, <1>3
<1>5. flags' \in SUBSET Marks /\ flags' \subseteq flags
  BY <1>1, <1>2
<1>6. QED
  BY <1>1, <1>2, <1>4, <1>5, StoreFrame

LEMMA ReadFlagsStep == ASSUME GatewayInv, NEW h \in Handlers, ReadFlags(h) PROVE GatewayInv'
<1>1. /\ class = "client" /\ holds[h] # 0 /\ seen' = [seen EXCEPT ![h] = {flags}]
      /\ UNCHANGED <<class, life, conns, val, flags, todo, holds, late>>
  BY DEF ReadFlags
<1>2. /\ GatewayTypes' /\ Foreign'
  BY <1>1, FieldsSame DEF GatewayInv, GatewayTypes, Foreign
<1>3. HoldsInv' /\ TodoInv' /\ FieldsInv' /\ FlagsInv'
  BY <1>1, FieldsSame DEF GatewayInv, HoldsInv, TodoInv, FieldsInv, FlagsInv, Elements
<1>4. ~late /\ holds[h] = life => \A p \in flags : p.by \in {0, life}
  BY <1>1, NoElements DEF GatewayInv, HoldsInv, FlagsInv
<1>5. SeenInv'
  BY <1>1, <1>4 DEF GatewayInv, GatewayTypes, SeenInv
<1>6. QED
  BY <1>2, <1>3, <1>5 DEF GatewayInv

LEMMA WriteFlagsStep == ASSUME GatewayInv, NEW h \in Handlers, NEW f \in Flags, WriteFlags(h, f) PROVE GatewayInv'
<1> DEFINE mark == [flag |-> f, by |-> holds[h]]
<1>1. PICK read \in seen[h] : flags' = Without(read, f) \cup {mark} \/ flags' = Without(read, f)
  BY DEF WriteFlags
<1>2. Stores(h) /\ seen' = [seen EXCEPT ![h] = {}] /\ val' = val
  BY DEF WriteFlags
<1>3. /\ val \in [AllFields -> Nat] /\ seen \in [Handlers -> SUBSET SUBSET Marks] /\ holds[h] \in Nat
      /\ class # "server"
  BY <1>1 DEF GatewayInv, GatewayTypes, HoldsInv, Foreign
<1>4. mark \in Marks /\ mark.by = holds[h] /\ Without(read, f) \subseteq read /\ read \subseteq Marks
  BY <1>1, <1>3 DEF Marks, Without
<1> HIDE DEF mark
<1>5. flags' \in SUBSET Marks /\ \A p \in flags' : p \in read \/ p = mark
  BY <1>1, <1>4
<1>6. ~late /\ holds[h] = life => \A p \in flags' : p.by \in {0, life}
  BY <1>1, <1>4, <1>5 DEF GatewayInv, SeenInv
<1>7. seen' \in [Handlers -> SUBSET SUBSET Marks] /\ \A g \in Handlers : seen'[g] \subseteq seen[g]
  BY <1>2, <1>3
<1>8. QED
  BY <1>2, <1>3, <1>5, <1>6, <1>7, StoreFrame

-----------------------------------------------------------------------------
(* The theorem.                                                            *)

LEMMA GatewayInitKeeps == GatewayInit => GatewayInv
<1> SUFFICES ASSUME GatewayInit PROVE GatewayInv
  OBVIOUS
<1>1. GatewayTypes /\ Foreign
  BY DEF GatewayInit, GatewayTypes, Foreign
<1>2. HoldsInv
  BY DEF GatewayInit, HoldsInv
<1>3. TodoInv
  BY NoElements DEF GatewayInit, TodoInv
<1>4. FieldsInv /\ FlagsInv /\ SeenInv
  BY DEF GatewayInit, FieldsInv, FlagsInv, SeenInv
<1>5. QED
  BY <1>1, <1>2, <1>3, <1>4 DEF GatewayInv

LEMMA GatewayStepKeeps == GatewayInv /\ [GatewayNext]_gatewayVars => GatewayInv'
<1> SUFFICES ASSUME GatewayInv, [GatewayNext]_gatewayVars PROVE GatewayInv'
  OBVIOUS
<1>1. CASE InitSession \/ ResetForReuse \/ HookAssigns
  BY <1>1, InitSessionStep, ResetForReuseStep, HookAssignsStep
<1>2. ASSUME NEW h \in Handlers, HandlerBegins(h) \/ HandlerEnds(h) \/ Clear(h) \/ ReadFlags(h)
      PROVE  GatewayInv'
  BY <1>2, HandlerBeginsStep, HandlerEndsStep, ClearStep, ReadFlagsStep
<1>3. ASSUME NEW h \in Handlers, NEW f \in AllFields, SetField(h, f) PROVE GatewayInv'
  BY <1>3, SetFieldStep
<1>4. ASSUME NEW h \in Handlers, NEW f \in Flags, WriteFlags(h, f) PROVE GatewayInv'
  BY <1>4, WriteFlagsStep
<1>5. CASE UNCHANGED gatewayVars
  <2>1. UNCHANGED <<class, life, conns, val, flags, todo, holds, seen, late>>
    BY <1>5 DEF gatewayVars
  <2>2. Elements(Fields)' = Elements(Fields) /\ Elements(todo)' = Elements(todo)
    BY <2>1, FieldsSame DEF Elements
  <2>3. GatewayTypes' /\ Foreign'
    BY <2>1, <2>2 DEF GatewayInv, GatewayTypes, Foreign
  <2>4. HoldsInv' /\ TodoInv' /\ FieldsInv' /\ FlagsInv' /\ SeenInv'
    BY <2>1, <2>2 DEF GatewayInv, HoldsInv, TodoInv, FieldsInv, FlagsInv, SeenInv
  <2>5. QED
    BY <2>3, <2>4 DEF GatewayInv
<1>6. QED
  BY <1>1, <1>2, <1>3, <1>4, <1>5 DEF GatewayNext

\* After a hook of GatewayClientSession or GatewayServerSession has run, and until
\* a handler of an earlier connection writes, the session shows only what the
\* handlers of the connection it serves have written.
THEOREM SessionsIsolated == GatewaySpec => []Isolation
<1>1. GatewayInv => Isolation
  BY NoElements DEF GatewayInv, Isolation, Writers, FieldsInv, FlagsInv
<1>2. QED
  BY <1>1, GatewayInitKeeps, GatewayStepKeeps, PTL DEF GatewaySpec

-----------------------------------------------------------------------------
(* The hasher, for any block and any cutting of a message into calls: what *)
(* was absorbed is whole blocks of the message and the block holds the     *)
(* rest of it, and closing it is padding the message.                      *)

\* What blocks are made of: data, and the bytes of a length.
Symbols == Nat \cup {BigEndian(k)[i] : k \in Nat, i \in 1..LengthBytes}

-----------------------------------------------------------------------------
(* Whole blocks.                                                           *)

LEMMA Sizes == BlockBytes \in Nat /\ LengthBytes \in Nat /\ LengthBytes > 0 /\ BlockBytes > LengthBytes
BY HasherAssumption

LEMMA Divided ==
  ASSUME NEW l \in Nat, NEW b \in Nat, b > 0, NEW q, NEW r, q = l \div b, r = l % b
  PROVE  q \in Nat /\ r \in 0..(b - 1) /\ l = b * q + r
OBVIOUS

\* l bytes are whole blocks.
Blocks(l) == \E q \in Nat : l = q * BlockBytes

\* A length is some blocks and less than one more.
LEMMA WholeBlocks ==
  ASSUME NEW l \in Nat
  PROVE  /\ l % BlockBytes \in 0..(BlockBytes - 1)
         /\ Blocks(l - (l % BlockBytes))
         /\ l - (l % BlockBytes) \in 0..l
<1> DEFINE B == BlockBytes
           r == l % B
           q == l \div B
<1>1. B \in Nat /\ B > 0
  BY Sizes
<1> HIDE DEF B
<1>2. q \in Nat /\ r \in 0..(B - 1) /\ l = B * q + r
  BY <1>1, Divided
<1> HIDE DEF q, r
<1>3. l - r = q * B /\ l - r \in 0..l
  <2>1. B * q = q * B /\ B * q \in Nat
    BY <1>1, <1>2
  <2> DEFINE p == B * q
  <2> HIDE DEF p
  <2>2. l = p + r /\ p \in Nat /\ p = q * B
    BY <1>2, <2>1 DEF p
  <2>3. QED
    BY <1>1, <1>2, <2>2
<1>4. QED
  BY <1>2, <1>3 DEF B, r, Blocks

\* Fewer than a block away from whole blocks there is one such length.
LEMMA OneMultiple ==
  ASSUME NEW s \in Int, NEW t \in Int, NEW j \in 0..(BlockBytes - 1), NEW k \in 0..(BlockBytes - 1),
         s * BlockBytes - t * BlockBytes = j - k
  PROVE  j = k
<1> DEFINE B == BlockBytes
<1>1. B \in Nat /\ B > 0 /\ j \in Int /\ k \in Int /\ j - k < B /\ k - j < B
  BY Sizes
<1>2. s * B - t * B = (s - t) * B
  BY <1>1
<1> DEFINE u == s - t
<1>3. u \in Int /\ u * B = j - k
  BY <1>2
<1> HIDE DEF B, u
<1>4. ~(u > 0)
  <2> SUFFICES ASSUME u > 0 PROVE FALSE
    OBVIOUS
  <2>1. u * B >= B
    BY <1>1, <1>3
  <2>2. QED
    BY <1>1, <1>3, <2>1
<1>5. ~(u < 0)
  <2> SUFFICES ASSUME u < 0 PROVE FALSE
    OBVIOUS
  <2>1. (-u) * B >= B
    BY <1>1, <1>3
  <2>2. (-u) * B = -(u * B)
    BY <1>1, <1>3
  <2>3. QED
    BY <1>1, <1>3, <2>1, <2>2
<1>6. u = 0
  BY <1>3, <1>4, <1>5
<1>7. 0 * B = 0
  BY <1>1
<1>8. QED
  BY <1>1, <1>3, <1>6, <1>7

\* The zeros of a message are those that fill its last block.
LEMMA ZerosAre ==
  ASSUME NEW l \in Nat, NEW q \in Nat, NEW z \in 0..(BlockBytes - 1),
         l + 1 + z + LengthBytes = q * BlockBytes
  PROVE  z = CHOOSE k \in 0..(BlockBytes - 1) : (l + 1 + k + LengthBytes) % BlockBytes = 0
<1> DEFINE B == BlockBytes
           P(k) == (l + 1 + k + LengthBytes) % B = 0
<1>1. B \in Nat /\ B > 0 /\ LengthBytes \in Nat
  BY Sizes
<1>2. P(z)
  <2>1. (q * B) % B = 0
    <3> HIDE DEF B
    <3>1. QED
      BY <1>1
  <2>2. QED
    BY <2>1
<1>3. ASSUME NEW k \in 0..(B - 1), P(k) PROVE k = z
  <2> DEFINE x == l + 1 + k + LengthBytes
             t == x \div B
             r == x % B
  <2>1. x \in Nat
    BY <1>1
  <2>2. r = 0
    BY <1>3
  <2> HIDE DEF x
  <2>3. t \in Nat /\ r \in 0..(B - 1) /\ x = B * t + r
    BY <1>1, <2>1, Divided
  <2> HIDE DEF t, r
  <2>4. x = t * B
    BY <1>1, <2>2, <2>3
  <2>5. t * B - q * B = k - z
    <3> DEFINE a == t * B
               b == q * B
    <3>1. a = l + 1 + k + LengthBytes /\ b = l + 1 + z + LengthBytes
      BY <2>4 DEF x
    <3> HIDE DEF a, b
    <3>2. a - b = k - z
      BY <1>1, <3>1
    <3>3. QED
      BY <3>2 DEF a, b
  <2>6. t \in Int /\ q \in Int
    BY <2>3
  <2>7. QED
    BY <2>5, <2>6, OneMultiple
<1> DEFINE c == CHOOSE k \in 0..(B - 1) : P(k)
<1>4. c \in 0..(B - 1) /\ P(c)
  <2> HIDE DEF P
  <2>1. z \in 0..(B - 1)
    OBVIOUS
  <2>2. QED
    BY <1>2, <2>1, Zenon
<1> HIDE DEF c, P
<1>5. c = z
  BY <1>3, <1>4
<1>6. QED
  BY <1>5 DEF c, P

-----------------------------------------------------------------------------
(* The padding.                                                            *)

LEMMA ZerosIs ==
  ASSUME NEW n \in Nat
  PROVE  Zeros(n) \in Seq(Symbols) /\ Len(Zeros(n)) = n /\ \A i \in 1..n : Zeros(n)[i] = 0
<1>1. 0 \in Symbols
  BY DEF Symbols
<1>2. Zeros(n) \in [1..n -> Symbols] /\ \A i \in 1..n : Zeros(n)[i] = 0
  BY <1>1 DEF Zeros
<1>3. QED
  BY <1>2

LEMMA LengthIs ==
  ASSUME NEW n \in Nat
  PROVE  BigEndian(n) \in Seq(Symbols)
<1>1. \A i \in 1..LengthBytes : BigEndian(n)[i] \in Symbols
  BY DEF Symbols
<1>2. BigEndian(n) \in [1..LengthBytes -> Symbols]
  BY <1>1 DEF BigEndian
<1>3. QED
  BY <1>2, Sizes

LEMMA MoreZeros ==
  ASSUME NEW m \in Nat, NEW n \in Nat
  PROVE  Zeros(m) \o Zeros(n) = Zeros(m + n)
<1> DEFINE x == Zeros(m)
           y == Zeros(n)
           z == Zeros(m + n)
<1>1. /\ x \in Seq(Symbols) /\ Len(x) = m /\ (\A i \in 1..m : x[i] = 0)
      /\ y \in Seq(Symbols) /\ Len(y) = n /\ (\A i \in 1..n : y[i] = 0)
      /\ z \in Seq(Symbols) /\ Len(z) = m + n /\ (\A i \in 1..(m + n) : z[i] = 0)
  <2>1. m + n \in Nat
    OBVIOUS
  <2>2. QED
    BY <2>1, ZerosIs
<1> HIDE DEF x, y, z
<1>2. /\ x \o y \in Seq(Symbols) /\ Len(x \o y) = m + n
      /\ \A i \in 1..(m + n) : (x \o y)[i] = IF i <= m THEN x[i] ELSE y[i - m]
  BY <1>1, ConcatProperties
<1>3. ASSUME NEW i \in 1..(m + n) PROVE (x \o y)[i] = z[i]
  <2>1. i <= m => i \in 1..m
    OBVIOUS
  <2>2. ~(i <= m) => i - m \in 1..n
    OBVIOUS
  <2>3. QED
    BY <1>1, <1>2, <2>1, <2>2
<1>4. x \o y = z
  BY <1>1, <1>2, <1>3, SeqEqual
<1>5. QED
  BY <1>4 DEF x, y, z

Three(x, y, z) == x \in Seq(Symbols) /\ y \in Seq(Symbols) /\ z \in Seq(Symbols)

LEMMA Associative ==
  ASSUME NEW x, NEW y, NEW z, Three(x, y, z)
  PROVE  (x \o y) \o z = x \o (y \o z) /\ x \o y \in Seq(Symbols) /\ y \o z \in Seq(Symbols)
BY ConcatAssociative DEF Three

LEMMA Added ==
  ASSUME NEW a, NEW x, NEW y, Three(a, x, y)
  PROVE  Len(a \o x) = Len(a) + Len(x) /\ Len(a) \in Nat
BY DEF Three

Six(a, b, o, f, g, e) == Three(a, b, o) /\ Three(f, g, e)

LEMMA Regrouped ==
  ASSUME NEW a, NEW b, NEW o, NEW f, NEW g, NEW e, Six(a, b, o, f, g, e)
  PROVE  a \o (b \o o \o f \o g \o e) = a \o b \o o \o (f \o g) \o e
<1> DEFINE x == b \o o
           h == f \o g
           y == x \o h
<1>1. Three(a, b, o) /\ Three(f, g, e)
  BY DEF Six
<1>2. a \o b \o o = a \o x /\ x \in Seq(Symbols) /\ h \in Seq(Symbols)
  <2>1. a \o b \o o = a \o (b \o o)
    BY <1>1, Associative
  <2>2. b \o o \in Seq(Symbols)
    BY <1>1, Associative
  <2>3. f \o g \in Seq(Symbols)
    BY <1>1, Associative
  <2>4. QED
    BY <2>1, <2>2, <2>3
<1> HIDE DEF x
<1>3. Three(x, f, g)
  BY <1>1, <1>2 DEF Three
<1>4. x \o f \o g = y
  BY <1>3, Associative
<1> HIDE DEF h
<1>5. Three(a, x, h)
  BY <1>1, <1>2 DEF Three
<1>6. a \o x \o h = a \o y /\ y \in Seq(Symbols)
  BY <1>5, Associative
<1> HIDE DEF y
<1>7. Three(a, y, e)
  BY <1>1, <1>6 DEF Three
<1>8. a \o y \o e = a \o (y \o e)
  BY <1>7, Associative
<1>9. QED
  BY <1>2, <1>4, <1>6, <1>8 DEF x, h

Grouped(a, b, o, f, g, e, p, w) ==
  /\ Six(a, b, o, f, g, e)
  /\ p = b \o o \o f \o g \o e
  /\ w = a \o b \o o \o (f \o g) \o e

LEMMA Appended ==
  ASSUME NEW a, NEW b, NEW o, NEW f, NEW g, NEW e, NEW p, NEW w, Grouped(a, b, o, f, g, e, p, w)
  PROVE  a \o p = w
<1>1. Six(a, b, o, f, g, e)
  BY DEF Grouped
<1>2. a \o (b \o o \o f \o g \o e) = a \o b \o o \o (f \o g) \o e
  BY <1>1, Regrouped
<1>3. QED
  BY <1>2 DEF Grouped

\* Closing a message that fills whole blocks and part of one pads it.
LEMMA Closed ==
  ASSUME NEW a \in Seq(Symbols), NEW b \in Seq(Symbols), Blocks(Len(a)), Len(b) < BlockBytes
  PROVE  a \o Padding(b, 8 * Len(a)) = Padded(a \o b)
<1> DEFINE B    == BlockBytes
           used == Len(b) + 1
           f    == IF NoRoom(used) THEN Zeros(B - used) ELSE <<>>
           rest == IF NoRoom(used) THEN 0 ELSE used
           g    == Zeros(B - LengthBytes - rest)
           bits == 8 * Len(a) + 8 * Len(b)
           e    == BigEndian(bits)
           o    == <<128>>
           l    == Len(a \o b)
           z    == IF NoRoom(used) THEN (B - used) + (B - LengthBytes) ELSE B - LengthBytes - used
<1>1. /\ Len(a) \in Nat /\ Len(b) \in Nat /\ used \in 1..B /\ l = Len(a) + Len(b)
      /\ B \in Nat /\ LengthBytes \in Nat /\ LengthBytes < B /\ LengthBytes > 0
  BY Sizes
<1>2. f \o g = Zeros(z) /\ f \in Seq(Symbols) /\ g \in Seq(Symbols)
  <2>1. CASE NoRoom(used)
    <3>1. B - used \in Nat /\ B - LengthBytes \in Nat /\ B - LengthBytes - 0 = B - LengthBytes
      BY <1>1
    <3>2. f = Zeros(B - used) /\ g = Zeros(B - LengthBytes) /\ z = (B - used) + (B - LengthBytes)
      BY <2>1, <3>1
    <3> HIDE DEF f, g, z, used, B
    <3>3. QED
      BY <3>1, <3>2, MoreZeros, ZerosIs
  <2>2. CASE ~NoRoom(used)
    <3>1. B - LengthBytes - used \in Nat
      BY <1>1, <2>2 DEF NoRoom
    <3>2. f = <<>> /\ g = Zeros(z) /\ z \in Nat
      BY <2>2, <3>1
    <3> HIDE DEF f, g, z, used, B
    <3>3. <<>> \in Seq(Symbols)
      OBVIOUS
    <3>4. g \in Seq(Symbols)
      BY <3>2, ZerosIs
    <3>5. <<>> \o g = g
      BY <3>4
    <3>6. QED
      BY <3>2, <3>3, <3>4, <3>5
  <2>3. QED
    BY <2>1, <2>2
<1>3. o \in Seq(Symbols)
  <2>1. 128 \in Symbols
    BY DEF Symbols
  <2>2. QED
    BY <2>1
<1>4. bits = 8 * l /\ bits \in Nat
  BY <1>1
<1>5. e \in Seq(Symbols)
  <2> HIDE DEF bits
  <2>1. QED
    BY <1>4, LengthIs
<1>6. z \in 0..(B - 1) /\ \E p \in Nat : l + 1 + z + LengthBytes = p * B
  <2>1. PICK q \in Nat : Len(a) = q * BlockBytes
    BY DEF Blocks
  <2> DEFINE la == Len(a)
             lb == Len(b)
  <2>2. /\ la \in Nat /\ lb \in Nat /\ used = lb + 1 /\ l = la + lb /\ la = q * B
        /\ B \in Nat /\ LengthBytes \in Nat /\ used \in 1..B /\ LengthBytes < B
    BY <1>1, <2>1
  <2>3. CASE NoRoom(used)
    <3>1. used > B - LengthBytes
      BY <2>3 DEF NoRoom
    <3>2. z = (B - used) + (B - LengthBytes)
      BY <2>3
    <3> HIDE DEF z, l, la, lb, used, B
    <3>3. z \in 0..(B - 1)
      BY <2>2, <3>1, <3>2
    <3>4. l + 1 + z + LengthBytes = la + 2 * B
      BY <2>2, <3>2
    <3>5. q * B + 2 * B = (q + 2) * B
      BY <1>1
    <3>6. l + 1 + z + LengthBytes = (q + 2) * B /\ q + 2 \in Nat
      BY <2>2, <3>4, <3>5
    <3>7. QED
      BY <3>3, <3>6
  <2>4. CASE ~NoRoom(used)
    <3>1. ~(used > B - LengthBytes)
      BY <2>4 DEF NoRoom
    <3>2. z = B - LengthBytes - used
      BY <2>4
    <3> HIDE DEF z, l, la, lb, used, B
    <3>3. z \in 0..(B - 1)
      BY <2>2, <3>1, <3>2
    <3>4. l + 1 + z + LengthBytes = la + B
      BY <2>2, <3>2
    <3>5. q * B + B = (q + 1) * B
      BY <1>1
    <3>6. l + 1 + z + LengthBytes = (q + 1) * B /\ q + 1 \in Nat
      BY <2>2, <3>4, <3>5
    <3>7. QED
      BY <3>3, <3>6
  <2>5. QED
    BY <2>3, <2>4
<1>7. l \in Nat
  BY <1>1
<1> HIDE DEF f, g, z, o, rest, used, bits, l
<1>8. z = CHOOSE k \in 0..(B - 1) : (l + 1 + k + LengthBytes) % B = 0
  BY <1>6, <1>7, ZerosAre
<1>9. Padded(a \o b) = a \o b \o o \o Zeros(z) \o BigEndian(8 * l)
  <2> DEFINE c == CHOOSE k \in 0..(BlockBytes - 1) :
                    (Len(a \o b) + 1 + k + LengthBytes) % BlockBytes = 0
  <2>1. Padded(a \o b) = a \o b \o <<128>> \o Zeros(c) \o BigEndian(8 * Len(a \o b))
    BY DEF Padded
  <2>2. z = c
    BY <1>8 DEF l
  <2> HIDE DEF c
  <2>3. QED
    BY <2>1, <2>2 DEF l, o
<1> HIDE DEF e
<1> DEFINE p == b \o o \o f \o g \o e
           w == Padded(a \o b)
<1>10. Six(a, b, o, f, g, e)
  BY <1>2, <1>3, <1>5 DEF Six, Three
<1>11. w = a \o b \o o \o (f \o g) \o e
  BY <1>2, <1>4, <1>9 DEF e
<1>12. Padding(b, 8 * Len(a)) = p
  BY DEF Padding, f, g, o, e, bits, rest, used
<1> HIDE DEF w
<1>13. a \o p = w
  <2>1. Grouped(a, b, o, f, g, e, p, w)
    BY <1>10, <1>11 DEF Grouped
  <2> HIDE DEF p
  <2>2. QED
    BY <2>1, Appended
<1>14. QED
  BY <1>12, <1>13 DEF w

-----------------------------------------------------------------------------
(* What a hasher stands for, and what its operations make of that.         *)

\* Of the sequence s, x is the whole blocks and y the rest.
IsCut(s, full, x, y) ==
  /\ s \in Seq(Symbols)
  /\ full = Len(s) - (Len(s) % BlockBytes)
  /\ x = SubSeq(s, 1, full)
  /\ y = SubSeq(s, full + 1, Len(s))

\* A sequence is its whole blocks and less than one more.
LEMMA Cut ==
  ASSUME NEW s, NEW full, NEW x, NEW y, IsCut(s, full, x, y)
  PROVE  /\ x \in Seq(Symbols) /\ y \in Seq(Symbols) /\ x \o y = s
         /\ full \in Nat /\ Len(x) = full /\ Blocks(full) /\ Len(y) < BlockBytes
<1> DEFINE l == Len(s)
           r == l % BlockBytes
<1>1. s \in Seq(Symbols) /\ x = SubSeq(s, 1, full) /\ y = SubSeq(s, full + 1, l)
  BY DEF IsCut
<1>2. l \in Nat /\ full = l - r
  BY <1>1 DEF IsCut
<1>3. r \in 0..(BlockBytes - 1) /\ Blocks(full) /\ full \in 0..l
  BY <1>2, WholeBlocks
<1> HIDE DEF r
<1>4. \A i \in 1..l : s[i] \in Symbols
  BY <1>1
<1>5. x \in Seq(Symbols) /\ Len(x) = full
  <2>1. 1 \in Int /\ full \in Int /\ \A i \in 1..full : s[i] \in Symbols
    BY <1>2, <1>3, <1>4
  <2>2. x \in Seq(Symbols) /\ Len(x) = IF 1 <= full THEN full - 1 + 1 ELSE 0
    BY <1>1, <2>1, SubSeqProperties
  <2>3. QED
    BY <1>2, <1>3, <2>2
<1>6. y \in Seq(Symbols) /\ Len(y) = r
  <2>1. full + 1 \in Int /\ l \in Int /\ \A i \in (full + 1)..l : s[i] \in Symbols
    BY <1>2, <1>3, <1>4
  <2>2. y \in Seq(Symbols) /\ Len(y) = IF full + 1 <= l THEN l - (full + 1) + 1 ELSE 0
    BY <1>1, <2>1, SubSeqProperties
  <2>3. QED
    BY Sizes, <1>2, <1>3, <2>2
<1>7. x \o y = s
  <2>1. 1 \in 1..(l + 1) /\ full \in (1 - 1)..l /\ l \in full..l
    BY <1>2, <1>3
  <2>2. x \o y = SubSeq(s, 1, l)
    BY <1>1, <2>1, ConcatAdjacentSubSeq
  <2>3. QED
    BY <1>1, <2>2, SubSeqFull
<1>8. QED
  BY Sizes, <1>2, <1>3, <1>5, <1>6, <1>7

LEMMA MoreBlocks ==
  ASSUME NEW m \in Nat, NEW n \in Nat, Blocks(m), Blocks(n)
  PROVE  Blocks(m + n)
<1>1. PICK p \in Nat : m = p * BlockBytes
  BY DEF Blocks
<1>2. PICK q \in Nat : n = q * BlockBytes
  BY DEF Blocks
<1>3. m + n = (p + q) * BlockBytes /\ p + q \in Nat
  BY <1>1, <1>2, Sizes
<1>4. QED
  BY <1>3 DEF Blocks

\* What a hasher that has absorbed a, holds b and counted len bits stands for.
Holds(a, b, len, m) ==
  /\ a \in Seq(Symbols) /\ b \in Seq(Symbols) /\ a \o b = m
  /\ Blocks(Len(a)) /\ Len(b) < BlockBytes /\ len = 8 * Len(a)

\* More data: whole blocks of it are absorbed, and the rest is kept.
LEMMA Collected ==
  ASSUME NEW a, NEW b, NEW len, NEW m, Holds(a, b, len, m), NEW d \in Seq(Symbols),
         Collect(a, b, len, d)
  PROVE  Holds(absorbed', block', bitLength', m \o d)
<1> DEFINE s    == b \o d
           full == Len(s) - (Len(s) % BlockBytes)
           x    == SubSeq(s, 1, full)
           y    == SubSeq(s, full + 1, Len(s))
<1>1. absorbed' = a \o x /\ block' = y /\ bitLength' = len + 8 * full
  BY DEF Collect
<1>2. Three(a, b, d)
  BY DEF Holds, Three
<1>3. m \o d = a \o s /\ s \in Seq(Symbols)
  <2>1. m \o d = (a \o b) \o d
    BY DEF Holds
  <2>2. QED
    BY <1>2, <2>1, Associative
<1>4. IsCut(s, full, x, y)
  BY <1>3 DEF IsCut
<1> HIDE DEF s, x, y, full
<1>5. /\ x \in Seq(Symbols) /\ y \in Seq(Symbols) /\ x \o y = s
      /\ full \in Nat /\ Len(x) = full /\ Blocks(full) /\ Len(y) < BlockBytes
  BY <1>4, Cut
<1>6. Three(a, x, y)
  BY <1>5 DEF Holds, Three
<1>7. (a \o x) \o y = m \o d /\ a \o x \in Seq(Symbols)
  <2>1. (a \o x) \o y = a \o (x \o y) /\ a \o x \in Seq(Symbols)
    BY <1>6, Associative
  <2>2. QED
    BY <1>3, <1>5, <2>1
<1>8. Len(a \o x) = Len(a) + full /\ Len(a) \in Nat
  BY <1>5, <1>6, Added
<1>9. Blocks(Len(a \o x))
  BY <1>5, <1>8, MoreBlocks DEF Holds
<1>10. len + 8 * full = 8 * Len(a \o x)
  BY <1>5, <1>8 DEF Holds
<1>11. QED
  BY <1>1, <1>5, <1>7, <1>9, <1>10 DEF Holds

LEMMA Started == Holds(<<>>, <<>>, 0, <<>>)
<1>1. 0 = 0 * BlockBytes
  BY Sizes
<1>2. <<>> \in Seq(Symbols) /\ Len(<<>>) = 0 /\ <<>> \o <<>> = <<>>
  OBVIOUS
<1>3. Blocks(Len(<<>>))
  BY <1>1, <1>2 DEF Blocks
<1>4. QED
  BY <1>2, <1>3, Sizes DEF Holds

LEMMA DataIs ==
  ASSUME NEW m \in Nat, NEW n \in Nat
  PROVE  Data(m, n) \in Seq(Symbols) /\ Len(Data(m, n)) = n
<1>1. \A i \in 1..n : 1 + ((m + i) % 3) \in Symbols
  BY DEF Symbols
<1>2. Data(m, n) \in [1..n -> Symbols]
  BY <1>1 DEF Data
<1>3. QED
  BY <1>2

HashInv ==
  /\ message \in Seq(Symbols)
  /\ ~finalized => Holds(absorbed, block, bitLength, message)
  /\ Digest

\* Reset leaves a hasher that holds nothing; Init is one.
LEMMA HashStarts == HasherInit => HashInv
BY Started DEF HasherInit, HashInv, Digest

LEMMA UpdateKeeps ==
  ASSUME HashInv, NEW n \in 0..MaxData, Update(n)
  PROVE  HashInv'
<1>1. n \in Nat
  BY HasherAssumption
<1>2. finalized' = FALSE
  BY DEF Update
<1>3. CASE finalized
  <2> DEFINE d == Data(0, n)
  <2>1. message' = d /\ Collect(<<>>, <<>>, 0, d)
    BY <1>3 DEF Update
  <2>2. d \in Seq(Symbols)
    BY <1>1, DataIs
  <2> HIDE DEF d
  <2>3. Holds(absorbed', block', bitLength', <<>> \o d)
    BY <2>1, <2>2, Started, Collected
  <2>4. <<>> \o d = d
    BY <2>2
  <2>5. QED
    BY <1>2, <2>1, <2>2, <2>3, <2>4 DEF HashInv, Digest, Holds
<1>4. CASE ~finalized
  <2> DEFINE d == Data(Len(message), n)
  <2>1. message' = message \o d /\ Collect(absorbed, block, bitLength, d)
    BY <1>4 DEF Update
  <2>2. message \in Seq(Symbols) /\ Len(message) \in Nat
    BY DEF HashInv
  <2>3. d \in Seq(Symbols)
    BY <1>1, <2>2, DataIs
  <2> HIDE DEF d
  <2>4. Holds(absorbed, block, bitLength, message)
    BY <1>4 DEF HashInv
  <2>5. Holds(absorbed', block', bitLength', message \o d)
    BY <2>1, <2>3, <2>4, Collected
  <2>6. message \o d \in Seq(Symbols)
    BY <2>2, <2>3
  <2>7. QED
    BY <1>2, <2>1, <2>5, <2>6 DEF HashInv, Digest, Holds
<1>5. QED
  BY <1>3, <1>4

\* Pad and the last Transform close what was held.
LEMMA FinalizeKeeps ==
  ASSUME HashInv, Finalize
  PROVE  HashInv'
<1>1. finalized' = TRUE /\ message' = message
  BY DEF Finalize
<1>2. absorbed' = Padded(message)
  <2>1. CASE finalized
    BY <2>1 DEF Finalize, HashInv, Digest
  <2>2. CASE ~finalized
    <3>1. absorbed' = absorbed \o Padding(block, bitLength)
      BY <2>2 DEF Finalize
    <3>2. Holds(absorbed, block, bitLength, message)
      BY <2>2 DEF HashInv
    <3>3. absorbed \o Padding(block, 8 * Len(absorbed)) = Padded(absorbed \o block)
      BY <3>2, Closed DEF Holds
    <3>4. QED
      BY <3>1, <3>2, <3>3 DEF Holds
  <2>3. QED
    BY <2>1, <2>2
<1>3. QED
  BY <1>1, <1>2 DEF HashInv, Digest, Padded

LEMMA CalculateKeeps ==
  ASSUME HashInv, NEW n \in 0..MaxData, CalculateHex(n)
  PROVE  HashInv'
<1> DEFINE d    == Data(0, n)
           full == n - (n % BlockBytes)
           x    == SubSeq(d, 1, full)
           y    == SubSeq(d, full + 1, n)
<1>1. message' = d /\ absorbed' = x \o Padding(y, 8 * full) /\ finalized' = TRUE
  BY DEF CalculateHex
<1>2. d \in Seq(Symbols) /\ Len(d) = n
  BY HasherAssumption, DataIs
<1>3. IsCut(d, full, x, y)
  BY <1>2 DEF IsCut
<1> HIDE DEF d, x, y, full
<1>4. /\ x \in Seq(Symbols) /\ y \in Seq(Symbols) /\ x \o y = d
      /\ Len(x) = full /\ Blocks(full) /\ Len(y) < BlockBytes
  BY <1>3, Cut
<1>5. x \o Padding(y, 8 * Len(x)) = Padded(x \o y)
  BY <1>4, Closed
<1>6. QED
  BY <1>1, <1>2, <1>4, <1>5 DEF HashInv, Digest, Padded

\* However a message is cut into calls, and whatever the object hashed before,
\* Finalize has given Transform the message and its padding, each byte once.
THEOREM DigestIsOfTheMessage == HasherSpec => []Digest
<1>1. HasherInit => HashInv
  BY HashStarts
<1>2. HashInv /\ [HasherNext]_hasherVars => HashInv'
  <2> SUFFICES ASSUME HashInv, [HasherNext]_hasherVars PROVE HashInv'
    OBVIOUS
  <2>1. CASE \E n \in 0..MaxData : Update(n)
    BY <2>1, UpdateKeeps
  <2>2. CASE \E n \in 0..MaxData : CalculateHex(n)
    BY <2>2, CalculateKeeps
  <2>3. CASE Finalize
    BY <2>3, FinalizeKeeps
  <2>4. CASE UNCHANGED hasherVars
    BY <2>4 DEF HashInv, Digest, Holds, Padded, hasherVars
  <2>5. QED
    BY <2>1, <2>2, <2>3, <2>4 DEF HasherNext
<1>3. HashInv => Digest
  BY DEF HashInv
<1>4. QED
  BY <1>1, <1>2, <1>3, PTL DEF HasherSpec
=============================================================================
