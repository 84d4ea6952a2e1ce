---------------------------- MODULE BufferHandle ----------------------------
(***************************************************************************)
(* Util::BufferHandle, the owner of a block: it is moved, never copied, and*)
(* gives its block back when it is reset, assigned to or destroyed.        *)
(* Threads work on handles side by side, each handle with one thread at a  *)
(* time; they meet in the pool, between the steps of reset and assignment. *)
(***************************************************************************)
EXTENDS NetBufferPool, FiniteSets

CONSTANTS Handles, Threads, NoHandle

ASSUME BufferHandleAssumption == NoHandle \notin Handles

VARIABLES
  acquired, released,  \* stats_.totalAcquire, stats_.totalRelease
  data,           \* data_ of each handle; owner_ and cap_ are set and cleared with it
  raw,            \* blocks lent by Allocate to callers without a handle
  stage,          \* where each thread is
  into, from,     \* the handle a thread resets or assigns to, the one it moves from
  hand,           \* the block reset has taken out of a handle
  temp            \* the block of the unnamed handle that Acquire returns

counters == <<acquired, released>>
threadVars == <<stage, into, from, hand, temp>>
handlesVars == <<poolVars, counters, data, raw, threadVars>>

HandlesInit ==
  /\ NetBufferPoolInit
  /\ acquired = 0 /\ released = 0
  /\ data = [h \in Handles |-> NoBlock]
  /\ raw = {}
  /\ stage = [t \in Threads |-> "idle"]
  /\ into = [t \in Threads |-> NoHandle]
  /\ from = [t \in Threads |-> NoHandle]
  /\ hand = [t \in Threads |-> NoBlock]
  /\ temp = [t \in Threads |-> NoBlock]

\* The pool's operations with their counters.
Allocate(b) == AllocateBlock(b) /\ acquired' = acquired + 1 /\ UNCHANGED released
Release(b) == ReleaseBlock(b) /\ released' = released + 1 /\ UNCHANGED acquired

\* The handles thread t may touch: those no other thread is working on.
Mine(t) == {h \in Handles : \A u \in Threads \ {t} : into[u] # h /\ from[u] # h}

Begin(t, where, h, g) ==
  /\ stage[t] = "idle"
  /\ h \in Mine(t)
  /\ stage' = [stage EXCEPT ![t] = where]
  /\ into' = [into EXCEPT ![t] = h]
  /\ from' = [from EXCEPT ![t] = g]

\* h = pool.Acquire()
AcquireInto(t, h) ==
  /\ Begin(t, "reset", h, NoHandle)
  /\ \E b \in Blocks :
       /\ Allocate(b)
       /\ temp' = [temp EXCEPT ![t] = b]
  /\ UNCHANGED <<data, raw, hand>>

\* h = std::move(g); assigning a handle to itself does nothing.
MoveAssign(t, h, g) ==
  /\ h # g /\ g \in Mine(t)
  /\ Begin(t, "reset", h, g)
  /\ UNCHANGED <<poolVars, counters, data, raw, hand, temp>>

\* h.reset(), or the end of h's life.
Reset(t, h) ==
  /\ Begin(t, "clear", h, NoHandle)
  /\ UNCHANGED <<poolVars, counters, data, raw, hand, temp>>

Cleared(h) == [data EXCEPT ![h] = NoBlock]

\* reset copies the pointer and clears the handle; an empty one has no more to do.
ResetClears(t) ==
  /\ stage[t] \in {"reset", "clear"}
  /\ hand' = [hand EXCEPT ![t] = data[into[t]]]
  /\ data' = Cleared(into[t])
  /\ stage' = [stage EXCEPT ![t] = IF stage[t] = "reset" THEN "release" ELSE "last"]
  /\ UNCHANGED <<poolVars, counters, raw, into, from, temp>>

Done(t) ==
  /\ stage' = [stage EXCEPT ![t] = "idle"]
  /\ into' = [into EXCEPT ![t] = NoHandle]
  /\ from' = [from EXCEPT ![t] = NoHandle]

\* if (!owner_ || !data_) return
HasBlock(b) == b # NoBlock

\* pool->Release(p)
ResetReleases(t) ==
  /\ stage[t] \in {"release", "last"}
  /\ IF HasBlock(hand[t]) THEN Release(hand[t]) ELSE UNCHANGED <<poolVars, counters>>
  /\ hand' = [hand EXCEPT ![t] = NoBlock]
  /\ IF stage[t] = "last"
       THEN Done(t)
       ELSE stage' = [stage EXCEPT ![t] = "move"] /\ UNCHANGED <<into, from>>
  /\ UNCHANGED <<data, raw, temp>>

\* Mutant: the source of a move keeps its block.
Moved_Copies(h, g) == [data EXCEPT ![h] = data[g]]

Moved(h, g) == [data EXCEPT ![h] = data[g], ![g] = NoBlock]

\* moveFrom: the block goes over and the source is empty.
MoveFrom(t) ==
  /\ stage[t] = "move"
  /\ IF from[t] = NoHandle
       THEN /\ data' = [data EXCEPT ![into[t]] = temp[t]]
            /\ temp' = [temp EXCEPT ![t] = NoBlock]
       ELSE /\ data' = Moved(into[t], from[t])
            /\ UNCHANGED temp
  /\ Done(t)
  /\ UNCHANGED <<poolVars, counters, raw, hand>>

\* Allocate and Release called without a handle.
AllocateRaw(t) ==
  /\ stage[t] = "idle"
  /\ \E b \in Blocks : Allocate(b) /\ raw' = raw \cup {b}
  /\ UNCHANGED <<data, threadVars>>

ReleaseRaw(t) ==
  /\ stage[t] = "idle"
  /\ \E b \in raw : Release(b) /\ raw' = raw \ {b}
  /\ UNCHANGED <<data, threadVars>>

HandlesNext ==
  \E t \in Threads :
    \/ \E h \in Handles : AcquireInto(t, h) \/ Reset(t, h)
    \/ \E h, g \in Handles : MoveAssign(t, h, g)
    \/ ResetClears(t) \/ ResetReleases(t) \/ MoveFrom(t)
    \/ AllocateRaw(t) \/ ReleaseRaw(t)

HandlesSpec == HandlesInit /\ [][HandlesNext]_handlesVars

-----------------------------------------------------------------------------

\* Types.
HandlesTypeOK ==
  /\ free \in Seq(Blocks)
  /\ heap \in 0..MaxBlocks /\ acquired \in Nat /\ released \in Nat
  /\ data \in [Handles -> Blocks \cup {NoBlock}]
  /\ raw \subseteq Blocks
  /\ stage \in [Threads -> {"idle", "reset", "clear", "release", "last", "move"}]
  /\ into \in [Threads -> Handles \cup {NoHandle}]
  /\ from \in [Threads -> Handles \cup {NoHandle}]
  /\ hand \in [Threads -> Blocks \cup {NoBlock}]
  /\ temp \in [Threads -> Blocks \cup {NoBlock}]

\* Where block b is: on the free stack, or with its owners.
OutsidePool(b) ==
  {<<"handle", h>> : h \in {g \in Handles : data[g] = b}}
    \cup {<<"hand", t>> : t \in {u \in Threads : hand[u] = b}}
    \cup {<<"temp", t>> : t \in {u \in Threads : temp[u] = b}}
    \cup {<<"raw", x>> : x \in raw \cap {b}}
Places(b) == {<<"free", i>> : i \in {j \in DOMAIN free : free[j] = b}} \cup OutsidePool(b)

Lent == {b \in Blocks : OutsidePool(b) # {}}

\* Every block taken from the heap is in exactly one place: once on the free
\* stack, or with one owner.  None is lent twice and none is lost, however
\* resets, assignments and moves of the threads interleave; and the counters
\* agree: blocks acquired and not released are the blocks with an owner.
OneOwner ==
  /\ \A b \in 1..heap : \E p \in Places(b) : Places(b) = {p}
  /\ acquired - released = Cardinality(Lent)
=============================================================================
