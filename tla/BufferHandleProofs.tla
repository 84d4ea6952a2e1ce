------------------------- MODULE BufferHandleProofs -------------------------
(***************************************************************************)
(* One owner for each block, for any number of handles, threads and        *)
(* blocks.  Owned, Stacked and Nowhere say where a block is, without       *)
(* counting; a step moves one block from one place to another and leaves   *)
(* all others where they are.                                              *)
(***************************************************************************)
EXTENDS BufferHandle, FiniteSetTheorems, SequenceTheorems, TLAPS

OutHandle(b) == \A h \in Handles : data[h] # b
OutHand(b)   == \A t \in Threads : hand[t] # b
OutTemp(b)   == \A t \in Threads : temp[t] # b
OutRaw(b)    == b \notin raw
OutFree(b)   == \A i \in 1..Len(free) : free[i] # b

InHandle(b) == \E h \in Handles : \A g \in Handles : data[g] = b <=> g = h
InHand(b)   == \E t \in Threads : \A u \in Threads : hand[u] = b <=> u = t
InTemp(b)   == \E t \in Threads : \A u \in Threads : temp[u] = b <=> u = t
InFree(b)   == \E i \in 1..Len(free) : \A j \in 1..Len(free) : free[j] = b <=> j = i

\* Nobody outside the pool has b; one owner has it.
Unowned(b) == OutHandle(b) /\ OutHand(b) /\ OutTemp(b) /\ OutRaw(b)
OneHas(b) ==
  \/ InHandle(b) /\ OutHand(b) /\ OutTemp(b) /\ OutRaw(b)
  \/ OutHandle(b) /\ InHand(b) /\ OutTemp(b) /\ OutRaw(b)
  \/ OutHandle(b) /\ OutHand(b) /\ InTemp(b) /\ OutRaw(b)
  \/ OutHandle(b) /\ OutHand(b) /\ OutTemp(b) /\ b \in raw

Owned(b)   == OneHas(b) /\ OutFree(b)
Stacked(b) == Unowned(b) /\ InFree(b)
Nowhere(b) == Unowned(b) /\ OutFree(b)

BlocksInv ==
  \A b \in Blocks : IF b <= heap THEN Owned(b) \/ Stacked(b) ELSE Nowhere(b)

\* Where a thread has blocks, and that no other thread is at its handles.
ThreadInv(t) ==
  /\ stage[t] = "idle" <=> into[t] = NoHandle
  /\ stage[t] = "idle" => from[t] = NoHandle
  /\ from[t] # NoHandle => from[t] # into[t]
  /\ hand[t] # NoBlock => stage[t] \in {"release", "last"}
  /\ temp[t] # NoBlock => stage[t] \in {"reset", "release", "move"} /\ from[t] = NoHandle
  /\ stage[t] \in {"release", "last", "move"} => data[into[t]] = NoBlock
Exclusive(t, u) ==
  /\ into[t] # NoHandle => into[t] # into[u] /\ into[t] # from[u]
  /\ from[t] # NoHandle => from[t] # into[u] /\ from[t] # from[u]
ThreadsInv == \A t \in Threads : ThreadInv(t) /\ \A u \in Threads \ {t} : Exclusive(t, u)

Balance == acquired - released = Cardinality(Lent)

HandlesInv == HandlesTypeOK /\ BlocksInv /\ ThreadsInv /\ Balance

-----------------------------------------------------------------------------
(* Places.                                                                 *)

OwnedBlocks == {b \in Blocks : Owned(b)}

LentOwned == Lent = OwnedBlocks

LEMMA LentIs == BlocksInv => LentOwned
<1> SUFFICES ASSUME BlocksInv PROVE LentOwned
  OBVIOUS
<1>1. \A b \in Blocks : OutsidePool(b) # {} <=> ~Unowned(b)
  BY DEF OutsidePool, Unowned, OutHandle, OutHand, OutTemp, OutRaw
<1>2. \A b \in Blocks : OneHas(b) => ~Unowned(b)
  BY DEF OneHas, Unowned, InHandle, OutHandle, InHand, OutHand, InTemp, OutTemp, OutRaw
<1>3. \A b \in Blocks : ~Unowned(b) <=> Owned(b)
  BY <1>2 DEF BlocksInv, Owned, Stacked, Nowhere
<1>4. QED
  BY <1>1, <1>3 DEF Lent, LentOwned, OwnedBlocks

LEMMA LentIsNext == BlocksInv' => LentOwned'
BY LentIs, PTL

LEMMA LentFinite == IsFiniteSet(Lent) /\ Cardinality(Lent) \in Nat
<1>1. MaxBlocks \in Int /\ 1 \in Int
  BY NetBufferPoolAssumption
<1>2. IsFiniteSet(Blocks)
  BY <1>1, FS_Interval DEF Blocks
<1>3. Lent \subseteq Blocks
  BY DEF Lent
<1>4. QED
  BY <1>2, <1>3, FS_Subset, FS_CardinalityType

\* A block somebody has is owned, and nobody else has it.
LEMMA HandleOwns ==
  ASSUME BlocksInv, NEW h \in Handles, data[h] \in Blocks
  PROVE  LET b == data[h] IN
         /\ b <= heap /\ OutFree(b) /\ OutHand(b) /\ OutTemp(b) /\ OutRaw(b)
         /\ \A g \in Handles : data[g] = b <=> g = h
BY DEF BlocksInv, Owned, Stacked, Nowhere, OneHas, Unowned, InHandle, OutHandle

LEMMA HandOwns ==
  ASSUME BlocksInv, NEW t \in Threads, hand[t] \in Blocks
  PROVE  LET b == hand[t] IN
         /\ b <= heap /\ OutFree(b) /\ OutHandle(b) /\ OutTemp(b) /\ OutRaw(b)
         /\ \A u \in Threads : hand[u] = b <=> u = t
BY DEF BlocksInv, Owned, Stacked, Nowhere, OneHas, Unowned, InHand, OutHand

LEMMA TempOwns ==
  ASSUME BlocksInv, NEW t \in Threads, temp[t] \in Blocks
  PROVE  LET b == temp[t] IN
         /\ b <= heap /\ OutFree(b) /\ OutHandle(b) /\ OutHand(b) /\ OutRaw(b)
         /\ \A u \in Threads : temp[u] = b <=> u = t
BY DEF BlocksInv, Owned, Stacked, Nowhere, OneHas, Unowned, InTemp, OutTemp

LEMMA RawOwns ==
  ASSUME BlocksInv, NEW b \in Blocks, b \in raw
  PROVE  b <= heap /\ OutFree(b) /\ OutHandle(b) /\ OutHand(b) /\ OutTemp(b)
BY DEF BlocksInv, Owned, Stacked, Nowhere, OneHas, Unowned, OutRaw

-----------------------------------------------------------------------------
(* The pool.                                                               *)

\* Whether c is on the stack, and where, does not change.
FreeSame(c) == (InFree(c)' <=> InFree(c)) /\ (OutFree(c)' <=> OutFree(c))

LEMMA AllocateFree ==
  ASSUME HandlesTypeOK, BlocksInv, NEW b \in Blocks, AllocateBlock(b)
  PROVE  /\ free' \in Seq(Blocks) /\ heap' \in 0..MaxBlocks
         /\ Unowned(b) /\ OutFree(b)' /\ b <= heap'
         /\ \A c \in Blocks \ {b} : FreeSame(c) /\ (c <= heap' <=> c <= heap)
<1>0. free \in Seq(Blocks) /\ heap \in 0..MaxBlocks /\ MaxBlocks \in Nat
  BY NetBufferPoolAssumption DEF HandlesTypeOK
<1>1. CASE TopBlock(b)
  <2> DEFINE n == Len(free)
  <2>1. /\ n \in Nat /\ n > 0 /\ Len(free) = n /\ free[n] = b
        /\ free' = SubSeq(free, 1, n - 1) /\ heap' = heap
    BY <1>0, <1>1 DEF TopBlock
  <2>2. /\ free' \in Seq(Blocks) /\ Len(free') = n - 1
        /\ \A i \in 1..(n - 1) : free'[i] = free[i]
    <3>1. 1 \in Int /\ n - 1 \in Int /\ \A i \in 1..(n - 1) : free[i] \in Blocks
      BY <1>0, <2>1
    <3> HIDE DEF n
    <3>2. /\ SubSeq(free, 1, n - 1) \in Seq(Blocks)
          /\ Len(SubSeq(free, 1, n - 1)) = (IF 1 <= n - 1 THEN (n - 1) - 1 + 1 ELSE 0)
          /\ \A i \in 1..((n - 1) - 1 + 1) : SubSeq(free, 1, n - 1)[i] = free[1 + i - 1]
      BY <3>1, SubSeqProperties
    <3>3. (IF 1 <= n - 1 THEN (n - 1) - 1 + 1 ELSE 0) = n - 1 /\ (n - 1) - 1 + 1 = n - 1
          /\ \A i \in 1..(n - 1) : 1 + i - 1 = i
      BY <2>1
    <3>4. QED
      BY <2>1, <3>2, <3>3
  <2> HIDE DEF n
  <2>3. ~OutFree(b)
    BY <2>1 DEF OutFree
  <2>4. b <= heap /\ Unowned(b) /\ InFree(b)
    <3>1. ~Owned(b) /\ ~Nowhere(b)
      BY <2>3 DEF Owned, Nowhere
    <3>2. b <= heap /\ Stacked(b)
      BY <3>1 DEF BlocksInv
    <3>3. QED
      BY <3>2 DEF Stacked
  <2>5. \A i \in 1..(n - 1) : free[i] # b
    BY <2>1, <2>4 DEF InFree
  <2>6. OutFree(b)'
    BY <2>2, <2>5 DEF OutFree
  <2>7. ASSUME NEW c \in Blocks \ {b} PROVE FreeSame(c)
    <3>1. \A i \in 1..(n - 1) : i \in 1..n
      BY <2>1
    <3>1a. \A i \in 1..n : free[i] = c <=> i \in 1..(n - 1) /\ free'[i] = c
      BY <2>1, <2>2
    <3>2. OutFree(c)' <=> OutFree(c)
      BY <2>1, <2>2, <3>1, <3>1a DEF OutFree
    <3>3. ASSUME InFree(c) PROVE InFree(c)'
      <4>1. PICK i \in 1..n : \A j \in 1..n : free[j] = c <=> j = i
        BY <2>1, <3>3 DEF InFree
      <4>2. i \in 1..(n - 1) /\ \A j \in 1..(n - 1) : free'[j] = c <=> j = i
        BY <3>1, <3>1a, <4>1
      <4>3. Len(free') = n - 1
        BY <2>2
      <4>4. QED
        BY <4>2, <4>3 DEF InFree
    <3>4. ASSUME InFree(c)' PROVE InFree(c)
      <4>1. PICK i \in 1..(n - 1) : \A j \in 1..(n - 1) : free'[j] = c <=> j = i
        BY <2>2, <3>4 DEF InFree
      <4>2. i \in 1..n /\ \A j \in 1..n : free[j] = c <=> j = i
        BY <3>1, <3>1a, <4>1
      <4>3. Len(free) = n
        BY <2>1
      <4>4. QED
        BY <4>2, <4>3 DEF InFree
    <3>5. QED
      BY <3>2, <3>3, <3>4 DEF FreeSame
  <2>8. QED
    BY <1>0, <2>1, <2>2, <2>4, <2>6, <2>7
<1>2. CASE NewBlock(b)
  <2>1. free = <<>> /\ free' = free /\ heap' = heap + 1 /\ b = heap + 1 /\ heap < MaxBlocks
    BY <1>2 DEF NewBlock
  <2>2. ~(b <= heap) /\ Nowhere(b)
    BY <1>0, <2>1 DEF BlocksInv
  <2>3. OutFree(b)'
    BY <2>1, <2>2 DEF Nowhere, OutFree
  <2>4. \A c \in Blocks \ {b} : FreeSame(c) /\ (c <= heap' <=> c <= heap)
    BY <1>0, <2>1 DEF FreeSame, InFree, OutFree, Blocks
  <2>5. QED
    BY <1>0, <2>1, <2>2, <2>3, <2>4 DEF Nowhere
<1>3. QED
  BY <1>1, <1>2 DEF AllocateBlock

LEMMA ReleaseFree ==
  ASSUME HandlesTypeOK, NEW b \in Blocks, OutFree(b), ReleaseBlock(b)
  PROVE  /\ free' \in Seq(Blocks) /\ heap' = heap
         /\ InFree(b)' /\ \A c \in Blocks \ {b} : FreeSame(c)
<1> DEFINE n == Len(free)
<1>1. free \in Seq(Blocks) /\ n \in Nat /\ Len(free) = n /\ heap' = heap /\ free' = Append(free, b)
  BY DEF HandlesTypeOK, ReleaseBlock
<1>2. /\ free' \in Seq(Blocks) /\ Len(free') = n + 1 /\ free'[n + 1] = b
      /\ \A i \in 1..n : free'[i] = free[i]
  BY <1>1
<1> HIDE DEF n
<1>3. \A i \in 1..(n + 1) : i \in 1..n \/ i = n + 1
  BY <1>1
<1>4. n + 1 \in 1..(n + 1) /\ 1..n \subseteq 1..(n + 1) /\ n + 1 \notin 1..n
  BY <1>1
<1>5. InFree(b)'
  <2>1. \A i \in 1..n : free[i] # b
    BY <1>1 DEF OutFree
  <2>2. \A i \in 1..(n + 1) : free'[i] = b <=> i = n + 1
    BY <1>2, <1>3, <2>1
  <2>3. Len(free') = n + 1 /\ n + 1 \in 1..(n + 1)
    BY <1>2, <1>4
  <2>4. QED
    BY <2>2, <2>3 DEF InFree
<1>6. ASSUME NEW c \in Blocks \ {b} PROVE FreeSame(c)
  <2>1. \A i \in 1..(n + 1) : free'[i] = c <=> i \in 1..n /\ free[i] = c
    BY <1>2, <1>3, <1>4
  <2>2. OutFree(c)' <=> OutFree(c)
    BY <1>1, <1>2, <1>4, <2>1 DEF OutFree
  <2>3. ASSUME InFree(c) PROVE InFree(c)'
    <3>1. PICK i \in 1..n : \A j \in 1..n : free[j] = c <=> j = i
      BY <1>1, <2>3 DEF InFree
    <3>2. i \in 1..(n + 1) /\ \A j \in 1..(n + 1) : free'[j] = c <=> j = i
      BY <1>3, <1>4, <2>1, <3>1
    <3>3. Len(free') = n + 1
      BY <1>2
    <3>4. QED
      BY <3>2, <3>3 DEF InFree
  <2>4. ASSUME InFree(c)' PROVE InFree(c)
    <3>1. PICK i \in 1..(n + 1) : \A j \in 1..(n + 1) : free'[j] = c <=> j = i
      BY <1>2, <2>4 DEF InFree
    <3>2. i \in 1..n /\ \A j \in 1..n : free[j] = c <=> j = i
      BY <1>3, <1>4, <2>1, <3>1
    <3>3. QED
      BY <1>1, <3>2 DEF InFree
  <2>5. QED
    BY <2>2, <2>3, <2>4 DEF FreeSame
<1>7. QED
  BY <1>1, <1>2, <1>5, <1>6

-----------------------------------------------------------------------------
(* What a step does to the blocks.                                         *)

LEMMA OneIsNotNone == \A b : OneHas(b) => ~Unowned(b)
BY DEF OneHas, Unowned, InHandle, OutHandle, InHand, OutHand, InTemp, OutTemp, OutRaw

LEMMA OneIsNotNoneNext == \A b : OneHas(b)' => ~Unowned(b)'
BY DEF OneHas, Unowned, InHandle, OutHandle, InHand, OutHand, InTemp, OutTemp, OutRaw

\* Who has c does not change.
OwnersSame(c) == (OneHas(c)' <=> OneHas(c)) /\ (Unowned(c)' <=> Unowned(c))

LEMMA SameOwners ==
  ASSUME NEW c,
         \A h \in Handles : data'[h] = c <=> data[h] = c,
         \A t \in Threads : hand'[t] = c <=> hand[t] = c,
         \A t \in Threads : temp'[t] = c <=> temp[t] = c,
         c \in raw' <=> c \in raw
  PROVE  OwnersSame(c)
<1>1. (OutHandle(c)' <=> OutHandle(c)) /\ (InHandle(c)' <=> InHandle(c))
  BY DEF OutHandle, InHandle
<1>2. (OutHand(c)' <=> OutHand(c)) /\ (InHand(c)' <=> InHand(c))
  BY DEF OutHand, InHand
<1>3. (OutTemp(c)' <=> OutTemp(c)) /\ (InTemp(c)' <=> InTemp(c))
  BY DEF OutTemp, InTemp
<1>4. OutRaw(c)' <=> OutRaw(c)
  BY DEF OutRaw
<1>5. QED
  BY <1>1, <1>2, <1>3, <1>4 DEF OwnersSame, OneHas, Unowned

\* The pool is left alone: blocks only change hands.
LEMMA MovesKeep ==
  ASSUME HandlesInv, UNCHANGED <<poolVars, counters>>,
         \A c \in Blocks : (Owned(c) => OneHas(c)') /\ (Unowned(c) => Unowned(c)')
  PROVE  BlocksInv' /\ Balance'
<1>1. UNCHANGED <<free, heap, acquired, released>>
  BY DEF poolVars, counters
<1>2. \A c \in Blocks : (OutFree(c)' <=> OutFree(c)) /\ (InFree(c)' <=> InFree(c))
  BY <1>1 DEF OutFree, InFree
<1>3. BlocksInv'
  BY <1>1, <1>2 DEF HandlesInv, BlocksInv, Owned, Stacked, Nowhere
<1>4. \A c \in Blocks : Owned(c)' <=> Owned(c)
  BY <1>2, OneIsNotNoneNext DEF HandlesInv, BlocksInv, Owned, Stacked, Nowhere
<1>5. Lent' = Lent
  BY <1>3, <1>4, LentIs, LentIsNext DEF HandlesInv, LentOwned, OwnedBlocks
<1>6. QED
  BY <1>1, <1>3, <1>5 DEF HandlesInv, Balance

\* Block b leaves the pool.
LEMMA GainKeeps ==
  ASSUME HandlesInv, NEW b \in Blocks, Allocate(b), OneHas(b)',
         \A c \in Blocks \ {b} : OwnersSame(c)
  PROVE  BlocksInv' /\ Balance' /\ free' \in Seq(Blocks) /\ heap' \in 0..MaxBlocks
<1>1. AllocateBlock(b) /\ acquired' = acquired + 1 /\ released' = released
  BY DEF Allocate
<1>2. /\ free' \in Seq(Blocks) /\ heap' \in 0..MaxBlocks
      /\ Unowned(b) /\ OutFree(b)' /\ b <= heap'
      /\ \A c \in Blocks \ {b} : FreeSame(c) /\ (c <= heap' <=> c <= heap)
  BY <1>1, AllocateFree DEF HandlesInv
<1>3. Owned(b)' /\ ~Owned(b)
  BY <1>2, OneIsNotNone DEF Owned
<1>4. \A c \in Blocks \ {b} :
        (Owned(c)' <=> Owned(c)) /\ (Stacked(c)' <=> Stacked(c)) /\ (Nowhere(c)' <=> Nowhere(c))
  BY <1>2 DEF OwnersSame, FreeSame, Owned, Stacked, Nowhere
<1>5. BlocksInv'
  <2>1. ASSUME NEW c \in Blocks PROVE IF c <= heap' THEN Owned(c)' \/ Stacked(c)' ELSE Nowhere(c)'
    <3>1. CASE c = b
      BY <1>2, <1>3, <3>1
    <3>2. CASE c # b
      <4>1. c \in Blocks \ {b}
        BY <3>2
      <4>2. IF c <= heap THEN Owned(c) \/ Stacked(c) ELSE Nowhere(c)
        BY DEF HandlesInv, BlocksInv
      <4>3. QED
        BY <1>2, <1>4, <4>1, <4>2
    <3>3. QED
      BY <3>1, <3>2
  <2>2. QED
    BY <2>1 DEF BlocksInv
<1>6. Lent' = Lent \cup {b} /\ b \notin Lent
  BY <1>3, <1>4, <1>5, LentIs, LentIsNext DEF HandlesInv, LentOwned, OwnedBlocks
<1>7. Cardinality(Lent') = Cardinality(Lent) + 1
  BY <1>6, LentFinite, FS_AddElement
<1>8. Balance'
  BY <1>1, <1>7, LentFinite DEF HandlesInv, HandlesTypeOK, Balance
<1>9. QED
  BY <1>2, <1>5, <1>8

\* Block b goes back to the pool.
LEMMA LossKeeps ==
  ASSUME HandlesInv, NEW b \in Blocks, Owned(b), Release(b), Unowned(b)',
         \A c \in Blocks \ {b} : OwnersSame(c)
  PROVE  BlocksInv' /\ Balance' /\ free' \in Seq(Blocks) /\ heap' \in 0..MaxBlocks
<1>1. ReleaseBlock(b) /\ released' = released + 1 /\ acquired' = acquired /\ OutFree(b)
  BY DEF Release, Owned
<1>2. /\ free' \in Seq(Blocks) /\ heap' = heap /\ InFree(b)'
      /\ \A c \in Blocks \ {b} : FreeSame(c)
  BY <1>1, ReleaseFree DEF HandlesInv
<1>3. Stacked(b)' /\ ~Owned(b)'
  BY <1>2, OneIsNotNoneNext DEF Stacked, Owned
<1>4. \A c \in Blocks \ {b} :
        (Owned(c)' <=> Owned(c)) /\ (Stacked(c)' <=> Stacked(c)) /\ (Nowhere(c)' <=> Nowhere(c))
  BY <1>2 DEF OwnersSame, FreeSame, Owned, Stacked, Nowhere
<1>5. b <= heap
  BY OneIsNotNone DEF HandlesInv, BlocksInv, Owned, Nowhere
<1>6. BlocksInv'
  <2>1. ASSUME NEW c \in Blocks PROVE IF c <= heap' THEN Owned(c)' \/ Stacked(c)' ELSE Nowhere(c)'
    <3>1. CASE c = b
      BY <1>2, <1>3, <1>5, <3>1
    <3>2. CASE c # b
      <4>1. c \in Blocks \ {b}
        BY <3>2
      <4>2. IF c <= heap THEN Owned(c) \/ Stacked(c) ELSE Nowhere(c)
        BY DEF HandlesInv, BlocksInv
      <4>3. QED
        BY <1>2, <1>4, <4>1, <4>2
    <3>3. QED
      BY <3>1, <3>2
  <2>2. QED
    BY <2>1 DEF BlocksInv
<1>7. Lent' = Lent \ {b} /\ b \in Lent
  BY <1>3, <1>4, <1>6, LentIs, LentIsNext DEF HandlesInv, LentOwned, OwnedBlocks
<1>8. Cardinality(Lent') = Cardinality(Lent) - 1
  BY <1>7, LentFinite, FS_RemoveElement
<1>9. Balance'
  BY <1>1, <1>8, LentFinite DEF HandlesInv, HandlesTypeOK, Balance
<1>10. QED
  BY <1>2, <1>6, <1>9 DEF HandlesInv, HandlesTypeOK

-----------------------------------------------------------------------------
(* What a step does to the threads.                                        *)

OthersSame(t) ==
  \A u \in Threads \ {t} :
    /\ stage'[u] = stage[u] /\ into'[u] = into[u] /\ from'[u] = from[u]
    /\ hand'[u] = hand[u] /\ temp'[u] = temp[u]
    /\ stage[u] \in {"release", "last", "move"} /\ data[into[u]] = NoBlock => data'[into[u]] = NoBlock

\* Thread t works on at most the handles it worked on, or on handles that are its.
LEMMA ThreadFrame ==
  ASSUME HandlesInv, NEW t \in Threads, OthersSame(t), ThreadInv(t)',
         into'[t] \in {NoHandle, into[t]} \cup Mine(t),
         from'[t] \in {NoHandle, from[t]} \cup Mine(t)
  PROVE  ThreadsInv'
<1>1. ASSUME NEW u \in Threads \ {t} PROVE ThreadInv(u)' /\ Exclusive(t, u)' /\ Exclusive(u, t)'
  <2>1. ThreadInv(u) /\ Exclusive(t, u) /\ Exclusive(u, t) /\ u # t
    BY DEF HandlesInv, ThreadsInv
  <2>2. ThreadInv(u)'
    BY <2>1 DEF OthersSame, ThreadInv
  <2>3. /\ into'[t] # NoHandle => into'[t] # into[u] /\ into'[t] # from[u]
        /\ from'[t] # NoHandle => from'[t] # into[u] /\ from'[t] # from[u]
    BY <2>1 DEF Mine, Exclusive
  <2>4. into'[u] = into[u] /\ from'[u] = from[u]
    BY DEF OthersSame
  <2>5. QED
    BY <2>2, <2>3, <2>4 DEF Exclusive
<1>2. ASSUME NEW u \in Threads \ {t}, NEW v \in Threads \ {t, u} PROVE Exclusive(u, v)'
  BY DEF HandlesInv, ThreadsInv, OthersSame, Exclusive
<1>3. QED
  BY <1>1, <1>2 DEF ThreadsInv

\* A call begins; nothing has happened to its handles yet.
LEMMA BeginThreads ==
  ASSUME HandlesInv, NEW t \in Threads, NEW h \in Handles, NEW g, NEW where \in {"reset", "clear"},
         Begin(t, where, h, g), g = NoHandle \/ (g \in Mine(t) /\ g # h),
         UNCHANGED <<data, hand>>,
         UNCHANGED temp \/ (where = "reset" /\ g = NoHandle /\ \E b \in Blocks : temp' = [temp EXCEPT ![t] = b])
  PROVE  /\ ThreadsInv'
         /\ stage' \in [Threads -> {"idle", "reset", "clear", "release", "last", "move"}]
         /\ into' \in [Threads -> Handles \cup {NoHandle}] /\ from' \in [Threads -> Handles \cup {NoHandle}]
<1>1. /\ stage[t] = "idle" /\ h \in Mine(t) /\ stage' = [stage EXCEPT ![t] = where]
      /\ into' = [into EXCEPT ![t] = h] /\ from' = [from EXCEPT ![t] = g]
  BY DEF Begin
<1>2. /\ stage \in [Threads -> {"idle", "reset", "clear", "release", "last", "move"}]
      /\ into \in [Threads -> Handles \cup {NoHandle}] /\ from \in [Threads -> Handles \cup {NoHandle}]
      /\ temp \in [Threads -> Blocks \cup {NoBlock}]
      /\ g \in Handles \cup {NoHandle} /\ h # NoHandle
  BY BufferHandleAssumption DEF HandlesInv, HandlesTypeOK, Mine
<1>3. hand[t] = NoBlock /\ temp[t] = NoBlock
  BY <1>1 DEF HandlesInv, ThreadsInv, ThreadInv
<1>4. stage'[t] = where /\ into'[t] = h /\ from'[t] = g /\ hand'[t] = NoBlock
  BY <1>1, <1>2, <1>3
<1>5. temp'[t] = NoBlock \/ (where = "reset" /\ g = NoHandle)
  BY <1>2, <1>3
<1>6. ThreadInv(t)'
  BY <1>2, <1>4, <1>5 DEF ThreadInv
<1>7. OthersSame(t)
  BY <1>1, <1>2 DEF OthersSame
<1>8. ThreadsInv'
  BY <1>1, <1>4, <1>6, <1>7, ThreadFrame
<1>9. QED
  BY <1>1, <1>2, <1>8

-----------------------------------------------------------------------------
(* The operations.                                                         *)

LEMMA AcquireIntoStep ==
  ASSUME HandlesInv, NEW t \in Threads, NEW h \in Handles, AcquireInto(t, h)
  PROVE  HandlesInv'
<1>1. PICK b \in Blocks : Allocate(b) /\ temp' = [temp EXCEPT ![t] = b]
  BY DEF AcquireInto
<1>2. Begin(t, "reset", h, NoHandle) /\ UNCHANGED <<data, raw, hand>>
  BY DEF AcquireInto
<1>3. /\ temp \in [Threads -> Blocks \cup {NoBlock}] /\ temp[t] = NoBlock /\ NoBlock \notin Blocks
      /\ acquired \in Nat /\ released \in Nat
  BY <1>2 DEF HandlesInv, HandlesTypeOK, ThreadsInv, ThreadInv, Begin, Blocks, NoBlock
<1>4. Unowned(b)
  BY <1>1, AllocateFree DEF Allocate, HandlesInv
<1>5. \A u \in Threads : temp'[u] = b <=> u = t
  BY <1>1, <1>3, <1>4 DEF Unowned, OutTemp
<1>6. OneHas(b)'
  BY <1>2, <1>4, <1>5 DEF OneHas, Unowned, InTemp, OutHandle, OutHand, OutRaw
<1>7. \A c \in Blocks \ {b} : OwnersSame(c)
  <2>1. SUFFICES ASSUME NEW c \in Blocks \ {b} PROVE OwnersSame(c)
    OBVIOUS
  <2>2. \A u \in Threads : temp'[u] = c <=> temp[u] = c
    BY <1>1, <1>3
  <2>3. QED
    BY <1>2, <2>2, SameOwners
<1>8. BlocksInv' /\ Balance' /\ free' \in Seq(Blocks) /\ heap' \in 0..MaxBlocks
  BY <1>1, <1>6, <1>7, GainKeeps
<1>9. /\ ThreadsInv'
      /\ stage' \in [Threads -> {"idle", "reset", "clear", "release", "last", "move"}]
      /\ into' \in [Threads -> Handles \cup {NoHandle}] /\ from' \in [Threads -> Handles \cup {NoHandle}]
  BY <1>1, <1>2, BeginThreads
<1>10. acquired' \in Nat /\ released' \in Nat /\ temp' \in [Threads -> Blocks \cup {NoBlock}]
  BY <1>1, <1>3 DEF Allocate
<1>11. HandlesTypeOK'
  BY <1>2, <1>8, <1>9, <1>10 DEF HandlesInv, HandlesTypeOK
<1>12. QED
  BY <1>8, <1>9, <1>11 DEF HandlesInv

\* MoveAssign and Reset begin.
LEMMA CallStep ==
  ASSUME HandlesInv, NEW t \in Threads, NEW h \in Handles, NEW g, NEW where \in {"reset", "clear"},
         Begin(t, where, h, g), g = NoHandle \/ (g \in Mine(t) /\ g # h),
         UNCHANGED <<poolVars, counters, data, raw, hand, temp>>
  PROVE  HandlesInv'
<1>1. /\ ThreadsInv'
      /\ stage' \in [Threads -> {"idle", "reset", "clear", "release", "last", "move"}]
      /\ into' \in [Threads -> Handles \cup {NoHandle}] /\ from' \in [Threads -> Handles \cup {NoHandle}]
  BY BeginThreads
<1>2. \A c \in Blocks : OwnersSame(c)
  BY SameOwners
<1>3. BlocksInv' /\ Balance'
  BY <1>2, MovesKeep DEF OwnersSame, Owned
<1>4. HandlesTypeOK'
  BY <1>1 DEF HandlesInv, HandlesTypeOK, poolVars, counters
<1>5. QED
  BY <1>1, <1>3, <1>4 DEF HandlesInv

LEMMA ResetClearsStep == ASSUME HandlesInv, NEW t \in Threads, ResetClears(t) PROVE HandlesInv'
<1> DEFINE h == into[t]
           b == data[h]
<1>1. /\ stage[t] \in {"reset", "clear"}
      /\ hand' = [hand EXCEPT ![t] = b] /\ data' = [data EXCEPT ![h] = NoBlock]
      /\ stage' = [stage EXCEPT ![t] = IF stage[t] = "reset" THEN "release" ELSE "last"]
      /\ UNCHANGED <<poolVars, counters, raw, into, from, temp>>
  BY DEF ResetClears, Cleared
<1>2. HandlesTypeOK
  BY DEF HandlesInv
<1>3. /\ h \in Handles /\ b \in Blocks \cup {NoBlock} /\ NoBlock \notin Blocks /\ hand[t] = NoBlock
      /\ temp[t] # NoBlock => stage[t] = "reset" /\ from[t] = NoHandle
  <2>1. ThreadInv(t)
    BY DEF HandlesInv, ThreadsInv
  <2>2. h # NoHandle
    BY <1>1, <2>1 DEF ThreadInv
  <2>3. h \in Handles /\ b \in Blocks \cup {NoBlock}
    BY <1>2, <2>2 DEF HandlesTypeOK
  <2>4. QED
    BY <1>1, <2>1, <2>3 DEF ThreadInv, Blocks, NoBlock
<1> HIDE DEF h, b
<1>4. \A c \in Blocks : (Owned(c) => OneHas(c)') /\ (Unowned(c) => Unowned(c)')
  <2>1. SUFFICES ASSUME NEW c \in Blocks
                 PROVE  (Owned(c) => OneHas(c)') /\ (Unowned(c) => Unowned(c)')
    OBVIOUS
  <2>2. CASE c = b
    <3>1. /\ OutHand(c) /\ OutTemp(c) /\ OutRaw(c)
          /\ \A g \in Handles : data[g] = c <=> g = h
      BY <1>3, <2>2, HandleOwns DEF HandlesInv, b
    <3>2. OutHandle(c)'
      BY <1>1, <1>2, <1>3, <3>1 DEF HandlesTypeOK, OutHandle
    <3>3. \A u \in Threads : hand'[u] = c <=> u = t
      BY <1>1, <1>2, <2>2, <3>1 DEF HandlesTypeOK, OutHand
    <3>4. OneHas(c)'
      BY <1>1, <3>1, <3>2, <3>3 DEF OneHas, InHand, OutTemp, OutRaw
    <3>5. ~Unowned(c)
      BY <1>3, <3>1 DEF Unowned, OutHandle
    <3>6. QED
      BY <3>4, <3>5
  <2>3. CASE c # b
    <3>1. \A g \in Handles : data'[g] = c <=> data[g] = c
      BY <1>1, <1>2, <1>3, <2>3 DEF HandlesTypeOK, b
    <3>2. \A u \in Threads : hand'[u] = c <=> hand[u] = c
      BY <1>1, <1>2, <1>3, <2>3 DEF HandlesTypeOK
    <3>3. OwnersSame(c)
      BY <1>1, <3>1, <3>2, SameOwners
    <3>4. QED
      BY <3>3 DEF OwnersSame, Owned
  <2>4. QED
    BY <2>2, <2>3
<1>5. BlocksInv' /\ Balance'
  BY <1>1, <1>4, MovesKeep
<1>6. HandlesTypeOK'
  BY <1>1, <1>2, <1>3 DEF HandlesTypeOK, poolVars, counters
<1>7. ThreadsInv'
  <2>1. /\ stage'[t] = (IF stage[t] = "reset" THEN "release" ELSE "last")
        /\ into'[t] = h /\ from'[t] = from[t] /\ temp'[t] = temp[t] /\ data'[h] = NoBlock
    BY <1>1, <1>2, <1>3 DEF HandlesTypeOK, h
  <2>2. ThreadInv(t)
    BY DEF HandlesInv, ThreadsInv
  <2>3. h # NoHandle
    BY <1>3, BufferHandleAssumption
  <2>4. ThreadInv(t)'
    BY <1>1, <1>3, <2>1, <2>2, <2>3 DEF ThreadInv, h
  <2>5. OthersSame(t)
    BY <1>1, <1>2 DEF OthersSame, HandlesTypeOK
  <2>6. QED
    BY <1>1, <2>4, <2>5, ThreadFrame
<1>8. QED
  BY <1>5, <1>6, <1>7 DEF HandlesInv

LEMMA ResetReleasesStep == ASSUME HandlesInv, NEW t \in Threads, ResetReleases(t) PROVE HandlesInv'
<1>1. /\ stage[t] \in {"release", "last"} /\ hand' = [hand EXCEPT ![t] = NoBlock]
      /\ IF hand[t] # NoBlock THEN Release(hand[t]) ELSE UNCHANGED <<poolVars, counters>>
      /\ UNCHANGED <<data, raw, temp>>
      /\ \/ /\ stage[t] = "last" /\ stage' = [stage EXCEPT ![t] = "idle"]
            /\ into' = [into EXCEPT ![t] = NoHandle] /\ from' = [from EXCEPT ![t] = NoHandle]
         \/ /\ stage[t] = "release" /\ stage' = [stage EXCEPT ![t] = "move"]
            /\ UNCHANGED <<into, from>>
  BY DEF ResetReleases, HasBlock, Done
<1>2. HandlesTypeOK /\ ThreadInv(t)
  BY DEF HandlesInv, ThreadsInv
<1>3. hand[t] \in Blocks \cup {NoBlock} /\ NoBlock \notin Blocks
  BY <1>2 DEF HandlesTypeOK, Blocks, NoBlock
<1>4. \A c \in Blocks : c # hand[t] => OwnersSame(c)
  <2>1. SUFFICES ASSUME NEW c \in Blocks, c # hand[t] PROVE OwnersSame(c)
    OBVIOUS
  <2>2. \A u \in Threads : hand'[u] = c <=> hand[u] = c
    BY <1>1, <1>2, <1>3, <2>1 DEF HandlesTypeOK
  <2>3. QED
    BY <1>1, <2>2, SameOwners
<1>5. /\ BlocksInv' /\ Balance' /\ free' \in Seq(Blocks) /\ heap' \in 0..MaxBlocks
      /\ acquired' \in Nat /\ released' \in Nat
  <2>1. CASE hand[t] = NoBlock
    <3>1. UNCHANGED <<poolVars, counters>>
      BY <1>1, <2>1
    <3>2. BlocksInv' /\ Balance'
      BY <1>3, <1>4, <2>1, <3>1, MovesKeep DEF OwnersSame, Owned
    <3>3. QED
      BY <1>2, <3>1, <3>2 DEF HandlesTypeOK, poolVars, counters
  <2>2. ASSUME NEW b \in Blocks, b = hand[t] PROVE
          /\ BlocksInv' /\ Balance' /\ free' \in Seq(Blocks) /\ heap' \in 0..MaxBlocks
          /\ acquired' \in Nat /\ released' \in Nat
    <3>1. /\ OutFree(b) /\ OutHandle(b) /\ OutTemp(b) /\ OutRaw(b)
          /\ \A u \in Threads : hand[u] = b <=> u = t
      BY <2>2, HandOwns DEF HandlesInv
    <3>2. Owned(b)
      BY <3>1 DEF Owned, OneHas, InHand
    <3>3. OutHand(b)'
      BY <1>1, <1>2, <1>3, <3>1 DEF HandlesTypeOK, OutHand
    <3>4. Unowned(b)'
      BY <1>1, <3>1, <3>3 DEF Unowned, OutHandle, OutTemp, OutRaw
    <3>5. Release(b)
      BY <1>1, <1>3, <2>2
    <3>6. BlocksInv' /\ Balance' /\ free' \in Seq(Blocks) /\ heap' \in 0..MaxBlocks
      BY <1>4, <2>2, <3>2, <3>4, <3>5, LossKeeps
    <3>7. acquired' \in Nat /\ released' \in Nat
      BY <1>2, <3>5 DEF Release, HandlesTypeOK
    <3>8. QED
      BY <3>6, <3>7
  <2>3. QED
    BY <1>3, <2>1, <2>2
<1>6. HandlesTypeOK'
  BY <1>1, <1>2, <1>5 DEF HandlesTypeOK
<1>7. ThreadsInv'
  <2>1. ThreadInv(t)'
    <3>1. hand'[t] = NoBlock /\ data' = data /\ temp'[t] = temp[t]
      BY <1>1, <1>2 DEF HandlesTypeOK
    <3>2. CASE stage[t] = "last"
      <4>1. stage'[t] = "idle" /\ into'[t] = NoHandle /\ from'[t] = NoHandle
        BY <1>1, <1>2, <3>2 DEF HandlesTypeOK
      <4>2. QED
        BY <1>2, <3>1, <3>2, <4>1 DEF ThreadInv
    <3>3. CASE stage[t] = "release"
      <4>1. stage'[t] = "move" /\ into'[t] = into[t] /\ from'[t] = from[t]
        BY <1>1, <1>2, <3>3 DEF HandlesTypeOK
      <4>2. QED
        BY <1>2, <3>1, <3>3, <4>1 DEF ThreadInv
    <3>4. QED
      BY <1>1, <3>2, <3>3
  <2>2. OthersSame(t)
    BY <1>1, <1>2 DEF OthersSame, HandlesTypeOK
  <2>3. into'[t] \in {NoHandle, into[t]} /\ from'[t] \in {NoHandle, from[t]}
    BY <1>1, <1>2 DEF HandlesTypeOK
  <2>4. QED
    BY <2>1, <2>2, <2>3, ThreadFrame
<1>8. QED
  BY <1>5, <1>6, <1>7 DEF HandlesInv

LEMMA MoveFromStep == ASSUME HandlesInv, NEW t \in Threads, MoveFrom(t) PROVE HandlesInv'
<1> DEFINE h == into[t]
           g == from[t]
<1>1. /\ stage[t] = "move"
      /\ \/ /\ g = NoHandle /\ data' = [data EXCEPT ![h] = temp[t]]
            /\ temp' = [temp EXCEPT ![t] = NoBlock]
         \/ /\ g # NoHandle /\ data' = [data EXCEPT ![h] = data[g], ![g] = NoBlock]
            /\ UNCHANGED temp
      /\ stage' = [stage EXCEPT ![t] = "idle"]
      /\ into' = [into EXCEPT ![t] = NoHandle] /\ from' = [from EXCEPT ![t] = NoHandle]
      /\ UNCHANGED <<poolVars, counters, raw, hand>>
  BY DEF MoveFrom, Moved, Done
<1>2. HandlesTypeOK /\ ThreadInv(t)
  BY DEF HandlesInv, ThreadsInv
<1>3. /\ h \in Handles /\ data[h] = NoBlock /\ hand[t] = NoBlock /\ NoBlock \notin Blocks
      /\ g # NoHandle => g \in Handles /\ g # h /\ temp[t] = NoBlock
  <2>1. h # NoHandle /\ data[h] = NoBlock /\ hand[t] = NoBlock
    BY <1>1, <1>2 DEF ThreadInv
  <2>2. g # NoHandle => g # h /\ temp[t] = NoBlock
    BY <1>2 DEF ThreadInv
  <2>3. QED
    BY <1>2, <2>1, <2>2 DEF HandlesTypeOK, Blocks, NoBlock
<1> HIDE DEF h, g
<1>4. \A c \in Blocks : (Owned(c) => OneHas(c)') /\ (Unowned(c) => Unowned(c)')
  <2>1. SUFFICES ASSUME NEW c \in Blocks
                 PROVE  (Owned(c) => OneHas(c)') /\ (Unowned(c) => Unowned(c)')
    OBVIOUS
  <2>2. CASE g = NoHandle /\ c = temp[t]
    <3>1. /\ OutHandle(c) /\ OutHand(c) /\ OutRaw(c)
          /\ \A u \in Threads : temp[u] = c <=> u = t
      BY <2>2, TempOwns DEF HandlesInv
    <3>2. OutTemp(c)'
      BY <1>1, <1>2, <1>3, <2>2, <3>1 DEF HandlesTypeOK, OutTemp
    <3>3. \A k \in Handles : data'[k] = c <=> k = h
      BY <1>1, <1>2, <1>3, <2>2, <3>1 DEF HandlesTypeOK, OutHandle
    <3>4. OneHas(c)'
      BY <1>1, <1>3, <3>1, <3>2, <3>3 DEF OneHas, InHandle, OutHand, OutRaw
    <3>5. ~Unowned(c)
      BY <3>1 DEF Unowned, OutTemp
    <3>6. QED
      BY <3>4, <3>5
  <2>3. CASE g # NoHandle /\ c = data[g]
    <3>1. /\ OutHand(c) /\ OutTemp(c) /\ OutRaw(c)
          /\ \A k \in Handles : data[k] = c <=> k = g
      BY <1>3, <2>3, HandleOwns DEF HandlesInv
    <3>2. \A k \in Handles : data'[k] = c <=> k = h
      BY <1>1, <1>2, <1>3, <2>3, <3>1 DEF HandlesTypeOK
    <3>3. OneHas(c)'
      BY <1>1, <1>3, <2>3, <3>1, <3>2 DEF OneHas, InHandle, OutHand, OutTemp, OutRaw
    <3>4. ~Unowned(c)
      BY <1>3, <2>3, <3>1 DEF Unowned, OutHandle
    <3>5. QED
      BY <3>3, <3>4
  <2>4. CASE IF g = NoHandle THEN c # temp[t] ELSE c # data[g]
    <3>1. \A k \in Handles : data'[k] = c <=> data[k] = c
      BY <1>1, <1>2, <1>3, <2>4 DEF HandlesTypeOK
    <3>2. \A u \in Threads : temp'[u] = c <=> temp[u] = c
      BY <1>1, <1>2, <1>3, <2>4 DEF HandlesTypeOK
    <3>3. OwnersSame(c)
      BY <1>1, <3>1, <3>2, SameOwners
    <3>4. QED
      BY <3>3 DEF OwnersSame, Owned
  <2>5. QED
    BY <2>2, <2>3, <2>4
<1>5. BlocksInv' /\ Balance'
  BY <1>1, <1>4, MovesKeep
<1>6. HandlesTypeOK'
  <2>1. data' \in [Handles -> Blocks \cup {NoBlock}] /\ temp' \in [Threads -> Blocks \cup {NoBlock}]
    BY <1>1, <1>2, <1>3 DEF HandlesTypeOK
  <2>2. QED
    BY <1>1, <1>2, <2>1 DEF HandlesTypeOK, poolVars, counters
<1>7. ThreadsInv'
  <2>1. /\ stage'[t] = "idle" /\ into'[t] = NoHandle /\ from'[t] = NoHandle /\ hand'[t] = NoBlock
        /\ temp'[t] = NoBlock
    <3>1. g = NoHandle \/ temp[t] = NoBlock
      BY <1>3
    <3>2. QED
      BY <1>1, <1>2, <1>3, <3>1 DEF HandlesTypeOK
  <2>2. ThreadInv(t)'
    BY <2>1 DEF ThreadInv
  <2>3. OthersSame(t)
    <3>1. SUFFICES ASSUME NEW u \in Threads \ {t}
                   PROVE  /\ stage'[u] = stage[u] /\ into'[u] = into[u] /\ from'[u] = from[u]
                          /\ hand'[u] = hand[u] /\ temp'[u] = temp[u]
                          /\ stage[u] \in {"release", "last", "move"} /\ data[into[u]] = NoBlock
                               => data'[into[u]] = NoBlock
      BY DEF OthersSame
    <3>2. /\ stage'[u] = stage[u] /\ into'[u] = into[u] /\ from'[u] = from[u]
          /\ hand'[u] = hand[u] /\ temp'[u] = temp[u]
      BY <1>1, <1>2 DEF HandlesTypeOK
    <3>3. /\ into[u] # h
          /\ stage[u] \in {"release", "last", "move"} => into[u] \in Handles
      <4>1. ThreadInv(u) /\ Exclusive(t, u)
        BY DEF HandlesInv, ThreadsInv
      <4>2. h # NoHandle
        BY <1>3, BufferHandleAssumption
      <4>3. into[u] # h
        BY <4>1, <4>2 DEF Exclusive, h
      <4>4. into[u] \in Handles \cup {NoHandle}
        BY <1>2 DEF HandlesTypeOK
      <4>5. QED
        BY <4>1, <4>3, <4>4 DEF ThreadInv
    <3>4. ASSUME into[u] \in Handles, data[into[u]] = NoBlock PROVE data'[into[u]] = NoBlock
      BY <1>1, <1>2, <1>3, <3>3, <3>4 DEF HandlesTypeOK
    <3>5. QED
      BY <3>2, <3>3, <3>4
  <2>4. QED
    BY <2>1, <2>2, <2>3, ThreadFrame
<1>8. QED
  BY <1>5, <1>6, <1>7 DEF HandlesInv

\* Allocate without a handle.
LEMMA AllocateRawStep == ASSUME HandlesInv, NEW t \in Threads, AllocateRaw(t) PROVE HandlesInv'
<1>1. PICK b \in Blocks : Allocate(b) /\ raw' = raw \cup {b}
  BY DEF AllocateRaw
<1>2. UNCHANGED <<data, stage, into, from, hand, temp>>
  BY DEF AllocateRaw, threadVars
<1>3. Unowned(b)
  BY <1>1, AllocateFree DEF Allocate, HandlesInv
<1>4. OneHas(b)'
  BY <1>1, <1>2, <1>3 DEF OneHas, Unowned, OutHandle, OutHand, OutTemp
<1>5. \A c \in Blocks \ {b} : OwnersSame(c)
  BY <1>1, <1>2, SameOwners
<1>6. BlocksInv' /\ Balance' /\ free' \in Seq(Blocks) /\ heap' \in 0..MaxBlocks
  BY <1>1, <1>4, <1>5, GainKeeps
<1>7. HandlesTypeOK'
  BY <1>1, <1>2, <1>6 DEF HandlesInv, HandlesTypeOK, Allocate
<1>8. ThreadsInv'
  BY <1>2 DEF HandlesInv, ThreadsInv, ThreadInv, Exclusive
<1>9. QED
  BY <1>6, <1>7, <1>8 DEF HandlesInv

LEMMA ReleaseRawStep == ASSUME HandlesInv, NEW t \in Threads, ReleaseRaw(t) PROVE HandlesInv'
<1>1. PICK b \in raw : Release(b) /\ raw' = raw \ {b}
  BY DEF ReleaseRaw
<1>2. UNCHANGED <<data, stage, into, from, hand, temp>>
  BY DEF ReleaseRaw, threadVars
<1>3. b \in Blocks
  BY DEF HandlesInv, HandlesTypeOK
<1>4. OutFree(b) /\ OutHandle(b) /\ OutHand(b) /\ OutTemp(b)
  BY <1>3, RawOwns DEF HandlesInv
<1>5. Owned(b)
  BY <1>4 DEF Owned, OneHas
<1>6. Unowned(b)'
  BY <1>1, <1>2, <1>4 DEF Unowned, OutHandle, OutHand, OutTemp, OutRaw
<1>7. \A c \in Blocks \ {b} : OwnersSame(c)
  BY <1>1, <1>2, SameOwners
<1>8. BlocksInv' /\ Balance' /\ free' \in Seq(Blocks) /\ heap' \in 0..MaxBlocks
  BY <1>1, <1>3, <1>5, <1>6, <1>7, LossKeeps
<1>9. HandlesTypeOK'
  BY <1>1, <1>2, <1>8 DEF HandlesInv, HandlesTypeOK, Release
<1>10. ThreadsInv'
  BY <1>2 DEF HandlesInv, ThreadsInv, ThreadInv, Exclusive
<1>11. QED
  BY <1>8, <1>9, <1>10 DEF HandlesInv

-----------------------------------------------------------------------------
(* The invariant.                                                          *)

LEMMA HandlesStart == HandlesInit => HandlesInv
<1> SUFFICES ASSUME HandlesInit PROVE HandlesInv
  OBVIOUS
<1>1. /\ free = [i \in 1..InitialCount |-> i] /\ heap = InitialCount
      /\ acquired = 0 /\ released = 0 /\ data = [h \in Handles |-> NoBlock] /\ raw = {}
      /\ stage = [t \in Threads |-> "idle"] /\ into = [t \in Threads |-> NoHandle]
      /\ from = [t \in Threads |-> NoHandle] /\ hand = [t \in Threads |-> NoBlock]
      /\ temp = [t \in Threads |-> NoBlock]
  BY DEF HandlesInit, NetBufferPoolInit
<1>2. InitialCount \in Nat /\ MaxBlocks \in Nat /\ InitialCount <= MaxBlocks
  BY NetBufferPoolAssumption
<1>3. free \in Seq(Blocks) /\ Len(free) = InitialCount
  <2>1. free \in [1..InitialCount -> Blocks]
    BY <1>1, <1>2 DEF Blocks
  <2>2. QED
    BY <1>2, <2>1
<1>4. HandlesTypeOK
  BY <1>1, <1>2, <1>3 DEF HandlesTypeOK
<1>5. \A b \in Blocks : Unowned(b)
  BY <1>1 DEF Unowned, OutHandle, OutHand, OutTemp, OutRaw, Blocks, NoBlock
<1>6. BlocksInv
  <2>1. SUFFICES ASSUME NEW b \in Blocks
                 PROVE  IF b <= heap THEN InFree(b) ELSE OutFree(b)
    BY <1>5 DEF BlocksInv, Stacked, Nowhere
  <2>2. \A i \in 1..InitialCount : free[i] = i
    BY <1>1
  <2>3. CASE b <= heap
    <3>1. b \in 1..InitialCount /\ \A j \in 1..InitialCount : free[j] = b <=> j = b
      BY <1>1, <1>2, <2>2, <2>3 DEF Blocks
    <3>2. QED
      BY <1>3, <2>3, <3>1 DEF InFree
  <2>4. CASE ~(b <= heap)
    BY <1>1, <1>2, <1>3, <2>2, <2>4 DEF Blocks, OutFree
  <2>5. QED
    BY <2>3, <2>4
<1>7. Balance
  <2>1. Lent = {}
    BY <1>5 DEF Lent, OutsidePool, Unowned, OutHandle, OutHand, OutTemp, OutRaw
  <2>2. QED
    BY <1>1, <2>1, FS_EmptySet DEF Balance
<1>8. ThreadsInv
  BY <1>1 DEF ThreadsInv, ThreadInv, Exclusive
<1>9. QED
  BY <1>4, <1>6, <1>7, <1>8 DEF HandlesInv

LEMMA HandlesStep == HandlesInv /\ [HandlesNext]_handlesVars => HandlesInv'
<1> SUFFICES ASSUME HandlesInv, [HandlesNext]_handlesVars PROVE HandlesInv'
  OBVIOUS
<1>1. ASSUME NEW t \in Threads, NEW h \in Handles, AcquireInto(t, h) PROVE HandlesInv'
  BY <1>1, AcquireIntoStep
<1>2. ASSUME NEW t \in Threads, NEW h \in Handles, Reset(t, h) PROVE HandlesInv'
  <2>1. /\ Begin(t, "clear", h, NoHandle)
        /\ UNCHANGED <<poolVars, counters, data, raw, hand, temp>>
    BY <1>2 DEF Reset
  <2>2. "clear" \in {"reset", "clear"}
    OBVIOUS
  <2>3. QED
    BY <2>1, <2>2, CallStep
<1>3. ASSUME NEW t \in Threads, NEW h \in Handles, NEW g \in Handles, MoveAssign(t, h, g)
      PROVE  HandlesInv'
  <2>1. /\ Begin(t, "reset", h, g) /\ g \in Mine(t) /\ g # h
        /\ UNCHANGED <<poolVars, counters, data, raw, hand, temp>>
    BY <1>3 DEF MoveAssign
  <2>2. "reset" \in {"reset", "clear"}
    OBVIOUS
  <2>3. QED
    BY <2>1, <2>2, CallStep
<1>4. ASSUME NEW t \in Threads, ResetClears(t) \/ ResetReleases(t) \/ MoveFrom(t) PROVE HandlesInv'
  BY <1>4, ResetClearsStep, ResetReleasesStep, MoveFromStep
<1>5. ASSUME NEW t \in Threads, AllocateRaw(t) \/ ReleaseRaw(t) PROVE HandlesInv'
  BY <1>5, AllocateRawStep, ReleaseRawStep
<1>6. CASE UNCHANGED handlesVars
  <2>1. /\ UNCHANGED <<poolVars, counters>>
        /\ UNCHANGED <<data, raw, stage, into, from, hand, temp>>
    BY <1>6 DEF handlesVars, threadVars
  <2>2. \A c \in Blocks : OwnersSame(c)
    BY <2>1, SameOwners
  <2>3. BlocksInv' /\ Balance'
    BY <2>1, <2>2, MovesKeep DEF OwnersSame, Owned
  <2>4. HandlesTypeOK'
    BY <2>1 DEF HandlesInv, HandlesTypeOK, poolVars, counters
  <2>5. ThreadsInv'
    BY <2>1 DEF HandlesInv, ThreadsInv, ThreadInv, Exclusive
  <2>6. QED
    BY <2>3, <2>4, <2>5 DEF HandlesInv
<1>7. QED
  BY <1>1, <1>2, <1>3, <1>4, <1>5, <1>6 DEF HandlesNext

LEMMA HandlesInvHolds == HandlesSpec => []HandlesInv
BY HandlesStart, HandlesStep, PTL DEF HandlesSpec

\* The variables keep their types: a thread that moves or assigns has a
\* handle to move into, and what it releases is a block of the pool
\* (BufferHandle::reset, moveFrom).
THEOREM HandlesTypeCorrect == HandlesSpec => []HandlesTypeOK
BY HandlesInvHolds, PTL DEF HandlesInv

LEMMA OnePlaceEach == HandlesInv => OneOwner
<1> SUFFICES ASSUME HandlesInv PROVE OneOwner
  OBVIOUS
<1>1. free \in Seq(Blocks) /\ DOMAIN free = 1..Len(free) /\ heap \in 0..MaxBlocks /\ MaxBlocks \in Nat
  BY NetBufferPoolAssumption DEF HandlesInv, HandlesTypeOK
<1>2. ASSUME NEW b \in 1..heap PROVE \E p \in Places(b) : Places(b) = {p}
  <2> DEFINE stack == {<<"free", i>> : i \in {j \in DOMAIN free : free[j] = b}}
             handles == {<<"handle", h>> : h \in {g \in Handles : data[g] = b}}
             hands == {<<"hand", t>> : t \in {u \in Threads : hand[u] = b}}
             temps == {<<"temp", t>> : t \in {u \in Threads : temp[u] = b}}
             raws == {<<"raw", x>> : x \in raw \cap {b}}
  <2>1. b \in Blocks /\ b <= heap
    BY <1>1 DEF Blocks
  <2>2. Owned(b) \/ Stacked(b)
    BY <2>1 DEF HandlesInv, BlocksInv
  <2>3. Places(b) = stack \cup handles \cup hands \cup temps \cup raws
    BY DEF Places, OutsidePool
  <2>4. /\ OutFree(b) => stack = {}
        /\ OutHandle(b) => handles = {}
        /\ OutHand(b) => hands = {}
        /\ OutTemp(b) => temps = {}
        /\ OutRaw(b) => raws = {}
    BY <1>1 DEF OutFree, OutHandle, OutHand, OutTemp, OutRaw
  <2>5. ASSUME InFree(b) PROVE \E p : stack = {p}
    <3>1. PICK i \in 1..Len(free) : \A x \in 1..Len(free) : free[x] = b <=> x = i
      BY <2>5 DEF InFree
    <3>2. {x \in 1..Len(free) : free[x] = b} = {i}
      BY <3>1
    <3>3. stack = {<<"free", i>>}
      BY <1>1, <3>2
    <3>4. QED
      BY <3>3
  <2>6. ASSUME InHandle(b) PROVE \E p : handles = {p}
    <3>1. PICK h \in Handles : \A x \in Handles : data[x] = b <=> x = h
      BY <2>6 DEF InHandle
    <3>2. {x \in Handles : data[x] = b} = {h}
      BY <3>1
    <3>3. handles = {<<"handle", h>>}
      BY <3>2
    <3>4. QED
      BY <3>3
  <2>7. ASSUME InHand(b) PROVE \E p : hands = {p}
    <3>1. PICK t \in Threads : \A x \in Threads : hand[x] = b <=> x = t
      BY <2>7 DEF InHand
    <3>2. {x \in Threads : hand[x] = b} = {t}
      BY <3>1
    <3>3. hands = {<<"hand", t>>}
      BY <3>2
    <3>4. QED
      BY <3>3
  <2>8. ASSUME InTemp(b) PROVE \E p : temps = {p}
    <3>1. PICK t \in Threads : \A x \in Threads : temp[x] = b <=> x = t
      BY <2>8 DEF InTemp
    <3>2. {x \in Threads : temp[x] = b} = {t}
      BY <3>1
    <3>3. temps = {<<"temp", t>>}
      BY <3>2
    <3>4. QED
      BY <3>3
  <2>9. b \in raw => \E p : raws = {p}
    OBVIOUS
  <2> HIDE DEF stack, handles, hands, temps, raws
  <2>10. \E p : Places(b) = {p}
    <3>1. CASE Stacked(b)
      BY <2>3, <2>4, <2>5, <3>1 DEF Stacked, Unowned
    <3>2. CASE Owned(b)
      BY <2>3, <2>4, <2>6, <2>7, <2>8, <2>9, <3>2 DEF Owned, OneHas
    <3>3. QED
      BY <2>2, <3>1, <3>2
  <2>11. QED
    BY <2>10
<1>3. QED
  BY <1>2 DEF OneOwner, HandlesInv, Balance

\* Every block the pool has taken from the heap is in one place, on the stack
\* or with one owner, and the counters agree with the blocks lent, however
\* the threads' resets, assignments and moves interleave
\* (BufferHandle::reset, moveFrom, BufferPool::Acquire, Release).
THEOREM BlocksHaveOneOwner == HandlesSpec => []OneOwner
BY HandlesInvHolds, OnePlaceEach, PTL
=============================================================================
