---------------------------- MODULE LoggerProofs ----------------------------
(***************************************************************************)
(* What holds of the logger for any number of threads, records, files and  *)
(* restarts.  A record queued is in the queue, in the worker's batch or    *)
(* dealt with; a stream's size counts its current file and the lines not   *)
(* written yet; only the last drain leaves a fatal record unwritten; and a *)
(* rotated file that holds anything comes after full ones.                 *)
(***************************************************************************)
EXTENDS Logger, FiniteSetTheorems, SequenceTheorems, WellFoundedInduction, TLAPS

\* The producers past their test of running.
Pushing == {p \in Producers : producer[p] = "push"}

\* Types, with the sizes of the streams left to Sizes.
Types ==
  /\ running \in BOOLEAN
  /\ queue \in Seq(Record) /\ batch \in Seq(Record) /\ pushed \in Seq(Record)
  /\ main \in {"down", "starting", "up", "ending", "joining"}
  /\ inits \in 0..MaxInits
  /\ producer \in [Producers -> {"idle", "push"}]
  /\ worker \in {"loop", "lock", "wait", "woken", "write", "drain", "done"}
  /\ flusher \in {"out", "in"}
  /\ disk \in [Streams -> [Files -> Seq(Record)]]
  /\ buf \in [Streams -> Seq(Record)]
  /\ bytes \in [Streams -> Nat]
  /\ handled \in Nat /\ lost \in BOOLEAN /\ upto \in Nat

\* Records that are on their way keep within the bound.
Room == Len(pushed) + Cardinality(Pushing) <= MaxRecords

\* Every record queued is in one of three places, and upto was a length of pushed.
Counted ==
  /\ handled + Len(batch) + Len(queue) = Len(pushed)
  /\ upto <= Len(pushed)

\* A size counts the current file and what is to go there.
InFile(f) == Len(disk[f][0])
InBuf(f)  == Len(buf[f])
Sizes ==
  \A f \in Streams : bytes[f] = InFile(f) + InBuf(f) /\ bytes[f] < RotateLines

\* Where the worker is while the logger starts, runs and stops.
Phases ==
  /\ running <=> main \in {"starting", "up", "ending"}
  /\ running => worker \notin {"drain", "done"}
  /\ main = "down" => worker = "done"
  /\ worker # "write" => batch = <<>>

\* The worker is done only when it has seen to all that Shutdown waits for.
Done ==
  /\ worker = "done" => handled >= upto
  /\ main = "down" => \A f \in Streams : buf[f] = <<>>

LogInv == Types /\ Room /\ Counted /\ Sizes /\ Phases /\ Done /\ FatalDurable

-----------------------------------------------------------------------------
(* The operators.                                                          *)

LEMMA Constants ==
  /\ IsFiniteSet(Producers) /\ RotateLines \in Nat \ {0} /\ KeepFiles \in Nat
  /\ MaxRecords \in Nat /\ MaxInits \in Nat /\ Levels \subseteq AllLevels
  /\ 0 \in Files
BY ConfigAssumption DEF Files

\* A queue that is not empty has a first record.
LEMMA QueueParts ==
  ASSUME NEW q \in Seq(Record), q # <<>>
  PROVE  Head(q) \in Record /\ Tail(q) \in Seq(Record) /\ Len(Tail(q)) = Len(q) - 1
         /\ Len(q) \in Nat /\ Len(q) > 0
OBVIOUS

\* The unwritten lines go to the current file.
LEMMA FlushedIs ==
  ASSUME NEW d \in [Files -> Seq(Record)], NEW b \in Seq(Record)
  PROVE  /\ Flushed(d, b) \in [Files -> Seq(Record)]
         /\ Len(Flushed(d, b)[0]) = Len(d[0]) + Len(b)
<1>1. 0 \in Files /\ d[0] \in Seq(Record)
  BY Constants
<1>2. d[0] \o b \in Seq(Record) /\ Len(d[0] \o b) = Len(d[0]) + Len(b)
  BY <1>1
<1>3. QED
  BY <1>1, <1>2 DEF Flushed

LEMMA RotatedIs ==
  ASSUME NEW d \in [Files -> Seq(Record)], NEW failed
  PROVE  Rotated(d, failed) \in [Files -> Seq(Record)] /\ Rotated(d, failed)[0] = <<>>
<1>1. <<>> \in Seq(Record) /\ 0 \in Files
  BY Constants
<1>2. \A i \in Files : i # 0 => i - 1 \in Files
  BY Constants DEF Files
<1>3. QED
  BY <1>1, <1>2 DEF Rotated

\* What FlushStreams leaves.
LEMMA FlushIs ==
  ASSUME Types, Sizes, FlushStreams
  PROVE  /\ disk' \in [Streams -> [Files -> Seq(Record)]]
         /\ buf' \in [Streams -> Seq(Record)]
         /\ \A f \in Streams : buf'[f] = <<>>
         /\ bytes' = bytes
         /\ Sizes'
<1>1. \A f \in Streams : /\ Flushed(disk[f], buf[f]) \in [Files -> Seq(Record)]
                         /\ Len(Flushed(disk[f], buf[f])[0]) = Len(disk[f][0]) + Len(buf[f])
  BY FlushedIs DEF Types
<1>2. /\ disk' = [f \in Streams |-> Flushed(disk[f], buf[f])]
      /\ buf' = [f \in Streams |-> <<>>]
      /\ bytes' = bytes
  BY DEF FlushStreams
<1>3. <<>> \in Seq(Record) /\ Len(<<>>) = 0
  OBVIOUS
<1>4. \A f \in Streams : disk'[f] = Flushed(disk[f], buf[f]) /\ buf'[f] = <<>>
  BY <1>2
<1>5. \A f \in Streams : InFile(f)' = InFile(f) + InBuf(f) /\ InBuf(f)' = 0
  BY <1>1, <1>3, <1>4 DEF InFile, InBuf
<1>6. \A f \in Streams : InFile(f) \in Nat /\ InBuf(f) \in Nat
  BY Constants DEF Types, InFile, InBuf
<1>7. Sizes'
  <2> SUFFICES ASSUME NEW f \in Streams
               PROVE  bytes'[f] = InFile(f)' + InBuf(f)' /\ bytes'[f] < RotateLines
    BY DEF Sizes
  <2>1. bytes'[f] = bytes[f]
    BY <1>2
  <2>2. bytes[f] = InFile(f) + InBuf(f) /\ bytes[f] < RotateLines
    BY DEF Sizes
  <2>3. QED
    BY <1>5, <1>6, <2>1, <2>2, Constants
<1>8. QED
  BY <1>1, <1>2, <1>3, <1>4, <1>7

\* What happens to one stream when record r is written: it is not for this one;
\* it waits; it is flushed; or the files are rotated.
Skips(f, r) == ~Takes(f, r) /\ disk'[f] = disk[f] /\ buf'[f] = buf[f] /\ bytes'[f] = bytes[f]
Buffers(f, r, atOnce) ==
  /\ Takes(f, r) /\ bytes[f] + 1 < RotateLines /\ ~FlushesNow(r, atOnce)
  /\ disk'[f] = disk[f] /\ buf'[f] = Append(buf[f], r) /\ bytes'[f] = bytes[f] + 1
GoesOut(f, r) ==
  /\ Takes(f, r) /\ bytes[f] + 1 < RotateLines
  /\ disk'[f] = Flushed(disk[f], Append(buf[f], r)) /\ buf'[f] = <<>>
  /\ bytes'[f] = bytes[f] + 1
Rotates(f, r) ==
  /\ Takes(f, r) /\ bytes[f] + 1 >= RotateLines
  /\ \E failed \in SUBSET Files :
        /\ disk'[f] = Rotated(Flushed(disk[f], Append(buf[f], r)), failed)
        /\ lost' \/ failed = {}
  /\ buf'[f] = <<>> /\ bytes'[f] = 0

LEMMA WriteIs ==
  ASSUME Types, NEW r \in Record, NEW atOnce \in BOOLEAN, WriteRecord(r, atOnce)
  PROVE  /\ \A f \in Streams : Skips(f, r) \/ Buffers(f, r, atOnce) \/ GoesOut(f, r) \/ Rotates(f, r)
         /\ disk' = [f \in Streams |-> disk'[f]]
         /\ buf' = [f \in Streams |-> buf'[f]]
         /\ bytes' = [f \in Streams |-> bytes'[f]]
         /\ handled' = handled + 1
         /\ lost' \in BOOLEAN /\ (lost => lost')
<1> DEFINE b(f)   == IF Takes(f, r) THEN Append(buf[f], r) ELSE buf[f]
           n(f)   == IF Takes(f, r) THEN bytes[f] + 1 ELSE bytes[f]
           due(f) == Takes(f, r) /\ RotationDue(n(f))
           out(f) == due(f) \/ FlushesNow(r, atOnce)
<1>1. PICK failed \in [Streams -> SUBSET Files] :
        /\ disk' = [f \in Streams |->
                      IF due(f) THEN Rotated(Flushed(disk[f], b(f)), failed[f])
                      ELSE IF out(f) THEN Flushed(disk[f], b(f))
                      ELSE disk[f]]
        /\ buf' = [f \in Streams |-> IF out(f) THEN <<>> ELSE b(f)]
        /\ bytes' = [f \in Streams |-> IF due(f) THEN 0 ELSE n(f)]
        /\ handled' = handled + 1
        /\ lost' = (lost \/ \E f \in Streams : due(f) /\ failed[f] # {})
  <2>1. (IF RenameMayFail THEN SUBSET (Files \ {0}) ELSE {{}}) \subseteq SUBSET Files
    OBVIOUS
  <2>2. QED
    BY <2>1 DEF WriteRecord
<1>2. \A f \in Streams : ~Takes(f, r) => ~FlushesNow(r, atOnce)
  BY DEF Takes, FlushesNow
<1>3. \A f \in Streams : bytes[f] \in Nat
  BY DEF Types
<1>4. ASSUME NEW f \in Streams
      PROVE  Skips(f, r) \/ Buffers(f, r, atOnce) \/ GoesOut(f, r) \/ Rotates(f, r)
  <2>0. /\ disk'[f] = (IF due(f) THEN Rotated(Flushed(disk[f], b(f)), failed[f])
                       ELSE IF out(f) THEN Flushed(disk[f], b(f)) ELSE disk[f])
        /\ buf'[f] = (IF out(f) THEN <<>> ELSE b(f))
        /\ bytes'[f] = (IF due(f) THEN 0 ELSE n(f))
    BY <1>1
  <2>1. CASE ~Takes(f, r)
    BY <1>2, <2>0, <2>1 DEF Skips
  <2>2. CASE Takes(f, r) /\ ~RotationDue(bytes[f] + 1) /\ ~FlushesNow(r, atOnce)
    BY <1>3, <2>0, <2>2, Constants DEF Buffers, RotationDue
  <2>3. CASE Takes(f, r) /\ ~RotationDue(bytes[f] + 1) /\ FlushesNow(r, atOnce)
    BY <1>3, <2>0, <2>3, Constants DEF GoesOut, RotationDue
  <2>4. CASE Takes(f, r) /\ RotationDue(bytes[f] + 1)
    <3>1. due(f) /\ b(f) = Append(buf[f], r) /\ bytes[f] + 1 >= RotateLines
      BY <2>4 DEF RotationDue
    <3>2. failed[f] \in SUBSET Files /\ (lost' \/ failed[f] = {})
      BY <1>1, <3>1
    <3>3. QED
      BY <2>0, <2>4, <3>1, <3>2 DEF Rotates
  <2>5. QED
    BY <2>1, <2>2, <2>3, <2>4
<1>5. lost' \in BOOLEAN /\ (lost => lost')
  BY <1>1 DEF Types
<1>6. /\ disk' = [f \in Streams |-> disk'[f]]
      /\ buf' = [f \in Streams |-> buf'[f]]
      /\ bytes' = [f \in Streams |-> bytes'[f]]
  BY <1>1
<1>7. handled' = handled + 1
  BY <1>1
<1>8. QED
  BY <1>4, <1>5, <1>6, <1>7

\* Types and sizes after a write.
LEMMA WriteKeeps ==
  ASSUME Types, Sizes, NEW r \in Record, NEW atOnce \in BOOLEAN, WriteRecord(r, atOnce)
  PROVE  /\ disk' \in [Streams -> [Files -> Seq(Record)]]
         /\ buf' \in [Streams -> Seq(Record)]
         /\ bytes' \in [Streams -> Nat]
         /\ Sizes'
<1>1. ASSUME NEW f \in Streams
      PROVE  /\ disk'[f] \in [Files -> Seq(Record)]
             /\ buf'[f] \in Seq(Record)
             /\ bytes'[f] \in Nat
             /\ bytes'[f] = InFile(f)' + InBuf(f)' /\ bytes'[f] < RotateLines
  <2>1. /\ disk[f] \in [Files -> Seq(Record)] /\ buf[f] \in Seq(Record) /\ bytes[f] \in Nat
        /\ bytes[f] = InFile(f) + InBuf(f) /\ bytes[f] < RotateLines
        /\ disk[f][0] \in Seq(Record)
    BY Constants DEF Types, Sizes
  <2>2. /\ Append(buf[f], r) \in Seq(Record) /\ Len(Append(buf[f], r)) = InBuf(f) + 1
        /\ InBuf(f) \in Nat /\ InFile(f) \in Nat
    BY <2>1 DEF InBuf, InFile
  <2>3. <<>> \in Seq(Record) /\ Len(<<>>) = 0
    OBVIOUS
  <2>4. CASE Skips(f, r)
    BY <2>1, <2>4 DEF Skips, InFile, InBuf
  <2>5. CASE Buffers(f, r, atOnce)
    <3>1. /\ disk'[f] = disk[f] /\ buf'[f] = Append(buf[f], r) /\ bytes'[f] = bytes[f] + 1
          /\ bytes[f] + 1 < RotateLines
      BY <2>5 DEF Buffers
    <3>2. InBuf(f)' = InBuf(f) + 1 /\ InFile(f)' = InFile(f)
      BY <2>2, <3>1 DEF InBuf, InFile
    <3>3. bytes'[f] = InFile(f)' + InBuf(f)' /\ bytes'[f] < RotateLines
      BY <2>1, <2>2, <3>1, <3>2, Constants
    <3>4. QED
      BY <2>1, <2>2, <3>1, <3>3
  <2>6. CASE GoesOut(f, r)
    <3>1. /\ disk'[f] \in [Files -> Seq(Record)]
          /\ InFile(f)' = InFile(f) + (InBuf(f) + 1)
      BY <2>1, <2>2, <2>6, FlushedIs DEF GoesOut, InFile
    <3>2. buf'[f] = <<>> /\ bytes'[f] = bytes[f] + 1 /\ bytes[f] + 1 < RotateLines
      BY <2>6 DEF GoesOut
    <3>3. InBuf(f)' = 0 /\ buf'[f] \in Seq(Record)
      BY <2>3, <3>2 DEF InBuf
    <3>4. bytes'[f] = InFile(f)' + InBuf(f)' /\ bytes'[f] < RotateLines
      BY <2>1, <2>2, <3>1, <3>2, <3>3, Constants
    <3>5. QED
      BY <2>1, <3>1, <3>2, <3>3, <3>4
  <2>7. CASE Rotates(f, r)
    <3>1. disk'[f] \in [Files -> Seq(Record)] /\ disk'[f][0] = <<>>
      <4>1. PICK failed : disk'[f] = Rotated(Flushed(disk[f], Append(buf[f], r)), failed)
        BY <2>7 DEF Rotates
      <4>2. Flushed(disk[f], Append(buf[f], r)) \in [Files -> Seq(Record)]
        BY <2>1, <2>2, FlushedIs
      <4>3. QED
        BY <4>1, <4>2, RotatedIs
    <3>2. buf'[f] = <<>> /\ bytes'[f] = 0
      BY <2>7 DEF Rotates
    <3>3. InFile(f)' = 0 /\ InBuf(f)' = 0
      BY <2>3, <3>1, <3>2 DEF InFile, InBuf
    <3>4. QED
      BY <2>3, <3>1, <3>2, <3>3, Constants
  <2>8. QED
    BY <2>4, <2>5, <2>6, <2>7, WriteIs
<1>2. /\ disk' = [f \in Streams |-> disk'[f]]
      /\ buf' = [f \in Streams |-> buf'[f]]
      /\ bytes' = [f \in Streams |-> bytes'[f]]
  BY WriteIs
<1>3. QED
  BY <1>1, <1>2 DEF Sizes

\* A fatal record written at once does not stay in a stream.
LEMMA WriteOut ==
  ASSUME Types, FatalDurable, NEW r \in Record, WriteRecord(r, TRUE), worker = "write"
  PROVE  \A f \in Streams : \A i \in 1..Len(buf'[f]) : buf'[f][i].lvl # "fatal"
<1> SUFFICES ASSUME NEW f \in Streams
             PROVE  \A i \in 1..Len(buf'[f]) : buf'[f][i].lvl # "fatal"
  OBVIOUS
<1>1. buf[f] \in Seq(Record) /\ \A i \in 1..Len(buf[f]) : buf[f][i].lvl # "fatal"
  BY DEF Types, FatalDurable
<1>2. CASE buf'[f] = <<>>
  <2>1. Len(buf'[f]) = 0
    BY <1>2
  <2>2. QED
    BY <2>1
<1>3. CASE buf'[f] = buf[f]
  BY <1>1, <1>3
<1>4. CASE Buffers(f, r, TRUE)
  <2>1. r.lvl # "fatal" /\ buf'[f] = Append(buf[f], r)
    BY <1>4 DEF Buffers, FlushesNow
  <2>2. /\ Len(Append(buf[f], r)) = Len(buf[f]) + 1
        /\ Append(buf[f], r)[Len(buf[f]) + 1] = r
        /\ \A i \in 1..Len(buf[f]) : Append(buf[f], r)[i] = buf[f][i]
        /\ Len(buf[f]) \in Nat
    BY <1>1
  <2>3. \A i \in 1..(Len(buf[f]) + 1) : i \in 1..Len(buf[f]) \/ i = Len(buf[f]) + 1
    BY <2>2
  <2>4. QED
    BY <1>1, <2>1, <2>2, <2>3
<1>5. QED
  BY <1>2, <1>3, <1>4, WriteIs DEF Skips, GoesOut, Rotates

-----------------------------------------------------------------------------
(* The bound on records: a producer past its test has its record's place.  *)

LEMMA PushingIs ==
  Types => Pushing \subseteq Producers /\ IsFiniteSet(Pushing) /\ Cardinality(Pushing) \in Nat
BY Constants, FS_Subset, FS_CardinalityType DEF Pushing

LEMMA OneMorePushes ==
  ASSUME Types, NEW p \in Producers, HasRoom, pushed' = pushed,
         producer' = [producer EXCEPT ![p] = "push"]
  PROVE  Room'
<1>1. Pushing' = Pushing \cup {p}
  BY DEF Types, Pushing
<1>2. Cardinality(Pushing') \in Nat /\ Cardinality(Pushing') <= Cardinality(Pushing) + 1
  <2> DEFINE P == Pushing
             A == P \cup {p}
  <2>1. IsFiniteSet(P) /\ Cardinality(P) \in Nat
    BY PushingIs
  <2>2. Pushing' = A
    BY <1>1
  <2> HIDE DEF P
  <2>3. Cardinality(A) = IF p \in P THEN Cardinality(P) ELSE Cardinality(P) + 1
    BY <2>1, FS_AddElement
  <2>4. Cardinality(A) \in Nat /\ Cardinality(A) <= Cardinality(P) + 1
    BY <2>1, <2>3
  <2>5. QED
    BY <2>2, <2>4 DEF P
<1>3. Len(pushed) \in Nat /\ Cardinality(Pushing) \in Nat /\ MaxRecords \in Nat
  BY PushingIs, Constants DEF Types
<1>4. Len(pushed) + Cardinality(Pushing) < MaxRecords
  BY DEF HasRoom, Pushing
<1>5. QED
  BY <1>2, <1>3, <1>4 DEF Room

LEMMA OnePushes ==
  ASSUME Types, Room, NEW p \in Producers, producer[p] = "push",
         Len(pushed') = Len(pushed) + 1, producer' = [producer EXCEPT ![p] = "idle"]
  PROVE  Room' /\ Len(pushed) < MaxRecords
<1>1. Pushing' = Pushing \ {p} /\ p \in Pushing
  BY DEF Types, Pushing
<1>2. Cardinality(Pushing') = Cardinality(Pushing) - 1 /\ Cardinality(Pushing) > 0
  <2>1. Pushing # {}
    BY <1>1
  <2>2. QED
    BY <1>1, <2>1, PushingIs, FS_RemoveElement, FS_EmptySet
<1>3. Len(pushed) \in Nat /\ Cardinality(Pushing) \in Nat /\ MaxRecords \in Nat
  BY PushingIs, Constants DEF Types
<1>4. QED
  BY <1>2, <1>3 DEF Room

LEMMA MainPushes ==
  ASSUME Types, HasRoom, Len(pushed') = Len(pushed) + 1, producer' = producer
  PROVE  Room' /\ Len(pushed) < MaxRecords
<1>1. Pushing' = Pushing
  BY DEF Pushing
<1>2. Len(pushed) \in Nat /\ Cardinality(Pushing) \in Nat /\ MaxRecords \in Nat
  BY PushingIs, Constants DEF Types
<1>3. Len(pushed) + Cardinality(Pushing) < MaxRecords
  BY DEF HasRoom, Pushing
<1>4. QED
  BY <1>1, <1>2, <1>3 DEF Room

\* Push gives the record to the queue and wakes the worker.
LEMMA PushIs ==
  ASSUME Types, Counted, NEW lvl \in AllLevels, Push(lvl), Len(pushed) < MaxRecords,
         UNCHANGED <<batch, handled, upto>>
  PROVE  /\ queue' \in Seq(Record) /\ pushed' \in Seq(Record)
         /\ Len(pushed') = Len(pushed) + 1
         /\ worker # "drain"
         /\ worker' = (IF worker = "wait" THEN "woken" ELSE worker)
         /\ Counted'
<1> DEFINE r == [n |-> Len(pushed) + 1, lvl |-> lvl]
<1>1. /\ worker # "drain"
      /\ queue' = Append(queue, r) /\ pushed' = Append(pushed, r)
      /\ worker' = (IF worker = "wait" THEN "woken" ELSE worker)
  BY DEF Push
<1>2. Len(pushed) \in Nat /\ Len(queue) \in Nat /\ Len(batch) \in Nat
      /\ handled \in Nat /\ upto \in Nat
  BY DEF Types
<1>3. r \in Record
  BY <1>2, Constants DEF Record
<1>4. /\ queue' \in Seq(Record) /\ pushed' \in Seq(Record)
      /\ Len(queue') = Len(queue) + 1 /\ Len(pushed') = Len(pushed) + 1
  <2> HIDE DEF r
  <2>1. QED
    BY <1>1, <1>3 DEF Types
<1>5. Counted'
  BY <1>2, <1>4 DEF Counted
<1>6. QED
  BY <1>1, <1>4, <1>5

-----------------------------------------------------------------------------
(* The invariant.                                                          *)

LEMMA LogInit == Init => LogInv
<1> SUFFICES ASSUME Init PROVE LogInv
  OBVIOUS
<1> USE DEF Init
<1>1. <<>> \in Seq(Record) /\ Len(<<>>) = 0
  OBVIOUS
<1>2. Types
  <2>1. /\ 0 \in Nat /\ 0 \in 0..MaxInits
        /\ disk \in [Streams -> [Files -> Seq(Record)]]
        /\ buf \in [Streams -> Seq(Record)] /\ bytes \in [Streams -> Nat]
    BY <1>1, Constants
  <2>2. producer \in [Producers -> {"idle", "push"}]
    OBVIOUS
  <2>3. QED
    BY <1>1, <2>1, <2>2 DEF Types
<1>3. Room
  <2>1. Pushing = {}
    BY DEF Pushing
  <2>2. QED
    BY <1>1, <2>1, FS_EmptySet, Constants DEF Room
<1>4. Counted
  BY <1>1 DEF Counted
<1>5. Sizes
  <2>1. \A f \in Streams : InFile(f) = 0 /\ InBuf(f) = 0 /\ bytes[f] = 0
    BY <1>1, Constants DEF InFile, InBuf
  <2>2. QED
    BY <2>1, Constants DEF Sizes
<1>6. Phases /\ Done
  BY DEF Phases, Done
<1>7. FatalDurable
  <2>1. \A f \in Streams : Len(buf[f]) = 0
    BY <1>1
  <2>2. QED
    BY <2>1 DEF FatalDurable
<1>8. QED
  BY <1>2, <1>3, <1>4, <1>5, <1>6, <1>7 DEF LogInv

\* The streams are left alone.
LEMMA SameStreams ==
  ASSUME UNCHANGED streams
  PROVE  (Sizes => Sizes') /\ (FatalDurable /\ (worker' # "drain" => worker # "drain") => FatalDurable')
BY DEF streams, Sizes, InFile, InBuf, FatalDurable

\* The streams are empty.
LEMMA NothingBuffered ==
  ASSUME \A f \in Streams : buf'[f] = <<>>
  PROVE  FatalDurable'
<1>1. Len(<<>>) = 0
  OBVIOUS
<1>2. \A f \in Streams : Len(buf'[f]) = 0
  BY <1>1
<1>3. QED
  BY <1>2 DEF FatalDurable

LEMMA SameRoom == ASSUME UNCHANGED <<pushed, producer>> PROVE Room => Room'
BY DEF Room, Pushing

LEMMA SameCount ==
  ASSUME UNCHANGED <<handled, batch, queue, pushed, upto>> PROVE Counted => Counted'
BY DEF Counted

\* Log.
LEMMA LogKeeps ==
  ASSUME LogInv, NEW p \in Producers, LogChecks(p) \/ LogPushes(p)
  PROVE  LogInv'
<1> USE DEF LogInv
<1>1. CASE LogChecks(p)
  <2> USE <1>1 DEF LogChecks, streams, history
  <2>1. Types'
    BY DEF Types
  <2>2. Room'
    BY OneMorePushes
  <2>3. QED
    BY <2>1, <2>2, SameCount, SameStreams DEF Phases, Done
<1>2. CASE LogPushes(p)
  <2>1. PICK lvl \in AllLevels : Push(lvl)
    BY <1>2, Constants DEF LogPushes
  <2>2. /\ producer[p] = "push" /\ producer' = [producer EXCEPT ![p] = "idle"]
        /\ UNCHANGED <<running, main, inits, flusher, batch, streams, handled, lost, upto>>
    BY <1>2 DEF LogPushes
  <2>3. Len(pushed') = Len(pushed) + 1
    BY <2>1 DEF Push, Types
  <2>4. Room' /\ Len(pushed) < MaxRecords
    BY <2>2, <2>3, OnePushes
  <2>5. /\ queue' \in Seq(Record) /\ pushed' \in Seq(Record)
        /\ worker # "drain"
        /\ worker' = (IF worker = "wait" THEN "woken" ELSE worker)
        /\ Counted'
    BY <2>1, <2>2, <2>4, PushIs
  <2>6. Types'
    BY <2>2, <2>5 DEF Types, streams
  <2>7. Phases' /\ Done'
    BY <2>2, <2>5 DEF Phases, Done, streams
  <2>8. QED
    BY <2>2, <2>4, <2>5, <2>6, <2>7, SameStreams
<1>3. QED
  BY <1>1, <1>2

\* Init up to the creation of the worker.
LEMMA InitStartsKeeps ==
  ASSUME LogInv, InitStarts
  PROVE  LogInv'
<1> USE DEF LogInv
<1>1. /\ main = "down" /\ inits < MaxInits /\ main' = "starting" /\ inits' = inits + 1
      /\ bytes' = [f \in Streams |-> Len(disk[f][0])] /\ running' = TRUE /\ worker' = "loop"
      /\ UNCHANGED <<producer, flusher, queue, batch, disk, buf, history>>
  BY DEF InitStarts
<1>2. \A f \in Streams : InFile(f) \in Nat /\ InBuf(f) = 0 /\ bytes[f] \in Nat
  <2>1. \A f \in Streams : buf[f] = <<>> /\ disk[f][0] \in Seq(Record) /\ bytes[f] \in Nat
    BY <1>1, Constants DEF Done, Types
  <2>2. Len(<<>>) = 0
    OBVIOUS
  <2>3. QED
    BY <2>1, <2>2 DEF InFile, InBuf
<1>3. \A f \in Streams : bytes'[f] = InFile(f) /\ InFile(f)' = InFile(f) /\ InBuf(f)' = InBuf(f)
  BY <1>1 DEF InFile, InBuf
<1>4. \A f \in Streams : bytes[f] = InFile(f) + InBuf(f) /\ bytes[f] < RotateLines
  BY DEF Sizes
<1>5. Sizes' /\ bytes' \in [Streams -> Nat]
  <2>1. bytes' = [f \in Streams |-> InFile(f)]
    BY <1>1 DEF InFile
  <2>2. QED
    BY <1>2, <1>3, <1>4, <2>1, Constants DEF Sizes
<1>6. Types'
  <2>1. inits' \in 0..MaxInits
    BY <1>1, Constants DEF Types
  <2>2. QED
    BY <1>1, <1>5, <2>1 DEF Types, history
<1>7. Phases' /\ Done' /\ FatalDurable'
  BY <1>1 DEF Phases, Done, FatalDurable
<1>8. QED
  BY <1>1, <1>5, <1>6, <1>7, SameRoom, SameCount DEF history

\* The records Init and Shutdown log themselves.
LEMMA MainLogsKeeps ==
  ASSUME LogInv, InitLogs \/ ShutdownLogs
  PROVE  LogInv'
<1> USE DEF LogInv
<1>1. /\ HasRoom /\ Push("info")
      /\ main \in {"starting", "up"} /\ main' \in {"up", "ending"}
      /\ UNCHANGED <<running, inits, producer, flusher, batch, streams, handled, lost, upto>>
  BY DEF InitLogs, ShutdownLogs
<1>2. Len(pushed') = Len(pushed) + 1
  BY <1>1 DEF Push, Types
<1>3. Room' /\ Len(pushed) < MaxRecords
  BY <1>1, <1>2, MainPushes
<1>4. /\ queue' \in Seq(Record) /\ pushed' \in Seq(Record)
      /\ worker # "drain"
      /\ worker' = (IF worker = "wait" THEN "woken" ELSE worker)
      /\ Counted'
  <2>1. "info" \in AllLevels
    BY DEF AllLevels
  <2>2. QED
    BY <1>1, <1>3, <2>1, PushIs
<1>5. Types'
  BY <1>1, <1>4 DEF Types, streams
<1>6. Phases' /\ Done'
  BY <1>1, <1>4 DEF Phases, Done, streams
<1>7. QED
  BY <1>1, <1>3, <1>4, <1>5, <1>6, SameStreams

LEMMA ShutdownStopsKeeps ==
  ASSUME LogInv, ShutdownStops
  PROVE  LogInv'
<1> USE DEF LogInv
<1>1. /\ main = "ending" /\ main' = "joining" /\ running' = FALSE /\ upto' = Len(pushed)
      /\ worker' = (IF worker = "wait" THEN "woken" ELSE worker)
      /\ UNCHANGED <<inits, producer, flusher, queue, batch, streams, pushed, handled, lost>>
  BY DEF ShutdownStops
<1>2. Len(pushed) \in Nat
  BY DEF Types
<1>3. Types'
  BY <1>1, <1>2 DEF Types, streams
<1>4. Counted' /\ Phases' /\ Done'
  BY <1>1, <1>2 DEF Counted, Phases, Done
<1>5. QED
  BY <1>1, <1>3, <1>4, SameRoom, SameStreams

LEMMA ShutdownEndsKeeps ==
  ASSUME LogInv, ShutdownEnds
  PROVE  LogInv'
<1> USE DEF LogInv
<1>1. /\ main = "joining" /\ worker = "done" /\ FlushStreams /\ main' = "down"
      /\ UNCHANGED <<running, inits, producer, worker, flusher, queue, batch, history>>
  BY DEF ShutdownEnds
<1>2. /\ disk' \in [Streams -> [Files -> Seq(Record)]] /\ buf' \in [Streams -> Seq(Record)]
      /\ \A f \in Streams : buf'[f] = <<>>
      /\ bytes' = bytes /\ Sizes'
  BY <1>1, FlushIs
<1>3. Types'
  BY <1>1, <1>2 DEF Types, history
<1>4. Phases' /\ Done'
  BY <1>1, <1>2 DEF Phases, Done, history
<1>5. QED
  BY <1>1, <1>2, <1>3, <1>4, SameRoom, SameCount, NothingBuffered DEF history

LEMMA FlushKeeps ==
  ASSUME LogInv, FlushLocks \/ FlushEnds
  PROVE  LogInv'
<1> USE DEF LogInv
<1>1. CASE FlushLocks
  <2> USE <1>1 DEF FlushLocks, history
  <2>1. Types'
    BY DEF Types, streams
  <2>2. Phases' /\ Done'
    BY DEF Phases, Done, streams
  <2>3. QED
    BY <2>1, <2>2, SameRoom, SameCount, SameStreams
<1>2. CASE FlushEnds
  <2>1. /\ FlushStreams /\ flusher' = "out"
        /\ UNCHANGED <<running, main, inits, producer, worker, queue, batch, history>>
    BY <1>2 DEF FlushEnds
  <2>2. /\ disk' \in [Streams -> [Files -> Seq(Record)]] /\ buf' \in [Streams -> Seq(Record)]
        /\ \A f \in Streams : buf'[f] = <<>>
        /\ bytes' = bytes /\ Sizes'
    BY <2>1, FlushIs
  <2>3. Types'
    BY <2>1, <2>2 DEF Types, history
  <2>4. Phases' /\ Done'
    BY <2>1, <2>2 DEF Phases, Done, history
  <2>5. QED
    BY <2>1, <2>2, <2>3, <2>4, SameRoom, SameCount, NothingBuffered DEF history
<1>3. QED
  BY <1>1, <1>2

\* The worker moves and touches nothing.
LEMMA WorkerMovesKeeps ==
  ASSUME LogInv, WorkerChecks \/ WorkerWaits \/ WaitEnds
  PROVE  LogInv'
<1> USE DEF LogInv
<1>1. /\ UNCHANGED <<running, main, inits, producer, flusher, queue, batch, streams, history>>
      /\ \/ worker = "loop" /\ worker' = IF running THEN "lock" ELSE "drain"
         \/ worker = "lock" /\ worker' = "wait"
         \/ worker = "wait" /\ worker' = "woken"
  BY DEF WorkerChecks, WorkerWaits, WaitEnds, TimesOut
<1>2. Types'
  BY <1>1 DEF Types, streams, history
<1>3. Phases' /\ Done'
  BY <1>1 DEF Phases, Done, history
<1>4. QED
  BY <1>1, <1>2, <1>3, SameRoom, SameCount, SameStreams DEF history

LEMMA WorkerSwapsKeeps ==
  ASSUME LogInv, WorkerSwaps
  PROVE  LogInv'
<1> USE DEF LogInv
<1>1. /\ worker \in {"woken", "lock"} /\ batch' = queue /\ queue' = <<>> /\ worker' = "write"
      /\ UNCHANGED <<running, main, inits, producer, flusher, streams, history>>
  BY DEF WorkerSwaps
<1>2. <<>> \in Seq(Record) /\ Len(<<>>) = 0
  OBVIOUS
<1>3. batch = <<>>
  BY <1>1 DEF Phases
<1>4. Types'
  BY <1>1, <1>2 DEF Types, streams, history
<1>5. Counted'
  <2>1. Len(batch) = 0 /\ Len(queue) \in Nat /\ handled \in Nat
    BY <1>2, <1>3 DEF Types
  <2>2. Len(batch') = Len(queue) /\ Len(queue') = 0
    BY <1>1, <1>2
  <2>3. QED
    BY <1>1, <2>1, <2>2 DEF Counted, history
<1>6. Phases' /\ Done'
  BY <1>1 DEF Phases, Done, history, streams
<1>7. QED
  BY <1>1, <1>4, <1>5, <1>6, SameRoom, SameStreams DEF history

LEMMA WorkerWritesKeeps ==
  ASSUME LogInv, WorkerWrites
  PROVE  LogInv'
<1> USE DEF LogInv
<1>1. /\ worker = "write" /\ batch # <<>> /\ WriteRecord(Head(batch), TRUE) /\ batch' = Tail(batch)
      /\ UNCHANGED <<control, queue, pushed, upto>>
  BY DEF WorkerWrites
<1>2. /\ Head(batch) \in Record /\ Tail(batch) \in Seq(Record)
      /\ Len(Tail(batch)) = Len(batch) - 1 /\ Len(batch) \in Nat
  BY <1>1, QueueParts DEF Types
<1>3. /\ disk' \in [Streams -> [Files -> Seq(Record)]] /\ buf' \in [Streams -> Seq(Record)]
      /\ bytes' \in [Streams -> Nat] /\ Sizes'
  BY <1>1, <1>2, WriteKeeps
<1>4. handled' = handled + 1 /\ lost' \in BOOLEAN
  BY <1>1, <1>2, WriteIs
<1>5. Types'
  BY <1>1, <1>2, <1>3, <1>4 DEF Types, control
<1>6. Counted'
  BY <1>1, <1>2, <1>4 DEF Counted, Types
<1>7. Phases' /\ Done'
  BY <1>1 DEF Phases, Done, control
<1>8. FatalDurable'
  BY <1>1, <1>2, WriteOut DEF FatalDurable
<1>9. QED
  BY <1>1, <1>3, <1>5, <1>6, <1>7, <1>8, SameRoom DEF control

LEMMA WorkerFlushesKeeps ==
  ASSUME LogInv, WorkerFlushes \/ DrainEnds
  PROVE  LogInv'
<1> USE DEF LogInv
<1>1. /\ FlushStreams /\ batch = <<>> /\ batch' = <<>>
      /\ \/ worker = "write" /\ worker' = "loop"
         \/ worker = "drain" /\ queue = <<>> /\ worker' = "done"
      /\ UNCHANGED <<running, main, inits, producer, flusher, queue, history>>
  BY DEF WorkerFlushes, DrainEnds, BatchWritten, Drained, Phases
<1>2. /\ disk' \in [Streams -> [Files -> Seq(Record)]] /\ buf' \in [Streams -> Seq(Record)]
      /\ \A f \in Streams : buf'[f] = <<>>
      /\ bytes' = bytes /\ Sizes'
  BY <1>1, FlushIs
<1>3. Types'
  BY <1>1, <1>2 DEF Types, history
<1>4. Phases'
  BY <1>1 DEF Phases
<1>5. Done'
  <2>1. CASE worker = "drain" /\ queue = <<>>
    <3>1. Len(batch) = 0 /\ Len(queue) = 0 /\ handled \in Nat
      BY <1>1, <2>1 DEF Types
    <3>2. handled' = handled /\ upto' = upto /\ handled >= upto
      BY <1>1, <3>1 DEF Counted, history
    <3>3. QED
      BY <1>2, <3>2 DEF Done
  <2>2. CASE worker = "write" /\ worker' = "loop"
    BY <1>2, <2>2 DEF Done
  <2>3. QED
    BY <1>1, <2>1, <2>2
<1>6. QED
  BY <1>1, <1>2, <1>3, <1>4, <1>5, SameRoom, SameCount, NothingBuffered DEF history

LEMMA DrainWritesKeeps ==
  ASSUME LogInv, DrainWrites
  PROVE  LogInv'
<1> USE DEF LogInv
<1>1. /\ worker = "drain" /\ queue # <<>> /\ queue' = Tail(queue)
      /\ UNCHANGED <<control, batch, pushed, upto>>
  BY DEF DrainWrites
<1>2. /\ Head(queue) \in Record /\ Tail(queue) \in Seq(Record)
      /\ Len(Tail(queue)) = Len(queue) - 1 /\ Len(queue) \in Nat
  BY <1>1, QueueParts DEF Types
<1>3. /\ disk' \in [Streams -> [Files -> Seq(Record)]] /\ buf' \in [Streams -> Seq(Record)]
      /\ bytes' \in [Streams -> Nat] /\ Sizes'
      /\ handled' = handled + 1 /\ lost' \in BOOLEAN
  <2>1. CASE WriteRecord(Head(queue), FALSE)
    BY <1>2, <2>1, WriteKeeps, WriteIs
  <2>2. CASE handled' = handled + 1 /\ lost' = TRUE /\ UNCHANGED streams
    BY <2>2, SameStreams DEF Types, streams
  <2>3. QED
    BY <2>1, <2>2 DEF DrainWrites
<1>4. Types'
  BY <1>1, <1>2, <1>3 DEF Types, control
<1>5. Counted'
  <2>1. Len(batch) \in Nat /\ handled \in Nat /\ upto \in Nat
    BY DEF Types
  <2>2. QED
    BY <1>1, <1>2, <1>3, <2>1 DEF Counted
<1>6. Phases' /\ Done' /\ FatalDurable'
  BY <1>1 DEF Phases, Done, FatalDurable, control
<1>7. QED
  BY <1>1, <1>3, <1>4, <1>5, <1>6, SameRoom DEF control

LEMMA LogStep == LogInv /\ [Next]_vars => LogInv'
<1> SUFFICES ASSUME LogInv, [Next]_vars PROVE LogInv'
  OBVIOUS
<1>1. CASE UNCHANGED vars
  <2> USE <1>1 DEF vars, control, streams, history
  <2>1. Types' /\ Phases' /\ Done'
    BY DEF LogInv, Types, Phases, Done
  <2>2. QED
    BY <2>1, SameRoom, SameCount, SameStreams DEF LogInv
<1>2. CASE MainNext
  BY <1>2, InitStartsKeeps, MainLogsKeeps, ShutdownStopsKeeps, ShutdownEndsKeeps DEF MainNext
<1>3. CASE WorkerNext
  BY <1>3, WorkerMovesKeeps, WorkerSwapsKeeps, WorkerWritesKeeps, WorkerFlushesKeeps,
     DrainWritesKeeps DEF WorkerNext
<1>4. CASE FlushLocks \/ FlushEnds
  BY <1>4, FlushKeeps
<1>5. CASE \E p \in Producers : LogChecks(p) \/ LogPushes(p)
  BY <1>5, LogKeeps
<1>6. QED
  BY <1>1, <1>2, <1>3, <1>4, <1>5 DEF Next

LEMMA LogInvHolds == Spec => []LogInv
BY LogInit, LogStep, PTL DEF Spec

-----------------------------------------------------------------------------

\* Every variable keeps its type: no more records than the bound are queued or
\* dealt with, and a stream never counts up to the size at which its file is
\* rotated, over restarts too, which count what the file holds.
THEOREM TypeCorrect == Spec => []TypeOK
<1>1. LogInv => TypeOK
  <2> SUFFICES ASSUME LogInv PROVE TypeOK
    OBVIOUS
  <2>1. \A f \in Streams : bytes[f] \in 0..(RotateLines - 1)
    BY Constants DEF LogInv, Types, Sizes
  <2>2. /\ Len(pushed) \in Nat /\ Len(batch) \in Nat /\ Len(queue) \in Nat
        /\ handled \in Nat /\ upto \in Nat /\ MaxRecords \in Nat
    BY Constants DEF LogInv, Types
  <2>3. Len(pushed) <= MaxRecords
    BY <2>2, PushingIs DEF LogInv, Room
  <2>4. handled \in 0..MaxRecords /\ upto \in 0..MaxRecords
    BY <2>2, <2>3 DEF LogInv, Counted
  <2>5. bytes \in [Streams -> 0..(RotateLines - 1)]
    BY <2>1 DEF LogInv, Types
  <2>6. QED
    BY <2>4, <2>5 DEF LogInv, Types, TypeOK
<1>2. QED
  BY <1>1, LogInvHolds, PTL

\* But for the last drain, no fatal record the worker went past waits in a
\* stream (worker_loop, Logger.cpp 171): whatever is flushed, rotated or
\* restarted meanwhile.
THEOREM FatalIsDurable == Spec => []FatalDurable
<1>1. LogInv => FatalDurable
  BY DEF LogInv
<1>2. QED
  BY <1>1, LogInvHolds, PTL

\* Shutdown returns only after everything queued before it was dealt with and
\* no line is left in a stream.
THEOREM ShutdownIsComplete == Spec => []ShutdownComplete
<1>1. LogInv => ShutdownComplete
  BY DEF LogInv, Done, Phases, ShutdownComplete
<1>2. QED
  BY <1>1, LogInvHolds, PTL

-----------------------------------------------------------------------------
(* Numbers, and concatenations of n pieces.                                *)

LEMMA LeastNumber ==
  ASSUME NEW T, T \subseteq Nat, T # {}
  PROVE  \E x \in T : \A y \in T : x <= y
<1> DEFINE R == {ss \in Nat \X Nat : ss[1] < ss[2]}
<1>1. IsWellFoundedOn(R, Nat)
  <2>1. OpToRel(<, Nat) = R
    BY Zenon DEF OpToRel
  <2>2. QED
    BY Zenon, <2>1, NatLessThanWellFounded
<1>2. \A x, y \in Nat : y < x => <<y, x>> \in R
  <2> SUFFICES ASSUME NEW x \in Nat, NEW y \in Nat, y < x PROVE <<y, x>> \in R
    OBVIOUS
  <2>1. <<y, x>> \in Nat \X Nat /\ <<y, x>>[1] = y /\ <<y, x>>[2] = x
    OBVIOUS
  <2>2. QED
    BY <2>1
<1> HIDE DEF R
<1>3. \E x \in T : \A y \in T : ~(<<y, x>> \in R)
  BY <1>1, WFMin
<1>4. \E x \in T : \A y \in T : ~(y < x)
  BY <1>2, <1>3
<1>5. QED
  BY <1>4

\* A set with 0 and with the successor of each of its numbers.
LEMMA SetInduction ==
  ASSUME NEW S, 0 \in S, \A n \in Nat : n \in S => n + 1 \in S
  PROVE  Nat \subseteq S
<1> SUFFICES ASSUME Nat \ S # {} PROVE FALSE
  OBVIOUS
<1> DEFINE T == Nat \ S
<1>1. T \subseteq Nat /\ T # {} /\ \A x \in T : x \in Nat /\ x \notin S
  OBVIOUS
<1>2. \A x \in Nat : x \notin S => x \in T
  OBVIOUS
<1> HIDE DEF T
<1>3. PICK x \in T : \A y \in T : x <= y
  BY <1>1, LeastNumber
<1>4. x # 0 /\ x - 1 \in Nat
  BY <1>1, <1>3
<1>5. x - 1 \in S
  BY <1>1, <1>2, <1>3, <1>4
<1>6. QED
  BY <1>1, <1>3, <1>4, <1>5

\* A function defined by recursion on the numbers up to N exists.
LEMMA Concatenation ==
  ASSUME NEW N \in Nat, NEW p
  PROVE  \E f : f = [k \in 0..N |-> IF k = 0 THEN <<>> ELSE f[k - 1] \o p[k]]
<1> DEFINE S == {n \in Nat : \E f : f = [k \in 0..n |-> IF k = 0 THEN <<>> ELSE f[k - 1] \o p[k]]}
<1>1. 0 \in S
  <2> DEFINE f == [k \in 0..0 |-> <<>>]
  <2>1. f = [k \in 0..0 |-> IF k = 0 THEN <<>> ELSE f[k - 1] \o p[k]]
    OBVIOUS
  <2> HIDE DEF f
  <2>2. QED
    BY <2>1
<1>2. ASSUME NEW n \in Nat, n \in S PROVE n + 1 \in S
  <2>1. PICK f : f = [k \in 0..n |-> IF k = 0 THEN <<>> ELSE f[k - 1] \o p[k]]
    BY <1>2
  <2> DEFINE g == [k \in 0..(n + 1) |-> IF k = n + 1 THEN f[n] \o p[n + 1] ELSE f[k]]
             h == [k \in 0..(n + 1) |-> IF k = 0 THEN <<>> ELSE g[k - 1] \o p[k]]
  <2>2. \A k \in 0..n : f[k] = IF k = 0 THEN <<>> ELSE f[k - 1] \o p[k]
    BY <2>1
  <2>3. ASSUME NEW k \in 0..(n + 1) PROVE g[k] = h[k]
    <3>1. CASE k = n + 1
      <4>1. g[n] = f[n] /\ k # 0 /\ k - 1 = n
        BY <3>1
      <4>2. QED
        BY <3>1, <4>1
    <3>2. CASE k # n + 1
      <4>1. k \in 0..n /\ (k # 0 => k - 1 \in 0..(n + 1) /\ k - 1 # n + 1)
        BY <3>2
      <4>2. g[k] = f[k] /\ (k # 0 => g[k - 1] = f[k - 1])
        BY <4>1, <3>2
      <4>3. QED
        BY <2>2, <4>1, <4>2
    <3>3. QED
      BY <3>1, <3>2
  <2>4. g = h
    BY <2>3
  <2> HIDE DEF g
  <2>5. \E e : e = [k \in 0..(n + 1) |-> IF k = 0 THEN <<>> ELSE e[k - 1] \o p[k]]
    <3>1. g = [k \in 0..(n + 1) |-> IF k = 0 THEN <<>> ELSE g[k - 1] \o p[k]]
      BY <2>4
    <3> HIDE DEF h
    <3> WITNESS g
    <3>2. QED
      BY <3>1
  <2>6. n + 1 \in Nat
    OBVIOUS
  <2>7. QED
    BY <2>5, <2>6, Zenon
<1>3. N \in S
  <2> HIDE DEF S
  <2>1. QED
    BY <1>1, <1>2, SetInduction
<1>4. QED
  BY <1>3

Pieces(n) == [1..n -> Seq(Record)]

\* c holds the concatenations of the first pieces of s.
Sums(c, s, n) ==
  /\ c[0] = <<>>
  /\ \A k \in 1..n : c[k] = c[k - 1] \o s[k] /\ s[k] \in Seq(Record) /\ c[k - 1] \in Seq(Record)
                     /\ c[k] \in Seq(Record)

LEMMA SumsExist ==
  ASSUME NEW n \in Nat, NEW s \in Pieces(n)
  PROVE  \E c : Sums(c, s, n)
<1>1. PICK c : c = [k \in 0..n |-> IF k = 0 THEN <<>> ELSE c[k - 1] \o s[k]]
  BY Concatenation
<1> DEFINE g == [k \in 0..n |-> IF k = 0 THEN <<>> ELSE c[k - 1] \o s[k]]
<1>2. g[0] = <<>> /\ \A k \in 1..n : g[k] = c[k - 1] \o s[k]
  <2>1. 0 \in 0..n /\ \A k \in 1..n : k \in 0..n /\ k # 0
    OBVIOUS
  <2>2. QED
    BY <2>1, Zenon
<1>3. c = g
  BY <1>1
<1> HIDE DEF g
<1>4. c[0] = <<>> /\ \A k \in 1..n : c[k] = c[k - 1] \o s[k] /\ s[k] \in Seq(Record)
  BY <1>2, <1>3 DEF Pieces
<1> DEFINE S == {k \in Nat : k <= n => c[k] \in Seq(Record)}
<1>5. 0 \in S
  <2>1. <<>> \in Seq(Record)
    OBVIOUS
  <2>2. QED
    BY <1>4, <2>1
<1>6. ASSUME NEW k \in Nat, k \in S PROVE k + 1 \in S
  <2>1. CASE k + 1 <= n
    <3>1. k + 1 \in 1..n /\ k <= n /\ (k + 1) - 1 = k
      BY <2>1
    <3>2. c[k + 1] = c[k] \o s[k + 1] /\ c[k] \in Seq(Record) /\ s[k + 1] \in Seq(Record)
      BY <1>4, <1>6, <3>1
    <3> DEFINE x == c[k]
               y == s[k + 1]
    <3>3. x \in Seq(Record) /\ y \in Seq(Record) /\ c[k + 1] = x \o y
      BY <3>2
    <3> HIDE DEF x, y
    <3>4. c[k + 1] \in Seq(Record)
      BY <3>3
    <3>5. QED
      BY <3>4
  <2>2. QED
    BY <2>1
<1>7. Nat \subseteq S
  <2> HIDE DEF S
  <2>1. QED
    BY <1>5, <1>6, SetInduction
<1>8. \A k \in 0..n : c[k] \in Seq(Record)
  BY <1>7
<1>9. \A k \in 1..n : k \in 0..n /\ k - 1 \in 0..n
  OBVIOUS
<1>10. QED
  BY <1>4, <1>8, <1>9 DEF Sums

\* FlattenSeq is the last of them.
LEMMA FlattenIs ==
  ASSUME NEW n \in Nat, NEW s \in Pieces(n), NEW c, Sums(c, s, n)
  PROVE  FlattenSeq(s) = c[n]
<1>1. Len(s) = n
  BY DEF Pieces
<1>2. CASE n = 0
  <2>1. s = <<>>
    BY <1>1, <1>2 DEF Pieces
  <2>2. QED
    BY <1>1, <1>2, <2>1 DEF FlattenSeq, Sums
<1>3. CASE n # 0
  <2> DEFINE F(f) == [i \in 1..Len(s) |-> IF i = 1 THEN s[i] ELSE f[i - 1] \o s[i]]
             h == [i \in 1..n |-> c[i]]
             e == CHOOSE f : f = F(f)
  <2>1. h = F(h)
    <3>1. ASSUME NEW i \in 1..n PROVE c[i] = IF i = 1 THEN s[i] ELSE h[i - 1] \o s[i]
      <4> DEFINE z == s[i]
      <4>1. c[i] = c[i - 1] \o z /\ z \in Seq(Record)
        BY DEF Sums
      <4> HIDE DEF z
      <4>2. CASE i = 1
        <5>1. c[i] = <<>> \o z
          BY <4>1, <4>2 DEF Sums
        <5>2. <<>> \o z = z
          BY <4>1
        <5>3. QED
          BY <4>2, <5>1, <5>2 DEF z
      <4>3. CASE i # 1
        <5>1. i - 1 \in 1..n
          BY <4>3
        <5>2. h[i - 1] = c[i - 1]
          BY <5>1
        <5>3. QED
          BY <4>1, <4>3, <5>2 DEF z
      <4>4. QED
        BY <4>2, <4>3
    <3>2. F(h) = [i \in 1..n |-> IF i = 1 THEN s[i] ELSE h[i - 1] \o s[i]]
      BY <1>1
    <3>3. QED
      BY <3>1, <3>2
  <2>2. e = F(e)
    <3> HIDE DEF F, h
    <3>1. QED
      BY <2>1, Zenon
  <2>3. \A i \in 1..n : e[i] = IF i = 1 THEN s[i] ELSE e[i - 1] \o s[i]
    <3> HIDE DEF e
    <3>1. QED
      BY <1>1, <2>2
  <2>4. FlattenSeq(s) = e[n]
    BY <1>1, <1>3, Zenon DEF FlattenSeq
  <2> HIDE DEF e
  <2> DEFINE S == {k \in Nat : k + 1 <= n => e[k + 1] = c[k + 1]}
  <2>5. 0 \in S
    <3>1. CASE 1 <= n
      <4> DEFINE z == s[1]
      <4>1. 1 \in 1..n
        BY <3>1
      <4>2. c[1] = c[0] \o z /\ c[0] = <<>> /\ z \in Seq(Record) /\ e[1] = z
        <5>1. c[1] = c[1 - 1] \o z /\ c[0] = <<>> /\ z \in Seq(Record)
          BY <4>1, Zenon DEF Sums
        <5>2. e[1] = IF 1 = 1 THEN s[1] ELSE e[1 - 1] \o s[1]
          BY <2>3, <4>1, Zenon
        <5>3. e[1] = z
          BY <5>2, Zenon
        <5>4. 1 - 1 = 0
          OBVIOUS
        <5>5. QED
          BY <5>1, <5>3, <5>4
      <4> HIDE DEF z
      <4>3. c[1] = z
        BY <4>2
      <4>4. QED
        BY <4>2, <4>3
    <3>2. QED
      BY <3>1
  <2>6. ASSUME NEW k \in Nat, k \in S PROVE k + 1 \in S
    <3>1. CASE (k + 1) + 1 <= n
      <4>1. (k + 1) + 1 \in 1..n /\ (k + 1) + 1 # 1 /\ ((k + 1) + 1) - 1 = k + 1 /\ k + 1 <= n
        BY <3>1
      <4>2. e[(k + 1) + 1] = e[k + 1] \o s[(k + 1) + 1]
        BY <2>3, <4>1
      <4>3. c[(k + 1) + 1] = c[k + 1] \o s[(k + 1) + 1]
        BY <4>1 DEF Sums
      <4>4. e[k + 1] = c[k + 1]
        BY <2>6, <4>1
      <4>5. e[(k + 1) + 1] = c[(k + 1) + 1]
        BY <4>2, <4>3, <4>4
      <4>6. QED
        BY <4>5
    <3>2. QED
      BY <3>1
  <2>7. Nat \subseteq S
    <3> HIDE DEF S
    <3>1. QED
      BY <2>5, <2>6, SetInduction
  <2>8. n - 1 \in Nat /\ (n - 1) + 1 = n
    BY <1>3
  <2>9. n - 1 \in S
    BY <2>7, <2>8
  <2>10. e[n] = c[n]
    BY <2>8, <2>9
  <2>11. QED
    BY <2>4, <2>10
<1>4. QED
  BY <1>2, <1>3

LEMMA FlattenIsSeq ==
  ASSUME NEW n \in Nat, NEW s \in Pieces(n)
  PROVE  FlattenSeq(s) \in Seq(Record)
<1>1. PICK c : Sums(c, s, n)
  BY SumsExist
<1>2. c[n] \in Seq(Record)
  <2>1. CASE n = 0
    <3>1. <<>> \in Seq(Record)
      OBVIOUS
    <3>2. QED
      BY <1>1, <2>1, <3>1 DEF Sums
  <2>2. CASE n # 0
    <3>1. n \in 1..n
      BY <2>2
    <3>2. QED
      BY <1>1, <3>1 DEF Sums
  <2>3. QED
    BY <2>1, <2>2
<1>3. QED
  BY <1>1, <1>2, FlattenIs

\* One piece more at the end.
LEMMA FlattenLast ==
  ASSUME NEW n \in Nat, NEW s \in Pieces(n), NEW t \in Pieces(n + 1), \A k \in 1..n : t[k] = s[k]
  PROVE  FlattenSeq(t) = FlattenSeq(s) \o t[n + 1]
<1>0. n + 1 \in Nat
  OBVIOUS
<1>1. PICK c : Sums(c, t, n + 1)
  BY <1>0, SumsExist
<1>2. \A k \in 1..n : k \in 1..(n + 1)
  OBVIOUS
<1>3. Sums(c, s, n)
  BY <1>1, <1>2 DEF Sums
<1>4. FlattenSeq(t) = c[n + 1] /\ FlattenSeq(s) = c[n]
  BY <1>0, <1>1, <1>3, FlattenIs
<1>5. n + 1 \in 1..(n + 1) /\ (n + 1) - 1 = n
  OBVIOUS
<1>6. c[n + 1] = c[n] \o t[n + 1]
  BY <1>1, <1>5 DEF Sums
<1>7. QED
  BY <1>4, <1>6

\* One piece more at the beginning.
LEMMA FlattenFirst ==
  ASSUME NEW n \in Nat, NEW s \in Pieces(n), NEW t \in Pieces(n + 1), \A k \in 1..n : t[k + 1] = s[k]
  PROVE  FlattenSeq(t) = t[1] \o FlattenSeq(s)
<1>1. PICK c : Sums(c, s, n)
  BY SumsExist
<1> DEFINE d == [k \in 0..(n + 1) |-> IF k = 0 THEN <<>> ELSE t[1] \o c[k - 1]]
           x == t[1]
<1>2. /\ d[0] = <<>> /\ \A k \in 1..(n + 1) : d[k] = x \o c[k - 1]
      /\ x \in Seq(Record)
      /\ <<>> \in Seq(Record)
  <2>1. /\ 0 \in 0..(n + 1) /\ \A k \in 1..(n + 1) : k \in 0..(n + 1) /\ k # 0
        /\ 1 \in 1..(n + 1)
    OBVIOUS
  <2>2. d[0] = <<>> /\ \A k \in 1..(n + 1) : d[k] = x \o c[k - 1]
    BY <2>1, Zenon
  <2>3. x \in Seq(Record) /\ <<>> \in Seq(Record)
    BY <2>1 DEF Pieces
  <2>4. QED
    BY <2>2, <2>3
<1>3. \A k \in 0..n : c[k] \in Seq(Record)
  <2>1. \A k \in 0..n : k = 0 \/ k \in 1..n
    OBVIOUS
  <2>2. QED
    BY <1>1, <1>2, <2>1 DEF Sums
<1> HIDE DEF d, x
<1>4. Sums(d, t, n + 1)
  <2>1. ASSUME NEW k \in 1..(n + 1)
        PROVE  d[k] = d[k - 1] \o t[k] /\ t[k] \in Seq(Record) /\ d[k - 1] \in Seq(Record)
               /\ d[k] \in Seq(Record)
    <3> DEFINE y == c[(k - 1) - 1]
               z == t[k]
    <3>1. z \in Seq(Record) /\ d[k] = x \o c[k - 1] /\ k - 1 \in 0..n
      BY <1>2 DEF Pieces
    <3>2. CASE k = 1
      <4>1. z = x /\ c[k - 1] = <<>> /\ d[k - 1] = <<>>
        BY <1>1, <1>2, <3>2 DEF Sums, x
      <4> HIDE DEF z
      <4>2. x \o <<>> = x /\ <<>> \o x = x
        BY <1>2
      <4>3. QED
        BY <1>2, <3>1, <4>1, <4>2 DEF z
    <3>3. CASE k # 1
      <4>1. k - 1 \in 1..n /\ (k - 1) + 1 = k /\ k - 1 \in 1..(n + 1) /\ (k - 1) - 1 \in 0..n
        BY <3>3
      <4>2. c[k - 1] = y \o z
        <5>1. c[k - 1] = c[(k - 1) - 1] \o s[k - 1] /\ s[k - 1] = t[(k - 1) + 1]
          BY <1>1, <4>1 DEF Sums
        <5>2. QED
          BY <4>1, <5>1
      <4>3. d[k - 1] = x \o y
        BY <1>2, <4>1
      <4>4. y \in Seq(Record)
        BY <1>3, <4>1
      <4> HIDE DEF y, z
      <4>5. (x \o y) \o z = x \o (y \o z)
        BY <1>2, <3>1, <4>4, ConcatAssociative
      <4>6. x \o y \in Seq(Record) /\ (x \o y) \o z \in Seq(Record)
        BY <1>2, <3>1, <4>4
      <4>7. QED
        BY <3>1, <4>2, <4>3, <4>5, <4>6 DEF z
    <3>4. QED
      BY <3>2, <3>3
  <2>2. QED
    BY <1>2, <2>1 DEF Sums
<1>5. n + 1 \in Nat /\ n + 1 \in 1..(n + 1) /\ (n + 1) - 1 = n
  OBVIOUS
<1>6. d[n + 1] = x \o c[n]
  BY <1>2, <1>5
<1>7. FlattenSeq(t) = d[n + 1]
  BY <1>4, <1>5, FlattenIs
<1>8. FlattenSeq(s) = c[n]
  BY <1>1, FlattenIs
<1>9. QED
  BY <1>6, <1>7, <1>8 DEF x

\* Pieces of at least m make that many times as much.
LEMMA FlattenLength ==
  ASSUME NEW n \in Nat, NEW s \in Pieces(n), NEW m \in Nat, \A k \in 1..n : Len(s[k]) >= m
  PROVE  Len(FlattenSeq(s)) >= n * m
<1>1. PICK c : Sums(c, s, n)
  BY SumsExist
<1> DEFINE S == {k \in Nat : k <= n => Len(c[k]) >= k * m}
<1>2. 0 \in S
  <2>1. Len(<<>>) = 0 /\ 0 * m = 0
    OBVIOUS
  <2>2. Len(c[0]) >= 0 * m
    BY <1>1, <2>1 DEF Sums
  <2>3. QED
    BY <2>2
<1>3. ASSUME NEW k \in Nat, k \in S PROVE k + 1 \in S
  <2>1. CASE k + 1 <= n
    <3> DEFINE x == c[k]
               y == s[k + 1]
    <3>1. k + 1 \in 1..n /\ k <= n /\ (k + 1) - 1 = k
      BY <2>1
    <3>2. c[k + 1] = x \o y /\ x \in Seq(Record) /\ y \in Seq(Record) /\ Len(y) >= m
      <4>1. c[k + 1] = c[(k + 1) - 1] \o s[k + 1] /\ c[(k + 1) - 1] \in Seq(Record)
            /\ s[k + 1] \in Seq(Record)
        BY <1>1, <3>1 DEF Sums
      <4>2. QED
        BY <3>1, <4>1
    <3>3. Len(x) >= k * m
      BY <1>3, <3>1
    <3> HIDE DEF x, y
    <3>4. Len(c[k + 1]) = Len(x) + Len(y) /\ Len(x) \in Nat /\ Len(y) \in Nat
      BY <3>2
    <3>5. (k + 1) * m = k * m + m /\ k * m \in Nat
      OBVIOUS
    <3> DEFINE p == k * m
               q == (k + 1) * m
               l == Len(c[k + 1])
    <3>6. l = Len(x) + Len(y) /\ Len(x) >= p /\ Len(y) >= m /\ q = p + m /\ p \in Nat
      BY <3>2, <3>3, <3>4, <3>5
    <3> HIDE DEF p, q, l
    <3>7. l >= q
      BY <3>4, <3>6
    <3>8. QED
      BY <3>7 DEF l, q
  <2>2. QED
    BY <2>1
<1>4. Nat \subseteq S
  <2> HIDE DEF S
  <2>1. QED
    BY <1>2, <1>3, SetInduction
<1>5. Len(c[n]) >= n * m
  BY <1>4
<1>6. QED
  BY <1>1, <1>5, FlattenIs

-----------------------------------------------------------------------------
(* The files of one stream.                                                *)

\* What files d and the lines b after them hold, oldest first.
Whole(d, b) ==
  FlattenSeq([i \in 1..(KeepFiles + 1) |-> d[KeepFiles + 1 - i]]) \o b

LEMMA WholeIs ==
  ASSUME NEW d \in [Files -> Seq(Record)], NEW b \in Seq(Record)
  PROVE  /\ [i \in 1..(KeepFiles + 1) |-> d[KeepFiles + 1 - i]] \in Pieces(KeepFiles + 1)
         /\ FlattenSeq([i \in 1..(KeepFiles + 1) |-> d[KeepFiles + 1 - i]]) \in Seq(Record)
         /\ Whole(d, b) \in Seq(Record)
<1> DEFINE t == [i \in 1..(KeepFiles + 1) |-> d[KeepFiles + 1 - i]]
<1>1. \A i \in 1..(KeepFiles + 1) : KeepFiles + 1 - i \in Files
  BY Constants DEF Files
<1>2. t \in Pieces(KeepFiles + 1)
  BY <1>1 DEF Pieces
<1>3. KeepFiles + 1 \in Nat
  BY Constants
<1> DEFINE w == FlattenSeq(t)
<1>4. w \in Seq(Record)
  <2> HIDE DEF t
  <2>1. QED
    BY <1>2, <1>3, FlattenIsSeq
<1>5. w \o b \in Seq(Record)
  <2> HIDE DEF w
  <2>1. QED
    BY <1>4
<1>6. QED
  BY <1>2, <1>4, <1>5 DEF Whole

LEMMA WholeAppended ==
  ASSUME NEW d \in [Files -> Seq(Record)], NEW b \in Seq(Record), NEW r \in Record
  PROVE  Whole(d, Append(b, r)) = Whole(d, b) \o <<r>>
<1> DEFINE w == FlattenSeq([i \in 1..(KeepFiles + 1) |-> d[KeepFiles + 1 - i]])
<1>1. w \in Seq(Record)
  BY WholeIs
<1>2. Whole(d, b) = w \o b /\ Whole(d, Append(b, r)) = w \o Append(b, r)
  BY DEF Whole
<1> HIDE DEF w
<1>3. <<r>> \in Seq(Record) /\ Append(b, r) = b \o <<r>>
  OBVIOUS
<1>4. (w \o b) \o <<r>> = w \o (b \o <<r>>)
  BY <1>1, <1>3, ConcatAssociative
<1>5. QED
  BY <1>2, <1>3, <1>4

\* Flushing moves lines and changes nothing.
LEMMA WholeFlushed ==
  ASSUME NEW d \in [Files -> Seq(Record)], NEW b \in Seq(Record)
  PROVE  Whole(Flushed(d, b), <<>>) = Whole(d, b)
<1> DEFINE K == KeepFiles
           e == Flushed(d, b)
           s == [i \in 1..K |-> d[K + 1 - i]]
           t == [i \in 1..(K + 1) |-> d[K + 1 - i]]
           u == [i \in 1..(K + 1) |-> e[K + 1 - i]]
           x == FlattenSeq(s)
           z == d[0]
<1>1. K \in Nat /\ e \in [Files -> Seq(Record)] /\ <<>> \in Seq(Record) /\ z \in Seq(Record)
  BY Constants, FlushedIs
<1>2. /\ \A i \in 1..K : K + 1 - i \in Files /\ K + 1 - i # 0 /\ i \in 1..(K + 1)
      /\ K + 1 \in 1..(K + 1) /\ K + 1 - (K + 1) = 0
  BY Constants DEF Files
<1>3. \A i \in Files : e[i] = IF i = 0 THEN z \o b ELSE d[i]
  BY DEF Flushed
<1> HIDE DEF e, z
<1>4. s \in Pieces(K) /\ t \in Pieces(K + 1) /\ u \in Pieces(K + 1)
  BY <1>1, <1>2, WholeIs DEF Pieces
<1>5. (\A i \in 1..K : t[i] = s[i] /\ u[i] = s[i]) /\ t[K + 1] = z /\ u[K + 1] = z \o b
  BY <1>1, <1>2, <1>3, Constants DEF z
<1> HIDE DEF s, t, u, K
<1>6. x \in Seq(Record) /\ FlattenSeq(t) = x \o z /\ FlattenSeq(u) = x \o (z \o b)
  BY <1>1, <1>4, <1>5, FlattenIsSeq, FlattenLast
<1>7. Whole(e, <<>>) = FlattenSeq(u) \o <<>> /\ Whole(d, b) = FlattenSeq(t) \o b
  BY DEF Whole, t, u, K
<1> HIDE DEF x
<1>8. (x \o z) \o b = x \o (z \o b) /\ (x \o (z \o b)) \o <<>> = x \o (z \o b)
  <2>1. z \o b \in Seq(Record)
    BY <1>1
  <2>2. x \o (z \o b) \in Seq(Record)
    BY <1>6, <2>1
  <2> DEFINE y == x \o (z \o b)
  <2>3. y \in Seq(Record)
    BY <2>2
  <2>4. (x \o z) \o b = y
    BY <1>1, <1>6, ConcatAssociative
  <2> HIDE DEF y
  <2>5. y \o <<>> = y
    BY <2>3
  <2>6. QED
    BY <2>4, <2>5 DEF y
<1>9. QED
  BY <1>6, <1>7, <1>8 DEF e

\* A rotation gives up the oldest file.
LEMMA WholeRotated ==
  ASSUME NEW d \in [Files -> Seq(Record)]
  PROVE  Whole(d, <<>>) = d[KeepFiles] \o Whole(Rotated(d, {}), <<>>)
<1> DEFINE K == KeepFiles
           e == Rotated(d, {})
           s == [i \in 1..K |-> d[K - i]]
           t == [i \in 1..(K + 1) |-> d[K + 1 - i]]
           u == [i \in 1..(K + 1) |-> e[K + 1 - i]]
           x == FlattenSeq(s)
           z == d[K]
<1>1. K \in Nat /\ e \in [Files -> Seq(Record)] /\ <<>> \in Seq(Record) /\ z \in Seq(Record)
  BY Constants, RotatedIs DEF Files
<1>2. /\ \A i \in 1..K : /\ K + 1 - i \in Files /\ K + 1 - i # 0 /\ (K + 1 - i) - 1 = K - i
                         /\ K - i \in Files /\ i \in 1..(K + 1) /\ i + 1 \in 1..(K + 1)
                         /\ K + 1 - (i + 1) = K - i
      /\ K + 1 \in 1..(K + 1) /\ K + 1 - (K + 1) = 0 /\ 1 \in 1..(K + 1) /\ K + 1 - 1 = K
      /\ 0 \in Files
  BY Constants DEF Files
<1>3. \A i \in Files : e[i] = IF i = 0 THEN <<>> ELSE d[i - 1]
  BY DEF Rotated
<1> HIDE DEF e, z
<1>4. s \in Pieces(K) /\ t \in Pieces(K + 1) /\ u \in Pieces(K + 1)
  BY <1>1, <1>2, WholeIs DEF Pieces
<1>5. (\A i \in 1..K : t[i + 1] = s[i] /\ u[i] = s[i]) /\ t[1] = z /\ u[K + 1] = <<>>
  <2>1. ASSUME NEW i \in 1..K PROVE t[i + 1] = s[i] /\ u[i] = s[i]
    <3>1. t[i + 1] = d[K + 1 - (i + 1)] /\ u[i] = e[K + 1 - i] /\ s[i] = d[K - i]
      BY <1>2
    <3>2. e[K + 1 - i] = d[(K + 1 - i) - 1]
      BY <1>2, <1>3
    <3>3. QED
      BY <1>2, <3>1, <3>2
  <2>2. t[1] = z /\ u[K + 1] = e[K + 1 - (K + 1)]
    BY <1>2 DEF z
  <2>3. QED
    BY <1>2, <1>3, <2>1, <2>2
<1> HIDE DEF s, t, u, K
<1>6. x \in Seq(Record) /\ FlattenSeq(t) = z \o x /\ FlattenSeq(u) = x \o <<>>
  BY <1>1, <1>4, <1>5, FlattenIsSeq, FlattenLast, FlattenFirst
<1>7. Whole(d, <<>>) = FlattenSeq(t) \o <<>> /\ Whole(e, <<>>) = FlattenSeq(u) \o <<>>
  BY DEF Whole, t, u, K
<1> HIDE DEF x
<1>8. x \o <<>> = x
  BY <1>6
<1>9. (z \o x) \o <<>> = z \o x
  <2>1. z \o x \in Seq(Record)
    BY <1>1, <1>6
  <2> DEFINE y == z \o x
  <2>2. y \in Seq(Record)
    BY <2>1
  <2> HIDE DEF y
  <2>3. y \o <<>> = y
    BY <2>2
  <2>4. QED
    BY <2>3 DEF y
<1>10. QED
  BY <1>6, <1>7, <1>8, <1>9 DEF e, z, K

\* Full rotations hold that much.
LEMMA WholeLong ==
  ASSUME NEW d \in [Files -> Seq(Record)], NEW b \in Seq(Record),
         \A i \in 1..KeepFiles : Len(d[i]) >= RotateLines
  PROVE  Len(Whole(d, b)) >= KeepFiles * RotateLines
<1> DEFINE K == KeepFiles
           s == [i \in 1..K |-> d[K + 1 - i]]
           t == [i \in 1..(K + 1) |-> d[K + 1 - i]]
           x == FlattenSeq(s)
           z == d[0]
<1>1. K \in Nat /\ z \in Seq(Record) /\ RotateLines \in Nat
  BY Constants
<1>2. /\ \A i \in 1..K : K + 1 - i \in Files /\ i \in 1..(K + 1) /\ K + 1 - i \in 1..K
      /\ K + 1 \in 1..(K + 1) /\ K + 1 - (K + 1) = 0
  BY Constants DEF Files
<1>3. s \in Pieces(K) /\ t \in Pieces(K + 1)
  BY <1>2, WholeIs DEF Pieces
<1>4. (\A i \in 1..K : t[i] = s[i] /\ Len(s[i]) >= RotateLines) /\ t[K + 1] = z
  BY <1>1, <1>2
<1> HIDE DEF z
<1>5. Whole(d, b) = FlattenSeq(t) \o b
  BY DEF Whole
<1> HIDE DEF s, t
<1>6. x \in Seq(Record) /\ FlattenSeq(t) = x \o z /\ Len(x) >= K * RotateLines
  BY <1>1, <1>3, <1>4, FlattenIsSeq, FlattenLast, FlattenLength
<1> DEFINE p == K * RotateLines
<1> HIDE DEF x, p
<1>7. Len((x \o z) \o b) = Len(x) + Len(z) + Len(b) /\ Len(x) \in Nat /\ Len(z) \in Nat /\ Len(b) \in Nat
  BY <1>1, <1>6
<1>8. p \in Nat /\ Len(x) >= p
  BY <1>1, <1>6 DEF p
<1>9. Len(Whole(d, b)) >= p
  BY <1>5, <1>6, <1>7, <1>8
<1>10. QED
  BY <1>9 DEF p

\* Files d with lines b hold the end of w: a rotation that holds anything comes
\* after full ones, and nothing was given up unless the oldest is full.
Retains(d, b, w) ==
  /\ \E a \in Seq(Record) : w = a \o Whole(d, b)
  /\ \A i \in 1..KeepFiles : d[i] # <<>> => \A j \in 1..i : Len(d[j]) >= RotateLines
  /\ Whole(d, b) = w \/ KeepFiles = 0 \/ Len(d[KeepFiles]) >= RotateLines

LEMMA RetainsFlushed ==
  ASSUME NEW d \in [Files -> Seq(Record)], NEW b \in Seq(Record), NEW w, Retains(d, b, w)
  PROVE  Retains(Flushed(d, b), <<>>, w)
<1>1. \A i \in 1..KeepFiles : Flushed(d, b)[i] = d[i]
  BY Constants DEF Flushed, Files
<1>2. KeepFiles = 0 \/ KeepFiles \in 1..KeepFiles
  BY Constants
<1>3. \A i \in 1..KeepFiles : \A j \in 1..i : j \in 1..KeepFiles
  BY Constants
<1>4. Whole(Flushed(d, b), <<>>) = Whole(d, b)
  BY WholeFlushed
<1>5. QED
  BY <1>1, <1>2, <1>3, <1>4 DEF Retains

LEMMA RetainsAppended ==
  ASSUME NEW d \in [Files -> Seq(Record)], NEW b \in Seq(Record), NEW r \in Record,
         NEW w, Retains(d, b, w)
  PROVE  Retains(d, Append(b, r), w \o <<r>>)
<1>1. Whole(d, Append(b, r)) = Whole(d, b) \o <<r>> /\ Whole(d, b) \in Seq(Record)
  BY WholeAppended, WholeIs
<1>2. PICK a \in Seq(Record) : w = a \o Whole(d, b)
  BY DEF Retains
<1>3. (a \o Whole(d, b)) \o <<r>> = a \o (Whole(d, b) \o <<r>>)
  <2> DEFINE k == Whole(d, b)
             e == <<r>>
  <2>1. k \in Seq(Record) /\ e \in Seq(Record)
    BY <1>1
  <2> HIDE DEF k, e
  <2>2. (a \o k) \o e = a \o (k \o e)
    BY <2>1, ConcatAssociative
  <2>3. QED
    BY <2>2 DEF k, e
<1>4. QED
  BY <1>1, <1>2, <1>3 DEF Retains

\* The current file is full when it is rotated.
LEMMA RetainsRotated ==
  ASSUME NEW d \in [Files -> Seq(Record)], NEW w, Retains(d, <<>>, w), Len(d[0]) >= RotateLines
  PROVE  Retains(Rotated(d, {}), <<>>, w)
<1> DEFINE e == Rotated(d, {})
           k == Whole(d, <<>>)
           l == Whole(e, <<>>)
           o == d[KeepFiles]
<1>1. /\ KeepFiles \in Files /\ KeepFiles \in Nat /\ <<>> \in Seq(Record)
      /\ e \in [Files -> Seq(Record)] /\ o \in Seq(Record)
  <2>1. KeepFiles \in Files /\ KeepFiles \in Nat
    BY Constants DEF Files
  <2>2. e \in [Files -> Seq(Record)] /\ o \in Seq(Record)
    BY <2>1, RotatedIs
  <2>3. QED
    BY <2>1, <2>2
<1>2. k = o \o l /\ l \in Seq(Record) /\ k \in Seq(Record)
  <2>1. k = o \o l
    BY WholeRotated
  <2> HIDE DEF e
  <2>2. QED
    BY <1>1, <2>1, WholeIs
<1>3. \A i \in 1..KeepFiles : i - 1 \in Files /\ i \in Files /\ e[i] = d[i - 1]
  <2>1. \A i \in 1..KeepFiles : i - 1 \in Files /\ i \in Files /\ i # 0
    BY Constants DEF Files
  <2>2. \A i \in Files : e[i] = IF i = 0 THEN <<>> ELSE d[i - 1]
    BY DEF Rotated
  <2> HIDE DEF e
  <2>3. QED
    BY <2>1, <2>2
<1>4. PICK a \in Seq(Record) : w = a \o k
  BY DEF Retains
<1> HIDE DEF e, k, l, o
<1>5. (a \o o) \o l = w /\ a \o o \in Seq(Record)
  <2>1. o \in Seq(Record) /\ l \in Seq(Record) /\ a \in Seq(Record)
    BY <1>1, <1>2
  <2>0. (a \o o) \o l = a \o (o \o l)
    BY <2>1, ConcatAssociative
  <2>2. QED
    BY <1>2, <1>4, <2>0, <2>1
<1>6. ASSUME NEW i \in 1..KeepFiles, e[i] # <<>>, NEW j \in 1..i PROVE Len(e[j]) >= RotateLines
  <2>1. j \in 1..KeepFiles /\ i - 1 \in Nat
    BY Constants
  <2>2. e[j] = d[j - 1] /\ e[i] = d[i - 1]
    BY <1>3, <2>1
  <2>3. CASE j = 1
    BY <2>2, <2>3
  <2>4. CASE j # 1
    <3>1. i - 1 \in 1..KeepFiles /\ j - 1 \in 1..(i - 1)
      BY <2>1, <2>4, Constants
    <3>2. d[i - 1] # <<>>
      BY <1>6, <2>2
    <3>3. QED
      BY <2>2, <3>1, <3>2 DEF Retains
  <2>5. QED
    BY <2>3, <2>4
<1>7. l = w \/ KeepFiles = 0 \/ Len(e[KeepFiles]) >= RotateLines
  <2> SUFFICES ASSUME KeepFiles # 0 PROVE l = w \/ Len(e[KeepFiles]) >= RotateLines
    OBVIOUS
  <2>1. KeepFiles \in 1..KeepFiles
    BY Constants
  <2>2. CASE o = <<>>
    <3>1. ~(Len(o) >= RotateLines)
      <4>1. Len(<<>>) = 0
        OBVIOUS
      <4>2. QED
        BY <2>2, <4>1, Constants
    <3>2. k = w
      BY <3>1 DEF Retains, k, o
    <3>3. k = l
      BY <1>2, <2>2
    <3>4. QED
      BY <3>2, <3>3
  <2>3. CASE o # <<>>
    <3>1. \A j \in 1..KeepFiles : Len(d[j]) >= RotateLines
      BY <2>1, <2>3 DEF Retains, o
    <3>2. e[KeepFiles] = d[KeepFiles - 1]
      BY <1>3, <2>1
    <3>3. KeepFiles - 1 = 0 \/ KeepFiles - 1 \in 1..KeepFiles
      BY <2>1, Constants
    <3>4. QED
      BY <3>1, <3>2, <3>3
  <2>4. QED
    BY <2>2, <2>3
<1>8. Retains(e, <<>>, w)
  BY <1>5, <1>6, <1>7 DEF Retains, l
<1>9. QED
  BY <1>8 DEF e

LEMMA FunctionIsSeq ==
  ASSUME NEW n \in Nat, NEW f \in [1..n -> Record]
  PROVE  f \in Seq(Record) /\ Len(f) = n
OBVIOUS

\* An end of a sequence is its suffix.
LEMMA EndIsSuffix ==
  ASSUME NEW a \in Seq(Record), NEW k \in Seq(Record)
  PROVE  IsSuffix(k, a \o k)
<1> DEFINE w == a \o k
           m == Len(k)
           n == Len(w)
<1>1. /\ w \in Seq(Record) /\ m \in Nat /\ n \in Nat /\ n = Len(a) + m /\ Len(a) \in Nat
      /\ \A i \in 1..m : w[Len(a) + i] = k[i]
  BY ConcatProperties
<1> HIDE DEF w
<1> DEFINE x == Reverse(k)
           y == Reverse(w)
<1>2. /\ x \in Seq(Record) /\ Len(x) = m /\ \A i \in 1..m : x[i] = k[(m - i) + 1]
      /\ y \in Seq(Record) /\ Len(y) = n /\ \A i \in 1..n : y[i] = w[(n - i) + 1]
  <2>1. (\A i \in 1..m : (m - i) + 1 \in 1..m) /\ (\A i \in 1..n : (n - i) + 1 \in 1..n)
    BY <1>1
  <2>2. x \in [1..m -> Record] /\ y \in [1..n -> Record]
    BY <1>1, <2>1 DEF Reverse
  <2>3. /\ \A i \in 1..m : x[i] = k[(m - i) + 1]
        /\ \A i \in 1..n : y[i] = w[(n - i) + 1]
    BY DEF Reverse
  <2>4. m \in Nat /\ n \in Nat
    BY <1>1
  <2> HIDE DEF x, y, m, n
  <2>5. x \in Seq(Record) /\ Len(x) = m /\ y \in Seq(Record) /\ Len(y) = n
    BY <2>2, <2>4, FunctionIsSeq
  <2>6. QED
    BY <2>3, <2>5
<1> HIDE DEF x, y
<1>3. \A i \in 1..m : x[i] = y[i]
  <2> SUFFICES ASSUME NEW i \in 1..m PROVE x[i] = y[i]
    OBVIOUS
  <2>1. i \in 1..n /\ (m - i) + 1 \in 1..m /\ (n - i) + 1 = Len(a) + ((m - i) + 1)
    BY <1>1
  <2>2. w[(n - i) + 1] = k[(m - i) + 1]
    BY <1>1, <2>1
  <2>3. QED
    BY <1>2, <2>1, <2>2
<1>4. SubSeq(x, 1, m) = SubSeq(y, 1, m)
  <2>1. SubSeq(x, 1, m) = [i \in 1..m |-> x[i]]
    BY <1>1, <1>2
  <2>2. SubSeq(y, 1, m) = [i \in 1..m |-> y[i]]
    BY <1>1, <1>2
  <2>3. QED
    BY <1>3, <2>1, <2>2
<1>5. IsPrefix(x, y)
  BY <1>1, <1>2, <1>4 DEF IsPrefix
<1>6. QED
  BY <1>5 DEF IsSuffix, x, y, w

LEMMA RetainsEnough ==
  ASSUME NEW d \in [Files -> Seq(Record)], NEW b \in Seq(Record), NEW w \in Seq(Record),
         Retains(d, b, w)
  PROVE  /\ IsSuffix(Whole(d, b), w)
         /\ Len(Whole(d, b)) >= AtLeast(Len(w), KeepFiles * RotateLines)
<1> DEFINE k == Whole(d, b)
           p == KeepFiles * RotateLines
<1>1. k \in Seq(Record) /\ Len(k) \in Nat
  <2>1. k \in Seq(Record)
    BY WholeIs
  <2> HIDE DEF k
  <2>2. QED
    BY <2>1
<1>2. PICK a \in Seq(Record) : w = a \o k
  BY DEF Retains
<1>3. Len(w) \in Nat /\ p \in Nat
  BY Constants
<1>4. IsSuffix(k, w)
  <2> HIDE DEF k
  <2>1. QED
    BY <1>1, <1>2, EndIsSuffix
<1>5. Len(k) = Len(w) \/ Len(k) >= p
  <2>1. CASE k = w
    BY <2>1
  <2>2. CASE KeepFiles = 0
    <3>1. p = 0
      BY <2>2, Constants
    <3>2. QED
      BY <1>1, <3>1
  <2>3. CASE KeepFiles # 0 /\ Len(d[KeepFiles]) >= RotateLines
    <3>1. KeepFiles \in 1..KeepFiles
      BY <2>3, Constants
    <3>2. d[KeepFiles] # <<>>
      <4>1. Len(<<>>) = 0
        OBVIOUS
      <4>2. QED
        BY <2>3, <4>1, Constants
    <3>3. \A i \in 1..KeepFiles : Len(d[i]) >= RotateLines
      BY <3>1, <3>2 DEF Retains
    <3>4. QED
      BY <3>3, WholeLong
  <2>4. QED
    BY <2>1, <2>2, <2>3 DEF Retains
<1> HIDE DEF k, p
<1>6. Len(k) >= AtLeast(Len(w), p)
  BY <1>1, <1>3, <1>5 DEF AtLeast
<1>7. QED
  BY <1>4, <1>6 DEF k, p

-----------------------------------------------------------------------------
(* What the files hold.                                                   *)

\* What is on its way to the files, in the order of the queue.
Aligned ==
  /\ \A i \in 1..Len(batch) : batch[i] = pushed[handled + i]
  /\ \A i \in 1..Len(queue) : queue[i] = pushed[handled + Len(batch) + i]

KeptWell(f) == Retains(disk[f], buf[f], Written(f))

AllKept == ~lost => \A f \in Streams : KeptWell(f)

RetInv == LogInv /\ Aligned /\ AllKept

\* What a stream is given of record r.
Entry(f, r) == IF Takes(f, r) THEN <<r>> ELSE <<>>

LEMMA EntryIs == ASSUME NEW f, NEW r \in Record PROVE Entry(f, r) \in Seq(Record)
BY DEF Entry

LEMMA WrittenIs ==
  ASSUME Types, Counted, NEW f \in Streams
  PROVE  /\ Written(f) = FlattenSeq([i \in 1..handled |-> Entry(f, pushed[i])])
         /\ [i \in 1..handled |-> Entry(f, pushed[i])] \in Pieces(handled)
         /\ Written(f) \in Seq(Record)
<1>1. handled \in Nat /\ \A i \in 1..handled : pushed[i] \in Record
  <2>1. handled \in Nat /\ Len(pushed) \in Nat /\ handled <= Len(pushed)
    BY DEF Types, Counted
  <2>2. \A i \in 1..handled : i \in 1..Len(pushed)
    BY <2>1
  <2>3. QED
    BY <2>1, <2>2 DEF Types
<1>2. Written(f) = FlattenSeq([i \in 1..handled |-> Entry(f, pushed[i])])
  BY DEF Written, Entry
<1>3. [i \in 1..handled |-> Entry(f, pushed[i])] \in Pieces(handled)
  BY <1>1, EntryIs DEF Pieces
<1>4. QED
  BY <1>1, <1>2, <1>3, FlattenIsSeq

LEMMA SameWritten ==
  ASSUME NEW f \in Streams, handled' = handled, \A i \in 1..handled : pushed'[i] = pushed[i]
  PROVE  Written(f)' = Written(f)
<1> DEFINE s == [i \in 1..handled |-> Entry(f, pushed[i])]
           t == [i \in 1..handled' |-> Entry(f, pushed'[i])]
<1>1. t = s
  OBVIOUS
<1>2. Written(f) = FlattenSeq(s) /\ Written(f)' = FlattenSeq(t)
  BY DEF Written, Entry
<1> HIDE DEF s, t
<1>3. QED
  BY <1>1, <1>2

LEMMA NextWritten ==
  ASSUME Types, Counted, NEW f \in Streams, handled < Len(pushed),
         handled' = handled + 1, pushed' = pushed
  PROVE  Written(f)' = Written(f) \o Entry(f, pushed[handled + 1])
<1> DEFINE n == handled
           s == [i \in 1..n |-> Entry(f, pushed[i])]
           t == [i \in 1..(n + 1) |-> Entry(f, pushed[i])]
<1>1. n \in Nat /\ n + 1 \in 1..Len(pushed) /\ n + 1 \in 1..(n + 1)
  BY DEF Types, Counted
<1>2. pushed[n + 1] \in Record
  BY <1>1 DEF Types
<1>3. s \in Pieces(n) /\ Written(f) = FlattenSeq(s)
  BY WrittenIs
<1>4. t \in Pieces(n + 1)
  <2>1. \A i \in 1..(n + 1) : i = n + 1 \/ i \in 1..n
    BY <1>1
  <2>2. \A i \in 1..n : Entry(f, pushed[i]) \in Seq(Record)
    BY <1>3 DEF Pieces
  <2>3. QED
    BY <1>2, <2>1, <2>2, EntryIs DEF Pieces
<1>5. Written(f)' = FlattenSeq(t)
  BY DEF Written, Entry
<1>6. (\A i \in 1..n : t[i] = s[i]) /\ t[n + 1] = Entry(f, pushed[n + 1])
  BY <1>1
<1> HIDE DEF s, t
<1>7. FlattenSeq(t) = FlattenSeq(s) \o t[n + 1]
  BY <1>1, <1>3, <1>4, <1>6, FlattenLast
<1>8. QED
  BY <1>3, <1>5, <1>6, <1>7

\* A record written reaches the file or the lines before it.
LEMMA WriteRetains ==
  ASSUME LogInv, AllKept, NEW r \in Record, NEW atOnce \in BOOLEAN, WriteRecord(r, atOnce),
         \A f \in Streams : Written(f)' = Written(f) \o Entry(f, r)
  PROVE  AllKept'
<1> SUFFICES ASSUME ~lost', NEW f \in Streams PROVE KeptWell(f)'
  BY DEF AllKept
<1> DEFINE d == disk[f]
           b == buf[f]
           w == Written(f)
<1>0. Types /\ Sizes /\ Counted
  BY DEF LogInv
<1>1. /\ d \in [Files -> Seq(Record)] /\ b \in Seq(Record) /\ w \in Seq(Record)
      /\ Append(b, r) \in Seq(Record)
  <2>1. d \in [Files -> Seq(Record)] /\ b \in Seq(Record)
    BY <1>0 DEF Types
  <2>2. w \in Seq(Record)
    BY <1>0, WrittenIs
  <2> HIDE DEF b, d, w
  <2>3. Append(b, r) \in Seq(Record)
    BY <2>1
  <2>4. QED
    BY <2>1, <2>2, <2>3
<1>2. Skips(f, r) \/ Buffers(f, r, atOnce) \/ GoesOut(f, r) \/ Rotates(f, r)
  BY <1>0, WriteIs
<1>3. ~lost
  BY <1>0, WriteIs
<1>4. Retains(d, b, w)
  BY <1>3 DEF AllKept, KeptWell
<1>5. KeptWell(f)' = Retains(disk'[f], buf'[f], Written(f)')
  BY DEF KeptWell
<1> HIDE DEF d, b, w
<1>6. Retains(d, Append(b, r), w \o <<r>>)
  BY <1>1, <1>4, RetainsAppended
<1>7. Retains(Flushed(d, Append(b, r)), <<>>, w \o <<r>>)
  BY <1>1, <1>6, RetainsFlushed
<1>8. CASE Skips(f, r)
  <2>1. Entry(f, r) = <<>> /\ w \o <<>> = w
    BY <1>1, <1>8 DEF Skips, Entry
  <2>2. QED
    BY <1>4, <1>5, <1>8, <2>1 DEF Skips, d, b, w
<1>9. CASE Buffers(f, r, atOnce)
  <2>1. Entry(f, r) = <<r>> /\ disk'[f] = d /\ buf'[f] = Append(b, r)
    BY <1>9 DEF Buffers, Entry, d, b
  <2>2. QED
    BY <1>5, <1>6, <2>1 DEF w
<1>10. CASE GoesOut(f, r)
  <2>1. Entry(f, r) = <<r>> /\ disk'[f] = Flushed(d, Append(b, r)) /\ buf'[f] = <<>>
    BY <1>10 DEF GoesOut, Entry, d, b
  <2>2. QED
    BY <1>5, <1>7, <2>1 DEF w
<1>11. CASE Rotates(f, r)
  <2>1. Entry(f, r) = <<r>> /\ disk'[f] = Rotated(Flushed(d, Append(b, r)), {}) /\ buf'[f] = <<>>
        /\ bytes[f] + 1 >= RotateLines
    BY <1>11 DEF Rotates, Entry, d, b
  <2>2. /\ Flushed(d, Append(b, r)) \in [Files -> Seq(Record)]
        /\ Len(Flushed(d, Append(b, r))[0]) = Len(d[0]) + Len(Append(b, r))
    BY <1>1, FlushedIs
  <2>3. Len(Append(b, r)) = Len(b) + 1 /\ Len(b) \in Nat /\ Len(d[0]) \in Nat
    BY <1>1, Constants
  <2>4. bytes[f] = Len(d[0]) + Len(b)
    BY <1>0 DEF Sizes, InFile, InBuf, d, b
  <2>5. Len(Flushed(d, Append(b, r))[0]) >= RotateLines
    <3> DEFINE x == Len(Flushed(d, Append(b, r))[0])
               y == Len(d[0])
               z == Len(b)
    <3>1. x = y + (z + 1) /\ y \in Nat /\ z \in Nat /\ (y + z) + 1 >= RotateLines
      BY <2>1, <2>2, <2>3, <2>4
    <3> HIDE DEF x, y, z
    <3>2. x >= RotateLines
      BY <3>1, Constants
    <3>3. QED
      BY <3>2 DEF x
  <2>6. Retains(Rotated(Flushed(d, Append(b, r)), {}), <<>>, w \o <<r>>)
    BY <1>7, <2>2, <2>5, RetainsRotated
  <2>7. QED
    BY <1>5, <2>1, <2>6 DEF w
<1>12. QED
  BY <1>2, <1>8, <1>9, <1>10, <1>11

LEMMA FlushRetains ==
  ASSUME LogInv, AllKept, FlushStreams, handled' = handled, pushed' = pushed, lost' = lost
  PROVE  AllKept'
<1> SUFFICES ASSUME ~lost, NEW f \in Streams PROVE KeptWell(f)'
  BY DEF AllKept
<1>1. disk[f] \in [Files -> Seq(Record)] /\ buf[f] \in Seq(Record) /\ Retains(disk[f], buf[f], Written(f))
  BY DEF LogInv, Types, AllKept, KeptWell
<1>2. Retains(Flushed(disk[f], buf[f]), <<>>, Written(f))
  BY <1>1, RetainsFlushed
<1>3. disk'[f] = Flushed(disk[f], buf[f]) /\ buf'[f] = <<>>
  BY DEF FlushStreams
<1>4. Written(f)' = Written(f)
  BY SameWritten
<1>5. QED
  BY <1>2, <1>3, <1>4 DEF KeptWell

LEMMA SameRetains ==
  ASSUME AllKept, UNCHANGED <<disk, buf, handled, lost>>, \A i \in 1..handled : pushed'[i] = pushed[i]
  PROVE  AllKept'
<1> SUFFICES ASSUME ~lost, NEW f \in Streams PROVE KeptWell(f)'
  BY DEF AllKept
<1>1. Written(f)' = Written(f)
  BY SameWritten
<1>2. QED
  BY <1>1 DEF AllKept, KeptWell

LEMMA SameAligned == Aligned /\ UNCHANGED <<batch, queue, pushed, handled>> => Aligned'
BY DEF Aligned

LEMMA PushAligned ==
  ASSUME LogInv, Aligned, AllKept, NEW lvl \in AllLevels, Push(lvl), Len(pushed) < MaxRecords,
         UNCHANGED <<batch, handled, disk, buf, lost>>
  PROVE  Aligned' /\ AllKept'
<1> DEFINE r == [n |-> Len(pushed) + 1, lvl |-> lvl]
<1>1. /\ pushed \in Seq(Record) /\ queue \in Seq(Record) /\ batch \in Seq(Record)
      /\ handled \in Nat /\ Len(pushed) \in Nat /\ Len(queue) \in Nat /\ Len(batch) \in Nat
      /\ handled + Len(batch) + Len(queue) = Len(pushed)
  BY DEF LogInv, Types, Counted
<1>2. queue' = Append(queue, r) /\ pushed' = Append(pushed, r)
  BY DEF Push
<1> HIDE DEF r
<1>3. /\ Len(queue') = Len(queue) + 1 /\ queue'[Len(queue) + 1] = r
      /\ \A i \in 1..Len(queue) : queue'[i] = queue[i]
      /\ pushed'[Len(pushed) + 1] = r
      /\ \A i \in 1..Len(pushed) : pushed'[i] = pushed[i]
  BY <1>1, <1>2
<1>4. \A i \in 1..handled : pushed'[i] = pushed[i]
  BY <1>1, <1>3
<1>5. ASSUME NEW i \in 1..Len(batch) PROVE batch'[i] = pushed'[handled' + i]
  <2>1. handled + i \in 1..Len(pushed) /\ handled' = handled /\ batch' = batch
    BY <1>1
  <2>2. QED
    BY <1>3, <2>1 DEF Aligned
<1>6. ASSUME NEW i \in 1..Len(queue') PROVE queue'[i] = pushed'[handled' + Len(batch') + i]
  <2>1. handled' = handled /\ Len(batch') = Len(batch)
    OBVIOUS
  <2>2. CASE i = Len(queue) + 1
    <3>1. handled + Len(batch) + i = Len(pushed) + 1
      BY <1>1, <2>2
    <3>2. QED
      BY <1>3, <2>1, <2>2, <3>1
  <2>3. CASE i # Len(queue) + 1
    <3>1. i \in 1..Len(queue) /\ handled + Len(batch) + i \in 1..Len(pushed)
      BY <1>1, <1>3, <2>3
    <3>2. QED
      BY <1>3, <2>1, <3>1 DEF Aligned
  <2>4. QED
    BY <2>2, <2>3
<1>7. Aligned'
  BY <1>5, <1>6 DEF Aligned
<1>8. QED
  BY <1>4, <1>7, SameRetains

LEMMA RetInit == Init => RetInv
<1> SUFFICES ASSUME Init PROVE RetInv
  OBVIOUS
<1>1. LogInv
  BY LogInit
<1>2. /\ queue = <<>> /\ batch = <<>> /\ pushed = <<>> /\ handled = 0
      /\ disk = [f \in Streams |-> [i \in Files |-> <<>>]]
      /\ buf = [f \in Streams |-> <<>>]
  BY DEF Init
<1>3. Aligned
  <2>1. Len(queue) = 0 /\ Len(batch) = 0
    BY <1>2
  <2>2. QED
    BY <2>1 DEF Aligned
<1>4. ASSUME NEW f \in Streams PROVE KeptWell(f)
  <2> DEFINE d == [i \in Files |-> <<>>]
             t == [i \in 1..(KeepFiles + 1) |-> d[KeepFiles + 1 - i]]
             w == [i \in 1..0 |-> Entry(f, pushed[i])]
  <2>1. disk[f] = d /\ buf[f] = <<>>
    BY <1>2
  <2>2. Written(f) = <<>>
    <3>1. Written(f) = FlattenSeq(w)
      BY <1>1, <1>2, WrittenIs DEF LogInv
    <3>2. w = <<>>
      OBVIOUS
    <3> HIDE DEF w
    <3>3. Len(<<>>) = 0
      OBVIOUS
    <3>4. QED
      BY <3>1, <3>2, <3>3 DEF FlattenSeq
  <2>3. d \in [Files -> Seq(Record)] /\ <<>> \in Seq(Record)
    OBVIOUS
  <2>4. Whole(d, <<>>) = <<>>
    <3>1. t \in Pieces(KeepFiles + 1) /\ KeepFiles + 1 \in Nat
      <4>1. KeepFiles + 1 \in Nat
        BY Constants
      <4>2. t \in Pieces(KeepFiles + 1)
        <5> HIDE DEF d
        <5>1. QED
          BY <2>3, WholeIs
      <4>3. QED
        BY <4>1, <4>2
    <3>2. \A k \in 1..(KeepFiles + 1) : t[k] = <<>>
      BY Constants DEF Files
    <3> DEFINE c == [k \in 0..(KeepFiles + 1) |-> <<>>]
    <3>3. c[0] = <<>> /\ c[KeepFiles + 1] = <<>> /\ \A k \in 1..(KeepFiles + 1) : c[k] = <<>> /\ c[k - 1] = <<>>
      BY Constants
    <3>4. <<>> \o <<>> = <<>>
      OBVIOUS
    <3>5. Whole(d, <<>>) = FlattenSeq(t) \o <<>>
      BY DEF Whole
    <3> HIDE DEF c, t
    <3>6. Sums(c, t, KeepFiles + 1)
      BY <2>3, <3>2, <3>3, <3>4 DEF Sums
    <3>7. FlattenSeq(t) = <<>>
      BY <3>1, <3>3, <3>6, FlattenIs
    <3>8. QED
      BY <3>4, <3>5, <3>7
  <2>5. \A i \in 1..KeepFiles : d[i] = <<>>
    BY Constants DEF Files
  <2> HIDE DEF d
  <2>6. <<>> = <<>> \o <<>>
    OBVIOUS
  <2>7. Retains(d, <<>>, <<>>)
    BY <2>3, <2>4, <2>5, <2>6 DEF Retains
  <2>8. QED
    BY <2>1, <2>2, <2>7 DEF KeptWell
<1>5. QED
  BY <1>1, <1>3, <1>4 DEF RetInv, AllKept

\* Steps that leave the files, the lines and the queue.
LEMMA QuietRetains ==
  ASSUME RetInv, UNCHANGED <<disk, buf, queue, batch, pushed, handled, lost>>
  PROVE  Aligned' /\ AllKept'
<1>1. \A i \in 1..handled : pushed'[i] = pushed[i]
  OBVIOUS
<1>2. QED
  BY <1>1, SameAligned, SameRetains DEF RetInv

LEMMA FlushedRetains ==
  ASSUME RetInv, FlushStreams, UNCHANGED <<queue, batch, pushed, handled, lost>>
  PROVE  Aligned' /\ AllKept'
BY SameAligned, FlushRetains DEF RetInv

\* The worker takes the whole queue when its batch is empty.
LEMMA SwapRetains ==
  ASSUME RetInv, WorkerSwaps
  PROVE  Aligned' /\ AllKept'
<1>1. /\ batch' = queue /\ queue' = <<>> /\ batch = <<>>
      /\ UNCHANGED <<disk, buf, pushed, handled, lost>> /\ handled \in Nat
  BY DEF RetInv, LogInv, Phases, Types, WorkerSwaps, streams, history
<1>2. Len(batch) = 0 /\ Len(queue') = 0
  BY <1>1
<1>3. Aligned'
  <2>1. \A i \in 1..Len(queue) : queue[i] = pushed[handled + 0 + i]
    BY <1>2 DEF RetInv, Aligned
  <2>2. handled + 0 = handled
    BY <1>1
  <2>3. QED
    BY <1>1, <1>2, <2>1, <2>2 DEF Aligned
<1>4. QED
  BY <1>1, <1>3, SameRetains DEF RetInv

\* The next record of the batch, or in the last drain of the queue, is the next
\* one pushed.
LEMMA WritesRetains ==
  ASSUME RetInv, WorkerWrites
  PROVE  Aligned' /\ AllKept'
<1>1. /\ batch # <<>> /\ WriteRecord(Head(batch), TRUE) /\ batch' = Tail(batch)
      /\ UNCHANGED <<queue, pushed>>
  BY DEF WorkerWrites
<1>2. /\ LogInv /\ Types /\ Counted /\ batch \in Seq(Record) /\ handled \in Nat
      /\ Len(batch) \in Nat /\ Len(queue) \in Nat
      /\ handled + Len(batch) + Len(queue) = Len(pushed) /\ Aligned /\ AllKept
  BY DEF RetInv, LogInv, Types, Counted
<1>3. Head(batch) \in Record /\ Len(Tail(batch)) = Len(batch) - 1 /\ Len(batch) > 0
  BY <1>1, <1>2, QueueParts
<1>4. Head(batch) = batch[1] /\ \A i \in 1..(Len(batch) - 1) : Tail(batch)[i] = batch[i + 1]
  BY <1>1, <1>2
<1>5. handled' = handled + 1
  BY <1>1, <1>2, <1>3, WriteIs
<1>6. Head(batch) = pushed[handled + 1] /\ handled < Len(pushed)
  BY <1>2, <1>3, <1>4 DEF Aligned
<1>7. \A f \in Streams : Written(f)' = Written(f) \o Entry(f, Head(batch))
  BY <1>1, <1>2, <1>5, <1>6, NextWritten
<1>8. AllKept'
  BY <1>1, <1>2, <1>3, <1>7, WriteRetains
<1>9. Aligned'
  <2>1. ASSUME NEW i \in 1..Len(batch') PROVE batch'[i] = pushed'[handled' + i]
    <3>1. i \in 1..(Len(batch) - 1) /\ i + 1 \in 1..Len(batch) /\ handled' + i = handled + (i + 1)
      BY <1>1, <1>2, <1>3, <1>5
    <3>2. QED
      BY <1>1, <1>2, <1>4, <3>1 DEF Aligned
  <2>2. ASSUME NEW i \in 1..Len(queue') PROVE queue'[i] = pushed'[handled' + Len(batch') + i]
    <3>1. handled' + Len(batch') + i = handled + Len(batch) + i
      BY <1>1, <1>2, <1>3, <1>5
    <3>2. QED
      BY <1>1, <1>2, <3>1 DEF Aligned
  <2>3. QED
    BY <2>1, <2>2 DEF Aligned
<1>10. QED
  BY <1>8, <1>9

LEMMA DrainRetains ==
  ASSUME RetInv, DrainWrites
  PROVE  Aligned' /\ AllKept'
<1>1. /\ queue # <<>> /\ queue' = Tail(queue) /\ UNCHANGED <<batch, pushed>> /\ batch = <<>>
  BY DEF DrainWrites, RetInv, LogInv, Phases
<1>2. /\ LogInv /\ Types /\ Counted /\ queue \in Seq(Record) /\ handled \in Nat
      /\ Len(batch) = 0 /\ Len(queue) \in Nat
      /\ handled + Len(queue) = Len(pushed) /\ Aligned /\ AllKept
  BY <1>1 DEF RetInv, LogInv, Types, Counted
<1>3. Head(queue) \in Record /\ Len(Tail(queue)) = Len(queue) - 1 /\ Len(queue) > 0
  BY <1>1, <1>2, QueueParts
<1>4. Head(queue) = queue[1] /\ \A i \in 1..(Len(queue) - 1) : Tail(queue)[i] = queue[i + 1]
  BY <1>1, <1>2
<1>5. handled' = handled + 1
  <2>1. CASE WriteRecord(Head(queue), FALSE)
    BY <1>2, <1>3, <2>1, WriteIs
  <2>2. QED
    BY <2>1 DEF DrainWrites
<1>6. \A i \in 1..Len(queue) : queue[i] = pushed[handled + i]
  BY <1>2 DEF Aligned
<1>7. Head(queue) = pushed[handled + 1] /\ handled < Len(pushed)
  BY <1>2, <1>3, <1>4, <1>6
<1>8. \A f \in Streams : Written(f)' = Written(f) \o Entry(f, Head(queue))
  BY <1>1, <1>2, <1>5, <1>7, NextWritten
<1>9. AllKept'
  <2>1. CASE WriteRecord(Head(queue), FALSE)
    BY <1>2, <1>3, <1>8, <2>1, WriteRetains
  <2>2. CASE lost' = TRUE
    BY <2>2 DEF AllKept
  <2>3. QED
    BY <2>1, <2>2 DEF DrainWrites
<1>10. Aligned'
  <2>1. ASSUME NEW i \in 1..Len(queue') PROVE queue'[i] = pushed'[handled' + Len(batch') + i]
    <3>1. /\ i \in 1..(Len(queue) - 1) /\ i + 1 \in 1..Len(queue)
          /\ handled' + Len(batch') + i = handled + (i + 1)
      BY <1>1, <1>2, <1>3, <1>5
    <3>2. QED
      BY <1>1, <1>4, <1>6, <3>1
  <2>2. Len(batch') = 0
    BY <1>1, <1>2
  <2>3. QED
    BY <2>1, <2>2 DEF Aligned
<1>11. QED
  BY <1>9, <1>10

\* A producer's record, and those of Init and Shutdown.
LEMMA PushesRetains ==
  ASSUME RetInv, (\E p \in Producers : LogPushes(p)) \/ InitLogs \/ ShutdownLogs
  PROVE  Aligned' /\ AllKept'
<1>1. PICK lvl \in AllLevels : Push(lvl)
  <2>1. "info" \in AllLevels
    BY DEF AllLevels
  <2>2. QED
    BY <2>1, Constants DEF LogPushes, InitLogs, ShutdownLogs
<1>2. UNCHANGED <<batch, handled, disk, buf, lost>>
  BY DEF LogPushes, InitLogs, ShutdownLogs, streams
<1>3. LogInv /\ Types /\ Room /\ Len(pushed') = Len(pushed) + 1
  BY <1>1 DEF RetInv, LogInv, Push, Types
<1>4. Len(pushed) < MaxRecords
  <2>1. CASE \E p \in Producers : LogPushes(p)
    <3>1. PICK p \in Producers : LogPushes(p)
      BY <2>1
    <3>2. producer[p] = "push" /\ producer' = [producer EXCEPT ![p] = "idle"]
      BY <3>1 DEF LogPushes
    <3>3. QED
      BY <1>3, <3>2, OnePushes
  <2>2. CASE InitLogs \/ ShutdownLogs
    BY <1>3, <2>2, MainPushes DEF InitLogs, ShutdownLogs
  <2>3. QED
    BY <2>1, <2>2
<1>5. QED
  BY <1>1, <1>2, <1>4, PushAligned DEF RetInv

LEMMA RetStep == RetInv /\ [Next]_vars => RetInv'
<1> SUFFICES ASSUME RetInv, [Next]_vars PROVE RetInv'
  OBVIOUS
<1>1. LogInv'
  BY LogStep DEF RetInv
<1> SUFFICES Aligned' /\ AllKept'
  BY <1>1 DEF RetInv
<1>2. CASE UNCHANGED vars
  BY <1>2, QuietRetains DEF vars, streams, history
<1>3. CASE MainNext
  <2>1. CASE InitStarts
    BY <2>1, QuietRetains DEF InitStarts, history
  <2>2. CASE InitLogs \/ ShutdownLogs
    BY <2>2, PushesRetains
  <2>3. CASE ShutdownStops
    BY <2>3, QuietRetains DEF ShutdownStops, streams
  <2>4. CASE ShutdownEnds
    BY <2>4, FlushedRetains DEF ShutdownEnds, history
  <2>5. QED
    BY <1>3, <2>1, <2>2, <2>3, <2>4 DEF MainNext
<1>4. CASE WorkerNext
  <2>1. CASE WorkerChecks \/ WorkerWaits \/ WaitEnds
    BY <2>1, QuietRetains DEF WorkerChecks, WorkerWaits, WaitEnds, streams, history
  <2>2. CASE WorkerSwaps
    BY <2>2, SwapRetains
  <2>3. CASE WorkerWrites
    BY <2>3, WritesRetains
  <2>4. CASE WorkerFlushes
    BY <2>4, FlushedRetains DEF WorkerFlushes, BatchWritten, history
  <2>5. CASE DrainWrites
    BY <2>5, DrainRetains
  <2>6. CASE DrainEnds
    BY <2>6, FlushedRetains DEF DrainEnds, history
  <2>7. QED
    BY <1>4, <2>1, <2>2, <2>3, <2>4, <2>5, <2>6 DEF WorkerNext
<1>5. CASE FlushLocks
  BY <1>5, QuietRetains DEF FlushLocks, streams, history
<1>6. CASE FlushEnds
  BY <1>6, FlushedRetains DEF FlushEnds, history
<1>7. CASE \E p \in Producers : LogChecks(p)
  BY <1>7, QuietRetains DEF LogChecks, streams, history
<1>8. CASE \E p \in Producers : LogPushes(p)
  BY <1>8, PushesRetains
<1>9. QED
  BY <1>2, <1>3, <1>4, <1>5, <1>6, <1>7, <1>8 DEF Next

\* The files of a stream, oldest first, hold the end of what was written to it,
\* without a gap, and as much as the configured number of full files can hold,
\* over rotations, flushes, restarts and the last drain (rotate_files,
\* write_line, worker_loop), unless a line was lost to a Flush during the drain
\* or to a rename that failed.
THEOREM LatestRecordsAreKept == Spec => []Retained
<1>1. RetInv => Retained
  <2> SUFFICES ASSUME RetInv, ~lost, NEW f \in Streams
               PROVE  /\ IsSuffix(Kept(f), Written(f))
                      /\ Len(Kept(f)) >= AtLeast(Len(Written(f)), KeepFiles * RotateLines)
    BY DEF Retained
  <2>1. /\ disk[f] \in [Files -> Seq(Record)] /\ buf[f] \in Seq(Record)
        /\ Types /\ Counted /\ Retains(disk[f], buf[f], Written(f))
    BY DEF RetInv, LogInv, Types, AllKept, KeptWell
  <2>2. Written(f) \in Seq(Record)
    BY <2>1, WrittenIs
  <2>3. Kept(f) = Whole(disk[f], buf[f])
    BY DEF Kept, Whole
  <2>4. QED
    BY <2>1, <2>2, <2>3, RetainsEnough
<1>2. QED
  BY <1>1, RetInit, RetStep, PTL DEF Spec
=============================================================================
