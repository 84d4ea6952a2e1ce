---------------------------- MODULE UidGenerator ----------------------------
(***************************************************************************)
(* Common/Core/UidGenerator.{h,cpp}: ids made of a time in milliseconds, a *)
(* node and a sequence number.  Next reads the system clock without the    *)
(* mutex and uses the value later under it, so a thread may come with a    *)
(* time another thread has overtaken; the clock itself may be set back;    *)
(* the process may restart.  The field widths are parameters: the code has *)
(* 2^12 sequence numbers, 2^10 nodes and, in 64 bits, 2^42 times.          *)
(***************************************************************************)
EXTENDS Integers, Sequences

CONSTANTS
  Callers,             \* threads that call Next on one generator
  Node,                \* node_id_
  SeqSize, NodeSize, TimeSize,  \* kSeqMask + 1, kNodeMask + 1, 2^(64 - kTimeShift)
  Epoch,               \* kCustomEpochMs
  FirstTime, LastTime, \* bound: the values the system clock takes
  MaxIds,              \* bound: ids issued
  ClockStepsBack,      \* may the system clock be set back
  MayRestart           \* may the process restart

Times == FirstTime..LastTime

ASSUME LayoutAssumption ==
  /\ SeqSize \in Nat \ {0}
  /\ NodeSize \in Nat \ {0}
  /\ TimeSize \in Nat \ {0}
  /\ Node \in 0..(NodeSize - 1)
ASSUME ClockAssumption ==
  /\ Epoch \in Nat
  /\ FirstTime \in Nat \ {0}
  /\ LastTime \in Nat
  /\ LastTime - Epoch < TimeSize
ASSUME SwitchAssumption ==
  MaxIds \in Nat /\ ClockStepsBack \in BOOLEAN /\ MayRestart \in BOOLEAN

VARIABLES
  clock,               \* system_clock
  last_ts_ms, seq,     \* members of the generator
  pc, now,             \* each caller: "idle", "lock" or "sleep"; its clock reading
  issued,              \* history: ids returned, with the time and number they were made of
  earlier              \* history: how many of them an earlier process returned

vars == <<clock, last_ts_ms, seq, pc, now, issued, earlier>>

\* The constructor, with a clock that is already running.
Init ==
  /\ clock \in Times
  /\ last_ts_ms = 0
  /\ seq = 0
  /\ pc = [t \in Callers |-> "idle"]
  /\ now = [t \in Callers |-> 0]
  /\ issued = <<>>
  /\ earlier = 0

\* The fields joined by shifts in 64 bits: a time before the epoch wraps.  The
\* fields do not overlap, so | adds.
Join(ts, n) == (((ts - Epoch) % TimeSize) * NodeSize + Node) * SeqSize + n

\* Decode.
Decode(uid) ==
  [sequence |-> uid % SeqSize,
   node_id |-> (uid \div SeqSize) % NodeSize,
   timestamp_ms |-> uid \div (SeqSize * NodeSize) + Epoch]

\* Next up to the mutex, on entry and after a sleep: NowMillis.
ReadClock(t) ==
  /\ \/ pc[t] = "idle" /\ Len(issued) < MaxIds
     \/ pc[t] = "sleep"
  /\ pc' = [pc EXCEPT ![t] = "lock"]
  /\ now' = [now EXCEPT ![t] = clock]
  /\ UNCHANGED <<clock, last_ts_ms, seq, issued, earlier>>

\* Next returns the id, unless it is 0: then it sleeps and tries again.
Issue(t, ts, n) ==
  LET uid == Join(ts, n) IN
  /\ pc' = [pc EXCEPT ![t] = IF uid = 0 THEN "sleep" ELSE "idle"]
  /\ issued' = IF uid = 0 THEN issued
               ELSE Append(issued, [uid |-> uid, ts |-> ts, n |-> n])

\* Mutant: any other time starts a new millisecond.
Overtaken_Never(t) == t \notin Callers

\* Another thread, or an earlier clock, got further than this reading.
Overtaken(t) == now[t] < last_ts_ms

\* Mutant: the sequence number may reach one more.
SequenceFull_Late == seq = SeqSize

SequenceFull == seq = SeqSize - 1

\* The critical section of Next, by its three outcomes.
Waits(t) ==
  /\ pc[t] = "lock"
  /\ Overtaken(t) \/ (now[t] = last_ts_ms /\ SequenceFull)
  /\ pc' = [pc EXCEPT ![t] = "sleep"]
  /\ UNCHANGED <<clock, last_ts_ms, seq, now, issued, earlier>>

SameMillisecond(t) ==
  /\ pc[t] = "lock"
  /\ now[t] = last_ts_ms
  /\ ~SequenceFull
  /\ seq' = seq + 1
  /\ Issue(t, now[t], seq + 1)
  /\ UNCHANGED <<clock, last_ts_ms, now, earlier>>

NewMillisecond(t) ==
  /\ pc[t] = "lock"
  /\ ~Overtaken(t) /\ now[t] # last_ts_ms
  /\ last_ts_ms' = now[t]
  /\ seq' = 0
  /\ Issue(t, now[t], 0)
  /\ UNCHANGED <<clock, now, earlier>>

\* External: the clock runs, or is set back.
Tick ==
  /\ clock < LastTime
  /\ clock' = clock + 1
  /\ UNCHANGED <<last_ts_ms, seq, pc, now, issued, earlier>>

SetBack ==
  /\ ClockStepsBack
  /\ \E c \in Times : c < clock /\ clock' = c
  /\ UNCHANGED <<last_ts_ms, seq, pc, now, issued, earlier>>

\* The process ends and a new one constructs its generator: nothing is kept.
Restart ==
  /\ MayRestart
  /\ last_ts_ms' = 0
  /\ seq' = 0
  /\ pc' = [t \in Callers |-> "idle"]
  /\ now' = [t \in Callers |-> 0]
  /\ earlier' = Len(issued)
  /\ UNCHANGED <<clock, issued>>

CallerNext(t) ==
  ReadClock(t) \/ Waits(t) \/ SameMillisecond(t) \/ NewMillisecond(t)

Next == Tick \/ SetBack \/ Restart \/ \E t \in Callers : CallerNext(t)

Spec == Init /\ [][Next]_vars

-----------------------------------------------------------------------------

IssuedIds == [uid : Nat, ts : Times, n : 0..(SeqSize - 1)]

\* Types; the sequence number stays inside its field.
TypeOK ==
  /\ clock \in Times
  /\ last_ts_ms \in Times \cup {0}
  /\ seq \in 0..(SeqSize - 1)
  /\ pc \in [Callers -> {"idle", "lock", "sleep"}]
  /\ now \in [Callers -> Times \cup {0}]
  /\ issued \in Seq(IssuedIds)
  /\ earlier \in 0..Len(issued)

\* The ids one process issues grow strictly, in the order Next returned them,
\* whatever the threads do and however the clock moves; so none comes twice
\* (UidGenerator::Next).
Increasing ==
  \A i, j \in (earlier + 1)..Len(issued) : i < j => issued[i].uid < issued[j].uid

\* Decode takes an id back to the time, node and number it was made of
\* (UidGenerator.cpp 57).
DecodesBack ==
  \A i \in 1..Len(issued) :
    Decode(issued[i].uid) =
      [sequence |-> issued[i].n, node_id |-> Node, timestamp_ms |-> issued[i].ts]
=============================================================================
