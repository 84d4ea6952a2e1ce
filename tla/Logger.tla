------------------------------- MODULE Logger -------------------------------
(***************************************************************************)
(* Common/Core/Logger.{h,cpp}: any thread appends records to a queue; one  *)
(* worker writes them in batches to two files, one for all records and one *)
(* for warnings and worse, and rotates a file that has grown too long.     *)
(* mtx protects the queue, io_mtx the streams.  A record is its number and *)
(* level, a file is the sequence of its records, its size their number.    *)
(* Both files are taken to open.                                           *)
(***************************************************************************)
EXTENDS Naturals, SequencesExt

CONSTANTS
  Producers,        \* threads that call Log
  RotateLines,      \* cfg.rotate_bytes, in records
  KeepFiles,        \* cfg.keep_files
  MaxRecords,       \* bound: records queued
  MaxInits,         \* bound: calls of Init
  Levels,           \* bound: the levels used, a subset of AllLevels
  RenameMayFail     \* may a file refuse to be renamed (another process reads it)

AllLevels == {"info", "warn", "fatal"}

ASSUME ConfigAssumption ==
  /\ IsFiniteSet(Producers)
  /\ RotateLines \in Nat \ {0}
  /\ KeepFiles \in Nat
  /\ MaxRecords \in Nat
  /\ MaxInits \in Nat
  /\ Levels \subseteq AllLevels
  /\ RenameMayFail \in BOOLEAN

VARIABLES
  running, queue,      \* st.running, st.q
  main,                \* the thread of Init and Shutdown
  inits,               \* how often Init was called
  producer,            \* each producer: "idle", or "push" past its test of running
  worker, batch,       \* the worker's place and its local batch
  flusher,             \* "in" while Flush holds io_mtx
  disk,                \* files of a stream: 0 is the current one, i its i-th rotation
  buf,                 \* lines a stream has not given to the system yet
  bytes,               \* bytes_all, bytes_err
  pushed, handled,     \* history: the records queued, how many the worker dealt with
  lost,                \* history: a line was lost to a race or a rename that failed
  upto                 \* history: how many were queued when Shutdown cleared running

control == <<running, main, inits, producer, worker, flusher>>
streams == <<disk, buf, bytes>>
history == <<pushed, handled, lost, upto>>
vars == <<control, queue, batch, streams, history>>

Streams == {"all", "err"}
Files   == 0..KeepFiles
Record  == [n : 1..MaxRecords, lvl : AllLevels]

Init ==
  /\ running = FALSE /\ queue = <<>> /\ batch = <<>>
  /\ main = "down" /\ inits = 0
  /\ producer = [p \in Producers |-> "idle"]
  /\ worker = "done" /\ flusher = "out"
  /\ disk = [f \in Streams |-> [i \in Files |-> <<>>]]
  /\ buf = [f \in Streams |-> <<>>]
  /\ bytes = [f \in Streams |-> 0]
  /\ pushed = <<>> /\ handled = 0 /\ lost = FALSE /\ upto = 0

-----------------------------------------------------------------------------
(* Streams                                                                 *)

\* The stream's unwritten lines reach the file.
Flushed(d, b) == [i \in Files |-> IF i = 0 THEN d[0] \o b ELSE d[i]]

\* Mutant: the loop stops one short of the base.
Rotated_NotBase(d, failed) ==
  [i \in Files |-> IF i <= 1 \/ i \in failed THEN <<>> ELSE d[i - 1]]

\* rotate_files and the truncation of the base after it: file i takes the place
\* of file i + 1.  A file that cannot be renamed is deleted by the next turn of
\* the loop, or truncated if it is the base.
Rotated(d, failed) ==
  [i \in Files |-> IF i = 0 \/ i \in failed THEN <<>> ELSE d[i - 1]]

\* Mutant: one record more.
RotationDue_Late(n) == n > RotateLines

RotationDue(n) == n >= RotateLines

\* Mutant: a fatal record waits like any other.
FlushesNow_Never(r, atOnce) == r.lvl \notin AllLevels

FlushesNow(r, atOnce) == atOnce /\ r.lvl = "fatal"

Takes(f, r) == f = "all" \/ r.lvl # "info"

\* write_line on each stream the record goes to, and with atOnce the flush that
\* follows a fatal record.
WriteRecord(r, atOnce) ==
  LET b(f)   == IF Takes(f, r) THEN Append(buf[f], r) ELSE buf[f]
      n(f)   == IF Takes(f, r) THEN bytes[f] + 1 ELSE bytes[f]
      due(f) == Takes(f, r) /\ RotationDue(n(f))
      out(f) == due(f) \/ FlushesNow(r, atOnce)
  IN \E failed \in [Streams -> IF RenameMayFail THEN SUBSET (Files \ {0}) ELSE {{}}] :
     /\ disk' = [f \in Streams |->
                   IF due(f) THEN Rotated(Flushed(disk[f], b(f)), failed[f])
                   ELSE IF out(f) THEN Flushed(disk[f], b(f))
                   ELSE disk[f]]
     /\ buf' = [f \in Streams |-> IF out(f) THEN <<>> ELSE b(f)]
     /\ bytes' = [f \in Streams |-> IF due(f) THEN 0 ELSE n(f)]
     /\ handled' = handled + 1
     /\ lost' = (lost \/ \E f \in Streams : due(f) /\ failed[f] # {})

FlushStreams ==
  /\ disk' = [f \in Streams |-> Flushed(disk[f], buf[f])]
  /\ buf' = [f \in Streams |-> <<>>]
  /\ UNCHANGED bytes

-----------------------------------------------------------------------------
(* Log                                                                     *)

\* q.push_back and the notification.  The worker holds mtx while it drains.
Push(lvl) ==
  LET r == [n |-> Len(pushed) + 1, lvl |-> lvl] IN
  /\ worker # "drain"
  /\ queue' = Append(queue, r)
  /\ pushed' = Append(pushed, r)
  /\ worker' = IF worker = "wait" THEN "woken" ELSE worker

\* The bound on records, those on their way included.
HasRoom == Len(pushed) + Cardinality({p \in Producers : producer[p] = "push"}) < MaxRecords

LogChecks(p) ==
  /\ producer[p] = "idle"
  /\ running
  /\ HasRoom
  /\ producer' = [producer EXCEPT ![p] = "push"]
  /\ UNCHANGED <<running, main, inits, worker, flusher, queue, batch, streams, history>>

LogPushes(p) ==
  /\ producer[p] = "push"
  /\ \E lvl \in Levels : Push(lvl)
  /\ producer' = [producer EXCEPT ![p] = "idle"]
  /\ UNCHANGED <<running, main, inits, flusher, batch, streams, handled, lost, upto>>

-----------------------------------------------------------------------------
(* Init, Shutdown, Flush                                                   *)

\* Files are opened to append, so their size counts.
InitStarts ==
  /\ main = "down" /\ inits < MaxInits
  /\ main' = "starting" /\ inits' = inits + 1
  /\ bytes' = [f \in Streams |-> Len(disk[f][0])]
  /\ running' = TRUE
  /\ worker' = "loop"
  /\ UNCHANGED <<producer, flusher, queue, batch, disk, buf, history>>

InitLogs ==
  /\ main = "starting"
  /\ HasRoom
  /\ Push("info")
  /\ main' = "up"
  /\ UNCHANGED <<running, inits, producer, flusher, batch, streams, handled, lost, upto>>

ShutdownLogs ==
  /\ main = "up"
  /\ HasRoom
  /\ Push("info")
  /\ main' = "ending"
  /\ UNCHANGED <<running, inits, producer, flusher, batch, streams, handled, lost, upto>>

\* running = false; notify_all, without the mutex: a worker that is about to
\* wait is not woken.
ShutdownStops ==
  /\ main = "ending"
  /\ main' = "joining"
  /\ running' = FALSE
  /\ upto' = Len(pushed)
  /\ worker' = IF worker = "wait" THEN "woken" ELSE worker
  /\ UNCHANGED <<inits, producer, flusher, queue, batch, streams, pushed, handled, lost>>

ShutdownEnds ==
  /\ main = "joining"
  /\ worker = "done"
  /\ FlushStreams
  /\ main' = "down"
  /\ UNCHANGED <<running, inits, producer, worker, flusher, queue, batch, history>>

FlushLocks ==
  /\ flusher = "out"
  /\ main # "down"
  /\ flusher' = "in"
  /\ UNCHANGED <<running, main, inits, producer, worker, queue, batch, streams, history>>

FlushEnds ==
  /\ flusher = "in"
  /\ FlushStreams
  /\ flusher' = "out"
  /\ UNCHANGED <<running, main, inits, producer, worker, queue, batch, history>>

-----------------------------------------------------------------------------
(* worker_loop                                                             *)

WorkerChecks ==
  /\ worker = "loop"
  /\ worker' = IF running THEN "lock" ELSE "drain"
  /\ UNCHANGED <<running, main, inits, producer, flusher, queue, batch, streams, history>>

WorkerWaits ==
  /\ worker = "lock"
  /\ queue = <<>>
  /\ worker' = "wait"
  /\ UNCHANGED <<running, main, inits, producer, flusher, queue, batch, streams, history>>

\* Mutant: a plain wait.
TimesOut_Never == worker = "wait" /\ queue # <<>>

\* wait_for comes back after 200 ms.
TimesOut == worker = "wait"

WaitEnds ==
  /\ TimesOut
  /\ worker' = "woken"
  /\ UNCHANGED <<running, main, inits, producer, flusher, queue, batch, streams, history>>

WorkerSwaps ==
  /\ worker = "woken" \/ (worker = "lock" /\ queue # <<>>)
  /\ batch' = queue
  /\ queue' = <<>>
  /\ worker' = "write"
  /\ UNCHANGED <<running, main, inits, producer, flusher, streams, history>>

WorkerWrites ==
  /\ worker = "write"
  /\ batch # <<>>
  /\ flusher = "out"
  /\ WriteRecord(Head(batch), TRUE)
  /\ batch' = Tail(batch)
  /\ UNCHANGED <<control, queue, pushed, upto>>

\* Mutant: the batch is left after its first record.
BatchWritten_Early == Len(batch) <= 1

BatchWritten == batch = <<>>

WorkerFlushes ==
  /\ worker = "write"
  /\ BatchWritten
  /\ flusher = "out"
  /\ FlushStreams
  /\ batch' = <<>>
  /\ worker' = "loop"
  /\ UNCHANGED <<running, main, inits, producer, flusher, queue, history>>

\* The last part of worker_loop: mtx is held, io_mtx is not.  A Flush in
\* progress races with it on the streams, and the line may be lost.
DrainWrites ==
  /\ worker = "drain"
  /\ queue # <<>>
  /\ \/ WriteRecord(Head(queue), FALSE)
     \/ /\ flusher = "in"
        /\ handled' = handled + 1
        /\ lost' = TRUE
        /\ UNCHANGED streams
  /\ queue' = Tail(queue)
  /\ UNCHANGED <<control, batch, pushed, upto>>

\* Mutant: what is left in the queue is not looked at.
Drained_Skipped == worker = "drain"

Drained == worker = "drain" /\ queue = <<>>

DrainEnds ==
  /\ Drained
  /\ FlushStreams
  /\ worker' = "done"
  /\ UNCHANGED <<running, main, inits, producer, flusher, queue, batch, history>>

WorkerNext ==
  \/ WorkerChecks \/ WorkerWaits \/ WaitEnds \/ WorkerSwaps
  \/ WorkerWrites \/ WorkerFlushes \/ DrainWrites \/ DrainEnds

MainNext == InitStarts \/ InitLogs \/ ShutdownLogs \/ ShutdownStops \/ ShutdownEnds

Next ==
  \/ MainNext
  \/ WorkerNext
  \/ FlushLocks \/ FlushEnds
  \/ \E p \in Producers : LogChecks(p) \/ LogPushes(p)

Spec == Init /\ [][Next]_vars

\* The scheduler runs the worker and lets it have io_mtx, a wait of 200 ms ends,
\* and a Flush or a Shutdown that has begun goes on.  Nothing makes a thread log,
\* flush or shut down.
FairSpec ==
  /\ Spec
  /\ SF_vars(WorkerNext)
  /\ WF_vars(FlushEnds)
  /\ WF_vars(ShutdownStops \/ ShutdownEnds)

-----------------------------------------------------------------------------

\* Types; a file is rotated before it holds more than the configured amount.
TypeOK ==
  /\ running \in BOOLEAN
  /\ queue \in Seq(Record) /\ batch \in Seq(Record) /\ pushed \in Seq(Record)
  /\ main \in {"down", "starting", "up", "ending", "joining"}
  /\ inits \in 0..MaxInits
  /\ producer \in [Producers -> {"idle", "push"}]
  /\ worker \in {"loop", "lock", "wait", "woken", "write", "drain", "done"}
  /\ flusher \in {"out", "in"}
  /\ disk \in [Streams -> [Files -> Seq(Record)]]
  /\ buf \in [Streams -> Seq(Record)]
  /\ bytes \in [Streams -> 0..(RotateLines - 1)]
  /\ handled \in 0..MaxRecords /\ lost \in BOOLEAN /\ upto \in 0..MaxRecords

\* What a stream was given, and what is still to be found of it, oldest first.
Written(f) ==
  FlattenSeq([i \in 1..handled |-> IF Takes(f, pushed[i]) THEN <<pushed[i]>> ELSE <<>>])

Kept(f) ==
  FlattenSeq([i \in 1..(KeepFiles + 1) |-> disk[f][KeepFiles + 1 - i]]) \o buf[f]

AtLeast(m, n) == IF m < n THEN m ELSE n

\* The files hold the latest records in the order of the queue, without a gap,
\* and as many as KeepFiles full files can, over rotations, restarts of the
\* logger and the two ways the worker writes (rotate_files, write_line,
\* worker_loop).  Excepted: lines lost to a Flush during the last drain and to a
\* rename that fails (DrainWrites, Rotated).
Retained ==
  ~lost => \A f \in Streams :
    /\ IsSuffix(Kept(f), Written(f))
    /\ Len(Kept(f)) >= AtLeast(Len(Written(f)), KeepFiles * RotateLines)

\* Once the worker has gone past a fatal record, that record and every one
\* before it are with the system: a crash does not lose them (Logger.cpp 171).
\* The drain at the end flushes once, after its last record.
FatalDurable ==
  worker # "drain" =>
    \A f \in Streams : \A i \in 1..Len(buf[f]) : buf[f][i].lvl # "fatal"

\* When Shutdown returns, the worker has written every record queued before
\* running was cleared and nothing is left in a stream, though the worker may
\* have missed the notification and other threads go on queueing.
ShutdownComplete ==
  main = "down" => handled >= upto /\ \A f \in Streams : buf[f] = <<>>

\* Shutdown returns although its notification may be missed.
ShutdownReturns == main = "joining" ~> main = "down"

\* While the logger runs, every record queued is written in the end, however
\* the batches fall.
AllWritten ==
  \A n \in 1..MaxRecords : Len(pushed) >= n ~> handled >= n \/ ~running
=============================================================================
