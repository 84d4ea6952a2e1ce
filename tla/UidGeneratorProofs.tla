------------------------- MODULE UidGeneratorProofs -------------------------
(***************************************************************************)
(* Theorems about UidGenerator: for every width of the fields, number of   *)
(* threads and movement of the clock, the ids of one process increase and  *)
(* decode to what they were made of.                                       *)
(***************************************************************************)
EXTENDS UidGenerator, TLAPS

-----------------------------------------------------------------------------
(* Positional notation: n = a * S + p with a digit p below S.               *)

LEMMA TimesNat == ASSUME NEW a \in Nat, NEW b \in Nat PROVE a * b \in Nat
OBVIOUS

LEMMA Multiple == ASSUME NEW S \in Nat \ {0}, NEW k \in Nat \ {0} PROVE k * S >= S
OBVIOUS

LEMMA DigitOrder ==
  ASSUME NEW S \in Nat \ {0}, NEW a \in Nat, NEW b \in Nat,
         NEW p \in 0..(S - 1), NEW q \in 0..(S - 1), a < b
  PROVE  a * S + p < b * S + q
<1>1. b - a \in Nat \ {0}
  OBVIOUS
<1>2. (b - a) * S >= S
  BY <1>1, Multiple
<1>3. (b - a) * S = b * S - a * S
  OBVIOUS
<1>4. a * S \in Nat /\ b * S \in Nat
  OBVIOUS
<1>5. QED
  BY <1>2, <1>3, <1>4

LEMMA DigitsApart ==
  ASSUME NEW S \in Nat \ {0}, NEW a \in Nat, NEW p \in 0..(S - 1)
  PROVE  (a * S + p) \div S = a /\ (a * S + p) % S = p
OBVIOUS

-----------------------------------------------------------------------------
(* The layout of an id.                                                     *)

LEMMA TimeField ==
  ASSUME NEW ts \in Times, Epoch <= FirstTime
  PROVE  (ts - Epoch) % TimeSize = ts - Epoch /\ ts - Epoch \in Nat
<1>1. ts - Epoch \in 0..(TimeSize - 1)
  BY ClockAssumption, LayoutAssumption DEF Times
<1>2. QED
  BY <1>1, LayoutAssumption

LEMMA JoinValue ==
  ASSUME NEW ts \in Times, NEW n \in 0..(SeqSize - 1), Epoch <= FirstTime
  PROVE  /\ Join(ts, n) = ((ts - Epoch) * NodeSize + Node) * SeqSize + n
         /\ (ts - Epoch) * NodeSize + Node \in Nat
         /\ Join(ts, n) \in Nat
<1>1. (ts - Epoch) % TimeSize = ts - Epoch /\ ts - Epoch \in Nat
  BY TimeField
<1>2. (ts - Epoch) * NodeSize \in Nat
  BY <1>1, LayoutAssumption, TimesNat
<1>3. (ts - Epoch) * NodeSize + Node \in Nat
  BY <1>2, LayoutAssumption
<1>4. ((ts - Epoch) * NodeSize + Node) * SeqSize \in Nat
  BY <1>3, LayoutAssumption, TimesNat
<1>5. QED
  BY <1>1, <1>3, <1>4, LayoutAssumption DEF Join

\* Ids made of a later time are larger, whatever their sequence numbers.
LEMMA LaterIsLarger ==
  ASSUME NEW a \in Times, NEW b \in Times, a < b, Epoch <= FirstTime,
         NEW m \in 0..(SeqSize - 1), NEW n \in 0..(SeqSize - 1)
  PROVE  Join(a, m) < Join(b, n)
<1> DEFINE hi(ts) == (ts - Epoch) * NodeSize + Node
<1>1. a - Epoch \in Nat /\ b - Epoch \in Nat /\ a - Epoch < b - Epoch
  BY TimeField, ClockAssumption DEF Times
<1>2. hi(a) < hi(b)
  BY <1>1, LayoutAssumption, DigitOrder
<1>3. hi(a) \in Nat /\ hi(b) \in Nat
  BY JoinValue
<1>4. Join(a, m) = hi(a) * SeqSize + m /\ Join(b, n) = hi(b) * SeqSize + n
  BY JoinValue
<1> HIDE DEF hi
<1>5. hi(a) * SeqSize + m < hi(b) * SeqSize + n
  BY <1>2, <1>3, LayoutAssumption, DigitOrder
<1>6. QED
  BY <1>4, <1>5

LEMMA LargerNumber ==
  ASSUME NEW ts \in Times, Epoch <= FirstTime,
         NEW m \in 0..(SeqSize - 1), NEW n \in 0..(SeqSize - 1), m < n
  PROVE  Join(ts, m) < Join(ts, n)
<1> DEFINE h == ((ts - Epoch) * NodeSize + Node) * SeqSize
<1>1. Join(ts, m) = h + m /\ Join(ts, n) = h + n
  BY JoinValue
<1>2. h \in Nat
  BY JoinValue, LayoutAssumption, TimesNat
<1>3. QED
  BY <1>1, <1>2, LayoutAssumption

LEMMA DecodeJoin ==
  ASSUME NEW ts \in Times, NEW n \in 0..(SeqSize - 1), Epoch <= FirstTime
  PROVE  Decode(Join(ts, n)) = [sequence |-> n, node_id |-> Node, timestamp_ms |-> ts]
<1> DEFINE d == ts - Epoch
           h == d * NodeSize + Node
           k == SeqSize * NodeSize
<1>1. d \in Nat /\ h \in Nat /\ Join(ts, n) = h * SeqSize + n
  BY TimeField, JoinValue
<1>2. k \in Nat \ {0} /\ Node * SeqSize + n \in 0..(k - 1)
  <2>1. k \in Nat \ {0}
    BY LayoutAssumption
  <2>2. Node * SeqSize + n \in Nat
    BY LayoutAssumption, TimesNat
  <2>3. Node < NodeSize
    BY LayoutAssumption
  <2>4. Node * SeqSize + n < NodeSize * SeqSize + 0
    BY <2>3, LayoutAssumption, DigitOrder
  <2>5. QED
    BY <2>1, <2>2, <2>4, LayoutAssumption
<1>3. h * SeqSize + n = d * k + (Node * SeqSize + n)
  BY <1>1, LayoutAssumption
<1>4. h % NodeSize = Node
  BY <1>1, LayoutAssumption, DigitsApart DEF h
<1>5. (h * SeqSize + n) % SeqSize = n /\ (h * SeqSize + n) \div SeqSize = h
  BY <1>1, LayoutAssumption, DigitsApart
<1>6. (d * k + (Node * SeqSize + n)) \div k = d
  BY <1>1, <1>2, DigitsApart
<1>7. d + Epoch = ts
  BY ClockAssumption DEF d, Times
<1>8. QED
  BY <1>1, <1>3, <1>5, <1>4, <1>6, <1>7 DEF Decode, k

-----------------------------------------------------------------------------
(* The invariant.  Increasing needs that no id this process issued is above *)
(* the generator's own (last_ts_ms, seq): the next id is made of more.      *)

MadeOf ==
  \A i \in 1..Len(issued) : issued[i].uid = Join(issued[i].ts, issued[i].n)

\* The largest pair (time, number) this process used is the generator's state.
Reached ==
  \A i \in (earlier + 1)..Len(issued) :
    \/ issued[i].ts < last_ts_ms
    \/ issued[i].ts = last_ts_ms /\ issued[i].n <= seq

\* A thread at the mutex has read the clock.
HasRead == \A t \in Callers : pc[t] = "lock" => now[t] \in Times

TypeInv == TypeOK /\ MadeOf /\ HasRead
OrderInv == TypeInv /\ Reached /\ Increasing

\* What an id returned by Issue adds.
LEMMA Appended ==
  ASSUME NEW q \in Seq(IssuedIds), NEW e \in IssuedIds
  PROVE  /\ Append(q, e) \in Seq(IssuedIds)
         /\ Len(Append(q, e)) = Len(q) + 1 /\ Len(q) \in Nat
         /\ Append(q, e)[Len(q) + 1] = e
         /\ \A i \in 1..Len(q) : Append(q, e)[i] = q[i]
         /\ \A i \in 1..Len(Append(q, e)) : i \in 1..Len(q) \/ i = Len(q) + 1
OBVIOUS

LEMMA IssueKeepsTypes ==
  ASSUME TypeInv, Epoch <= FirstTime, NEW t \in Callers, NEW ts \in Times,
         NEW n \in 0..(SeqSize - 1), Issue(t, ts, n)
  PROVE  /\ issued' \in Seq(IssuedIds) /\ MadeOf' /\ earlier \in 0..Len(issued')
         /\ pc' \in [Callers -> {"idle", "lock", "sleep"}]
<1> DEFINE e == [uid |-> Join(ts, n), ts |-> ts, n |-> n]
<1>1. issued' = issued \/ issued' = Append(issued, e)
  BY DEF Issue
<1>2. e \in IssuedIds
  BY JoinValue DEF IssuedIds
<1>3. issued \in Seq(IssuedIds)
  BY DEF TypeInv, TypeOK
<1>4. e.uid = Join(e.ts, e.n)
  OBVIOUS
<1> HIDE DEF e
<1>5. issued' \in Seq(IssuedIds) /\ MadeOf'
  <2>1. CASE issued' = issued
    BY <1>3, <2>1 DEF TypeInv, MadeOf, Join
  <2>2. CASE issued' = Append(issued, e)
    <3>1. \A i \in 1..Len(issued') : i \in 1..Len(issued) \/ i = Len(issued) + 1
      BY <1>2, <1>3, <2>2, Appended
    <3>2. \A i \in 1..Len(issued') : issued'[i].uid = Join(issued'[i].ts, issued'[i].n)
      BY <1>2, <1>3, <1>4, <2>2, <3>1, Appended DEF TypeInv, MadeOf
    <3>3. QED
      BY <1>2, <1>3, <2>2, <3>2, Appended DEF MadeOf, Join
  <2>3. QED
    BY <1>1, <2>1, <2>2
<1>6. earlier \in 0..Len(issued')
  <2>1. earlier \in 0..Len(issued)
    BY DEF TypeInv, TypeOK
  <2>2. Len(issued') = Len(issued) \/ Len(issued') = Len(issued) + 1
    BY <1>1, <1>2, <1>3, Appended
  <2>3. QED
    BY <1>3, <2>1, <2>2
<1>7. QED
  BY <1>5, <1>6 DEF Issue, TypeInv, TypeOK

LEMMA TypeStep ==
  ASSUME TypeInv, Epoch <= FirstTime, [Next]_vars
  PROVE  TypeInv'
<1> USE ClockAssumption, LayoutAssumption
<1>1. CASE UNCHANGED vars
  BY <1>1 DEF vars, TypeInv, TypeOK, MadeOf, Join, HasRead
<1>2. CASE Tick
  BY <1>2 DEF Tick, TypeInv, TypeOK, MadeOf, Join, HasRead, Times
<1>3. CASE SetBack
  BY <1>3 DEF SetBack, TypeInv, TypeOK, MadeOf, Join, HasRead
<1>4. CASE Restart
  BY <1>4 DEF Restart, TypeInv, TypeOK, MadeOf, Join, HasRead
<1>5. ASSUME NEW t \in Callers, CallerNext(t)
      PROVE  TypeInv'
  <2>1. CASE ReadClock(t)
    BY <2>1 DEF ReadClock, TypeInv, TypeOK, MadeOf, Join, HasRead
  <2>2. CASE Waits(t)
    BY <2>2 DEF Waits, TypeInv, TypeOK, MadeOf, Join, HasRead
  <2>3. CASE SameMillisecond(t)
    <3>1. seq + 1 \in 0..(SeqSize - 1) /\ now[t] \in Times
      BY <2>3 DEF SameMillisecond, SequenceFull, TypeInv, TypeOK, HasRead
    <3>2. /\ issued' \in Seq(IssuedIds) /\ MadeOf' /\ earlier \in 0..Len(issued')
          /\ pc' \in [Callers -> {"idle", "lock", "sleep"}]
      BY <2>3, <3>1, IssueKeepsTypes DEF SameMillisecond
    <3>3. HasRead'
      BY <2>3 DEF SameMillisecond, Issue, TypeInv, TypeOK, HasRead
    <3>4. QED
      BY <2>3, <3>1, <3>2, <3>3 DEF SameMillisecond, TypeInv, TypeOK
  <2>4. CASE NewMillisecond(t)
    <3>1. now[t] \in Times /\ 0 \in 0..(SeqSize - 1)
      BY <2>4 DEF NewMillisecond, TypeInv, HasRead
    <3>2. /\ issued' \in Seq(IssuedIds) /\ MadeOf' /\ earlier \in 0..Len(issued')
          /\ pc' \in [Callers -> {"idle", "lock", "sleep"}]
      BY <2>4, <3>1, IssueKeepsTypes DEF NewMillisecond
    <3>3. HasRead'
      BY <2>4 DEF NewMillisecond, Issue, TypeInv, TypeOK, HasRead
    <3>4. QED
      BY <2>4, <3>1, <3>2, <3>3 DEF NewMillisecond, TypeInv, TypeOK
  <2>5. QED
    BY <1>5, <2>1, <2>2, <2>3, <2>4 DEF CallerNext
<1>6. QED
  BY <1>1, <1>2, <1>3, <1>4, <1>5 DEF Next

\* A new id above everything reached keeps the order.
LEMMA IssueKeepsOrder ==
  ASSUME OrderInv, Epoch <= FirstTime, NEW t \in Callers, NEW ts \in Times,
         NEW n \in 0..(SeqSize - 1), Issue(t, ts, n),
         last_ts_ms' = ts, seq' = n, earlier' = earlier,
         last_ts_ms < ts \/ (last_ts_ms = ts /\ seq < n)
  PROVE  Reached' /\ Increasing'
<1> DEFINE e == [uid |-> Join(ts, n), ts |-> ts, n |-> n]
<1>1. issued' = issued \/ issued' = Append(issued, e)
  BY DEF Issue
<1>2. e \in IssuedIds /\ e.uid = Join(ts, n) /\ e.ts = ts /\ e.n = n
  BY JoinValue DEF IssuedIds
<1>3. /\ issued \in Seq(IssuedIds) /\ last_ts_ms \in Int /\ seq \in 0..(SeqSize - 1)
      /\ Len(issued) \in Nat /\ earlier \in 0..Len(issued)
  BY ClockAssumption DEF OrderInv, TypeInv, TypeOK, Times
<1>4. \A i \in 1..Len(issued) : issued[i] \in IssuedIds
  BY <1>3
<1>5. ASSUME NEW i \in (earlier + 1)..Len(issued)
      PROVE  /\ issued[i].ts < ts \/ (issued[i].ts = ts /\ issued[i].n <= n)
             /\ issued[i].uid < Join(ts, n)
  <2>0. i \in 1..Len(issued)
    BY <1>3
  <2>1. /\ issued[i].ts \in Times /\ issued[i].n \in 0..(SeqSize - 1)
        /\ issued[i].uid = Join(issued[i].ts, issued[i].n)
    BY <2>0, <1>4 DEF OrderInv, TypeInv, MadeOf, IssuedIds
  <2>2. issued[i].ts < last_ts_ms \/ (issued[i].ts = last_ts_ms /\ issued[i].n <= seq)
    BY DEF OrderInv, Reached
  <2>3. issued[i].ts < ts \/ (issued[i].ts = ts /\ issued[i].n < n)
    BY <1>3, <2>1, <2>2, ClockAssumption, LayoutAssumption DEF Times
  <2>4. issued[i].n < n => issued[i].n <= n
    BY <2>1, LayoutAssumption
  <2>5. QED
    BY <2>1, <2>3, <2>4, LaterIsLarger, LargerNumber
<1> HIDE DEF e
<1>6. CASE issued' = issued
  <2>1. Reached'
    BY <1>5, <1>6 DEF Reached
  <2>2. QED
    BY <1>6, <2>1 DEF OrderInv, Increasing
<1>7. CASE issued' = Append(issued, e)
  <2>1. /\ issued'[Len(issued) + 1] = e
        /\ \A i \in 1..Len(issued) : issued'[i] = issued[i]
        /\ \A i \in 1..Len(issued') : i \in 1..Len(issued) \/ i = Len(issued) + 1
        /\ Len(issued') = Len(issued) + 1
    BY <1>2, <1>3, <1>7, Appended
  <2>a. ASSUME NEW i \in (earlier' + 1)..Len(issued')
        PROVE  \/ i \in (earlier + 1)..Len(issued) /\ issued'[i] = issued[i]
               \/ i = Len(issued) + 1
    BY <1>3, <2>1
  <2>2. Reached'
    <3>1. issued'[Len(issued) + 1].ts = last_ts_ms' /\ issued'[Len(issued) + 1].n <= seq'
      BY <1>2, <2>1, LayoutAssumption
    <3>2. QED
      BY <1>5, <2>1, <2>a, <3>1 DEF Reached
  <2>3. ASSUME NEW i \in (earlier' + 1)..Len(issued'),
               NEW j \in (earlier' + 1)..Len(issued'), i < j
        PROVE  issued'[i].uid < issued'[j].uid
    <3>1. i \in (earlier + 1)..Len(issued)
      BY <1>3, <2>1, <2>3
    <3>2. CASE j \in (earlier + 1)..Len(issued)
      <4>1. issued'[i] = issued[i] /\ issued'[j] = issued[j]
        BY <1>3, <2>1, <3>1, <3>2
      <4>2. QED
        BY <2>3, <3>1, <3>2, <4>1 DEF OrderInv, Increasing
    <3>3. CASE j = Len(issued) + 1
      <4>1. issued'[i] = issued[i]
        BY <1>3, <2>1, <3>1
      <4>2. QED
        BY <1>2, <1>5, <2>1, <3>1, <3>3, <4>1
    <3>4. QED
      BY <2>a, <3>2, <3>3
  <2>4. QED
    BY <2>2, <2>3 DEF Increasing
<1>8. QED
  BY <1>1, <1>6, <1>7

LEMMA OrderStep ==
  ASSUME OrderInv, Epoch <= FirstTime, [Next]_vars
  PROVE  OrderInv'
<1>1. TypeInv'
  BY TypeStep DEF OrderInv
<1>2. ASSUME UNCHANGED <<issued, last_ts_ms, seq, earlier>> PROVE Reached' /\ Increasing'
  BY <1>2 DEF OrderInv, Reached, Increasing
<1>3. CASE UNCHANGED vars \/ Tick \/ SetBack
  <2>1. UNCHANGED <<issued, last_ts_ms, seq, earlier>>
    BY <1>3 DEF vars, Tick, SetBack
  <2>2. QED
    BY <1>1, <1>2, <2>1 DEF OrderInv
<1>4. CASE Restart
  <2>1. earlier' = Len(issued') /\ Len(issued') \in Nat
    BY <1>4 DEF Restart, OrderInv, TypeInv, TypeOK
  <2>2. (earlier' + 1)..Len(issued') = {}
    BY <2>1
  <2>3. QED
    BY <2>2, <1>1 DEF OrderInv, Reached, Increasing
<1>5. ASSUME NEW t \in Callers, CallerNext(t)
      PROVE  Reached' /\ Increasing'
  <2>1. CASE ReadClock(t) \/ Waits(t)
    BY <1>2, <2>1 DEF ReadClock, Waits
  <2>2. CASE SameMillisecond(t)
    <3>1. /\ now[t] \in Times /\ now[t] = last_ts_ms /\ last_ts_ms' = last_ts_ms
          /\ earlier' = earlier
          /\ seq \in 0..(SeqSize - 1) /\ seq' = seq + 1 /\ seq # SeqSize - 1
          /\ Issue(t, now[t], seq + 1)
      BY <2>2 DEF SameMillisecond, SequenceFull, OrderInv, TypeInv, TypeOK, HasRead
    <3>2. seq + 1 \in 0..(SeqSize - 1) /\ seq < seq + 1
      BY <3>1, LayoutAssumption
    <3>3. QED
      BY <3>1, <3>2, IssueKeepsOrder
  <2>3. CASE NewMillisecond(t)
    <3>1. /\ now[t] \in Times /\ ~(now[t] < last_ts_ms) /\ now[t] # last_ts_ms
          /\ last_ts_ms \in Times \cup {0} /\ last_ts_ms' = now[t] /\ seq' = 0
          /\ Issue(t, now[t], 0) /\ earlier' = earlier
      BY <2>3 DEF NewMillisecond, Overtaken, OrderInv, TypeInv, TypeOK, HasRead
    <3>2. last_ts_ms < now[t] /\ 0 \in 0..(SeqSize - 1)
      BY <3>1, ClockAssumption, LayoutAssumption DEF Times
    <3>3. QED
      BY <3>1, <3>2, IssueKeepsOrder
  <2>4. QED
    BY <1>5, <2>1, <2>2, <2>3 DEF CallerNext
<1>6. QED
  BY <1>1, <1>3, <1>4, <1>5 DEF Next, OrderInv

LEMMA Initially == Init => OrderInv
BY ClockAssumption, LayoutAssumption
   DEF Init, OrderInv, TypeInv, TypeOK, MadeOf, HasRead, Reached, Increasing

-----------------------------------------------------------------------------

\* Every variable keeps its type; the sequence number never leaves its field
\* (UidGenerator::Next).
THEOREM TypeCorrect ==
  ASSUME Epoch <= FirstTime
  PROVE  Spec => []TypeOK
<1>1. Init => TypeInv
  BY Initially DEF OrderInv
<1>2. TypeInv /\ [Next]_vars => TypeInv'
  BY TypeStep
<1>3. TypeInv => TypeOK
  BY DEF TypeInv
<1>4. QED
  BY <1>1, <1>2, <1>3, PTL DEF Spec

\* Every process whose clock is past the epoch issues strictly increasing ids,
\* whatever its threads do and however often the clock is set back.
THEOREM IdsIncrease ==
  ASSUME Epoch <= FirstTime
  PROVE  Spec => []Increasing
<1>1. OrderInv /\ [Next]_vars => OrderInv'
  BY OrderStep
<1>2. OrderInv => Increasing
  BY DEF OrderInv
<1>3. QED
  BY <1>1, <1>2, Initially, PTL DEF Spec

\* Decode is the inverse of the layout for every id issued by a clock past the
\* epoch, over restarts too.
THEOREM IdsDecode ==
  ASSUME Epoch <= FirstTime
  PROVE  Spec => []DecodesBack
<1>1. Init => TypeInv
  BY Initially DEF OrderInv
<1>2. TypeInv /\ [Next]_vars => TypeInv'
  BY TypeStep
<1>3. TypeInv => DecodesBack
  <2>1. SUFFICES ASSUME TypeInv, NEW i \in 1..Len(issued)
                 PROVE  Decode(issued[i].uid) =
                          [sequence |-> issued[i].n, node_id |-> Node,
                           timestamp_ms |-> issued[i].ts]
    BY DEF DecodesBack
  <2>2. issued[i] \in IssuedIds /\ issued[i].uid = Join(issued[i].ts, issued[i].n)
    <3>1. issued \in Seq(IssuedIds)
      BY <2>1 DEF TypeInv, TypeOK
    <3>2. QED
      BY <2>1, <3>1 DEF TypeInv, MadeOf
  <2>3. issued[i].ts \in Times /\ issued[i].n \in 0..(SeqSize - 1)
    BY <2>2 DEF IssuedIds
  <2>4. QED
    BY <2>2, <2>3, DecodeJoin
<1>4. QED
  BY <1>1, <1>2, <1>3, PTL DEF Spec
=============================================================================
