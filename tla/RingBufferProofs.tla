-------------------------- MODULE RingBufferProofs --------------------------
(***************************************************************************)
(* RingBuffer implements ByteQueue for every capacity and every input.     *)
(* Cell(i) is where the i-th stored byte lies; each operation is shown to  *)
(* do to the sequence of these cells what the queue does to its contents.  *)
(* The same for the older engine's ring, NetRingBuffer.  On these lemmas   *)
(* rest the theorems on packets (RecvRing): the ring always holds the part *)
(* of the wire between the last packet popped and the last byte delivered. *)
(***************************************************************************)
EXTENDS NetRingBuffer, RecvRing, FiniteSetTheorems, SequenceTheorems,
        WellFoundedInduction, TLAPS

LEMMA ModOnce ==
  ASSUME NEW x \in 0..(2 * Capacity - 1)
  PROVE  x % Capacity = IF x < Capacity THEN x ELSE x - Capacity
BY CapacityAssumption

\* The cell of the i-th byte.
Cell(i) == IF head + i <= Capacity THEN head + i - 1 ELSE head + i - 1 - Capacity

\* TypeOK with the remainder worked out.
LEMMA TailIs ==
  ASSUME TypeOK
  PROVE  tail = IF head + size < Capacity THEN head + size ELSE head + size - Capacity
<1> DEFINE x == head + size
<1>1. x \in 0..(2 * Capacity - 1) /\ tail = x % Capacity
  BY CapacityAssumption DEF TypeOK, Cells
<1>2. x % Capacity = IF x < Capacity THEN x ELSE x - Capacity
  <2> HIDE DEF x
  <2>1. QED
    BY <1>1, ModOnce
<1>3. QED
  BY <1>1, <1>2, CapacityAssumption DEF TypeOK, Cells

\* The positions as numbers, without the remainder.
Positions ==
  /\ Capacity \in Nat /\ head \in Nat /\ tail \in Nat /\ size \in Nat
  /\ head < Capacity /\ tail < Capacity /\ size <= Capacity
  /\ Cells = 0..(Capacity - 1)

LEMMA PositionsAre == TypeOK => Positions
BY CapacityAssumption DEF TypeOK, Cells, Positions

LEMMA CellRange ==
  ASSUME TypeOK, NEW i \in 1..Capacity
  PROVE  Cell(i) \in Cells
BY CapacityAssumption DEF TypeOK, Cells, Cell

LEMMA SeqOf ==
  ASSUME NEW n \in Nat, NEW f \in [1..n -> Bytes]
  PROVE  f \in Seq(Bytes) /\ Len(f) = n
OBVIOUS

\* read and peek copy the first n bytes.
LEMMA FetchedIs ==
  ASSUME TypeOK, NEW n \in 0..size
  PROVE  /\ Fetched(n) \in Seq(Bytes)
         /\ Len(Fetched(n)) = n
         /\ \A i \in 1..n : Fetched(n)[i] = buf[Cell(i)]
<1>1. \A i \in 1..n : Fetched(n)[i] = buf[Cell(i)]
  BY CapacityAssumption DEF Fetched, Fewer, Cell, TypeOK, Cells
<1>2. \A i \in 1..n : Fetched(n)[i] \in Bytes
  <2>1. \A i \in 1..n : i \in 1..Capacity
    BY CapacityAssumption DEF TypeOK
  <2>2. \A i \in 1..n : buf[Cell(i)] \in Bytes
    BY <2>1, CellRange DEF TypeOK
  <2>3. QED
    BY <1>1, <2>2
<1>3. Fetched(n) \in [1..n -> Bytes]
  BY <1>2 DEF Fetched
<1>4. n \in Nat
  BY DEF TypeOK
<1>5. QED
  BY <1>1, <1>2, <1>3, <1>4, SeqOf

\* The two segments are the bytes in order.
InOrder ==
  /\ Contents \in Seq(Bytes)
  /\ Len(Contents) = size
  /\ \A i \in 1..size : Contents[i] = buf[Cell(i)]

LEMMA ContentsIs == TypeOK => InOrder
<1> SUFFICES ASSUME TypeOK PROVE InOrder
  OBVIOUS
<1> DEFINE m == Fewer(size, Capacity - head)
<1>1. m \in 0..size /\ size - m \in Nat /\ (m = size \/ m = Capacity - head)
  BY CapacityAssumption DEF TypeOK, Cells, Fewer
<1>2. FirstSegment = [i \in 1..m |-> buf[head + i - 1]]
      /\ SecondSegment = [i \in 1..(size - m) |-> buf[i - 1]]
  BY DEF FirstSegment, SecondSegment
<1>3. /\ \A i \in 1..m : head + i - 1 \in Cells /\ head + i - 1 = Cell(i)
      /\ \A i \in 1..(size - m) : i - 1 \in Cells /\ i - 1 = Cell(m + i)
  BY CapacityAssumption DEF TypeOK, Cells, Fewer, Cell
<1> HIDE DEF m
<1>4. FirstSegment \in Seq(Bytes) /\ Len(FirstSegment) = m
  <2>1. FirstSegment \in [1..m -> Bytes]
    BY <1>2, <1>3 DEF TypeOK
  <2>2. QED
    BY <1>1, <2>1, SeqOf DEF TypeOK
<1>5. SecondSegment \in Seq(Bytes) /\ Len(SecondSegment) = size - m
  <2>1. SecondSegment \in [1..(size - m) -> Bytes]
    BY <1>2, <1>3 DEF TypeOK
  <2>2. QED
    BY <1>1, <2>1, SeqOf
<1>6. /\ Contents \in Seq(Bytes)
      /\ Len(Contents) = m + (size - m)
      /\ \A i \in 1..(m + (size - m)) :
           Contents[i] = IF i <= m THEN FirstSegment[i] ELSE SecondSegment[i - m]
  <2> DEFINE a == FirstSegment
             b == SecondSegment
  <2>1. a \in Seq(Bytes) /\ b \in Seq(Bytes) /\ Len(a) = m /\ Len(b) = size - m
    BY <1>4, <1>5
  <2>2. Contents = a \o b
    BY DEF Contents
  <2> HIDE DEF a, b
  <2>3. /\ a \o b \in Seq(Bytes) /\ Len(a \o b) = Len(a) + Len(b)
        /\ \A i \in 1..(Len(a) + Len(b)) : (a \o b)[i] = IF i <= Len(a) THEN a[i] ELSE b[i - Len(a)]
    BY <2>1, ConcatProperties
  <2>4. QED
    BY <2>1, <2>2, <2>3 DEF a, b
<1>7. m + (size - m) = size /\ size \in Nat
  BY <1>1 DEF TypeOK
<1>8. ASSUME NEW i \in 1..size PROVE Contents[i] = buf[Cell(i)]
  <2>1. CASE i <= m
    <3>1. i \in 1..m
      BY <1>1, <1>7, <2>1
    <3>2. FirstSegment[i] = buf[Cell(i)]
      BY <1>2, <1>3, <3>1
    <3>3. QED
      BY <1>6, <1>7, <2>1, <3>2
  <2>2. CASE ~(i <= m)
    <3>1. i - m \in 1..(size - m) /\ m + (i - m) = i
      BY <1>1, <1>7, <2>2
    <3>2. SecondSegment[i - m] = buf[Cell(i)]
      BY <1>2, <1>3, <3>1
    <3>3. QED
      BY <1>6, <1>7, <2>2, <3>2
  <2>3. QED
    BY <2>1, <2>2
<1>9. QED
  BY <1>6, <1>7, <1>8 DEF InOrder

\* The same of the next state.
LEMMA ContentsIsNext == TypeOK' => InOrder'
BY ContentsIs, PTL

LEMMA FetchedIsPrefix ==
  ASSUME TypeOK, NEW n \in 0..size
  PROVE  Fetched(n) = SubSeq(Contents, 1, n)
<1>1. /\ Contents \in Seq(Bytes) /\ Len(Contents) = size
      /\ \A i \in 1..n : Contents[i] = buf[Cell(i)] /\ Contents[i] \in Bytes
  BY ContentsIs DEF TypeOK, InOrder
<1>2. n \in Nat
  BY DEF TypeOK
<1>3. /\ SubSeq(Contents, 1, n) \in Seq(Bytes)
      /\ Len(SubSeq(Contents, 1, n)) = n
      /\ \A i \in 1..n : SubSeq(Contents, 1, n)[i] = Contents[i]
  BY <1>1, <1>2, SubSeqProperties
<1>4. QED
  BY <1>1, <1>2, <1>3, FetchedIs, SeqEqual

-----------------------------------------------------------------------------
(* The operations.                                                          *)

\* write: the stored bytes stay, the new ones follow.
LEMMA WriteRingStep ==
  ASSUME TypeOK, NEW d \in Seq(Bytes), WriteRing(d), moved' \in Seq(Bytes)
  PROVE  TypeOK' /\ Contents' = Contents \o SubSeq(d, 1, Fewer(Len(d), FreeSpace))
<1> DEFINE n == Fewer(Len(d), FreeSpace)
           first == Fewer(n, Capacity - tail)
<1>1. /\ n \in 0..Len(d) /\ n <= Capacity - size /\ first \in 0..n
      /\ first <= Capacity - tail
      /\ first = n \/ (first = Capacity - tail /\ first < n)
      /\ Len(d) \in Nat
  <2>1. Positions /\ Len(d) \in Nat
    BY PositionsAre
  <2>2. n \in Int /\ n <= Len(d) /\ n <= Capacity - size /\ (n = Len(d) \/ n = Capacity - size)
    BY <2>1 DEF Fewer, FreeSpace, Positions
  <2> HIDE DEF n
  <2>3. /\ first \in Int /\ first <= n /\ first <= Capacity - tail
        /\ first = n \/ (first = Capacity - tail /\ first < n)
    BY <2>1, <2>2 DEF Fewer, Positions
  <2>4. QED
    BY <2>1, <2>2, <2>3 DEF Positions
<1>2. /\ buf' = [j \in Cells |-> IF tail <= j /\ j < tail + first THEN d[j - tail + 1]
                                 ELSE IF j < n - first THEN d[first + j + 1]
                                 ELSE buf[j]]
      /\ tail' = (tail + n) % Capacity
      /\ size' = size + n /\ head' = head
  BY DEF WriteRing, Stored
<1>3. tail = IF head + size < Capacity THEN head + size ELSE head + size - Capacity
  BY TailIs
<1> HIDE DEF n, first
<1>4. buf' \in [Cells -> Bytes]
  <2>1. ASSUME NEW j \in Cells, tail <= j, j < tail + first PROVE d[j - tail + 1] \in Bytes
    <3>1. j - tail + 1 \in 1..Len(d)
      BY <1>1, <2>1, CapacityAssumption DEF TypeOK, Cells
    <3>2. QED
      BY <3>1
  <2>2. ASSUME NEW j \in Cells, j < n - first PROVE d[first + j + 1] \in Bytes
    <3>1. first + j + 1 \in 1..Len(d)
      BY <1>1, <2>2, CapacityAssumption DEF TypeOK, Cells
    <3>2. QED
      BY <3>1
  <2>3. QED
    BY <1>2, <2>1, <2>2 DEF TypeOK
<1>5. TypeOK'
  <2> DEFINE x == tail + n
             y == head + size + n
  <2>1. x \in 0..(2 * Capacity - 1) /\ y \in 0..(2 * Capacity - 1)
        /\ size + n \in 0..Capacity
    BY <1>1, CapacityAssumption DEF TypeOK, Cells
  <2>2. tail' = x % Capacity /\ head' + size' = y
    BY <1>1, <1>2 DEF TypeOK, Cells
  <2>3. (x < Capacity /\ y < Capacity /\ x = y) \/ (x < Capacity /\ y >= Capacity /\ x = y - Capacity)
        \/ (x >= Capacity /\ y >= Capacity /\ x = y)
    <3>1. Positions /\ n \in Nat
      BY <1>1, PositionsAre
    <3>2. QED
      BY <1>1, <1>3, <3>1 DEF Positions
  <2> HIDE DEF x, y
  <2>4. /\ x % Capacity = IF x < Capacity THEN x ELSE x - Capacity
        /\ y % Capacity = IF y < Capacity THEN y ELSE y - Capacity
    BY <2>1, ModOnce
  <2>5. x % Capacity = y % Capacity /\ x % Capacity \in Cells
    BY <2>1, <2>3, <2>4, CapacityAssumption DEF Cells
  <2>6. QED
    BY <1>2, <1>4, <2>1, <2>2, <2>5 DEF TypeOK
<1>6. /\ Contents \in Seq(Bytes) /\ Len(Contents) = size
      /\ \A i \in 1..size : Contents[i] = buf[Cell(i)]
  BY ContentsIs DEF InOrder
<1>7. /\ Contents' \in Seq(Bytes) /\ Len(Contents') = size + n
      /\ \A i \in 1..(size + n) : Contents'[i] = buf'[Cell(i)']
  BY <1>2, <1>5, ContentsIsNext DEF InOrder
<1>8. \A i \in 1..(size + n) : Cell(i)' = Cell(i)
  BY <1>2 DEF Cell
<1>8a. Positions /\ size + n \in Nat
  BY <1>1, PositionsAre DEF Positions
<1>9. \A i \in 1..size : buf'[Cell(i)] = buf[Cell(i)]
  <2>1. SUFFICES ASSUME NEW i \in 1..size
                 PROVE  ~(tail <= Cell(i) /\ Cell(i) < tail + first) /\ ~(Cell(i) < n - first)
                        /\ Cell(i) \in Cells
    BY <1>2
  <2>2. QED
    BY <1>1, <1>3, <1>8a DEF Cell, Positions
<1>10. \A i \in 1..n : buf'[Cell(size + i)] = d[i]
  <2>1. SUFFICES ASSUME NEW i \in 1..n PROVE buf'[Cell(size + i)] = d[i]
    OBVIOUS
  <2>2. CASE i <= first
    <3>1. Cell(size + i) = tail + i - 1
      BY <1>1, <1>3, <2>2, <1>8a DEF Cell, Positions
    <3>2. /\ tail <= Cell(size + i) /\ Cell(size + i) < tail + first
          /\ Cell(size + i) \in Cells /\ Cell(size + i) - tail + 1 = i
      BY <1>1, <2>2, <3>1, <1>8a DEF Positions
    <3>3. QED
      BY <1>2, <3>2
  <2>3. CASE ~(i <= first)
    <3>1. /\ ~(tail <= Cell(size + i)) /\ Cell(size + i) < n - first
          /\ Cell(size + i) \in Cells /\ first + Cell(size + i) + 1 = i
      BY <1>1, <1>3, <2>3, <1>8a DEF Cell, Positions
    <3>2. QED
      BY <1>2, <3>1
  <2>4. QED
    BY <2>2, <2>3
<1>11. /\ SubSeq(d, 1, n) \in Seq(Bytes) /\ Len(SubSeq(d, 1, n)) = n
       /\ \A i \in 1..n : SubSeq(d, 1, n)[i] = d[i]
  <2>1. n \in Int /\ n \in 0..Len(d) /\ \A i \in 1..n : d[i] \in Bytes
    BY <1>1
  <2>2. QED
    BY <2>1
<1>12. Contents' = Contents \o SubSeq(d, 1, n)
  <2> DEFINE e == SubSeq(d, 1, n)
             c == Contents
  <2>1. c \in Seq(Bytes) /\ e \in Seq(Bytes) /\ Len(c) = size /\ Len(e) = n
    BY <1>6, <1>11
  <2>2. /\ \A i \in 1..size : Contents'[i] = c[i]
        /\ \A i \in 1..n : Contents'[size + i] = e[i]
    <3>1. \A i \in 1..size : i \in 1..(size + n)
      BY <1>1 DEF TypeOK
    <3>2. \A i \in 1..n : size + i \in 1..(size + n)
      BY <1>1 DEF TypeOK
    <3>3. QED
      BY <1>6, <1>7, <1>8, <1>9, <1>10, <1>11, <3>1, <3>2
  <2>3. size \in Nat /\ n \in Nat
    BY <1>1 DEF TypeOK
  <2> HIDE DEF c, e
  <2>4. /\ c \o e \in Seq(Bytes) /\ Len(c \o e) = size + n
        /\ \A i \in 1..(size + n) : (c \o e)[i] = IF i <= size THEN c[i] ELSE e[i - size]
    BY <2>1, ConcatProperties
  <2>5. ASSUME NEW i \in 1..(size + n) PROVE Contents'[i] = (c \o e)[i]
    <3>1. CASE i <= size
      BY <2>2, <2>3, <2>4, <3>1
    <3>2. CASE ~(i <= size)
      <4>1. i - size \in 1..n /\ size + (i - size) = i
        BY <2>3, <3>2
      <4>2. Contents'[size + (i - size)] = e[i - size]
        BY <2>2, <4>1
      <4>3. QED
        BY <2>4, <3>2, <4>1, <4>2
    <3>3. QED
      BY <3>1, <3>2
  <2>6. Contents' = c \o e
    BY <1>7, <2>4, <2>5, SeqEqual
  <2>7. QED
    BY <2>6 DEF c, e
<1>13. QED
  BY <1>5, <1>12 DEF n

LEMMA WriteStep ==
  ASSUME TypeOK, NEW d \in Seq(Bytes), Write(d)
  PROVE  TypeOK' /\ Q!Write(d)
<1>1. WriteRing(d) /\ moved' = d
  BY DEF Write
<1>2. Len(Contents) = size
  BY ContentsIs DEF InOrder
<1>3. Fewer(Len(d), FreeSpace) = Q!Fewer(Len(d), Capacity - Len(Contents))
  BY <1>2 DEF Fewer, Q!Fewer, FreeSpace
<1>4. QED
  BY <1>1, <1>3, WriteRingStep DEF Q!Write

\* read and consume: what is left are the bytes after the first n.
LEMMA AdvanceStep ==
  ASSUME TypeOK, NEW n \in 1..size, Advance(n), moved' \in Seq(Bytes)
  PROVE  TypeOK' /\ Contents' = SubSeq(Contents, n + 1, size)
<1>1. /\ size' = size - n /\ buf' = buf
      /\ head' = (IF size = n THEN 0 ELSE (head + n) % Capacity)
      /\ tail' = (IF size = n THEN 0 ELSE tail)
  BY DEF Advance
<1>2. n \in Nat /\ size \in Nat /\ n >= 1 /\ n <= size
  BY DEF TypeOK
<1>3. head + n \in 0..(2 * Capacity - 1)
  BY <1>2, CapacityAssumption DEF TypeOK, Cells
<1>4. (head + n) % Capacity = IF head + n < Capacity THEN head + n ELSE head + n - Capacity
  <2> DEFINE x == head + n
  <2>1. x \in 0..(2 * Capacity - 1)
    BY <1>3
  <2> HIDE DEF x
  <2>2. x % Capacity = IF x < Capacity THEN x ELSE x - Capacity
    BY <2>1, ModOnce
  <2>3. QED
    BY <1>2, <2>2, CapacityAssumption DEF x, TypeOK, Cells
<1>5. /\ head' \in Cells /\ tail' \in Cells /\ size' \in 0..Capacity
      /\ size' = 0 => head' = 0 /\ tail' = 0
  BY <1>1, <1>2, <1>3, <1>4, CapacityAssumption DEF TypeOK, Cells
<1>6. tail' = (head' + size') % Capacity
  <2>1. CASE size = n
    BY <1>1, <1>2, <2>1, CapacityAssumption DEF TypeOK, Cells
  <2>2. CASE size # n
    <3> DEFINE y == head' + size'
               z == head + size
    <3>1. y \in 0..(2 * Capacity - 1) /\ z \in 0..(2 * Capacity - 1) /\ tail' = z % Capacity
      BY <1>1, <1>2, <1>5, <2>2, CapacityAssumption DEF TypeOK, Cells
    <3>2. y = z \/ (y = z - Capacity /\ z >= Capacity)
      <4>1. head' = (IF head + n < Capacity THEN head + n ELSE head + n - Capacity)
        BY <1>1, <1>4, <2>2
      <4>2. head \in Nat /\ Capacity \in Nat
        BY CapacityAssumption DEF TypeOK, Cells
      <4>3. QED
        BY <1>1, <1>2, <4>1, <4>2
    <3> HIDE DEF y, z
    <3>3. /\ y % Capacity = IF y < Capacity THEN y ELSE y - Capacity
          /\ z % Capacity = IF z < Capacity THEN z ELSE z - Capacity
      BY <3>1, ModOnce
    <3>4. y % Capacity = z % Capacity
      BY <3>1, <3>2, <3>3, CapacityAssumption
    <3>5. QED
      BY <3>1, <3>4 DEF y
  <2>3. QED
    BY <2>1, <2>2
<1>7. TypeOK'
  BY <1>1, <1>5, <1>6 DEF TypeOK
<1>8. /\ Contents \in Seq(Bytes) /\ Len(Contents) = size
      /\ \A i \in 1..size : Contents[i] = buf[Cell(i)]
  BY ContentsIs DEF InOrder
<1>9. /\ Contents' \in Seq(Bytes) /\ Len(Contents') = size - n
      /\ \A i \in 1..(size - n) : Contents'[i] = buf[Cell(i)']
  BY <1>1, <1>7, ContentsIsNext DEF InOrder
<1>10. ASSUME NEW i \in 1..(size - n) PROVE Cell(i)' = Cell(n + i) /\ n + i \in 1..size
  <2>1. size # n /\ head' = (IF head + n < Capacity THEN head + n ELSE head + n - Capacity)
    BY <1>1, <1>2, <1>4
  <2>2. QED
    BY <1>2, <2>1, CapacityAssumption DEF Cell, TypeOK, Cells
<1>11. /\ SubSeq(Contents, n + 1, size) \in Seq(Bytes)
       /\ Len(SubSeq(Contents, n + 1, size)) = size - n
       /\ \A i \in 1..(size - n) : SubSeq(Contents, n + 1, size)[i] = Contents[n + i]
  <2> DEFINE c == Contents
             m == n + 1
  <2>1. m \in Int /\ size \in Int /\ \A i \in m..size : c[i] \in Bytes
    <3>1. c \in Seq(Bytes) /\ Len(c) = size
      BY <1>8
    <3> HIDE DEF c
    <3>2. \A i \in m..size : i \in 1..Len(c)
      BY <1>2, <3>1
    <3>3. QED
      BY <1>2, <3>1, <3>2
  <2> HIDE DEF c, m
  <2>2. /\ SubSeq(c, m, size) \in Seq(Bytes)
        /\ Len(SubSeq(c, m, size)) = (IF m <= size THEN size - m + 1 ELSE 0)
        /\ \A i \in 1..(size - m + 1) : SubSeq(c, m, size)[i] = c[m + i - 1]
    BY <2>1, SubSeqProperties
  <2>3. size - m + 1 = size - n /\ (IF m <= size THEN size - m + 1 ELSE 0) = size - n
        /\ \A i \in 1..(size - n) : m + i - 1 = n + i
    BY <1>2 DEF m
  <2>4. QED
    BY <2>2, <2>3 DEF c, m
<1>12. Contents' = SubSeq(Contents, n + 1, size)
  <2> DEFINE c == Contents'
             e == SubSeq(Contents, n + 1, size)
  <2>1. ASSUME NEW i \in 1..(size - n) PROVE c[i] = e[i]
    <3>1. c[i] = buf[Cell(n + i)] /\ n + i \in 1..size
      BY <1>9, <1>10
    <3>2. QED
      BY <1>8, <1>11, <3>1
  <2>2. c \in Seq(Bytes) /\ e \in Seq(Bytes) /\ Len(c) = size - n /\ Len(e) = size - n
    BY <1>9, <1>11
  <2> HIDE DEF c, e
  <2>3. c = e
    BY <2>1, <2>2, SeqEqual
  <2>4. QED
    BY <2>3 DEF c, e
<1>13. QED
  BY <1>7, <1>12

\* read with len > 0.
LEMMA ReadStep ==
  ASSUME TypeOK, NEW k \in Lengths, ReadRing(k)
  PROVE  TypeOK' /\ Q!Read(k)
<1> DEFINE n == Fewer(k, size)
<1>1. n \in 0..size /\ k >= 1 /\ (size # 0 => n \in 1..size) /\ size \in Nat
  BY CapacityAssumption DEF Fewer, TypeOK, Lengths
<1>2. moved' = Fetched(n) /\ Len(Contents) = size /\ Contents \in Seq(Bytes)
  BY ContentsIs DEF ReadRing, InOrder
<1>3. n = Q!Fewer(k, Len(Contents))
  BY <1>2 DEF Fewer, Q!Fewer
<1>4. IF size = 0 THEN UNCHANGED ringVars ELSE Advance(n)
  BY DEF ReadRing
<1> HIDE DEF n
<1>5. moved' = SubSeq(Contents, 1, n) /\ moved' \in Seq(Bytes)
  BY <1>1, <1>2, FetchedIs, FetchedIsPrefix
<1>6. CASE size = 0
  <2>1. TypeOK' /\ Contents' = Contents
    BY <1>4, <1>5, <1>6 DEF TypeOK, ringVars, Contents, FirstSegment, SecondSegment
  <2>2. n = 0
    BY <1>1, <1>6
  <2>3. Contents = <<>> /\ SubSeq(Contents, 1, 0) = <<>>
    BY <1>2, <1>6
  <2>4. QED
    BY <1>2, <1>3, <1>5, <1>6, <2>1, <2>2, <2>3 DEF Q!Read, Q!Drop
<1>7. CASE size # 0
  BY <1>1, <1>2, <1>3, <1>4, <1>5, <1>7, AdvanceStep DEF Q!Read, Q!Drop
<1>8. QED
  BY <1>6, <1>7

LEMMA PeekStep ==
  ASSUME TypeOK, NEW k \in Lengths, Peek(k)
  PROVE  TypeOK' /\ Q!Peek(k)
<1> DEFINE n == Fewer(k, size)
<1>1. n \in 0..size
  BY CapacityAssumption DEF Fewer, TypeOK, Lengths
<1>2. moved' = Fetched(n) /\ UNCHANGED ringVars /\ Len(Contents) = size
  BY ContentsIs DEF Peek, InOrder
<1>3. n = Q!Fewer(k, Len(Contents))
  BY <1>2 DEF Fewer, Q!Fewer
<1> HIDE DEF n
<1>4. moved' = SubSeq(Contents, 1, n) /\ moved' \in Seq(Bytes)
  BY <1>1, <1>2, FetchedIs, FetchedIsPrefix
<1>5. TypeOK' /\ Contents' = Contents
  BY <1>2, <1>4 DEF TypeOK, ringVars, Contents, FirstSegment, SecondSegment
<1>6. QED
  BY <1>3, <1>4, <1>5 DEF Q!Peek

LEMMA ConsumeStep ==
  ASSUME TypeOK, NEW k \in Lengths, Consume(k)
  PROVE  TypeOK' /\ Q!Consume(k)
<1> DEFINE n == Fewer(k, size)
<1>1. Advance(n) /\ moved' = moved /\ n \in 1..size /\ moved \in Seq(Bytes)
  BY CapacityAssumption DEF Consume, Fewer, TypeOK, Lengths
<1>2. n = Q!Fewer(k, Len(Contents)) /\ Len(Contents) = size
  BY ContentsIs DEF Fewer, Q!Fewer, InOrder
<1> HIDE DEF n
<1>3. QED
  BY <1>1, <1>2, AdvanceStep DEF Q!Consume, Q!Drop

\* A ring whose positions are all 0 is the empty queue.
LEMMA EmptyRing ==
  ASSUME head = 0, tail = 0, size = 0, buf \in [Cells -> Bytes], moved \in Seq(Bytes)
  PROVE  TypeOK /\ Contents = <<>>
<1>1. TypeOK
  BY CapacityAssumption DEF TypeOK, Cells
<1>2. QED
  BY <1>1, ContentsIs DEF InOrder

-----------------------------------------------------------------------------
(* The theorems.                                                            *)

LEMMA Initially == Init => TypeOK /\ Q!Init
<1> SUFFICES ASSUME Init PROVE TypeOK /\ Q!Init
  OBVIOUS
<1>1. /\ head = 0 /\ tail = 0 /\ size = 0 /\ buf \in [Cells -> Bytes] /\ moved = <<>>
      /\ moved \in Seq(Bytes)
  BY DEF Init
<1>2. QED
  BY <1>1, EmptyRing DEF Q!Init

\* Every step of the ring is a step of the queue, and keeps the types.
LEMMA Step == TypeOK /\ [Next]_vars => TypeOK' /\ [Q!Next]_(Q!queueVars)
<1> SUFFICES ASSUME TypeOK, [Next]_vars PROVE TypeOK' /\ [Q!Next]_(Q!queueVars)
  OBVIOUS
<1>1. ASSUME NEW d \in Inputs, Write(d) PROVE TypeOK' /\ Q!Next
  <2>1. d \in Seq(Bytes)
    BY InputsAssumption
  <2>2. QED
    BY <1>1, <2>1, WriteStep DEF Q!Next
<1>2. ASSUME NEW n \in Lengths, ReadRing(n) PROVE TypeOK' /\ Q!Next
  BY <1>2, ReadStep DEF Q!Next, Lengths
<1>3. ASSUME NEW n \in Lengths, Peek(n) PROVE TypeOK' /\ Q!Next
  BY <1>3, PeekStep DEF Q!Next, Lengths
<1>4. ASSUME NEW n \in Lengths, Consume(n) PROVE TypeOK' /\ Q!Next
  BY <1>4, ConsumeStep DEF Q!Next, Lengths
<1>5. CASE Clear
  <2>1. /\ head' = 0 /\ tail' = 0 /\ size' = 0 /\ buf' \in [Cells -> Bytes]
        /\ moved' = moved /\ moved' \in Seq(Bytes)
    BY <1>5 DEF Clear, ClearRing, TypeOK
  <2>2. TypeOK'
    BY <2>1, CapacityAssumption DEF TypeOK, Cells
  <2>3. Contents' = <<>>
    BY <2>1, <2>2, ContentsIsNext DEF InOrder
  <2>4. QED
    BY <2>1, <2>2, <2>3 DEF Q!Next, Q!Clear
<1>6. CASE UNCHANGED vars
  BY <1>6 DEF vars, ringVars, TypeOK, Contents, FirstSegment, SecondSegment, Q!queueVars
<1>7. QED
  BY <1>1, <1>2, <1>3, <1>4, <1>5, <1>6 DEF Next

\* The positions stay in the array and tail_ stays where head_ and size_ put
\* it, whatever is written, read, consumed and cleared (RingBuffer.h).
THEOREM RingTypeCorrect == Spec => []TypeOK
<1>1. Init => TypeOK
  BY Initially
<1>2. TypeOK /\ [Next]_vars => TypeOK'
  BY Step
<1>3. QED
  BY <1>1, <1>2, PTL DEF Spec

\* The ring of RingBuffer.h implements a bounded queue of bytes, wherever its
\* positions wrap: for every capacity, alphabet and set of inputs.
THEOREM RingIsQueue == Spec => Queue
<1>1. Init => Q!Init
  BY Initially
<1>2. TypeOK /\ [Next]_vars => [Q!Next]_(Q!queueVars)
  BY Step
<1>3. QED
  BY <1>1, <1>2, RingTypeCorrect, PTL DEF Spec, Queue, Q!Spec
-----------------------------------------------------------------------------
(* The older engine's ring, whose positions go round and never start       *)
(* again, is the same queue.  Writing, fetching and clearing are those     *)
(* above; what leaves, leaves another way.                                 *)

\* read and consume: what is left are the bytes after the first n.
LEMMA NetAdvanceStep ==
  ASSUME TypeOK, NEW n \in 0..size, NetAdvance(n), moved' \in Seq(Bytes)
  PROVE  TypeOK' /\ Contents' = SubSeq(Contents, n + 1, size)
<1>1. size' = size - n /\ buf' = buf /\ head' = (head + n) % Capacity /\ tail' = tail
  BY DEF NetAdvance
<1>2. /\ n \in Nat /\ n <= size /\ size \in Nat /\ head \in Nat /\ Capacity \in Nat
      /\ head < Capacity /\ size <= Capacity /\ 0 < Capacity
  BY CapacityAssumption DEF TypeOK, Cells
<1>3. head' = (IF head + n < Capacity THEN head + n ELSE head + n - Capacity)
  <2> DEFINE x == head + n
  <2>1. x \in 0..(2 * Capacity - 1)
    BY <1>2
  <2> HIDE DEF x
  <2>2. x % Capacity = IF x < Capacity THEN x ELSE x - Capacity
    BY <2>1, ModOnce
  <2>3. QED
    BY <1>1, <1>2, <2>2 DEF x
<1>4. head' \in Cells /\ size' \in 0..Capacity
  BY <1>1, <1>2, <1>3 DEF Cells
<1>5. tail' = (head' + size') % Capacity
  <2> DEFINE y == head' + size'
             z == head + size
  <2>1. y \in 0..(2 * Capacity - 1) /\ z \in 0..(2 * Capacity - 1) /\ tail' = z % Capacity
    <3>1. y \in 0..(2 * Capacity - 1)
      BY <1>1, <1>2, <1>3
    <3>2. z \in 0..(2 * Capacity - 1)
      BY <1>2
    <3>3. tail' = z % Capacity
      BY <1>1 DEF TypeOK
    <3>4. QED
      BY <3>1, <3>2, <3>3
  <2>2. y = z \/ (y = z - Capacity /\ z >= Capacity)
    BY <1>1, <1>2, <1>3
  <2> HIDE DEF y, z
  <2>3. /\ y % Capacity = IF y < Capacity THEN y ELSE y - Capacity
        /\ z % Capacity = IF z < Capacity THEN z ELSE z - Capacity
    BY <2>1, ModOnce
  <2>4. y % Capacity = z % Capacity
    BY <1>2, <2>1, <2>2, <2>3
  <2>5. QED
    BY <2>1, <2>4 DEF y
<1>6. TypeOK'
  BY <1>1, <1>4, <1>5 DEF TypeOK
<1>7. Contents \in Seq(Bytes) /\ Len(Contents) = size /\ \A i \in 1..size : Contents[i] = buf[Cell(i)]
  BY ContentsIs DEF InOrder
<1>8. /\ Contents' \in Seq(Bytes) /\ Len(Contents') = size - n
      /\ \A i \in 1..(size - n) : Contents'[i] = buf[Cell(i)']
  BY <1>1, <1>6, ContentsIsNext DEF InOrder
<1>9. \A i \in 1..(size - n) : Cell(i)' = Cell(n + i) /\ n + i \in 1..size
  BY <1>2, <1>3 DEF Cell
<1>10. /\ SubSeq(Contents, n + 1, size) \in Seq(Bytes)
       /\ Len(SubSeq(Contents, n + 1, size)) = size - n
       /\ \A i \in 1..(size - n) : SubSeq(Contents, n + 1, size)[i] = Contents[n + i]
  <2> DEFINE c == Contents
             m == n + 1
  <2>1. c \in Seq(Bytes) /\ Len(c) = size /\ m \in Int /\ size \in Int /\ m \in 1..(size + 1)
    BY <1>2, <1>7
  <2> HIDE DEF c, m
  <2>2. \A i \in m..size : c[i] \in Bytes
    BY <2>1
  <2>3. /\ SubSeq(c, m, size) \in Seq(Bytes)
        /\ Len(SubSeq(c, m, size)) = (IF m <= size THEN size - m + 1 ELSE 0)
        /\ \A i \in 1..(size - m + 1) : SubSeq(c, m, size)[i] = c[m + i - 1]
    BY <2>1, <2>2, SubSeqProperties
  <2>4. size - m + 1 = size - n /\ (IF m <= size THEN size - m + 1 ELSE 0) = size - n
        /\ \A i \in 1..(size - n) : m + i - 1 = n + i
    BY <1>2 DEF m
  <2>5. QED
    BY <2>3, <2>4 DEF c, m
<1>11. Contents' = SubSeq(Contents, n + 1, size)
  <2> DEFINE c == Contents'
             e == SubSeq(Contents, n + 1, size)
  <2>1. \A i \in 1..(size - n) : c[i] = e[i]
    BY <1>7, <1>8, <1>9, <1>10
  <2>2. c \in Seq(Bytes) /\ e \in Seq(Bytes) /\ Len(c) = size - n /\ Len(e) = size - n
    BY <1>8, <1>10
  <2> HIDE DEF c, e
  <2>3. c = e
    BY <2>1, <2>2, SeqEqual
  <2>4. QED
    BY <2>3 DEF c, e
<1>12. QED
  BY <1>6, <1>11

\* How many bytes a call of length k moves.
LEMMA NetFewer ==
  ASSUME TypeOK, NEW k \in Lengths
  PROVE  Fewer(k, size) \in 0..size /\ Fewer(k, size) = Q!Fewer(k, Len(Contents))
<1>1. Len(Contents) = size
  BY ContentsIs DEF InOrder
<1>2. QED
  BY <1>1, CapacityAssumption DEF Fewer, Q!Fewer, TypeOK, Lengths

LEMMA NetReadStep ==
  ASSUME TypeOK, NEW k \in Lengths, NetRead(k)
  PROVE  TypeOK' /\ Q!Read(k)
<1> DEFINE n == Fewer(k, size)
<1>1. /\ n \in 0..size /\ n = Q!Fewer(k, Len(Contents)) /\ Len(Contents) = size
      /\ moved' = Fetched(n) /\ NetAdvance(n)
  BY NetFewer, ContentsIs DEF NetRead, InOrder
<1> HIDE DEF n
<1>2. moved' = SubSeq(Contents, 1, n) /\ moved' \in Seq(Bytes)
  BY <1>1, FetchedIs, FetchedIsPrefix
<1>3. TypeOK' /\ Contents' = SubSeq(Contents, n + 1, size)
  BY <1>1, <1>2, NetAdvanceStep
<1>4. QED
  BY <1>1, <1>2, <1>3 DEF Q!Read, Q!Drop

LEMMA NetConsumeStep ==
  ASSUME TypeOK, NEW k \in Lengths, NetConsume(k)
  PROVE  TypeOK' /\ Q!Consume(k)
<1> DEFINE n == Fewer(k, size)
<1>1. /\ n \in 0..size /\ n = Q!Fewer(k, Len(Contents)) /\ Len(Contents) = size
      /\ moved' = moved /\ moved' \in Seq(Bytes) /\ NetAdvance(n)
  BY NetFewer, ContentsIs DEF NetConsume, InOrder, TypeOK
<1> HIDE DEF n
<1>2. TypeOK' /\ Contents' = SubSeq(Contents, n + 1, size)
  BY <1>1, NetAdvanceStep
<1>3. QED
  BY <1>1, <1>2 DEF Q!Consume, Q!Drop

\* Every step of the ring is a step of the queue, and keeps the types.
LEMMA NetStep == TypeOK /\ [NetNext]_vars => TypeOK' /\ [Q!Next]_(Q!queueVars)
<1> SUFFICES ASSUME TypeOK, [NetNext]_vars PROVE TypeOK' /\ [Q!Next]_(Q!queueVars)
  OBVIOUS
<1>1. ASSUME NEW n \in Lengths, NetRead(n) PROVE TypeOK' /\ Q!Next
  BY <1>1, NetReadStep DEF Q!Next, Lengths
<1>2. ASSUME NEW n \in Lengths, NetConsume(n) PROVE TypeOK' /\ Q!Next
  BY <1>2, NetConsumeStep DEF Q!Next, Lengths
<1>3. CASE (\E d \in Inputs : Write(d)) \/ Clear \/ UNCHANGED vars
  <2>1. [Next]_vars
    BY <1>3 DEF Next
  <2>2. QED
    BY <2>1, Step
<1>4. QED
  BY <1>1, <1>2, <1>3 DEF NetNext

\* The ring of the older engine (Util/RingBuffer.h) keeps its positions in the
\* array, and its write position where the read position and the count put it,
\* though its positions are never reset when it runs empty.
THEOREM NetRingTypeCorrect == NetSpec => []TypeOK
<1>1. Init => TypeOK
  BY Initially
<1>2. TypeOK /\ [NetNext]_vars => TypeOK'
  BY NetStep
<1>3. QED
  BY <1>1, <1>2, PTL DEF NetSpec

\* It implements the same bounded queue as the newer engine's ring, for every
\* capacity, alphabet and set of inputs.
THEOREM NetRingIsQueue == NetSpec => Queue
<1>1. Init => Q!Init
  BY Initially
<1>2. TypeOK /\ [NetNext]_vars => [Q!Next]_(Q!queueVars)
  BY NetStep
<1>3. QED
  BY <1>1, <1>2, NetRingTypeCorrect, PTL DEF NetSpec, Queue, Q!Spec

-----------------------------------------------------------------------------
(* Recursion over packets: what Sent is.                                  *)

LEMMA LeastNumber ==
  ASSUME NEW T, T \subseteq Nat, T # {}
  PROVE  \E x \in T : \A y \in T : x <= y
<1> DEFINE R == {ss \in Nat \X Nat : ss[1] < ss[2]}
<1>1. IsWellFoundedOn(R, Nat)
  <2>1. OpToRel(<, Nat) = R
    BY Zenon DEF OpToRel
  <2>2. QED
    BY Zenon, <2>1, NatLessThanWellFounded
<1>2. \A x, y \in Nat : y < x => <<y, x>> \in R
  <2> SUFFICES ASSUME NEW x \in Nat, NEW y \in Nat, y < x PROVE <<y, x>> \in R
    OBVIOUS
  <2>1. <<y, x>> \in Nat \X Nat /\ <<y, x>>[1] = y /\ <<y, x>>[2] = x
    OBVIOUS
  <2>2. QED
    BY <2>1
<1> HIDE DEF R
<1>3. \E x \in T : \A y \in T : ~(<<y, x>> \in R)
  BY <1>1, WFMin
<1>4. \E x \in T : \A y \in T : ~(y < x)
  BY <1>2, <1>3
<1>5. QED
  BY <1>4

\* A set with 0 and with the successor of each of its numbers.
LEMMA SetInduction ==
  ASSUME NEW S, 0 \in S, \A n \in Nat : n \in S => n + 1 \in S
  PROVE  Nat \subseteq S
<1> SUFFICES ASSUME Nat \ S # {} PROVE FALSE
  OBVIOUS
<1> DEFINE T == Nat \ S
<1>1. T \subseteq Nat /\ T # {} /\ \A x \in T : x \in Nat /\ x \notin S
  OBVIOUS
<1>2. \A x \in Nat : x \notin S => x \in T
  OBVIOUS
<1> HIDE DEF T
<1>3. PICK x \in T : \A y \in T : x <= y
  BY <1>1, LeastNumber
<1>4. x # 0 /\ x - 1 \in Nat
  BY <1>1, <1>3
<1>5. x - 1 \in S
  BY <1>1, <1>2, <1>3, <1>4
<1>6. QED
  BY <1>1, <1>3, <1>4, <1>5

\* A function defined by recursion on the numbers up to N exists.
LEMMA Concatenation ==
  ASSUME NEW N \in Nat, NEW p
  PROVE  \E f : f = [k \in 0..N |-> IF k = 0 THEN <<>> ELSE f[k - 1] \o p[k]]
<1> DEFINE S == {n \in Nat : \E f : f = [k \in 0..n |-> IF k = 0 THEN <<>> ELSE f[k - 1] \o p[k]]}
<1>1. 0 \in S
  <2> DEFINE f == [k \in 0..0 |-> <<>>]
  <2>1. f = [k \in 0..0 |-> IF k = 0 THEN <<>> ELSE f[k - 1] \o p[k]]
    OBVIOUS
  <2> HIDE DEF f
  <2>2. QED
    BY <2>1
<1>2. ASSUME NEW n \in Nat, n \in S PROVE n + 1 \in S
  <2>1. PICK f : f = [k \in 0..n |-> IF k = 0 THEN <<>> ELSE f[k - 1] \o p[k]]
    BY <1>2
  <2> DEFINE g == [k \in 0..(n + 1) |-> IF k = n + 1 THEN f[n] \o p[n + 1] ELSE f[k]]
             h == [k \in 0..(n + 1) |-> IF k = 0 THEN <<>> ELSE g[k - 1] \o p[k]]
  <2>2. \A k \in 0..n : f[k] = IF k = 0 THEN <<>> ELSE f[k - 1] \o p[k]
    BY <2>1
  <2>3. ASSUME NEW k \in 0..(n + 1) PROVE g[k] = h[k]
    <3>1. CASE k = n + 1
      <4>1. g[n] = f[n] /\ k # 0 /\ k - 1 = n
        BY <3>1
      <4>2. QED
        BY <3>1, <4>1
    <3>2. CASE k # n + 1
      <4>1. k \in 0..n /\ (k # 0 => k - 1 \in 0..(n + 1) /\ k - 1 # n + 1)
        BY <3>2
      <4>2. g[k] = f[k] /\ (k # 0 => g[k - 1] = f[k - 1])
        BY <4>1, <3>2
      <4>3. QED
        BY <2>2, <4>1, <4>2
    <3>3. QED
      BY <3>1, <3>2
  <2>4. g = h
    BY <2>3
  <2> HIDE DEF g
  <2>5. \E e : e = [k \in 0..(n + 1) |-> IF k = 0 THEN <<>> ELSE e[k - 1] \o p[k]]
    <3>1. g = [k \in 0..(n + 1) |-> IF k = 0 THEN <<>> ELSE g[k - 1] \o p[k]]
      BY <2>4
    <3> HIDE DEF h
    <3> WITNESS g
    <3>2. QED
      BY <3>1
  <2>6. n + 1 \in Nat
    OBVIOUS
  <2>7. QED
    BY <2>5, <2>6, Zenon
<1>3. N \in S
  <2> HIDE DEF S
  <2>1. QED
    BY <1>1, <1>2, SetInduction
<1>4. QED
  BY <1>3

\* Sent is what its definition says.
LEMMA SentIs ==
  Sent = [k \in 0..NumPackets |-> IF k = 0 THEN <<>> ELSE Sent[k - 1] \o Packet(k)]
<1> DEFINE p == [k \in 1..NumPackets |-> Packet(k)]
<1>1. \E f : f = [k \in 0..NumPackets |-> IF k = 0 THEN <<>> ELSE f[k - 1] \o Packet(k)]
  <2>1. PICK f : f = [k \in 0..NumPackets |-> IF k = 0 THEN <<>> ELSE f[k - 1] \o p[k]]
    BY Concatenation, FramingAssumption
  <2>2. ASSUME NEW k \in 0..NumPackets, k # 0 PROVE p[k] = Packet(k)
    BY <2>2, FramingAssumption
  <2> HIDE DEF p
  <2>3. f = [k \in 0..NumPackets |-> IF k = 0 THEN <<>> ELSE f[k - 1] \o Packet(k)]
    BY <2>1, <2>2
  <2>4. QED
    BY <2>3
<1>2. QED
  BY <1>1, Zenon DEF Sent

LEMMA SentStays == fields' = fields => Sent' = Sent
BY Zenon DEF Sent, Packet

-----------------------------------------------------------------------------
(* Where packets lie on the wire.                                         *)

FieldsOK == fields \in [1..NumPackets -> SizeFields]

\* Where packet k ends on the wire.
Ends(k) == Len(Sent[k])

LEMMA SentValues ==
  /\ Sent[0] = <<>>
  /\ \A k \in 1..NumPackets : Sent[k] = Sent[k - 1] \o Packet(k)
<1> DEFINE g == [k \in 0..NumPackets |-> IF k = 0 THEN <<>> ELSE Sent[k - 1] \o Packet(k)]
<1>1. g[0] = <<>> /\ \A k \in 1..NumPackets : g[k] = Sent[k - 1] \o Packet(k)
  BY FramingAssumption
<1>2. Sent = g
  BY SentIs
<1> HIDE DEF g
<1>3. QED
  BY <1>1, <1>2

LEMMA PacketIs ==
  ASSUME FieldsOK, NEW k \in 1..NumPackets
  PROVE  /\ WireLen(fields[k]) \in Nat /\ WireLen(fields[k]) >= HeaderLen
         /\ fields[k] \in Nat
         /\ fields[k] >= HeaderLen => WireLen(fields[k]) = fields[k]
         /\ Packet(k) \in Seq(Bytes) /\ Len(Packet(k)) = WireLen(fields[k])
         /\ \A i \in 1..WireLen(fields[k]) : Packet(k)[i] = <<k, i>>
<1> DEFINE n == WireLen(fields[k])
<1>1. fields[k] \in SizeFields /\ fields[k] \in Nat
  BY FramingAssumption DEF FieldsOK
<1>2. n \in Nat /\ n >= HeaderLen /\ (fields[k] >= HeaderLen => n = fields[k])
  BY <1>1, FramingAssumption DEF WireLen
<1>3. \A i \in 1..n : <<k, i>> \in Bytes
  BY <1>1, CellsAssumption
<1>4. Packet(k) = [i \in 1..n |-> <<k, i>>]
  BY DEF Packet
<1> HIDE DEF n
<1>5. Packet(k) \in [1..n -> Bytes]
  BY <1>3, <1>4
<1>6. Packet(k) \in Seq(Bytes) /\ Len(Packet(k)) = n
  BY <1>2, <1>5, SeqOf
<1>7. QED
  BY <1>1, <1>2, <1>4, <1>6 DEF n

LEMMA SentSeq ==
  ASSUME FieldsOK
  PROVE  \A k \in 0..NumPackets : Sent[k] \in Seq(Bytes)
<1> DEFINE S == {n \in Nat : n <= NumPackets => Sent[n] \in Seq(Bytes)}
<1>1. 0 \in S
  BY SentValues, EmptySeq
<1>2. ASSUME NEW n \in Nat, n \in S PROVE n + 1 \in S
  <2>1. ASSUME n + 1 <= NumPackets PROVE Sent[n + 1] \in Seq(Bytes)
    <3> DEFINE m == n + 1
    <3>1. m \in 1..NumPackets /\ m - 1 = n /\ Sent[n] \in Seq(Bytes)
      BY <1>2, <2>1, FramingAssumption
    <3> HIDE DEF m
    <3>2. Sent[m] = Sent[m - 1] \o Packet(m)
      BY <3>1, SentValues
    <3>3. Packet(m) \in Seq(Bytes)
      BY <3>1, PacketIs
    <3>4. Sent[m] \in Seq(Bytes)
      BY <3>1, <3>2, <3>3, ConcatProperties
    <3>5. QED
      BY <3>4 DEF m
  <2>2. QED
    BY <2>1
<1>3. \A k \in 0..NumPackets : k \in S
  <2> HIDE DEF S
  <2>1. QED
    BY <1>1, <1>2, SetInduction, FramingAssumption
<1>4. QED
  BY <1>3

\* One packet more: what was sent before stays in front.
LEMMA SentLonger ==
  ASSUME FieldsOK, NEW k \in 1..NumPackets
  PROVE  /\ Ends(k - 1) \in Nat /\ Ends(k) = Ends(k - 1) + WireLen(fields[k])
         /\ Ends(k) >= Ends(k - 1) + HeaderLen
         /\ \A i \in 1..Ends(k - 1) : Sent[k][i] = Sent[k - 1][i]
         /\ \A i \in 1..WireLen(fields[k]) : Sent[k][Ends(k - 1) + i] = <<k, i>>
<1>1. k - 1 \in 0..NumPackets /\ k \in 0..NumPackets
  BY FramingAssumption
<1> DEFINE s == Sent[k - 1]
           t == Packet(k)
           n == WireLen(fields[k])
<1>2. s \in Seq(Bytes) /\ t \in Seq(Bytes) /\ Len(t) = n /\ n \in Nat /\ n >= HeaderLen
  BY <1>1, SentSeq, PacketIs
<1>3. \A i \in 1..n : t[i] = <<k, i>>
  BY PacketIs
<1>4. Sent[k] = s \o t
  BY SentValues
<1> HIDE DEF s, t, n
<1>5. /\ Len(s \o t) = Len(s) + n
      /\ \A i \in 1..(Len(s) + n) : (s \o t)[i] = IF i <= Len(s) THEN s[i] ELSE t[i - Len(s)]
  BY <1>2, ConcatProperties
<1>6. Len(s) \in Nat
  BY <1>2
<1>7. \A i \in 1..Len(s) : (s \o t)[i] = s[i]
  BY <1>2, <1>5, <1>6
<1>8. ASSUME NEW i \in 1..n PROVE (s \o t)[Len(s) + i] = <<k, i>>
  <2>1. Len(s) + i \in 1..(Len(s) + n) /\ ~(Len(s) + i <= Len(s)) /\ Len(s) + i - Len(s) = i
    BY <1>2, <1>6
  <2>2. QED
    BY <1>3, <1>5, <2>1
<1>9. QED
  BY <1>2, <1>4, <1>5, <1>6, <1>7, <1>8, FramingAssumption DEF s, n, Ends

\* The first packets are a prefix of more packets.
LEMMA SentPrefix ==
  ASSUME FieldsOK, NEW j \in 0..NumPackets, NEW k \in j..NumPackets
  PROVE  /\ Ends(j) \in Nat /\ Ends(k) \in Nat /\ Ends(j) <= Ends(k)
         /\ \A i \in 1..Ends(j) : Sent[k][i] = Sent[j][i]
<1> DEFINE S == {n \in Nat : j <= n /\ n <= NumPackets =>
                   /\ Ends(j) \in Nat /\ Ends(n) \in Nat /\ Ends(j) <= Ends(n)
                   /\ \A i \in 1..Ends(j) : Sent[n][i] = Sent[j][i]}
<1>1. j \in Nat /\ Ends(j) \in Nat
  BY SentSeq, FramingAssumption DEF Ends
<1>2. 0 \in S
  <2>1. j <= 0 => j = 0
    BY <1>1
  <2>2. QED
    BY <1>1, <2>1
<1>3. ASSUME NEW n \in Nat, n \in S PROVE n + 1 \in S
  <2>1. ASSUME j <= n + 1, n + 1 <= NumPackets
        PROVE  /\ Ends(n + 1) \in Nat /\ Ends(j) <= Ends(n + 1)
               /\ \A i \in 1..Ends(j) : Sent[n + 1][i] = Sent[j][i]
    <3>1. CASE j = n + 1
      BY <1>1, <3>1
    <3>2. CASE j # n + 1
      <4>1. j <= n /\ n <= NumPackets /\ n + 1 \in 1..NumPackets /\ n + 1 - 1 = n
        BY <1>1, <2>1, <3>2, FramingAssumption
      <4>2. /\ Ends(n) \in Nat /\ Ends(j) <= Ends(n)
            /\ \A i \in 1..Ends(j) : Sent[n][i] = Sent[j][i]
        BY <1>3, <4>1
      <4>3. /\ Ends(n + 1) = Ends(n) + WireLen(fields[n + 1])
            /\ WireLen(fields[n + 1]) \in Nat
            /\ \A i \in 1..Ends(n) : Sent[n + 1][i] = Sent[n][i]
        BY <4>1, SentLonger, PacketIs
      <4>4. QED
        BY <1>1, <4>2, <4>3
    <3>3. QED
      BY <3>1, <3>2
  <2>2. QED
    BY <1>1, <2>1
<1>4. k \in S
  <2>1. k \in Nat
    BY <1>1, FramingAssumption
  <2> HIDE DEF S
  <2>2. QED
    BY <1>2, <1>3, <2>1, SetInduction
<1>5. QED
  BY <1>1, <1>4

\* What lies on the wire at packet k.
LEMMA WireAt ==
  ASSUME FieldsOK, NEW k \in 1..NumPackets
  PROVE  /\ Wire \in Seq(Bytes) /\ Len(Wire) \in Nat
         /\ Ends(k - 1) \in Nat /\ Ends(k) \in Nat
         /\ Ends(k) = Ends(k - 1) + WireLen(fields[k]) /\ Ends(k) <= Len(Wire)
         /\ \A i \in 1..WireLen(fields[k]) : Wire[Ends(k - 1) + i] = <<k, i>>
<1>1. k \in 0..NumPackets /\ NumPackets \in k..NumPackets /\ NumPackets \in 0..NumPackets
  BY FramingAssumption
<1>2. Wire \in Seq(Bytes) /\ Len(Wire) \in Nat
  BY <1>1, SentSeq DEF Wire
<1>3. /\ Ends(k) \in Nat /\ Ends(k) <= Len(Wire)
      /\ \A i \in 1..Ends(k) : Wire[i] = Sent[k][i]
  BY <1>1, SentPrefix DEF Wire, Ends
<1>4. /\ Ends(k - 1) \in Nat /\ Ends(k) = Ends(k - 1) + WireLen(fields[k])
      /\ \A i \in 1..WireLen(fields[k]) : Sent[k][Ends(k - 1) + i] = <<k, i>>
  BY SentLonger
<1>5. WireLen(fields[k]) \in Nat
  BY PacketIs
<1>6. \A i \in 1..WireLen(fields[k]) : Ends(k - 1) + i \in 1..Ends(k)
  BY <1>4, <1>5
<1>7. QED
  BY <1>2, <1>3, <1>4, <1>6

-----------------------------------------------------------------------------
(* The invariant of the receive ring.                                     *)

\* How many packets were handed over.
Out == Len(popped)

FrameTypes ==
  /\ TypeOK
  /\ FieldsOK
  /\ error \in BOOLEAN
  /\ phase \in {"receiving", "processing", "closed"}
  /\ taken \in Nat /\ taken <= Len(Wire)
  /\ popped \in Seq(Seq(Bytes)) /\ Out <= NumPackets

\* The ring holds the bytes delivered and not handed over, until something is
\* refused; then nothing is popped any more.
Held ==
  /\ Ends(Out) <= taken
  /\ ~error => Contents = SubSeq(Wire, Ends(Out) + 1, taken)
  /\ phase = "closed" => error
  /\ error => phase # "processing"

\* The next packet is not whole, or has a bad header.
Waits ==
  phase = "receiving" =>
    Out = NumPackets \/ ~WellFormed(Out + 1) \/ taken < Ends(Out + 1)

\* A full receive buffer fits beside the longest incomplete packet.
RoomEnough == MaxChunk + MaxPacket <= Capacity + 1

FrameInv == FrameTypes /\ Reassembled /\ Held /\ Waits /\ (RoomEnough => NeverCutOff)

-----------------------------------------------------------------------------
(* What the ring holds.                                                    *)

\* The bytes between the last packet popped and the last byte taken.
LEMMA Between ==
  ASSUME FrameTypes, Held
  PROVE  /\ Ends(Out) \in Nat /\ Wire \in Seq(Bytes)
         /\ Ends(NumPackets) = Len(Wire)
         /\ ~error => /\ Contents \in Seq(Bytes) /\ Len(Contents) = size /\ size \in Nat
                      /\ size = taken - Ends(Out)
                      /\ \A i \in 1..size : Contents[i] = Wire[Ends(Out) + i]
<1>1. Out \in 0..NumPackets /\ NumPackets \in 0..NumPackets /\ FieldsOK
  BY FramingAssumption DEF FrameTypes, Out
<1>2. Ends(Out) \in Nat /\ Wire \in Seq(Bytes) /\ Ends(NumPackets) = Len(Wire)
  BY <1>1, SentSeq DEF Ends, Wire
<1>3. Contents \in Seq(Bytes) /\ Len(Contents) = size /\ size \in Nat
  BY ContentsIs DEF FrameTypes, InOrder, TypeOK
<1>4. ASSUME ~error
      PROVE  /\ size = taken - Ends(Out)
             /\ \A i \in 1..size : Contents[i] = Wire[Ends(Out) + i]
  <2> DEFINE m == Ends(Out) + 1
  <2>1. Contents = SubSeq(Wire, m, taken)
    BY <1>4 DEF Held
  <2>2. m \in Nat /\ m >= 1 /\ m <= taken + 1 /\ taken \in Nat /\ taken <= Len(Wire)
        /\ m = Ends(Out) + 1 /\ Len(Wire) \in Nat
    BY <1>2 DEF FrameTypes, Held
  <2> HIDE DEF m
  <2>3. \A i \in m..taken : Wire[i] \in Bytes
    BY <1>2, <2>2
  <2>4. /\ Len(SubSeq(Wire, m, taken)) = IF m <= taken THEN taken - m + 1 ELSE 0
        /\ \A i \in 1..(taken - m + 1) : SubSeq(Wire, m, taken)[i] = Wire[m + i - 1]
    BY <2>2, <2>3, SubSeqProperties
  <2>5. size = taken - m + 1
    BY <1>3, <2>1, <2>2, <2>4
  <2>6. ASSUME NEW i \in 1..size
        PROVE  Contents[i] = Wire[m + i - 1] /\ m + i - 1 = Ends(Out) + i
    <3>1. i \in 1..(taken - m + 1) /\ i \in Nat
      BY <1>3, <2>5
    <3>2. Contents[i] = Wire[m + i - 1]
      BY <2>1, <2>4, <3>1
    <3>3. QED
      BY <1>2, <2>2, <3>1, <3>2
  <2>7. QED
    BY <1>2, <2>2, <2>5, <2>6
<1>5. QED
  BY <1>2, <1>3, <1>4

\* A header that is there is that of the packet after those popped, and its size
\* field decides what try_pop_packet does.
LEMMA NextHeader ==
  ASSUME FrameTypes, Held, ~error, HasHeader
  PROVE  /\ Out + 1 \in 1..NumPackets
         /\ NextSize = fields[Out + 1]
         /\ BadSize <=> ~WellFormed(Out + 1)
         /\ ~BadSize => (Complete <=> Ends(Out + 1) <= taken)
         /\ Ends(Out + 1) = Ends(Out) + WireLen(fields[Out + 1])
         /\ fields[Out + 1] \in Nat
         /\ \A i \in 1..size : i <= WireLen(fields[Out + 1]) => Contents[i] = <<Out + 1, i>>
<1> DEFINE k == Out + 1
           h == Fetched(HeaderLen)
<1>1. /\ Ends(Out) \in Nat /\ Wire \in Seq(Bytes) /\ Ends(NumPackets) = Len(Wire)
      /\ Contents \in Seq(Bytes) /\ Len(Contents) = size /\ size \in Nat
      /\ size = taken - Ends(Out)
      /\ \A i \in 1..size : Contents[i] = Wire[Ends(Out) + i]
  BY Between
<1>2. HeaderLen \in Nat /\ HeaderLen >= 1 /\ HeaderLen <= size /\ NumPackets \in Nat
  BY FramingAssumption, <1>1 DEF HasHeader
<1>3. Out # NumPackets
  BY <1>1, <1>2 DEF FrameTypes
<1>4. k \in 1..NumPackets /\ k - 1 = Out /\ Out \in Nat
  <2>1. Out \in Nat /\ Out <= NumPackets
    BY DEF FrameTypes, Out
  <2>2. QED
    BY <1>2, <1>3, <2>1
<1>5. /\ Ends(k) = Ends(Out) + WireLen(fields[k])
      /\ \A i \in 1..WireLen(fields[k]) : Wire[Ends(Out) + i] = <<k, i>>
  <2> HIDE DEF k
  <2>1. FieldsOK
    BY DEF FrameTypes
  <2>2. QED
    BY <1>4, <2>1, WireAt
<1>6. /\ WireLen(fields[k]) \in Nat /\ WireLen(fields[k]) >= HeaderLen
      /\ fields[k] \in Nat
      /\ fields[k] >= HeaderLen => WireLen(fields[k]) = fields[k]
      /\ Packet(k) \in Seq(Bytes) /\ Len(Packet(k)) = WireLen(fields[k])
      /\ \A i \in 1..WireLen(fields[k]) : Packet(k)[i] = <<k, i>>
  <2> HIDE DEF k
  <2>1. FieldsOK
    BY DEF FrameTypes
  <2>2. QED
    BY <1>4, <2>1, PacketIs
<1> HIDE DEF k
<1>7. \A i \in 1..size : i <= WireLen(fields[k]) => Contents[i] = <<k, i>>
  BY <1>1, <1>5, <1>6
<1>8. /\ h \in Seq(Bytes) /\ Len(h) = HeaderLen
      /\ \A i \in 1..HeaderLen : h[i] = <<k, i>>
  <2>1. HeaderLen \in 0..size /\ TypeOK
    BY <1>1, <1>2 DEF FrameTypes
  <2>2. h \in Seq(Bytes) /\ Len(h) = HeaderLen /\ \A i \in 1..HeaderLen : h[i] = buf[Cell(i)]
    BY <2>1, FetchedIs
  <2>3. \A i \in 1..size : Contents[i] = buf[Cell(i)]
    BY <2>1, ContentsIs DEF InOrder
  <2> HIDE DEF h
  <2>4. \A i \in 1..HeaderLen : i \in 1..size /\ i <= WireLen(fields[k])
    BY <1>1, <1>2, <1>6
  <2>5. QED
    BY <1>7, <2>2, <2>3, <2>4
<1>9. h = SubSeq(Packet(k), 1, HeaderLen)
  <2> DEFINE g == SubSeq(Packet(k), 1, HeaderLen)
  <2>1. \A i \in 1..HeaderLen : i \in 1..Len(Packet(k))
    BY <1>2, <1>6
  <2>2. \A i \in 1..HeaderLen : Packet(k)[i] \in Bytes
    BY <1>6, <2>1
  <2>3. /\ g \in Seq(Bytes) /\ Len(g) = HeaderLen
        /\ \A i \in 1..HeaderLen : g[i] = Packet(k)[i]
    BY <1>2, <2>2, SubSeqProperties
  <2> HIDE DEF g, h
  <2>4. \A i \in 1..HeaderLen : h[i] = g[i]
    BY <1>2, <1>6, <1>8, <2>1, <2>3
  <2>5. h = g
    BY <1>8, <2>3, <2>4, SeqEqual
  <2>6. QED
    BY <2>5 DEF g
<1>10. NextSize = fields[k]
  <2>1. \E j \in 1..NumPackets : h = SubSeq(Packet(j), 1, HeaderLen)
    BY <1>4, <1>9
  <2>2. h[1][1] = k
    <3> HIDE DEF h
    <3>1. h[1] = <<k, 1>>
      BY <1>2, <1>8
    <3>2. QED
      BY <3>1
  <2>3. QED
    BY <2>1, <2>2 DEF NextSize
<1>11. BadSize <=> ~WellFormed(k)
  BY <1>2, <1>6, <1>10, FramingAssumption DEF BadSize, WellFormed
<1>12. ASSUME ~BadSize PROVE Complete <=> Ends(k) <= taken
  <2>1. fields[k] >= HeaderLen
    BY <1>2, <1>6, <1>10, <1>12 DEF BadSize
  <2>2. Ends(k) = Ends(Out) + fields[k] /\ taken \in Nat
    BY <1>5, <1>6, <2>1 DEF FrameTypes
  <2>3. QED
    BY <1>1, <1>6, <1>10, <2>2 DEF Complete
<1>13. QED
  BY <1>4, <1>5, <1>6, <1>7, <1>10, <1>11, <1>12 DEF k

-----------------------------------------------------------------------------
(* A connection begins, and steps that pop and push nothing.              *)

\* While the peer is the same, so is what it sends.
LEMMA SamePeer ==
  ASSUME fields' = fields
  PROVE  /\ Sent' = Sent /\ Wire' = Wire
         /\ \A k : Ends(k)' = Ends(k)
         /\ \A k : Packet(k)' = Packet(k)
         /\ \A k : WellFormed(k)' = WellFormed(k)
<1>1. Sent' = Sent
  BY SentStays
<1>2. QED
  BY <1>1 DEF Wire, Ends, Packet, WellFormed

\* A connection that begins.
Fresh ==
  /\ buf \in [Cells -> Bytes] /\ head = 0 /\ tail = 0 /\ size = 0
  /\ moved \in Seq(Bytes)
  /\ FieldsOK
  /\ error = FALSE /\ phase = "receiving" /\ taken = 0 /\ popped = <<>>

LEMMA FreshIsFrame == Fresh => FrameInv
<1> SUFFICES ASSUME Fresh PROVE FrameInv
  OBVIOUS
<1>1. TypeOK /\ Contents = <<>>
  BY EmptyRing DEF Fresh
<1>2. /\ FieldsOK /\ error = FALSE /\ phase = "receiving" /\ taken = 0
      /\ popped = <<>> /\ popped \in Seq(Seq(Bytes)) /\ Out = 0
  BY DEF Fresh, Out
<1>3. Sent[0] = <<>> /\ Ends(0) = 0 /\ NumPackets \in Nat /\ HeaderLen \in Nat \ {0}
  BY SentValues, FramingAssumption DEF Ends
<1>4. Wire \in Seq(Bytes) /\ Len(Wire) \in Nat
  <2>1. NumPackets \in 0..NumPackets
    BY <1>3
  <2>2. QED
    BY <1>2, <2>1, SentSeq DEF Wire
<1>5. SubSeq(Wire, 1, 0) = <<>>
  BY SubSeqEmpty
<1>6. FrameTypes
  <2>1. taken \in Nat /\ taken <= Len(Wire) /\ Out <= NumPackets
    BY <1>2, <1>3, <1>4
  <2>2. error \in BOOLEAN /\ phase \in {"receiving", "processing", "closed"}
    BY <1>2
  <2>3. QED
    BY <1>1, <1>2, <2>1, <2>2 DEF FrameTypes
<1>7. Held
  BY <1>1, <1>2, <1>3, <1>5 DEF Held
<1>8. Waits
  <2>1. CASE NumPackets = 0
    BY <1>2, <2>1 DEF Waits
  <2>2. CASE NumPackets # 0
    <3> DEFINE k == Out + 1
    <3>1. k \in 1..NumPackets /\ k - 1 = 0
      BY <1>2, <1>3, <2>2
    <3> HIDE DEF k
    <3>2. Ends(k) \in Nat /\ Ends(k) >= Ends(k - 1) + HeaderLen
      BY <1>2, <3>1, SentLonger, WireAt
    <3>3. taken < Ends(k)
      BY <1>2, <1>3, <3>1, <3>2
    <3>4. QED
      BY <3>3 DEF k, Waits
  <2>3. QED
    BY <2>1, <2>2
<1>9. Reassembled /\ NeverCutOff
  BY <1>2 DEF Reassembled, NeverCutOff, Out
<1>10. QED
  BY <1>6, <1>7, <1>8, <1>9 DEF FrameInv

LEMMA FreshIsFrameNext == Fresh' => FrameInv'
BY FreshIsFrame, PTL

LEMMA FrameInit == RecvInit => FrameInv
<1> SUFFICES ASSUME RecvInit PROVE FrameInv
  OBVIOUS
<1>1. buf \in [Cells -> Bytes]
  BY CellsAssumption DEF RecvInit
<1>2. moved \in Seq(Bytes)
  BY EmptySeq DEF RecvInit
<1>3. Fresh
  BY <1>1, <1>2 DEF RecvInit, Fresh, FieldsOK
<1>4. QED
  BY <1>3, FreshIsFrame

LEMMA ReusedStep ==
  ASSUME FrameInv, Reused
  PROVE  FrameInv'
<1>1. Fresh'
  BY DEF FrameInv, FrameTypes, TypeOK, Reused, ClearRing, Fresh, FieldsOK
<1>2. QED
  BY <1>1, FreshIsFrameNext

\* What a step leaves of the invariant when the peer, what was popped and the
\* ring stay.
LEMMA RingStays ==
  ASSUME UNCHANGED ringVars
  PROVE  Contents' = Contents /\ (TypeOK /\ moved' \in Seq(Bytes) => TypeOK')
BY DEF ringVars, TypeOK, Contents, FirstSegment, SecondSegment

LEMMA PoppedStays ==
  ASSUME FrameInv, fields' = fields, popped' = popped
  PROVE  /\ Reassembled' /\ FieldsOK' /\ Out' = Out
         /\ popped' \in Seq(Seq(Bytes)) /\ Out' <= NumPackets
<1>1. /\ \A k : Packet(k)' = Packet(k)
      /\ \A k : WellFormed(k)' = WellFormed(k)
  BY SamePeer
<1>2. QED
  BY <1>1 DEF FrameInv, FrameTypes, Reassembled, FieldsOK, Out

LEMMA PausesStep ==
  ASSUME FrameInv, Pauses
  PROVE  FrameInv'
<1>1. /\ phase = "processing" /\ phase' = "receiving"
      /\ ~HasHeader \/ (HasHeader /\ ~BadSize /\ ~Complete)
      /\ UNCHANGED ringVars /\ moved' = moved /\ error' = error /\ fields' = fields
      /\ taken' = taken /\ popped' = popped
  BY DEF Pauses
<1>2. /\ Wire' = Wire /\ \A k : Ends(k)' = Ends(k)
      /\ \A k : WellFormed(k)' = WellFormed(k)
  BY <1>1, SamePeer
<1>3. /\ Reassembled' /\ FieldsOK' /\ Out' = Out
      /\ popped' \in Seq(Seq(Bytes)) /\ Out' <= NumPackets
  BY <1>1, PoppedStays
<1>4. FrameTypes'
  <2>1. Contents' = Contents /\ TypeOK'
    BY <1>1, RingStays DEF FrameInv, FrameTypes, TypeOK
  <2>2. QED
    BY <1>1, <1>2, <1>3, <2>1 DEF FrameInv, FrameTypes
<1>5. ~error
  BY <1>1 DEF FrameInv, Held
<1>6. Held'
  <2>1. Contents' = Contents
    BY <1>1, RingStays
  <2>2. QED
    BY <1>1, <1>2, <1>3, <1>5, <2>1 DEF FrameInv, Held
<1>7. Out = NumPackets \/ ~WellFormed(Out + 1) \/ taken < Ends(Out + 1)
  <2>1. CASE HasHeader
    <3>1. ~BadSize /\ ~(Ends(Out + 1) <= taken)
      BY <1>1, <1>5, <2>1, NextHeader DEF FrameInv
    <3>2. Ends(Out + 1) \in Nat /\ taken \in Nat
      <4>1. Out + 1 \in 1..NumPackets
        BY <1>5, <2>1, NextHeader DEF FrameInv
      <4>2. QED
        BY <4>1, WireAt DEF FrameInv, FrameTypes
    <3>3. QED
      BY <3>1, <3>2
  <2>2. CASE ~HasHeader
    <3>1. /\ Ends(Out) \in Nat /\ size = taken - Ends(Out) /\ size \in Nat
      BY <1>5, Between DEF FrameInv
    <3>2. HeaderLen \in Nat /\ size < HeaderLen /\ NumPackets \in Nat
      BY <2>2, <3>1, FramingAssumption DEF HasHeader
    <3>3. CASE Out # NumPackets
      <4> DEFINE k == Out + 1
      <4>1. k \in 1..NumPackets /\ k - 1 = Out
        BY <3>2, <3>3 DEF FrameInv, FrameTypes, Out
      <4> HIDE DEF k
      <4>2. FieldsOK
        BY DEF FrameInv, FrameTypes
      <4>3. Ends(k) \in Nat /\ Ends(k) >= Ends(k - 1) + HeaderLen
        BY <4>1, <4>2, SentLonger, WireAt
      <4>4. taken < Ends(k)
        BY <3>1, <3>2, <4>1, <4>3 DEF FrameInv, FrameTypes
      <4>5. QED
        BY <4>4 DEF k
    <3>4. QED
      BY <3>3
  <2>3. QED
    BY <2>1, <2>2
<1>8. Waits'
  BY <1>1, <1>2, <1>3, <1>7 DEF Waits
<1>9. (RoomEnough => NeverCutOff)'
  BY <1>1, <1>2, <1>5 DEF RoomEnough, NeverCutOff
<1>10. QED
  BY <1>3, <1>4, <1>6, <1>8, <1>9 DEF FrameInv

LEMMA RefusesHeaderStep ==
  ASSUME FrameInv, RefusesHeader
  PROVE  FrameInv'
<1>1. /\ ~error /\ HasHeader /\ BadSize
      /\ error' = TRUE /\ phase' = "receiving"
      /\ UNCHANGED ringVars /\ moved' = moved /\ fields' = fields
      /\ taken' = taken /\ popped' = popped
  BY DEF RefusesHeader
<1>2. /\ Wire' = Wire /\ \A k : Ends(k)' = Ends(k)
      /\ \A k : WellFormed(k)' = WellFormed(k)
  BY <1>1, SamePeer
<1>3. /\ Reassembled' /\ FieldsOK' /\ Out' = Out
      /\ popped' \in Seq(Seq(Bytes)) /\ Out' <= NumPackets
  BY <1>1, PoppedStays
<1>4. Out + 1 \in 1..NumPackets /\ ~WellFormed(Out + 1)
  BY <1>1, NextHeader DEF FrameInv
<1>5. FrameTypes'
  <2>1. TypeOK'
    BY <1>1, RingStays DEF FrameInv, FrameTypes, TypeOK
  <2>2. QED
    BY <1>1, <1>2, <1>3, <2>1 DEF FrameInv, FrameTypes
<1>6. Held'
  BY <1>1, <1>2, <1>3 DEF FrameInv, Held
<1>7. Waits'
  BY <1>2, <1>3, <1>4 DEF Waits
<1>8. (RoomEnough => NeverCutOff)'
  BY <1>2, <1>4 DEF NeverCutOff
<1>9. QED
  BY <1>3, <1>5, <1>6, <1>7, <1>8 DEF FrameInv

-----------------------------------------------------------------------------
(* A receive.                                                              *)

\* A piece of the wire.
LEMMA PieceIs ==
  ASSUME NEW w \in Seq(Bytes), NEW a \in Nat, NEW n \in Nat, a + n <= Len(w)
  PROVE  /\ SubSeq(w, a + 1, a + n) \in Seq(Bytes)
         /\ Len(SubSeq(w, a + 1, a + n)) = n
         /\ \A i \in 1..n : SubSeq(w, a + 1, a + n)[i] = w[a + i]
<1> DEFINE x == a + 1
           y == a + n
<1>1. x \in Int /\ y \in Int /\ y - x + 1 = n /\ (x <= y \/ (n = 0 /\ x > y))
      /\ x >= 1 /\ y <= Len(w) /\ \A i \in 1..n : x + i - 1 = a + i
  OBVIOUS
<1> HIDE DEF x, y
<1>2. \A i \in x..y : w[i] \in Bytes
  BY <1>1
<1>3. /\ SubSeq(w, x, y) \in Seq(Bytes)
      /\ Len(SubSeq(w, x, y)) = IF x <= y THEN y - x + 1 ELSE 0
      /\ \A i \in 1..(y - x + 1) : SubSeq(w, x, y)[i] = w[x + i - 1]
  BY <1>1, <1>2, SubSeqProperties
<1>4. QED
  BY <1>1, <1>3 DEF x, y

\* A well-behaved peer's piece fits.
LEMMA RoomForPiece ==
  ASSUME FrameInv, RoomEnough, \A k \in 1..NumPackets : WellFormed(k),
         phase = "receiving", NEW n \in 1..MaxChunk, taken + n <= Len(Wire)
  PROVE  ~error /\ n <= FreeSpace
<1>1. ~error
  BY DEF FrameInv, NeverCutOff
<1>2. /\ Ends(Out) \in Nat /\ Ends(NumPackets) = Len(Wire) /\ Wire \in Seq(Bytes)
      /\ size = taken - Ends(Out) /\ size \in Nat
  BY <1>1, Between DEF FrameInv
<1>3. taken \in Nat /\ NumPackets \in Nat /\ Out \in Nat /\ Out <= NumPackets
      /\ n \in Nat /\ n >= 1 /\ n <= MaxChunk /\ MaxChunk \in Nat /\ MaxPacket \in Nat
      /\ Len(Wire) \in Nat
  BY <1>2, FramingAssumption DEF FrameInv, FrameTypes, Out
<1>4. Out # NumPackets
  BY <1>2, <1>3 DEF FrameInv, Held
<1> DEFINE k == Out + 1
<1>5. k \in 1..NumPackets /\ k - 1 = Out
  BY <1>3, <1>4
<1>6. taken < Ends(k)
  BY <1>4, <1>5 DEF FrameInv, Waits
<1> HIDE DEF k
<1>7. FieldsOK
  BY DEF FrameInv, FrameTypes
<1>8. Ends(k) = Ends(k - 1) + WireLen(fields[k])
  BY <1>5, <1>7, WireAt
<1>9. WellFormed(k) /\ fields[k] \in Nat /\ WireLen(fields[k]) = fields[k] /\ fields[k] <= MaxPacket
  <2>1. fields[k] \in Nat /\ (fields[k] >= HeaderLen => WireLen(fields[k]) = fields[k])
    BY <1>5, <1>7, PacketIs
  <2>2. QED
    BY <1>5, <2>1, FramingAssumption DEF WellFormed
<1>10. size < MaxPacket
  BY <1>2, <1>3, <1>5, <1>6, <1>8, <1>9
<1>11. QED
  BY <1>1, <1>2, <1>3, <1>10, CapacityAssumption DEF RoomEnough, FreeSpace

LEMMA PushStep ==
  ASSUME FrameInv, NEW n \in 1..MaxChunk, taken + n <= Len(Wire), phase = "receiving",
         CanPush(SubSeq(Wire, taken + 1, taken + n)),
         WriteRing(SubSeq(Wire, taken + 1, taken + n)),
         taken' = taken + n, phase' = "processing", error' = error,
         UNCHANGED <<moved, fields, popped>>
  PROVE  FrameInv'
<1> DEFINE d == SubSeq(Wire, taken + 1, taken + n)
<1>1. ~error
  BY DEF CanPush
<1>2. /\ Ends(Out) \in Nat /\ Wire \in Seq(Bytes)
      /\ Contents \in Seq(Bytes) /\ Len(Contents) = size /\ size \in Nat
      /\ size = taken - Ends(Out)
  BY <1>1, Between DEF FrameInv
<1>3. taken \in Nat /\ n \in Nat /\ Len(Wire) \in Nat
  BY <1>2, FramingAssumption DEF FrameInv, FrameTypes
<1>4. d \in Seq(Bytes) /\ Len(d) = n
  BY <1>2, <1>3, PieceIs
<1>5. n <= FreeSpace /\ Fewer(n, FreeSpace) = n
  <2>1. Len(d) <= FreeSpace
    BY DEF CanPush
  <2>2. FreeSpace \in Int
    BY <1>2, CapacityAssumption DEF FreeSpace
  <2> HIDE DEF d
  <2>3. QED
    BY <1>3, <1>4, <2>1, <2>2 DEF Fewer
<1>6. TypeOK' /\ Contents' = Contents \o SubSeq(d, 1, n)
  <2>1. TypeOK /\ moved' \in Seq(Bytes)
    BY DEF FrameInv, FrameTypes, TypeOK
  <2>2. WriteRing(d)
    OBVIOUS
  <2> HIDE DEF d
  <2>3. TypeOK' /\ Contents' = Contents \o SubSeq(d, 1, Fewer(Len(d), FreeSpace))
    BY <1>4, <2>1, <2>2, WriteRingStep
  <2>4. QED
    BY <1>4, <1>5, <2>3
<1>7. SubSeq(d, 1, n) = d
  <2> HIDE DEF d
  <2>1. SubSeq(d, 1, Len(d)) = d
    BY <1>4, SubSeqFull
  <2>2. QED
    BY <1>4, <2>1
<1>8. Contents' = SubSeq(Wire, Ends(Out) + 1, taken + n)
  <2> DEFINE m == Ends(Out) + 1
             z == taken + n
  <2>1. m \in 1..(Len(Wire) + 1) /\ taken \in (m - 1)..Len(Wire) /\ z \in taken..Len(Wire)
    BY <1>2, <1>3 DEF FrameInv, Held
  <2>2. Contents = SubSeq(Wire, m, taken)
    BY <1>1 DEF FrameInv, Held
  <2>3. d = SubSeq(Wire, taken + 1, z)
    OBVIOUS
  <2> HIDE DEF d, m, z
  <2>4. SubSeq(Wire, m, taken) \o SubSeq(Wire, taken + 1, z) = SubSeq(Wire, m, z)
    BY <1>2, <2>1, ConcatAdjacentSubSeq
  <2>5. Contents' = SubSeq(Wire, m, z)
    BY <1>6, <1>7, <2>2, <2>3, <2>4
  <2>6. QED
    BY <2>5 DEF m, z
<1> HIDE DEF d
<1>9. /\ Wire' = Wire /\ \A k : Ends(k)' = Ends(k)
      /\ \A k : WellFormed(k)' = WellFormed(k)
  BY SamePeer
<1>10. /\ Reassembled' /\ FieldsOK' /\ Out' = Out
       /\ popped' \in Seq(Seq(Bytes)) /\ Out' <= NumPackets
  BY PoppedStays
<1>11. FrameTypes'
  <2>1. taken' \in Nat /\ taken' <= Len(Wire')
    BY <1>3, <1>9
  <2>2. QED
    BY <1>1, <1>6, <1>10, <2>1 DEF FrameInv, FrameTypes
<1>12. Held'
  <2>1. Ends(Out)' <= taken'
    BY <1>2, <1>3, <1>9, <1>10 DEF FrameInv, Held
  <2>2. Contents' = SubSeq(Wire, Ends(Out) + 1, taken)'
    BY <1>8, <1>9, <1>10
  <2>3. QED
    BY <1>1, <2>1, <2>2 DEF Held
<1>13. Waits' /\ (RoomEnough => NeverCutOff)'
  BY <1>1 DEF Waits, NeverCutOff
<1>14. QED
  BY <1>10, <1>11, <1>12, <1>13 DEF FrameInv

LEMMA CutOffStep ==
  ASSUME FrameInv, NEW n \in 1..MaxChunk, taken + n <= Len(Wire), phase = "receiving",
         ~CanPush(SubSeq(Wire, taken + 1, taken + n)),
         taken' = taken + n, phase' = "closed", error' = TRUE,
         UNCHANGED ringVars, UNCHANGED <<moved, fields, popped>>
  PROVE  FrameInv'
<1>1. taken \in Nat /\ n \in Nat /\ n >= 1 /\ Len(Wire) \in Nat /\ Wire \in Seq(Bytes)
      /\ Ends(Out) \in Nat
  BY Between, FramingAssumption DEF FrameInv, FrameTypes
<1>2. Len(SubSeq(Wire, taken + 1, taken + n)) = n
  BY <1>1, PieceIs
<1>3. /\ Wire' = Wire /\ \A k : Ends(k)' = Ends(k)
      /\ \A k : WellFormed(k)' = WellFormed(k)
  BY SamePeer
<1>4. /\ Reassembled' /\ FieldsOK' /\ Out' = Out
      /\ popped' \in Seq(Seq(Bytes)) /\ Out' <= NumPackets
  BY PoppedStays
<1>5. FrameTypes'
  <2>1. TypeOK'
    BY RingStays DEF FrameInv, FrameTypes, TypeOK
  <2>2. taken' \in Nat /\ taken' <= Len(Wire')
    BY <1>1, <1>3
  <2>3. QED
    BY <1>4, <2>1, <2>2 DEF FrameTypes
<1>6. Held'
  <2>1. Ends(Out)' <= taken'
    BY <1>1, <1>3, <1>4 DEF FrameInv, Held
  <2>2. QED
    BY <2>1 DEF Held
<1>7. Waits'
  BY DEF Waits
<1>8. (RoomEnough => NeverCutOff)'
  <2>1. RoomEnough => ~\A k \in 1..NumPackets : WellFormed(k)
    BY <1>2, RoomForPiece DEF CanPush
  <2>2. QED
    BY <1>3, <2>1 DEF RoomEnough, NeverCutOff
<1>9. QED
  BY <1>4, <1>5, <1>6, <1>7, <1>8 DEF FrameInv

LEMMA ReceivesStep ==
  ASSUME FrameInv, Receives
  PROVE  FrameInv'
<1>1. PICK n \in 1..MaxChunk :
        LET d == SubSeq(Wire, taken + 1, taken + n) IN
        /\ phase = "receiving"
        /\ taken + n <= Len(Wire)
        /\ taken' = taken + n
        /\ \/ /\ CanPush(d)
              /\ WriteRing(d)
              /\ phase' = "processing"
              /\ UNCHANGED error
           \/ /\ ~CanPush(d)
              /\ error' = TRUE
              /\ phase' = "closed"
              /\ UNCHANGED ringVars
        /\ UNCHANGED <<moved, fields, popped, connections>>
  BY DEF Receives
<1>2. UNCHANGED <<moved, fields, popped>>
  BY <1>1
<1>3. CASE CanPush(SubSeq(Wire, taken + 1, taken + n))
  BY <1>1, <1>2, <1>3, PushStep
<1>4. CASE ~CanPush(SubSeq(Wire, taken + 1, taken + n))
  BY <1>1, <1>2, <1>4, CutOffStep
<1>5. QED
  BY <1>3, <1>4

-----------------------------------------------------------------------------
(* A pop.                                                                  *)

\* The front of a piece of the wire leaves.
LEMMA DropFront ==
  ASSUME NEW w \in Seq(Bytes), NEW a \in Nat, NEW n \in Nat, NEW m \in Nat,
         NEW b, NEW z, NEW l,
         b = a + n, l = n + m, z = a + l, z <= Len(w)
  PROVE  SubSeq(SubSeq(w, a + 1, z), n + 1, l) = SubSeq(w, b + 1, z)
<1> DEFINE c == SubSeq(w, a + 1, a + (n + m))
           e == SubSeq(c, n + 1, n + m)
           g == SubSeq(w, b + 1, b + m)
<1>1. /\ c \in Seq(Bytes) /\ Len(c) = n + m
      /\ \A i \in 1..(n + m) : c[i] = w[a + i]
  BY PieceIs
<1>2. b \in Nat /\ b + m <= Len(w)
  OBVIOUS
<1>3. /\ g \in Seq(Bytes) /\ Len(g) = m
      /\ \A i \in 1..m : g[i] = w[b + i]
  BY <1>2, PieceIs
<1>4. /\ e \in Seq(Bytes) /\ Len(e) = m
      /\ \A i \in 1..m : e[i] = c[n + i]
  <2> HIDE DEF c
  <2>1. QED
    BY <1>1, PieceIs
<1>5. \A i \in 1..m : n + i \in 1..(n + m) /\ a + (n + i) = b + i
  OBVIOUS
<1>6. z = a + (n + m) /\ z = b + m /\ l = n + m
  OBVIOUS
<1> HIDE DEF c, e, g
<1>7. \A i \in 1..m : e[i] = g[i]
  BY <1>1, <1>3, <1>4, <1>5
<1>8. e = g
  BY <1>3, <1>4, <1>7, SeqEqual
<1>9. QED
  BY <1>6, <1>8 DEF c, e, g

LEMMA PopsStep ==
  ASSUME FrameInv, Pops
  PROVE  FrameInv'
<1> DEFINE k == Out + 1
           n == fields[Out + 1]
<1>1. /\ phase = "processing" /\ ~error /\ HasHeader /\ ~BadSize /\ Complete
      /\ ReadRing(NextSize)
      /\ IF Recheck(moved')
         THEN popped' = Append(popped, moved') /\ phase' = Afterwards
         ELSE popped' = popped /\ phase' = "closed"
      /\ UNCHANGED <<error, fields, taken, connections>>
  BY DEF Pops
<1>2. /\ k \in 1..NumPackets
      /\ NextSize = n
      /\ WellFormed(k) /\ Ends(k) <= taken
      /\ Ends(k) = Ends(Out) + WireLen(n)
      /\ n \in Nat
      /\ \A i \in 1..size : i <= WireLen(n) => Contents[i] = <<k, i>>
  BY <1>1, NextHeader DEF FrameInv
<1>3. /\ Ends(Out) \in Nat /\ Wire \in Seq(Bytes)
      /\ Contents \in Seq(Bytes) /\ Len(Contents) = size /\ size \in Nat
      /\ size = taken - Ends(Out)
  BY <1>1, Between DEF FrameInv
<1>4. n >= HeaderLen /\ HeaderLen \in Nat /\ HeaderLen >= 1 /\ WireLen(n) = n
  BY <1>2, FramingAssumption DEF WellFormed, WireLen
<1>5. n <= size /\ n \in 1..size /\ n \in 0..size /\ size # 0
  BY <1>2, <1>3, <1>4 DEF FrameInv, FrameTypes
<1>6. k - 1 = Out /\ Out \in Nat
  BY DEF FrameInv, FrameTypes, Out
<1> HIDE DEF k, n
<1>7. moved' = Fetched(n) /\ Advance(n)
  BY <1>1, <1>2, <1>3, <1>5 DEF ReadRing, Fewer
<1>8. /\ moved' \in Seq(Bytes) /\ Len(moved') = n
      /\ \A i \in 1..n : moved'[i] = <<k, i>>
  <2>1. /\ Fetched(n) \in Seq(Bytes) /\ Len(Fetched(n)) = n
        /\ \A i \in 1..n : Fetched(n)[i] = buf[Cell(i)]
    BY <1>5, FetchedIs DEF FrameInv, FrameTypes
  <2>2. \A i \in 1..size : Contents[i] = buf[Cell(i)]
    BY ContentsIs DEF FrameInv, FrameTypes, InOrder
  <2>3. \A i \in 1..n : i \in 1..size /\ i <= WireLen(n)
    BY <1>2, <1>3, <1>4, <1>5
  <2>4. QED
    BY <1>2, <1>7, <2>1, <2>2, <2>3
<1>9. moved' = Packet(k)
  <2>1. FieldsOK /\ WireLen(fields[k]) = n
    BY <1>4 DEF FrameInv, FrameTypes, k, n
  <2>2. /\ Packet(k) \in Seq(Bytes) /\ Len(Packet(k)) = n
        /\ \A i \in 1..n : Packet(k)[i] = <<k, i>>
    BY <1>2, <2>1, PacketIs
  <2>3. \A i \in 1..n : moved'[i] = Packet(k)[i]
    BY <1>8, <2>2
  <2>4. QED
    BY <1>8, <2>2, <2>3, SeqEqual
<1>10. Recheck(moved')
  <2>1. moved'[1] = <<k, 1>>
    BY <1>2, <1>4, <1>8
  <2>2. moved'[1][1] = k
    BY <2>1
  <2>3. fields[k] = n
    BY DEF k, n
  <2>4. QED
    BY <1>4, <1>8, <2>2, <2>3 DEF Recheck
<1>11. popped' = Append(popped, moved') /\ phase' = "processing"
       /\ error' = error /\ fields' = fields /\ taken' = taken
  BY <1>1, <1>10 DEF Afterwards
<1>12. TypeOK' /\ Contents' = SubSeq(Contents, n + 1, size)
  BY <1>5, <1>7, <1>8, AdvanceStep DEF FrameInv, FrameTypes
<1>13. /\ Wire' = Wire /\ \A j : Ends(j)' = Ends(j)
       /\ \A j : Packet(j)' = Packet(j)
       /\ \A j : WellFormed(j)' = WellFormed(j)
  BY <1>11, SamePeer
<1>14. /\ popped' \in Seq(Seq(Bytes)) /\ Out' = k
       /\ popped'[k] = Packet(k)
       /\ \A j \in 1..Out : popped'[j] = popped[j]
  <2> DEFINE p == moved'
  <2>1. popped \in Seq(Seq(Bytes)) /\ p \in Seq(Bytes) /\ popped' = Append(popped, p)
        /\ p = Packet(k) /\ k = Len(popped) + 1
    BY <1>8, <1>9, <1>11 DEF FrameInv, FrameTypes, Out, k
  <2> HIDE DEF p
  <2>2. /\ Append(popped, p) \in Seq(Seq(Bytes)) /\ Len(Append(popped, p)) = k
        /\ Append(popped, p)[k] = p
        /\ \A j \in 1..Len(popped) : Append(popped, p)[j] = popped[j]
    BY <2>1
  <2>3. QED
    BY <2>1, <2>2 DEF Out
<1>15. Reassembled'
  <2>1. ASSUME NEW j \in 1..k PROVE WellFormed(j) /\ popped'[j] = Packet(j)
    <3>1. CASE j = k
      BY <1>2, <1>14, <3>1
    <3>2. CASE j # k
      <4>1. j \in 1..Out
        BY <1>2, <1>6, <3>2
      <4>2. QED
        BY <1>14, <4>1 DEF FrameInv, Reassembled, Out
    <3>3. QED
      BY <3>1, <3>2
  <2>2. QED
    BY <1>13, <1>14, <2>1 DEF Reassembled, Out
<1>16. FrameTypes'
  <2>1. FieldsOK' /\ Out' <= NumPackets /\ taken' \in Nat /\ taken' <= Len(Wire')
        /\ error' \in BOOLEAN
    BY <1>2, <1>11, <1>13, <1>14, FramingAssumption DEF FrameInv, FrameTypes, FieldsOK
  <2>2. QED
    BY <1>11, <1>12, <1>14, <2>1 DEF FrameTypes
<1>17. Contents' = SubSeq(Wire, Ends(k) + 1, taken)
  <2> DEFINE a == Ends(Out)
             m == size - n
  <2>1. m \in Nat /\ size = n + m /\ taken = a + size /\ Ends(k) = a + n
        /\ taken <= Len(Wire) /\ a \in Nat
    BY <1>2, <1>3, <1>4, <1>5 DEF FrameInv, FrameTypes
  <2>2. Contents = SubSeq(Wire, a + 1, taken)
    BY <1>1 DEF FrameInv, Held
  <2> HIDE DEF a, m
  <2>3. SubSeq(SubSeq(Wire, a + 1, taken), n + 1, size) = SubSeq(Wire, Ends(k) + 1, taken)
    <3>1. n \in Nat /\ Wire \in Seq(Bytes)
      BY <1>2, <1>3
    <3> DEFINE b == Ends(k)
    <3>2. b = a + n /\ size = n + m /\ taken = a + size
      BY <2>1
    <3> HIDE DEF b
    <3>3. SubSeq(SubSeq(Wire, a + 1, taken), n + 1, size) = SubSeq(Wire, b + 1, taken)
      BY <2>1, <3>1, <3>2, DropFront
    <3>4. QED
      BY <3>3 DEF b
  <2>4. QED
    BY <1>12, <2>2, <2>3
<1>18. Held'
  <2>1. Ends(Out)' = Ends(k)
    BY <1>13, <1>14
  <2>2. Ends(Out)' <= taken'
    BY <1>2, <1>11, <2>1
  <2>3. Contents' = SubSeq(Wire, Ends(Out) + 1, taken)'
    BY <1>11, <1>13, <1>17, <2>1
  <2>4. QED
    BY <1>1, <1>11, <2>2, <2>3 DEF Held
<1>19. Waits' /\ (RoomEnough => NeverCutOff)'
  BY <1>1, <1>11 DEF Waits, NeverCutOff
<1>20. QED
  BY <1>15, <1>16, <1>18, <1>19 DEF FrameInv

LEMMA FrameStep == FrameInv /\ [RecvNext]_recvVars => FrameInv'
<1> SUFFICES ASSUME FrameInv, [RecvNext]_recvVars PROVE FrameInv'
  OBVIOUS
<1>1. CASE UNCHANGED recvVars
  <2>1. /\ UNCHANGED ringVars
        /\ UNCHANGED <<moved, error, fields, taken, phase, popped>>
    BY <1>1 DEF recvVars
  <2>2. /\ Wire' = Wire /\ \A k : Ends(k)' = Ends(k)
        /\ \A k : WellFormed(k)' = WellFormed(k)
    BY <2>1, SamePeer
  <2>3. /\ Reassembled' /\ FieldsOK' /\ Out' = Out
        /\ popped' \in Seq(Seq(Bytes)) /\ Out' <= NumPackets
    BY <2>1, PoppedStays
  <2>4. Contents' = Contents /\ TypeOK'
    BY <2>1, RingStays DEF FrameInv, FrameTypes, TypeOK
  <2>5. FrameTypes' /\ Held' /\ Waits'
    BY <2>1, <2>2, <2>3, <2>4 DEF FrameInv, FrameTypes, Held, Waits
  <2>6. (RoomEnough => NeverCutOff)'
    BY <2>1, <2>2 DEF FrameInv, RoomEnough, NeverCutOff
  <2>7. QED
    BY <2>3, <2>5, <2>6 DEF FrameInv
<1>2. QED
  BY <1>1, ReceivesStep, PausesStep, RefusesHeaderStep, PopsStep, ReusedStep DEF RecvNext

\* When the session waits, the packets that are whole are those handed over.
LEMMA WholeAreOut == FrameInv => NothingWaits
<1> SUFFICES ASSUME FrameInv, phase = "receiving" PROVE Out = Cardinality(Arrived)
  BY DEF NothingWaits, Out
<1>1. Out \in Nat /\ Out <= NumPackets /\ NumPackets \in Nat /\ taken \in Nat /\ FieldsOK
  BY FramingAssumption DEF FrameInv, FrameTypes, Out
<1>2. ASSUME NEW k \in Arrived PROVE k \in 1..Out
  <2>1. k \in 1..NumPackets /\ (\A i \in 1..k : WellFormed(i)) /\ Ends(k) <= taken
    BY DEF Arrived, Ends
  <2>2. SUFFICES ASSUME k > Out PROVE FALSE
    BY <1>1, <2>1
  <2> DEFINE j == Out + 1
  <2>3. j \in 1..k /\ j \in 1..NumPackets /\ j \in 0..NumPackets /\ k \in j..NumPackets
        /\ Out # NumPackets
    BY <1>1, <2>1, <2>2
  <2>4. WellFormed(j) /\ taken < Ends(j)
    BY <2>1, <2>3 DEF FrameInv, Waits
  <2> HIDE DEF j
  <2>5. Ends(j) \in Nat /\ Ends(k) \in Nat /\ Ends(j) <= Ends(k)
    BY <1>1, <2>3, SentPrefix
  <2>6. QED
    BY <1>1, <2>1, <2>4, <2>5
<1>3. ASSUME NEW k \in 1..Out PROVE k \in Arrived
  <2>1. k \in 1..NumPackets /\ k \in 0..NumPackets /\ Out \in k..NumPackets
    BY <1>1
  <2>2. \A i \in 1..k : WellFormed(i)
    BY <1>1 DEF FrameInv, Reassembled, Out
  <2>3. Ends(k) \in Nat /\ Ends(Out) \in Nat /\ Ends(k) <= Ends(Out)
    BY <1>1, <2>1, SentPrefix
  <2>4. Ends(k) <= taken
    BY <1>1, <2>3 DEF FrameInv, Held
  <2>5. QED
    BY <2>1, <2>2, <2>4 DEF Arrived, Ends
<1>4. Arrived = 1..Out
  <2>1. \A k \in Arrived : k \in 1..Out
    BY <1>2
  <2>2. \A k \in 1..Out : k \in Arrived
    BY <1>3
  <2>3. QED
    BY <2>1, <2>2
<1>5. QED
  BY <1>1, <1>4, FS_Interval

\* Every packet the owner gets is one the peer sent, whole, in the order sent
\* and once, and none comes after a refused header: for any capacity, sizes,
\* number of packets and connections, and however TCP cuts them up
\* (RecvRing::push and try_pop_packet, Session::ProcessPacketsFromRing).
THEOREM PacketsReassembled == RecvSpec => []Reassembled
<1>1. FrameInv => Reassembled
  BY DEF FrameInv
<1>2. QED
  BY <1>1, FrameInit, FrameStep, PTL DEF RecvSpec

\* When the session waits for bytes, every packet that is complete was handed
\* over, for any sizes and pieces (the loop of Session::ProcessPacketsFromRing).
THEOREM NoPacketWaits == RecvSpec => []NothingWaits
<1>1. QED
  BY WholeAreOut, FrameInit, FrameStep, PTL DEF RecvSpec

\* With room for a full receive buffer beside the longest incomplete packet, a
\* peer that keeps to the protocol is never cut off (Session.cpp 124, 146, 156).
THEOREM ProtocolIsEnough ==
  ASSUME MaxChunk + MaxPacket <= Capacity + 1
  PROVE  RecvSpec => []NeverCutOff
<1>1. FrameInv => NeverCutOff
  BY DEF FrameInv, RoomEnough
<1>2. QED
  BY <1>1, FrameInit, FrameStep, PTL DEF RecvSpec
=============================================================================
