------------------------------- MODULE Hasher -------------------------------
(***************************************************************************)
(* SHA256, the hasher object: bytes are collected into blocks, the last    *)
(* one is padded, and the object may be used again.  Transform, the        *)
(* compression of one block into state_, is not modelled: what state_      *)
(* stands for is the sequence of the bytes it was given.                   *)
(***************************************************************************)
EXTENDS Integers, Sequences

CONSTANTS
  BlockBytes,     \* buffer_.size(), 64
  LengthBytes,    \* the bytes of the length at the end of the last block, 8
  MaxData,        \* bound: bytes given in one call
  MaxMessage      \* bound: bytes of one message

ASSUME HasherAssumption ==
  /\ LengthBytes \in Nat \ {0}
  /\ BlockBytes \in Nat /\ BlockBytes > LengthBytes
  /\ MaxData \in Nat

VARIABLES
  bitLength,      \* bitLength_
  block,          \* the first bufferSize_ bytes of buffer_
  finalized,      \* finalized_
  absorbed,       \* state_: the bytes Transform was given since Reset
  message         \* history: the bytes of the message, in order

hasherVars == <<bitLength, block, finalized, absorbed, message>>

HasherInit ==
  /\ bitLength = 0 /\ block = <<>> /\ finalized = FALSE
  /\ absorbed = <<>> /\ message = <<>>

Zeros(n) == [i \in 1..n |-> 0]
BigEndian(n) == [i \in 1..LengthBytes |-> (n \div 256 ^ (LengthBytes - i)) % 256]

\* The next n bytes of a message of which m are known: neighbours differ.
Data(m, n) == [i \in 1..n |-> 1 + ((m + i) % 3)]

\* The loop of Update on a hasher that holds b and has absorbed a.
Collect(a, b, len, data) ==
  LET all  == b \o data
      full == Len(all) - (Len(all) % BlockBytes)
  IN /\ absorbed' = a \o SubSeq(all, 1, full)
     /\ block' = SubSeq(all, full + 1, Len(all))
     /\ bitLength' = len + 8 * full

\* Update: a hasher that was finalized starts a new message.
Update(n) ==
  /\ IF finalized
       THEN /\ message' = Data(0, n)
            /\ Collect(<<>>, <<>>, 0, Data(0, n))
       ELSE LET d == Data(Len(message), n) IN
            /\ Len(message) + n <= MaxMessage
            /\ message' = message \o d
            /\ Collect(absorbed, block, bitLength, d)
  /\ finalized' = FALSE

\* Mutant: a block that the 0x80 fills up to the length's place is given away.
NoRoom_AtLimit(used) == used >= BlockBytes - LengthBytes

\* bufferSize_ > 56
NoRoom(used) == used > BlockBytes - LengthBytes

\* Pad of a hasher that holds b and has counted len bits: what it hands to
\* Transform, in one block or two.
Padding(b, len) ==
  LET bits  == len + 8 * Len(b)
      used  == Len(b) + 1
      first == IF NoRoom(used) THEN Zeros(BlockBytes - used) ELSE <<>>
      rest  == IF NoRoom(used) THEN 0 ELSE used
  IN b \o <<128>> \o first \o Zeros(BlockBytes - LengthBytes - rest) \o BigEndian(bits)

Finalize ==
  /\ IF finalized
       THEN UNCHANGED <<absorbed, bitLength, block>>
       ELSE /\ absorbed' = absorbed \o Padding(block, bitLength)
            /\ bitLength' = bitLength + 8 * Len(block)
            /\ block' = <<>>
  /\ finalized' = TRUE
  /\ UNCHANGED message

\* CalculateHex: Reset, Update, Finalize.
CalculateHex(n) ==
  LET d    == Data(0, n)
      full == n - (n % BlockBytes)
  IN /\ message' = d
     /\ absorbed' = SubSeq(d, 1, full) \o Padding(SubSeq(d, full + 1, n), 8 * full)
     /\ bitLength' = 8 * n
     /\ block' = <<>>
     /\ finalized' = TRUE

HasherNext ==
  \/ \E n \in 0..MaxData : Update(n) \/ CalculateHex(n)
  \/ Finalize

HasherSpec == HasherInit /\ [][HasherNext]_hasherVars

-----------------------------------------------------------------------------

\* A digest is that of the whole message, padded as the standard says: a 1 bit,
\* as few zeros as fill the last block, and the length in bits; however the
\* message was cut into calls, and whatever the object was used for before.
Padded(m) ==
  LET zeros == CHOOSE k \in 0..(BlockBytes - 1) : (Len(m) + 1 + k + LengthBytes) % BlockBytes = 0
  IN m \o <<128>> \o Zeros(zeros) \o BigEndian(8 * Len(m))
Digest == finalized => absorbed = Padded(message)
=============================================================================
