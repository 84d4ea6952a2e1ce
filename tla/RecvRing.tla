------------------------------ MODULE RecvRing ------------------------------
(***************************************************************************)
(* IOCP/RecvRing.h over RingBuffer, driven as Session::OnRecvCompleted and *)
(* ProcessPacketsFromRing drive it: TCP delivers a connection's packets in *)
(* pieces of any length, the ring puts them together again.  A byte is     *)
(* named by its packet and its place in it; the first HeaderLen bytes of a *)
(* packet give its size field, which need not be a size the code accepts.  *)
(***************************************************************************)
EXTENDS RingBuffer, FiniteSets

CONSTANTS
  HeaderLen,           \* sizeof(PacketHeader)
  MaxPacket,           \* max_packet_size_
  MaxChunk,            \* size of a receive buffer
  SizeFields,          \* size fields the peer may put into a header
  NumPackets,          \* bound: packets of one connection
  MaxConnections       \* bound: connections served by the slot

ASSUME FramingAssumption ==
  /\ HeaderLen \in Nat \ {0} /\ MaxChunk \in Nat \ {0}
  /\ MaxPacket \in Nat /\ NumPackets \in Nat /\ MaxConnections \in Nat
  /\ SizeFields \subseteq Nat

\* A packet with size field f is on the wire at least a header.
WireLen(f) == IF f < HeaderLen THEN HeaderLen ELSE f

ASSUME CellsAssumption ==
  /\ <<0, 0>> \in Bytes
  /\ \A k \in 1..NumPackets, f \in SizeFields : \A i \in 1..WireLen(f) : <<k, i>> \in Bytes

VARIABLES
  error,               \* error_
  fields,              \* the size fields of the packets this peer sends
  taken,               \* bytes of the connection delivered so far
  phase,               \* "receiving", "processing" or "closed"
  popped,              \* packets handed to the owner
  connections          \* connections served so far

recvVars == <<ringVars, moved, error, fields, taken, phase, popped, connections>>

Packet(k) == [i \in 1..WireLen(fields[k]) |-> <<k, i>>]

\* The first k packets of the peer, one after the other.
Sent[k \in 0..NumPackets] == IF k = 0 THEN <<>> ELSE Sent[k - 1] \o Packet(k)

Wire == Sent[NumPackets]

RecvInit ==
  /\ buf = [j \in Cells |-> <<0, 0>>]
  /\ head = 0 /\ tail = 0 /\ size = 0 /\ moved = <<>>
  /\ error = FALSE
  /\ fields \in [1..NumPackets -> SizeFields]
  /\ taken = 0 /\ popped = <<>>
  /\ phase = "receiving"
  /\ connections = 1

\* push: all of the piece or none of it.
CanPush(d) == ~error /\ Len(d) <= FreeSpace

\* A receive completes with the piece d.
Receives ==
  \E n \in 1..MaxChunk :
    LET d == SubSeq(Wire, taken + 1, taken + n) IN
    /\ phase = "receiving"
    /\ taken + n <= Len(Wire)
    /\ taken' = taken + n
    /\ \/ /\ CanPush(d)
          /\ WriteRing(d)
          /\ phase' = "processing"
          /\ UNCHANGED error
       \/ /\ ~CanPush(d)
          /\ error' = TRUE
          /\ phase' = "closed"
          /\ UNCHANGED ringVars
    /\ UNCHANGED <<moved, fields, popped, connections>>

\* header.size by peek; bytes that are no header give some size nobody meant.
NextSize ==
  LET h == Fetched(HeaderLen) IN
  IF \E k \in 1..NumPackets : h = SubSeq(Packet(k), 1, HeaderLen)
  THEN fields[h[1][1]]
  ELSE 0

\* Mutant: a header may be read as soon as one byte of it is there.
HasHeader_Early == size > 0

HasHeader == size >= HeaderLen

\* Mutant: sizes above the maximum are let through.
BadSize_NoMaximum == NextSize < HeaderLen

BadSize == NextSize < HeaderLen \/ NextSize > MaxPacket

Complete == size >= NextSize

\* try_pop_packet refuses: the loop of ProcessPacketsFromRing ends and PostRecv
\* goes on receiving, even after a header it cannot accept.
Pauses ==
  /\ phase = "processing"
  /\ \/ ~HasHeader
     \/ HasHeader /\ ~BadSize /\ ~Complete
  /\ phase' = "receiving"
  /\ UNCHANGED <<ringVars, moved, error, fields, taken, popped, connections>>

RefusesHeader ==
  /\ phase = "processing"
  /\ ~error /\ HasHeader /\ BadSize
  /\ error' = TRUE
  /\ phase' = "receiving"
  /\ UNCHANGED <<ringVars, moved, fields, taken, popped, connections>>

\* ProcessPacketsFromRing reads the size field again, from the packet.
Recheck(p) == Len(p) >= HeaderLen /\ fields[p[1][1]] = Len(p)

\* Mutant: the loop is an if.
Afterwards_Once == "receiving"

Afterwards == "processing"

\* try_pop_packet succeeds and the packet goes to OnRawPacket.
Pops ==
  /\ phase = "processing"
  /\ ~error /\ HasHeader /\ ~BadSize /\ Complete
  /\ ReadRing(NextSize)
  /\ IF Recheck(moved')
     THEN popped' = Append(popped, moved') /\ phase' = Afterwards
     ELSE popped' = popped /\ phase' = "closed"
  /\ UNCHANGED <<error, fields, taken, connections>>

\* The session is disconnected, reset and given to another connection: clear.
Reused ==
  /\ connections < MaxConnections
  /\ phase # "processing"
  /\ ClearRing
  /\ error' = FALSE
  /\ fields' \in [1..NumPackets -> SizeFields]
  /\ taken' = 0 /\ popped' = <<>>
  /\ phase' = "receiving"
  /\ connections' = connections + 1
  /\ UNCHANGED moved

RecvNext == Receives \/ Pauses \/ RefusesHeader \/ Pops \/ Reused

RecvSpec == RecvInit /\ [][RecvNext]_recvVars

-----------------------------------------------------------------------------

WellFormed(k) == fields[k] \in HeaderLen..MaxPacket

\* Packets that are whole among the bytes delivered and follow no bad header.
Arrived ==
  {k \in 1..NumPackets :
     /\ \A i \in 1..k : WellFormed(i)
     /\ Len(Sent[k]) <= taken}

\* The owner gets the packets of the connection as they were sent: in order,
\* each once and whole, however TCP cut them up, and none after a header that
\* was refused (RecvRing::try_pop_packet, Session::ProcessPacketsFromRing).
Reassembled ==
  \A k \in 1..Len(popped) : WellFormed(k) /\ popped[k] = Packet(k)

\* When the session waits for more bytes it has handed over every packet that
\* is complete: a packet never waits for the next one to arrive.
NothingWaits == phase = "receiving" => Len(popped) = Cardinality(Arrived)

\* A peer that sends only what the protocol allows is never cut off: the ring
\* has room for a full receive buffer beside the longest incomplete packet
\* (Session.cpp 124, 146, 156).
NeverCutOff ==
  (\A k \in 1..NumPackets : WellFormed(k)) => phase # "closed" /\ ~error
=============================================================================
