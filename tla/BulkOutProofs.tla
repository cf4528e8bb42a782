------------------------------ MODULE BulkOutProofs ------------------------------
(***************************************************************************)
(* The OUT path for every packet size, every depth of the FIFO that holds  *)
(* a packet, any number of bytes, of losses and of cleared halts: what the *)
(* consumer gets is what the host sent.                                    *)
(***************************************************************************)
EXTENDS BulkOut, SequenceTheorems, TLAPS

\* The handshake is chosen before the packet is settled: the gap is one clock at high
\* speed and two at full speed in a domain of 12 MHz.  With ten clocks the order is not kept.
Prompt == Delays \subseteq {1, 2}

---------------------------------------------------------------------------
(* The inductive invariant: types *)

Entry == [byte : Nat, last : BOOLEAN, first : BOOLEAN]

ReceiverTypes ==
  /\ counter \in Nat /\ rx_to_tx_delay \in Delays
  /\ rx_state \in {"IDLE", "READ_PID", "RECEIVE_FIRST_BYTE", "RECEIVE_SECOND_BYTE",
                   "RECEIVE_AND_EMIT", "INTERPACKET_DELAY", "IRRELEVANT"}
  /\ active_pid \in {0, 1} /\ data_pipeline \in Nat \X Nat
  /\ packet_complete \in BOOLEAN /\ crc_mismatch \in BOOLEAN
DetectorTypes ==
  /\ bd_state \in {"WAIT_FOR_FIRST_BYTE", "RECEIVE_AND_TRANSMIT", "OUTPUT_STROBES"}
  /\ buffered_byte \in Nat /\ is_first_byte \in BOOLEAN
  /\ buffered_complete \in BOOLEAN /\ buffered_invalid \in BOOLEAN
  /\ out \in [next : BOOLEAN, byte : Nat, first : BOOLEAN, last : BOOLEAN,
              complete : BOOLEAN, invalid : BOOLEAN]
EndpointTypes ==
  /\ streamed \in Seq(Entry) /\ committed \in Seq(Entry) /\ pending \in Seq(Entry)
  /\ taken \in 0 .. Len(committed) /\ Len(committed) + Len(pending) <= buffer_size
  /\ expected_data_toggle \in {0, 1} /\ rx_cnt \in Nat
  /\ overflow \in BOOLEAN /\ transfer_active \in BOOLEAN
HostTypes ==
  /\ token \in {"out", "ping", "other"}
  /\ wire \in {"quiet", "token", "pid", "data", "sent", "pinged"}
  /\ bus \in Seq(Nat) /\ intact \in BOOLEAN
  /\ host_acked \in Nat /\ packet_len \in 0 .. max_packet_size
  /\ short_ends \subseteq 1 .. host_acked /\ host_toggle \in {0, 1}
  /\ ping_acked \in BOOLEAN /\ halts_cleared \in Nat
Types == ReceiverTypes /\ DetectorTypes /\ EndpointTypes /\ HostTypes

---------------------------------------------------------------------------
(* The inductive invariant: how far a packet has come *)

Ends == packet_complete \/ crc_mismatch

\* The detector holds nothing and says nothing.
DetectorQuiet == bd_state = "WAIT_FOR_FIRST_BYTE" /\ ~out.next /\ ~out.complete /\ ~out.invalid

\* The detector's own order: bytes, the last one of them, the strobe.
Strobes ==
  /\ ~(packet_complete /\ crc_mismatch) /\ ~(out.complete /\ out.invalid)
  /\ bd_state # "OUTPUT_STROBES" => ~buffered_complete /\ ~buffered_invalid
  /\ bd_state = "OUTPUT_STROBES" => /\ buffered_complete <=> ~buffered_invalid
                                    /\ out.next /\ out.last
  /\ out.next => bd_state # "WAIT_FOR_FIRST_BYTE" /\ ~out.complete /\ ~out.invalid
  /\ bd_state = "RECEIVE_AND_TRANSMIT" => ~out.last /\ ~out.complete /\ ~out.invalid

\* The detector follows the receiver.
Stages ==
  /\ Ends => bd_state # "OUTPUT_STROBES" /\ ~out.complete /\ ~out.invalid
  /\ packet_complete => rx_state = "INTERPACKET_DELAY"
  /\ crc_mismatch \/ buffered_invalid \/ out.invalid => rx_state = "IDLE"
  /\ bd_state = "RECEIVE_AND_TRANSMIT" => Ends \/ rx_state = "RECEIVE_AND_EMIT"
  /\ rx_state \in {"READ_PID", "RECEIVE_FIRST_BYTE", "RECEIVE_SECOND_BYTE", "IRRELEVANT"}
       => ~Ends /\ DetectorQuiet
  /\ rx_state = "RECEIVE_AND_EMIT" => ~Ends /\ bd_state # "OUTPUT_STROBES" /\ ~out.complete /\ ~out.invalid

\* The receiver follows the bus.
OnTheBus ==
  /\ wire = "pid" <=> rx_state = "READ_PID"
  /\ wire = "data" <=> rx_state \in {"RECEIVE_FIRST_BYTE", "RECEIVE_SECOND_BYTE", "RECEIVE_AND_EMIT", "IRRELEVANT"}
  /\ wire \in {"token", "pinged"} => Settled
  /\ wire = "quiet" => /\ rx_state = "IDLE" /\ ~Ends /\ bd_state = "WAIT_FOR_FIRST_BYTE" /\ ~out.next
                       /\ ~out.invalid /\ (out.complete => token = "out")
  /\ wire = "data" /\ intact => rx_state # "IRRELEVANT"
  /\ wire = "pinged" => token = "ping"
  /\ wire \in {"token", "pid", "data", "sent"} => token \in {"out", "other"}

\* The answer to a packet is chosen while its last byte or its strobe is on the way.
InTime ==
  /\ rx_state = "INTERPACKET_DELAY" =>
       /\ counter <= rx_to_tx_delay /\ (packet_complete => counter = 0)
       /\ bd_state = "OUTPUT_STROBES" => counter = 1
       /\ out.complete => counter = 2
  /\ token = "out" /\ wire = "sent" /\ (out.complete \/ buffered_complete) => rx_state = "INTERPACKET_DELAY"

\* The control is inductive for every delay.
Control == Types /\ Strobes /\ Stages /\ OnTheBus /\ InTime

\* The packet's bytes on their way: on the bus, in the receiver, in the detector.
PacketByte(k) == IF k <= packet_len THEN host_acked + k ELSE 0
Position ==
  token = "out" =>
    /\ wire = "pid" => bus = PacketBytes
    /\ wire = "data" /\ rx_state # "IRRELEVANT" =>
         LET come == packet_len + 2 - Len(bus)
         IN  /\ Len(bus) <= packet_len + 2
             /\ \A k \in 1 .. Len(bus) : bus[k] = PacketByte(come + k)
             /\ rx_state = "RECEIVE_FIRST_BYTE" => come = 0
             /\ rx_state = "RECEIVE_SECOND_BYTE" => come = 1 /\ data_pipeline[2] = PacketByte(1)
             /\ rx_state = "RECEIVE_AND_EMIT" =>
                  /\ come >= 2 /\ data_pipeline = <<PacketByte(come - 1), PacketByte(come)>>
                  /\ bd_state = "WAIT_FOR_FIRST_BYTE" => come = 2
                  /\ bd_state = "RECEIVE_AND_TRANSMIT" => come > 2 /\ buffered_byte = host_acked + come - 2
    /\ bd_state = "RECEIVE_AND_TRANSMIT" =>
         /\ buffered_byte - host_acked \in 1 .. packet_len
         /\ packet_complete => buffered_byte = host_acked + packet_len
    /\ rx_state = "INTERPACKET_DELAY" /\ DetectorQuiet => packet_len = 0

---------------------------------------------------------------------------
(* The inductive invariant: what the endpoint has made of it *)

\* The device expects the packet that the host is trying to send.
Fresh == expected_data_toggle = host_toggle

\* A packet for the endpoint is on its way in and not answered.
Arriving ==
  /\ token = "out" /\ wire # "quiet"
  /\ \/ rx_state \in {"RECEIVE_FIRST_BYTE", "RECEIVE_SECOND_BYTE", "RECEIVE_AND_EMIT", "INTERPACKET_DELAY"}
     \/ Ends \/ ~DetectorQuiet

\* Bytes of the packet that the endpoint has written, or the detector is about to hand over.
Flow ==
  /\ Arriving => active_pid = host_toggle
  /\ Len(pending) < rx_counts => rx_cnt = Len(pending)
  /\ token # "out" \/ DetectorQuiet => pending = << >> /\ ~overflow
  /\ Arriving /\ ~Fresh => pending = << >> /\ ~overflow
  /\ Arriving /\ Fresh /\ ~overflow =>
       /\ \A k \in 1 .. Len(pending) : pending[k].byte = host_acked + k
       /\ ~out.complete /\ ~out.invalid => \A k \in 1 .. Len(pending) : ~pending[k].last
       /\ bd_state = "RECEIVE_AND_TRANSMIT" =>
            buffered_byte = host_acked + Len(pending) + (IF out.next THEN 2 ELSE 1)
       /\ out.next => out.byte = host_acked + Len(pending) + 1
       /\ bd_state = "OUTPUT_STROBES" => Len(pending) < packet_len
       /\ buffered_complete => Len(pending) + 1 = packet_len
       /\ out.complete =>
            /\ Len(pending) = packet_len
            /\ \A k \in 1 .. packet_len : pending[k].last <=> k = packet_len /\ packet_len < max_packet_size

\* A PING was answered with an ACK: there is room for the packet that follows.
RoomKept ==
  ping_acked => /\ buffer_size - Len(committed) >= max_packet_size /\ ~overflow
                /\ ~(wire = "quiet" /\ out.complete)

\* What the endpoint will have let through once it has settled.
Accepted == token = "out" /\ wire = "quiet" /\ out.complete /\ ~overflow
Through == IF Accepted THEN Kept \o pending ELSE Kept
HeldOf(t) == IF t = << >> THEN 0 ELSE t[Len(t)].byte

\* The bytes that end a short packet, those of the packet being sent included.
EndingOf(ends, acked, n) == IF n \in 1 .. max_packet_size - 1 THEN ends \cup {acked + n} ELSE ends
Ending == EndingOf(short_ends, host_acked, packet_len)

\* No byte is skipped, and none is there twice unless a halt was cleared.
Ordered(t, top, ends, halts) ==
  \A k \in 1 .. Len(t) :
    /\ t[k].byte \in 1 .. k /\ t[k].byte <= top
    /\ k > 1 => t[k].byte <= t[k - 1].byte + 1
    /\ t[k].last <=> t[k].byte \in ends
    /\ halts = 0 => t[k].byte = k

\* The device holds what was ACKed, and it expects the next packet unless it holds that too.
InOrder ==
  /\ Ordered(Through, host_acked + packet_len, Ending, halts_cleared)
  /\ Fresh  => \/ HeldOf(Through) = host_acked
               \/ halts_cleared > 0 /\ HeldOf(Through) = host_acked + packet_len
  /\ ~Fresh => HeldOf(Through) = host_acked + packet_len

IInv == Control /\ Position /\ Flow /\ RoomKept /\ InOrder

---------------------------------------------------------------------------
(* The FIFO *)

Joined(a, b) == a \o b

LEMMA JoinedAssociative ==
  ASSUME NEW S, NEW a \in Seq(S), NEW b \in Seq(S), NEW c \in Seq(S)
  PROVE  Joined(Joined(a, b), c) = Joined(a, Joined(b, c))
BY DEF Joined

\* What has been read of a queue is dropped from it a clock later: read out and left in
\* are together what they were, and what is committed comes after them.
ReadsAndDrops(S, s, c, p, t, r) ==
  LET left == SubSeq(c, t + 1, Len(c))
      read == IF r = 1 THEN <<c[t + 1]>> ELSE << >>
      next == left \o p
  IN  /\ left \in Seq(S) /\ Len(left) = Len(c) - t
      /\ next \in Seq(S) /\ Len(next) = Len(c) - t + Len(p) /\ r \in 0 .. Len(next)
      /\ (s \o read) \in Seq(S)
      /\ (s \o read) \o SubSeq(next, r + 1, Len(next)) = (s \o left) \o p

LEMMA ReadAndDrop ==
  ASSUME NEW S, NEW s \in Seq(S), NEW c \in Seq(S), NEW p \in Seq(S), NEW t \in 0 .. Len(c),
         NEW r \in {0, 1}, r = 1 => t < Len(c)
  PROVE  ReadsAndDrops(S, s, c, p, t, r)
<1> DEFINE left == SubSeq(c, t + 1, Len(c))
           read == IF r = 1 THEN <<c[t + 1]>> ELSE << >>
           next == left \o p
<1>0. s \in Seq(S) /\ p \in Seq(S)
  OBVIOUS
<1>1. /\ left \in Seq(S) /\ Len(left) = Len(c) - t
      /\ \A i \in 1 .. Len(c) - t : left[i] = c[t + i]
  <2>1. Len(c) \in Nat /\ \A i \in t + 1 .. Len(c) : c[i] \in S
    BY ElementOfSeq
  <2>2. /\ left \in Seq(S)
        /\ Len(left) = IF t + 1 <= Len(c) THEN Len(c) - (t + 1) + 1 ELSE 0
        /\ \A i \in 1 .. Len(c) - (t + 1) + 1 : left[i] = c[t + 1 + i - 1]
    BY <2>1, SubSeqProperties
  <2>3. QED BY <2>1, <2>2
<1>2. read \in Seq(S) /\ Len(read) = r /\ (r = 1 => read[1] = c[t + 1])
  BY ElementOfSeq
<1>3. /\ next \in Seq(S) /\ Len(next) = Len(c) - t + Len(p)
      /\ \A i \in 1 .. Len(next) : next[i] = IF i <= Len(c) - t THEN left[i] ELSE p[i - (Len(c) - t)]
  <2>1. Len(c) \in Nat /\ Len(p) \in Nat
    OBVIOUS
  <2> HIDE DEF left
  <2>2. /\ next \in Seq(S) /\ Len(next) = Len(left) + Len(p)
        /\ \A i \in 1 .. Len(left) + Len(p) : next[i] = IF i <= Len(left) THEN left[i] ELSE p[i - Len(left)]
    BY <1>1, ConcatProperties, Zenon
  <2> HIDE DEF next
  <2>3. QED BY <1>1, <2>1, <2>2
<1>4. r \in 0 .. Len(next) /\ Len(next) \in Nat
  BY <1>3
<1> DEFINE rest == SubSeq(next, r + 1, Len(next))
<1>5. /\ rest \in Seq(S) /\ Len(rest) = Len(next) - r
      /\ \A i \in 1 .. Len(next) - r : rest[i] = next[r + i]
  <2> HIDE DEF next
  <2>1. \A i \in r + 1 .. Len(next) : next[i] \in S
    BY <1>3, <1>4, ElementOfSeq
  <2>2. /\ rest \in Seq(S)
        /\ Len(rest) = IF r + 1 <= Len(next) THEN Len(next) - (r + 1) + 1 ELSE 0
        /\ \A i \in 1 .. Len(next) - (r + 1) + 1 : rest[i] = next[r + 1 + i - 1]
    BY <1>4, <2>1, SubSeqProperties
  <2>3. QED BY <1>4, <2>2
<1> HIDE DEF left, read, next, rest
<1>6. read \o rest = next
  <2>1. read \o rest \in Seq(S) /\ Len(read \o rest) = Len(next)
    BY <1>2, <1>4, <1>5, ConcatProperties
  <2>2. ASSUME NEW i \in 1 .. Len(next) PROVE (read \o rest)[i] = next[i]
    <3>1. (read \o rest)[i] = IF i <= r THEN read[i] ELSE rest[i - r]
      BY <1>2, <1>4, <1>5, ConcatProperties
    <3>2. CASE i <= r
      <4>1. i = 1 /\ r = 1 /\ 1 <= Len(c) - t
        BY <3>2, <1>4
      <4>2. next[1] = left[1] /\ left[1] = c[t + 1]
        BY <4>1, <1>1, <1>3, <1>4
      <4>3. QED BY <3>1, <3>2, <4>1, <4>2, <1>2
    <3>3. CASE ~(i <= r)
      <4>1. i - r \in 1 .. Len(next) - r /\ r + (i - r) = i /\ ~(i <= r)
        BY <3>3, <1>4
      <4>2. QED BY <3>1, <4>1, <1>5
    <3>4. QED BY <3>2, <3>3
  <2>3. QED BY <2>1, <2>2, <1>3, SeqEqual
<1>7. (s \o read) \o rest = (s \o left) \o p
  <2>1. read \in Seq(S) /\ rest \in Seq(S) /\ left \in Seq(S) /\ read \o rest = left \o p
    BY <1>1, <1>2, <1>5, <1>6 DEF next
  <2>2. Joined(Joined(s, read), rest) = Joined(s, Joined(read, rest))
    BY <1>0, <2>1, JoinedAssociative
  <2>3. Joined(Joined(s, left), p) = Joined(s, Joined(left, p))
    BY <1>0, <2>1, JoinedAssociative
  <2>4. Joined(read, rest) = Joined(left, p)
    BY <2>1 DEF Joined
  <2>5. Joined(Joined(s, read), rest) = Joined(Joined(s, left), p)
    BY <2>2, <2>3, <2>4
  <2>6. QED BY <2>5 DEF Joined
<1>8. s \o read \in Seq(S)
  BY <1>2, ConcatProperties
<1>9. QED BY <1>1, <1>3, <1>4, <1>7, <1>8 DEF ReadsAndDrops, left, read, next, rest

\* One clock of the endpoint, as its FIFO sees it.
FifoSide(i) ==
  /\ E!FifoClock(i) /\ streamed' = streamed \o E!stream_taken(i)
  /\ i.stream_ready \in BOOLEAN

LEMMA FifoStep ==
  ASSUME SizeAssumption, EndpointTypes, NEW i, FifoSide(i), E!write_data(i) \in Entry,
         E!write_en(i) => ~E!write_commit(i)
  PROVE  /\ Kept \in Seq(Entry) /\ Kept' = IF E!write_commit(i) THEN Kept \o pending ELSE Kept
         /\ pending' = IF E!write_discard(i) THEN << >>
                       ELSE IF E!write_commit(i) THEN << >>
                       ELSE IF E!write_en(i) THEN Append(pending, E!write_data(i)) ELSE pending
         /\ streamed' \in Seq(Entry) /\ committed' \in Seq(Entry) /\ pending' \in Seq(Entry)
         /\ taken' \in 0 .. Len(committed') /\ Len(committed') + Len(pending') <= buffer_size
         /\ ~E!write_commit(i) => Len(committed') <= Len(committed)
         /\ E!write_en(i) => Len(committed) + Len(pending) < buffer_size
<1> DEFINE r == IF i.stream_ready /\ taken < Len(committed) THEN 1 ELSE 0
           left == SubSeq(committed, taken + 1, Len(committed))
           added == IF E!write_commit(i) THEN pending ELSE << >>
<1>1. /\ streamed \in Seq(Entry) /\ committed \in Seq(Entry) /\ pending \in Seq(Entry)
      /\ taken \in 0 .. Len(committed) /\ Len(committed) + Len(pending) <= buffer_size
      /\ Len(committed) \in Nat /\ Len(pending) \in Nat
  BY DEF EndpointTypes
<1>2. added \in Seq(Entry) /\ Len(added) = IF E!write_commit(i) THEN Len(pending) ELSE 0
  BY <1>1
<1>3. r \in {0, 1} /\ (r = 1 => taken < Len(committed))
  OBVIOUS
<1>4. /\ committed' = left \o added
      /\ taken' = r
      /\ streamed' = streamed \o (IF r = 1 THEN <<committed[taken + 1]>> ELSE << >>)
  <2>1. committed' = left \o added
    BY DEF FifoSide, E!FifoClock, E!Fifo!Clock, E!Fifo!Drop
  <2>2. taken' = taken + r - taken
    BY DEF FifoSide, E!FifoClock, E!Fifo!Clock
  <2>3. taken' = r
    BY <2>2, <1>1, <1>3
  <2>4. streamed' = streamed \o (IF r = 1 THEN <<committed[taken + 1]>> ELSE << >>)
    <3>1. E!stream_valid <=> taken < Len(committed)
      BY <1>1 DEF E!stream_valid, E!fifo_empty
    <3>2. CASE i.stream_ready /\ taken < Len(committed)
      BY <3>1, <3>2 DEF FifoSide, E!stream_taken
    <3>3. CASE ~(i.stream_ready /\ taken < Len(committed))
      BY <3>1, <3>3 DEF FifoSide, E!stream_taken
    <3>4. QED BY <3>2, <3>3
  <2>5. QED BY <2>1, <2>3, <2>4
<1> HIDE DEF r, added
<1>5. /\ left \in Seq(Entry) /\ Len(left) = Len(committed) - taken
      /\ committed' \in Seq(Entry) /\ Len(committed') = Len(committed) - taken + Len(added)
      /\ taken' \in 0 .. Len(committed') /\ streamed' \in Seq(Entry)
      /\ streamed' \o SubSeq(committed', taken' + 1, Len(committed')) = (streamed \o left) \o added
  <2> DEFINE read == IF r = 1 THEN <<committed[taken + 1]>> ELSE << >>
             next == left \o added
  <2>1. /\ left \in Seq(Entry) /\ Len(left) = Len(committed) - taken
        /\ next \in Seq(Entry) /\ Len(next) = Len(committed) - taken + Len(added) /\ r \in 0 .. Len(next)
        /\ (streamed \o read) \in Seq(Entry)
        /\ (streamed \o read) \o SubSeq(next, r + 1, Len(next)) = (streamed \o left) \o added
    <3>1. ReadsAndDrops(Entry, streamed, committed, added, taken, r)
      BY <1>1, <1>2, <1>3, ReadAndDrop
    <3>2. QED BY <3>1 DEF ReadsAndDrops
  <2>2. QED BY <2>1, <1>4
<1>6. Kept = streamed \o left /\ Kept' = streamed' \o SubSeq(committed', taken' + 1, Len(committed'))
  BY DEF Kept, E!Fifo!Drop
<1>7. Kept \in Seq(Entry) /\ Kept' = IF E!write_commit(i) THEN Kept \o pending ELSE Kept
  <2>1. Kept \in Seq(Entry)
    BY <1>1, <1>5, <1>6, ConcatProperties
  <2>2. Kept \o << >> = Kept
    BY <2>1, ConcatEmptySeq
  <2>3. QED BY <2>1, <2>2, <1>5, <1>6 DEF added
<1>8. E!write_en(i) => Len(committed) + Len(pending) < buffer_size /\ E!Fifo!Room > 0
  BY <1>1 DEF E!write_en, E!fifo_full, E!Fifo!Room, SizeAssumption
<1>9. pending' = IF E!write_discard(i) THEN << >>
                 ELSE IF E!write_commit(i) THEN << >>
                 ELSE IF E!write_en(i) THEN Append(pending, E!write_data(i)) ELSE pending
  <2> DEFINE written == IF E!write_en(i) /\ E!Fifo!Room > 0 THEN <<E!write_data(i)>> ELSE << >>
  <2>1. pending' = IF E!write_discard(i) THEN << >>
                   ELSE (IF E!write_commit(i) THEN << >> ELSE pending) \o written
    BY DEF FifoSide, E!FifoClock, E!Fifo!Clock
  <2>2. CASE E!write_discard(i) \/ E!write_commit(i)
    <3>1. CASE E!write_discard(i)
      BY <2>1, <3>1
    <3>2. CASE ~E!write_discard(i) /\ E!write_commit(i)
      <4>1. written = << >>
        BY <3>2
      <4>2. pending' = << >> \o << >>
        BY <2>1, <3>2, <4>1
      <4>3. << >> \o << >> = << >>
        OBVIOUS
      <4>4. QED BY <3>2, <4>2, <4>3
    <3>3. QED BY <2>2, <3>1, <3>2
  <2>3. CASE ~E!write_discard(i) /\ ~E!write_commit(i) /\ E!write_en(i)
    <3>1. pending' = pending \o <<E!write_data(i)>>
      BY <2>1, <2>3, <1>8
    <3>2. pending \o <<E!write_data(i)>> = Append(pending, E!write_data(i))
      BY <1>1
    <3>3. QED BY <3>1, <3>2, <2>3
  <2>4. CASE ~E!write_discard(i) /\ ~E!write_commit(i) /\ ~E!write_en(i)
    BY <2>1, <2>4, <1>1
  <2>5. QED BY <2>2, <2>3, <2>4
<1>10. pending' \in Seq(Entry) /\ Len(committed') + Len(pending') <= buffer_size
  <2>1. CASE E!write_discard(i) \/ E!write_commit(i)
    <3>1. pending' = << >> /\ Len(pending') = 0 /\ pending' \in Seq(Entry)
      BY <2>1, <1>9
    <3>2. Len(added) <= Len(pending) /\ Len(added) \in Nat
      BY <1>1, <1>2
    <3>3. QED BY <3>1, <3>2, <1>1, <1>5 DEF SizeAssumption
  <2>2. CASE ~E!write_discard(i) /\ ~E!write_commit(i) /\ E!write_en(i)
    <3>1. pending' = Append(pending, E!write_data(i))
      BY <2>2, <1>9
    <3>2. pending' \in Seq(Entry) /\ Len(pending') = Len(pending) + 1
      BY <3>1, <1>1
    <3>3. QED BY <2>2, <3>2, <1>1, <1>2, <1>5, <1>8 DEF SizeAssumption
  <2>3. CASE ~E!write_discard(i) /\ ~E!write_commit(i) /\ ~E!write_en(i)
    BY <2>3, <1>1, <1>2, <1>5, <1>9 DEF SizeAssumption
  <2>4. QED BY <2>1, <2>2, <2>3
<1>11. ~E!write_commit(i) => Len(committed') <= Len(committed)
  BY <1>1, <1>2, <1>5
<1>12. QED BY <1>1, <1>5, <1>7, <1>8, <1>9, <1>10, <1>11

---------------------------------------------------------------------------
(* One clock of the device, without the records of the interfaces *)

Signals == [active : BOOLEAN, valid : BOOLEAN, byte : Nat, kind : {"data", "other"},
            toggle : {0, 1}, crc_matches : BOOLEAN]

ReceiverMoves(active, valid, byte, kind, toggle, crc) ==
  /\ rx_to_tx_delay' = rx_to_tx_delay
  /\ packet_complete' <=> rx_state = "RECEIVE_AND_EMIT" /\ ~active /\ crc
  /\ crc_mismatch' <=> rx_state = "RECEIVE_AND_EMIT" /\ ~active /\ ~crc
  /\ packet_complete' => counter' = 0
  /\ ~packet_complete' /\ counter <= rx_to_tx_delay => counter' = counter + 1
  /\ rx_state = "IDLE" => rx_state' = IF active THEN "READ_PID" ELSE "IDLE"
  /\ rx_state = "READ_PID" =>
       rx_state' = IF ~active THEN "IDLE" ELSE IF ~valid THEN "READ_PID"
                   ELSE IF kind = "data" THEN "RECEIVE_FIRST_BYTE" ELSE "IRRELEVANT"
  /\ rx_state = "RECEIVE_FIRST_BYTE" =>
       rx_state' = IF ~active THEN "IDLE" ELSE IF valid THEN "RECEIVE_SECOND_BYTE"
                   ELSE "RECEIVE_FIRST_BYTE"
  /\ rx_state = "RECEIVE_SECOND_BYTE" =>
       rx_state' = IF valid THEN "RECEIVE_AND_EMIT" ELSE IF ~active THEN "IDLE"
                   ELSE "RECEIVE_SECOND_BYTE"
  /\ rx_state = "RECEIVE_AND_EMIT" =>
       rx_state' = IF active THEN "RECEIVE_AND_EMIT" ELSE IF crc THEN "INTERPACKET_DELAY" ELSE "IDLE"
  /\ rx_state = "INTERPACKET_DELAY" =>
       rx_state' = IF counter = rx_to_tx_delay THEN "IDLE" ELSE "INTERPACKET_DELAY"
  /\ rx_state = "IRRELEVANT" => rx_state' = IF active THEN "IRRELEVANT" ELSE "IDLE"
  /\ data_pipeline' =
       IF valid /\ rx_state \in {"RECEIVE_FIRST_BYTE", "RECEIVE_SECOND_BYTE", "RECEIVE_AND_EMIT"}
       THEN <<data_pipeline[2], byte>> ELSE data_pipeline
  /\ active_pid' = IF rx_state = "READ_PID" /\ active /\ valid /\ kind = "data"
                   THEN toggle ELSE active_pid

\* A byte reaches the detector two bytes late, so that the CRC never does.
ByteComes(valid) == rx_state = "RECEIVE_AND_EMIT" /\ valid

DetectorMoves(valid) ==
  /\ bd_state = "WAIT_FOR_FIRST_BYTE" =>
       /\ ~out'.next /\ ~out'.complete /\ ~out'.invalid /\ ~out'.last
       /\ (buffered_complete' <=> buffered_complete) /\ (buffered_invalid' <=> buffered_invalid)
       /\ bd_state' = IF ByteComes(valid) THEN "RECEIVE_AND_TRANSMIT" ELSE "WAIT_FOR_FIRST_BYTE"
       /\ buffered_byte' = IF ByteComes(valid) THEN data_pipeline[1] ELSE buffered_byte
  /\ bd_state = "RECEIVE_AND_TRANSMIT" =>
       /\ buffered_complete' <=> buffered_complete \/ packet_complete
       /\ buffered_invalid' <=> buffered_invalid \/ crc_mismatch
       /\ ~out'.complete /\ ~out'.invalid
       /\ out'.next <=> ByteComes(valid) \/ rx_state # "RECEIVE_AND_EMIT"
       /\ out'.last <=> rx_state # "RECEIVE_AND_EMIT"
       /\ out'.next => out'.byte = buffered_byte
       /\ bd_state' = IF rx_state = "RECEIVE_AND_EMIT" THEN "RECEIVE_AND_TRANSMIT" ELSE "OUTPUT_STROBES"
       /\ buffered_byte' = IF ByteComes(valid) THEN data_pipeline[1] ELSE buffered_byte
  /\ bd_state = "OUTPUT_STROBES" =>
       /\ ~out'.next /\ (out'.complete <=> buffered_complete) /\ (out'.invalid <=> buffered_invalid)
       /\ ~buffered_complete' /\ ~buffered_invalid' /\ ~out'.last
       /\ bd_state' = "WAIT_FOR_FIRST_BYTE" /\ buffered_byte' = buffered_byte

\* What the endpoint does with what the detector says, and whether it takes the packet.
Ready    == rx_state = "INTERPACKET_DELAY" /\ counter = rx_to_tx_delay
Matches  == active_pid = expected_data_toggle
Full     == Len(committed) + Len(pending) = buffer_size
Loses    == token = "out" /\ Matches /\ out.next /\ Full
Writes   == token = "out" /\ Matches /\ out.next /\ ~Full
Commits  == token = "out" /\ out.complete /\ ~overflow
Discards == token = "out" /\ (out.invalid \/ (out.complete /\ overflow))
Takes    == token = "out" /\ Ready /\ Matches /\ ~Loses /\ ~overflow

EndpointMoves(clear) ==
  /\ Kept \in Seq(Entry) /\ Kept' = IF Commits THEN Kept \o pending ELSE Kept
  /\ ~Commits => Len(committed') <= Len(committed)
  /\ Commits \/ Discards => pending' = << >> /\ rx_cnt' = 0 /\ ~overflow'
  /\ ~Commits /\ ~Discards =>
       /\ overflow' <=> overflow \/ Loses
       /\ ~Writes => pending' = pending /\ rx_cnt' = rx_cnt
       /\ Writes => /\ rx_cnt' = (rx_cnt + 1) % rx_counts /\ Len(pending') = Len(pending) + 1
                    /\ \A k \in 1 .. Len(pending) : pending'[k] = pending[k]
                    /\ pending'[Len(pending) + 1].byte = out.byte
                    /\ pending'[Len(pending) + 1].last <=> out.last /\ rx_cnt # max_packet_size - 1
  /\ expected_data_toggle' = IF clear THEN 0 ELSE IF Takes THEN 1 - expected_data_toggle
                             ELSE expected_data_toggle

LEMMA ReceiverStep ==
  ASSUME DelayAssumption, ReceiverTypes, NEW u \in Signals,
         R!Clock(u, T!tx_allowed), T!Tick(R!timer_start(u))
  PROVE  /\ ReceiverTypes'
         /\ ReceiverMoves(u.active, u.valid, u.byte, u.kind, u.toggle, u.crc_matches)
<1> USE DEF ReceiverTypes, Signals
<1>1. /\ counter' \in Nat /\ rx_to_tx_delay' = rx_to_tx_delay /\ rx_to_tx_delay \in Nat
      /\ R!timer_start(u) => counter' = 0
      /\ ~R!timer_start(u) /\ counter <= rx_to_tx_delay => counter' = counter + 1
  BY DEF T!Tick, DelayAssumption
<1>2. R!timer_start(u) <=> rx_state = "RECEIVE_AND_EMIT" /\ ~u.active /\ u.crc_matches
  BY DEF R!timer_start, R!stream_valid
<1> USE DEF ReceiverMoves
<1>3. CASE R!Idle(u)
  BY <1>1, <1>2, <1>3 DEF R!Idle, R!NoStrobe
<1>4. CASE R!ReadPid(u)
  BY <1>1, <1>2, <1>4 DEF R!ReadPid, R!NoStrobe
<1>5. CASE R!ReceiveFirstByte(u)
  BY <1>1, <1>2, <1>5 DEF R!ReceiveFirstByte, R!NoStrobe, R!Shift
<1>6. CASE R!ReceiveSecondByte(u)
  BY <1>1, <1>2, <1>6 DEF R!ReceiveSecondByte, R!NoStrobe, R!Shift
<1>7. CASE R!ReceiveAndEmit(u)
  BY <1>1, <1>2, <1>7 DEF R!ReceiveAndEmit, R!Shift
<1>8. CASE R!InterpacketDelay(T!tx_allowed)
  BY <1>1, <1>2, <1>8 DEF R!InterpacketDelay, R!NoStrobe, T!tx_allowed
<1>9. CASE R!Irrelevant(u)
  BY <1>1, <1>2, <1>9 DEF R!Irrelevant, R!NoStrobe
<1>10. QED BY <1>3, <1>4, <1>5, <1>6, <1>7, <1>8, <1>9 DEF R!Clock

\* What the detector sees of the receiver.
DetectorInputs(u) ==
  [valid |-> R!stream_valid, next |-> R!stream_next(u), payload |-> R!stream_payload,
   complete |-> packet_complete, invalid |-> crc_mismatch]

LEMMA DetectorStep ==
  ASSUME ReceiverTypes, DetectorTypes, NEW u \in Signals, B!Clock(DetectorInputs(u))
  PROVE  DetectorTypes' /\ DetectorMoves(u.valid)
<1> USE DEF DetectorTypes
<1> DEFINE in == DetectorInputs(u)
<1>1. /\ in.valid <=> rx_state = "RECEIVE_AND_EMIT"
      /\ B!ByteArrives(in) <=> ByteComes(u.valid)
      /\ in.payload = data_pipeline[1] /\ in.payload \in Nat
      /\ in.complete = packet_complete /\ in.invalid = crc_mismatch
      /\ in.next <=> ByteComes(u.valid)
  BY DEF DetectorInputs, R!stream_valid, R!stream_next, R!stream_payload, B!ByteArrives,
         ByteComes, ReceiverTypes
<1>2. packet_complete \in BOOLEAN /\ crc_mismatch \in BOOLEAN /\ (ByteComes(u.valid) => rx_state = "RECEIVE_AND_EMIT")
  BY DEF ReceiverTypes, ByteComes
<1>3. /\ B!Silent \in [next : BOOLEAN, byte : Nat, first : BOOLEAN, last : BOOLEAN,
                       complete : BOOLEAN, invalid : BOOLEAN]
      /\ ~B!Silent.next /\ ~B!Silent.last /\ ~B!Silent.complete /\ ~B!Silent.invalid
  BY DEF B!Silent
<1> HIDE DEF in
<1> USE DEF DetectorMoves
<1>4. CASE B!WaitForFirstByte(in)
  BY <1>1, <1>2, <1>3, <1>4 DEF B!WaitForFirstByte
<1>5. CASE B!ReceiveAndTransmit(in)
  <2> DEFINE first == [B!Silent EXCEPT !.next = TRUE, !.byte = buffered_byte, !.first = is_first_byte]
             final == [B!Silent EXCEPT !.next = TRUE, !.byte = buffered_byte, !.first = is_first_byte,
                                       !.last = TRUE]
  <2>1. /\ first \in [next : BOOLEAN, byte : Nat, first : BOOLEAN, last : BOOLEAN,
                      complete : BOOLEAN, invalid : BOOLEAN]
        /\ first.next /\ ~first.last /\ ~first.complete /\ ~first.invalid /\ first.byte = buffered_byte
    BY <1>3
  <2>2. /\ final \in [next : BOOLEAN, byte : Nat, first : BOOLEAN, last : BOOLEAN,
                      complete : BOOLEAN, invalid : BOOLEAN]
        /\ final.next /\ final.last /\ ~final.complete /\ ~final.invalid /\ final.byte = buffered_byte
    BY <1>3
  <2>3. /\ bd_state = "RECEIVE_AND_TRANSMIT"
        /\ buffered_complete' <=> buffered_complete \/ packet_complete
        /\ buffered_invalid' <=> buffered_invalid \/ crc_mismatch
        /\ buffered_complete' \in BOOLEAN /\ buffered_invalid' \in BOOLEAN
    BY <1>1, <1>5 DEF B!ReceiveAndTransmit
  <2>4. CASE B!ByteArrives(in)
    <3>1. /\ buffered_byte' = in.payload /\ is_first_byte' = FALSE /\ out' = first
          /\ bd_state' = bd_state
      BY <1>1, <1>2, <1>5, <2>4 DEF B!ReceiveAndTransmit, B!ByteArrives
    <3> HIDE DEF first
    <3>2. QED BY <1>1, <1>2, <2>1, <2>3, <2>4, <3>1
  <2>5. CASE ~in.valid
    <3>1. /\ buffered_byte' = buffered_byte /\ is_first_byte' = FALSE /\ out' = final
          /\ bd_state' = "OUTPUT_STROBES"
      BY <1>1, <1>2, <1>5, <2>5 DEF B!ReceiveAndTransmit, B!ByteArrives
    <3> HIDE DEF final
    <3>2. QED BY <1>1, <1>2, <2>2, <2>3, <2>5, <3>1
  <2>6. CASE in.valid /\ ~B!ByteArrives(in)
    <3>1. out' = B!Silent /\ UNCHANGED <<bd_state, buffered_byte, is_first_byte>>
      BY <1>1, <1>2, <1>5, <2>6 DEF B!ReceiveAndTransmit, B!ByteArrives
    <3>2. QED BY <1>1, <1>2, <1>3, <2>3, <2>6, <3>1
  <2>7. QED BY <2>4, <2>5, <2>6
<1>6. CASE B!OutputStrobes
  <2>1. /\ out' = [B!Silent EXCEPT !.complete = buffered_complete, !.invalid = buffered_invalid]
        /\ bd_state = "OUTPUT_STROBES"
        /\ buffered_complete' = FALSE /\ buffered_invalid' = FALSE
        /\ bd_state' = "WAIT_FOR_FIRST_BYTE" /\ UNCHANGED <<buffered_byte, is_first_byte>>
    BY <1>6 DEF B!OutputStrobes
  <2>2. QED BY <1>3, <2>1
<1>7. QED BY <1>4, <1>5, <1>6 DEF B!Clock, in

LEMMA EndpointStep ==
  ASSUME SizeAssumption, ReceiverTypes, DetectorTypes, EndpointTypes, HostTypes, Strobes,
         NEW token_ready \in BOOLEAN, NEW stream_ready \in BOOLEAN, NEW clear \in BOOLEAN,
         E!Clock(EndpointInputs(token_ready, stream_ready, clear)),
         streamed' = streamed \o E!stream_taken(EndpointInputs(token_ready, stream_ready, clear))
  PROVE  EndpointTypes' /\ EndpointMoves(clear)
<1> DEFINE i == EndpointInputs(token_ready, stream_ready, clear)
<1>1. /\ i.token = token /\ i.rx = out /\ i.rx_pid_toggle = active_pid /\ (i.rx_ready <=> Ready)
      /\ i.stream_ready = stream_ready /\ i.clear_halt = clear
  BY DEF EndpointInputs, rx_ready, R!ready_for_response, T!tx_allowed, Ready
<1> HIDE DEF i
<1>2. /\ Len(committed) \in Nat /\ Len(pending) \in Nat /\ rx_cnt \in Nat
      /\ Len(committed) + Len(pending) <= buffer_size
      /\ out.next \in BOOLEAN /\ out.last \in BOOLEAN /\ out.byte \in Nat /\ out.first \in BOOLEAN
      /\ out.complete \in BOOLEAN /\ out.invalid \in BOOLEAN
      /\ overflow \in BOOLEAN /\ transfer_active \in BOOLEAN /\ expected_data_toggle \in {0, 1}
  BY DEF EndpointTypes, DetectorTypes
<1>3. E!fifo_full <=> Full
  BY <1>2 DEF E!fifo_full, E!Fifo!Room, Full, SizeAssumption
<1>4. /\ E!okay_to_receive(i) <=> token = "out" /\ Matches
      /\ E!data_is_lost(i) <=> Loses
      /\ E!write_en(i) <=> Writes
      /\ E!write_commit(i) <=> Commits
      /\ E!write_discard(i) <=> Discards
      /\ E!data_response_requested(i) /\ E!data_accepted(i) <=> Takes
  BY <1>1, <1>3 DEF E!okay_to_receive, E!data_is_lost, E!write_en, E!write_commit, E!write_discard,
       E!data_response_requested, E!data_accepted, E!targeting_endpoint, E!expected_pid_match,
       Matches, Loses, Writes, Commits, Discards, Takes
<1>5. /\ E!write_data(i) \in Entry /\ E!write_data(i).byte = out.byte
      /\ E!write_data(i).last <=> out.last /\ rx_cnt # max_packet_size - 1
  BY <1>1, <1>2 DEF E!write_data, E!full_packet, Entry
<1>6. Writes => ~Commits /\ ~Discards
  BY DEF Strobes, Writes, Commits, Discards
<1>7. FifoSide(i)
  BY <1>1 DEF FifoSide, E!Clock, i
<1>8. /\ Kept \in Seq(Entry) /\ Kept' = IF E!write_commit(i) THEN Kept \o pending ELSE Kept
      /\ pending' = IF E!write_discard(i) THEN << >>
                    ELSE IF E!write_commit(i) THEN << >>
                    ELSE IF E!write_en(i) THEN Append(pending, E!write_data(i)) ELSE pending
      /\ streamed' \in Seq(Entry) /\ committed' \in Seq(Entry) /\ pending' \in Seq(Entry)
      /\ taken' \in 0 .. Len(committed') /\ Len(committed') + Len(pending') <= buffer_size
      /\ ~E!write_commit(i) => Len(committed') <= Len(committed)
      /\ E!write_en(i) => Len(committed) + Len(pending) < buffer_size
  BY <1>4, <1>5, <1>6, <1>7, FifoStep
<1>9. Writes => /\ Len(pending') = Len(pending) + 1
                /\ \A k \in 1 .. Len(pending) : pending'[k] = pending[k]
                /\ pending'[Len(pending) + 1] = E!write_data(i)
  <2>1. pending \in Seq(Entry)
    BY DEF EndpointTypes
  <2>2. SUFFICES ASSUME Writes PROVE pending' = Append(pending, E!write_data(i))
    BY <1>5, <2>1, AppendProperties
  <2>3. QED BY <1>4, <1>6, <1>8, <2>2
<1>10. /\ rx_cnt' = IF Commits \/ Discards THEN 0 ELSE IF Writes THEN (rx_cnt + 1) % rx_counts ELSE rx_cnt
       /\ transfer_active' \in BOOLEAN
       /\ overflow' = IF Commits \/ Discards THEN FALSE ELSE overflow \/ Loses
       /\ expected_data_toggle' = IF clear THEN 0 ELSE IF Takes THEN 1 - expected_data_toggle
                                  ELSE expected_data_toggle
  BY <1>1, <1>2, <1>4 DEF E!Clock, E!NextOverflow, E!NextToggle, E!full_packet, i
<1>11. EndpointTypes'
  <2>1. rx_cnt' \in Nat
    BY <1>2, <1>10 DEF SizeAssumption
  <2>2. expected_data_toggle' \in {0, 1}
    BY <1>2, <1>10
  <2>3. overflow' = FALSE \/ overflow' = (overflow \/ Loses)
    BY <1>10
  <2>4. overflow' \in BOOLEAN
    BY <2>3, Zenon
  <2>5. QED BY <1>8, <1>10, <2>1, <2>2, <2>4 DEF EndpointTypes
<1>12. EndpointMoves(clear)
  <2>1. Kept \in Seq(Entry) /\ Kept' = IF Commits THEN Kept \o pending ELSE Kept
    BY <1>4, <1>8
  <2>2. ~Commits => Len(committed') <= Len(committed)
    BY <1>4, <1>8
  <2>3. Commits \/ Discards => pending' = << >> /\ rx_cnt' = 0 /\ ~overflow'
    BY <1>4, <1>8, <1>10
  <2>4. ~Commits /\ ~Discards /\ ~Writes => pending' = pending /\ rx_cnt' = rx_cnt
    BY <1>4, <1>8, <1>10
  <2>5. ~Commits /\ ~Discards => (overflow' <=> overflow \/ Loses)
    BY <1>10
  <2>6. Writes => rx_cnt' = (rx_cnt + 1) % rx_counts
    BY <1>6, <1>10
  <2>7. QED BY <1>5, <1>9, <1>10, <2>1, <2>2, <2>3, <2>4, <2>5, <2>6 DEF EndpointMoves
<1>13. QED BY <1>11, <1>12

---------------------------------------------------------------------------
(* The steps, without the records of the interfaces *)

Moves(active, valid, byte, kind, toggle, crc, clear) ==
  /\ ReceiverTypes' /\ DetectorTypes' /\ EndpointTypes'
  /\ ReceiverMoves(active, valid, byte, kind, toggle, crc)
  /\ DetectorMoves(valid) /\ EndpointMoves(clear)

\* The device while nothing arrives.
Rests(clear) == Moves(FALSE, FALSE, 0, "other", 0, FALSE, clear)

QuietStep ==
  /\ wire \in {"quiet", "token", "sent", "pinged"} /\ ~(wire = "sent" /\ token = "out" /\ Ready)
  /\ Rests(FALSE)
  /\ UNCHANGED <<token, wire, bus, intact, hostVars>>
TokenStep ==
  /\ wire = "quiet" /\ Settled /\ Rests(FALSE)
  /\ \/ token' = "out" /\ wire' = "token"
     \/ token' = "ping" /\ wire' = "pinged"
     \/ token' = "other" /\ wire' \in {"quiet", "token"}
  /\ UNCHANGED <<bus, intact, hostVars>>
StartStep ==
  /\ wire = "token" /\ intact' \in BOOLEAN
  /\ Moves(TRUE, FALSE, 0, "other", 0, FALSE, FALSE)
  /\ wire' = "pid" /\ bus' = PacketBytes
  /\ UNCHANGED <<token, hostVars>>
PidStep ==
  /\ wire = "pid"
  /\ \E kind \in {"data", "other"}, toggle \in {0, 1} :
       /\ (intact => kind = "data") /\ (token = "out" => toggle = host_toggle)
       /\ Moves(TRUE, TRUE, 0, kind, toggle, FALSE, FALSE)
  /\ wire' = "data"
  /\ UNCHANGED <<token, bus, intact, hostVars>>
ByteStep ==
  /\ wire = "data" /\ bus # << >>
  /\ Moves(TRUE, TRUE, Head(bus), "other", 0, FALSE, FALSE)
  /\ bus' = Tail(bus)
  /\ UNCHANGED <<token, wire, intact, hostVars>>
GapStep ==
  /\ wire \in {"pid", "data"}
  /\ Moves(TRUE, FALSE, 0, "other", 0, FALSE, FALSE)
  /\ UNCHANGED <<token, wire, bus, intact, hostVars>>
EndStep ==
  /\ wire = "data" /\ bus = << >> /\ intact
  /\ Moves(FALSE, FALSE, 0, "other", 0, TRUE, FALSE)
  /\ wire' = "sent"
  /\ UNCHANGED <<token, bus, intact, hostVars>>
DamageStep ==
  /\ wire \in {"pid", "data"} /\ Rests(FALSE)
  /\ wire' = "sent" /\ bus' = << >> /\ intact' = TRUE
  /\ UNCHANGED <<token, hostVars>>
LossStep ==
  /\ wire = "token" /\ Rests(FALSE)
  /\ wire' = "sent"
  /\ UNCHANGED <<token, bus, intact, hostVars>>
AnswerStep ==
  /\ wire = "sent" /\ token = "out" /\ Ready /\ Rests(FALSE)
  /\ wire' = "quiet" /\ ping_acked' = FALSE
  /\ UNCHANGED <<token, bus, intact, halts_cleared>>
AckStep ==
  /\ AnswerStep /\ (Takes \/ ~Matches)
  /\ host_acked' = host_acked + packet_len /\ host_toggle' = 1 - host_toggle
  /\ short_ends' = Ending
  /\ packet_len' \in 0 .. max_packet_size
NoGainStep == AnswerStep /\ UNCHANGED packetVars
MoveOnStep ==
  /\ wire = "sent" /\ Settled /\ Rests(FALSE)
  /\ wire' = "quiet"
  /\ UNCHANGED <<token, bus, intact, hostVars>>
PingStep ==
  /\ wire = "pinged" /\ Rests(FALSE)
  /\ ping_acked' \in BOOLEAN
  /\ token = "ping" /\ ping_acked' => buffer_size - Len(committed) - Len(pending) >= max_packet_size
  /\ wire' = "quiet"
  /\ UNCHANGED <<token, bus, intact, packetVars, halts_cleared>>
HaltStep ==
  /\ wire = "quiet" /\ token = "other" /\ Rests(TRUE)
  /\ halts_cleared' = halts_cleared + 1 /\ host_toggle' = 0
  /\ UNCHANGED <<token, wire, bus, intact, host_acked, packet_len, short_ends, ping_acked>>

Steps ==
  \/ QuietStep \/ TokenStep \/ StartStep \/ PidStep \/ ByteStep \/ GapStep \/ EndStep \/ DamageStep
  \/ LossStep \/ AckStep \/ NoGainStep \/ MoveOnStep \/ PingStep \/ HaltStep

LEMMA ClockMoves ==
  ASSUME SizeAssumption, DelayAssumption, Types, Strobes, NEW u \in Signals,
         NEW token_ready \in BOOLEAN, NEW stream_ready \in BOOLEAN, NEW clear \in BOOLEAN,
         DeviceClock(u, EndpointInputs(token_ready, stream_ready, clear))
  PROVE  Moves(u.active, u.valid, u.byte, u.kind, u.toggle, u.crc_matches, clear)
<1>1. ReceiverTypes /\ DetectorTypes /\ EndpointTypes /\ HostTypes
  BY DEF Types
<1>2. /\ ReceiverTypes'
      /\ ReceiverMoves(u.active, u.valid, u.byte, u.kind, u.toggle, u.crc_matches)
  BY <1>1, ReceiverStep DEF DeviceClock
<1>3. DetectorTypes' /\ DetectorMoves(u.valid)
  BY <1>1, DetectorStep DEF DeviceClock, DetectorInputs
<1>4. EndpointTypes' /\ EndpointMoves(clear)
  BY <1>1, EndpointStep DEF DeviceClock
<1>5. QED BY <1>2, <1>3, <1>4 DEF Moves

LEMMA PlainMoves ==
  ASSUME SizeAssumption, DelayAssumption, Types, Strobes, NEW u \in Signals, PlainClock(u)
  PROVE  Moves(u.active, u.valid, u.byte, u.kind, u.toggle, u.crc_matches, FALSE)
<1>1. PICK stream_ready \in BOOLEAN : DeviceClock(u, EndpointInputs(FALSE, stream_ready, FALSE))
  BY DEF PlainClock
<1>2. QED BY <1>1, ClockMoves

LEMMA SilenceMoves ==
  ASSUME SizeAssumption, DelayAssumption, Types, Strobes,
         NEW token_ready \in BOOLEAN, NEW stream_ready \in BOOLEAN, NEW clear \in BOOLEAN,
         DeviceClock(Silence, EndpointInputs(token_ready, stream_ready, clear))
  PROVE  Rests(clear)
<1>1. /\ Silence \in Signals /\ Silence.active = FALSE /\ Silence.valid = FALSE /\ Silence.byte = 0
      /\ Silence.kind = "other" /\ Silence.toggle = 0 /\ Silence.crc_matches = FALSE
  BY DEF Silence, Signals
<1>2. Moves(Silence.active, Silence.valid, Silence.byte, Silence.kind, Silence.toggle, Silence.crc_matches, clear)
  BY <1>1, ClockMoves
<1>3. QED BY <1>1, <1>2 DEF Rests

LEMMA PlainSilence ==
  ASSUME SizeAssumption, DelayAssumption, Types, Strobes, PlainClock(Silence)
  PROVE  Rests(FALSE)
BY SilenceMoves DEF PlainClock

\* Every action of the specification is one of these steps.
LEMMA NextSteps ==
  ASSUME SizeAssumption, DelayAssumption, Types, Strobes, Next
  PROVE  Steps
<1> USE DEF Steps
<1>1. rx_ready <=> Ready
  BY DEF rx_ready, R!ready_for_response, T!tx_allowed, Ready
<1>2. ASSUME NEW stream_ready \in BOOLEAN, QuietClock(stream_ready) PROVE QuietStep
  BY <1>1, <1>2, SilenceMoves DEF QuietClock, QuietStep
<1>3. CASE OutToken
  BY <1>3, PlainSilence DEF OutToken, SendToken, TokenStep
<1>4. CASE PingToken
  BY <1>4, PlainSilence DEF PingToken, SendToken, TokenStep
<1>5. CASE OtherToken
  BY <1>5, PlainSilence DEF OtherToken, SendToken, TokenStep
<1>6. ASSUME NEW unharmed \in BOOLEAN, PacketStarts(unharmed) PROVE StartStep
  <2> DEFINE u == [Silence EXCEPT !.active = TRUE]
  <2>1. /\ u \in Signals /\ u.active = TRUE /\ u.valid = FALSE /\ u.byte = 0
        /\ u.kind = "other" /\ u.toggle = 0 /\ u.crc_matches = FALSE
    BY DEF Silence, Signals
  <2>2. PlainClock(u)
    BY <1>6 DEF PacketStarts
  <2> HIDE DEF u
  <2>3. Moves(TRUE, FALSE, 0, "other", 0, FALSE, FALSE)
    BY <2>1, <2>2, PlainMoves
  <2>4. QED BY <1>6, <2>3 DEF PacketStarts, StartStep
<1>7. ASSUME NEW kind \in {"data", "other"}, PidByte(kind) PROVE PidStep
  <2>1. host_toggle \in {0, 1}
    BY DEF Types, HostTypes
  <2>2. PICK toggle \in {0, 1} :
          /\ token = "out" => toggle = host_toggle
          /\ PlainClock([Silence EXCEPT !.active = TRUE, !.valid = TRUE, !.kind = kind, !.toggle = toggle])
    BY <1>7, <2>1 DEF PidByte
  <2> DEFINE u == [Silence EXCEPT !.active = TRUE, !.valid = TRUE, !.kind = kind, !.toggle = toggle]
  <2>3. /\ u \in Signals /\ u.active = TRUE /\ u.valid = TRUE /\ u.byte = 0
        /\ u.kind = kind /\ u.toggle = toggle /\ u.crc_matches = FALSE
    BY DEF Silence, Signals
  <2>4. PlainClock(u)
    BY <2>2
  <2> HIDE DEF u
  <2>5. Moves(TRUE, TRUE, 0, kind, toggle, FALSE, FALSE)
    BY <2>3, <2>4, PlainMoves
  <2>6. QED BY <1>7, <2>2, <2>5 DEF PidByte, PidStep
<1>8. CASE DataByte
  <2> DEFINE u == [Silence EXCEPT !.active = TRUE, !.valid = TRUE, !.byte = Head(bus)]
  <2>1. Head(bus) \in Nat
    BY <1>8 DEF DataByte, Types, HostTypes
  <2>2. /\ u \in Signals /\ u.active = TRUE /\ u.valid = TRUE /\ u.byte = Head(bus)
        /\ u.kind = "other" /\ u.toggle = 0 /\ u.crc_matches = FALSE
    BY <2>1 DEF Silence, Signals
  <2>3. PlainClock(u)
    BY <1>8 DEF DataByte
  <2> HIDE DEF u
  <2>4. Moves(TRUE, TRUE, Head(bus), "other", 0, FALSE, FALSE)
    BY <2>2, <2>3, PlainMoves
  <2>5. QED BY <1>8, <2>4 DEF DataByte, ByteStep
<1>9. CASE Gap
  <2> DEFINE u == [Silence EXCEPT !.active = TRUE]
  <2>1. /\ u \in Signals /\ u.active = TRUE /\ u.valid = FALSE /\ u.byte = 0
        /\ u.kind = "other" /\ u.toggle = 0 /\ u.crc_matches = FALSE
    BY DEF Silence, Signals
  <2>2. PlainClock(u)
    BY <1>9 DEF Gap
  <2> HIDE DEF u
  <2>3. Moves(TRUE, FALSE, 0, "other", 0, FALSE, FALSE)
    BY <2>1, <2>2, PlainMoves
  <2>4. QED BY <1>9, <2>3 DEF Gap, GapStep
<1>10. CASE PacketIntact
  <2> DEFINE u == [Silence EXCEPT !.crc_matches = TRUE]
  <2>1. /\ u \in Signals /\ u.active = FALSE /\ u.valid = FALSE /\ u.byte = 0
        /\ u.kind = "other" /\ u.toggle = 0 /\ u.crc_matches = TRUE
    BY DEF Silence, Signals
  <2>2. PlainClock(u)
    BY <1>10 DEF PacketIntact
  <2> HIDE DEF u
  <2>3. Moves(FALSE, FALSE, 0, "other", 0, TRUE, FALSE)
    BY <2>1, <2>2, PlainMoves
  <2>4. QED BY <1>10, <2>3 DEF PacketIntact, EndStep
<1>11. CASE PacketDamaged
  BY <1>11, PlainSilence DEF PacketDamaged, DamageStep
<1>12. CASE PacketLost
  BY <1>12, PlainSilence DEF PacketLost, LossStep
<1>13. Answers => AnswerStep
  BY <1>1, PlainSilence DEF Answers, AnswerStep
<1>14. CASE AckHeard
  <2>1. E!ack(DataAnswer) => Takes \/ ~Matches
    <3> DEFINE i == DataAnswer
    <3>1. /\ i.token = token /\ i.rx = out /\ i.rx_pid_toggle = active_pid /\ (i.rx_ready <=> Ready)
          /\ i.token_ready = FALSE
      BY <1>1 DEF DataAnswer, EndpointInputs
    <3> HIDE DEF i
    <3>2. E!fifo_full <=> Full
      BY DEF E!fifo_full, E!Fifo!Room, Full, SizeAssumption, Types, EndpointTypes
    <3>3. E!ack(i) => Takes \/ ~Matches
      BY <3>1, <3>2 DEF E!ack, E!data_response_requested, E!ping_response_requested, E!data_accepted,
           E!should_skip, E!okay_to_receive, E!data_is_lost, E!targeting_endpoint, E!expected_pid_match,
           Takes, Matches, Loses
    <3>4. QED BY <3>3 DEF i
  <2>2. packet_len' \in 0 .. max_packet_size
    BY <1>14 DEF AckHeard, Lengths
  <2>3. QED BY <1>13, <1>14, <2>1, <2>2 DEF AckHeard, AckStep, Ending, EndingOf
<1>15. CASE NothingGained
  BY <1>13, <1>15 DEF NothingGained, NoGainStep
<1>16. CASE HostMovesOn
  BY <1>16, PlainSilence DEF HostMovesOn, MoveOnStep
<1>17. CASE PingAnswer
  <2>1. PICK stream_ready \in BOOLEAN :
          /\ DeviceClock(Silence, EndpointInputs(TRUE, stream_ready, FALSE))
          /\ ping_acked' = E!ack(EndpointInputs(TRUE, stream_ready, FALSE))
    BY <1>17 DEF PingAnswer
  <2>2. Rests(FALSE)
    BY <2>1, SilenceMoves
  <2>3. ping_acked' \in BOOLEAN
    BY <2>1, Zenon DEF E!ack
  <2>4. token = "ping" /\ ping_acked' => buffer_size - Len(committed) - Len(pending) >= max_packet_size
    BY <2>1 DEF E!ack, E!data_response_requested, E!ping_response_requested, E!targeting_endpoint,
         E!sufficient_space, E!Fifo!Room, EndpointInputs
  <2>5. QED BY <1>17, <2>2, <2>3, <2>4 DEF PingAnswer, PingStep
<1>18. CASE ClearHalt
  BY <1>18, SilenceMoves DEF ClearHalt, HaltStep
<1>19. QED BY <1>2, <1>3, <1>4, <1>5, <1>6, <1>7, <1>8, <1>9, <1>10, <1>11, <1>12, <1>14, <1>15,
              <1>16, <1>17, <1>18 DEF Next

---------------------------------------------------------------------------
(* The control, for every delay *)

LEMMA StagesStep ==
  ASSUME Types, Strobes, Stages, NEW active \in BOOLEAN, NEW valid \in BOOLEAN, NEW byte, NEW kind,
         NEW toggle, NEW crc \in BOOLEAN, NEW clear,
         Moves(active, valid, byte, kind, toggle, crc, clear),
         valid => active, rx_state = "IDLE" /\ active => Settled
  PROVE  Strobes' /\ Stages'
<1>1. ReceiverMoves(active, valid, byte, kind, toggle, crc) /\ DetectorMoves(valid)
  BY DEF Moves
<1>2. ReceiverTypes /\ DetectorTypes
  BY DEF Types
<1>3. CASE bd_state = "WAIT_FOR_FIRST_BYTE"
  <2>1. Strobes'
    BY <1>1, <1>2, <1>3 DEF Strobes, ReceiverMoves, DetectorMoves, ByteComes, DetectorTypes
  <2>2. Stages'
    BY <1>1, <1>2, <1>3 DEF Stages, Strobes, ReceiverMoves, DetectorMoves, ByteComes, ReceiverTypes,
         DetectorTypes, Ends, DetectorQuiet, Settled
  <2>3. QED BY <2>1, <2>2
<1>4. CASE bd_state = "RECEIVE_AND_TRANSMIT"
  <2>1. Strobes'
    BY <1>1, <1>2, <1>4 DEF Strobes, Stages, Ends, ReceiverMoves, DetectorMoves, ByteComes, DetectorTypes
  <2>2. Stages'
    BY <1>1, <1>2, <1>4 DEF Stages, Strobes, ReceiverMoves, DetectorMoves, ByteComes, ReceiverTypes,
         DetectorTypes, Ends, DetectorQuiet, Settled
  <2>3. QED BY <2>1, <2>2
<1>5. CASE bd_state = "OUTPUT_STROBES"
  <2>1. Strobes'
    BY <1>1, <1>2, <1>5 DEF Strobes, Stages, Ends, ReceiverMoves, DetectorMoves, ByteComes, DetectorTypes
  <2>2. Stages'
    BY <1>1, <1>2, <1>5 DEF Stages, Strobes, ReceiverMoves, DetectorMoves, ByteComes, ReceiverTypes,
         DetectorTypes, Ends, DetectorQuiet, Settled
  <2>3. QED BY <2>1, <2>2
<1>6. QED BY <1>2, <1>3, <1>4, <1>5 DEF DetectorTypes

\* The host's own bookkeeping.
LEMMA HostStep ==
  ASSUME SizeAssumption, Types, Steps
  PROVE  Types'
<1> USE DEF Types, HostTypes
<1>1. /\ ReceiverTypes' /\ DetectorTypes' /\ EndpointTypes'
      /\ token' \in {"out", "ping", "other"}
      /\ wire' \in {"quiet", "token", "pid", "data", "sent", "pinged"}
  BY DEF Steps, QuietStep, TokenStep, StartStep, PidStep, ByteStep, GapStep, EndStep, DamageStep,
         LossStep, AckStep, NoGainStep, AnswerStep, MoveOnStep, PingStep, HaltStep, Rests, Moves, hostVars
<1>2. PacketBytes \in Seq(Nat)
  <2>1. [k \in 1 .. packet_len |-> host_acked + k] \in Seq(Nat) /\ <<0>> \in Seq(Nat) /\ <<0, 0>> \in Seq(Nat)
    BY DEF SizeAssumption
  <2>2. QED BY <2>1, ConcatProperties DEF PacketBytes
<1>3. bus' \in Seq(Nat) /\ intact' \in BOOLEAN
  <2>1. CASE ByteStep
    BY <2>1 DEF ByteStep
  <2>2. CASE StartStep
    BY <2>2, <1>2 DEF StartStep
  <2>3. CASE ~ByteStep /\ ~StartStep
    <3>1. bus' = bus \/ bus' = << >>
      BY <2>3 DEF Steps, QuietStep, TokenStep, PidStep, GapStep, EndStep, DamageStep, LossStep, AckStep,
           NoGainStep, AnswerStep, MoveOnStep, PingStep, HaltStep, hostVars
    <3>2. intact' = intact \/ intact' = TRUE
      BY <2>3 DEF Steps, QuietStep, TokenStep, PidStep, GapStep, EndStep, DamageStep, LossStep, AckStep,
           NoGainStep, AnswerStep, MoveOnStep, PingStep, HaltStep, hostVars
    <3>3. bus' \in Seq(Nat)
      <4>1. bus \in Seq(Nat) /\ << >> \in Seq(Nat)
        OBVIOUS
      <4>2. QED BY ONLY <3>1, <4>1
    <3>4. intact' \in BOOLEAN
      BY <3>2
    <3>5. QED BY <3>3, <3>4
  <2>4. QED BY <2>1, <2>2, <2>3
<1>4. ping_acked' \in BOOLEAN
  <2>1. ping_acked' = ping_acked \/ ping_acked' = FALSE \/ ping_acked' \in BOOLEAN
    BY DEF Steps, QuietStep, TokenStep, StartStep, PidStep, ByteStep, GapStep, EndStep, DamageStep,
           LossStep, AckStep, NoGainStep, AnswerStep, MoveOnStep, PingStep, HaltStep, hostVars
  <2>2. QED BY <2>1
<1>5. /\ host_acked' \in Nat /\ packet_len' \in 0 .. max_packet_size
      /\ short_ends' \subseteq 1 .. host_acked' /\ host_toggle' \in {0, 1} /\ halts_cleared' \in Nat
  <2>1. CASE AckStep
    <3>1. /\ host_acked' = host_acked + packet_len /\ host_acked' \in Nat /\ packet_len \in Nat
          /\ packet_len' \in 0 .. max_packet_size /\ host_toggle' \in {0, 1} /\ halts_cleared' \in Nat
      BY <2>1 DEF AckStep, AnswerStep, SizeAssumption
    <3>2. short_ends' \subseteq 1 .. host_acked'
      BY <2>1, <3>1 DEF AckStep, Ending, EndingOf
    <3>3. QED BY <3>1, <3>2
  <2>2. CASE HaltStep
    BY <2>2 DEF HaltStep
  <2>3. CASE ~AckStep /\ ~HaltStep
    BY <2>3 DEF Steps, QuietStep, TokenStep, StartStep, PidStep, ByteStep, GapStep, EndStep, DamageStep,
         LossStep, NoGainStep, AnswerStep, MoveOnStep, PingStep, hostVars, packetVars
  <2>4. QED BY <2>1, <2>2, <2>3
<1>6. QED BY <1>1, <1>3, <1>4, <1>5

\* A clock never starts a packet that the device is not ready for.
LEMMA StepMoves ==
  ASSUME Control, Steps
  PROVE  \E active, valid, crc, clear \in BOOLEAN, kind \in {"data", "other"}, toggle \in {0, 1}, byte \in Nat :
           /\ Moves(active, valid, byte, kind, toggle, crc, clear)
           /\ (valid => active) /\ (rx_state = "IDLE" /\ active => Settled)
<1> USE DEF Control, OnTheBus
<1>1. CASE Rests(FALSE)
  BY <1>1 DEF Rests
<1>2. CASE HaltStep
  BY <1>2 DEF HaltStep, Rests
<1>3. CASE StartStep
  BY <1>3 DEF StartStep
<1>4. CASE PidStep
  BY <1>4 DEF PidStep
<1>5. CASE ByteStep
  <2>1. Head(bus) \in Nat
    BY <1>5 DEF ByteStep, Types, HostTypes
  <2>2. rx_state # "IDLE"
    BY <1>5 DEF ByteStep
  <2>3. QED BY <1>5, <2>1, <2>2 DEF ByteStep
<1>6. CASE GapStep
  BY <1>6 DEF GapStep
<1>7. CASE EndStep
  BY <1>7 DEF EndStep
<1>8. QED BY <1>1, <1>2, <1>3, <1>4, <1>5, <1>6, <1>7
          DEF Steps, QuietStep, TokenStep, DamageStep, LossStep, AckStep, NoGainStep, AnswerStep, MoveOnStep, PingStep

LEMMA BusStep ==
  ASSUME DelayAssumption, Control, Steps, Strobes', Stages'
  PROVE  OnTheBus'
<1> USE DEF Control, Types, ReceiverTypes, HostTypes
<1>1. CASE QuietStep
  BY <1>1 DEF QuietStep, Rests, Moves, OnTheBus, Settled, Ends, DetectorQuiet, Stages, Strobes, ReceiverMoves, DetectorMoves, ByteComes, Ready, DetectorTypes, hostVars
<1>2. CASE TokenStep
  BY <1>2 DEF TokenStep, Rests, Moves, OnTheBus, Settled, Ends, DetectorQuiet, Stages, Strobes, ReceiverMoves, DetectorMoves, ByteComes, Ready, DetectorTypes, hostVars
<1>3. CASE StartStep
  BY <1>3 DEF StartStep, Moves, OnTheBus, Settled, Ends, DetectorQuiet, Stages, Strobes, ReceiverMoves, DetectorMoves, ByteComes, Ready, DetectorTypes, hostVars
<1>4. CASE PidStep
  BY <1>4 DEF PidStep, Moves, OnTheBus, Settled, Ends, DetectorQuiet, Stages, Strobes, ReceiverMoves, DetectorMoves, ByteComes, Ready, DetectorTypes, hostVars
<1>5. CASE ByteStep
  BY <1>5 DEF ByteStep, Moves, OnTheBus, Settled, Ends, DetectorQuiet, Stages, Strobes, ReceiverMoves, DetectorMoves, ByteComes, Ready, DetectorTypes, hostVars
<1>6. CASE GapStep
  BY <1>6 DEF GapStep, Moves, OnTheBus, Settled, Ends, DetectorQuiet, Stages, Strobes, ReceiverMoves, DetectorMoves, ByteComes, Ready, DetectorTypes, hostVars
<1>7. CASE EndStep
  BY <1>7 DEF EndStep, Moves, OnTheBus, Settled, Ends, DetectorQuiet, Stages, Strobes, ReceiverMoves, DetectorMoves, ByteComes, Ready, DetectorTypes, hostVars
<1>8. CASE DamageStep
  BY <1>8 DEF DamageStep, Rests, Moves, OnTheBus, Settled, Ends, DetectorQuiet, Stages, Strobes, ReceiverMoves, DetectorMoves, ByteComes, Ready, DetectorTypes, hostVars
<1>9. CASE LossStep
  BY <1>9 DEF LossStep, Rests, Moves, OnTheBus, Settled, Ends, DetectorQuiet, Stages, Strobes, ReceiverMoves, DetectorMoves, ByteComes, Ready, DetectorTypes, hostVars
<1>10. CASE AckStep
  BY <1>10 DEF AckStep, AnswerStep, Rests, Moves, OnTheBus, InTime, DelayAssumption, Settled, Ends, DetectorQuiet, Stages, Strobes, ReceiverMoves, DetectorMoves, ByteComes, Ready, DetectorTypes
<1>11. CASE NoGainStep
  BY <1>11 DEF NoGainStep, AnswerStep, Rests, Moves, OnTheBus, InTime, DelayAssumption, Settled, Ends, DetectorQuiet, Stages, Strobes, ReceiverMoves, DetectorMoves, ByteComes, Ready, DetectorTypes, hostVars, packetVars
<1>12. CASE MoveOnStep
  BY <1>12 DEF MoveOnStep, Rests, Moves, OnTheBus, Settled, Ends, DetectorQuiet, Stages, Strobes, ReceiverMoves, DetectorMoves, ByteComes, Ready, DetectorTypes, hostVars
<1>13. CASE PingStep
  BY <1>13 DEF PingStep, Rests, Moves, OnTheBus, Settled, Ends, DetectorQuiet, Stages, Strobes, ReceiverMoves, DetectorMoves, ByteComes, Ready, DetectorTypes, hostVars, packetVars
<1>14. CASE HaltStep
  BY <1>14 DEF HaltStep, Rests, Moves, OnTheBus, Settled, Ends, DetectorQuiet, Stages, Strobes, ReceiverMoves, DetectorMoves, ByteComes, Ready, DetectorTypes
<1>15. QED BY <1>1, <1>2, <1>3, <1>4, <1>5, <1>6, <1>7, <1>8, <1>9, <1>10, <1>11, <1>12, <1>13, <1>14 DEF Steps

LEMMA TimeStep ==
  ASSUME DelayAssumption, Control, Steps, Strobes', Stages'
  PROVE  InTime'
<1> USE DEF Control, Types, ReceiverTypes, HostTypes
<1>1. CASE QuietStep
  BY <1>1 DEF QuietStep, Rests, Moves, InTime, OnTheBus, Settled, Ends, DetectorQuiet, Stages, Strobes, ReceiverMoves, DetectorMoves, ByteComes, Ready, DetectorTypes, hostVars
<1>2. CASE TokenStep
  BY <1>2 DEF TokenStep, Rests, Moves, InTime, OnTheBus, Settled, Ends, DetectorQuiet, Stages, Strobes, ReceiverMoves, DetectorMoves, ByteComes, Ready, DetectorTypes, hostVars
<1>3. CASE StartStep
  BY <1>3 DEF StartStep, Moves, InTime, OnTheBus, Settled, Ends, DetectorQuiet, Stages, Strobes, ReceiverMoves, DetectorMoves, ByteComes, Ready, DetectorTypes, hostVars
<1>4. CASE PidStep
  BY <1>4 DEF PidStep, Moves, InTime, OnTheBus, Settled, Ends, DetectorQuiet, Stages, Strobes, ReceiverMoves, DetectorMoves, ByteComes, Ready, DetectorTypes, hostVars
<1>5. CASE ByteStep
  BY <1>5 DEF ByteStep, Moves, InTime, OnTheBus, Settled, Ends, DetectorQuiet, Stages, Strobes, ReceiverMoves, DetectorMoves, ByteComes, Ready, DetectorTypes, hostVars
<1>6. CASE GapStep
  BY <1>6 DEF GapStep, Moves, InTime, OnTheBus, Settled, Ends, DetectorQuiet, Stages, Strobes, ReceiverMoves, DetectorMoves, ByteComes, Ready, DetectorTypes, hostVars
<1>7. CASE EndStep
  BY <1>7 DEF EndStep, Moves, InTime, OnTheBus, Settled, Ends, DetectorQuiet, Stages, Strobes, ReceiverMoves, DetectorMoves, ByteComes, Ready, DetectorTypes, hostVars
<1>8. CASE DamageStep
  BY <1>8 DEF DamageStep, Rests, Moves, InTime, OnTheBus, Settled, Ends, DetectorQuiet, Stages, Strobes, ReceiverMoves, DetectorMoves, ByteComes, Ready, DetectorTypes, hostVars
<1>9. CASE LossStep
  BY <1>9 DEF LossStep, Rests, Moves, InTime, OnTheBus, Settled, Ends, DetectorQuiet, Stages, Strobes, ReceiverMoves, DetectorMoves, ByteComes, Ready, DetectorTypes, hostVars
<1>10. CASE AckStep
  BY <1>10 DEF AckStep, AnswerStep, Rests, Moves, InTime, OnTheBus, Settled, Ends, DetectorQuiet, Stages, Strobes, ReceiverMoves, DetectorMoves, ByteComes, Ready, DetectorTypes
<1>11. CASE NoGainStep
  BY <1>11 DEF NoGainStep, AnswerStep, Rests, Moves, InTime, OnTheBus, Settled, Ends, DetectorQuiet, Stages, Strobes, ReceiverMoves, DetectorMoves, ByteComes, Ready, DetectorTypes, hostVars, packetVars
<1>12. CASE MoveOnStep
  BY <1>12 DEF MoveOnStep, Rests, Moves, InTime, OnTheBus, Settled, Ends, DetectorQuiet, Stages, Strobes, ReceiverMoves, DetectorMoves, ByteComes, Ready, DetectorTypes, hostVars
<1>13. CASE PingStep
  BY <1>13 DEF PingStep, Rests, Moves, InTime, OnTheBus, Settled, Ends, DetectorQuiet, Stages, Strobes, ReceiverMoves, DetectorMoves, ByteComes, Ready, DetectorTypes, hostVars, packetVars
<1>14. CASE HaltStep
  BY <1>14 DEF HaltStep, Rests, Moves, InTime, OnTheBus, Settled, Ends, DetectorQuiet, Stages, Strobes, ReceiverMoves, DetectorMoves, ByteComes, Ready, DetectorTypes
<1>15. QED BY <1>1, <1>2, <1>3, <1>4, <1>5, <1>6, <1>7, <1>8, <1>9, <1>10, <1>11, <1>12, <1>13, <1>14 DEF Steps

LEMMA ControlInit ==
  ASSUME SizeAssumption, DelayAssumption, Init
  PROVE  Control
<1> USE DEF Init
<1>1. ReceiverTypes
  BY DEF ReceiverTypes, T!Init, R!Init
<1>2. DetectorTypes
  BY DEF DetectorTypes, B!Init
<1>3. EndpointTypes
  <2>1. /\ streamed = << >> /\ committed = << >> /\ pending = << >> /\ taken = 0
        /\ expected_data_toggle = 0 /\ rx_cnt = 0 /\ overflow = FALSE /\ transfer_active = FALSE
    BY DEF E!Init, E!Fifo!Init
  <2>2. << >> \in Seq(Entry) /\ Len(<< >>) = 0
    OBVIOUS
  <2>3. taken \in 0 .. Len(committed) /\ Len(committed) + Len(pending) <= buffer_size
    BY <2>1, <2>2 DEF SizeAssumption
  <2>4. overflow \in BOOLEAN /\ transfer_active \in BOOLEAN
    BY <2>1
  <2> HIDE DEF Init
  <2>5. QED BY <2>1, <2>2, <2>3, <2>4 DEF EndpointTypes
<1>4. HostTypes
  <2>1. packet_len \in 0 .. max_packet_size
    BY DEF Lengths
  <2>2. /\ token = "other" /\ wire = "quiet" /\ bus = << >> /\ intact = TRUE /\ host_acked = 0
        /\ short_ends = {} /\ host_toggle = 0 /\ ping_acked = FALSE /\ halts_cleared = 0
    OBVIOUS
  <2> HIDE DEF Init
  <2>3. intact \in BOOLEAN /\ ping_acked \in BOOLEAN
    BY <2>2
  <2>4. << >> \in Seq(Nat)
    OBVIOUS
  <2>5. QED BY <2>1, <2>2, <2>3, <2>4 DEF HostTypes
<1>5. Strobes /\ Stages /\ OnTheBus /\ InTime
  BY DEF Strobes, Stages, OnTheBus, InTime, Ends, DetectorQuiet, R!Init, B!Init
<1>6. QED BY <1>1, <1>2, <1>3, <1>4, <1>5 DEF Control, Types

LEMMA ControlStep ==
  ASSUME SizeAssumption, DelayAssumption, Control, Steps
  PROVE  Control'
<1>1. Types'
  BY HostStep DEF Control
<1>2. PICK active \in BOOLEAN, valid \in BOOLEAN, crc \in BOOLEAN, clear \in BOOLEAN,
           kind \in {"data", "other"}, toggle \in {0, 1}, byte \in Nat :
        /\ Moves(active, valid, byte, kind, toggle, crc, clear)
        /\ (valid => active) /\ (rx_state = "IDLE" /\ active => Settled)
  BY StepMoves
<1>3. Strobes' /\ Stages'
  BY <1>2, StagesStep DEF Control
<1>4. OnTheBus'
  BY <1>3, BusStep
<1>5. InTime'
  BY <1>3, TimeStep
<1>6. QED BY <1>1, <1>3, <1>4, <1>5 DEF Control

LEMMA ControlStutters ==
  ASSUME Control, UNCHANGED vars
  PROVE  Control'
BY DEF Control, Types, ReceiverTypes, DetectorTypes, EndpointTypes, HostTypes, Strobes, Stages, OnTheBus,
       InTime, Ends, DetectorQuiet, Settled, vars, receiverVars, detectorVars, endpointVars, hostVars,
       packetVars

LEMMA ControlInvariant ==
  ASSUME SizeAssumption, DelayAssumption
  PROVE  Spec => []Control
<1>1. Init => Control
  BY ControlInit
<1>2. Control /\ [Next]_vars => Control'
  <2>1. ASSUME Control, Next PROVE Control'
    BY <2>1, NextSteps, ControlStep DEF Control
  <2>2. QED BY <2>1, ControlStutters
<1>3. QED BY <1>1, <1>2, PTL DEF Spec

\* The FIFO is never told to commit and to discard in the same clock, however long the
\* device waits with its answer.
THEOREM FifoIsUsedProperly ==
  ASSUME SizeAssumption, DelayAssumption
  PROVE  Spec => []FifoUsedProperly
<1>1. Control => FifoUsedProperly
  BY DEF Control, Strobes, FifoUsedProperly, DataAnswer, EndpointInputs, E!write_commit, E!write_discard
<1>2. QED BY <1>1, ControlInvariant, PTL

---------------------------------------------------------------------------
(* The packet on its way *)

LEMMA PacketBytesAre ==
  ASSUME Types, token = "out"
  PROVE  /\ PacketBytes \in Seq(Nat) /\ Len(PacketBytes) = packet_len + 2
         /\ \A k \in 1 .. packet_len + 2 : PacketBytes[k] = PacketByte(k)
<1> DEFINE data == [k \in 1 .. packet_len |-> host_acked + k]
<1>1. host_acked \in Nat /\ packet_len \in Nat
  BY DEF Types, HostTypes
<1>2. data \in Seq(Nat) /\ Len(data) = packet_len /\ \A k \in 1 .. packet_len : data[k] = host_acked + k
  BY <1>1
<1>3. <<0, 0>> \in Seq(Nat) /\ Len(<<0, 0>>) = 2 /\ <<0, 0>>[1] = 0 /\ <<0, 0>>[2] = 0
  OBVIOUS
<1>4. PacketBytes = data \o <<0, 0>>
  BY DEF PacketBytes
<1> HIDE DEF data
<1>5. /\ PacketBytes \in Seq(Nat) /\ Len(PacketBytes) = packet_len + 2
      /\ \A k \in 1 .. packet_len + 2 :
           PacketBytes[k] = IF k <= packet_len THEN data[k] ELSE <<0, 0>>[k - packet_len]
  BY <1>2, <1>3, <1>4, ConcatProperties
<1>6. ASSUME NEW k \in 1 .. packet_len + 2 PROVE PacketBytes[k] = PacketByte(k)
  <2>1. CASE k <= packet_len
    BY <1>1, <1>2, <1>5, <2>1 DEF PacketByte
  <2>2. CASE ~(k <= packet_len)
    <3>1. k - packet_len = 1 \/ k - packet_len = 2
      BY <1>1, <2>2
    <3>2. QED BY <1>3, <1>5, <2>2, <3>1 DEF PacketByte
  <2>3. QED BY <2>1, <2>2
<1>7. QED BY <1>5, <1>6

\* A packet's byte comes in: where it is afterwards.
LEMMA ByteInPosition ==
  ASSUME Control, Control', Position, ByteStep, token = "out"
  PROVE  Position'
<1>1. /\ wire = "data" /\ bus # << >> /\ wire' = "data" /\ bus' = Tail(bus) /\ token' = "out"
      /\ host_acked' = host_acked /\ packet_len' = packet_len
      /\ ReceiverMoves(TRUE, TRUE, Head(bus), "other", 0, FALSE) /\ DetectorMoves(TRUE)
  BY DEF ByteStep, Moves, hostVars, packetVars
<1>2. /\ host_acked \in Nat /\ packet_len \in Nat /\ bus \in Seq(Nat) /\ Len(bus) \in Nat
      /\ data_pipeline \in Nat \X Nat
  BY DEF Control, Types, HostTypes, ReceiverTypes
<1>3. /\ Len(bus) >= 1 /\ Len(bus') = Len(bus) - 1 /\ Head(bus) = bus[1]
      /\ \A k \in 1 .. Len(bus) - 1 : bus'[k] = bus[k + 1]
  BY <1>1, <1>2, HeadTailProperties
<1>4. CASE rx_state = "IRRELEVANT"
  <2>1. rx_state' = "IRRELEVANT" /\ bd_state' = "WAIT_FOR_FIRST_BYTE"
    BY <1>1, <1>4 DEF ReceiverMoves, Control, Stages, DetectorQuiet
  <2>2. QED BY <1>1, <2>1 DEF Position
<1>5. CASE rx_state # "IRRELEVANT"
  <2> DEFINE come == packet_len + 2 - Len(bus)
  <2>1. /\ Len(bus) <= packet_len + 2 /\ \A k \in 1 .. Len(bus) : bus[k] = PacketByte(come + k)
        /\ rx_state = "RECEIVE_FIRST_BYTE" => come = 0
        /\ rx_state = "RECEIVE_SECOND_BYTE" => come = 1 /\ data_pipeline[2] = PacketByte(1)
        /\ rx_state = "RECEIVE_AND_EMIT" =>
             /\ come >= 2 /\ data_pipeline = <<PacketByte(come - 1), PacketByte(come)>>
             /\ bd_state = "WAIT_FOR_FIRST_BYTE" => come = 2
             /\ bd_state = "RECEIVE_AND_TRANSMIT" => come > 2 /\ buffered_byte = host_acked + come - 2
    BY <1>1, <1>5 DEF Position
  <2>2. come \in Nat /\ come + 1 <= packet_len + 2 /\ packet_len + 2 - Len(bus') = come + 1
    BY <1>2, <1>3, <2>1
  <2>3. Head(bus) = PacketByte(come + 1)
    BY <1>3, <2>1, <1>2
  <2>4. \A k \in 1 .. Len(bus') : bus'[k] = PacketByte((come + 1) + k)
    <3>1. SUFFICES ASSUME NEW k \in 1 .. Len(bus') PROVE bus'[k] = PacketByte((come + 1) + k)
      OBVIOUS
    <3>2. k + 1 \in 1 .. Len(bus) /\ come + (k + 1) = (come + 1) + k /\ k \in 1 .. Len(bus) - 1
      BY <1>2, <1>3, <2>2
    <3>3. QED BY <1>3, <2>1, <3>2
  <2>5. ASSUME NEW k PROVE PacketByte(k)' = PacketByte(k)
    BY <1>1 DEF PacketByte
  <2>6. Len(bus') <= packet_len + 2 /\ Len(bus') \in Nat
    BY <1>2, <1>3, <2>1
  <2> HIDE DEF come
  <2>7. CASE rx_state = "RECEIVE_FIRST_BYTE"
    <3>1. /\ rx_state' = "RECEIVE_SECOND_BYTE" /\ data_pipeline' = <<data_pipeline[2], Head(bus)>>
          /\ come = 0 /\ bd_state' = "WAIT_FOR_FIRST_BYTE"
      BY <1>1, <2>1, <2>7 DEF ReceiverMoves, DetectorMoves, ByteComes, Control, Stages, DetectorQuiet
    <3>2. data_pipeline'[2] = PacketByte(1)
      BY <2>3, <3>1
    <3>3. QED BY <1>1, <2>2, <2>4, <2>5, <2>6, <3>1, <3>2 DEF Position
  <2>8. CASE rx_state = "RECEIVE_SECOND_BYTE"
    <3>1. /\ rx_state' = "RECEIVE_AND_EMIT" /\ data_pipeline' = <<data_pipeline[2], Head(bus)>>
          /\ come = 1 /\ bd_state' = "WAIT_FOR_FIRST_BYTE"
      BY <1>1, <2>1, <2>8 DEF ReceiverMoves, DetectorMoves, ByteComes, Control, Stages, DetectorQuiet
    <3>2. data_pipeline' = <<PacketByte(1), PacketByte(2)>>
      BY <2>1, <2>3, <2>8, <3>1
    <3>3. QED BY <1>1, <2>2, <2>4, <2>5, <2>6, <3>1, <3>2 DEF Position
  <2>9. CASE rx_state = "RECEIVE_AND_EMIT"
    <3>1. /\ rx_state' = "RECEIVE_AND_EMIT" /\ data_pipeline' = <<data_pipeline[2], Head(bus)>>
          /\ come >= 2 /\ bd_state' = "RECEIVE_AND_TRANSMIT" /\ buffered_byte' = data_pipeline[1]
          /\ ~packet_complete'
      BY <1>1, <2>1, <2>9 DEF ReceiverMoves, DetectorMoves, ByteComes, Control, Stages, Types, DetectorTypes
    <3>2. data_pipeline' = <<PacketByte(come), PacketByte(come + 1)>>
      BY <2>1, <2>3, <2>9, <3>1
    <3>3. come - 1 \in 1 .. packet_len /\ come \in Nat /\ come + 1 >= 2 /\ (come + 1) - 1 = come
      BY <2>2, <3>1, <1>2
    <3>4. buffered_byte' = host_acked + (come - 1)
      BY <2>1, <2>9, <3>1, <3>3 DEF PacketByte
    <3>5. /\ buffered_byte' - host_acked \in 1 .. packet_len
          /\ buffered_byte' = host_acked + (come + 1) - 2 /\ come + 1 > 2
      BY <3>1, <3>3, <3>4, <1>2
    <3>6. QED BY <1>1, <2>2, <2>4, <2>5, <2>6, <3>1, <3>2, <3>3, <3>5 DEF Position
  <2>10. rx_state \in {"RECEIVE_FIRST_BYTE", "RECEIVE_SECOND_BYTE", "RECEIVE_AND_EMIT"}
    BY <1>1, <1>5 DEF Control, OnTheBus
  <2>11. QED BY <2>7, <2>8, <2>9, <2>10
<1>6. QED BY <1>4, <1>5

LEMMA PositionStep ==
  ASSUME SizeAssumption, DelayAssumption, Prompt, Control, Control', Position, Steps
  PROVE  Position'
<1>1. /\ host_acked \in Nat /\ packet_len \in Nat /\ bus \in Seq(Nat) /\ Len(bus) \in Nat
      /\ host_acked' \in Nat /\ packet_len' \in Nat /\ counter \in Nat
      /\ rx_to_tx_delay \in {1, 2}
  BY DEF Control, Types, HostTypes, ReceiverTypes, Prompt
<1>2. CASE wire' \in {"quiet", "token", "pinged"}
  <2>1. rx_state' = "IDLE" /\ bd_state' = "WAIT_FOR_FIRST_BYTE"
    BY <1>2 DEF Control, OnTheBus, Settled
  <2>2. QED BY <1>2, <2>1 DEF Position
<1>3. CASE token # "out" /\ wire # "quiet"
  <2>1. token' = token
    BY <1>3 DEF Steps, QuietStep, TokenStep, StartStep, PidStep, ByteStep, GapStep, EndStep, DamageStep,
         LossStep, AckStep, NoGainStep, AnswerStep, MoveOnStep, PingStep, HaltStep
  <2>2. QED BY <1>3, <2>1 DEF Position
<1>4. ASSUME token = "out", wire' \notin {"quiet", "token", "pinged"}, StartStep PROVE Position'
  <2>1. wire' = "pid" /\ bus' = PacketBytes /\ bd_state' = "WAIT_FOR_FIRST_BYTE" /\ rx_state' = "READ_PID"
    BY <1>4 DEF StartStep, Control, OnTheBus, Stages, DetectorQuiet
  <2>2. PacketBytes' = PacketBytes
    BY <1>4 DEF StartStep, PacketBytes, hostVars, packetVars
  <2>3. QED BY <2>1, <2>2 DEF Position
<1>5. ASSUME token = "out", PidStep PROVE Position'
  <2>1. /\ wire = "pid" /\ wire' = "data" /\ bus' = bus /\ host_acked' = host_acked /\ packet_len' = packet_len
        /\ rx_state = "READ_PID" /\ rx_state' \in {"RECEIVE_FIRST_BYTE", "IRRELEVANT"}
    BY <1>5 DEF PidStep, Moves, ReceiverMoves, hostVars, packetVars, Control, OnTheBus
  <2>2. bd_state' = "WAIT_FOR_FIRST_BYTE"
    BY <2>1 DEF Control, Stages, DetectorQuiet
  <2>3. bus = PacketBytes
    BY <1>5, <2>1 DEF Position
  <2>4. /\ Len(bus') = packet_len + 2
        /\ \A k \in 1 .. packet_len + 2 : bus'[k] = PacketByte(k)
    BY <1>5, <2>1, <2>3, PacketBytesAre DEF Control
  <2>5. ASSUME NEW k PROVE PacketByte(k)' = PacketByte(k)
    BY <2>1 DEF PacketByte
  <2>6. packet_len' + 2 - Len(bus') = 0 /\ Len(bus') <= packet_len' + 2
    BY <1>1, <2>1, <2>4
  <2>7. \A k \in 1 .. Len(bus') : bus'[k] = PacketByte(0 + k)'
    BY <1>1, <2>4, <2>5
  <2>8. QED BY <2>1, <2>2, <2>6, <2>7 DEF Position
<1>6. ASSUME token = "out", ByteStep PROVE Position'
  BY <1>6, ByteInPosition
<1>7. ASSUME token = "out", GapStep PROVE Position'
  <2>1. /\ UNCHANGED <<token, wire, bus, host_acked, packet_len, rx_state, data_pipeline, bd_state, buffered_byte>>
        /\ ~packet_complete' /\ wire \in {"pid", "data"} /\ rx_state # "INTERPACKET_DELAY"
    <3>1. wire \in {"pid", "data"} /\ UNCHANGED <<token, wire, bus, host_acked, packet_len>>
      BY <1>7 DEF GapStep, hostVars, packetVars
    <3>2. ReceiverMoves(TRUE, FALSE, 0, "other", 0, FALSE) /\ DetectorMoves(FALSE)
      BY <1>7 DEF GapStep, Moves
    <3>3. UNCHANGED <<rx_state, data_pipeline>> /\ ~packet_complete' /\ rx_state # "INTERPACKET_DELAY"
      BY <3>1, <3>2 DEF ReceiverMoves, Control, OnTheBus, Types, ReceiverTypes
    <3>4. UNCHANGED <<bd_state, buffered_byte>>
      BY <3>1, <3>2 DEF DetectorMoves, ByteComes, Control, OnTheBus, Stages, Ends, DetectorQuiet, Types,
           DetectorTypes
    <3>5. QED BY <3>1, <3>3, <3>4
  <2>2. PacketBytes' = PacketBytes
    BY <2>1 DEF PacketBytes
  <2>3. \A k \in Nat : PacketByte(k)' = PacketByte(k)
    BY <2>1 DEF PacketByte
  <2>4. QED BY <2>1, <2>2, <2>3, <1>1 DEF Position, PacketByte
<1>8. ASSUME token = "out", EndStep PROVE Position'
  <2>1. /\ wire = "data" /\ bus = << >> /\ wire' = "sent" /\ rx_state # "IRRELEVANT"
        /\ UNCHANGED <<token, host_acked, packet_len>>
        /\ ReceiverMoves(FALSE, FALSE, 0, "other", 0, TRUE) /\ DetectorMoves(FALSE)
    BY <1>8 DEF EndStep, Moves, hostVars, packetVars, Control, OnTheBus
  <2>2. /\ rx_state = "RECEIVE_FIRST_BYTE" => packet_len + 2 = 0
        /\ rx_state = "RECEIVE_SECOND_BYTE" => packet_len + 2 = 1
        /\ rx_state = "RECEIVE_AND_EMIT" =>
             /\ bd_state = "WAIT_FOR_FIRST_BYTE" => packet_len + 2 = 2
             /\ bd_state = "RECEIVE_AND_TRANSMIT" =>
                  packet_len + 2 > 2 /\ buffered_byte = host_acked + (packet_len + 2) - 2
    <3>1. Len(bus) = 0 /\ packet_len + 2 - Len(bus) = packet_len + 2
      BY <1>1, <2>1
    <3>2. QED BY <1>8, <2>1, <3>1 DEF Position
  <2>3. /\ rx_state = "RECEIVE_AND_EMIT"
        /\ bd_state = "WAIT_FOR_FIRST_BYTE" => packet_len = 0
        /\ bd_state = "RECEIVE_AND_TRANSMIT" => packet_len \in 1 .. packet_len /\ buffered_byte = host_acked + packet_len
    BY <1>1, <2>1, <2>2 DEF Control, OnTheBus
  <2>4. /\ rx_state' = "INTERPACKET_DELAY" /\ bd_state \in {"WAIT_FOR_FIRST_BYTE", "RECEIVE_AND_TRANSMIT"}
        /\ bd_state' = bd_state /\ buffered_byte' = buffered_byte
    BY <2>1, <2>3 DEF ReceiverMoves, DetectorMoves, ByteComes, Control, Stages, Types, DetectorTypes
  <2>5. bd_state' = "RECEIVE_AND_TRANSMIT" =>
          /\ buffered_byte' = host_acked' + packet_len' /\ buffered_byte' - host_acked' \in 1 .. packet_len'
    BY <1>1, <2>1, <2>3, <2>4
  <2>6. QED BY <2>1, <2>3, <2>4, <2>5 DEF Position, DetectorQuiet
<1>9. ASSUME token = "out", DamageStep PROVE Position'
  <2>1. /\ wire \in {"pid", "data"} /\ wire' = "sent" /\ UNCHANGED <<token, host_acked, packet_len>>
        /\ ReceiverMoves(FALSE, FALSE, 0, "other", 0, FALSE) /\ DetectorMoves(FALSE)
    BY <1>9 DEF DamageStep, Rests, Moves, hostVars, packetVars
  <2>2. rx_state' = "IDLE" /\ ~packet_complete'
    BY <2>1 DEF ReceiverMoves, Control, OnTheBus
  <2>3. /\ bd_state' = "RECEIVE_AND_TRANSMIT" => bd_state = "RECEIVE_AND_TRANSMIT"
        /\ bd_state' = "RECEIVE_AND_TRANSMIT" => buffered_byte' = buffered_byte
    BY <2>1 DEF DetectorMoves, ByteComes, Control, Types, DetectorTypes
  <2>4. QED BY <1>9, <2>1, <2>2, <2>3 DEF Position
<1>10. ASSUME token = "out", LossStep PROVE Position'
  <2>1. wire' = "sent" /\ rx_state' = "IDLE" /\ bd_state' = "WAIT_FOR_FIRST_BYTE" /\ ~packet_complete'
    BY <1>10 DEF LossStep, Rests, Moves, ReceiverMoves, DetectorMoves, ByteComes, Control, OnTheBus, Settled
  <2>2. QED BY <2>1 DEF Position
<1>11. ASSUME token = "out", QuietStep, wire = "sent" PROVE Position'
  <2>1. /\ wire' = "sent" /\ UNCHANGED <<token, host_acked, packet_len>> /\ ~Ready
        /\ ReceiverMoves(FALSE, FALSE, 0, "other", 0, FALSE) /\ DetectorMoves(FALSE)
    BY <1>11 DEF QuietStep, Rests, Moves, hostVars, packetVars
  <2>2. rx_state \in {"IDLE", "INTERPACKET_DELAY"} /\ rx_state' = rx_state /\ ~packet_complete'
    BY <1>11, <2>1 DEF ReceiverMoves, Control, OnTheBus, Types, ReceiverTypes, Ready
  <2>3. bd_state' # "RECEIVE_AND_TRANSMIT"
    BY <2>1, <2>2 DEF DetectorMoves, ByteComes, Control, Types, DetectorTypes
  <2>4. rx_state' = "INTERPACKET_DELAY" /\ DetectorQuiet' => rx_state = "INTERPACKET_DELAY" /\ DetectorQuiet
    <3>1. SUFFICES ASSUME rx_state = "INTERPACKET_DELAY", DetectorQuiet' PROVE DetectorQuiet
      BY <2>2
    <3>2. ~out.invalid /\ ~buffered_invalid
      BY <3>1 DEF Control, Stages
    <3>3. bd_state = "WAIT_FOR_FIRST_BYTE"
      BY <2>1, <3>1, <3>2 DEF DetectorMoves, DetectorQuiet, Control, Strobes, Types, DetectorTypes
    <3>4. ~out.complete
      BY <2>1, <3>1, <1>1 DEF Control, InTime, Ready
    <3>5. ~out.next
      BY <3>3 DEF Control, Strobes
    <3>6. QED BY <3>2, <3>3, <3>4, <3>5 DEF DetectorQuiet
  <2>5. QED BY <1>11, <2>1, <2>2, <2>3, <2>4 DEF Position
<1>12. QED
  <2>1. QuietStep => wire' = wire /\ wire \in {"quiet", "token", "sent", "pinged"}
    BY DEF QuietStep
  <2>2. TokenStep \/ AckStep \/ NoGainStep \/ MoveOnStep \/ PingStep \/ HaltStep => wire' \in {"quiet", "token", "pinged"}
    BY DEF TokenStep, AckStep, NoGainStep, AnswerStep, MoveOnStep, PingStep, HaltStep
  <2>3. wire = "quiet" => wire' \in {"quiet", "token", "pinged"}
    BY DEF Steps, QuietStep, TokenStep, StartStep, PidStep, ByteStep, GapStep, EndStep, DamageStep,
       LossStep, AckStep, NoGainStep, AnswerStep, MoveOnStep, PingStep, HaltStep
  <2>4. QED BY <1>2, <1>3, <1>4, <1>5, <1>6, <1>7, <1>8, <1>9, <1>10, <1>11, <2>1, <2>2, <2>3 DEF Steps

---------------------------------------------------------------------------
(* The packet in the FIFO *)


\* What every step has in common.
LEMMA StepSees ==
  ASSUME Control, Steps
  PROVE  \E valid, clear \in BOOLEAN :
           /\ DetectorMoves(valid) /\ EndpointMoves(clear)
           /\ (ByteComes(valid) => ByteStep) /\ (clear => HaltStep)
<1> USE DEF ByteComes
<1>1. CASE Rests(FALSE)
  BY <1>1 DEF Rests, Moves
<1>2. CASE HaltStep
  BY <1>2 DEF HaltStep, Rests, Moves
<1>3. CASE StartStep
  BY <1>3 DEF StartStep, Moves
<1>4. CASE PidStep
  BY <1>4 DEF PidStep, Moves, Control, OnTheBus
<1>5. CASE ByteStep
  <2>1. DetectorMoves(TRUE) /\ EndpointMoves(FALSE)
    BY <1>5 DEF ByteStep, Moves
  <2>2. QED BY <1>5, <2>1
<1>6. CASE GapStep
  BY <1>6 DEF GapStep, Moves
<1>7. CASE EndStep
  BY <1>7 DEF EndStep, Moves
<1>8. QED BY <1>1, <1>2, <1>3, <1>4, <1>5, <1>6, <1>7
          DEF Steps, QuietStep, TokenStep, DamageStep, LossStep, AckStep, NoGainStep, AnswerStep, MoveOnStep, PingStep

\* Nothing but an answer ends a packet for the endpoint.
LEMMA OnlyAnswers ==
  ASSUME Control, Steps, ~AnswerStep
  PROVE  ~(token = "out" /\ Ready)
BY DEF Steps, QuietStep, TokenStep, StartStep, PidStep, ByteStep, GapStep, EndStep, DamageStep,
       LossStep, AckStep, NoGainStep, MoveOnStep, PingStep, HaltStep, Control, OnTheBus, Settled, Ready

\* A packet is on its way in from its PID on, and then nothing else changes about it.
LEMMA ArrivingStep ==
  ASSUME Control, Control', Steps, Arriving'
  PROVE  /\ token = "out" /\ UNCHANGED <<host_acked, packet_len, short_ends, host_toggle, expected_data_toggle>>
         /\ ~PidStep => Arriving /\ active_pid' = active_pid
         /\ PidStep => active_pid' = host_toggle /\ DetectorQuiet /\ DetectorQuiet' /\ ~Ends /\ ~Ends'
<1>1. wire' # "quiet" /\ token' = "out"
  BY DEF Arriving
<1>2. wire # "quiet"
  <2>1. ASSUME wire = "quiet" PROVE FALSE
    <3>1. wire' \in {"quiet", "token", "pinged"}
      BY <2>1 DEF Steps, QuietStep, TokenStep, StartStep, PidStep, ByteStep, GapStep, EndStep, DamageStep,
         LossStep, AckStep, NoGainStep, AnswerStep, MoveOnStep, PingStep, HaltStep
    <3>2. QED BY <1>1, <3>1 DEF Control, OnTheBus, Settled, Arriving, Ends, DetectorQuiet
  <2>2. QED BY <2>1
<1>3. ~AckStep /\ ~NoGainStep /\ ~AnswerStep /\ ~TokenStep /\ ~MoveOnStep /\ ~PingStep /\ ~HaltStep
  BY <1>1, <1>2 DEF AckStep, NoGainStep, AnswerStep, TokenStep, MoveOnStep, PingStep, HaltStep
<1>4. token = "out" /\ UNCHANGED <<host_acked, packet_len, short_ends, host_toggle>>
  BY <1>1, <1>3 DEF Steps, QuietStep, StartStep, PidStep, ByteStep, GapStep, EndStep, DamageStep,
     LossStep, hostVars, packetVars
<1>5. expected_data_toggle' = expected_data_toggle
  <2>1. ~Takes
    BY <1>3, OnlyAnswers DEF Takes
  <2>2. QED BY <1>3, <2>1, StepSees DEF EndpointMoves
<1>6. CASE PidStep
  <2>1. PICK kind \in {"data", "other"}, toggle \in {0, 1} :
          toggle = host_toggle /\ Moves(TRUE, TRUE, 0, kind, toggle, FALSE, FALSE)
    BY <1>4, <1>6 DEF PidStep
  <2>2. rx_state = "READ_PID" /\ rx_state' \in {"RECEIVE_FIRST_BYTE", "IRRELEVANT"}
        /\ (rx_state' = "RECEIVE_FIRST_BYTE" => active_pid' = host_toggle)
    BY <1>6, <2>1 DEF PidStep, Control, OnTheBus, Moves, ReceiverMoves
  <2>3. DetectorQuiet /\ DetectorQuiet' /\ ~Ends /\ ~Ends'
    BY <2>2 DEF Control, Stages
  <2>4. rx_state' = "RECEIVE_FIRST_BYTE"
    BY <2>2, <2>3 DEF Arriving
  <2>5. QED BY <1>4, <1>5, <1>6, <2>2, <2>3, <2>4
<1>7. CASE ~PidStep
  <2>1. active_pid' = active_pid
    BY <1>3, <1>7 DEF Steps, QuietStep, StartStep, ByteStep, GapStep, EndStep, DamageStep, LossStep,
       Rests, Moves, ReceiverMoves
  <2>2. Arriving
    <3>1. SUFFICES ASSUME ~Arriving PROVE FALSE
      OBVIOUS
    <3>2. rx_state \in {"IDLE", "READ_PID", "IRRELEVANT"} /\ ~Ends /\ DetectorQuiet
      BY <1>2, <1>4, <3>1 DEF Arriving, Control, Types, ReceiverTypes
    <3>3. DetectorQuiet' /\ ~Ends'
      BY <3>2, <1>3, <1>7 DEF Steps, QuietStep, StartStep, ByteStep, GapStep, EndStep, DamageStep, LossStep,
         Rests, Moves, ReceiverMoves, DetectorMoves, ByteComes, DetectorQuiet, Ends
    <3>4. rx_state' \in {"IDLE", "READ_PID", "IRRELEVANT"}
      BY <3>2, <1>3, <1>7 DEF Steps, QuietStep, StartStep, ByteStep, GapStep, EndStep, DamageStep, LossStep,
         Rests, Moves, ReceiverMoves, Control, OnTheBus
    <3>5. QED BY <3>3, <3>4 DEF Arriving
  <2>3. QED BY <1>4, <1>5, <1>7, <2>1, <2>2
<1>8. QED BY <1>6, <1>7

\* A byte that reaches the detector is the packet's next one.
LEMMA ByteReachesDetector ==
  ASSUME Control, Position, Position', ByteStep, token = "out", rx_state = "RECEIVE_AND_EMIT"
  PROVE  /\ bd_state = "WAIT_FOR_FIRST_BYTE" => buffered_byte' = host_acked + 1
         /\ bd_state = "RECEIVE_AND_TRANSMIT" => buffered_byte' = buffered_byte + 1
<1>1. /\ wire = "data" /\ bus # << >> /\ wire' = "data" /\ bus' = Tail(bus) /\ token' = "out"
      /\ host_acked' = host_acked /\ packet_len' = packet_len
      /\ ReceiverMoves(TRUE, TRUE, Head(bus), "other", 0, FALSE) /\ DetectorMoves(TRUE)
  BY DEF ByteStep, Moves, hostVars, packetVars
<1>2. /\ host_acked \in Nat /\ packet_len \in Nat /\ bus \in Seq(Nat) /\ Len(bus) \in Nat
      /\ Len(bus') = Len(bus) - 1
  BY <1>1 DEF Control, Types, HostTypes
<1>3. rx_state' = "RECEIVE_AND_EMIT"
  BY <1>1 DEF ReceiverMoves
<1>4. CASE bd_state = "WAIT_FOR_FIRST_BYTE"
  <2>1. bd_state' = "RECEIVE_AND_TRANSMIT"
    BY <1>1, <1>4 DEF DetectorMoves, ByteComes
  <2>2. packet_len + 2 - Len(bus) = 2
    BY <1>1, <1>4 DEF Position
  <2>3. buffered_byte' = host_acked + (packet_len + 2 - Len(bus')) - 2
    BY <1>1, <1>3, <2>1 DEF Position
  <2>4. QED BY <1>2, <1>4, <2>2, <2>3
<1>5. CASE bd_state = "RECEIVE_AND_TRANSMIT"
  <2>1. bd_state' = "RECEIVE_AND_TRANSMIT"
    BY <1>1, <1>5 DEF DetectorMoves, ByteComes
  <2>2. buffered_byte = host_acked + (packet_len + 2 - Len(bus)) - 2
    BY <1>1, <1>5 DEF Position
  <2>3. buffered_byte' = host_acked + (packet_len + 2 - Len(bus')) - 2
    BY <1>1, <1>3, <2>1 DEF Position
  <2>4. QED BY <1>2, <1>5, <2>2, <2>3
<1>6. QED BY <1>4, <1>5

\* The registers of the endpoint hold their types, Flow's arithmetic needs no more.
LEMMA FlowTypes ==
  ASSUME SizeAssumption, Types
  PROVE  /\ host_acked \in Nat /\ packet_len \in Nat /\ packet_len <= max_packet_size
         /\ max_packet_size \in Nat /\ max_packet_size >= 1 /\ rx_counts \in Nat
         /\ rx_counts >= max_packet_size /\ buffer_size \in Nat /\ buffer_size >= max_packet_size
         /\ Len(pending) \in Nat /\ Len(committed) \in Nat /\ rx_cnt \in Nat /\ buffered_byte \in Nat
         /\ Len(committed) + Len(pending) <= buffer_size
         /\ expected_data_toggle \in {0, 1} /\ host_toggle \in {0, 1} /\ active_pid \in {0, 1}
         /\ bd_state \in {"WAIT_FOR_FIRST_BYTE", "RECEIVE_AND_TRANSMIT", "OUTPUT_STROBES"}
BY DEF SizeAssumption, Types, HostTypes, EndpointTypes, DetectorTypes, ReceiverTypes

\* The packet in the FIFO, if the device wants it.
Wanted == Arriving /\ Fresh /\ ~overflow

LEMMA WantedStep ==
  ASSUME SizeAssumption, Control, Control', Position, Position', Flow, Steps, Wanted'
  PROVE  /\ \A k \in 1 .. Len(pending') : pending'[k].byte = host_acked' + k
         /\ ~out'.complete /\ ~out'.invalid => \A k \in 1 .. Len(pending') : ~pending'[k].last
         /\ bd_state' = "RECEIVE_AND_TRANSMIT" =>
              buffered_byte' = host_acked' + Len(pending') + (IF out'.next THEN 2 ELSE 1)
         /\ out'.next => out'.byte = host_acked' + Len(pending') + 1
         /\ bd_state' = "OUTPUT_STROBES" => Len(pending') < packet_len'
         /\ buffered_complete' => Len(pending') + 1 = packet_len'
         /\ out'.complete =>
              /\ Len(pending') = packet_len'
              /\ \A k \in 1 .. packet_len' :
                   pending'[k].last <=> k = packet_len' /\ packet_len' < max_packet_size'
<1> USE FlowTypes DEF Control
<1>1. /\ token = "out" /\ UNCHANGED <<host_acked, packet_len, host_toggle, expected_data_toggle>>
      /\ ~PidStep => Arriving /\ active_pid' = active_pid
      /\ PidStep => DetectorQuiet /\ DetectorQuiet' /\ ~Ends'
      /\ Fresh
  BY ArrivingStep DEF Wanted, Fresh
<1>2. PICK valid \in BOOLEAN, clear \in BOOLEAN :
        /\ DetectorMoves(valid) /\ EndpointMoves(clear)
        /\ (ByteComes(valid) => ByteStep) /\ (clear => HaltStep)
  BY StepSees
<1>3. ~overflow' /\ max_packet_size' = max_packet_size
  BY DEF Wanted
<1>4. CASE pending' = << >> /\ DetectorQuiet'
  <2>1. Len(pending') = 0
    BY <1>4
  <2>2. ~buffered_complete'
    BY <1>4 DEF Strobes, DetectorQuiet
  <2>3. QED BY <1>4, <2>1, <2>2 DEF DetectorQuiet
<1>5. CASE PidStep
  <2>1. pending = << >> /\ ~out.next /\ ~out.complete /\ ~out.invalid
    BY <1>1, <1>5 DEF Flow, DetectorQuiet
  <2>2. pending' = << >>
    BY <1>2, <2>1 DEF EndpointMoves, Commits, Discards, Writes
  <2>3. QED BY <1>1, <1>4, <1>5, <2>2
<1>6. CASE ~PidStep /\ (Commits \/ Discards)
  <2>1. pending' = << >> /\ (out.complete \/ out.invalid)
    BY <1>2, <1>6 DEF EndpointMoves, Commits, Discards
  <2>2. bd_state = "WAIT_FOR_FIRST_BYTE" /\ rx_state # "RECEIVE_AND_EMIT"
    BY <2>1 DEF Strobes, Stages
  <2>3. DetectorQuiet'
    BY <1>2, <2>2 DEF DetectorMoves, ByteComes, DetectorQuiet
  <2>4. QED BY <1>4, <2>1, <2>3
<1>7. CASE ~PidStep /\ ~Commits /\ ~Discards
  <2>1. ~overflow /\ ~Loses /\ Arriving /\ Fresh /\ Matches
    <3>1. ~overflow /\ ~Loses
      BY <1>2, <1>3, <1>7 DEF EndpointMoves
    <3>2. active_pid = host_toggle
      BY <1>1, <1>7 DEF Flow
    <3>3. QED BY <1>1, <1>7, <3>1, <3>2 DEF Matches, Fresh
  <2>2. ~out.complete /\ ~out.invalid
    BY <1>1, <1>7, <2>1 DEF Commits, Discards
  <2>3. Writes <=> out.next
    BY <1>1, <2>1 DEF Writes, Loses
  <2>4. /\ \A k \in 1 .. Len(pending) : pending[k].byte = host_acked + k
        /\ \A k \in 1 .. Len(pending) : ~pending[k].last
    BY <2>1, <2>2 DEF Flow
  <2>5. /\ bd_state = "RECEIVE_AND_TRANSMIT" =>
             buffered_byte = host_acked + Len(pending) + (IF out.next THEN 2 ELSE 1)
        /\ out.next => out.byte = host_acked + Len(pending) + 1
        /\ bd_state = "OUTPUT_STROBES" => Len(pending) < packet_len
        /\ buffered_complete => Len(pending) + 1 = packet_len
        /\ Len(pending) < rx_counts => rx_cnt = Len(pending)
    BY <2>1, <2>2 DEF Flow
  <2>6. /\ ~out.next => pending' = pending
        /\ out.next => /\ Len(pending') = Len(pending) + 1
                       /\ \A k \in 1 .. Len(pending) : pending'[k] = pending[k]
                       /\ pending'[Len(pending) + 1].byte = out.byte
                       /\ pending'[Len(pending) + 1].last <=> out.last /\ rx_cnt # max_packet_size - 1
    BY <1>2, <1>7, <2>3 DEF EndpointMoves
  <2>7. \A k \in 1 .. Len(pending') : pending'[k].byte = host_acked' + k
    <3>1. CASE out.next
      <4>1. SUFFICES ASSUME NEW k \in 1 .. Len(pending) + 1 PROVE pending'[k].byte = host_acked + k
        BY <1>1, <2>6, <3>1
      <4>2. CASE k = Len(pending) + 1
        BY <2>5, <2>6, <3>1, <4>2
      <4>3. CASE k # Len(pending) + 1
        <5>1. k \in 1 .. Len(pending)
          BY <4>3
        <5>2. QED BY <2>4, <2>6, <3>1, <5>1
      <4>4. QED BY <4>2, <4>3
    <3>2. CASE ~out.next
      BY <1>1, <2>4, <2>6, <3>2
    <3>3. QED BY <3>1, <3>2
  <2>8. ~out'.complete /\ ~out'.invalid => \A k \in 1 .. Len(pending') : ~pending'[k].last
    <3>1. CASE out.next
      <4>1. SUFFICES ASSUME ~out'.complete, ~out'.invalid, NEW k \in 1 .. Len(pending) + 1
                     PROVE  ~pending'[k].last
        BY <2>6, <3>1
      <4>2. ~out.last
        BY <1>2, <3>1, <4>1 DEF Strobes, DetectorMoves
      <4>3. CASE k = Len(pending) + 1
        BY <2>6, <3>1, <4>2, <4>3
      <4>4. CASE k # Len(pending) + 1
        <5>1. k \in 1 .. Len(pending)
          BY <4>4
        <5>2. QED BY <2>4, <2>6, <3>1, <5>1
      <4>5. QED BY <4>3, <4>4
    <3>2. CASE ~out.next
      BY <2>4, <2>6, <3>2
    <3>3. QED BY <3>1, <3>2
  <2>9. Len(pending') = Len(pending) + (IF out.next THEN 1 ELSE 0)
    BY <2>6
  <2>10. CASE bd_state = "WAIT_FOR_FIRST_BYTE"
    <3>1. ~out.next /\ ~buffered_complete
      BY <2>10 DEF Strobes
    <3>2. pending = << >> /\ Len(pending) = 0
      BY <2>2, <2>10, <3>1 DEF Flow, DetectorQuiet
    <3>3. ~out'.next /\ ~out'.complete /\ ~buffered_complete' /\ bd_state' # "OUTPUT_STROBES"
      BY <1>2, <2>10, <3>1 DEF DetectorMoves
    <3>4. bd_state' = "RECEIVE_AND_TRANSMIT" => buffered_byte' = host_acked + 1
      <4>1. SUFFICES ASSUME bd_state' = "RECEIVE_AND_TRANSMIT" PROVE buffered_byte' = host_acked + 1
        OBVIOUS
      <4>2. ByteStep /\ rx_state = "RECEIVE_AND_EMIT"
        BY <1>2, <2>10, <4>1 DEF DetectorMoves, ByteComes
      <4>3. QED BY <1>1, <2>10, <4>2, ByteReachesDetector
    <3>5. QED BY <1>1, <2>7, <2>8, <2>9, <3>1, <3>2, <3>3, <3>4
  <2>11. CASE bd_state = "RECEIVE_AND_TRANSMIT"
    <3>1. buffered_byte = host_acked + Len(pending') + 1
      BY <2>5, <2>9, <2>11
    <3>2. /\ ~out'.complete /\ (buffered_complete' <=> packet_complete)
          /\ out'.next <=> ByteComes(valid) \/ rx_state # "RECEIVE_AND_EMIT"
          /\ out'.next => out'.byte = buffered_byte
          /\ bd_state' = IF rx_state = "RECEIVE_AND_EMIT" THEN "RECEIVE_AND_TRANSMIT" ELSE "OUTPUT_STROBES"
          /\ ~ByteComes(valid) => buffered_byte' = buffered_byte
      BY <1>2, <2>11 DEF DetectorMoves, Strobes
    <3>3. buffered_byte - host_acked \in 1 .. packet_len /\ (packet_complete => buffered_byte = host_acked + packet_len)
      BY <1>1, <2>11 DEF Position
    <3>4. bd_state' = "RECEIVE_AND_TRANSMIT" =>
            buffered_byte' = host_acked + Len(pending') + (IF out'.next THEN 2 ELSE 1)
      <4>1. SUFFICES ASSUME rx_state = "RECEIVE_AND_EMIT"
                     PROVE  buffered_byte' = host_acked + Len(pending') + (IF out'.next THEN 2 ELSE 1)
        BY <3>2
      <4>2. CASE ByteComes(valid)
        <5>1. buffered_byte' = buffered_byte + 1
          BY <1>1, <1>2, <2>11, <4>1, <4>2, ByteReachesDetector
        <5>2. QED BY SMTT(30), <3>1, <3>2, <4>2, <5>1, <2>9
      <4>3. CASE ~ByteComes(valid)
        BY <3>1, <3>2, <4>1, <4>3
      <4>4. QED BY <4>2, <4>3
    <3>5. bd_state' = "OUTPUT_STROBES" => Len(pending') < packet_len
      <4>1. Len(pending') \in Nat /\ host_acked \in Nat /\ packet_len \in Nat
        BY <2>9
      <4> HIDE FlowTypes
      <4>2. QED BY <3>1, <3>3, <4>1
    <3>6. buffered_complete' => Len(pending') + 1 = packet_len
      BY SMTT(30), <2>9, <3>1, <3>2, <3>3
    <3>7. QED BY <1>1, <2>7, <2>8, <3>1, <3>2, <3>4, <3>5, <3>6
  <2>12. CASE bd_state = "OUTPUT_STROBES"
    <3>1. /\ out.next /\ out.last /\ ~out'.next /\ bd_state' = "WAIT_FOR_FIRST_BYTE"
          /\ ~buffered_complete' /\ (out'.complete => buffered_complete)
      BY <1>2, <2>12 DEF DetectorMoves, Strobes
    <3>2. out'.complete =>
            /\ Len(pending') = packet_len
            /\ \A k \in 1 .. packet_len : pending'[k].last <=> k = packet_len /\ packet_len < max_packet_size
      <4>1. SUFFICES ASSUME out'.complete, NEW k \in 1 .. packet_len
                     PROVE  /\ Len(pending') = packet_len
                            /\ pending'[k].last <=> k = packet_len /\ packet_len < max_packet_size
        <5>1. out'.complete => Len(pending') = packet_len
          BY <2>5, <2>9, <3>1
        <5>2. QED BY <5>1
      <4>2. Len(pending) + 1 = packet_len /\ Len(pending') = packet_len /\ rx_cnt = Len(pending)
        BY <2>5, <2>9, <3>1, <4>1
      <4>3. CASE k = packet_len
        <5>1. pending'[k].last <=> rx_cnt # max_packet_size - 1
          BY <2>6, <3>1, <4>2, <4>3
        <5>2. rx_cnt # max_packet_size - 1 <=> packet_len < max_packet_size
          BY <4>2
        <5>3. QED BY <4>2, <4>3, <5>1, <5>2
      <4>4. CASE k # packet_len
        <5>1. k \in 1 .. Len(pending)
          BY <4>2, <4>4
        <5>2. ~pending'[k].last
          BY <2>4, <2>6, <3>1, <5>1
        <5>3. QED BY <4>2, <4>4, <5>2
      <4>5. QED BY <4>3, <4>4
    <3>3. QED BY <1>1, <1>3, <2>7, <2>8, <3>1, <3>2
  <2>13. QED BY <2>10, <2>11, <2>12, <1>1
<1>8. QED BY <1>5, <1>6, <1>7

LEMMA FlowStep ==
  ASSUME SizeAssumption, DelayAssumption, Control, Control', Position, Position', Flow, Steps
  PROVE  Flow'
<1> USE FlowTypes DEF Control
<1>1. PICK valid \in BOOLEAN, clear \in BOOLEAN :
        /\ DetectorMoves(valid) /\ EndpointMoves(clear)
        /\ (ByteComes(valid) => ByteStep) /\ (clear => HaltStep)
  BY StepSees
<1>2. Arriving' => active_pid' = host_toggle'
  BY ArrivingStep DEF Flow
<1>3. Len(pending') < rx_counts' => rx_cnt' = Len(pending')
  <2>1. CASE Commits \/ Discards
    BY <1>1, <2>1 DEF EndpointMoves
  <2>2. CASE ~Commits /\ ~Discards /\ ~Writes
    BY <1>1, <2>2 DEF EndpointMoves, Flow
  <2>3. CASE ~Commits /\ ~Discards /\ Writes
    <3>1. rx_cnt' = (rx_cnt + 1) % rx_counts /\ Len(pending') = Len(pending) + 1 /\ rx_counts' = rx_counts
      BY <1>1, <2>3 DEF EndpointMoves
    <3>2. SUFFICES ASSUME Len(pending) + 1 < rx_counts PROVE rx_cnt' = Len(pending) + 1
      BY <3>1
    <3>3. rx_cnt = Len(pending)
      BY <3>2 DEF Flow
    <3>4. QED BY <3>1, <3>2, <3>3
  <2>4. QED BY <2>1, <2>2, <2>3
<1>4. token' # "out" \/ DetectorQuiet' => pending' = << >> /\ ~overflow'
  <2>1. SUFFICES ASSUME token' # "out" \/ DetectorQuiet' PROVE pending' = << >> /\ ~overflow'
    OBVIOUS
  <2>2. CASE token # "out" \/ DetectorQuiet
    <3>1. pending = << >> /\ ~overflow /\ ~Writes /\ ~Loses
      BY <2>2 DEF Flow, Writes, Loses, DetectorQuiet
    <3>2. QED BY <1>1, <3>1 DEF EndpointMoves
  <2>3. CASE token = "out" /\ ~DetectorQuiet
    <3>1. token' = "out" \/ (wire = "quiet" /\ Settled)
      BY <2>3 DEF Steps, QuietStep, TokenStep, StartStep, PidStep, ByteStep, GapStep, EndStep, DamageStep,
         LossStep, AckStep, NoGainStep, AnswerStep, MoveOnStep, PingStep, HaltStep
    <3>2. DetectorQuiet' /\ ~Settled
      BY <2>1, <2>3, <3>1 DEF Settled, DetectorQuiet
    <3>3. out.complete \/ out.invalid
      BY <1>1, <2>3, <3>2 DEF DetectorMoves, DetectorQuiet, Strobes
    <3>4. Commits \/ Discards
      BY <2>3, <3>3 DEF Commits, Discards
    <3>5. QED BY <1>1, <3>4 DEF EndpointMoves
  <2>4. QED BY <2>2, <2>3
<1>5. Arriving' /\ ~Fresh' => pending' = << >> /\ ~overflow'
  <2>1. SUFFICES ASSUME Arriving', ~Fresh' PROVE pending' = << >> /\ ~overflow'
    OBVIOUS
  <2>2. /\ ~Fresh
        /\ ~PidStep => Arriving
        /\ PidStep => DetectorQuiet
    BY <2>1, ArrivingStep DEF Fresh
  <2>3. pending = << >> /\ ~overflow
    BY <2>2 DEF Flow
  <2>4. ~Writes /\ ~Loses
    BY <2>2 DEF Flow, Fresh, Writes, Loses, Matches, DetectorQuiet
  <2>5. QED BY <1>1, <2>3, <2>4 DEF EndpointMoves
<1>6. Arriving' /\ Fresh' /\ ~overflow' =>
         /\ \A k \in 1 .. Len(pending') : pending'[k].byte = host_acked' + k
         /\ ~out'.complete /\ ~out'.invalid => \A k \in 1 .. Len(pending') : ~pending'[k].last
         /\ bd_state' = "RECEIVE_AND_TRANSMIT" =>
              buffered_byte' = host_acked' + Len(pending') + (IF out'.next THEN 2 ELSE 1)
         /\ out'.next => out'.byte = host_acked' + Len(pending') + 1
         /\ bd_state' = "OUTPUT_STROBES" => Len(pending') < packet_len'
         /\ buffered_complete' => Len(pending') + 1 = packet_len'
         /\ out'.complete =>
              /\ Len(pending') = packet_len'
              /\ \A k \in 1 .. packet_len' :
                   pending'[k].last <=> k = packet_len' /\ packet_len' < max_packet_size'
  BY WantedStep DEF Wanted
<1>7. QED BY <1>2, <1>3, <1>4, <1>5, <1>6 DEF Flow

---------------------------------------------------------------------------
(* The room a PING was promised *)

\* While a packet is being answered or after, never before, does the FIFO commit it.
LEMMA CommitsInTime ==
  ASSUME DelayAssumption, Prompt, Control, token = "out", out.complete
  PROVE  wire = "quiet" \/ (wire = "sent" /\ Ready)
<1> USE DEF Control
<1>1. rx_to_tx_delay \in {1, 2} /\ counter \in Nat
  BY DEF Prompt, Types, ReceiverTypes
<1>2. bd_state = "WAIT_FOR_FIRST_BYTE" \/ bd_state = "OUTPUT_STROBES"
  BY DEF Strobes, Types, DetectorTypes
<1>3. wire \in {"quiet", "sent"}
  BY DEF OnTheBus, Settled, Stages, DetectorQuiet, Types, HostTypes
<1>4. wire = "sent" => Ready
  BY <1>1 DEF InTime, Ready
<1>5. QED BY <1>3, <1>4

LEMMA NothingLost ==
  ASSUME SizeAssumption, DelayAssumption, Control, Position, Flow, RoomKept, ping_acked
  PROVE  ~Loses
<1> USE FlowTypes DEF Control
<1>1. SUFFICES ASSUME token = "out", Matches, out.next, Full PROVE FALSE
  BY DEF Loses
<1>2. wire # "quiet" /\ ~DetectorQuiet
  BY <1>1 DEF OnTheBus, DetectorQuiet
<1>3. Arriving /\ ~overflow
  BY <1>1, <1>2 DEF Arriving, RoomKept
<1>4. Fresh
  BY <1>1, <1>3 DEF Flow, Matches, Fresh
<1>5. bd_state # "WAIT_FOR_FIRST_BYTE"
  BY <1>1 DEF Strobes
<1>6. CASE bd_state = "OUTPUT_STROBES"
  <2>1. Len(pending) < packet_len
    BY <1>3, <1>4, <1>6 DEF Flow
  <2>2. QED BY <1>1, <2>1 DEF Full, RoomKept
<1>7. CASE bd_state = "RECEIVE_AND_TRANSMIT"
  <2>1. buffered_byte = host_acked + Len(pending) + 2
    BY <1>1, <1>3, <1>4, <1>7 DEF Flow
  <2>2. buffered_byte - host_acked \in 1 .. packet_len
    BY <1>1, <1>7 DEF Position
  <2>3. Len(pending) < packet_len
    BY SMTT(30), <2>1, <2>2
  <2>4. QED BY <1>1, <2>3 DEF Full, RoomKept
<1>8. QED BY <1>5, <1>6, <1>7

LEMMA RoomKeptStep ==
  ASSUME SizeAssumption, DelayAssumption, Prompt, Control, Control', Position, Flow, RoomKept, Steps
  PROVE  RoomKept'
<1> USE FlowTypes DEF Control
<1>1. PICK valid \in BOOLEAN, clear \in BOOLEAN :
        /\ DetectorMoves(valid) /\ EndpointMoves(clear)
        /\ (ByteComes(valid) => ByteStep) /\ (clear => HaltStep)
  BY StepSees
<1>2. SUFFICES ASSUME ping_acked'
               PROVE  /\ buffer_size - Len(committed') >= max_packet_size /\ ~overflow'
                      /\ ~(wire' = "quiet" /\ out'.complete)
  BY DEF RoomKept
<1>3. Len(committed) \in Nat /\ Len(committed') \in Nat
  BY DEF Types, EndpointTypes
<1>4. CASE PingStep
  <2>1. /\ token = "ping" /\ Settled
        /\ buffer_size - Len(committed) - Len(pending) >= max_packet_size
    BY <1>2, <1>4 DEF PingStep, OnTheBus
  <2>2. ~Commits /\ ~Discards /\ ~Loses /\ ~overflow /\ bd_state = "WAIT_FOR_FIRST_BYTE"
    BY <2>1 DEF Commits, Discards, Loses, Flow, Settled
  <2>3. Len(committed') <= Len(committed) /\ ~overflow' /\ ~out'.complete
    BY <1>1, <2>2 DEF EndpointMoves, DetectorMoves
  <2>4. QED BY <1>3, <2>1, <2>3
<1>5. CASE ~PingStep
  <2>1. ping_acked /\ ~AnswerStep
    BY <1>2, <1>5 DEF Steps, QuietStep, TokenStep, StartStep, PidStep, ByteStep, GapStep, EndStep, DamageStep,
         LossStep, AckStep, NoGainStep, AnswerStep, MoveOnStep, PingStep, HaltStep, hostVars
  <2>2. buffer_size - Len(committed) >= max_packet_size /\ ~overflow /\ ~(wire = "quiet" /\ out.complete)
    BY <2>1 DEF RoomKept
  <2>3. ~(token = "out" /\ out.complete)
    BY <2>1, <2>2, CommitsInTime, OnlyAnswers
  <2>4. ~Commits /\ ~Loses
    BY <2>1, <2>3, NothingLost DEF Commits
  <2>5. Len(committed') <= Len(committed) /\ ~overflow'
    BY <1>1, <2>2, <2>4 DEF EndpointMoves
  <2>6. wire' = "quiet" => ~out'.complete
    <3>1. SUFFICES ASSUME wire' = "quiet" PROVE ~out'.complete
      OBVIOUS
    <3>2. wire = "quiet" \/ Settled
      BY <1>5, <2>1, <3>1 DEF Steps, QuietStep, TokenStep, StartStep, PidStep, ByteStep, GapStep, EndStep,
         DamageStep, LossStep, AckStep, NoGainStep, MoveOnStep, HaltStep
    <3>3. bd_state = "WAIT_FOR_FIRST_BYTE"
      BY <3>2 DEF OnTheBus, Settled
    <3>4. QED BY <1>1, <3>3 DEF DetectorMoves
  <2>7. QED BY <1>3, <2>2, <2>5, <2>6
<1>6. QED BY <1>4, <1>5

---------------------------------------------------------------------------
(* The stream *)

LEMMA HeldBounds ==
  ASSUME NEW t \in Seq(Entry), NEW top \in Nat, NEW ends, NEW halts, Ordered(t, top, ends, halts)
  PROVE  /\ HeldOf(t) \in Nat /\ HeldOf(t) <= Len(t) /\ HeldOf(t) <= top
         /\ halts = 0 => HeldOf(t) = Len(t)
<1>1. CASE t = << >>
  BY <1>1 DEF HeldOf
<1>2. CASE t # << >>
  <2>1. Len(t) \in Nat /\ Len(t) \in 1 .. Len(t) /\ HeldOf(t) = t[Len(t)].byte
    BY <1>2 DEF HeldOf
  <2>2. QED BY <2>1 DEF Ordered
<1>3. QED BY <1>1, <1>2

\* The next packet's bytes come after those that are there.
LEMMA Extended ==
  ASSUME NEW t \in Seq(Entry), NEW p \in Seq(Entry), NEW acked \in Nat, NEW ends \in SUBSET (1 .. acked),
         NEW halts, SizeAssumption,
         Ordered(t, acked + Len(p), EndingOf(ends, acked, Len(p)), halts),
         HeldOf(t) = acked \/ (halts > 0 /\ HeldOf(t) = acked + Len(p)), halts \in Nat,
         \A k \in 1 .. Len(p) : /\ p[k].byte = acked + k
                                /\ p[k].last <=> k = Len(p) /\ Len(p) < max_packet_size
  PROVE  /\ Ordered(t \o p, acked + Len(p), EndingOf(ends, acked, Len(p)), halts)
         /\ HeldOf(t \o p) = acked + Len(p)
<1> DEFINE n == Len(t)
           m == Len(p)
           all == t \o p
           e == EndingOf(ends, acked, m)
<1>1. n \in Nat /\ m \in Nat /\ acked + m \in Nat /\ max_packet_size \in Nat /\ max_packet_size >= 1
  BY DEF SizeAssumption
<1>2. /\ all \in Seq(Entry) /\ Len(all) = n + m
      /\ \A k \in 1 .. n + m : all[k] = IF k <= n THEN t[k] ELSE p[k - n]
  BY ConcatProperties
<1>3. /\ HeldOf(t) \in Nat /\ HeldOf(t) <= n /\ (halts = 0 => HeldOf(t) = n)
  BY <1>1, HeldBounds
<1>4. acked <= n /\ acked <= HeldOf(t) /\ (halts = 0 => acked = n)
  BY <1>1, <1>3
<1>5. n > 0 => HeldOf(t) = t[n].byte
  BY DEF HeldOf
<1> HIDE DEF all
<1>6. \A k \in 1 .. m : p[k].byte = acked + k /\ (p[k].last <=> p[k].byte \in e)
  <2>1. SUFFICES ASSUME NEW k \in 1 .. m PROVE p[k].byte = acked + k /\ (p[k].last <=> p[k].byte \in e)
    OBVIOUS
  <2>2. p[k].byte = acked + k /\ (p[k].last <=> k = m /\ m < max_packet_size)
    OBVIOUS
  <2>3. acked + k \notin ends
    BY <1>1
  <2>4. acked + k = acked + m <=> k = m
    BY <1>1
  <2>5. acked + k \in e <=> k = m /\ m < max_packet_size
    BY <1>1, <2>3, <2>4 DEF EndingOf
  <2>6. QED BY <2>2, <2>5
<1>7. \A k \in 1 .. n : /\ t[k].byte \in 1 .. k /\ t[k].byte <= acked + m
                        /\ k > 1 => t[k].byte <= t[k - 1].byte + 1
                        /\ t[k].last <=> t[k].byte \in e
                        /\ halts = 0 => t[k].byte = k
  BY DEF Ordered
<1> HIDE DEF n, m, e
<1>8. ASSUME NEW k \in 1 .. n + m
      PROVE  /\ all[k].byte \in 1 .. k /\ all[k].byte <= acked + m
             /\ k > 1 => all[k].byte <= all[k - 1].byte + 1
             /\ all[k].last <=> all[k].byte \in e
             /\ halts = 0 => all[k].byte = k
  <2>1. CASE k <= n
    <3>1. all[k] = t[k] /\ (k > 1 => all[k - 1] = t[k - 1]) /\ k \in 1 .. n
      <4>1. k \in 1 .. n /\ (k > 1 => k - 1 \in 1 .. n + m /\ k - 1 <= n)
        BY <1>1, <2>1
      <4>2. QED BY <1>2, <2>1, <4>1
    <3>2. QED BY <1>7, <3>1
  <2>2. CASE ~(k <= n)
    <3>1. k - n \in 1 .. m /\ all[k] = p[k - n]
      BY <1>1, <1>2, <2>2
    <3>2. all[k].byte = acked + (k - n) /\ (all[k].last <=> all[k].byte \in e)
      BY <1>6, <3>1
    <3>3. all[k].byte \in 1 .. k /\ all[k].byte <= acked + m /\ (halts = 0 => all[k].byte = k)
      BY <1>1, <1>4, <3>1, <3>2
    <3>4. k > 1 => all[k].byte <= all[k - 1].byte + 1
      <4>1. CASE k - 1 <= n /\ k > 1
        <5>1. k - 1 = n /\ n \in 1 .. n + m /\ n > 0
          BY <1>1, <2>2, <4>1
        <5>2. all[k - 1].byte = HeldOf(t)
          BY <1>2, <1>5, <5>1
        <5>3. QED BY <1>1, <1>3, <1>4, <3>2, <5>1, <5>2
      <4>2. CASE ~(k - 1 <= n) /\ k > 1
        <5>1. k - 1 \in 1 .. n + m /\ (k - 1) - n \in 1 .. m
          BY <1>1, <4>2
        <5>2. all[k - 1].byte = acked + ((k - 1) - n)
          BY <1>2, <1>6, <4>2, <5>1
        <5>3. QED BY <1>1, <3>2, <5>2
      <4>3. QED BY <4>1, <4>2
    <3>5. QED BY <3>2, <3>3, <3>4
  <2>3. QED BY <2>1, <2>2
<1>9. Ordered(all, acked + m, e, halts)
  BY <1>2, <1>8 DEF Ordered
<1>10. HeldOf(all) = acked + m
  <2>1. CASE m = 0
    <3>1. p = << >>
      BY <2>1 DEF m
    <3>2. all = t
      BY <3>1 DEF all
    <3>3. QED BY <1>1, <2>1, <3>2 DEF m
  <2>2. CASE m > 0
    <3>1. Len(all) = n + m /\ n + m \in 1 .. n + m /\ ~(n + m <= n) /\ (n + m) - n = m /\ m \in 1 .. m
      BY <1>1, <1>2, <2>2
    <3>2. all # << >> /\ all[Len(all)].byte = acked + m
      BY <1>2, <1>6, <3>1
    <3>3. QED BY <3>2 DEF HeldOf
  <2>3. QED BY <1>1, <2>1, <2>2
<1>11. QED BY <1>9, <1>10 DEF all, m, e

\* The host goes on to its next packet.
LEMMA NextPacket ==
  ASSUME NEW t \in Seq(Entry), NEW acked \in Nat, NEW ends, NEW n \in Nat, NEW halts,
         Ordered(t, acked, ends, halts)
  PROVE  Ordered(t, acked + n, EndingOf(ends, acked, n), halts)
<1>1. SUFFICES ASSUME NEW k \in 1 .. Len(t)
               PROVE  t[k].byte <= acked + n /\ (t[k].last <=> t[k].byte \in EndingOf(ends, acked, n))
  BY DEF Ordered
<1>2. t[k].byte \in Nat /\ t[k].byte <= acked /\ (t[k].last <=> t[k].byte \in ends)
  BY DEF Ordered
<1>3. n >= 1 => t[k].byte # acked + n
  BY <1>2
<1>4. QED BY <1>2, <1>3 DEF EndingOf

\* The answer says whether the stream gets the packet: an ACK adds it, if it is not there.
LEMMA AnswerTakes ==
  ASSUME SizeAssumption, DelayAssumption, Prompt, Control, Control', Position, Flow, AnswerStep
  PROVE  /\ Through \in Seq(Entry) /\ (Matches <=> Fresh)
         /\ expected_data_toggle' = IF Takes THEN 1 - expected_data_toggle ELSE expected_data_toggle
         /\ ~Takes => Through' = Through
         /\ Takes => \E p \in Seq(Entry) :
              /\ Through' = Through \o p /\ Len(p) = packet_len
              /\ \A k \in 1 .. Len(p) : /\ p[k].byte = host_acked + k
                                        /\ p[k].last <=> k = Len(p) /\ Len(p) < max_packet_size
<1> USE FlowTypes DEF Control
<1>1. /\ wire = "sent" /\ token = "out" /\ Ready /\ wire' = "quiet" /\ token' = "out"
      /\ DetectorMoves(FALSE) /\ EndpointMoves(FALSE) /\ rx_state = "INTERPACKET_DELAY"
      /\ counter = rx_to_tx_delay /\ rx_to_tx_delay \in {1, 2} /\ pending \in Seq(Entry) /\ pending' \in Seq(Entry)
  BY DEF AnswerStep, Rests, Moves, Ready, Prompt, Types, ReceiverTypes, EndpointTypes
<1>2. Arriving /\ active_pid = host_toggle /\ (Matches <=> Fresh)
  BY <1>1 DEF Arriving, Flow, Matches, Fresh
<1>3. /\ Through = Kept /\ Kept \in Seq(Entry) /\ Kept \o << >> = Kept
      /\ Through' = IF out'.complete /\ ~overflow' THEN Kept' \o pending' ELSE Kept'
  <2>1. Through = Kept
    BY <1>1 DEF Through, Accepted
  <2>2. Kept \in Seq(Entry)
    BY <1>1 DEF EndpointMoves
  <2>3. Kept \o << >> = Kept
    BY <2>2, ConcatEmptySeq
  <2>4. Accepted' <=> out'.complete /\ ~overflow'
    BY <1>1 DEF Accepted
  <2>5. QED BY <2>1, <2>2, <2>3, <2>4 DEF Through
<1>4. expected_data_toggle' = IF Takes THEN 1 - expected_data_toggle ELSE expected_data_toggle
  BY <1>1 DEF EndpointMoves
<1>5. Takes <=> Fresh /\ ~Loses /\ ~overflow
  BY <1>1, <1>2 DEF Takes
<1>6. ~out.invalid /\ ~buffered_invalid /\ ~crc_mismatch
  BY <1>1 DEF Stages
<1>7. ~Discards \/ (out.complete /\ overflow)
  BY <1>6 DEF Discards
<1>8. CASE DetectorQuiet
  <2>1. pending = << >> /\ ~overflow /\ packet_len = 0 /\ ~Commits /\ ~Discards /\ ~Writes /\ ~Loses
    BY <1>1, <1>6, <1>8 DEF Flow, Position, DetectorQuiet, Commits, Discards, Writes, Loses
  <2>2. Kept' = Kept /\ ~out'.complete
    BY <1>1, <1>8, <2>1 DEF EndpointMoves, DetectorMoves, DetectorQuiet
  <2>3. Through' = Through \o << >> /\ Through' = Through
    BY <1>3, <2>2
  <2>4. << >> \in Seq(Entry) /\ Len(<< >>) = packet_len /\ 1 .. Len(<< >>) = {}
    BY <2>1
  <2>5. Takes => \E p \in Seq(Entry) :
              /\ Through' = Through \o p /\ Len(p) = packet_len
              /\ \A k \in 1 .. Len(p) : /\ p[k].byte = host_acked + k
                                        /\ p[k].last <=> k = Len(p) /\ Len(p) < max_packet_size
    <3> HAVE Takes
    <3> << >> \in Seq(Entry)
      OBVIOUS
    <3>1. WITNESS << >> \in Seq(Entry)
    <3>2. QED BY <2>3, <2>4
  <2>6. QED BY <1>2, <1>3, <1>4, <2>3, <2>5
<1>9. CASE bd_state = "OUTPUT_STROBES"
  <2>1. /\ out.next /\ out.last /\ ~out.complete /\ ~out.invalid /\ buffered_complete /\ out'.complete
        /\ ~Commits /\ ~Discards /\ Kept' = Kept
    BY <1>1, <1>6, <1>9 DEF Strobes, DetectorMoves, EndpointMoves, Commits, Discards
  <2>2. overflow' <=> overflow \/ Loses
    BY <1>1, <2>1 DEF EndpointMoves
  <2>3. CASE ~Takes /\ Fresh
    BY <1>2, <1>3, <1>4, <1>5, <2>1, <2>2, <2>3
  <2>4. CASE ~Takes /\ ~Fresh
    <3>1. pending = << >> /\ ~Writes
      BY <1>2, <2>4 DEF Flow, Writes
    <3>2. pending' = << >>
      BY <1>1, <2>1, <3>1 DEF EndpointMoves
    <3>3. QED BY <1>2, <1>3, <1>4, <2>1, <2>4, <3>2
  <2>5. CASE Takes
    <3>1. Through' = Through \o pending' /\ Writes /\ Fresh /\ ~overflow
      BY <1>1, <1>2, <1>3, <1>5, <2>1, <2>2, <2>5 DEF Writes, Loses
    <3>2. /\ Len(pending') = Len(pending) + 1
          /\ \A k \in 1 .. Len(pending) : pending'[k] = pending[k]
          /\ pending'[Len(pending) + 1].byte = out.byte
          /\ pending'[Len(pending) + 1].last <=> out.last /\ rx_cnt # max_packet_size - 1
      BY <1>1, <2>1, <3>1 DEF EndpointMoves
    <3>3. /\ \A k \in 1 .. Len(pending) : pending[k].byte = host_acked + k /\ ~pending[k].last
          /\ out.byte = host_acked + Len(pending) + 1 /\ Len(pending) + 1 = packet_len
      BY <1>2, <2>1, <3>1 DEF Flow
    <3>4. rx_cnt = Len(pending)
      BY <3>3 DEF Flow
    <3>5. Len(pending') = packet_len
      BY <3>2, <3>3
    <3>6. ASSUME NEW k \in 1 .. packet_len
          PROVE  /\ pending'[k].byte = host_acked + k
                 /\ pending'[k].last <=> k = packet_len /\ packet_len < max_packet_size
      <4>1. CASE k = packet_len
        <5>1. k = Len(pending) + 1 /\ (rx_cnt # max_packet_size - 1 <=> packet_len < max_packet_size)
          BY <3>3, <3>4, <4>1
        <5>2. pending'[k].byte = out.byte /\ out.byte = host_acked + k
          BY <3>2, <3>3, <5>1
        <5>3. pending'[k].last <=> rx_cnt # max_packet_size - 1
          BY <2>1, <3>2, <5>1
        <5>4. QED BY <4>1, <5>1, <5>2, <5>3
      <4>2. CASE k # packet_len
        <5>1. k \in 1 .. Len(pending)
          BY <3>3, <4>2
        <5>2. QED BY <3>2, <3>3, <4>2, <5>1
      <4>3. QED BY <4>1, <4>2
    <3>7. \E p \in Seq(Entry) :
              /\ Through' = Through \o p /\ Len(p) = packet_len
              /\ \A k \in 1 .. Len(p) : /\ p[k].byte = host_acked + k
                                        /\ p[k].last <=> k = Len(p) /\ Len(p) < max_packet_size
      <4> pending' \in Seq(Entry)
        BY <1>1
      <4>1. WITNESS pending' \in Seq(Entry)
      <4>2. QED BY <3>1, <3>5, <3>6
    <3>8. QED BY <1>2, <1>3, <1>4, <2>5, <3>7
  <2>6. QED BY <2>3, <2>4, <2>5
<1>10. CASE bd_state = "WAIT_FOR_FIRST_BYTE" /\ ~DetectorQuiet
  <2>1. out.complete /\ ~out.next /\ ~Loses /\ ~out'.complete
    BY <1>1, <1>6, <1>10 DEF DetectorQuiet, Strobes, Loses, DetectorMoves
  <2>2. CASE overflow
    <3>1. ~Commits /\ ~Takes /\ Kept' = Kept
      BY <1>1, <1>5, <2>2 DEF Commits, EndpointMoves
    <3>2. QED BY <1>2, <1>3, <1>4, <2>1, <3>1
  <2>3. CASE ~overflow
    <3>1. Commits /\ Kept' = Kept \o pending /\ Through' = Through \o pending
      BY <1>1, <1>3, <2>1, <2>3 DEF Commits, EndpointMoves
    <3>2. ~Takes => Through' = Through
      <4>1. SUFFICES ASSUME ~Takes PROVE Through' = Through
        OBVIOUS
      <4>2. ~Fresh
        BY <1>5, <2>1, <2>3, <4>1
      <4>3. pending = << >>
        BY <1>2, <4>2 DEF Flow
      <4>4. QED BY <1>3, <3>1, <4>3
    <3>3. Takes => \E p \in Seq(Entry) :
              /\ Through' = Through \o p /\ Len(p) = packet_len
              /\ \A k \in 1 .. Len(p) : /\ p[k].byte = host_acked + k
                                        /\ p[k].last <=> k = Len(p) /\ Len(p) < max_packet_size
      <4>1. HAVE Takes
      <4>2. /\ \A k \in 1 .. Len(pending) : pending[k].byte = host_acked + k
            /\ Len(pending) = packet_len
            /\ \A k \in 1 .. packet_len : pending[k].last <=> k = packet_len /\ packet_len < max_packet_size
        BY <1>2, <1>5, <2>1, <2>3, <4>1 DEF Flow
      <4> pending \in Seq(Entry)
        BY <1>1
      <4>3. WITNESS pending \in Seq(Entry)
      <4>4. QED BY <3>1, <4>2
    <3>4. QED BY <1>2, <1>3, <1>4, <3>2, <3>3
  <2>4. QED BY <2>2, <2>3
<1>11. bd_state # "RECEIVE_AND_TRANSMIT"
  BY <1>1, <1>6 DEF Stages, Ends, InTime
<1>12. QED BY <1>8, <1>9, <1>10, <1>11

\* Between answers the stream keeps what it has, wherever its bytes are.
LEMMA ThroughStays ==
  ASSUME SizeAssumption, DelayAssumption, Prompt, Control, Control', Steps, ~AnswerStep
  PROVE  Through' = Through
<1> USE DEF Control
<1>1. PICK valid \in BOOLEAN, clear \in BOOLEAN :
        /\ DetectorMoves(valid) /\ EndpointMoves(clear)
        /\ (ByteComes(valid) => ByteStep) /\ (clear => HaltStep)
  BY StepSees
<1>2. CASE wire = "quiet"
  <2>1. bd_state = "WAIT_FOR_FIRST_BYTE"
    BY <1>2 DEF OnTheBus
  <2>2. ~Accepted'
    BY <1>1, <2>1 DEF DetectorMoves, Accepted
  <2>3. Accepted <=> Commits
    BY <1>2 DEF Accepted, Commits
  <2>4. QED BY <1>1, <2>2, <2>3 DEF EndpointMoves, Through
<1>3. CASE wire # "quiet"
  <2>1. ~Commits /\ ~Accepted
    BY <1>3, CommitsInTime, OnlyAnswers DEF Commits, Accepted
  <2>2. wire' = "quiet" => Settled
    BY <1>3 DEF Steps, QuietStep, TokenStep, StartStep, PidStep, ByteStep, GapStep, EndStep, DamageStep, LossStep,
       AckStep, NoGainStep, MoveOnStep, PingStep, HaltStep, OnTheBus
  <2>3. ~Accepted'
    BY <1>1, <2>2 DEF Settled, DetectorMoves, Accepted
  <2>4. QED BY <1>1, <2>1, <2>3 DEF EndpointMoves, Through
<1>4. QED BY <1>2, <1>3

LEMMA InOrderStep ==
  ASSUME SizeAssumption, DelayAssumption, Prompt, Control, Control', Position, Flow, InOrder, Steps
  PROVE  InOrder'
<1> USE FlowTypes DEF Control
<1>1. /\ short_ends \in SUBSET (1 .. host_acked) /\ halts_cleared \in Nat /\ max_packet_size' = max_packet_size
      /\ host_acked + packet_len \in Nat
  BY DEF Types, HostTypes
<1>2. PICK valid \in BOOLEAN, clear \in BOOLEAN :
        /\ DetectorMoves(valid) /\ EndpointMoves(clear)
        /\ (ByteComes(valid) => ByteStep) /\ (clear => HaltStep)
  BY StepSees
<1>3. Through \in Seq(Entry)
  <2>1. Kept \in Seq(Entry) /\ pending \in Seq(Entry)
    BY <1>2 DEF EndpointMoves, Types, EndpointTypes
  <2>2. QED BY <2>1, ConcatProperties DEF Through
<1>4. /\ Ordered(Through, host_acked + packet_len, Ending, halts_cleared)
      /\ Fresh  => \/ HeldOf(Through) = host_acked
                   \/ halts_cleared > 0 /\ HeldOf(Through) = host_acked + packet_len
      /\ ~Fresh => HeldOf(Through) = host_acked + packet_len
  BY DEF InOrder
<1>5. CASE HaltStep
  <2>1. Through' = Through
    <3>1. ~AnswerStep
      BY <1>5 DEF HaltStep, AnswerStep
    <3>2. QED BY <3>1, ThroughStays
  <2>2. /\ host_acked' = host_acked /\ packet_len' = packet_len /\ Ending' = Ending
        /\ halts_cleared' = halts_cleared + 1 /\ host_toggle' = 0
    BY <1>5 DEF HaltStep, Ending, EndingOf
  <2>3. Fresh'
    <3>1. EndpointMoves(TRUE)
      BY <1>5 DEF HaltStep, Rests, Moves
    <3>2. QED BY <2>2, <3>1 DEF EndpointMoves, Fresh
  <2>4. halts_cleared' > 0 /\ halts_cleared' # 0
    BY <1>1, <2>2
  <2>5. Ordered(Through, host_acked + packet_len, Ending, halts_cleared')
    BY <1>4, <2>4 DEF Ordered
  <2>6. QED BY <1>4, <2>1, <2>2, <2>3, <2>4, <2>5 DEF InOrder
<1>6. CASE ~HaltStep /\ ~AckStep /\ ~NoGainStep
  <2>1. UNCHANGED <<host_acked, packet_len, short_ends, host_toggle, halts_cleared>>
    BY <1>6 DEF Steps, QuietStep, TokenStep, StartStep, PidStep, ByteStep, GapStep, EndStep, DamageStep, LossStep,
       MoveOnStep, PingStep, hostVars, packetVars
  <2>2. ~AnswerStep
    BY <1>6 DEF Steps, QuietStep, TokenStep, StartStep, PidStep, ByteStep, GapStep, EndStep, DamageStep, LossStep,
       MoveOnStep, PingStep, AnswerStep, Control, OnTheBus, Settled, Ready
  <2>3. Through' = Through /\ ~Takes
    BY <2>2, ThroughStays, OnlyAnswers DEF Takes
  <2>4. expected_data_toggle' = expected_data_toggle
    BY <1>2, <1>6, <2>3 DEF EndpointMoves
  <2>5. (Fresh' <=> Fresh) /\ Ending' = Ending
    BY <1>1, <2>1, <2>4 DEF Fresh, Ending, EndingOf
  <2>6. QED BY <1>4, <2>1, <2>3, <2>5 DEF InOrder
<1>7. CASE AckStep \/ NoGainStep
  <2>1. AnswerStep /\ halts_cleared' = halts_cleared
    BY <1>7 DEF AckStep, NoGainStep, AnswerStep
  <2>2. /\ Matches <=> Fresh
        /\ expected_data_toggle' = IF Takes THEN 1 - expected_data_toggle ELSE expected_data_toggle
        /\ ~Takes => Through' = Through
        /\ Takes => \E p \in Seq(Entry) :
             /\ Through' = Through \o p /\ Len(p) = packet_len
             /\ \A k \in 1 .. Len(p) : /\ p[k].byte = host_acked + k
                                       /\ p[k].last <=> k = Len(p) /\ Len(p) < max_packet_size
    BY <2>1, AnswerTakes
  <2>3. /\ Through' \in Seq(Entry)
        /\ Ordered(Through', host_acked + packet_len, Ending, halts_cleared)
        /\ Takes => Fresh /\ HeldOf(Through') = host_acked + packet_len
    <3>1. CASE ~Takes
      BY <1>3, <1>4, <2>2, <3>1
    <3>2. CASE Takes
      <4>1. Fresh
        BY <2>2, <3>2 DEF Takes
      <4>2. PICK p \in Seq(Entry) :
             /\ Through' = Through \o p /\ Len(p) = packet_len
             /\ \A k \in 1 .. Len(p) : /\ p[k].byte = host_acked + k
                                       /\ p[k].last <=> k = Len(p) /\ Len(p) < max_packet_size
        BY <2>2, <3>2
      <4>3. /\ Ordered(Through, host_acked + Len(p), EndingOf(short_ends, host_acked, Len(p)), halts_cleared)
            /\ HeldOf(Through) = host_acked \/ (halts_cleared > 0 /\ HeldOf(Through) = host_acked + Len(p))
        BY <1>4, <4>1, <4>2 DEF Ending
      <4>4. /\ Ordered(Through \o p, host_acked + Len(p), EndingOf(short_ends, host_acked, Len(p)), halts_cleared)
            /\ HeldOf(Through \o p) = host_acked + Len(p)
        BY <1>1, <1>3, <4>2, <4>3, Extended
      <4>5. Through \o p \in Seq(Entry)
        BY <1>3, ConcatProperties
      <4>6. QED BY <4>1, <4>2, <4>4, <4>5 DEF Ending
    <3>3. QED BY <3>1, <3>2
  <2>4. CASE NoGainStep
    <3>1. UNCHANGED <<host_acked, packet_len, short_ends, host_toggle>> /\ Ending' = Ending
      BY <1>1, <2>4 DEF NoGainStep, packetVars, Ending, EndingOf
    <3>2. CASE Takes
      <4>1. ~Fresh'
        BY <2>2, <2>3, <3>1, <3>2 DEF Fresh
      <4>2. QED BY <2>1, <2>3, <3>1, <3>2, <4>1 DEF InOrder
    <3>3. CASE ~Takes
      <4>1. Fresh' <=> Fresh
        BY <2>2, <3>1, <3>3 DEF Fresh
      <4>2. QED BY <1>4, <2>1, <2>2, <2>3, <3>1, <3>3, <4>1 DEF InOrder
    <3>4. QED BY <3>2, <3>3
  <2>5. CASE AckStep
    <3>1. /\ host_acked' = host_acked + packet_len /\ host_toggle' = 1 - host_toggle
          /\ short_ends' = Ending /\ packet_len' \in Nat /\ (Takes \/ ~Matches)
      BY <2>5 DEF AckStep
    <3>2. HeldOf(Through') = host_acked'
      BY <1>4, <2>2, <2>3, <3>1
    <3>3. Fresh'
      BY SMTT(30), <2>2, <2>3, <3>1 DEF Fresh
    <3>4. Ordered(Through', host_acked', short_ends', halts_cleared)
      BY <2>3, <3>1
    <3>5. Ordered(Through', host_acked' + packet_len', EndingOf(short_ends', host_acked', packet_len'), halts_cleared)
      BY <1>1, <2>3, <3>1, <3>4, NextPacket
    <3>6. Ending' = EndingOf(short_ends', host_acked', packet_len')
      BY <1>1 DEF Ending, EndingOf
    <3>7. QED BY <2>1, <3>2, <3>3, <3>5, <3>6 DEF InOrder
  <2>6. QED BY <1>7, <2>4, <2>5
<1>8. QED BY <1>5, <1>6, <1>7

---------------------------------------------------------------------------
(* The invariant of the specification, and what follows from it *)

LEMMA InvariantInit ==
  ASSUME SizeAssumption, DelayAssumption, Init
  PROVE  IInv
<1>1. Control
  BY ControlInit
<1>2. /\ streamed = << >> /\ committed = << >> /\ pending = << >> /\ taken = 0 /\ overflow = FALSE
      /\ rx_cnt = 0 /\ expected_data_toggle = 0
      /\ token = "other" /\ wire = "quiet" /\ host_acked = 0 /\ short_ends = {} /\ host_toggle = 0
      /\ ping_acked = FALSE /\ halts_cleared = 0 /\ rx_cnt = Len(pending)
  BY DEF Init, E!Init, E!Fifo!Init
<1>3. Position
  BY <1>2 DEF Position
<1>4. Flow
  BY <1>2 DEF Flow, Arriving
<1>5. RoomKept
  BY <1>2 DEF RoomKept
<1>6. Through = << >>
  <2>1. SubSeq(<< >>, 1, 0) = << >> /\ << >> \o << >> = << >>
    OBVIOUS
  <2>2. QED BY <1>2, <2>1 DEF Through, Accepted, Kept, E!Fifo!Drop
<1>7. InOrder
  <2>1. Len(<< >>) = 0 /\ HeldOf(Through) = 0 /\ Fresh
    BY <1>2, <1>6 DEF HeldOf, Fresh
  <2>2. QED BY <1>2, <1>6, <2>1 DEF InOrder, Ordered
<1>8. QED BY <1>1, <1>3, <1>4, <1>5, <1>7 DEF IInv

LEMMA InvariantStutters ==
  ASSUME IInv, UNCHANGED vars
  PROVE  IInv'
<1> USE DEF vars, receiverVars, detectorVars, endpointVars, hostVars, packetVars, IInv
<1>1. Control'
  BY ControlStutters
<1>2. Position'
  BY DEF Position, PacketByte, PacketBytes, DetectorQuiet
<1>3. Kept' = Kept
  BY DEF Kept, E!Fifo!Drop
<1>4. Flow' /\ RoomKept'
  BY DEF Flow, RoomKept, Arriving, Fresh, Ends, DetectorQuiet
<1>5. Through' = Through
  BY <1>3 DEF Through, Accepted
<1>6. InOrder'
  BY <1>5 DEF InOrder, Fresh, Ending, EndingOf
<1>7. QED BY <1>1, <1>2, <1>4, <1>6

LEMMA Invariant ==
  ASSUME SizeAssumption, DelayAssumption, Prompt
  PROVE  Spec => []IInv
<1>1. Init => IInv
  BY InvariantInit
<1>2. IInv /\ [Next]_vars => IInv'
  <2>1. ASSUME IInv, Next PROVE IInv'
    <3>1. Steps
      BY <2>1, NextSteps DEF IInv, Control
    <3>2. Control'
      BY <2>1, <3>1, ControlStep DEF IInv
    <3>3. Position'
      BY <2>1, <3>1, <3>2, PositionStep DEF IInv
    <3>4. Flow'
      BY <2>1, <3>1, <3>2, <3>3, FlowStep DEF IInv
    <3>5. RoomKept'
      BY <2>1, <3>1, <3>2, RoomKeptStep DEF IInv
    <3>6. InOrder'
      BY <2>1, <3>1, <3>2, InOrderStep DEF IInv
    <3>7. QED BY <3>2, <3>3, <3>4, <3>5, <3>6 DEF IInv
  <2>2. QED BY <2>1, InvariantStutters
<1>3. QED BY <1>1, <1>2, PTL DEF Spec

\* What the stream and the FIFO hold is what the invariant speaks of.
LEMMA KeptInOrder ==
  ASSUME SizeAssumption, IInv
  PROVE  /\ Kept \in Seq(Entry) /\ Len(Kept) \in Nat
         /\ \A k \in 1 .. Len(Kept) :
              /\ Kept[k].byte \in 1 .. k /\ Kept[k].byte <= host_acked + packet_len
              /\ k > 1 => Kept[k].byte <= Kept[k - 1].byte + 1
              /\ Kept[k].last <=> Kept[k].byte \in Ending
              /\ halts_cleared = 0 => Kept[k].byte = k
         /\ Settled => HeldOf(Kept) >= host_acked /\ HeldOf(Kept) <= Len(Kept)
<1>1. /\ host_acked \in Nat /\ packet_len \in Nat /\ streamed \in Seq(Entry) /\ committed \in Seq(Entry)
      /\ pending \in Seq(Entry) /\ taken \in 0 .. Len(committed)
  BY DEF IInv, Control, Types, HostTypes, EndpointTypes
<1>2. Kept \in Seq(Entry)
  <2>1. SubSeq(committed, taken + 1, Len(committed)) \in Seq(Entry)
    <3>1. Len(committed) \in Nat /\ \A i \in taken + 1 .. Len(committed) : committed[i] \in Entry
      BY <1>1, ElementOfSeq
    <3>2. QED BY <1>1, <3>1, SubSeqProperties
  <2>2. QED BY <1>1, <2>1, ConcatProperties DEF Kept, E!Fifo!Drop
<1>3. /\ Through \in Seq(Entry) /\ Len(Kept) <= Len(Through)
      /\ \A k \in 1 .. Len(Kept) : Through[k] = Kept[k]
  <2>1. CASE Accepted
    <3>1. Through = Kept \o pending
      BY <2>1 DEF Through
    <3>2. Len(Kept) \in Nat /\ Len(pending) \in Nat
      BY <1>1, <1>2
    <3>3. QED BY <1>1, <1>2, <3>1, <3>2, ConcatProperties
  <2>2. CASE ~Accepted
    BY <1>2, <2>2 DEF Through
  <2>3. QED BY <2>1, <2>2
<1>4. Len(Kept) \in Nat /\ Len(Through) \in Nat
  BY <1>2, <1>3
<1>5. ASSUME NEW k \in 1 .. Len(Kept)
      PROVE  /\ Kept[k].byte \in 1 .. k /\ Kept[k].byte <= host_acked + packet_len
             /\ k > 1 => Kept[k].byte <= Kept[k - 1].byte + 1
             /\ Kept[k].last <=> Kept[k].byte \in Ending
             /\ halts_cleared = 0 => Kept[k].byte = k
  <2>1. k \in 1 .. Len(Through) /\ (k > 1 => k - 1 \in 1 .. Len(Kept))
    BY <1>3, <1>4
  <2>2. QED BY <1>3, <2>1 DEF IInv, InOrder, Ordered
<1>6. ASSUME Settled PROVE HeldOf(Kept) >= host_acked /\ HeldOf(Kept) <= Len(Kept)
  <2>1. Through = Kept
    BY <1>6 DEF Settled, Through, Accepted
  <2>2. HeldOf(Kept) = host_acked \/ HeldOf(Kept) = host_acked + packet_len
    BY <2>1 DEF IInv, InOrder
  <2>3. HeldOf(Kept) <= Len(Kept)
    <3>1. Ordered(Kept, host_acked + packet_len, Ending, halts_cleared) /\ host_acked + packet_len \in Nat
      BY <1>1, <2>1 DEF IInv, InOrder
    <3>2. QED BY <1>2, <3>1, HeldBounds
  <2>4. QED BY <1>1, <2>2, <2>3
<1>7. QED BY <1>2, <1>4, <1>5, <1>6

\* The consumer gets the host's bytes, each once and in order, and none of a packet that
\* the host has not begun to send, whatever was lost, damaged and repeated.
THEOREM StreamIsInOrder ==
  ASSUME SizeAssumption, DelayAssumption, Prompt
  PROVE  Spec => []StreamInOrder
<1>1. IInv => StreamInOrder
  <2>1. SUFFICES ASSUME IInv, halts_cleared = 0
                 PROVE  Len(Kept) <= host_acked + packet_len /\ \A k \in 1 .. Len(Kept) : Kept[k].byte = k
    BY DEF StreamInOrder
  <2>2. host_acked + packet_len \in Nat
    BY <2>1 DEF IInv, Control, Types, HostTypes
  <2>3. /\ Len(Kept) \in Nat
        /\ \A k \in 1 .. Len(Kept) : Kept[k].byte = k /\ Kept[k].byte <= host_acked + packet_len
    BY <2>1, KeptInOrder
  <2>4. QED BY <2>2, <2>3
<1>2. QED BY <1>1, Invariant, PTL

\* What the host saw ACKed is in the stream or in the FIFO once the device has settled.
THEOREM NothingAckedIsLost ==
  ASSUME SizeAssumption, DelayAssumption, Prompt
  PROVE  Spec => []AckedIsKept
<1>1. IInv => AckedIsKept
  <2>1. SUFFICES ASSUME IInv, Settled PROVE Len(Kept) >= host_acked
    BY DEF AckedIsKept
  <2>2. HeldOf(Kept) >= host_acked /\ HeldOf(Kept) <= Len(Kept) /\ Len(Kept) \in Nat /\ host_acked \in Nat
    BY <2>1, KeptInOrder DEF IInv, Control, Types, HostTypes
  <2>3. HeldOf(Kept) \in Nat
    <3>1. Kept \in Seq(Entry)
      BY <2>1, KeptInOrder
    <3>2. CASE Kept = << >>
      BY <3>2 DEF HeldOf
    <3>3. CASE Kept # << >>
      <4>1. Len(Kept) \in 1 .. Len(Kept) /\ HeldOf(Kept) = Kept[Len(Kept)].byte
        BY <3>1, <3>3 DEF HeldOf
      <4>2. QED BY <2>1, <4>1, KeptInOrder
    <3>4. QED BY <3>2, <3>3
  <2>4. QED BY <2>2, <2>3
<1>2. QED BY <1>1, Invariant, PTL

\* `last` is at the end of the short packets, whether their bytes came once or again.
THEOREM LastIsRight ==
  ASSUME SizeAssumption, DelayAssumption, Prompt
  PROVE  Spec => []LastMarksShortPackets
<1>1. IInv => LastMarksShortPackets
  <2>1. SUFFICES ASSUME IInv, NEW k \in 1 .. Len(Kept), Kept[k].byte <= host_acked
                 PROVE  Kept[k].last <=> Kept[k].byte \in short_ends
    BY DEF LastMarksShortPackets
  <2>2. /\ Kept[k].last <=> Kept[k].byte \in Ending
        /\ Kept[k].byte \in 1 .. k
    BY <2>1, KeptInOrder
  <2>3. host_acked \in Nat
    BY <2>1 DEF IInv, Control, Types, HostTypes
  <2>4. packet_len \in 1 .. max_packet_size - 1 => Kept[k].byte # host_acked + packet_len
    BY <2>1, <2>2, <2>3 DEF SizeAssumption
  <2>5. QED BY <2>2, <2>4 DEF Ending, EndingOf
<1>2. QED BY <1>1, Invariant, PTL

\* No packet is answered with a NAK that comes after a PING's ACK.
THEOREM PingIsHonoured ==
  ASSUME SizeAssumption, DelayAssumption, Prompt
  PROVE  Spec => []PingHonoured
<1>1. IInv => PingHonoured
  <2>1. SUFFICES ASSUME IInv, ping_acked PROVE ~E!nak(DataAnswer)
    BY DEF PingHonoured
  <2>2. ~Loses /\ ~overflow
    BY <2>1, NothingLost DEF IInv, RoomKept
  <2>3. E!fifo_full <=> Full
    BY <2>1 DEF E!fifo_full, E!Fifo!Room, Full, SizeAssumption, IInv, Control, Types, EndpointTypes
  <2> DEFINE i == DataAnswer
  <2>4. i.token = token /\ i.rx = out /\ i.rx_pid_toggle = active_pid /\ i.token_ready = FALSE
    BY DEF DataAnswer, EndpointInputs
  <2> HIDE DEF i
  <2>5. ~E!nak(i)
    BY <2>2, <2>3, <2>4 DEF E!nak, E!data_response_requested, E!ping_response_requested, E!data_accepted,
         E!should_skip, E!okay_to_receive, E!data_is_lost, E!targeting_endpoint, E!expected_pid_match,
         Matches, Loses
  <2>6. QED BY <2>5 DEF i
<1>2. QED BY <1>1, Invariant, PTL

\* Clearing a halt may repeat a packet to the consumer; it does not take one away.
THEOREM HaltsLoseNothing ==
  ASSUME SizeAssumption, DelayAssumption, Prompt
  PROVE  Spec => []HaltLosesNothing
<1>1. IInv => HaltLosesNothing
  <2>1. SUFFICES ASSUME IInv PROVE HaltLosesNothing
    OBVIOUS
  <2>2. ASSUME NEW k \in 1 .. Len(Kept)
        PROVE  Kept[k].byte <= (IF k = 1 THEN 1 ELSE Kept[k - 1].byte + 1)
    BY <2>1, KeptInOrder
  <2>3. ASSUME Settled, host_acked > 0 PROVE Kept # << >> /\ Kept[Len(Kept)].byte >= host_acked
    <3>1. HeldOf(Kept) >= host_acked /\ host_acked \in Nat
      BY <2>1, <2>3, KeptInOrder DEF IInv, Control, Types, HostTypes
    <3>2. Kept # << >>
      BY <2>3, <3>1 DEF HeldOf
    <3>3. QED BY <3>1, <3>2 DEF HeldOf
  <2>4. QED BY <2>2, <2>3 DEF HaltLosesNothing
<1>2. QED BY <1>1, Invariant, PTL
==================================================================================
