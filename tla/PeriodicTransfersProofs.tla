------------------------- MODULE PeriodicTransfersProofs -------------------------
(***************************************************************************)
(* The endpoints that answer IN tokens side by side: what they send and    *)
(* what the host may conclude from it.  Then the OUT endpoint: what its    *)
(* consumer gets of the packets a host sends.  For every size of packets,  *)
(* frames, signals and buffers.                                            *)
(***************************************************************************)
EXTENDS PeriodicTransfers, SequenceTheorems, FiniteSetTheorems, TLAPS

---------------------------------------------------------------------------
(* The inductive invariant *)

Packet == [pid : -1 .. 3, length : Nat]

Types ==
  /\ status_state \in {"IDLE", "TRANSMIT_RESPONSE", "WAIT_FOR_ACK", "RETRANSMIT"}
  /\ bytes_transmitted \in Nat /\ status_pid \in {0, 1}
  /\ status = [toggle |-> status.toggle, got |-> status.got, stolen |-> status.stolen]
  /\ status.toggle \in {0, 1} /\ status.stolen \in BOOLEAN
  /\ iso_state \in {"IDLE", "SEND_DATA", "SEND_ZLP"} /\ iso_first \in BOOLEAN
  /\ bytes_left_in_frame \in Int /\ bytes_left_in_packet \in Int /\ next_data_pid \in 0 .. 3
  /\ address \in Nat
  /\ tx_state \in {"IDLE", "SEND_PID", "SEND_PAYLOAD", "SEND_CRC_FIRST", "SEND_CRC_SECOND"}
  /\ packet_pid \in 0 .. 3 /\ is_zlp \in BOOLEAN
  /\ wire \in {"quiet", "asked", "answer", "ack", "token", "pid", "data"}
  /\ frame \in [count : Nat, size : 0 .. 3 * max_packet_size, heard : BOOLEAN,
                packets : Seq(Packet)]

\* The bytes of a status, and of a packet of samples.
StatusBytes(n) == [k \in 1 .. n |-> <<latched_signal, k - 1>>]
Samples(n)     == [k \in 1 .. n |-> Sample(k - 1)]

\* The status endpoint answers: it, the multiplexer and the generator agree on how far
\* the packet has come, and the other endpoint is silent.
StatusSpeaks ==
  /\ token.endpoint = STATUS /\ iso_state = "IDLE" /\ incoming = StatusBytes(bytes_transmitted)
  /\ \/ /\ status_state = "TRANSMIT_RESPONSE" /\ bytes_transmitted < bytes_in_signal
        /\ \/ tx_state = "IDLE" /\ bytes_transmitted = 0 /\ past_valid = {}
           \/ tx_state = "SEND_PID" /\ ~is_zlp /\ bytes_transmitted = 0 /\ packet_pid = status_pid
           \/ tx_state = "SEND_PAYLOAD" /\ packet_pid = status_pid
     \/ /\ status_state = "WAIT_FOR_ACK" /\ bytes_transmitted = bytes_in_signal
        /\ tx_state \in {"SEND_CRC_FIRST", "SEND_CRC_SECOND"} /\ packet_pid = status_pid

\* The isochronous endpoint answers.
IsoSpeaks ==
  /\ token.endpoint = ISO /\ status_state \in {"IDLE", "RETRANSMIT"}
  /\ Len(incoming) \in Nat /\ incoming = Samples(Len(incoming))
  /\ \/ /\ iso_state = "SEND_DATA" /\ address = Len(incoming)
        /\ \/ tx_state = "IDLE" /\ iso_first /\ Len(incoming) = 0 /\ past_valid = {}
           \/ tx_state = "SEND_PID" /\ ~is_zlp /\ Len(incoming) = 0 /\ packet_pid = next_data_pid
           \/ tx_state = "SEND_PAYLOAD" /\ packet_pid = next_data_pid
     \/ /\ iso_state = "SEND_ZLP" /\ tx_state = "IDLE" /\ Len(incoming) = 0 /\ past_valid = {}
     \/ /\ iso_state = "IDLE"
        /\ \/ tx_state = "SEND_PID" /\ is_zlp /\ Len(incoming) = 0
           \/ tx_state \in {"SEND_CRC_FIRST", "SEND_CRC_SECOND"}

InStep ==
  /\ wire = "answer" => StatusSpeaks \/ IsoSpeaks
  /\ wire # "answer" => /\ status_state # "TRANSMIT_RESPONSE" /\ iso_state = "IDLE"
                        /\ tx_state = "IDLE" /\ past_valid = {} /\ incoming = << >>
  /\ wire = "asked" => /\ token.pid = "in" /\ status_state # "WAIT_FOR_ACK"
                       /\ token \in {[pid |-> "in", endpoint |-> e] : e \in {ISO, STATUS}}
  /\ iso_state # "SEND_DATA" => ~iso_first

\* The host has the status that is being sent; its ACK is what is missing.
StatusTaken == status.toggle = 1 - status_pid /\ status.got = latched_signal

\* An ACK that was stolen leaves the two apart until the host has taken the next status.
StatusAgrees ==
  /\ status_state = "IDLE" /\ ~status.stolen => status_read = status.got /\ status_pid = status.toggle
  /\ status_state # "IDLE" /\ ~status.stolen => status_pid = status.toggle \/ StatusTaken
  /\ wire = "ack" => status_state = "WAIT_FOR_ACK" /\ (~status.stolen => StatusTaken)

\* Bytes in n full packets; n is at most 3.
Full(n) ==
  IF n = 0 THEN 0 ELSE IF n = 1 THEN max_packet_size ELSE IF n = 2 THEN 2 * max_packet_size
  ELSE 3 * max_packet_size

\* The host heard of the frame and missed none of its packets.
FollowsFrame == frame.heard /\ (frame.packets = << >> \/ Last(frame.packets) # Missing)

\* The packets so far, the bytes that are left and the PIDs count down together.
FrameCounts ==
  LET n     == Len(frame.packets)
      pid   == I!FirstPid(frame.size) - n
      left  == frame.size - Full(n)
  IN  /\ n <= I!FirstPid(frame.size) + 1
      /\ \A k \in 1 .. n : /\ frame.packets[k].pid = I!FirstPid(frame.size) - (k - 1)
                           /\ frame.packets[k].length =
                                IF frame.packets[k].pid = 0 THEN frame.size - Full(k - 1)
                                ELSE max_packet_size
      /\ pid >= 0 /\ ~(wire = "answer" /\ token.endpoint = ISO) =>
           next_data_pid = pid /\ bytes_left_in_packet = max_packet_size /\ bytes_left_in_frame = left
      /\ wire = "answer" /\ token.endpoint = ISO =>
           /\ iso_state = "SEND_DATA" =>
                /\ next_data_pid = pid /\ bytes_left_in_packet > 0 /\ bytes_left_in_frame > 0
                /\ bytes_left_in_packet = max_packet_size - Len(incoming)
                /\ bytes_left_in_frame = left - Len(incoming)
           /\ iso_state = "SEND_ZLP" => n = 0 /\ frame.size = 0 /\ next_data_pid = 0
           /\ iso_state = "IDLE" =>
                /\ packet_pid = pid
                /\ Len(incoming) = IF pid = 0 THEN left ELSE max_packet_size
                /\ pid > 0 => /\ next_data_pid = pid - 1 /\ bytes_left_in_packet = max_packet_size
                              /\ bytes_left_in_frame = left - max_packet_size

FrameInStep ==
  /\ FollowsFrame => FrameCounts
  /\ wire \in {"asked", "answer"} /\ token.endpoint = ISO => ~FrameDone

IInv == Types /\ InStep /\ StatusAgrees /\ FrameInStep

---------------------------------------------------------------------------
(* What the multiplexer passes on *)

LEMMA Interfaces ==
  /\ DOMAIN tx = {1, 2}
  /\ tx[1].valid <=> S!tx_valid
  /\ tx[1].first <=> S!tx_first
  /\ tx[1].last <=> S!tx_last
  /\ tx[1].payload = <<latched_signal, bytes_transmitted>> /\ tx[1].pid = status_pid
  /\ tx[2].valid <=> I!tx_valid
  /\ tx[2].first <=> iso_first
  /\ tx[2].last <=> I!tx_last
  /\ tx[2].payload = Sample(address) /\ tx[2].pid = next_data_pid
BY DEF tx

\* With one interface valid, its payload and its PID are the ones that go out.
LEMMA OneSpeaks ==
  ASSUME NEW k \in {1, 2}, {j \in DOMAIN tx : tx[j].valid} = {k}
  PROVE  /\ X!valid(tx) /\ X!payload(tx) = tx[k].payload
         /\ past_valid = {} => X!tx_pid_toggle(tx) = tx[k].pid
<1>1. X!valid(tx)
  BY DEF X!valid
<1>2. X!payload(tx) = tx[k].payload
  <2> DEFINE speaking == {j \in DOMAIN tx : tx[j].valid}
  <2>1. Cardinality(speaking) = 1
    BY FS_Singleton
  <2>2. (CHOOSE c \in speaking : TRUE) = k
    OBVIOUS
  <2>3. X!payload(tx) =
          IF Cardinality(speaking) = 1 THEN tx[CHOOSE c \in speaking : TRUE].payload ELSE Nobody
    BY Zenon DEF X!payload, X!Cardinality, Cardinality, X!IsFiniteSet, IsFiniteSet
  <2> HIDE DEF speaking
  <2>4. QED BY <2>1, <2>2, <2>3
<1>3. ASSUME past_valid = {} PROVE X!tx_pid_toggle(tx) = tx[k].pid
  <2>1. X!selected(tx) = {k}
    BY <1>3 DEF X!selected
  <2>2. (CHOOSE c \in {k} : \A j \in {k} : c <= j) = k
    OBVIOUS
  <2>3. QED BY <2>1, <2>2 DEF X!tx_pid_toggle
<1>4. QED BY <1>1, <1>2, <1>3

LEMMA NobodySpeaks ==
  ASSUME status_state # "TRANSMIT_RESPONSE", iso_state = "IDLE", ~iso_first
  PROVE  ~X!valid(tx) /\ (X!Clock(tx) => past_valid' = {})
BY Interfaces DEF X!valid, X!Clock, S!tx_valid, I!tx_valid

LEMMA StatusAlone ==
  ASSUME status_state = "TRANSMIT_RESPONSE", iso_state = "IDLE", ~iso_first
  PROVE  /\ X!valid(tx)
         /\ X!first(tx) <=> bytes_transmitted = 0
         /\ X!last(tx) <=> bytes_transmitted + 1 = bytes_in_signal
         /\ X!payload(tx) = <<latched_signal, bytes_transmitted>>
         /\ past_valid = {} => X!tx_pid_toggle(tx) = status_pid
<1>1. {j \in DOMAIN tx : tx[j].valid} = {1}
  BY Interfaces DEF S!tx_valid, I!tx_valid
<1>2. X!first(tx) <=> bytes_transmitted = 0
  BY Interfaces DEF X!first, S!tx_first, S!tx_valid
<1>3. X!last(tx) <=> bytes_transmitted + 1 = bytes_in_signal
  BY Interfaces DEF X!last, S!tx_last, S!tx_valid, S!is_last_byte, I!tx_last
<1>4. QED BY <1>1, <1>2, <1>3, OneSpeaks, Interfaces

LEMMA IsoAlone ==
  ASSUME status_state # "TRANSMIT_RESPONSE", iso_state \in {"SEND_DATA", "SEND_ZLP"}
  PROVE  /\ X!valid(tx)
         /\ X!first(tx) <=> iso_first
         /\ X!last(tx) <=> I!tx_last
         /\ X!payload(tx) = Sample(address)
         /\ past_valid = {} => X!tx_pid_toggle(tx) = next_data_pid
<1>1. {j \in DOMAIN tx : tx[j].valid} = {2}
  BY Interfaces DEF S!tx_valid, I!tx_valid
<1>2. X!first(tx) <=> iso_first
  BY Interfaces DEF X!first, S!tx_first, S!tx_valid
<1>3. X!last(tx) <=> I!tx_last
  BY Interfaces DEF X!last, S!tx_last, S!tx_valid
<1>4. QED BY <1>1, <1>2, <1>3, OneSpeaks, Interfaces

---------------------------------------------------------------------------
(* One clock of the side that answers *)

StatusIn(s, signal) ==
  [signal |-> signal, packet_requested |-> s.ready /\ Targeted("in", STATUS),
   ready |-> G!stream_ready(s.tx_ready), ack |-> s.ack, new_token |-> s.new_token]
IsoIn(s) ==
  [new_frame |-> s.new_frame, bytes_in_frame |-> frame'.size,
   data_requested |-> s.ready /\ Targeted("in", ISO), ready |-> G!stream_ready(s.tx_ready)]

\* What a clock of the device is for the two endpoints, the multiplexer and the generator.
AnswerSide(s, signal) ==
  /\ S!Clock(StatusIn(s, signal)) /\ I!Clock(IsoIn(s)) /\ X!Clock(tx)
  /\ G!Clock(X!tx_pid_toggle(tx), X!first(tx), X!last(tx), X!valid(tx), s.tx_ready)
  /\ status_read' = IF status_state = "WAIT_FOR_ACK" /\ s.ack THEN latched_signal ELSE status_read

LEMMA ClockIsAnswerSide ==
  ASSUME NEW u, NEW s, Clock(u, s)
  PROVE  \E signal : AnswerSide(s, signal)
BY DEF Clock, DeviceClock, AnswerSide, StatusIn, IsoIn, S!status_read_complete

Signals == [new_frame : BOOLEAN, new_token : BOOLEAN, ready : BOOLEAN, ack : BOOLEAN, tx_ready : BOOLEAN]

\* While nobody is asked, the registers of the answering side stay as they are, but for
\* what a new frame, a new token or an acknowledgement does to them.
LEMMA CalmClock ==
  ASSUME NEW s \in Signals, ~s.ready, NEW signal, AnswerSide(s, signal),
         Types, InStep, wire # "answer"
  PROVE  /\ iso_state' = "IDLE" /\ iso_first' = FALSE
         /\ bytes_left_in_frame' = IF s.new_frame THEN frame'.size ELSE bytes_left_in_frame
         /\ bytes_left_in_packet' = IF s.new_frame THEN max_packet_size ELSE bytes_left_in_packet
         /\ next_data_pid' = IF s.new_frame THEN I!FirstPid(frame'.size) ELSE next_data_pid
         /\ address' = 0 /\ tx_state' = "IDLE" /\ packet_pid' = 0 /\ is_zlp' = is_zlp /\ past_valid' = {}
         /\ latched_signal' = latched_signal /\ bytes_transmitted' = bytes_transmitted
         /\ status_state' = IF status_state # "WAIT_FOR_ACK" THEN status_state
                              ELSE IF s.new_token THEN "RETRANSMIT" ELSE IF s.ack THEN "IDLE" ELSE status_state
         /\ status_pid' = IF status_state = "WAIT_FOR_ACK" /\ s.ack THEN 1 - status_pid ELSE status_pid
         /\ status_read' = IF status_state = "WAIT_FOR_ACK" /\ s.ack THEN latched_signal ELSE status_read
<1> USE DEF AnswerSide, StatusIn, IsoIn
<1>1. /\ status_state # "TRANSMIT_RESPONSE" /\ iso_state = "IDLE" /\ iso_first = FALSE /\ tx_state = "IDLE"
      /\ past_valid = {}
  BY DEF InStep, Types
<1>2. ~X!valid(tx) /\ past_valid' = {}
  BY <1>1, NobodySpeaks
<1>3. X!tx_pid_toggle(tx) = 0
  <2>1. X!selected(tx) = {}
    BY <1>1, <1>2 DEF X!selected, X!valid
  <2>2. QED BY <2>1 DEF X!tx_pid_toggle
<1>4. tx_state' = "IDLE" /\ packet_pid' = 0 /\ is_zlp' = is_zlp
  BY <1>1, <1>2, <1>3 DEF G!Clock, G!Idle, G!SendPid, G!SendPayload, G!SendCrcFirst, G!SendCrcSecond
<1>5. /\ iso_state' = "IDLE" /\ iso_first' = FALSE /\ address' = 0
      /\ bytes_left_in_frame' = IF s.new_frame THEN frame'.size ELSE bytes_left_in_frame
      /\ bytes_left_in_packet' = IF s.new_frame THEN max_packet_size ELSE bytes_left_in_packet
      /\ next_data_pid' = IF s.new_frame THEN I!FirstPid(frame'.size) ELSE next_data_pid
  BY <1>1 DEF I!Clock, I!Idle, I!SendData, I!SendZlp, I!FrameClock, I!next_address
<1>6. /\ latched_signal' = latched_signal /\ bytes_transmitted' = bytes_transmitted
      /\ status_state' = IF status_state # "WAIT_FOR_ACK" THEN status_state
                           ELSE IF s.new_token THEN "RETRANSMIT" ELSE IF s.ack THEN "IDLE" ELSE status_state
      /\ status_pid' = IF status_state = "WAIT_FOR_ACK" /\ s.ack THEN 1 - status_pid ELSE status_pid
  BY <1>1 DEF S!Clock, S!Idle, S!TransmitResponse, S!WaitForAck, S!Retransmit
<1>7. QED BY <1>2, <1>4, <1>5, <1>6

---------------------------------------------------------------------------
(* Steps in which nobody answers *)

LEMMA FirstPids ==
  ASSUME SizeAssumption, NEW size \in 0 .. 3 * max_packet_size
  PROVE  /\ I!FirstPid(size) \in 0 .. 2
         /\ size - Full(I!FirstPid(size)) \in 0 .. max_packet_size
         /\ size - Full(I!FirstPid(size)) = 0 => size = 0 /\ I!FirstPid(size) = 0
BY SMT DEF SizeAssumption, I!FirstPid, Full

LEMMA BytesLeft ==
  ASSUME SizeAssumption, NEW size \in 0 .. 3 * max_packet_size, NEW n \in Nat, n <= I!FirstPid(size)
  PROVE  /\ size - Full(n) >= 0 /\ I!FirstPid(0) = 0
         /\ size - Full(n) = 0 => size = 0 /\ n = 0
         /\ n < I!FirstPid(size) => size - Full(n) > max_packet_size
         /\ n = I!FirstPid(size) => size - Full(n) <= max_packet_size
         /\ n < I!FirstPid(size) => Full(n + 1) = Full(n) + max_packet_size
BY SMT DEF SizeAssumption, I!FirstPid, Full

\* What is true of every step in which nobody answers or begins to.
Calm(s) ==
  /\ wire # "answer" /\ wire' \in {"quiet", "asked", "ack", "token", "pid", "data"}
  /\ ~s.ready /\ incoming' = incoming
  /\ status' = [toggle |-> status.toggle, got |-> status.got, stolen |-> status'.stolen]
  /\ status'.stolen \in BOOLEAN /\ (status.stolen => status'.stolen)
  /\ s.ack /\ status_state = "WAIT_FOR_ACK" /\ ~status'.stolen => status_pid # status.toggle
  /\ wire' = "asked" => /\ token' \in {[pid |-> "in", endpoint |-> e] : e \in {ISO, STATUS}}
                        /\ s.new_token \/ (wire = "asked" /\ token' = token)
                        /\ token'.endpoint = ISO => ~FrameDone'
  /\ wire' = "ack" => wire = "ack" /\ ~s.ack /\ ~s.new_token
  /\ s.ack => wire' = "quiet" /\ ~s.new_token
  /\ frame' \in [count : Nat, size : 0 .. 3 * max_packet_size, heard : BOOLEAN, packets : Seq(Packet)]
  /\ s.new_frame => frame'.packets = << >>
  /\ ~s.new_frame => frame' = frame \/ ~frame'.heard

LEMMA CalmStep ==
  ASSUME SizeAssumption, IInv, NEW u, NEW s \in Signals, Clock(u, s), Calm(s)
  PROVE  IInv'
<1> PICK signal : AnswerSide(s, signal)
  BY ClockIsAnswerSide
<1> DEFINE quiet == status_state # "WAIT_FOR_ACK"
<1>1. /\ iso_state' = "IDLE" /\ iso_first' = FALSE
      /\ bytes_left_in_frame' = IF s.new_frame THEN frame'.size ELSE bytes_left_in_frame
      /\ bytes_left_in_packet' = IF s.new_frame THEN max_packet_size ELSE bytes_left_in_packet
      /\ next_data_pid' = IF s.new_frame THEN I!FirstPid(frame'.size) ELSE next_data_pid
      /\ address' = 0 /\ tx_state' = "IDLE" /\ packet_pid' = 0 /\ is_zlp' = is_zlp /\ past_valid' = {}
      /\ latched_signal' = latched_signal /\ bytes_transmitted' = bytes_transmitted
      /\ status_state' = IF status_state # "WAIT_FOR_ACK" THEN status_state
                           ELSE IF s.new_token THEN "RETRANSMIT" ELSE IF s.ack THEN "IDLE" ELSE status_state
      /\ status_pid' = IF status_state = "WAIT_FOR_ACK" /\ s.ack THEN 1 - status_pid ELSE status_pid
      /\ status_read' = IF status_state = "WAIT_FOR_ACK" /\ s.ack THEN latched_signal ELSE status_read
  BY CalmClock DEF Calm, IInv
<1>2. Types'
  <2>1. I!FirstPid(frame'.size) \in 0 .. 3
    BY FirstPids DEF Calm
  <2>2. /\ status_state' \in {"IDLE", "TRANSMIT_RESPONSE", "WAIT_FOR_ACK", "RETRANSMIT"}
        /\ bytes_transmitted' \in Nat /\ status_pid' \in {0, 1}
        /\ status' = [toggle |-> status'.toggle, got |-> status'.got, stolen |-> status'.stolen]
        /\ status'.toggle \in {0, 1} /\ status'.stolen \in BOOLEAN
    BY <1>1 DEF Types, IInv, Calm
  <2>3. bytes_left_in_frame' \in Int /\ bytes_left_in_packet' \in Int /\ next_data_pid' \in 0 .. 3
    BY <1>1, <2>1 DEF Types, IInv, Calm, SizeAssumption
  <2>4. wire' \in {"quiet", "asked", "answer", "ack", "token", "pid", "data"}
    BY DEF Calm
  <2>5. frame' \in [count : Nat, size : 0 .. 3 * max_packet_size, heard : BOOLEAN, packets : Seq(Packet)]
    BY DEF Calm
  <2>6. /\ iso_state' \in {"IDLE", "SEND_DATA", "SEND_ZLP"} /\ iso_first' \in BOOLEAN /\ address' \in Nat
        /\ tx_state' \in {"IDLE", "SEND_PID", "SEND_PAYLOAD", "SEND_CRC_FIRST", "SEND_CRC_SECOND"}
        /\ packet_pid' \in 0 .. 3
    BY <1>1, 0 \in 0 .. 3, 0 \in Nat, Zenon
  <2>7. is_zlp' \in BOOLEAN
    BY <1>1, Zenon DEF Types, IInv
  <2>8. QED BY <2>2, <2>3, <2>4, <2>5, <2>6, <2>7 DEF Types
<1>3. InStep'
  BY <1>1 DEF InStep, IInv, Calm, Types
<1>4. StatusAgrees'
  BY <1>1 DEF StatusAgrees, StatusTaken, IInv, Calm, Types
<1>5. FrameInStep'
  <2>1. CASE s.new_frame
    <3>1. Len(frame'.packets) = 0
      BY <2>1 DEF Calm
    <3>2. I!FirstPid(frame'.size) \in 0 .. 2
      BY FirstPids DEF Calm
    <3>3. QED BY <1>1, <2>1, <3>1, <3>2 DEF FrameInStep, FrameCounts, Calm, Full, Types, IInv
  <2>2. CASE ~s.new_frame /\ frame' = frame
    BY <1>1, <2>2 DEF FrameInStep, FrameCounts, FollowsFrame, Calm, IInv, Full
  <2>3. CASE ~s.new_frame /\ ~frame'.heard
    BY <2>3 DEF FrameInStep, FollowsFrame, Calm
  <2>4. QED BY <2>1, <2>2, <2>3 DEF Calm
<1>6. QED BY <1>2, <1>3, <1>4, <1>5 DEF IInv

LEMMA Calmly ==
  ASSUME SizeAssumption, IInv,
         \/ QuietClock \/ (\E heard \in BOOLEAN : Sof(heard)) \/ AskIso \/ AskStatus
         \/ (\E arrives \in BOOLEAN : Ack(arrives)) \/ ForeignAck
         \/ (\E endpoint \in {ISO, STATUS} : OutToken(endpoint))
         \/ (\E unharmed \in BOOLEAN : PacketStarts(unharmed))
         \/ (\E kind \in {"data", "other"} : PidByte(kind))
         \/ DataByte \/ Gap \/ PacketEnds
  PROVE  IInv'
<1> DEFINE Some(s) == \E u : Clock(u, s) /\ Calm(s)
<1>1. ASSUME NEW s \in Signals, Some(s) PROVE IInv'
  BY <1>1, CalmStep
<1>2. Nothing \in Signals /\ [Nothing EXCEPT !.new_token = TRUE] \in Signals
  BY DEF Nothing, Signals
<1> HIDE DEF Some
<1>3. CASE QuietClock
  <2>1. Some(Nothing)
    BY <1>3 DEF QuietClock, Calm, Nothing, Some, inHostVars, IInv, Types, InStep, FrameInStep, FrameDone
  <2>2. QED BY <2>1, <1>1, <1>2
<1>4. ASSUME NEW heard \in BOOLEAN, Sof(heard) PROVE IInv'
  <2>1. [Nothing EXCEPT !.new_frame = heard] \in Signals
    BY DEF Nothing, Signals
  <2>2. frame' \in [count : Nat, size : 0 .. 3 * max_packet_size, heard : BOOLEAN, packets : Seq(Packet)]
    BY <1>4 DEF Sof, IInv, Types, SizeAssumption
  <2>3. frame'.packets = << >> /\ frame'.heard = heard
    BY <1>4 DEF Sof
  <2>4. Some([Nothing EXCEPT !.new_frame = heard])
    BY <1>4, <2>2, <2>3 DEF Sof, Calm, Nothing, Some, IInv, Types
  <2>5. QED BY <2>1, <2>4, <1>1
<1>5. CASE AskIso \/ AskStatus
  <2>3. PICK e \in {ISO, STATUS} : Ask(e) /\ (e = ISO => ~FrameDone)
    BY <1>5 DEF AskIso, AskStatus, ISO, STATUS
  <2>4. UNCHANGED inHostVars /\ token' = [pid |-> "in", endpoint |-> e] /\ (FrameDone' <=> FrameDone)
    BY <2>3 DEF Ask, inHostVars, FrameDone
  <2>1. Some([Nothing EXCEPT !.new_token = TRUE])
    BY <2>3, <2>4 DEF Ask, Calm, Nothing, Some, inHostVars, IInv, Types
  <2>2. QED BY <2>1, <1>1, <1>2
<1>6. ASSUME NEW arrives \in BOOLEAN, Ack(arrives) PROVE IInv'
  <2>1. [Nothing EXCEPT !.ack = arrives] \in Signals
    BY DEF Nothing, Signals
  <2>2. Some([Nothing EXCEPT !.ack = arrives])
    BY <1>6 DEF Ack, Calm, Nothing, Some, IInv, Types, StatusAgrees, StatusTaken
  <2>3. QED BY <2>1, <2>2, <1>1
<1>f. CASE ForeignAck
  <2>1. [Nothing EXCEPT !.ack = TRUE] \in Signals
    BY DEF Nothing, Signals
  <2>2. Some([Nothing EXCEPT !.ack = TRUE])
    BY <1>f DEF ForeignAck, Calm, Nothing, Some, IInv, Types
  <2>3. QED BY <2>1, <2>2, <1>1
<1>7. ASSUME NEW endpoint \in {ISO, STATUS}, OutToken(endpoint) PROVE IInv'
  <2>1. Some([Nothing EXCEPT !.new_token = TRUE])
    BY <1>7 DEF OutToken, Calm, Nothing, Some, inHostVars, IInv, Types
  <2>2. QED BY <2>1, <1>1, <1>2
<1>8. CASE \/ (\E unharmed \in BOOLEAN : PacketStarts(unharmed))
           \/ (\E kind \in {"data", "other"} : PidByte(kind)) \/ DataByte \/ Gap \/ PacketEnds
  <2>1. /\ wire \in {"token", "pid", "data"} /\ wire' \in {"quiet", "pid", "data"}
        /\ UNCHANGED inHostVars /\ \E u : Clock(u, Nothing)
    BY <1>8 DEF PacketStarts, PidByte, DataByte, Gap, PacketEnds
  <2>2. Some(Nothing)
    BY <2>1 DEF Calm, Nothing, Some, inHostVars, IInv, Types
  <2>3. QED BY <2>2, <1>1, <1>2
<1>9. QED BY <1>3, <1>4, <1>5, <1>6, <1>f, <1>7, <1>8

---------------------------------------------------------------------------
(* Answer: the endpoint that was asked begins *)

LEMMA AnswerStep ==
  ASSUME SizeAssumption, IInv, Answer
  PROVE  IInv'
<1> DEFINE s == [Nothing EXCEPT !.ready = TRUE]
<1>1. /\ wire = "asked" /\ wire' = "answer" /\ Clock(Silence, s)
      /\ UNCHANGED <<token, incoming, frame, misses, status>>
  BY DEF Answer, inHostVars
<1> PICK signal : AnswerSide(s, signal)
  BY <1>1, ClockIsAnswerSide
<1>2. /\ s.ready = TRUE /\ s.new_frame = FALSE /\ s.new_token = FALSE /\ s.ack = FALSE /\ s.tx_ready = FALSE
  BY DEF Nothing
<1> HIDE DEF s
<1>3. /\ status_state \in {"IDLE", "RETRANSMIT"} /\ iso_state = "IDLE" /\ iso_first = FALSE /\ tx_state = "IDLE"
      /\ past_valid = {} /\ incoming = << >> /\ token.pid = "in"
      /\ token \in {[pid |-> "in", endpoint |-> e] : e \in {ISO, STATUS}}
  BY <1>1 DEF InStep, IInv, Types
<1>4. ~X!valid(tx) /\ past_valid' = {}
  BY <1>3, NobodySpeaks DEF AnswerSide
<1>5. tx_state' = "IDLE" /\ is_zlp' = is_zlp /\ packet_pid' = 0
  <2>1. X!selected(tx) = {}
    BY <1>3, <1>4 DEF X!selected, X!valid
  <2>2. X!tx_pid_toggle(tx) = 0
    BY <2>1 DEF X!tx_pid_toggle
  <2>3. QED
    BY <1>3, <1>4, <2>2 DEF AnswerSide, G!Clock, G!Idle, G!SendPid, G!SendPayload, G!SendCrcFirst, G!SendCrcSecond
<1> DEFINE status_asked == token.endpoint = STATUS
<1>20. /\ Targeted("in", STATUS) <=> status_asked
       /\ Targeted("in", ISO) <=> ~status_asked
       /\ token.endpoint = ISO <=> ~status_asked
  BY <1>3 DEF Targeted, ISO, STATUS
<1>21. /\ StatusIn(s, signal).packet_requested <=> status_asked
       /\ StatusIn(s, signal).ack = FALSE /\ StatusIn(s, signal).new_token = FALSE
       /\ IsoIn(s).data_requested <=> ~status_asked
       /\ IsoIn(s).new_frame = FALSE
  BY <1>2, <1>20 DEF StatusIn, IsoIn
<1>6. /\ status_state' = IF token.endpoint = STATUS THEN "TRANSMIT_RESPONSE" ELSE status_state
      /\ bytes_transmitted' = IF token.endpoint = STATUS THEN 0 ELSE bytes_transmitted
      /\ status_pid' = status_pid /\ status_read' = status_read
      /\ status_state = "RETRANSMIT" \/ token.endpoint = ISO => latched_signal' = latched_signal
  BY <1>2, <1>3, <1>20, <1>21 DEF AnswerSide, S!Clock, S!Idle, S!TransmitResponse, S!WaitForAck, S!Retransmit, S!Again
<1>7. /\ iso_state' = IF token.endpoint = STATUS THEN "IDLE"
                      ELSE IF bytes_left_in_frame # 0 THEN "SEND_DATA" ELSE "SEND_ZLP"
      /\ iso_first' = (~status_asked /\ bytes_left_in_frame # 0)
      /\ UNCHANGED <<bytes_left_in_frame, bytes_left_in_packet, next_data_pid>>
      /\ address' = 0
  BY <1>3, <1>21 DEF AnswerSide, I!Clock, I!Idle, I!SendData, I!SendZlp, I!FrameClock, I!next_address
<1>8. Types'
  <2>1. /\ status_state' \in {"IDLE", "TRANSMIT_RESPONSE", "WAIT_FOR_ACK", "RETRANSMIT"}
        /\ bytes_transmitted' \in Nat /\ status_pid' \in {0, 1}
        /\ status' = [toggle |-> status'.toggle, got |-> status'.got, stolen |-> status'.stolen]
        /\ status'.toggle \in {0, 1} /\ status'.stolen \in BOOLEAN
    BY <1>1, <1>3, <1>6 DEF Types, IInv
  <2>2. bytes_left_in_frame' \in Int /\ bytes_left_in_packet' \in Int /\ next_data_pid' \in 0 .. 3
    BY <1>7 DEF Types, IInv
  <2>3. /\ iso_state' \in {"IDLE", "SEND_DATA", "SEND_ZLP"} /\ address' \in Nat
        /\ tx_state' \in {"IDLE", "SEND_PID", "SEND_PAYLOAD", "SEND_CRC_FIRST", "SEND_CRC_SECOND"}
        /\ packet_pid' \in 0 .. 3
    BY <1>5, <1>7
  <2>4. is_zlp' \in BOOLEAN /\ iso_first' \in BOOLEAN
    BY <1>5, <1>7, Zenon DEF Types, IInv
  <2>5. /\ wire' \in {"quiet", "asked", "answer", "ack", "token", "pid", "data"}
        /\ frame' \in [count : Nat, size : 0 .. 3 * max_packet_size, heard : BOOLEAN, packets : Seq(Packet)]
    BY <1>1 DEF Types, IInv
  <2>6. QED BY <2>1, <2>2, <2>3, <2>4, <2>5 DEF Types
<1>9. InStep'
  <2>1. incoming' = << >> /\ (Samples(0))' = << >> /\ (StatusBytes(0))' = << >>
    BY <1>1, <1>3 DEF Samples, StatusBytes
  <2>2. CASE token.endpoint = STATUS
    <3>1. StatusSpeaks'
      BY <2>1, <2>2, <1>1, <1>4, <1>5, <1>6, <1>7 DEF StatusSpeaks, SizeAssumption, ISO, STATUS
    <3>2. QED BY <3>1, <2>2, <1>1, <1>7 DEF InStep, ISO, STATUS
  <2>3. CASE token.endpoint = ISO
    <3>1. Len(incoming') = 0 /\ incoming' = (Samples(Len(incoming)))'
      BY <2>1
    <3>3. \/ iso_state' = "SEND_DATA" /\ iso_first' = TRUE
          \/ iso_state' = "SEND_ZLP"
      <4>1. ~status_asked
        BY <2>3, <1>20
      <4>2. bytes_left_in_frame # 0 => iso_first' = TRUE
        BY <4>1, <1>7, Zenon
      <4>3. iso_state' = IF bytes_left_in_frame # 0 THEN "SEND_DATA" ELSE "SEND_ZLP"
        BY <4>1, <1>7, Zenon
      <4>4. QED BY <4>2, <4>3
    <3>4. token'.endpoint = ISO /\ status_state' \in {"IDLE", "RETRANSMIT"} /\ tx_state' = "IDLE"
          /\ past_valid' = {} /\ address' = 0
      BY <2>3, <1>1, <1>3, <1>4, <1>5, <1>6, <1>7 DEF ISO, STATUS
    <3>5. IsoSpeaks'
      BY <3>1, <3>3, <3>4 DEF IsoSpeaks
    <3>2. QED BY <3>5, <2>3, <1>1, <1>7 DEF InStep, ISO, STATUS
  <2>4. QED BY <2>2, <2>3, <1>3
<1>10. StatusAgrees'
  BY <1>1, <1>3, <1>6 DEF StatusAgrees, StatusTaken, IInv, ISO, STATUS
<1>11. FrameInStep'
  <2>1. CASE token.endpoint = STATUS
    BY <2>1, <1>1, <1>7 DEF FrameInStep, FollowsFrame, FrameCounts, IInv, Full, ISO, STATUS
  <2>2. CASE token.endpoint = ISO
    <3>1. ~FrameDone /\ ~FrameDone'
      BY <2>2, <1>1 DEF FrameInStep, IInv, FrameDone
    <3> HIDE DEF status_asked
    <3> SUFFICES ASSUME FollowsFrame PROVE FrameCounts'
      BY <1>1, <3>1 DEF FrameInStep, FollowsFrame
    <3> DEFINE n == Len(frame.packets)
               pid == I!FirstPid(frame.size) - n
               left == frame.size - Full(n)
    <3>2. FrameCounts /\ n \in Nat /\ frame.size \in 0 .. 3 * max_packet_size
      BY DEF FrameInStep, IInv, Types
    <3>20. I!FirstPid(frame.size) \in 0 .. 2
      BY <3>2, FirstPids
    <3>21. /\ n <= I!FirstPid(frame.size) + 1
           /\ \A k \in 1 .. n : frame.packets[k].pid = I!FirstPid(frame.size) - (k - 1)
           /\ pid >= 0 =>
                next_data_pid = pid /\ bytes_left_in_packet = max_packet_size /\ bytes_left_in_frame = left
      BY <3>2, <1>1 DEF FrameCounts
    <3>4. pid >= 0
      <4>1. ASSUME n > I!FirstPid(frame.size) PROVE FALSE
        <5>1. n = I!FirstPid(frame.size) + 1 /\ n > 0
          BY <4>1, <3>2, <3>20, <3>21
        <5>2. frame.packets[n].pid = 0
          BY <5>1, <3>2, <3>20, <3>21
        <5>3. QED BY <5>1, <5>2, <3>1, <3>2 DEF FrameDone, Last
      <4>2. QED BY <4>1, <3>2, <3>20
    <3>5. left >= 0 /\ (left = 0 => frame.size = 0 /\ n = 0) /\ I!FirstPid(0) = 0
      <4>1. n <= I!FirstPid(frame.size)
        BY <3>2, <3>4, <3>20
      <4>2. QED BY <3>2, <4>1, BytesLeft
    <3>6. QED
      BY <3>2, <3>21, <3>4, <3>5, <2>2, <1>1, <1>3, <1>7 DEF FrameCounts, Full, SizeAssumption, ISO, STATUS
  <2>3. QED BY <2>1, <2>2, <1>3
<1>12. QED BY <1>8, <1>9, <1>10, <1>11 DEF IInv

---------------------------------------------------------------------------
(* Transmit: byte after byte *)

LEMMA OneMore ==
  ASSUME NEW n \in Nat
  PROVE  /\ Len(Samples(n)) = n /\ Append(Samples(n), Sample(n)) = Samples(n + 1)
         /\ Len(StatusBytes(n)) = n
         /\ Append(StatusBytes(n), <<latched_signal, n>>) = StatusBytes(n + 1)
<1>1. Len(Samples(n)) = n /\ Append(Samples(n), Sample(n)) = Samples(n + 1)
  BY DEF Samples
<1>2. Len(StatusBytes(n)) = n /\ Append(StatusBytes(n), <<latched_signal, n>>) = StatusBytes(n + 1)
  BY DEF StatusBytes
<1>3. QED BY <1>1, <1>2

\* While its packet goes out, nothing but the transmitter moves the endpoint that answers,
\* and nothing at all the other one.
Transmits(s) ==
  /\ s \in Signals /\ ~s.ready /\ ~s.new_frame /\ ~s.ack /\ ~s.new_token
  /\ wire = "answer"

LEMMA OtherEndpointRests ==
  ASSUME IInv, NEW s, Transmits(s), NEW signal, AnswerSide(s, signal)
  PROVE  /\ iso_state = "IDLE" =>
              /\ iso_state' = "IDLE" /\ iso_first' = FALSE /\ address' = 0
              /\ UNCHANGED <<bytes_left_in_frame, bytes_left_in_packet, next_data_pid>>
         /\ status_state # "TRANSMIT_RESPONSE" =>
              /\ status_state' = status_state /\ status_pid' = status_pid
              /\ latched_signal' = latched_signal /\ bytes_transmitted' = bytes_transmitted
         /\ status_read' = status_read
<1>1. /\ IsoIn(s).data_requested = FALSE /\ IsoIn(s).new_frame = FALSE
      /\ StatusIn(s, signal).packet_requested = FALSE /\ StatusIn(s, signal).ack = FALSE
      /\ StatusIn(s, signal).new_token = FALSE
  BY DEF Transmits, IsoIn, StatusIn, Signals
<1>2. I!Clock(IsoIn(s)) /\ S!Clock(StatusIn(s, signal))
  BY DEF AnswerSide
<1>3. iso_state = "IDLE" =>
        /\ iso_state' = "IDLE" /\ iso_first' = FALSE /\ address' = 0
        /\ UNCHANGED <<bytes_left_in_frame, bytes_left_in_packet, next_data_pid>>
  BY <1>1, <1>2 DEF I!Clock, I!Idle, I!SendData, I!SendZlp, I!FrameClock, I!next_address
<1>4. status_state # "TRANSMIT_RESPONSE" =>
        /\ status_state' = status_state /\ status_pid' = status_pid
        /\ latched_signal' = latched_signal /\ bytes_transmitted' = bytes_transmitted
  BY <1>1, <1>2 DEF S!Clock, S!Idle, S!TransmitResponse, S!WaitForAck, S!Retransmit
<1>5. status_read' = status_read
  BY DEF AnswerSide, Transmits
<1>6. QED BY <1>3, <1>4, <1>5

\* The generator's clock, by the state it is in.
LEMMA GeneratorClock ==
  ASSUME NEW pid, NEW f, NEW l, NEW v, NEW r \in BOOLEAN, G!Clock(pid, f, l, v, r)
  PROVE  /\ tx_state = "IDLE" =>
              /\ packet_pid' = pid
              /\ v /\ f => tx_state' = "SEND_PID" /\ is_zlp' = FALSE
              /\ v /\ ~f /\ l => tx_state' = "SEND_PID" /\ is_zlp' = TRUE
              /\ ~v => tx_state' = tx_state /\ is_zlp' = is_zlp
         /\ tx_state # "IDLE" => packet_pid' = packet_pid /\ is_zlp' = is_zlp
         /\ tx_state # "IDLE" /\ ~r => tx_state' = tx_state
         /\ tx_state = "SEND_PID" /\ r => tx_state' = IF is_zlp THEN "SEND_CRC_FIRST" ELSE "SEND_PAYLOAD"
         /\ tx_state = "SEND_PAYLOAD" /\ r /\ l => tx_state' = "SEND_CRC_FIRST"
         /\ tx_state = "SEND_PAYLOAD" /\ r /\ ~l /\ v => tx_state' = "SEND_PAYLOAD"
         /\ tx_state = "SEND_CRC_FIRST" /\ r => tx_state' = "SEND_CRC_SECOND"
         /\ tx_state = "SEND_CRC_SECOND" /\ r => tx_state' = "IDLE"
BY DEF G!Clock, G!Idle, G!SendPid, G!SendPayload, G!SendCrcFirst, G!SendCrcSecond, G!vars

\* The status endpoint's packet goes on.
LEMMA StatusTransmits ==
  ASSUME SizeAssumption, IInv, StatusSpeaks, NEW r \in BOOLEAN, Transmit(r)
  PROVE  IInv'
<1> DEFINE s == [Nothing EXCEPT !.tx_ready = r]
<1>1. /\ wire' = "answer" /\ UNCHANGED <<token, frame, status>>
      /\ Clock(Silence, s) /\ ~(r /\ tx_state = "SEND_CRC_SECOND")
      /\ incoming' = IF tx_state = "SEND_PAYLOAD" /\ r /\ X!valid(tx)
                     THEN Append(incoming, X!payload(tx)) ELSE incoming
  BY DEF Transmit, G!stream_ready
<1> PICK signal : AnswerSide(s, signal)
  BY <1>1, ClockIsAnswerSide
<1>2. Transmits(s) /\ s.tx_ready = r
  BY DEF Nothing, Signals, Transmits, Transmit
<1>3. StatusIn(s, signal).ready <=> tx_state = "SEND_PAYLOAD" /\ r
  BY <1>2 DEF StatusIn, G!stream_ready
<1> HIDE DEF s
<1>4. /\ iso_state' = "IDLE" /\ iso_first' = FALSE /\ address' = 0
      /\ UNCHANGED <<bytes_left_in_frame, bytes_left_in_packet, next_data_pid>>
      /\ status_read' = status_read
  BY <1>2, OtherEndpointRests DEF StatusSpeaks
<1>5. iso_state = "IDLE" /\ ~iso_first /\ Types /\ token.endpoint = STATUS
      /\ incoming = StatusBytes(bytes_transmitted) /\ bytes_transmitted \in Nat
  BY DEF StatusSpeaks, IInv, InStep, Types
<1>6. G!Clock(X!tx_pid_toggle(tx), X!first(tx), X!last(tx), X!valid(tx), r)
  BY <1>2 DEF AnswerSide
<1>7. /\ StatusSpeaks'
      /\ status_state' \in {"TRANSMIT_RESPONSE", "WAIT_FOR_ACK"}
      /\ UNCHANGED <<latched_signal, status_pid>>
      /\ bytes_transmitted' \in Nat /\ packet_pid' \in 0 .. 3 /\ is_zlp' \in BOOLEAN
      /\ tx_state' \in {"SEND_PID", "SEND_PAYLOAD", "SEND_CRC_FIRST", "SEND_CRC_SECOND"}
  <2> DEFINE speaking == status_state = "TRANSMIT_RESPONSE"
  <2>1. /\ UNCHANGED <<latched_signal, status_pid>>
        /\ bytes_transmitted' = IF speaking /\ tx_state = "SEND_PAYLOAD" /\ r THEN bytes_transmitted + 1
                                ELSE bytes_transmitted
        /\ status_state' = IF speaking /\ tx_state = "SEND_PAYLOAD" /\ r /\ S!is_last_byte
                           THEN "WAIT_FOR_ACK" ELSE status_state
    <3>1. CASE speaking
      BY <1>3, <3>1 DEF AnswerSide, S!Clock, S!Idle, S!TransmitResponse, S!WaitForAck, S!Retransmit
    <3>2. CASE ~speaking
      BY <1>2, <3>2, OtherEndpointRests
    <3>3. QED BY <3>1, <3>2
  <2>2. /\ tx_state # "IDLE" => packet_pid' = packet_pid /\ is_zlp' = is_zlp
        /\ tx_state # "IDLE" /\ ~r => tx_state' = tx_state
        /\ tx_state = "SEND_PID" /\ r => tx_state' = IF is_zlp THEN "SEND_CRC_FIRST" ELSE "SEND_PAYLOAD"
        /\ tx_state = "SEND_CRC_FIRST" /\ r => tx_state' = "SEND_CRC_SECOND"
    BY <1>6, GeneratorClock
  <2>3. incoming' = StatusBytes(bytes_transmitted') /\ Len(incoming') = bytes_transmitted'
    <3>1. CASE tx_state = "SEND_PAYLOAD" /\ r
      <4>1. speaking
        BY <3>1 DEF StatusSpeaks
      <4>2. incoming' = Append(StatusBytes(bytes_transmitted), <<latched_signal, bytes_transmitted>>)
        BY <4>1, <3>1, <1>1, <1>5, StatusAlone
      <4>3. bytes_transmitted' = bytes_transmitted + 1
        BY <4>1, <3>1, <2>1
      <4>4. incoming' = StatusBytes(bytes_transmitted + 1)
        BY <4>2, <1>5, OneMore
      <4>5. Len(StatusBytes(bytes_transmitted + 1)) = bytes_transmitted + 1
        BY <1>5, OneMore
      <4>6. QED BY <4>3, <4>4, <4>5
    <3>2. CASE ~(tx_state = "SEND_PAYLOAD" /\ r)
      BY <3>2, <1>1, <1>5, <2>1, OneMore
    <3>3. QED BY <3>1, <3>2
  <2>4. incoming' = (StatusBytes(bytes_transmitted))'
    BY <2>1, <2>3 DEF StatusBytes
  <2>5. CASE speaking /\ tx_state = "IDLE"
    <3>1. /\ bytes_transmitted = 0 /\ X!valid(tx) /\ X!first(tx) /\ X!tx_pid_toggle(tx) = status_pid
      BY <2>5, <1>5, StatusAlone DEF StatusSpeaks
    <3>2. tx_state' = "SEND_PID" /\ is_zlp' = FALSE /\ packet_pid' = status_pid
      BY <2>5, <3>1, <1>6, GeneratorClock
    <3>3. bytes_transmitted' = 0 /\ status_state' = "TRANSMIT_RESPONSE"
      BY <2>5, <3>1, <2>1
    <3>4. is_zlp' \in BOOLEAN /\ ~is_zlp'
      BY <3>2, Zenon
    <3>6. packet_pid' \in 0 .. 3
      BY <3>2, <1>5 DEF Types
    <3>5. QED BY <3>2, <3>3, <3>4, <3>6, <2>1, <2>4, <1>1, <1>4, <1>5 DEF StatusSpeaks, SizeAssumption
  <2>6. CASE speaking /\ tx_state = "SEND_PID"
    <3>1. /\ tx_state' = IF r THEN "SEND_PAYLOAD" ELSE "SEND_PID"
          /\ packet_pid' = packet_pid /\ is_zlp' = is_zlp /\ ~is_zlp /\ packet_pid = status_pid
          /\ bytes_transmitted = 0 /\ bytes_transmitted' = 0 /\ status_state' = "TRANSMIT_RESPONSE"
      BY <2>6, <2>1, <2>2 DEF StatusSpeaks
    <3>2. is_zlp' \in BOOLEAN /\ packet_pid' \in 0 .. 3
      BY <3>1, <1>5, Zenon DEF Types
    <3>3. QED BY <3>1, <3>2, <2>1, <2>4, <1>1, <1>4, <1>5 DEF StatusSpeaks, SizeAssumption
  <2>7. CASE speaking /\ tx_state = "SEND_PAYLOAD"
    <3>1. X!valid(tx) /\ (X!last(tx) <=> S!is_last_byte)
      BY <2>7, <1>5, StatusAlone DEF S!is_last_byte
    <3>2. tx_state' = IF r /\ S!is_last_byte THEN "SEND_CRC_FIRST" ELSE "SEND_PAYLOAD"
      <4>1. ~r => tx_state' = "SEND_PAYLOAD"
        BY <2>7, <2>2
      <4>2. r /\ X!last(tx) => tx_state' = "SEND_CRC_FIRST"
        BY <2>7, <1>6, GeneratorClock
      <4>3. r /\ ~X!last(tx) => tx_state' = "SEND_PAYLOAD"
        BY <2>7, <3>1, <1>6, r \in BOOLEAN DEF G!Clock, G!Idle, G!SendPid, G!SendPayload, G!SendCrcFirst, G!SendCrcSecond
      <4>4. QED BY <4>1, <4>2, <4>3, <3>1
    <3>3. packet_pid' = packet_pid /\ is_zlp' = is_zlp /\ packet_pid = status_pid
      BY <2>7, <2>2 DEF StatusSpeaks
    <3>4. is_zlp' \in BOOLEAN /\ packet_pid' \in 0 .. 3
      BY <3>3, <1>5, Zenon DEF Types
    <3>5. /\ bytes_transmitted < bytes_in_signal /\ bytes_in_signal \in Nat
          /\ bytes_transmitted' = IF r THEN bytes_transmitted + 1 ELSE bytes_transmitted
          /\ status_state' = IF r /\ S!is_last_byte THEN "WAIT_FOR_ACK" ELSE "TRANSMIT_RESPONSE"
      BY <2>7, <2>1 DEF StatusSpeaks, SizeAssumption
    <3>6. QED BY <3>2, <3>3, <3>4, <3>5, <2>1, <2>4, <1>1, <1>4, <1>5 DEF StatusSpeaks, S!is_last_byte
  <2>8. CASE ~speaking
    <3>1. /\ status_state = "WAIT_FOR_ACK" /\ bytes_transmitted = bytes_in_signal
          /\ tx_state \in {"SEND_CRC_FIRST", "SEND_CRC_SECOND"} /\ packet_pid = status_pid
      BY <2>8 DEF StatusSpeaks
    <3>2. /\ tx_state' \in {"SEND_CRC_FIRST", "SEND_CRC_SECOND"}
          /\ packet_pid' = packet_pid /\ is_zlp' = is_zlp
          /\ bytes_transmitted' = bytes_transmitted /\ status_state' = "WAIT_FOR_ACK"
      BY <3>1, <2>1, <2>2, <1>1
    <3>3. is_zlp' \in BOOLEAN /\ packet_pid' \in 0 .. 3
      BY <3>2, <1>5, Zenon DEF Types
    <3>4. QED BY <3>1, <3>2, <3>3, <2>1, <2>4, <1>1, <1>4, <1>5 DEF StatusSpeaks
  <2>9. QED BY <2>5, <2>6, <2>7, <2>8 DEF StatusSpeaks
<1>8. Types'
  BY <1>1, <1>4, <1>5, <1>7 DEF Types
<1>9. InStep'
  BY <1>1, <1>4, <1>7 DEF InStep
<1>10. StatusAgrees'
  BY <1>1, <1>4, <1>7 DEF StatusAgrees, StatusTaken, IInv, StatusSpeaks
<1>11. FrameInStep'
  BY <1>1, <1>4, <1>5 DEF FrameInStep, FollowsFrame, FrameCounts, IInv, Full, ISO, STATUS
<1>12. QED BY <1>8, <1>9, <1>10, <1>11 DEF IInv

\* The isochronous endpoint in the clock in which its packet is under way.
LEMMA IsoClock ==
  ASSUME IInv, NEW s, Transmits(s), NEW signal, AnswerSide(s, signal), IsoSpeaks
  PROVE  LET goes == tx_state = "SEND_PAYLOAD" /\ s.tx_ready
         IN  /\ iso_state = "SEND_DATA" /\ ~goes =>
                  /\ iso_state' = "SEND_DATA" /\ iso_first' = iso_first /\ address' = address
                  /\ UNCHANGED <<bytes_left_in_frame, bytes_left_in_packet, next_data_pid>>
             /\ iso_state = "SEND_DATA" /\ goes =>
                  /\ iso_state' = IF I!byte_terminates_send THEN "IDLE" ELSE "SEND_DATA"
                  /\ iso_first' = FALSE /\ address' = address + 1
                  /\ bytes_left_in_frame' = bytes_left_in_frame - 1
                  /\ bytes_left_in_packet' = IF I!byte_terminates_send THEN max_packet_size
                                             ELSE bytes_left_in_packet - 1
                  /\ next_data_pid' = IF I!byte_terminates_send THEN (next_data_pid - 1) % 4
                                      ELSE next_data_pid
             /\ iso_state = "SEND_ZLP" =>
                  /\ iso_state' = "IDLE" /\ iso_first' = iso_first /\ address' = 0
                  /\ UNCHANGED <<bytes_left_in_frame, bytes_left_in_packet, next_data_pid>>
             /\ status_state' \in {"IDLE", "RETRANSMIT"}
<1>1. /\ IsoIn(s).data_requested = FALSE /\ IsoIn(s).new_frame = FALSE
      /\ IsoIn(s).ready <=> tx_state = "SEND_PAYLOAD" /\ s.tx_ready
  BY DEF Transmits, IsoIn, Signals, G!stream_ready
<1>2. I!Clock(IsoIn(s))
  BY DEF AnswerSide
<1>3. status_state' \in {"IDLE", "RETRANSMIT"}
  BY OtherEndpointRests DEF IsoSpeaks
<1>4. CASE iso_state = "SEND_DATA"
  BY <1>1, <1>2, <1>3, <1>4 DEF I!Clock, I!Idle, I!SendData, I!SendZlp, I!FrameClock, I!next_address
<1>5. CASE iso_state = "SEND_ZLP"
  BY <1>1, <1>2, <1>3, <1>5 DEF I!Clock, I!Idle, I!SendData, I!SendZlp, I!FrameClock, I!next_address
<1>6. QED BY <1>3, <1>4, <1>5

LEMMA IsoTransmits ==
  ASSUME SizeAssumption, IInv, IsoSpeaks, NEW r \in BOOLEAN, Transmit(r)
  PROVE  IInv'
<1> DEFINE s == [Nothing EXCEPT !.tx_ready = r]
           sending == iso_state = "SEND_DATA"
           goes == tx_state = "SEND_PAYLOAD" /\ r
           L == Len(incoming)
<1>1. /\ wire = "answer" /\ wire' = "answer" /\ UNCHANGED <<token, frame, status>>
      /\ Clock(Silence, s) /\ ~(r /\ tx_state = "SEND_CRC_SECOND")
      /\ incoming' = IF goes /\ X!valid(tx) THEN Append(incoming, X!payload(tx)) ELSE incoming
  BY DEF Transmit, G!stream_ready
<1> PICK signal : AnswerSide(s, signal)
  BY <1>1, ClockIsAnswerSide
<1>2. Transmits(s) /\ s.tx_ready = r
  BY DEF Nothing, Signals, Transmits, Transmit
<1> HIDE DEF s
<1>3. /\ Types /\ token.endpoint = ISO /\ status_state \in {"IDLE", "RETRANSMIT"} /\ L \in Nat
      /\ incoming = Samples(L) /\ (iso_first => sending)
  BY <1>1 DEF IsoSpeaks, IInv, InStep, Types
<1>4. status_state' = status_state /\ UNCHANGED <<status_pid, latched_signal, bytes_transmitted, status_read>>
  BY <1>2, <1>3, OtherEndpointRests
<1>5. G!Clock(X!tx_pid_toggle(tx), X!first(tx), X!last(tx), X!valid(tx), r)
  BY <1>2 DEF AnswerSide
<1>6. /\ goes => sending /\ L = address
      /\ iso_state \in {"SEND_DATA", "SEND_ZLP"} => X!valid(tx) /\ X!payload(tx) = Sample(address)
  BY <1>3, IsoAlone DEF IsoSpeaks
<1>7. /\ incoming' = Samples(Len(incoming')) /\ Len(incoming') = IF goes THEN L + 1 ELSE L
  <2>1. CASE goes
    <3>1. incoming' = Append(Samples(L), Sample(L))
      BY <2>1, <1>1, <1>3, <1>6
    <3>2. Append(Samples(L), Sample(L)) = Samples(L + 1)
      BY <1>3, OneMore
    <3>3. Len(Samples(L + 1)) = L + 1
      BY <1>3, OneMore
    <3>4. QED BY <3>1, <3>2, <3>3, <2>1
  <2>2. CASE ~goes
    BY <2>2, <1>1, <1>3
  <2>3. QED BY <2>1, <2>2
<1>8. /\ tx_state # "IDLE" => packet_pid' = packet_pid /\ is_zlp' = is_zlp
      /\ tx_state # "IDLE" /\ ~r => tx_state' = tx_state
      /\ tx_state = "SEND_PID" /\ r => tx_state' = IF is_zlp THEN "SEND_CRC_FIRST" ELSE "SEND_PAYLOAD"
      /\ tx_state = "SEND_CRC_FIRST" /\ r => tx_state' = "SEND_CRC_SECOND"
  BY <1>5, GeneratorClock
<1>9. iso_state = "IDLE" =>
        /\ iso_state' = "IDLE" /\ iso_first' = FALSE /\ address' = 0
        /\ UNCHANGED <<bytes_left_in_frame, bytes_left_in_packet, next_data_pid>>
  BY <1>2, OtherEndpointRests
<1>10. /\ sending /\ ~goes =>
            /\ iso_state' = "SEND_DATA" /\ iso_first' = iso_first /\ address' = address
            /\ UNCHANGED <<bytes_left_in_frame, bytes_left_in_packet, next_data_pid>>
       /\ sending /\ goes =>
            /\ iso_state' = IF I!byte_terminates_send THEN "IDLE" ELSE "SEND_DATA"
            /\ iso_first' = FALSE /\ address' = address + 1
            /\ bytes_left_in_frame' = bytes_left_in_frame - 1
            /\ bytes_left_in_packet' = IF I!byte_terminates_send THEN max_packet_size ELSE bytes_left_in_packet - 1
            /\ next_data_pid' = IF I!byte_terminates_send THEN (next_data_pid - 1) % 4 ELSE next_data_pid
       /\ iso_state = "SEND_ZLP" =>
            /\ iso_state' = "IDLE" /\ iso_first' = iso_first /\ address' = 0
            /\ UNCHANGED <<bytes_left_in_frame, bytes_left_in_packet, next_data_pid>>
  BY <1>2, IsoClock
<1>11. /\ sending /\ tx_state = "IDLE" => /\ tx_state' = "SEND_PID" /\ is_zlp' = FALSE
                                         /\ packet_pid' = next_data_pid /\ L = 0 /\ iso_first = TRUE
       /\ iso_state = "SEND_ZLP" => /\ tx_state = "IDLE" /\ tx_state' = "SEND_PID" /\ is_zlp' = TRUE
                                    /\ packet_pid' = next_data_pid /\ L = 0
  <2>1. CASE sending /\ tx_state = "IDLE"
    <3>1. iso_first = TRUE /\ L = 0 /\ past_valid = {}
      BY <2>1, <1>3 DEF IsoSpeaks, Types
    <3>2. X!first(tx) /\ X!tx_pid_toggle(tx) = next_data_pid /\ X!valid(tx)
      BY <2>1, <3>1, <1>3, IsoAlone
    <3>3. tx_state' = "SEND_PID" /\ is_zlp' = FALSE /\ packet_pid' = next_data_pid
      BY <2>1, <3>2, <1>5, GeneratorClock
    <3>4. QED BY <2>1, <3>1, <3>3
  <2>2. CASE iso_state = "SEND_ZLP"
    <3>1. iso_first = FALSE /\ L = 0 /\ past_valid = {} /\ tx_state = "IDLE"
      BY <2>2, <1>3 DEF IsoSpeaks, Types
    <3>2. X!tx_pid_toggle(tx) = next_data_pid /\ X!valid(tx)
      BY <2>2, <3>1, <1>3, IsoAlone
    <3>3. ~X!first(tx) /\ X!last(tx)
      BY <2>2, <3>1, <1>3, IsoAlone DEF I!tx_last
    <3>4. tx_state' = "SEND_PID" /\ is_zlp' = TRUE /\ packet_pid' = next_data_pid
      BY <2>2, <3>1, <3>2, <3>3, <1>5 DEF G!Clock, G!Idle, G!SendPid, G!SendPayload, G!SendCrcFirst, G!SendCrcSecond
    <3>5. QED BY <2>2, <3>1, <3>4
  <2>3. QED BY <2>1, <2>2
<1>12. sending /\ tx_state = "SEND_PAYLOAD" =>
         tx_state' = IF r /\ I!byte_terminates_send THEN "SEND_CRC_FIRST" ELSE "SEND_PAYLOAD"
  <2> SUFFICES ASSUME sending, tx_state = "SEND_PAYLOAD"
      PROVE  tx_state' = IF r /\ I!byte_terminates_send THEN "SEND_CRC_FIRST" ELSE "SEND_PAYLOAD"
    OBVIOUS
  <2>1. X!valid(tx) /\ (X!last(tx) <=> I!byte_terminates_send)
    BY <1>3, IsoAlone DEF I!tx_last
  <2>2. CASE r /\ I!byte_terminates_send
    BY <2>1, <2>2, <1>5 DEF G!Clock, G!Idle, G!SendPid, G!SendPayload, G!SendCrcFirst, G!SendCrcSecond
  <2>3. CASE r /\ ~I!byte_terminates_send
    BY <2>1, <2>3, <1>5 DEF G!Clock, G!Idle, G!SendPid, G!SendPayload, G!SendCrcFirst, G!SendCrcSecond
  <2>4. CASE ~r
    BY <2>4, <1>8
  <2>5. QED BY <2>2, <2>3, <2>4
<1>13. /\ IsoSpeaks' /\ (iso_state' # "SEND_DATA" => ~iso_first')
       /\ iso_state' \in {"IDLE", "SEND_DATA"} /\ iso_first' \in BOOLEAN /\ is_zlp' \in BOOLEAN
       /\ address' \in Nat /\ packet_pid' \in 0 .. 3
       /\ tx_state' \in {"SEND_PID", "SEND_PAYLOAD", "SEND_CRC_FIRST", "SEND_CRC_SECOND"}
       /\ bytes_left_in_frame' \in Int /\ bytes_left_in_packet' \in Int /\ next_data_pid' \in 0 .. 3
  <2>1. token'.endpoint = ISO /\ status_state' \in {"IDLE", "RETRANSMIT"}
        /\ Len(incoming') \in Nat /\ incoming' = (Samples(Len(incoming)))'
    BY <1>1, <1>3, <1>4, <1>7 DEF Samples, Sample
  <2>2. CASE sending /\ tx_state = "IDLE"
    BY <2>1, <2>2, <1>3, <1>7, <1>10, <1>11 DEF IsoSpeaks, Types
  <2>3. CASE sending /\ tx_state = "SEND_PID"
    BY <2>1, <2>3, <1>3, <1>7, <1>8, <1>10 DEF IsoSpeaks, Types
  <2>4. CASE sending /\ tx_state = "SEND_PAYLOAD"
    <3>1. /\ packet_pid = next_data_pid /\ address = L /\ address \in Nat /\ packet_pid \in 0 .. 3
          /\ packet_pid' = packet_pid /\ is_zlp' = is_zlp
      BY <2>4, <1>3, <1>8 DEF IsoSpeaks, Types
    <3>2. is_zlp' \in BOOLEAN
      BY <3>1, <1>3, Zenon DEF Types
    <3>3. CASE ~r
      BY <2>1, <2>4, <3>1, <3>2, <3>3, <1>3, <1>7, <1>10, <1>12 DEF IsoSpeaks, Types
    <3>4. CASE r /\ ~I!byte_terminates_send
      <4>1. /\ iso_state' = "SEND_DATA" /\ iso_first' = FALSE /\ address' = address + 1
            /\ bytes_left_in_frame' = bytes_left_in_frame - 1 /\ bytes_left_in_packet' = bytes_left_in_packet - 1
            /\ next_data_pid' = next_data_pid /\ tx_state' = "SEND_PAYLOAD" /\ Len(incoming') = L + 1
        BY <2>4, <3>4, <1>7, <1>10, <1>12
      <4>2. IsoSpeaks'
        BY <2>1, <3>1, <4>1 DEF IsoSpeaks
      <4>3. bytes_left_in_frame' \in Int /\ bytes_left_in_packet' \in Int /\ next_data_pid' \in 0 .. 3
        BY <4>1, <1>3 DEF Types
      <4>4. iso_first' \in BOOLEAN
        BY <4>1, Zenon
      <4>5. address' \in Nat /\ packet_pid' \in 0 .. 3
        BY <3>1, <4>1
      <4>6. QED BY <3>2, <4>1, <4>2, <4>3, <4>4, <4>5
    <3>5. CASE r /\ I!byte_terminates_send
      <4>1. /\ iso_state' = "IDLE" /\ iso_first' = FALSE /\ address' = address + 1
            /\ bytes_left_in_frame' = bytes_left_in_frame - 1 /\ bytes_left_in_packet' = max_packet_size
            /\ next_data_pid' = (next_data_pid - 1) % 4 /\ tx_state' = "SEND_CRC_FIRST"
        BY <2>4, <3>5, <1>10, <1>12
      <4>2. next_data_pid' \in 0 .. 3
        BY <4>1, <1>3 DEF Types
      <4>3. bytes_left_in_frame' \in Int /\ bytes_left_in_packet' \in Int
        BY <4>1, <1>3 DEF Types, SizeAssumption
      <4>4. IsoSpeaks'
        BY <2>1, <4>1 DEF IsoSpeaks
      <4>5. iso_first' \in BOOLEAN /\ ~iso_first'
        BY <4>1, Zenon
      <4>6. address' \in Nat /\ packet_pid' \in 0 .. 3
        BY <3>1, <4>1
      <4>7. QED BY <3>2, <4>1, <4>2, <4>3, <4>4, <4>5, <4>6
    <3>6. QED BY <3>3, <3>4, <3>5
  <2>5. CASE iso_state = "SEND_ZLP"
    BY <2>1, <2>5, <1>3, <1>7, <1>10, <1>11 DEF IsoSpeaks, Types
  <2>6. CASE iso_state = "IDLE"
    <3>1. /\ packet_pid' = packet_pid /\ is_zlp' = is_zlp /\ iso_state' = "IDLE" /\ iso_first' = FALSE
          /\ address' = 0 /\ UNCHANGED <<bytes_left_in_frame, bytes_left_in_packet, next_data_pid>>
      BY <2>6, <1>3, <1>8, <1>9 DEF IsoSpeaks
    <3>2. is_zlp' \in BOOLEAN
      BY <3>1, <1>3, Zenon DEF Types
    <3>3. CASE tx_state = "SEND_PID"
      <4>1. is_zlp /\ L = 0 /\ tx_state' \in {"SEND_PID", "SEND_CRC_FIRST"} /\ Len(incoming') = 0
            /\ (tx_state' = "SEND_PID" => is_zlp')
        BY <3>1, <3>3, <2>6, <1>7, <1>8 DEF IsoSpeaks
      <4>2. QED BY <2>1, <3>1, <3>2, <4>1, <1>3 DEF IsoSpeaks, Types
    <3>4. CASE tx_state \in {"SEND_CRC_FIRST", "SEND_CRC_SECOND"}
      <4>1. tx_state' \in {"SEND_CRC_FIRST", "SEND_CRC_SECOND"}
        BY <3>4, <1>1, <1>8
      <4>2. QED BY <2>1, <3>1, <3>2, <4>1, <1>3 DEF IsoSpeaks, Types
    <3>5. QED BY <3>3, <3>4, <2>6 DEF IsoSpeaks
  <2>7. QED BY <2>2, <2>3, <2>4, <2>5, <2>6 DEF IsoSpeaks
<1>14. Types'
  BY <1>1, <1>3, <1>4, <1>13 DEF Types
<1>15. InStep'
  BY <1>1, <1>13 DEF InStep
<1>16. StatusAgrees'
  BY <1>1, <1>3, <1>4 DEF StatusAgrees, StatusTaken, IInv
<1>17. FrameInStep'
  <2> SUFFICES ASSUME FollowsFrame PROVE FrameCounts'
    BY <1>1, <1>3 DEF FrameInStep, FollowsFrame, IInv, FrameDone
  <2> DEFINE n == Len(frame.packets)
             first == I!FirstPid(frame.size)
             left == frame.size - Full(n)
  <2>1. n \in Nat /\ frame.size \in 0 .. 3 * max_packet_size /\ FrameCounts
    BY <1>3 DEF FrameInStep, IInv, Types
  <2>2. first \in 0 .. 2 /\ left \in Int
    BY <2>1, FirstPids DEF Full, SizeAssumption
  <2>3. /\ n <= first + 1
        /\ \A k \in 1 .. n : /\ frame.packets[k].pid = first - (k - 1)
                             /\ frame.packets[k].length = IF frame.packets[k].pid = 0
                                                          THEN frame.size - Full(k - 1) ELSE max_packet_size
    BY <2>1 DEF FrameCounts
  <2>4. /\ sending => /\ next_data_pid = first - n /\ bytes_left_in_packet > 0 /\ bytes_left_in_frame > 0
                      /\ bytes_left_in_packet = max_packet_size - L /\ bytes_left_in_frame = left - L
        /\ iso_state = "SEND_ZLP" => n = 0 /\ frame.size = 0 /\ next_data_pid = 0
        /\ iso_state = "IDLE" =>
             /\ packet_pid = first - n /\ L = IF first - n = 0 THEN left ELSE max_packet_size
             /\ first - n > 0 => /\ next_data_pid = first - n - 1 /\ bytes_left_in_packet = max_packet_size
                                 /\ bytes_left_in_frame = left - max_packet_size
    BY <2>1, <1>1, <1>3 DEF FrameCounts
  <2>5. /\ iso_state' = "SEND_DATA" =>
             /\ next_data_pid' = first - n /\ bytes_left_in_packet' > 0 /\ bytes_left_in_frame' > 0
             /\ bytes_left_in_packet' = max_packet_size - Len(incoming')
             /\ bytes_left_in_frame' = left - Len(incoming')
        /\ iso_state' = "IDLE" =>
             /\ packet_pid' = first - n /\ Len(incoming') = IF first - n = 0 THEN left ELSE max_packet_size
             /\ first - n > 0 => /\ next_data_pid' = first - n - 1 /\ bytes_left_in_packet' = max_packet_size
                                 /\ bytes_left_in_frame' = left - max_packet_size
    <3>1. CASE sending /\ ~goes
      BY <3>1, <2>2, <2>4, <1>7, <1>10
    <3>2. CASE sending /\ goes
      <4>1. n <= first /\ packet_pid' = first - n
        BY SMTT(30), <3>2, <2>1, <2>2, <2>4, <1>3, <1>8 DEF IsoSpeaks, Types
      <4>2. /\ first - n > 0 => left > max_packet_size
            /\ first - n = 0 => left <= max_packet_size
        BY <4>1, <2>1, <2>2, BytesLeft
      <4>3. Len(incoming') = L + 1 /\ bytes_left_in_frame' = bytes_left_in_frame - 1
        BY <3>2, <1>7, <1>10
      <4>4. I!byte_terminates_send <=> bytes_left_in_packet <= 1 \/ bytes_left_in_frame <= 1
        BY DEF I!byte_terminates_send, I!last_byte_in_packet, I!last_byte_in_frame
      <4>5. CASE I!byte_terminates_send
        <5>1. iso_state' = "IDLE" /\ bytes_left_in_packet' = max_packet_size
              /\ next_data_pid' = (next_data_pid - 1) % 4
          BY <3>2, <4>5, <1>10
        <5>2. Len(incoming') = IF first - n = 0 THEN left ELSE max_packet_size
          BY SMTT(30), <3>2, <4>1, <4>2, <4>3, <4>4, <4>5, <2>1, <2>2, <2>4, <1>3 DEF SizeAssumption
        <5>3. first - n > 0 => next_data_pid' = first - n - 1
          BY SMTT(30), <3>2, <5>1, <2>1, <2>2, <2>4
        <5>4. first - n > 0 => bytes_left_in_frame' = left - max_packet_size
          BY <3>2, <4>3, <5>2, <2>1, <2>2, <2>4, <1>3 DEF SizeAssumption
        <5>5. QED BY <4>1, <5>1, <5>2, <5>3, <5>4
      <4>6. CASE ~I!byte_terminates_send
        BY SMTT(30), <3>2, <4>3, <4>4, <4>6, <2>1, <2>2, <2>4, <1>3, <1>10 DEF SizeAssumption, Types
      <4>7. QED BY <4>5, <4>6
    <3>3. CASE iso_state = "SEND_ZLP"
      <4>1. first = 0 /\ left = 0 /\ n = 0
        BY <3>3, <2>4 DEF I!FirstPid, Full, SizeAssumption
      <4>2. QED BY <3>3, <4>1, <2>4, <1>7, <1>10, <1>11
    <3>4. CASE iso_state = "IDLE"
      <4>1. packet_pid' = packet_pid /\ Len(incoming') = L /\ iso_state' = "IDLE"
            /\ UNCHANGED <<bytes_left_in_frame, bytes_left_in_packet, next_data_pid>>
        BY <3>4, <1>3, <1>7, <1>8, <1>9 DEF IsoSpeaks
      <4>2. QED BY <3>4, <4>1, <2>4
    <3>5. QED BY <3>1, <3>2, <3>3, <3>4 DEF IsoSpeaks
  <2>6. frame' = frame /\ wire' = "answer" /\ token'.endpoint = ISO
        /\ iso_state' \in {"IDLE", "SEND_DATA"}
    BY <1>1, <1>3, <1>13
  <2>7. QED BY <2>3, <2>5, <2>6 DEF FrameCounts, Full
<1>18. QED BY <1>14, <1>15, <1>16, <1>17 DEF IInv

---------------------------------------------------------------------------
(* The end of a packet *)

LEMMA EndClock ==
  ASSUME SizeAssumption, IInv, NEW from, NEW next_wire, EndOfPacket(from, next_wire)
  PROVE  /\ wire = "answer" /\ wire' = next_wire /\ incoming' = << >> /\ token' = token
         /\ token.endpoint = from
         /\ iso_state = "IDLE" /\ iso_state' = "IDLE" /\ iso_first' = FALSE /\ address' = 0
         /\ UNCHANGED <<bytes_left_in_frame, bytes_left_in_packet, next_data_pid>>
         /\ status_state # "TRANSMIT_RESPONSE" /\ status_state' = status_state
         /\ UNCHANGED <<status_pid, latched_signal, bytes_transmitted, status_read>>
         /\ tx_state = "SEND_CRC_SECOND" /\ tx_state' = "IDLE" /\ packet_pid' = packet_pid /\ is_zlp' = is_zlp
         /\ past_valid' = {}
         /\ token.endpoint = STATUS => /\ status_state = "WAIT_FOR_ACK" /\ packet_pid = status_pid
                                       /\ incoming = StatusBytes(bytes_in_signal)
         /\ token.endpoint = ISO => Len(incoming) \in Nat
<1> DEFINE s == [Nothing EXCEPT !.tx_ready = TRUE]
<1>1. /\ wire = "answer" /\ tx_state = "SEND_CRC_SECOND" /\ token.endpoint = from
      /\ wire' = next_wire /\ incoming' = << >> /\ token' = token /\ Clock(Silence, s)
  BY DEF EndOfPacket
<1> PICK signal : AnswerSide(s, signal)
  BY <1>1, ClockIsAnswerSide
<1>2. Transmits(s) /\ s.tx_ready = TRUE
  BY <1>1 DEF Nothing, Signals, Transmits
<1> HIDE DEF s
<1>3. StatusSpeaks \/ IsoSpeaks
  BY <1>1 DEF IInv, InStep
<1>4. /\ iso_state = "IDLE" /\ iso_first = FALSE /\ status_state # "TRANSMIT_RESPONSE"
      /\ token.endpoint = STATUS => /\ status_state = "WAIT_FOR_ACK" /\ packet_pid = status_pid
                                    /\ incoming = StatusBytes(bytes_in_signal)
      /\ token.endpoint = ISO => Len(incoming) \in Nat
  BY <1>1, <1>3 DEF StatusSpeaks, IsoSpeaks, IInv, InStep, Types, ISO, STATUS
<1>5. /\ iso_state' = "IDLE" /\ iso_first' = FALSE /\ address' = 0
      /\ UNCHANGED <<bytes_left_in_frame, bytes_left_in_packet, next_data_pid>>
      /\ status_state' = status_state
      /\ UNCHANGED <<status_pid, latched_signal, bytes_transmitted, status_read>>
  BY <1>2, <1>4, OtherEndpointRests
<1>6. past_valid' = {}
  BY <1>4, NobodySpeaks DEF AnswerSide
<1>7. tx_state' = "IDLE" /\ packet_pid' = packet_pid /\ is_zlp' = is_zlp
  <2>1. G!Clock(X!tx_pid_toggle(tx), X!first(tx), X!last(tx), X!valid(tx), TRUE)
    BY <1>2 DEF AnswerSide
  <2>2. QED BY <1>1, <2>1, GeneratorClock
<1>8. QED BY <1>1, <1>4, <1>5, <1>6, <1>7

LEMMA EndStep ==
  ASSUME SizeAssumption, IInv, IsoArrives \/ IsoMissed \/ StatusArrives \/ StatusMissed
  PROVE  Types' /\ InStep' /\ StatusAgrees'
<1>1. PICK from \in {ISO, STATUS}, next_wire \in {"quiet", "ack"} :
        /\ EndOfPacket(from, next_wire)
        /\ from = ISO => next_wire = "quiet" /\ status' = status
        /\ from = STATUS /\ next_wire = "quiet" => status' = status
        /\ from = STATUS /\ next_wire = "ack" =>
             status' = IF packet_pid = status.toggle
                       THEN [toggle |-> 1 - status.toggle, got |-> incoming[1][1], stolen |-> FALSE] ELSE status
  BY DEF IsoArrives, IsoMissed, IsoEnds, StatusArrives, StatusMissed, ISO, STATUS
<1>2. /\ wire = "answer" /\ wire' = next_wire /\ incoming' = << >> /\ token' = token
      /\ token.endpoint = from
      /\ iso_state = "IDLE" /\ iso_state' = "IDLE" /\ iso_first' = FALSE /\ address' = 0
      /\ UNCHANGED <<bytes_left_in_frame, bytes_left_in_packet, next_data_pid>>
      /\ status_state # "TRANSMIT_RESPONSE" /\ status_state' = status_state
      /\ UNCHANGED <<status_pid, latched_signal, bytes_transmitted, status_read>>
      /\ tx_state = "SEND_CRC_SECOND" /\ tx_state' = "IDLE" /\ packet_pid' = packet_pid /\ is_zlp' = is_zlp
      /\ past_valid' = {}
      /\ token.endpoint = STATUS => /\ status_state = "WAIT_FOR_ACK" /\ packet_pid = status_pid
                                    /\ incoming = StatusBytes(bytes_in_signal)
      /\ token.endpoint = ISO => Len(incoming) \in Nat
  BY <1>1, EndClock
<1>3. Types /\ frame \in [count : Nat, size : 0 .. 3 * max_packet_size, heard : BOOLEAN, packets : Seq(Packet)]
  BY DEF IInv, Types
<1>4. frame' \in [count : Nat, size : 0 .. 3 * max_packet_size, heard : BOOLEAN, packets : Seq(Packet)]
  <2>1. CASE IsoArrives \/ IsoMissed
    <3>1. token.endpoint = ISO
      BY <2>1 DEF IsoArrives, IsoMissed, IsoEnds, EndOfPacket
    <3>2. PICK packet \in Packet : frame' = [frame EXCEPT !.packets = Append(@, packet)]
      BY SMTT(30), <2>1, <3>1, <1>2, <1>3 DEF IsoArrives, IsoMissed, IsoEnds, Packet, Missing, Types
    <3>3. Append(frame.packets, packet) \in Seq(Packet)
      BY <1>3
    <3>4. QED BY <3>2, <3>3, <1>3
  <2>2. CASE StatusArrives \/ StatusMissed
    BY <2>2, <1>3 DEF StatusArrives, StatusMissed
  <2>3. QED BY <2>1, <2>2
<1>5. incoming[1][1] = latched_signal \/ from = ISO
  BY <1>2, <1>1 DEF StatusBytes, SizeAssumption
<1>6. StatusAgrees'
  <2>1. CASE status' = status /\ next_wire = "quiet"
    BY <2>1, <1>2 DEF StatusAgrees, StatusTaken, IInv
  <2>2. CASE status' = status /\ next_wire = "ack" /\ packet_pid # status.toggle
    BY <2>2, <1>1, <1>2 DEF StatusAgrees, StatusTaken, IInv
  <2>3. CASE next_wire = "ack" /\ packet_pid = status.toggle
    <3>1. /\ from = STATUS /\ status_state' = "WAIT_FOR_ACK" /\ packet_pid = status_pid
          /\ status' = [toggle |-> 1 - status.toggle, got |-> latched_signal, stolen |-> FALSE]
      BY <2>3, <1>1, <1>2, <1>5 DEF ISO, STATUS
    <3>2. StatusTaken'
      BY <2>3, <3>1, <1>2 DEF StatusTaken
    <3>3. QED BY <3>1, <3>2 DEF StatusAgrees
  <2>4. QED BY <2>1, <2>2, <2>3, <1>1
<1>7. InStep'
  BY <1>1, <1>2 DEF InStep
<1>8. Types'
  <2>1. /\ status' = [toggle |-> status'.toggle, got |-> status'.got, stolen |-> status'.stolen]
        /\ status'.toggle \in {0, 1} /\ status'.stolen \in BOOLEAN
    <3>1. CASE status' = status
      BY <3>1, <1>3 DEF Types
    <3>2. CASE status' = [toggle |-> 1 - status.toggle, got |-> incoming[1][1], stolen |-> FALSE]
      <4>1. 1 - status.toggle \in {0, 1}
        BY <1>3 DEF Types
      <4>2. status'.toggle = 1 - status.toggle /\ status'.got = incoming[1][1] /\ status'.stolen = FALSE
        BY <3>2
      <4>3. QED BY <3>2, <4>1, <4>2
    <3>3. QED BY <3>1, <3>2, <1>1
  <2>2. wire' \in {"quiet", "asked", "answer", "ack", "token", "pid", "data"}
    BY <1>1, <1>2
  <2>3. iso_first' \in BOOLEAN /\ is_zlp' \in BOOLEAN
    BY <1>2, <1>3, Zenon DEF Types
  <2>4. QED BY <2>1, <2>2, <2>3, <1>2, <1>3, <1>4 DEF Types
<1>9. QED BY <1>6, <1>7, <1>8

\* A packet that reaches the host is the next of its frame.
LEMMA FrameGrows ==
  ASSUME SizeAssumption, IInv, IsoArrives \/ IsoMissed
  PROVE  FrameInStep'
<1>1. /\ token.endpoint = ISO /\ wire = "answer" /\ wire' = "quiet" /\ token' = token
      /\ iso_state = "IDLE" /\ Len(incoming) \in Nat
      /\ UNCHANGED <<bytes_left_in_frame, bytes_left_in_packet, next_data_pid>>
  <2>1. EndOfPacket(ISO, "quiet")
    BY DEF IsoArrives, IsoMissed, IsoEnds
  <2>2. QED BY <2>1, EndClock
<1>2. frame \in [count : Nat, size : 0 .. 3 * max_packet_size, heard : BOOLEAN, packets : Seq(Packet)]
  BY DEF IInv, Types
<1> DEFINE n == Len(frame.packets)
           first == I!FirstPid(frame.size)
           left == frame.size - Full(n)
<1>3. PICK packet : /\ frame' = [frame EXCEPT !.packets = Append(@, packet)]
                    /\ packet = Missing \/ packet = [pid |-> packet_pid, length |-> Len(incoming)]
  BY DEF IsoArrives, IsoMissed, IsoEnds
<1>4. /\ frame'.size = frame.size /\ frame'.heard = frame.heard
      /\ Len(frame'.packets) = n + 1 /\ n \in Nat /\ frame'.packets[n + 1] = packet
      /\ \A k \in 1 .. n : frame'.packets[k] = frame.packets[k]
      /\ Last(frame'.packets) = packet /\ frame'.packets # << >>
  BY <1>2, <1>3 DEF Last
<1> SUFFICES ASSUME FollowsFrame' PROVE FrameCounts'
  BY <1>1 DEF FrameInStep
<1>5. packet # Missing /\ frame.heard
  BY <1>4 DEF FollowsFrame
<1>6. FollowsFrame
  BY <1>1, <1>5 DEF FollowsFrame, IInv, FrameInStep, FrameDone
<1>7. /\ n <= first + 1
      /\ \A k \in 1 .. n : /\ frame.packets[k].pid = first - (k - 1)
                           /\ frame.packets[k].length = IF frame.packets[k].pid = 0
                                                        THEN frame.size - Full(k - 1) ELSE max_packet_size
      /\ packet_pid = first - n /\ Len(incoming) = IF first - n = 0 THEN left ELSE max_packet_size
      /\ first - n > 0 => /\ next_data_pid = first - n - 1 /\ bytes_left_in_packet = max_packet_size
                          /\ bytes_left_in_frame = left - max_packet_size
  BY <1>6, <1>1 DEF IInv, FrameInStep, FrameCounts
<1>8. first \in 0 .. 2 /\ packet_pid \in 0 .. 3
  BY <1>2, FirstPids DEF IInv, Types
<1>9. packet.pid = first - n /\ packet.length = IF packet.pid = 0 THEN left ELSE max_packet_size
  BY <1>3, <1>5, <1>7
<1>10. first - n > 0 => Full(n + 1) = Full(n) + max_packet_size
  <2>1. frame.size \in 0 .. 3 * max_packet_size
    BY <1>2
  <2>2. ASSUME first - n > 0 PROVE n < first /\ n <= first
    BY <2>2, <1>4, <1>8
  <2>3. QED BY <2>1, <2>2, <1>4, BytesLeft
<1>11. n + 1 <= first + 1
  BY <1>4, <1>7, <1>8
<1>12. \A k \in 1 .. n + 1 :
         /\ frame'.packets[k].pid = first - (k - 1)
         /\ frame'.packets[k].length = IF frame'.packets[k].pid = 0
                                       THEN frame.size - Full(k - 1) ELSE max_packet_size
  <2> TAKE k \in 1 .. n + 1
  <2>1. CASE k \in 1 .. n
    BY <2>1, <1>4, <1>7
  <2>2. CASE k = n + 1
    BY <2>2, <1>4, <1>9
  <2>3. QED BY <2>1, <2>2, <1>4
<1>13. first - (n + 1) >= 0 => /\ next_data_pid' = first - (n + 1) /\ bytes_left_in_packet' = max_packet_size
                               /\ bytes_left_in_frame' = frame.size - Full(n + 1)
  <2>1. Full(n) \in Int /\ frame.size \in Int /\ max_packet_size \in Int
    BY <1>2 DEF SizeAssumption, Full
  <2> DEFINE whole == Full(n)
             next == Full(n + 1)
  <2>2. whole \in Int /\ (first - n > 0 => next = whole + max_packet_size)
    BY <2>1, <1>10
  <2> HIDE DEF whole, next
  <2>3. first - (n + 1) >= 0 => first - n > 0 /\ first - n - 1 = first - (n + 1)
    BY <1>4, <1>8
  <2>4. first - (n + 1) >= 0 => bytes_left_in_frame' = frame.size - next
    <3>1. first - n > 0 => bytes_left_in_frame' = frame.size - whole - max_packet_size
      BY <1>1, <1>7 DEF whole
    <3>2. QED BY <3>1, <2>1, <2>2, <2>3
  <2>5. QED BY <2>3, <2>4, <1>1, <1>7 DEF next
<1>14. QED BY <1>1, <1>4, <1>11, <1>12, <1>13 DEF FrameCounts, Full

---------------------------------------------------------------------------
(* The theorems *)

LEMMA Invariance ==
  ASSUME SizeAssumption
  PROVE  Spec => []IInv
<1>1. Init => IInv
  <2> SUFFICES ASSUME Init PROVE IInv
    OBVIOUS
  <2>1. Types
    <3>1. /\ frame = [count |-> 0, size |-> 0, heard |-> FALSE, packets |-> << >>]
          /\ bytes_left_in_packet = max_packet_size - 1 /\ iso_first = FALSE /\ is_zlp = FALSE
      BY DEF Init, I!Init, G!Init
    <3>2. frame \in [count : Nat, size : 0 .. 3 * max_packet_size, heard : BOOLEAN, packets : Seq(Packet)]
      BY <3>1 DEF SizeAssumption
    <3>3. iso_first \in BOOLEAN /\ is_zlp \in BOOLEAN
      BY <3>1, Zenon
    <3>4. bytes_left_in_packet \in Int
      BY <3>1 DEF SizeAssumption
    <3>5. QED BY <3>2, <3>3, <3>4 DEF Init, I!Init, S!Init, X!Init, G!Init, Types
  <2>2. InStep
    BY DEF Init, I!Init, S!Init, X!Init, G!Init, InStep
  <2>3. StatusAgrees
    BY DEF Init, S!Init, StatusAgrees
  <2>4. FrameInStep
    BY DEF Init, FrameInStep, FollowsFrame
  <2>5. QED BY <2>1, <2>2, <2>3, <2>4 DEF IInv
<1>2. IInv /\ [Next]_vars => IInv'
  <2> SUFFICES ASSUME IInv, [Next]_vars PROVE IInv'
    OBVIOUS
  <2>1. CASE \/ QuietClock \/ (\E heard \in BOOLEAN : Sof(heard)) \/ AskIso \/ AskStatus
             \/ (\E arrives \in BOOLEAN : Ack(arrives)) \/ ForeignAck
             \/ (\E endpoint \in {ISO, STATUS} : OutToken(endpoint))
             \/ (\E unharmed \in BOOLEAN : PacketStarts(unharmed))
             \/ (\E kind \in {"data", "other"} : PidByte(kind))
             \/ DataByte \/ Gap \/ PacketEnds
    BY <2>1, Calmly
  <2>2. CASE Answer
    BY <2>2, AnswerStep
  <2>3. CASE \E tx_ready \in BOOLEAN : Transmit(tx_ready)
    <3>1. PICK r \in BOOLEAN : Transmit(r)
      BY <2>3
    <3>2. StatusSpeaks \/ IsoSpeaks
      BY <3>1 DEF Transmit, IInv, InStep
    <3>3. QED BY <3>1, <3>2, StatusTransmits, IsoTransmits
  <2>4. CASE IsoArrives \/ IsoMissed
    BY <2>4, EndStep, FrameGrows DEF IInv
  <2>5. CASE StatusArrives \/ StatusMissed
    <3>1. PICK next_wire \in {"quiet", "ack"} : EndOfPacket(STATUS, next_wire) /\ frame' = frame
      BY <2>5 DEF StatusArrives, StatusMissed
    <3>2. /\ wire = "answer" /\ wire' = next_wire /\ token' = token /\ token.endpoint = STATUS
          /\ UNCHANGED <<bytes_left_in_frame, bytes_left_in_packet, next_data_pid>>
      BY <3>1, EndClock
    <3>3. FrameInStep'
      BY <3>1, <3>2 DEF FrameInStep, FollowsFrame, FrameCounts, Full, IInv, ISO, STATUS
    <3>4. QED BY <2>5, <3>3, EndStep DEF IInv
  <2>6. CASE UNCHANGED vars
    BY <2>6 DEF vars, isoVars, statusVars, txVars, inHostVars, IInv, Types, InStep, StatusSpeaks, IsoSpeaks,
       StatusBytes, Samples, StatusAgrees, StatusTaken, FrameInStep, FollowsFrame, FrameCounts, FrameDone, Full
  <2>7. QED BY <2>1, <2>2, <2>3, <2>4, <2>5, <2>6 DEF Next
<1>3. QED BY <1>1, <1>2, PTL DEF Spec

\* What is answered to an IN token comes from the endpoint that was asked, for every length
\* of a status and of a packet: the two never drive the shared transmitter together.
THEOREM OnlyTheAskedAnswers ==
  ASSUME SizeAssumption
  PROVE  Spec => []AnswersComeFromTheAsked
<1>1. IInv => AnswersComeFromTheAsked
  <2> SUFFICES ASSUME IInv, wire = "answer"
      PROVE  IF token.endpoint = STATUS
             THEN /\ incoming = [k \in 1 .. Len(incoming) |-> <<latched_signal, k - 1>>]
                  /\ tx_state = "SEND_CRC_FIRST" => Len(incoming) = bytes_in_signal
             ELSE incoming = [k \in 1 .. Len(incoming) |-> Sample(k - 1)]
    BY DEF AnswersComeFromTheAsked
  <2>1. CASE StatusSpeaks
    <3>1. bytes_transmitted \in Nat /\ Len(StatusBytes(bytes_transmitted)) = bytes_transmitted
      BY OneMore DEF IInv, Types
    <3>2. QED BY <2>1, <3>1 DEF StatusSpeaks, StatusBytes
  <2>2. CASE IsoSpeaks
    BY <2>2 DEF IsoSpeaks, Samples, ISO, STATUS
  <2>3. QED BY <2>1, <2>2 DEF IInv, InStep
<1>2. QED BY <1>1, Invariance, PTL

\* Every frame the host follows is whole: for every size of packets and of the frame the
\* PIDs count down to DATA0 and the packets add up to what was asked for.
THEOREM FramesAreWhole ==
  ASSUME SizeAssumption
  PROVE  Spec => []FrameIsWhole
<1>1. IInv => FrameIsWhole
  <2> DEFINE got == frame.packets
             n == Len(got)
             first == I!FirstPid(frame.size)
  <2> SUFFICES ASSUME IInv, frame.heard, n > 0, Last(got) # Missing
      PROVE  /\ \A k \in 1 .. n - 1 : got[k].length = max_packet_size /\ got[k].pid = got[k + 1].pid + 1
             /\ got[n].pid = 0 => (n - 1) * max_packet_size + got[n].length = frame.size
             /\ n = 3 => got[n].pid = 0
    BY DEF FrameIsWhole
  <2>1. /\ n <= first + 1
        /\ \A k \in 1 .. n : /\ got[k].pid = first - (k - 1)
                             /\ got[k].length = IF got[k].pid = 0 THEN frame.size - Full(k - 1)
                                                ELSE max_packet_size
    BY DEF IInv, FrameInStep, FollowsFrame, FrameCounts
  <2>2. first \in 0 .. 2 /\ n \in 1 .. 3 /\ frame.size \in Nat
    <3>1. frame.size \in 0 .. 3 * max_packet_size /\ n \in Nat
      BY DEF IInv, Types
    <3>2. first \in 0 .. 2
      BY <3>1, FirstPids
    <3>3. n > 0 /\ n <= first + 1
      BY <2>1
    <3> HIDE DEF first, n
    <3>5. n \in 1 .. 3
      BY <3>1, <3>2, <3>3
    <3>4. QED BY <3>1, <3>2, <3>5
  <2> HIDE DEF first
  <2>3. ASSUME NEW k \in 1 .. n - 1
        PROVE  got[k].length = max_packet_size /\ got[k].pid = got[k + 1].pid + 1
    <3>1. k \in 1 .. n /\ k + 1 \in 1 .. n /\ k \in Nat
      BY <2>2
    <3>2. got[k].pid = first - (k - 1) /\ got[k + 1].pid = first - ((k + 1) - 1)
      BY <2>1, <3>1
    <3>4. n <= first + 1
      BY <2>1
    <3>5. got[k].pid # 0 /\ got[k].pid = got[k + 1].pid + 1
      BY <2>2, <3>1, <3>2, <3>4
    <3>6. QED BY <2>1, <3>1, <3>5
  <2>4. got[n].pid = 0 => (n - 1) * max_packet_size + got[n].length = frame.size
    <3>1. (n - 1) * max_packet_size = Full(n - 1)
      <4>1. CASE n = 1
        BY <4>1 DEF Full, SizeAssumption
      <4>2. CASE n = 2
        BY <4>2 DEF Full, SizeAssumption
      <4>3. CASE n = 3
        BY <4>3 DEF Full, SizeAssumption
      <4>4. QED BY <4>1, <4>2, <4>3, <2>2
    <3>2. got[n].pid = 0 => got[n].length = frame.size - Full(n - 1)
      BY <2>1, <2>2
    <3>3. Full(n - 1) \in Int
      BY <2>2 DEF Full, SizeAssumption
    <3>4. QED BY <3>1, <3>2, <3>3, <2>2
  <2>5. n = 3 => got[n].pid = 0
    BY <2>1, <2>2
  <2>6. QED BY <2>3, <2>4, <2>5
<1>2. QED BY <1>1, Invariance, PTL

\* A status endpoint that is done with a value is right about it: the host has that value
\* and expects the PID that comes next, whatever was lost on the way and whichever ACKs of other
\* devices' packets it heard, unless it took one of them for that of a value the host had missed.
THEOREM StatusIsRight ==
  ASSUME SizeAssumption
  PROVE  Spec => []ReadStatusIsTheHosts
<1>1. IInv => ReadStatusIsTheHosts
  BY DEF IInv, StatusAgrees, ReadStatusIsTheHosts
<1>2. QED BY <1>1, Invariance, PTL

---------------------------------------------------------------------------
(* The OUT endpoint: the inductive invariant *)

Entry == [byte : Nat, last : BOOLEAN, first : BOOLEAN]
SentPacket == [from : Nat \ {0}, length : 0 .. max_packet_size, whole : BOOLEAN, roomy : BOOLEAN]

ReceiverTypes ==
  /\ rx_state \in {"IDLE", "READ_PID", "RECEIVE_FIRST_BYTE", "RECEIVE_SECOND_BYTE",
                   "RECEIVE_AND_EMIT", "INTERPACKET_DELAY", "IRRELEVANT"}
  /\ data_pipeline \in Nat \X Nat
  /\ packet_complete \in BOOLEAN /\ crc_mismatch \in BOOLEAN
DetectorTypes ==
  /\ bd_state \in {"WAIT_FOR_FIRST_BYTE", "RECEIVE_AND_TRANSMIT", "OUTPUT_STROBES"}
  /\ buffered_byte \in Nat /\ is_first_byte \in BOOLEAN
  /\ buffered_complete \in BOOLEAN /\ buffered_invalid \in BOOLEAN
  /\ out \in [next : BOOLEAN, byte : Nat, first : BOOLEAN, last : BOOLEAN,
              complete : BOOLEAN, invalid : BOOLEAN]
FifoTypes ==
  /\ streamed \in Seq(Entry) /\ committed \in Seq(Entry) /\ pending \in Seq(Entry)
  /\ taken \in 0 .. Len(committed) /\ Len(committed) + Len(pending) <= buffer_size
SenderTypes ==
  /\ wire \in {"quiet", "asked", "answer", "ack", "token", "pid", "data"}
  /\ token \in [pid : {"none", "in", "out"}, endpoint : {0, ISO, STATUS}]
  /\ bus \in Seq(Nat) /\ intact \in BOOLEAN /\ packets \in Seq(SentPacket)
OutTypes == ReceiverTypes /\ DetectorTypes /\ FifoTypes /\ SenderTypes

\* The strobes of the receiver, and what the detector still holds.
Ends  == packet_complete \/ crc_mismatch
Holds == bd_state # "WAIT_FOR_FIRST_BYTE" \/ out.next \/ out.complete \/ out.invalid

\* The detector's own order: bytes, the last one of them, the strobe.
Strobes ==
  /\ ~(packet_complete /\ crc_mismatch) /\ ~(out.complete /\ out.invalid)
  /\ bd_state # "OUTPUT_STROBES" => ~buffered_complete /\ ~buffered_invalid
  /\ bd_state = "OUTPUT_STROBES" => /\ buffered_complete <=> ~buffered_invalid
                                    /\ out.next /\ out.last
  /\ out.next => bd_state # "WAIT_FOR_FIRST_BYTE" /\ ~out.complete /\ ~out.invalid
  /\ bd_state = "RECEIVE_AND_TRANSMIT" => ~out.last /\ ~out.complete /\ ~out.invalid

\* The detector follows the receiver.
Stages ==
  /\ Ends => bd_state # "OUTPUT_STROBES" /\ ~out.complete /\ ~out.invalid
  /\ Ends => rx_state \in {"IDLE", "INTERPACKET_DELAY"}
  /\ bd_state = "RECEIVE_AND_TRANSMIT" => Ends \/ rx_state = "RECEIVE_AND_EMIT"
  /\ bd_state = "OUTPUT_STROBES" \/ out.complete \/ out.invalid
       => rx_state \in {"IDLE", "INTERPACKET_DELAY"}
  /\ rx_state \in {"READ_PID", "RECEIVE_FIRST_BYTE", "RECEIVE_SECOND_BYTE", "IRRELEVANT"}
       => ~Ends /\ ~Holds

\* The receiver follows the bus.
OnTheBus ==
  /\ wire = "pid" <=> rx_state = "READ_PID"
  /\ wire = "data" <=> rx_state \in {"RECEIVE_FIRST_BYTE", "RECEIVE_SECOND_BYTE", "RECEIVE_AND_EMIT", "IRRELEVANT"}
  /\ wire \in {"asked", "answer", "ack", "token"} => Settled
  /\ wire = "data" /\ intact => rx_state # "IRRELEVANT"
  /\ wire \in {"token", "pid", "data"} \/ Ends \/ Holds => token.pid = "out"

\* A packet for the endpoint is on its way: on the bus, in the receiver or the detector.
Arriving == token.endpoint = ISO /\ (wire \in {"pid", "data"} \/ Ends \/ Holds)
Current  == packets[Len(packets)]

\* What the device says of the packet is true.
Judged ==
  Arriving =>
    /\ packets # << >>
    /\ wire \in {"pid", "data"} => Current.whole = intact
    /\ packet_complete \/ buffered_complete \/ out.complete => Current.whole
    /\ crc_mismatch \/ buffered_invalid \/ out.invalid => ~Current.whole

\* The current packet's bytes on their way.
PacketByte(k) == IF k <= Current.length THEN Current.from - 1 + k ELSE 0
Position ==
  Arriving =>
    /\ wire = "pid" => /\ Len(bus) = Current.length + 2
                       /\ \A k \in 1 .. Len(bus) : bus[k] = PacketByte(k)
    /\ wire = "data" /\ rx_state # "IRRELEVANT" =>
         LET come == Current.length + 2 - Len(bus)
         IN  /\ Len(bus) <= Current.length + 2
             /\ \A k \in 1 .. Len(bus) : bus[k] = PacketByte(come + k)
             /\ rx_state = "RECEIVE_FIRST_BYTE" => come = 0
             /\ rx_state = "RECEIVE_SECOND_BYTE" => come = 1 /\ data_pipeline[2] = PacketByte(1)
             /\ rx_state = "RECEIVE_AND_EMIT" =>
                  /\ come >= 2 /\ data_pipeline = <<PacketByte(come - 1), PacketByte(come)>>
                  /\ bd_state = "WAIT_FOR_FIRST_BYTE" => come = 2
                  /\ bd_state = "RECEIVE_AND_TRANSMIT" => come > 2 /\ buffered_byte = Current.from + come - 3

\* The bytes in the detector are the packet's, and it knows the first and the last one.
Marked ==
  Arriving =>
    /\ packet_complete /\ bd_state = "WAIT_FOR_FIRST_BYTE" => Current.length = 0
    /\ bd_state = "RECEIVE_AND_TRANSMIT" =>
         /\ buffered_byte \in BytesOf(Current)
         /\ is_first_byte <=> buffered_byte = Current.from
         /\ packet_complete => buffered_byte = Current.from + Current.length - 1
    /\ out.next =>
         /\ out.byte \in BytesOf(Current)
         /\ out.first <=> out.byte = Current.from
         /\ bd_state = "RECEIVE_AND_TRANSMIT" => buffered_byte = out.byte + 1
         /\ buffered_complete => out.byte = Current.from + Current.length - 1

\* What the endpoint has written of the packet; all of it, if there was room.
Written ==
  /\ ~(Arriving /\ Holds) => pending = << >>
  /\ Arriving /\ Holds =>
       /\ \A k \in 1 .. Len(pending) :
            /\ pending[k].byte \in BytesOf(Current)
            /\ pending[k].first <=> pending[k].byte = Current.from
            /\ k > 1 => pending[k - 1].byte < pending[k].byte
            /\ out.next => pending[k].byte < out.byte
            /\ bd_state = "RECEIVE_AND_TRANSMIT" => pending[k].byte < buffered_byte
            /\ ~out.complete /\ ~out.invalid => ~pending[k].last
            /\ out.complete => (pending[k].last <=> pending[k].byte = Current.from + Current.length - 1)
  /\ Arriving /\ Current.roomy =>
       /\ Len(committed) + 2 * max_packet_size - 1 <= buffer_size
       /\ Len(pending) <= Current.length
       /\ \A k \in 1 .. Len(pending) : pending[k].byte = Current.from + k - 1
       /\ bd_state = "RECEIVE_AND_TRANSMIT" =>
            buffered_byte = Current.from + Len(pending) + (IF out.next THEN 1 ELSE 0)
       /\ out.next => out.byte = Current.from + Len(pending)
       /\ out.complete => Len(pending) = Current.length

\* The packets follow each other.
Chained ==
  \A i, j \in 1 .. Len(packets) : i < j => packets[i].from + packets[i].length <= packets[j].from

\* What has been let through lies before the packet that arrives; it is in order, of whole
\* packets, and none is missing of those that had room.
IsByteOf(entry, p) ==
  /\ p.whole /\ entry.byte \in BytesOf(p)
  /\ entry.first <=> entry.byte = p.from
  /\ entry.last  <=> entry.byte = p.from + p.length - 1
Delivered ==
  /\ \A k \in 1 .. Len(Kept) :
       /\ k > 1 => Kept[k - 1].byte < Kept[k].byte
       /\ \E j \in 1 .. Len(packets) :
            IsByteOf(Kept[k], packets[j]) /\ (Arriving => j < Len(packets))
  /\ \A j \in 1 .. Len(packets) :
       packets[j].whole /\ packets[j].roomy /\ (Arriving => j < Len(packets)) =>
         \A b \in BytesOf(packets[j]) : \E k \in 1 .. Len(Kept) : Kept[k].byte = b

OutControl == OutTypes /\ Strobes /\ Stages /\ OnTheBus
OutInv == OutControl /\ Judged /\ Position /\ Marked /\ Written /\ Chained /\ Delivered

---------------------------------------------------------------------------
(* The OUT endpoint: its FIFO *)

Joined(a, b) == a \o b

LEMMA JoinedAssociative ==
  ASSUME NEW Elem, NEW a \in Seq(Elem), NEW b \in Seq(Elem), NEW c \in Seq(Elem)
  PROVE  Joined(Joined(a, b), c) = Joined(a, Joined(b, c))
BY DEF Joined

\* What has been read of a queue is dropped from it a clock later: read out and left in
\* are together what they were, and what is committed comes after them.
ReadsAndDrops(Elem, s, c, p, t, r) ==
  LET left == SubSeq(c, t + 1, Len(c))
      read == IF r = 1 THEN <<c[t + 1]>> ELSE << >>
      next == left \o p
  IN  /\ left \in Seq(Elem) /\ Len(left) = Len(c) - t
      /\ next \in Seq(Elem) /\ Len(next) = Len(c) - t + Len(p) /\ r \in 0 .. Len(next)
      /\ (s \o read) \in Seq(Elem)
      /\ (s \o read) \o SubSeq(next, r + 1, Len(next)) = (s \o left) \o p

LEMMA ReadAndDrop ==
  ASSUME NEW Elem, NEW s \in Seq(Elem), NEW c \in Seq(Elem), NEW p \in Seq(Elem), NEW t \in 0 .. Len(c),
         NEW r \in {0, 1}, r = 1 => t < Len(c)
  PROVE  ReadsAndDrops(Elem, s, c, p, t, r)
<1> DEFINE left == SubSeq(c, t + 1, Len(c))
           read == IF r = 1 THEN <<c[t + 1]>> ELSE << >>
           next == left \o p
<1>1. s \in Seq(Elem) /\ p \in Seq(Elem)
  OBVIOUS
<1>2. /\ left \in Seq(Elem) /\ Len(left) = Len(c) - t
      /\ \A i \in 1 .. Len(c) - t : left[i] = c[t + i]
  <2>1. Len(c) \in Nat /\ \A i \in t + 1 .. Len(c) : c[i] \in Elem
    BY ElementOfSeq
  <2>2. /\ left \in Seq(Elem)
        /\ Len(left) = IF t + 1 <= Len(c) THEN Len(c) - (t + 1) + 1 ELSE 0
        /\ \A i \in 1 .. Len(c) - (t + 1) + 1 : left[i] = c[t + 1 + i - 1]
    BY <2>1, SubSeqProperties
  <2>3. QED BY <2>1, <2>2
<1>3. read \in Seq(Elem) /\ Len(read) = r /\ (r = 1 => read[1] = c[t + 1])
  BY ElementOfSeq
<1>4. /\ next \in Seq(Elem) /\ Len(next) = Len(c) - t + Len(p)
      /\ \A i \in 1 .. Len(next) : next[i] = IF i <= Len(c) - t THEN left[i] ELSE p[i - (Len(c) - t)]
  <2>1. Len(c) \in Nat /\ Len(p) \in Nat
    OBVIOUS
  <2> HIDE DEF left
  <2>2. /\ next \in Seq(Elem) /\ Len(next) = Len(left) + Len(p)
        /\ \A i \in 1 .. Len(left) + Len(p) : next[i] = IF i <= Len(left) THEN left[i] ELSE p[i - Len(left)]
    BY <1>2, ConcatProperties, Zenon
  <2> HIDE DEF next
  <2>3. QED BY <1>2, <2>1, <2>2
<1>5. r \in 0 .. Len(next) /\ Len(next) \in Nat
  BY <1>4
<1> DEFINE rest == SubSeq(next, r + 1, Len(next))
<1>6. /\ rest \in Seq(Elem) /\ Len(rest) = Len(next) - r
      /\ \A i \in 1 .. Len(next) - r : rest[i] = next[r + i]
  <2> HIDE DEF next
  <2>1. \A i \in r + 1 .. Len(next) : next[i] \in Elem
    BY <1>4, <1>5, ElementOfSeq
  <2>2. /\ rest \in Seq(Elem)
        /\ Len(rest) = IF r + 1 <= Len(next) THEN Len(next) - (r + 1) + 1 ELSE 0
        /\ \A i \in 1 .. Len(next) - (r + 1) + 1 : rest[i] = next[r + 1 + i - 1]
    BY <1>5, <2>1, SubSeqProperties
  <2>3. QED BY <1>5, <2>2
<1> HIDE DEF left, read, next, rest
<1>7. read \o rest = next
  <2>1. read \o rest \in Seq(Elem) /\ Len(read \o rest) = Len(next)
    BY <1>3, <1>5, <1>6, ConcatProperties
  <2>2. ASSUME NEW i \in 1 .. Len(next) PROVE (read \o rest)[i] = next[i]
    <3>1. (read \o rest)[i] = IF i <= r THEN read[i] ELSE rest[i - r]
      BY <1>3, <1>5, <1>6, ConcatProperties
    <3>2. CASE i <= r
      <4>1. i = 1 /\ r = 1 /\ 1 <= Len(c) - t
        BY <3>2, <1>5
      <4>2. next[1] = left[1] /\ left[1] = c[t + 1]
        BY <4>1, <1>2, <1>4, <1>5
      <4>3. QED BY <3>1, <3>2, <4>1, <4>2, <1>3
    <3>3. CASE ~(i <= r)
      <4>1. i - r \in 1 .. Len(next) - r /\ r + (i - r) = i /\ ~(i <= r)
        BY <3>3, <1>5
      <4>2. QED BY <3>1, <4>1, <1>6
    <3>4. QED BY <3>2, <3>3
  <2>3. QED BY <2>1, <2>2, <1>4, SeqEqual
<1>8. (s \o read) \o rest = (s \o left) \o p
  <2>1. read \in Seq(Elem) /\ rest \in Seq(Elem) /\ left \in Seq(Elem) /\ read \o rest = left \o p
    BY <1>2, <1>3, <1>6, <1>7 DEF next
  <2>2. Joined(Joined(s, read), rest) = Joined(s, Joined(read, rest))
    BY <1>1, <2>1, JoinedAssociative
  <2>3. Joined(Joined(s, left), p) = Joined(s, Joined(left, p))
    BY <1>1, <2>1, JoinedAssociative
  <2>4. Joined(read, rest) = Joined(left, p)
    BY <2>1 DEF Joined
  <2>5. Joined(Joined(s, read), rest) = Joined(Joined(s, left), p)
    BY <2>2, <2>3, <2>4
  <2>6. QED BY <2>5 DEF Joined
<1>9. s \o read \in Seq(Elem)
  BY <1>3, ConcatProperties
<1>10. QED BY <1>2, <1>4, <1>5, <1>8, <1>9 DEF ReadsAndDrops, left, read, next, rest

\* What the endpoint does with what the detector says.
Room     == Len(committed) + Len(pending) + max_packet_size <= buffer_size
IsOut    == token.pid = "out" /\ token.endpoint = ISO
Writes   == IsOut /\ out.next /\ Room
Commits  == IsOut /\ out.complete
Discards == IsOut /\ out.invalid
Taken    == [byte |-> out.byte, last |-> out.last, first |-> out.first]

EndpointMoves ==
  /\ Kept \in Seq(Entry) /\ Kept' = IF Commits THEN Kept \o pending ELSE Kept
  /\ ~Commits => Len(committed') <= Len(committed)
  /\ pending' = IF Commits \/ Discards THEN << >> ELSE IF Writes THEN Append(pending, Taken) ELSE pending

OutIn(stream_ready) == [is_out |-> Targeted("out", ISO), rx |-> out, stream_ready |-> stream_ready]

LEMMA EndpointStep ==
  ASSUME SizeAssumption, DetectorTypes, FifoTypes, SenderTypes, Strobes, NEW ready \in BOOLEAN,
         O!Clock(OutIn(ready)), streamed' = streamed \o O!stream_taken(OutIn(ready))
  PROVE  FifoTypes' /\ EndpointMoves
<1> DEFINE i == OutIn(ready)
           r == IF ready /\ taken < Len(committed) THEN 1 ELSE 0
           added == IF Commits THEN pending ELSE << >>
<1>1. /\ streamed \in Seq(Entry) /\ committed \in Seq(Entry) /\ pending \in Seq(Entry)
      /\ taken \in 0 .. Len(committed) /\ Len(committed) + Len(pending) <= buffer_size
      /\ Len(committed) \in Nat /\ Len(pending) \in Nat /\ buffer_size \in Nat /\ max_packet_size \in Nat \ {0}
  BY DEF FifoTypes, SizeAssumption
<1>2. /\ O!write_en(i) <=> Writes
      /\ O!write_commit(i) <=> Commits
      /\ O!write_discard(i) <=> Discards
      /\ O!write_data(i) = Taken /\ i.stream_ready = ready
  <2>1. i.rx = out /\ i.stream_ready = ready /\ (i.is_out <=> IsOut)
    <3>1. token = [pid |-> token.pid, endpoint |-> token.endpoint]
      BY DEF SenderTypes
    <3>2. token = [pid |-> "out", endpoint |-> ISO] <=> IsOut
      BY <3>1 DEF IsOut
    <3>3. QED BY <3>2 DEF OutIn, Targeted
  <2>2. O!sufficient_space <=> Room
    BY <1>1 DEF O!sufficient_space, O!Fifo!Room, Room
  <2> HIDE DEF i
  <2>3. QED BY <2>1, <2>2 DEF O!write_en, O!write_commit, O!write_discard, O!write_data, O!okay_to_receive,
            Writes, Commits, Discards, Taken
<1>3. Taken \in Entry
  BY DEF Taken, Entry, DetectorTypes
<1>4. ~(Commits /\ Discards) /\ (Writes => ~Commits /\ ~Discards /\ O!Fifo!Room > 0)
  BY <1>1 DEF Strobes, Writes, Commits, Discards, Room, O!Fifo!Room
<1>5. r \in {0, 1} /\ (r = 1 => taken < Len(committed)) /\ added \in Seq(Entry)
      /\ Len(added) = IF Commits THEN Len(pending) ELSE 0
  BY <1>1
<1> DEFINE written == IF Writes THEN <<Taken>> ELSE << >>
<1>6. /\ committed' = SubSeq(committed, taken + 1, Len(committed)) \o added
      /\ taken' = r
      /\ pending' = IF Discards THEN << >> ELSE (IF Commits THEN << >> ELSE pending) \o written
      /\ streamed' = streamed \o (IF r = 1 THEN <<committed[taken + 1]>> ELSE << >>)
  <2>1. O!Fifo!Clock([en |-> O!write_en(i), commit |-> O!write_commit(i), discard |-> O!write_discard(i)],
                     O!write_data(i), [en |-> i.stream_ready, commit |-> TRUE, discard |-> FALSE])
    BY DEF O!Clock
  <2>2. O!stream_taken(i) = (IF r = 1 THEN <<committed[taken + 1]>> ELSE << >>)
    <3> HIDE DEF i
    <3>1. CASE taken < Len(committed) /\ ready
      BY <1>2, <3>1 DEF O!stream_taken
    <3>2. CASE ~(taken < Len(committed) /\ ready)
      BY <1>2, <3>2 DEF O!stream_taken
    <3>3. QED BY <3>1, <3>2
  <2> HIDE DEF i
  <2>3. committed' = SubSeq(committed, taken + 1, Len(committed)) \o added
    BY <1>2, <2>1 DEF O!Fifo!Clock, O!Fifo!Drop
  <2>4. taken' = taken + r - taken
    BY <1>2, <2>1 DEF O!Fifo!Clock
  <2>5. pending' = IF Discards THEN << >> ELSE (IF Commits THEN << >> ELSE pending) \o written
    BY <1>2, <1>4, <2>1 DEF O!Fifo!Clock
  <2>6. taken' = r
    BY <1>1, <1>5, <2>4
  <2>7. QED BY <2>2, <2>3, <2>5, <2>6 DEF i
<1> HIDE DEF i, r, added
<1>7. /\ SubSeq(committed, taken + 1, Len(committed)) \in Seq(Entry)
      /\ committed' \in Seq(Entry) /\ Len(committed') = Len(committed) - taken + Len(added)
      /\ taken' \in 0 .. Len(committed') /\ streamed' \in Seq(Entry)
      /\ streamed' \o SubSeq(committed', taken' + 1, Len(committed')) = (streamed \o SubSeq(committed, taken + 1, Len(committed))) \o added
  <2>1. ReadsAndDrops(Entry, streamed, committed, added, taken, r)
    BY <1>1, <1>5, ReadAndDrop
  <2>2. QED BY <1>6, <2>1 DEF ReadsAndDrops
<1>8. Kept = streamed \o SubSeq(committed, taken + 1, Len(committed)) /\ Kept' = streamed' \o SubSeq(committed', taken' + 1, Len(committed'))
  BY DEF Kept, O!Fifo!Drop
<1>9. Kept \in Seq(Entry) /\ Kept' = IF Commits THEN Kept \o pending ELSE Kept
  <2>1. Kept \in Seq(Entry)
    BY <1>1, <1>7, <1>8, ConcatProperties
  <2>2. Kept \o << >> = Kept
    BY <2>1, ConcatEmptySeq
  <2>3. QED BY <2>1, <2>2, <1>7, <1>8 DEF added
<1>10. pending' = IF Commits \/ Discards THEN << >> ELSE IF Writes THEN Append(pending, Taken) ELSE pending
  <2>1. CASE Commits /\ ~Discards
    <3>1. pending' = << >> \o << >>
      BY <1>4, <1>6, <2>1
    <3>2. << >> \o << >> = << >>
      OBVIOUS
    <3>3. QED BY <2>1, <3>1, <3>2
  <2>2. CASE Discards
    BY <1>6, <2>2
  <2>3. CASE ~Commits /\ ~Discards /\ Writes
    <3>1. pending' = pending \o <<Taken>>
      BY <1>6, <2>3
    <3>2. pending \o <<Taken>> = Append(pending, Taken)
      BY <1>1
    <3>3. QED BY <2>3, <3>1, <3>2
  <2>4. CASE ~Commits /\ ~Discards /\ ~Writes
    <3>1. pending' = pending \o << >>
      BY <1>6, <2>4
    <3>2. pending \o << >> = pending
      BY <1>1
    <3>3. QED BY <2>4, <3>1, <3>2
  <2>5. QED BY <2>1, <2>2, <2>3, <2>4
<1>11. pending' \in Seq(Entry) /\ Len(committed') + Len(pending') <= buffer_size
  <2>1. CASE Commits \/ Discards
    <3>1. pending' = << >> /\ Len(pending') = 0
      BY <2>1, <1>10
    <3>2. Len(added) <= Len(pending) /\ Len(added) \in Nat
      BY <1>1, <1>5
    <3>3. QED BY <3>1, <3>2, <1>1, <1>7
  <2>2. CASE ~Commits /\ ~Discards /\ Writes
    <3>1. pending' \in Seq(Entry) /\ Len(pending') = Len(pending) + 1
      BY <2>2, <1>1, <1>3, <1>10, AppendProperties
    <3>2. Len(pending) + 1 + Len(committed) <= buffer_size
      BY <2>2, <1>1 DEF Writes, Room
    <3>3. QED BY <2>2, <3>1, <3>2, <1>1, <1>5, <1>7
  <2>3. CASE ~Commits /\ ~Discards /\ ~Writes
    BY <2>3, <1>1, <1>5, <1>7, <1>10
  <2>4. QED BY <2>1, <2>2, <2>3
<1>12. ~Commits => Len(committed') <= Len(committed)
  BY <1>1, <1>5, <1>7
<1>13. QED BY <1>7, <1>9, <1>10, <1>11, <1>12 DEF FifoTypes, EndpointMoves

---------------------------------------------------------------------------
(* The OUT endpoint: one clock, without the records of the interfaces *)

Line == [active : BOOLEAN, valid : BOOLEAN, byte : Nat, kind : {"data", "other"}, toggle : {0, 1},
         crc_matches : BOOLEAN]

\* A byte reaches the detector two bytes late, so that the CRC never does.
ByteComes(valid) == rx_state = "RECEIVE_AND_EMIT" /\ valid

ReceiverMoves(active, valid, byte, kind, crc) ==
  /\ packet_complete' <=> rx_state = "RECEIVE_AND_EMIT" /\ ~active /\ crc
  /\ crc_mismatch' <=> rx_state = "RECEIVE_AND_EMIT" /\ ~active /\ ~crc
  /\ rx_state = "IDLE" => rx_state' = IF active THEN "READ_PID" ELSE "IDLE"
  /\ rx_state = "READ_PID" =>
       rx_state' = IF ~active THEN "IDLE" ELSE IF ~valid THEN "READ_PID"
                   ELSE IF kind = "data" THEN "RECEIVE_FIRST_BYTE" ELSE "IRRELEVANT"
  /\ rx_state = "RECEIVE_FIRST_BYTE" =>
       rx_state' = IF ~active THEN "IDLE" ELSE IF valid THEN "RECEIVE_SECOND_BYTE" ELSE "RECEIVE_FIRST_BYTE"
  /\ rx_state = "RECEIVE_SECOND_BYTE" =>
       rx_state' = IF valid THEN "RECEIVE_AND_EMIT" ELSE IF ~active THEN "IDLE" ELSE "RECEIVE_SECOND_BYTE"
  /\ rx_state = "RECEIVE_AND_EMIT" =>
       rx_state' = IF active THEN "RECEIVE_AND_EMIT" ELSE IF crc THEN "INTERPACKET_DELAY" ELSE "IDLE"
  /\ rx_state = "INTERPACKET_DELAY" => rx_state' \in {"INTERPACKET_DELAY", "IDLE"}
  /\ rx_state = "IRRELEVANT" => rx_state' = IF active THEN "IRRELEVANT" ELSE "IDLE"
  /\ data_pipeline' =
       IF valid /\ rx_state \in {"RECEIVE_FIRST_BYTE", "RECEIVE_SECOND_BYTE", "RECEIVE_AND_EMIT"}
       THEN <<data_pipeline[2], byte>> ELSE data_pipeline

DetectorMoves(valid) ==
  /\ bd_state = "WAIT_FOR_FIRST_BYTE" =>
       /\ ~out'.next /\ ~out'.complete /\ ~out'.invalid /\ ~out'.last
       /\ (buffered_complete' <=> buffered_complete) /\ (buffered_invalid' <=> buffered_invalid)
       /\ bd_state' = IF ByteComes(valid) THEN "RECEIVE_AND_TRANSMIT" ELSE "WAIT_FOR_FIRST_BYTE"
       /\ ByteComes(valid) => buffered_byte' = data_pipeline[1] /\ is_first_byte'
  /\ bd_state = "RECEIVE_AND_TRANSMIT" =>
       /\ buffered_complete' <=> buffered_complete \/ packet_complete
       /\ buffered_invalid' <=> buffered_invalid \/ crc_mismatch
       /\ ~out'.complete /\ ~out'.invalid
       /\ out'.next <=> ByteComes(valid) \/ rx_state # "RECEIVE_AND_EMIT"
       /\ out'.last <=> rx_state # "RECEIVE_AND_EMIT"
       /\ out'.next => out'.byte = buffered_byte /\ (out'.first <=> is_first_byte)
       /\ bd_state' = IF rx_state = "RECEIVE_AND_EMIT" THEN "RECEIVE_AND_TRANSMIT" ELSE "OUTPUT_STROBES"
       /\ ByteComes(valid) => buffered_byte' = data_pipeline[1] /\ ~is_first_byte'
       /\ ~ByteComes(valid) /\ rx_state = "RECEIVE_AND_EMIT" =>
            buffered_byte' = buffered_byte /\ (is_first_byte' <=> is_first_byte)
  /\ bd_state = "OUTPUT_STROBES" =>
       /\ ~out'.next /\ (out'.complete <=> buffered_complete) /\ (out'.invalid <=> buffered_invalid)
       /\ ~buffered_complete' /\ ~buffered_invalid' /\ ~out'.last
       /\ bd_state' = "WAIT_FOR_FIRST_BYTE"

LEMMA ReceiverStep ==
  ASSUME ReceiverTypes, NEW u \in Line, NEW tx_allowed, R!Clock(u, tx_allowed)
  PROVE  ReceiverTypes' /\ ReceiverMoves(u.active, u.valid, u.byte, u.kind, u.crc_matches)
<1> USE DEF ReceiverTypes, Line, ReceiverMoves
<1>1. CASE R!Idle(u)
  BY <1>1 DEF R!Idle, R!NoStrobe
<1>2. CASE R!ReadPid(u)
  BY <1>2 DEF R!ReadPid, R!NoStrobe
<1>3. CASE R!ReceiveFirstByte(u)
  BY <1>3 DEF R!ReceiveFirstByte, R!NoStrobe, R!Shift
<1>4. CASE R!ReceiveSecondByte(u)
  BY <1>4 DEF R!ReceiveSecondByte, R!NoStrobe, R!Shift
<1>5. CASE R!ReceiveAndEmit(u)
  BY <1>5 DEF R!ReceiveAndEmit, R!Shift
<1>6. CASE R!InterpacketDelay(tx_allowed)
  BY <1>6 DEF R!InterpacketDelay, R!NoStrobe
<1>7. CASE R!Irrelevant(u)
  BY <1>7 DEF R!Irrelevant, R!NoStrobe
<1>8. QED BY <1>1, <1>2, <1>3, <1>4, <1>5, <1>6, <1>7 DEF R!Clock

\* What the detector sees of the receiver.
DetectorIn(u) ==
  [valid |-> R!stream_valid, next |-> R!stream_next(u), payload |-> R!stream_payload,
   complete |-> packet_complete, invalid |-> crc_mismatch]

LEMMA DetectorStep ==
  ASSUME ReceiverTypes, DetectorTypes, NEW u \in Line, B!Clock(DetectorIn(u))
  PROVE  DetectorTypes' /\ DetectorMoves(u.valid)
<1> USE DEF DetectorTypes
<1> DEFINE in == DetectorIn(u)
           Outputs == [next : BOOLEAN, byte : Nat, first : BOOLEAN, last : BOOLEAN,
                       complete : BOOLEAN, invalid : BOOLEAN]
<1>1. /\ in.valid <=> rx_state = "RECEIVE_AND_EMIT"
      /\ B!ByteArrives(in) <=> ByteComes(u.valid)
      /\ in.payload = data_pipeline[1] /\ in.payload \in Nat
      /\ in.complete = packet_complete /\ in.invalid = crc_mismatch
      /\ in.next <=> ByteComes(u.valid)
  BY DEF DetectorIn, R!stream_valid, R!stream_next, R!stream_payload, B!ByteArrives, ByteComes, ReceiverTypes
<1>2. packet_complete \in BOOLEAN /\ crc_mismatch \in BOOLEAN /\ (ByteComes(u.valid) => rx_state = "RECEIVE_AND_EMIT")
  BY DEF ReceiverTypes, ByteComes
<1>3. /\ B!Silent \in Outputs
      /\ ~B!Silent.next /\ ~B!Silent.last /\ ~B!Silent.complete /\ ~B!Silent.invalid
  BY DEF B!Silent
<1> HIDE DEF in
<1> USE DEF DetectorMoves
<1>4. CASE B!WaitForFirstByte(in)
  BY <1>1, <1>2, <1>3, <1>4 DEF B!WaitForFirstByte
<1>5. CASE B!ReceiveAndTransmit(in)
  <2> DEFINE middle == [B!Silent EXCEPT !.next = TRUE, !.byte = buffered_byte, !.first = is_first_byte]
             final  == [B!Silent EXCEPT !.next = TRUE, !.byte = buffered_byte, !.first = is_first_byte,
                                        !.last = TRUE]
  <2>1. /\ middle \in Outputs
        /\ middle.next /\ ~middle.last /\ ~middle.complete /\ ~middle.invalid
        /\ middle.byte = buffered_byte /\ middle.first = is_first_byte
    BY <1>3
  <2>2. /\ final \in Outputs
        /\ final.next /\ final.last /\ ~final.complete /\ ~final.invalid
        /\ final.byte = buffered_byte /\ final.first = is_first_byte
    BY <1>3
  <2>3. /\ bd_state = "RECEIVE_AND_TRANSMIT"
        /\ buffered_complete' <=> buffered_complete \/ packet_complete
        /\ buffered_invalid' <=> buffered_invalid \/ crc_mismatch
        /\ buffered_complete' \in BOOLEAN /\ buffered_invalid' \in BOOLEAN
    BY <1>1, <1>5 DEF B!ReceiveAndTransmit
  <2>4. CASE B!ByteArrives(in)
    <3>1. /\ buffered_byte' = in.payload /\ is_first_byte' = FALSE /\ out' = middle
          /\ bd_state' = bd_state
      BY <1>1, <1>2, <1>5, <2>4 DEF B!ReceiveAndTransmit, B!ByteArrives
    <3> HIDE DEF middle
    <3>2. QED BY <1>1, <1>2, <2>1, <2>3, <2>4, <3>1
  <2>5. CASE ~in.valid
    <3>1. /\ buffered_byte' = buffered_byte /\ is_first_byte' = FALSE /\ out' = final
          /\ bd_state' = "OUTPUT_STROBES"
      BY <1>1, <1>2, <1>5, <2>5 DEF B!ReceiveAndTransmit, B!ByteArrives
    <3> HIDE DEF final
    <3>2. QED BY <1>1, <1>2, <2>2, <2>3, <2>5, <3>1
  <2>6. CASE in.valid /\ ~B!ByteArrives(in)
    <3>1. out' = B!Silent /\ UNCHANGED <<bd_state, buffered_byte, is_first_byte>>
      BY <1>1, <1>2, <1>5, <2>6 DEF B!ReceiveAndTransmit, B!ByteArrives
    <3>2. QED BY <1>1, <1>2, <1>3, <2>3, <2>6, <3>1
  <2>7. QED BY <2>4, <2>5, <2>6
<1>6. CASE B!OutputStrobes
  <2>1. /\ out' = [B!Silent EXCEPT !.complete = buffered_complete, !.invalid = buffered_invalid]
        /\ bd_state = "OUTPUT_STROBES"
        /\ buffered_complete' = FALSE /\ buffered_invalid' = FALSE
        /\ bd_state' = "WAIT_FOR_FIRST_BYTE" /\ UNCHANGED <<buffered_byte, is_first_byte>>
    BY <1>6 DEF B!OutputStrobes
  <2>2. QED BY <1>3, <2>1
<1>7. QED BY <1>4, <1>5, <1>6 DEF B!Clock, in

\* The OUT side of a clock of the device.
Moves(active, valid, byte, kind, crc) ==
  /\ ReceiverTypes' /\ DetectorTypes' /\ FifoTypes'
  /\ ReceiverMoves(active, valid, byte, kind, crc) /\ DetectorMoves(valid) /\ EndpointMoves
Rests == Moves(FALSE, FALSE, 0, "other", FALSE)

LEMMA ClockMoves ==
  ASSUME SizeAssumption, OutTypes, Strobes, NEW u \in Line, NEW s, Clock(u, s)
  PROVE  Moves(u.active, u.valid, u.byte, u.kind, u.crc_matches)
<1>1. ReceiverTypes /\ DetectorTypes /\ FifoTypes /\ SenderTypes
  BY DEF OutTypes
<1>2. PICK stream_ready \in BOOLEAN : \E signal : DeviceClock(u, s, signal, stream_ready)
  BY DEF Clock
<1>3. /\ R!Clock(u, T!tx_allowed) /\ B!Clock(DetectorIn(u))
      /\ O!Clock(OutIn(stream_ready)) /\ streamed' = streamed \o O!stream_taken(OutIn(stream_ready))
  BY <1>2 DEF DeviceClock, DetectorIn, OutIn
<1>4. ReceiverTypes' /\ ReceiverMoves(u.active, u.valid, u.byte, u.kind, u.crc_matches)
  BY <1>1, <1>3, ReceiverStep
<1>5. DetectorTypes' /\ DetectorMoves(u.valid)
  BY <1>1, <1>3, DetectorStep
<1>6. FifoTypes' /\ EndpointMoves
  BY <1>1, <1>3, EndpointStep
<1>7. QED BY <1>4, <1>5, <1>6 DEF Moves

LEMMA SilenceMoves ==
  ASSUME SizeAssumption, OutTypes, Strobes, NEW s, Clock(Silence, s)
  PROVE  Rests
<1>1. /\ Silence \in Line /\ Silence.active = FALSE /\ Silence.valid = FALSE /\ Silence.byte = 0
      /\ Silence.kind = "other" /\ Silence.crc_matches = FALSE
  BY DEF Silence, Line
<1>2. Moves(Silence.active, Silence.valid, Silence.byte, Silence.kind, Silence.crc_matches)
  BY <1>1, ClockMoves
<1>3. QED BY <1>1, <1>2 DEF Rests

---------------------------------------------------------------------------
(* The OUT endpoint: the steps *)

Still == {"quiet", "asked", "answer", "ack", "token"}

\* Nothing is sent to the device; the token changes when the device has settled only.
RestStep ==
  /\ wire \in Still /\ wire' \in Still /\ Rests
  /\ \/ wire = "quiet" /\ UNCHANGED <<wire, token>>
     \/ Settled /\ (wire' = "token" => token'.pid = "out")
  /\ token' \in [pid : {"none", "in", "out"}, endpoint : {0, ISO, STATUS}]
  /\ UNCHANGED <<bus, intact, packets>>
StartStep ==
  /\ wire = "token" /\ wire' = "pid" /\ token' = token
  /\ Moves(TRUE, FALSE, 0, "other", FALSE)
  /\ intact' \in BOOLEAN
  /\ \E length \in 0 .. max_packet_size :
       /\ token.endpoint = ISO => bus' = [k \in 1 .. length |-> Sent + k] \o <<0, 0>>
       /\ token.endpoint # ISO => bus' = <<0>> \o <<0, 0>>
       /\ packets' = IF token.endpoint # ISO THEN packets
                     ELSE Append(packets, [from |-> Sent + 1, length |-> length, whole |-> intact',
                                           roomy |-> O!Fifo!Room >= 2 * max_packet_size - 1])
PidStep ==
  /\ wire = "pid" /\ wire' = "data"
  /\ \E kind \in {"data", "other"} : (intact => kind = "data") /\ Moves(TRUE, TRUE, 0, kind, FALSE)
  /\ UNCHANGED <<token, bus, intact, packets>>
ByteStep ==
  /\ wire = "data" /\ bus # << >> /\ bus' = Tail(bus)
  /\ Moves(TRUE, TRUE, Head(bus), "other", FALSE)
  /\ UNCHANGED <<token, wire, intact, packets>>
GapStep ==
  /\ wire \in {"pid", "data"}
  /\ Moves(TRUE, FALSE, 0, "other", FALSE)
  /\ UNCHANGED <<token, wire, bus, intact, packets>>
FinishStep ==
  /\ wire \in {"pid", "data"} /\ wire' = "quiet"
  /\ intact => wire = "data" /\ bus = << >>
  /\ Moves(FALSE, FALSE, 0, "other", intact)
  /\ bus' = << >> /\ intact' = TRUE
  /\ UNCHANGED <<token, packets>>
Steps == RestStep \/ StartStep \/ PidStep \/ ByteStep \/ GapStep \/ FinishStep

\* Every action of the specification is one of these steps.
LEMMA NextSteps ==
  ASSUME SizeAssumption, OutTypes, Strobes, OnTheBus, Next
  PROVE  Steps
<1> USE DEF Steps
<1> DEFINE Tokens == [pid : {"none", "in", "out"}, endpoint : {0, ISO, STATUS}]
<1>1. /\ token \in Tokens /\ intact \in BOOLEAN
      /\ \A e \in {ISO, STATUS} : [pid |-> "in", endpoint |-> e] \in Tokens /\ [pid |-> "out", endpoint |-> e] \in Tokens
      /\ \A e : [pid |-> "out", endpoint |-> e].pid = "out"
  BY DEF OutTypes, SenderTypes
<1>2. wire \in {"asked", "answer", "ack", "token"} => Settled
  BY DEF OnTheBus
<1>3. wire = "token" => token.pid = "out"
  BY DEF OnTheBus
<1> HIDE DEF Tokens
<1>4. CASE QuietClock
  <2>1. Rests
    BY <1>4, SilenceMoves DEF QuietClock
  <2>2. QED BY <1>1, <1>2, <1>3, <1>4, <2>1 DEF QuietClock, RestStep, Still, outHostVars, Tokens
<1>5. ASSUME NEW heard \in BOOLEAN, Sof(heard) PROVE RestStep
  <2>1. Rests
    BY <1>5, SilenceMoves DEF Sof
  <2>2. QED BY <1>1, <1>5, <2>1 DEF Sof, RestStep, Still, outHostVars, Tokens
<1>6. ASSUME NEW endpoint \in {ISO, STATUS}, Ask(endpoint) PROVE RestStep
  <2>1. Rests
    BY <1>6, SilenceMoves DEF Ask
  <2>2. QED BY <1>1, <1>6, <2>1 DEF Ask, RestStep, Still, outHostVars, Tokens
<1>7. CASE Answer
  <2>1. Rests
    BY <1>7, SilenceMoves DEF Answer
  <2>2. QED BY <1>1, <1>2, <1>7, <2>1 DEF Answer, RestStep, Still, outHostVars, Tokens
<1>8. ASSUME NEW tx_ready \in BOOLEAN, Transmit(tx_ready) PROVE RestStep
  <2>1. Rests
    BY <1>8, SilenceMoves DEF Transmit
  <2>2. QED BY <1>1, <1>2, <1>8, <2>1 DEF Transmit, RestStep, Still, outHostVars, Tokens
<1>9. ASSUME NEW from, NEW next_wire \in {"quiet", "ack"}, EndOfPacket(from, next_wire) PROVE RestStep
  <2>1. Rests
    BY <1>9, SilenceMoves DEF EndOfPacket
  <2>2. QED BY <1>1, <1>2, <1>9, <2>1 DEF EndOfPacket, RestStep, Still, outHostVars, Tokens
<1>10. ASSUME NEW arrives \in BOOLEAN, Ack(arrives) PROVE RestStep
  <2>1. Rests
    BY <1>10, SilenceMoves DEF Ack
  <2>2. QED BY <1>1, <1>2, <1>10, <2>1 DEF Ack, RestStep, Still, outHostVars, Tokens
<1>f. CASE ForeignAck
  <2>1. Rests
    BY <1>f, SilenceMoves DEF ForeignAck
  <2>2. QED BY <1>1, <1>f, <2>1 DEF ForeignAck, RestStep, Still, outHostVars, Tokens
<1>11. ASSUME NEW endpoint \in {ISO, STATUS}, OutToken(endpoint) PROVE RestStep
  <2>1. Rests
    BY <1>11, SilenceMoves DEF OutToken
  <2>2. QED BY <1>1, <1>11, <2>1 DEF OutToken, RestStep, Still, outHostVars, Tokens
<1>12. ASSUME NEW unharmed \in BOOLEAN, PacketStarts(unharmed) PROVE StartStep
  <2> DEFINE u == [Silence EXCEPT !.active = TRUE]
  <2>1. /\ u \in Line /\ u.active = TRUE /\ u.valid = FALSE /\ u.byte = 0
        /\ u.kind = "other" /\ u.crc_matches = FALSE
    BY DEF Silence, Line
  <2>2. Clock(u, Nothing)
    BY <1>12 DEF PacketStarts
  <2> HIDE DEF u
  <2>3. Moves(TRUE, FALSE, 0, "other", FALSE)
    BY <2>1, <2>2, ClockMoves
  <2>4. PICK length \in 0 .. max_packet_size :
          /\ bus' = (IF token.endpoint = ISO THEN [k \in 1 .. length |-> Sent + k] ELSE <<0>>) \o <<0, 0>>
          /\ packets' = IF token.endpoint # ISO THEN packets
                        ELSE Append(packets, [from |-> Sent + 1, length |-> length, whole |-> unharmed,
                                              roomy |-> O!Fifo!Room >= 2 * max_packet_size - 1])
    BY <1>12 DEF PacketStarts
  <2>5. /\ wire = "token" /\ wire' = "pid" /\ token' = token /\ intact' = unharmed /\ intact' \in BOOLEAN
    BY <1>12 DEF PacketStarts
  <2>6. /\ token.endpoint = ISO => bus' = [k \in 1 .. length |-> Sent + k] \o <<0, 0>>
        /\ token.endpoint # ISO => bus' = <<0>> \o <<0, 0>>
    BY <2>4
  <2>7. QED BY <2>3, <2>4, <2>5, <2>6 DEF StartStep
<1>13. ASSUME NEW kind \in {"data", "other"}, PidByte(kind) PROVE PidStep
  <2> DEFINE u == [Silence EXCEPT !.active = TRUE, !.valid = TRUE, !.kind = kind]
  <2>1. /\ u \in Line /\ u.active = TRUE /\ u.valid = TRUE /\ u.byte = 0
        /\ u.kind = kind /\ u.crc_matches = FALSE
    BY DEF Silence, Line
  <2>2. Clock(u, Nothing)
    BY <1>13 DEF PidByte
  <2> HIDE DEF u
  <2>3. Moves(TRUE, TRUE, 0, kind, FALSE)
    BY <2>1, <2>2, ClockMoves
  <2>4. QED BY <1>13, <2>3 DEF PidByte, PidStep, outHostVars
<1>14. CASE DataByte
  <2> DEFINE u == [Silence EXCEPT !.active = TRUE, !.valid = TRUE, !.byte = Head(bus)]
  <2>1. Head(bus) \in Nat
    BY <1>14 DEF DataByte, OutTypes, SenderTypes
  <2>2. /\ u \in Line /\ u.active = TRUE /\ u.valid = TRUE /\ u.byte = Head(bus)
        /\ u.kind = "other" /\ u.crc_matches = FALSE
    BY <2>1 DEF Silence, Line
  <2>3. Clock(u, Nothing)
    BY <1>14 DEF DataByte
  <2> HIDE DEF u
  <2>4. Moves(TRUE, TRUE, Head(bus), "other", FALSE)
    BY <2>2, <2>3, ClockMoves
  <2>5. QED BY <1>14, <2>4 DEF DataByte, ByteStep
<1>15. CASE Gap
  <2> DEFINE u == [Silence EXCEPT !.active = TRUE]
  <2>1. /\ u \in Line /\ u.active = TRUE /\ u.valid = FALSE /\ u.byte = 0
        /\ u.kind = "other" /\ u.crc_matches = FALSE
    BY DEF Silence, Line
  <2>2. Clock(u, Nothing)
    BY <1>15 DEF Gap
  <2> HIDE DEF u
  <2>3. Moves(TRUE, FALSE, 0, "other", FALSE)
    BY <2>1, <2>2, ClockMoves
  <2>4. QED BY <1>15, <2>3 DEF Gap, GapStep, outHostVars
<1>16. CASE PacketEnds
  <2> DEFINE u == [Silence EXCEPT !.crc_matches = intact]
  <2>1. /\ u \in Line /\ u.active = FALSE /\ u.valid = FALSE /\ u.byte = 0
        /\ u.kind = "other" /\ u.crc_matches = intact
    BY <1>1 DEF Silence, Line
  <2>2. Clock(u, Nothing)
    BY <1>16 DEF PacketEnds
  <2> HIDE DEF u
  <2>3. Moves(FALSE, FALSE, 0, "other", intact)
    BY <2>1, <2>2, ClockMoves
  <2>4. QED BY <1>16, <2>3 DEF PacketEnds, FinishStep
<1>17. AskIso \/ AskStatus => RestStep
  BY <1>6 DEF AskIso, AskStatus
<1>18. IsoArrives \/ IsoMissed \/ StatusArrives \/ StatusMissed => RestStep
  BY <1>9 DEF IsoArrives, IsoMissed, IsoEnds, StatusArrives, StatusMissed
<1>19. QED BY <1>4, <1>5, <1>7, <1>8, <1>10, <1>f, <1>11, <1>12, <1>13, <1>14, <1>15, <1>16, <1>17, <1>18 DEF Next

---------------------------------------------------------------------------
(* The OUT endpoint: the control *)

LEMMA SentSoFar ==
  ASSUME SizeAssumption, SenderTypes
  PROVE  /\ Sent \in Nat /\ Len(packets) \in Nat
         /\ \A j \in 1 .. Len(packets) :
              /\ packets[j].from \in Nat \ {0} /\ packets[j].length \in 0 .. max_packet_size
              /\ packets[j].whole \in BOOLEAN /\ packets[j].roomy \in BOOLEAN
              /\ BytesOf(packets[j]) = packets[j].from .. packets[j].from + packets[j].length - 1
         /\ packets # << >> => Len(packets) >= 1 /\ Sent = Current.from + Current.length - 1
         /\ packets = << >> => Sent = 0
<1>1. packets \in Seq(SentPacket) /\ max_packet_size \in Nat
  BY DEF SenderTypes, SizeAssumption
<1>2. \A j \in 1 .. Len(packets) : packets[j] \in SentPacket
  BY <1>1, ElementOfSeq
<1>3. packets # << >> => Len(packets) >= 1 /\ Last(packets) = packets[Len(packets)]
  BY <1>1 DEF Last
<1>4. \A j \in 1 .. Len(packets) :
        /\ packets[j].from \in Nat \ {0} /\ packets[j].length \in 0 .. max_packet_size
        /\ packets[j].whole \in BOOLEAN /\ packets[j].roomy \in BOOLEAN
  BY <1>2 DEF SentPacket
<1>5. packets # << >> => Sent = Current.from + Current.length - 1 /\ Sent \in Nat
  BY <1>1, <1>3, <1>4 DEF Sent, Current
<1>6. QED BY <1>1, <1>3, <1>4, <1>5 DEF BytesOf, Sent

LEMMA TypesStep ==
  ASSUME SizeAssumption, OutTypes, Steps
  PROVE  OutTypes'
<1> USE DEF OutTypes
<1>1. ReceiverTypes' /\ DetectorTypes' /\ FifoTypes'
  BY DEF Steps, RestStep, StartStep, PidStep, ByteStep, GapStep, FinishStep, Rests, Moves
<1>2. SenderTypes'
  <2>1. CASE StartStep
    <3>1. PICK length \in 0 .. max_packet_size :
            /\ token.endpoint = ISO => bus' = [k \in 1 .. length |-> Sent + k] \o <<0, 0>>
            /\ token.endpoint # ISO => bus' = <<0>> \o <<0, 0>>
            /\ packets' = IF token.endpoint # ISO THEN packets
                          ELSE Append(packets, [from |-> Sent + 1, length |-> length, whole |-> intact',
                                                roomy |-> O!Fifo!Room >= 2 * max_packet_size - 1])
      BY <2>1 DEF StartStep
    <3>2. Sent \in Nat /\ length \in Nat
      BY SentSoFar DEF SizeAssumption
    <3>3. bus' \in Seq(Nat)
      <4> DEFINE data == [k \in 1 .. length |-> Sent + k]
      <4>1. data \in Seq(Nat) /\ <<0>> \in Seq(Nat) /\ <<0, 0>> \in Seq(Nat)
        BY <3>2
      <4>2. bus' = data \o <<0, 0>> \/ bus' = <<0>> \o <<0, 0>>
        BY <3>1
      <4> HIDE DEF data
      <4>3. data \o <<0, 0>> \in Seq(Nat) /\ <<0>> \o <<0, 0>> \in Seq(Nat)
        BY <4>1, ConcatProperties
      <4>4. QED BY <4>2, <4>3
    <3>4. packets' \in Seq(SentPacket)
      <4> DEFINE p == [from |-> Sent + 1, length |-> length, whole |-> intact',
                       roomy |-> O!Fifo!Room >= 2 * max_packet_size - 1]
      <4>1. intact' \in BOOLEAN
        BY <2>1 DEF StartStep
      <4>2. p \in SentPacket
        BY <3>2, <4>1 DEF SentPacket
      <4> HIDE DEF p
      <4>3. packets \in Seq(SentPacket) /\ Append(packets, p) \in Seq(SentPacket)
        BY <4>2 DEF SenderTypes
      <4>4. packets' = packets \/ packets' = Append(packets, p)
        BY <3>1 DEF p
      <4>5. QED BY <4>3, <4>4
    <3>5. QED BY <2>1, <3>3, <3>4 DEF StartStep, SenderTypes
  <2>2. CASE ByteStep
    BY <2>2 DEF ByteStep, SenderTypes
  <2>3. CASE FinishStep
    BY <2>3 DEF FinishStep, SenderTypes
  <2>4. CASE RestStep \/ PidStep \/ GapStep
    <3>1. UNCHANGED <<bus, intact, packets>> /\ wire' \in {"quiet", "asked", "answer", "ack", "token", "pid", "data"}
      BY <2>4 DEF RestStep, Still, PidStep, GapStep
    <3>2. token' \in [pid : {"none", "in", "out"}, endpoint : {0, ISO, STATUS}]
      BY <2>4 DEF RestStep, PidStep, GapStep, SenderTypes
    <3>3. QED BY <3>1, <3>2 DEF SenderTypes
  <2>5. QED BY <2>1, <2>2, <2>3, <2>4 DEF Steps
<1>3. QED BY <1>1, <1>2

\* A clock never starts a packet that the device is not ready for.
LEMMA StepMoves ==
  ASSUME OutTypes, OnTheBus, Steps
  PROVE  \E active, valid, crc \in BOOLEAN, kind \in {"data", "other"}, byte \in Nat :
           /\ Moves(active, valid, byte, kind, crc)
           /\ (valid => active) /\ (rx_state = "IDLE" /\ active => Settled)
<1> USE DEF OnTheBus
<1>1. CASE RestStep
  BY <1>1 DEF RestStep, Rests
<1>2. CASE StartStep
  BY <1>2 DEF StartStep
<1>3. CASE PidStep
  BY <1>3 DEF PidStep
<1>4. CASE ByteStep
  <2>1. Head(bus) \in Nat
    BY <1>4 DEF ByteStep, OutTypes, SenderTypes
  <2>2. rx_state # "IDLE"
    BY <1>4 DEF ByteStep
  <2>3. QED BY <1>4, <2>1, <2>2 DEF ByteStep
<1>5. CASE GapStep
  BY <1>5 DEF GapStep
<1>6. CASE FinishStep
  <2>1. intact \in BOOLEAN
    BY DEF OutTypes, SenderTypes
  <2>2. QED BY <1>6, <2>1 DEF FinishStep
<1>7. QED BY <1>1, <1>2, <1>3, <1>4, <1>5, <1>6 DEF Steps

LEMMA StagesStep ==
  ASSUME ReceiverTypes, DetectorTypes, Strobes, Stages,
         NEW active \in BOOLEAN, NEW valid \in BOOLEAN, NEW crc \in BOOLEAN, NEW byte, NEW kind,
         Moves(active, valid, byte, kind, crc),
         valid => active, rx_state = "IDLE" /\ active => Settled
  PROVE  Strobes' /\ Stages'
<1>1. ReceiverMoves(active, valid, byte, kind, crc) /\ DetectorMoves(valid)
  BY DEF Moves
<1> USE DEF ByteComes, DetectorTypes, ReceiverTypes, Ends, Holds
<1>2. CASE bd_state = "WAIT_FOR_FIRST_BYTE"
  <2>1. Strobes'
    BY <1>1, <1>2 DEF Strobes, ReceiverMoves, DetectorMoves
  <2>2. Stages'
    BY <1>1, <1>2 DEF Stages, Strobes, ReceiverMoves, DetectorMoves, Settled
  <2>3. QED BY <2>1, <2>2
<1>3. CASE bd_state = "RECEIVE_AND_TRANSMIT"
  <2>1. Strobes'
    BY <1>1, <1>3 DEF Strobes, Stages, ReceiverMoves, DetectorMoves
  <2>2. Stages'
    BY <1>1, <1>3 DEF Stages, Strobes, ReceiverMoves, DetectorMoves, Settled
  <2>3. QED BY <2>1, <2>2
<1>4. CASE bd_state = "OUTPUT_STROBES"
  <2>1. Strobes'
    BY <1>1, <1>4 DEF Strobes, Stages, ReceiverMoves, DetectorMoves
  <2>2. Stages'
    BY <1>1, <1>4 DEF Stages, Strobes, ReceiverMoves, DetectorMoves, Settled
  <2>3. QED BY <2>1, <2>2
<1>5. QED BY <1>2, <1>3, <1>4

LEMMA BusStep ==
  ASSUME OutTypes, Strobes, Stages, OnTheBus, Steps, Strobes', Stages'
  PROVE  OnTheBus'
<1> USE DEF OutTypes, ReceiverTypes, SenderTypes, OnTheBus, Moves, Settled, Ends, Holds, Stages, Strobes,
            ReceiverMoves, DetectorMoves, ByteComes, DetectorTypes
<1>1. CASE RestStep
  BY <1>1 DEF RestStep, Rests, Still
<1>2. CASE StartStep
  BY <1>2 DEF StartStep
<1>3. CASE PidStep
  BY <1>3 DEF PidStep
<1>4. CASE ByteStep
  BY <1>4 DEF ByteStep
<1>5. CASE GapStep
  BY <1>5 DEF GapStep
<1>6. CASE FinishStep
  BY <1>6 DEF FinishStep
<1>7. QED BY <1>1, <1>2, <1>3, <1>4, <1>5, <1>6 DEF Steps

LEMMA OutControlStep ==
  ASSUME SizeAssumption, OutControl, Steps
  PROVE  OutControl'
<1>1. OutTypes'
  BY TypesStep DEF OutControl
<1>2. PICK active \in BOOLEAN, valid \in BOOLEAN, crc \in BOOLEAN, kind \in {"data", "other"}, byte \in Nat :
        /\ Moves(active, valid, byte, kind, crc)
        /\ (valid => active) /\ (rx_state = "IDLE" /\ active => Settled)
  BY StepMoves DEF OutControl
<1>3. Strobes' /\ Stages'
  BY <1>2, StagesStep DEF OutControl, OutTypes
<1>4. QED BY <1>1, <1>3, BusStep DEF OutControl

---------------------------------------------------------------------------
(* The OUT endpoint: the packet on its way *)

\* What a step that does not begin a packet is for the detector and the endpoint.
Sees(valid) ==
  /\ DetectorMoves(valid) /\ EndpointMoves
  /\ ByteComes(valid) => ByteStep
  /\ packet_complete' => FinishStep /\ intact /\ rx_state = "RECEIVE_AND_EMIT"
  /\ crc_mismatch' => FinishStep /\ ~intact /\ rx_state = "RECEIVE_AND_EMIT"

LEMMA StepSees ==
  ASSUME OutControl, Steps
  PROVE  \E valid \in BOOLEAN : Sees(valid)
<1> USE DEF OutControl, OnTheBus, Moves, ReceiverMoves, Sees
<1>1. CASE RestStep
  <2>1. rx_state \notin {"READ_PID", "RECEIVE_FIRST_BYTE", "RECEIVE_SECOND_BYTE", "RECEIVE_AND_EMIT", "IRRELEVANT"}
    BY <1>1 DEF RestStep, Still
  <2>2. Sees(FALSE)
    BY <1>1, <2>1 DEF RestStep, Rests, ByteComes
  <2>3. QED BY <2>2
<1>2. CASE StartStep
  <2>1. Sees(FALSE)
    BY <1>2 DEF StartStep, ByteComes, Settled
  <2>2. QED BY <2>1
<1>3. CASE PidStep
  <2>1. Sees(TRUE)
    BY <1>3 DEF PidStep, ByteComes
  <2>2. QED BY <2>1
<1>4. CASE ByteStep
  <2>1. Sees(TRUE)
    BY <1>4 DEF ByteStep
  <2>2. QED BY <2>1
<1>5. CASE GapStep
  <2>1. Sees(FALSE)
    BY <1>5 DEF GapStep, ByteComes
  <2>2. QED BY <2>1
<1>6. CASE FinishStep
  <2>1. Sees(FALSE)
    BY <1>6 DEF FinishStep, ByteComes
  <2>2. QED BY <2>1
<1>7. QED BY <1>1, <1>2, <1>3, <1>4, <1>5, <1>6 DEF Steps

\* A packet that is on its way after a step was so before it, or it begins.
LEMMA ArrivingStep ==
  ASSUME OutControl, OutControl', Steps
  PROVE  /\ StartStep => ~Arriving /\ ~Ends /\ ~Holds /\ ~Ends' /\ ~Holds'
         /\ Arriving' /\ ~StartStep => Arriving /\ UNCHANGED <<token, packets>> /\ ~Commits /\ ~Discards
         /\ Arriving /\ Holds' => Arriving' /\ UNCHANGED <<token, packets>>
         /\ Arriving /\ ~Arriving' => UNCHANGED <<token, packets>>
         /\ Arriving => token.pid = "out" /\ IsOut
         /\ ~StartStep => packets' = packets
<1> PICK valid \in BOOLEAN : Sees(valid)
  BY StepSees
<1>1. DetectorMoves(valid) /\ (ByteComes(valid) => ByteStep) /\ (Ends' => FinishStep)
  BY DEF Sees, Ends
<1> USE DEF OutControl, OnTheBus, Arriving, Holds, Ends
<1>2. bd_state \in {"WAIT_FOR_FIRST_BYTE", "RECEIVE_AND_TRANSMIT", "OUTPUT_STROBES"}
  BY DEF OutTypes, DetectorTypes
<1>3. Settled /\ RestStep => ~Ends /\ ~Holds /\ ~Ends' /\ ~Holds'
  BY <1>1 DEF Settled, RestStep, FinishStep, Still, DetectorMoves, ByteStep
<1>4. StartStep => ~Arriving /\ ~Ends /\ ~Holds /\ ~Ends' /\ ~Holds'
  BY DEF StartStep, Settled, Stages
<1>5. Commits \/ Discards => Holds /\ bd_state = "WAIT_FOR_FIRST_BYTE" /\ wire \notin {"pid", "data"}
  BY <1>2 DEF Commits, Discards, Strobes, Stages
<1>6. Commits \/ Discards => ~Holds' /\ ~Ends' /\ wire' \notin {"pid", "data"}
  <2>1. SUFFICES ASSUME Commits \/ Discards PROVE ~Holds' /\ ~Ends' /\ wire' \notin {"pid", "data"}
    OBVIOUS
  <2>2. ~ByteStep /\ ~FinishStep /\ ~PidStep /\ ~GapStep /\ ~StartStep
    BY <1>4, <1>5, <2>1 DEF ByteStep, FinishStep, PidStep, GapStep
  <2>3. QED BY <1>1, <1>5, <2>1, <2>2 DEF DetectorMoves, Steps, RestStep, Still
<1>7. Arriving => token.pid = "out" /\ IsOut
  BY DEF IsOut
<1>8. RestStep /\ ~Settled => wire = "quiet" /\ wire' = "quiet" /\ token' = token
  BY DEF RestStep
<1>9. RestStep /\ (Ends' \/ Holds') => ~Settled /\ (Ends \/ Holds)
  BY <1>1, <1>2, <1>3 DEF RestStep, FinishStep, Still, DetectorMoves, ByteStep
<1>10. ~RestStep /\ ~StartStep => wire \in {"pid", "data"} /\ UNCHANGED <<token, packets>>
  BY DEF Steps, PidStep, ByteStep, GapStep, FinishStep
<1>11. RestStep => packets' = packets /\ wire' \notin {"pid", "data"} /\ wire \notin {"pid", "data"}
  BY DEF RestStep, Still
<1>12. Settled => ~Ends /\ ~Holds
  BY DEF Settled
<1>13. Arriving' /\ ~StartStep => Arriving /\ UNCHANGED <<token, packets>> /\ ~Commits /\ ~Discards
  <2>1. SUFFICES ASSUME Arriving', ~StartStep
                 PROVE Arriving /\ UNCHANGED <<token, packets>> /\ ~Commits /\ ~Discards
    OBVIOUS
  <2>2. ~Commits /\ ~Discards
    BY <1>6, <2>1
  <2>3. CASE RestStep
    BY <1>8, <1>9, <1>11, <2>1, <2>2, <2>3
  <2>4. CASE ~RestStep
    BY <1>10, <2>1, <2>2, <2>4
  <2>5. QED BY <2>3, <2>4
<1>14. Arriving /\ ~StartStep => UNCHANGED <<token, packets>>
  BY <1>8, <1>10, <1>11, <1>12
<1>15. Arriving => ~StartStep
  BY <1>4
<1>16. QED BY <1>4, <1>7, <1>10, <1>11, <1>13, <1>14, <1>15

LEMMA JudgedStep ==
  ASSUME SizeAssumption, OutControl, OutControl', Judged, Steps
  PROVE  Judged'
<1> SUFFICES ASSUME Arriving'
             PROVE  /\ packets' # << >>
                    /\ wire' \in {"pid", "data"} => Current'.whole = intact'
                    /\ packet_complete' \/ buffered_complete' \/ out'.complete => Current'.whole
                    /\ crc_mismatch' \/ buffered_invalid' \/ out'.invalid => ~Current'.whole
  BY DEF Judged
<1> USE DEF OutControl
<1>1. CASE StartStep
  <2>1. ~Ends' /\ ~Holds' /\ ~buffered_complete' /\ ~buffered_invalid'
    BY <1>1, ArrivingStep DEF Strobes, Holds
  <2>2. token.endpoint = ISO
    BY <1>1 DEF StartStep, Arriving
  <2>3. PICK p : packets' = Append(packets, p) /\ p.whole = intact'
    BY <1>1, <2>2 DEF StartStep
  <2>4. packets \in Seq(SentPacket)
    BY DEF OutTypes, SenderTypes
  <2>5. packets' # << >> /\ Current' = p
    BY <2>3, <2>4 DEF Current
  <2>6. QED BY <2>1, <2>3, <2>5 DEF Ends, Holds
<1>2. CASE ~StartStep
  <2>1. Arriving /\ UNCHANGED <<token, packets>> /\ Current' = Current
    BY <1>2, ArrivingStep DEF Current
  <2>2. PICK valid \in BOOLEAN : Sees(valid)
    BY StepSees
  <2>3. intact /\ FinishStep => wire = "data"
    BY DEF FinishStep
  <2>4. FinishStep => wire \in {"pid", "data"}
    BY DEF FinishStep
  <2>5. wire' \in {"pid", "data"} => wire \in {"pid", "data"} /\ intact' = intact
    BY <1>2 DEF Steps, RestStep, PidStep, ByteStep, GapStep, FinishStep, Still
  <2>6. bd_state \in {"WAIT_FOR_FIRST_BYTE", "RECEIVE_AND_TRANSMIT", "OUTPUT_STROBES"}
    BY DEF OutTypes, DetectorTypes
  <2>7. packet_complete' \/ buffered_complete' \/ out'.complete => Current.whole
    BY <2>1, <2>2, <2>4, <2>6 DEF Sees, Judged, DetectorMoves
  <2>8. crc_mismatch' \/ buffered_invalid' \/ out'.invalid => ~Current.whole
    BY <2>1, <2>2, <2>4, <2>6 DEF Sees, Judged, DetectorMoves
  <2>9. QED BY <2>1, <2>5, <2>7, <2>8 DEF Judged
<1>3. QED BY <1>1, <1>2

LEMMA CurrentTypes ==
  ASSUME SizeAssumption, OutControl, Judged, Arriving
  PROVE  /\ Current.from \in Nat \ {0} /\ Current.length \in 0 .. max_packet_size /\ max_packet_size \in Nat \ {0}
         /\ Current.roomy \in BOOLEAN
         /\ BytesOf(Current) = Current.from .. Current.from + Current.length - 1
         /\ packets # << >> /\ Len(packets) \in Nat /\ Len(packets) >= 1
<1>1. SenderTypes /\ packets # << >>
  BY DEF OutControl, OutTypes, Judged
<1>2. Len(packets) \in 1 .. Len(packets)
  BY <1>1, SentSoFar
<1>3. QED BY <1>1, <1>2, SentSoFar DEF Current, SizeAssumption

LEMMA PacketBegins ==
  ASSUME SizeAssumption, OutControl, OutControl', StartStep, Arriving'
  PROVE  Position'
<1> USE DEF OutControl
<1>1. token.endpoint = ISO /\ wire' = "pid"
  BY DEF StartStep, Arriving
<1>2. PICK length \in 0 .. max_packet_size :
        /\ bus' = [k \in 1 .. length |-> Sent + k] \o <<0, 0>>
        /\ \E p : packets' = Append(packets, p) /\ p.from = Sent + 1 /\ p.length = length
  BY <1>1 DEF StartStep
<1>3. PICK p : packets' = Append(packets, p) /\ p.from = Sent + 1 /\ p.length = length
  BY <1>2
<1>4. Sent \in Nat /\ length \in Nat /\ packets \in Seq(SentPacket)
  BY SentSoFar DEF SizeAssumption, OutTypes, SenderTypes
<1>5. Current' = p
  BY <1>3, <1>4 DEF Current
<1> DEFINE data == [k \in 1 .. length |-> Sent + k]
           tail == <<0, 0>>
<1>6. data \in Seq(Nat) /\ Len(data) = length /\ \A k \in 1 .. length : data[k] = Sent + k
  BY <1>4
<1>7. tail \in Seq(Nat) /\ Len(tail) = 2 /\ tail[1] = 0 /\ tail[2] = 0
  OBVIOUS
<1>8. bus' = data \o tail
  BY <1>2
<1> HIDE DEF data, tail
<1>9. /\ Len(bus') = length + 2
      /\ \A k \in 1 .. length + 2 : bus'[k] = IF k <= length THEN data[k] ELSE tail[k - length]
  <2>1. /\ Len(data \o tail) = Len(data) + Len(tail)
        /\ \A k \in 1 .. Len(data) + Len(tail) :
             (data \o tail)[k] = IF k <= Len(data) THEN data[k] ELSE tail[k - Len(data)]
    BY <1>6, <1>7, ConcatProperties, Zenon
  <2>2. QED BY <1>6, <1>7, <1>8, <2>1
<1>10. \A k \in 1 .. length + 2 : bus'[k] = IF k <= length THEN Sent + k ELSE 0
  <2>1. SUFFICES ASSUME NEW k \in 1 .. length + 2 PROVE bus'[k] = IF k <= length THEN Sent + k ELSE 0
    OBVIOUS
  <2>2. CASE k <= length
    BY <1>4, <1>6, <1>9, <2>2
  <2>3. CASE ~(k <= length)
    <3>1. k - length = 1 \/ k - length = 2
      BY <1>4, <2>3
    <3>2. QED BY <1>7, <1>9, <2>3, <3>1
  <2>4. QED BY <2>2, <2>3
<1>11. Current'.from - 1 = Sent /\ Current'.length = length
  BY <1>2, <1>3, <1>4, <1>5
<1>12. QED BY <1>1, <1>9, <1>10, <1>11, <1>4 DEF Position, PacketByte

LEMMA ByteInPosition ==
  ASSUME SizeAssumption, OutControl, OutControl', Judged, Position, ByteStep, Arriving
  PROVE  Position'
<1> DEFINE f == Current.from
           n == Current.length
<1>1. /\ wire = "data" /\ bus # << >> /\ wire' = "data" /\ bus' = Tail(bus) /\ Current' = Current
      /\ ReceiverMoves(TRUE, TRUE, Head(bus), "other", FALSE) /\ DetectorMoves(TRUE)
  BY DEF ByteStep, Moves, Current
<1>2. f \in Nat /\ n \in Nat /\ bus \in Seq(Nat) /\ Len(bus) \in Nat /\ data_pipeline \in Nat \X Nat
  BY CurrentTypes DEF OutControl, OutTypes, SenderTypes, ReceiverTypes
<1>3. /\ Len(bus) >= 1 /\ Len(bus') = Len(bus) - 1 /\ Head(bus) = bus[1]
      /\ \A k \in 1 .. Len(bus) - 1 : bus'[k] = bus[k + 1]
  BY <1>1, <1>2, HeadTailProperties
<1>4. CASE rx_state = "IRRELEVANT"
  <2>1. rx_state' = "IRRELEVANT"
    BY <1>1, <1>4 DEF ReceiverMoves
  <2>2. QED BY <1>1, <2>1 DEF Position
<1>5. CASE rx_state # "IRRELEVANT"
  <2> DEFINE come == n + 2 - Len(bus)
  <2>1. /\ Len(bus) <= n + 2 /\ \A k \in 1 .. Len(bus) : bus[k] = PacketByte(come + k)
        /\ rx_state = "RECEIVE_FIRST_BYTE" => come = 0
        /\ rx_state = "RECEIVE_SECOND_BYTE" => come = 1 /\ data_pipeline[2] = PacketByte(1)
        /\ rx_state = "RECEIVE_AND_EMIT" =>
             /\ come >= 2 /\ data_pipeline = <<PacketByte(come - 1), PacketByte(come)>>
             /\ bd_state = "WAIT_FOR_FIRST_BYTE" => come = 2
             /\ bd_state = "RECEIVE_AND_TRANSMIT" => come > 2 /\ buffered_byte = f + come - 3
    BY <1>1, <1>5 DEF Position
  <2>2. come \in Nat /\ come + 1 <= n + 2 /\ n + 2 - Len(bus') = come + 1 /\ Len(bus') <= n + 2 /\ Len(bus') \in Nat
    <3>1. Len(bus) <= n + 2
      BY <2>1
    <3> HIDE DEF f, n
    <3>2. QED BY <1>2, <1>3, <3>1
  <2>3. Head(bus) = PacketByte(come + 1)
    BY <1>2, <1>3, <2>1
  <2>4. \A k \in 1 .. Len(bus') : bus'[k] = PacketByte((come + 1) + k)
    <3>1. SUFFICES ASSUME NEW k \in 1 .. Len(bus') PROVE bus'[k] = PacketByte((come + 1) + k)
      OBVIOUS
    <3>2. k + 1 \in 1 .. Len(bus) /\ come + (k + 1) = (come + 1) + k /\ k \in 1 .. Len(bus) - 1
      BY <1>2, <1>3, <2>2
    <3>3. QED BY <1>3, <2>1, <3>2
  <2>5. ASSUME NEW k PROVE PacketByte(k)' = PacketByte(k)
    BY <1>1 DEF PacketByte
  <2>6. f = Current'.from /\ n = Current'.length
    BY <1>1
  <2>7. \A k : PacketByte(k) = IF k <= n THEN f - 1 + k ELSE 0
    BY DEF PacketByte
  <2> HIDE DEF come, f, n
  <2>8. SUFFICES LET more == n + 2 - Len(bus')
                 IN  /\ Len(bus') <= n + 2
                     /\ \A k \in 1 .. Len(bus') : bus'[k] = PacketByte(more + k)
                     /\ rx_state' = "RECEIVE_FIRST_BYTE" => more = 0
                     /\ rx_state' = "RECEIVE_SECOND_BYTE" => more = 1 /\ data_pipeline'[2] = PacketByte(1)
                     /\ rx_state' = "RECEIVE_AND_EMIT" =>
                          /\ more >= 2 /\ data_pipeline' = <<PacketByte(more - 1), PacketByte(more)>>
                          /\ bd_state' = "WAIT_FOR_FIRST_BYTE" => more = 2
                          /\ bd_state' = "RECEIVE_AND_TRANSMIT" => more > 2 /\ buffered_byte' = f + more - 3
    BY <1>1, <2>5, <2>6 DEF Position
  <2>9. CASE rx_state = "RECEIVE_FIRST_BYTE"
    <3>1. /\ rx_state' = "RECEIVE_SECOND_BYTE" /\ data_pipeline' = <<data_pipeline[2], Head(bus)>> /\ come = 0
      BY <1>1, <2>1, <2>9 DEF ReceiverMoves
    <3>2. QED BY <2>2, <2>3, <2>4, <3>1
  <2>10. CASE rx_state = "RECEIVE_SECOND_BYTE"
    <3>1. /\ rx_state' = "RECEIVE_AND_EMIT" /\ data_pipeline' = <<data_pipeline[2], Head(bus)>>
          /\ come = 1 /\ bd_state' = "WAIT_FOR_FIRST_BYTE"
      BY <1>1, <2>1, <2>10 DEF ReceiverMoves, DetectorMoves, ByteComes, OutControl, Stages, Holds
    <3>2. data_pipeline' = <<PacketByte(1), PacketByte(2)>>
      BY <2>1, <2>3, <2>10, <3>1
    <3>3. QED BY <2>2, <2>4, <3>1, <3>2
  <2>11. CASE rx_state = "RECEIVE_AND_EMIT"
    <3>1. /\ rx_state' = "RECEIVE_AND_EMIT" /\ data_pipeline' = <<data_pipeline[2], Head(bus)>>
          /\ come >= 2 /\ bd_state' = "RECEIVE_AND_TRANSMIT" /\ buffered_byte' = data_pipeline[1]
      BY <1>1, <2>1, <2>11 DEF ReceiverMoves, DetectorMoves, ByteComes, OutControl, OutTypes, DetectorTypes, Stages
    <3>2. data_pipeline' = <<PacketByte(come), PacketByte(come + 1)>>
      BY <2>1, <2>3, <2>11, <3>1
    <3>3. buffered_byte' = f + (come + 1) - 3
      <4>1. buffered_byte' = PacketByte(come - 1)
        BY <2>1, <2>11, <3>1
      <4>2. QED BY <1>2, <2>2, <2>7, <3>1, <4>1
    <3>4. come + 1 > 2 /\ (come + 1) - 1 = come
      BY <2>2, <3>1
    <3>5. /\ come + 1 >= 2 /\ rx_state' # "RECEIVE_FIRST_BYTE" /\ rx_state' # "RECEIVE_SECOND_BYTE"
          /\ bd_state' # "WAIT_FOR_FIRST_BYTE"
          /\ data_pipeline' = <<PacketByte((come + 1) - 1), PacketByte(come + 1)>>
      <4>1. PacketByte((come + 1) - 1) = PacketByte(come)
        BY <2>2, <2>7
      <4>2. QED BY <2>2, <3>1, <3>2, <4>1
    <3>6. QED BY <2>2, <2>4, <3>3, <3>4, <3>5
  <2>12. rx_state \in {"RECEIVE_FIRST_BYTE", "RECEIVE_SECOND_BYTE", "RECEIVE_AND_EMIT"}
    BY <1>1, <1>5 DEF OutControl, OnTheBus
  <2>13. QED BY <2>9, <2>10, <2>11, <2>12
<1>6. QED BY <1>4, <1>5

LEMMA PositionStep ==
  ASSUME SizeAssumption, OutControl, OutControl', Judged, Position, Steps
  PROVE  Position'
<1> SUFFICES ASSUME Arriving' PROVE Position'
  BY DEF Position
<1>1. CASE StartStep
  BY <1>1, PacketBegins
<1>2. CASE ByteStep
  <2>1. Arriving
    BY <1>2, ArrivingStep DEF ByteStep, StartStep
  <2>2. QED BY <1>2, <2>1, ByteInPosition
<1>3. CASE RestStep \/ FinishStep
  <2>1. wire' \notin {"pid", "data"}
    BY <1>3 DEF RestStep, FinishStep, Still
  <2>2. QED BY <2>1 DEF Position
<1>4. CASE PidStep
  <2>1. Arriving /\ Current' = Current /\ wire = "pid" /\ wire' = "data" /\ bus' = bus
    BY <1>4, ArrivingStep DEF PidStep, StartStep, Current
  <2>2. rx_state' \in {"RECEIVE_FIRST_BYTE", "IRRELEVANT"}
    BY <1>4 DEF PidStep, Moves, ReceiverMoves, OutControl, OnTheBus
  <2>3. \A k \in 1 .. Len(bus) : bus[k] = PacketByte(k) /\ PacketByte(k)' = PacketByte(k)
    BY <2>1 DEF Position, PacketByte
  <2>4. Len(bus) = Current.length + 2 /\ Current.length \in Nat
    BY <2>1, CurrentTypes DEF Position
  <2>5. Current'.length + 2 - Len(bus') = 0
    BY <2>1, <2>4
  <2>6. \A k \in 1 .. Len(bus) : 0 + k = k
    BY <2>4
  <2>7. QED BY <2>1, <2>2, <2>3, <2>4, <2>5, <2>6 DEF Position
<1>5. CASE GapStep
  <2>1. /\ Arriving /\ Current' = Current /\ wire' = wire /\ bus' = bus
        /\ ReceiverMoves(TRUE, FALSE, 0, "other", FALSE) /\ DetectorMoves(FALSE)
    BY <1>5, ArrivingStep DEF GapStep, StartStep, Current, Moves
  <2>2. /\ data_pipeline' = data_pipeline
        /\ rx_state \in {"READ_PID", "RECEIVE_FIRST_BYTE", "RECEIVE_SECOND_BYTE", "RECEIVE_AND_EMIT", "IRRELEVANT"}
             => rx_state' = rx_state
    BY <2>1 DEF ReceiverMoves
  <2>3. rx_state \in {"READ_PID", "RECEIVE_FIRST_BYTE", "RECEIVE_SECOND_BYTE", "RECEIVE_AND_EMIT", "IRRELEVANT"}
    BY <1>5 DEF GapStep, OutControl, OnTheBus
  <2>4. rx_state = "RECEIVE_AND_EMIT" =>
          /\ bd_state' = bd_state
          /\ bd_state = "RECEIVE_AND_TRANSMIT" => buffered_byte' = buffered_byte
    BY <2>1 DEF DetectorMoves, ByteComes, OutControl, Stages, OutTypes, DetectorTypes
  <2>5. ASSUME NEW k PROVE PacketByte(k)' = PacketByte(k)
    BY <2>1 DEF PacketByte
  <2>6. QED BY <2>1, <2>2, <2>3, <2>4, <2>5 DEF Position
<1>6. QED BY <1>1, <1>2, <1>3, <1>4, <1>5 DEF Steps

\* The byte that reaches the detector is the packet's next one.
LEMMA ByteReachesDetector ==
  ASSUME SizeAssumption, OutControl, Judged, Position, ByteStep, Arriving, rx_state = "RECEIVE_AND_EMIT",
         DetectorMoves(TRUE)
  PROVE  /\ bd_state = "WAIT_FOR_FIRST_BYTE" => buffered_byte' = Current.from
         /\ bd_state = "RECEIVE_AND_TRANSMIT" => buffered_byte' = buffered_byte + 1
         /\ buffered_byte' <= Current.from + Current.length - 1
<1> DEFINE f == Current.from
           n == Current.length
           come == n + 2 - Len(bus)
<1>1. wire = "data" /\ bus \in Seq(Nat) /\ Len(bus) \in Nat /\ Len(bus) >= 1
  BY DEF ByteStep, OutControl, OutTypes, SenderTypes
<1>2. f \in Nat /\ n \in Nat
  BY CurrentTypes
<1>3. /\ come >= 2 /\ data_pipeline = <<PacketByte(come - 1), PacketByte(come)>>
      /\ bd_state = "WAIT_FOR_FIRST_BYTE" => come = 2
      /\ bd_state = "RECEIVE_AND_TRANSMIT" => come > 2 /\ buffered_byte = f + come - 3
  BY <1>1 DEF Position
<1>4. buffered_byte' = data_pipeline[1]
  BY DEF DetectorMoves, ByteComes, OutControl, OutTypes, DetectorTypes, Stages
<1>5. \A k : PacketByte(k) = IF k <= n THEN f - 1 + k ELSE 0
  BY DEF PacketByte
<1>6. come \in Int /\ come - 1 <= n
  BY <1>1, <1>2
<1> HIDE DEF come, f, n
<1>7. buffered_byte' = f - 1 + (come - 1)
  BY <1>3, <1>4, <1>5, <1>6
<1>8. /\ bd_state = "WAIT_FOR_FIRST_BYTE" => buffered_byte' = f
      /\ bd_state = "RECEIVE_AND_TRANSMIT" => buffered_byte' = buffered_byte + 1
      /\ buffered_byte' <= f + n - 1
  BY <1>2, <1>3, <1>6, <1>7
<1>9. QED BY <1>8 DEF f, n

---------------------------------------------------------------------------
(* The OUT endpoint: what the detector and the endpoint make of the packet *)

\* A packet that ends unharmed ends after its last byte.
LEMMA LastByteHeld ==
  ASSUME SizeAssumption, OutControl, Judged, Position, Arriving, FinishStep, intact,
         rx_state = "RECEIVE_AND_EMIT"
  PROVE  /\ bd_state = "WAIT_FOR_FIRST_BYTE" => Current.length = 0
         /\ bd_state = "RECEIVE_AND_TRANSMIT" => buffered_byte = Current.from + Current.length - 1
<1>1. wire = "data" /\ bus = << >> /\ Len(bus) = 0
  BY DEF FinishStep
<1>2. Current.from \in Nat /\ Current.length \in Nat
  BY CurrentTypes
<1>3. /\ bd_state = "WAIT_FOR_FIRST_BYTE" => Current.length + 2 - Len(bus) = 2
      /\ bd_state = "RECEIVE_AND_TRANSMIT" => buffered_byte = Current.from + (Current.length + 2 - Len(bus)) - 3
  BY <1>1 DEF Position
<1>4. QED BY <1>1, <1>2, <1>3

LEMMA MarkedStep ==
  ASSUME SizeAssumption, OutControl, OutControl', Judged, Position, Marked, Steps
  PROVE  Marked'
<1> USE DEF OutControl
<1>1. CASE StartStep
  <2>1. ~packet_complete' /\ ~out'.next /\ bd_state' = "WAIT_FOR_FIRST_BYTE"
    BY <1>1, ArrivingStep DEF Ends, Holds
  <2>2. QED BY <2>1 DEF Marked
<1>2. CASE ~StartStep /\ Arriving'
  <2> DEFINE f == Current.from
             n == Current.length
  <2>1. Arriving /\ UNCHANGED <<token, packets>> /\ Current' = Current
    BY <1>2, ArrivingStep DEF Current
  <2>2. PICK valid \in BOOLEAN : Sees(valid)
    BY StepSees
  <2>3. /\ DetectorMoves(valid) /\ (ByteComes(valid) => ByteStep)
        /\ (packet_complete' => FinishStep /\ intact /\ rx_state = "RECEIVE_AND_EMIT")
    BY <2>2 DEF Sees
  <2>4. f \in Nat \ {0} /\ n \in Nat /\ BytesOf(Current) = f .. f + n - 1 /\ BytesOf(Current)' = BytesOf(Current)
        /\ buffered_byte \in Nat
    BY <2>1, CurrentTypes DEF BytesOf, OutTypes, DetectorTypes
  <2>5. bd_state \in {"WAIT_FOR_FIRST_BYTE", "RECEIVE_AND_TRANSMIT", "OUTPUT_STROBES"}
    BY DEF OutTypes, DetectorTypes
  <2>6. ByteComes(valid) => /\ ~packet_complete' /\ rx_state = "RECEIVE_AND_EMIT" /\ ByteStep /\ DetectorMoves(TRUE)
    <3>1. ByteComes(valid) => valid = TRUE
      BY DEF ByteComes
    <3>2. ~(ByteStep /\ FinishStep)
      BY DEF ByteStep, FinishStep
    <3>3. QED BY <2>3, <3>1, <3>2 DEF ByteComes
  <2>7. ByteComes(valid) =>
          /\ bd_state = "WAIT_FOR_FIRST_BYTE" => buffered_byte' = f
          /\ bd_state = "RECEIVE_AND_TRANSMIT" => buffered_byte' = buffered_byte + 1
          /\ buffered_byte' <= f + n - 1
    BY <2>1, <2>6, ByteReachesDetector
  <2>8. packet_complete' => /\ bd_state = "WAIT_FOR_FIRST_BYTE" => n = 0
                            /\ bd_state = "RECEIVE_AND_TRANSMIT" => buffered_byte = f + n - 1
    BY <2>1, <2>3, LastByteHeld
  <2>9. bd_state = "RECEIVE_AND_TRANSMIT" =>
          /\ buffered_byte \in f .. f + n - 1 /\ (is_first_byte <=> buffered_byte = f)
          /\ packet_complete => buffered_byte = f + n - 1
    BY <2>1, <2>4 DEF Marked
  <2> HIDE DEF f, n
  <2>10. packet_complete' /\ bd_state' = "WAIT_FOR_FIRST_BYTE" => n = 0
    <3>1. packet_complete' => bd_state # "OUTPUT_STROBES" /\ rx_state = "RECEIVE_AND_EMIT"
      BY <2>3 DEF Stages
    <3>2. QED BY <2>3, <2>5, <2>8, <3>1 DEF DetectorMoves
  <2>11. bd_state' = "RECEIVE_AND_TRANSMIT" =>
           /\ buffered_byte' \in f .. f + n - 1 /\ (is_first_byte' <=> buffered_byte' = f)
           /\ packet_complete' => buffered_byte' = f + n - 1
    <3>1. CASE bd_state = "WAIT_FOR_FIRST_BYTE"
      <4>1. bd_state' = "RECEIVE_AND_TRANSMIT" => ByteComes(valid) /\ is_first_byte'
        BY <2>3, <3>1 DEF DetectorMoves
      <4>2. QED BY <2>4, <2>6, <2>7, <3>1, <4>1
    <3>2. CASE bd_state = "RECEIVE_AND_TRANSMIT" /\ ByteComes(valid)
      BY <2>3, <2>4, <2>6, <2>7, <2>9, <3>2 DEF DetectorMoves
    <3>3. CASE bd_state = "RECEIVE_AND_TRANSMIT" /\ ~ByteComes(valid)
      BY <2>3, <2>4, <2>8, <2>9, <3>3 DEF DetectorMoves
    <3>4. CASE bd_state = "OUTPUT_STROBES"
      BY <2>3, <3>4 DEF DetectorMoves
    <3>5. QED BY <2>5, <3>1, <3>2, <3>3, <3>4
  <2>12. out'.next => bd_state = "RECEIVE_AND_TRANSMIT"
    BY <2>3, <2>5 DEF DetectorMoves
  <2>13. out'.next =>
           /\ out'.byte \in f .. f + n - 1
           /\ out'.first <=> out'.byte = f
           /\ bd_state' = "RECEIVE_AND_TRANSMIT" => buffered_byte' = out'.byte + 1
           /\ buffered_complete' => out'.byte = f + n - 1
    <3>1. SUFFICES ASSUME out'.next
                   PROVE  /\ out'.byte \in f .. f + n - 1
                          /\ out'.first <=> out'.byte = f
                          /\ bd_state' = "RECEIVE_AND_TRANSMIT" => buffered_byte' = out'.byte + 1
                          /\ buffered_complete' => out'.byte = f + n - 1
      OBVIOUS
    <3>2. bd_state = "RECEIVE_AND_TRANSMIT" /\ ~buffered_complete
      BY <2>12, <3>1 DEF Strobes
    <3>3. out'.byte = buffered_byte /\ (out'.first <=> is_first_byte)
      BY <2>3, <3>1, <3>2 DEF DetectorMoves
    <3>4. bd_state' = "RECEIVE_AND_TRANSMIT" => ByteComes(valid)
      BY <2>3, <3>1, <3>2 DEF DetectorMoves
    <3>5. buffered_complete' => packet_complete
      BY <2>3, <3>2 DEF DetectorMoves
    <3>6. QED BY <2>7, <2>9, <3>2, <3>3, <3>4, <3>5
  <2>14. f = Current'.from /\ n = Current'.length
    BY <2>1 DEF f, n
  <2>15. QED BY <2>4, <2>10, <2>11, <2>13, <2>14 DEF Marked
<1>3. QED BY <1>1, <1>2 DEF Marked

\* What is written of a packet stays until the detector's last strobe.
LEMMA PendingStep ==
  ASSUME SizeAssumption, OutControl, OutControl', Written, Steps
  PROVE  /\ StartStep => pending = << >> /\ Len(committed') <= Len(committed)
         /\ ~(Arriving' /\ Holds') => pending' = << >>
         /\ Arriving' /\ ~StartStep =>
              /\ pending' = IF Writes THEN Append(pending, Taken) ELSE pending
              /\ ~out.complete /\ ~out.invalid /\ (bd_state = "WAIT_FOR_FIRST_BYTE" => ~Holds)
              /\ Len(committed') <= Len(committed)
<1> USE DEF OutControl
<1> PICK valid \in BOOLEAN : Sees(valid)
  BY StepSees
<1>1. DetectorMoves(valid) /\ EndpointMoves
  BY DEF Sees
<1>2. bd_state \in {"WAIT_FOR_FIRST_BYTE", "RECEIVE_AND_TRANSMIT", "OUTPUT_STROBES"}
  BY DEF OutTypes, DetectorTypes
<1>3. ~(Arriving /\ Holds) => pending = << >> /\ ~Writes
  <2>1. Writes => Arriving /\ Holds
    BY DEF Writes, IsOut, Arriving, Holds
  <2>2. QED BY <2>1 DEF Written
<1>4. bd_state # "WAIT_FOR_FIRST_BYTE" => Holds'
  BY <1>1, <1>2 DEF DetectorMoves, Holds, Strobes
<1>5. bd_state = "WAIT_FOR_FIRST_BYTE" /\ Holds => out.complete \/ out.invalid
  BY DEF Holds, Strobes
<1>6. Arriving /\ (out.complete \/ out.invalid) => Commits \/ Discards
  BY ArrivingStep DEF Commits, Discards
<1>7. StartStep => pending = << >> /\ Len(committed') <= Len(committed)
  <2>1. StartStep => ~Holds /\ ~Commits
    BY ArrivingStep DEF Commits, Holds
  <2>2. QED BY <1>1, <1>3, <2>1 DEF EndpointMoves
<1>8. ~(Arriving' /\ Holds') => pending' = << >>
  <2>1. CASE Arriving /\ Holds /\ ~Holds'
    BY <1>1, <1>4, <1>5, <1>6, <2>1 DEF EndpointMoves
  <2>2. CASE ~(Arriving /\ Holds)
    BY <1>1, <1>3, <2>2 DEF EndpointMoves
  <2>3. Arriving /\ Holds' => Arriving'
    BY ArrivingStep
  <2>4. QED BY <2>1, <2>2, <2>3
<1>9. Arriving' /\ ~StartStep => Arriving /\ ~Commits /\ ~Discards
  BY ArrivingStep
<1>10. QED BY <1>1, <1>5, <1>6, <1>7, <1>8, <1>9 DEF EndpointMoves

\* The detector's outputs, a clock later.
LEMMA DetectorGoes ==
  ASSUME SizeAssumption, OutControl, OutControl', Judged, Position, Marked, Steps, Arriving', ~StartStep
  PROVE  /\ out'.next => bd_state = "RECEIVE_AND_TRANSMIT" /\ out'.byte = buffered_byte
         /\ bd_state' = "RECEIVE_AND_TRANSMIT" =>
              \/ bd_state = "WAIT_FOR_FIRST_BYTE" /\ buffered_byte' = Current.from
              \/ /\ bd_state = "RECEIVE_AND_TRANSMIT"
                 /\ buffered_byte' = buffered_byte + (IF out'.next THEN 1 ELSE 0)
         /\ out'.complete => /\ bd_state = "OUTPUT_STROBES" /\ out.next /\ out.last
                             /\ out.byte = Current.from + Current.length - 1
         /\ out.next /\ out.last => out'.complete \/ out'.invalid
         /\ out.next => bd_state # "WAIT_FOR_FIRST_BYTE"
<1> USE DEF OutControl
<1>1. Arriving
  BY ArrivingStep
<1> PICK valid \in BOOLEAN : Sees(valid)
  BY StepSees
<1>2. DetectorMoves(valid) /\ (ByteComes(valid) => ByteStep /\ valid = TRUE)
  BY DEF Sees, ByteComes
<1>3. bd_state \in {"WAIT_FOR_FIRST_BYTE", "RECEIVE_AND_TRANSMIT", "OUTPUT_STROBES"} /\ buffered_byte \in Nat
  BY DEF OutTypes, DetectorTypes
<1>4. ByteComes(valid) =>
        /\ bd_state = "WAIT_FOR_FIRST_BYTE" => buffered_byte' = Current.from
        /\ bd_state = "RECEIVE_AND_TRANSMIT" => buffered_byte' = buffered_byte + 1
  BY <1>1, <1>2, ByteReachesDetector DEF ByteComes
<1>5. out'.next => bd_state = "RECEIVE_AND_TRANSMIT" /\ out'.byte = buffered_byte
  BY <1>2, <1>3 DEF DetectorMoves
<1>6. bd_state' = "RECEIVE_AND_TRANSMIT" =>
        \/ bd_state = "WAIT_FOR_FIRST_BYTE" /\ buffered_byte' = Current.from
        \/ /\ bd_state = "RECEIVE_AND_TRANSMIT"
           /\ buffered_byte' = buffered_byte + (IF out'.next THEN 1 ELSE 0)
  <2>1. CASE bd_state = "WAIT_FOR_FIRST_BYTE"
    BY <1>2, <1>4, <2>1 DEF DetectorMoves
  <2>2. CASE bd_state = "RECEIVE_AND_TRANSMIT" /\ ByteComes(valid)
    BY <1>2, <1>4, <2>2 DEF DetectorMoves
  <2>3. CASE bd_state = "RECEIVE_AND_TRANSMIT" /\ ~ByteComes(valid)
    BY <1>2, <1>3, <2>3 DEF DetectorMoves
  <2>4. CASE bd_state = "OUTPUT_STROBES"
    BY <1>2, <2>4 DEF DetectorMoves
  <2>5. QED BY <1>3, <2>1, <2>2, <2>3, <2>4
<1>7. out'.complete => bd_state = "OUTPUT_STROBES" /\ buffered_complete /\ out.next /\ out.last
  BY <1>2, <1>3 DEF DetectorMoves, Strobes
<1>8. out.next /\ buffered_complete => out.byte = Current.from + Current.length - 1
  BY <1>1 DEF Marked
<1>9. out.next => bd_state # "WAIT_FOR_FIRST_BYTE"
  BY DEF Strobes
<1>10. out.next /\ out.last => out'.complete \/ out'.invalid
  BY <1>2, <1>3 DEF DetectorMoves, Strobes
<1>11. QED BY <1>5, <1>6, <1>7, <1>8, <1>9, <1>10

\* The two parts of Written that say what is there.
EntriesOrdered ==
  \A k \in 1 .. Len(pending) :
    /\ pending[k].byte \in BytesOf(Current)
    /\ pending[k].first <=> pending[k].byte = Current.from
    /\ k > 1 => pending[k - 1].byte < pending[k].byte
    /\ out.next => pending[k].byte < out.byte
    /\ bd_state = "RECEIVE_AND_TRANSMIT" => pending[k].byte < buffered_byte
    /\ ~out.complete /\ ~out.invalid => ~pending[k].last
    /\ out.complete => (pending[k].last <=> pending[k].byte = Current.from + Current.length - 1)
AllIfRoomy ==
  /\ Len(committed) + 2 * max_packet_size - 1 <= buffer_size
  /\ Len(pending) <= Current.length
  /\ \A k \in 1 .. Len(pending) : pending[k].byte = Current.from + k - 1
  /\ bd_state = "RECEIVE_AND_TRANSMIT" =>
       buffered_byte = Current.from + Len(pending) + (IF out.next THEN 1 ELSE 0)
  /\ out.next => out.byte = Current.from + Len(pending)
  /\ out.complete => Len(pending) = Current.length

LEMMA EntriesOrderedStep ==
  ASSUME SizeAssumption, OutControl, OutControl', Judged, Position, Marked, Written, Steps,
         Arriving', Holds'
  PROVE  EntriesOrdered'
<1> USE DEF OutControl
<1> DEFINE f == Current.from
           n == Current.length
<1>1. ~StartStep
  BY ArrivingStep
<1>2. Arriving /\ Current' = Current
  BY <1>1, ArrivingStep DEF Current
<1>3. /\ pending' = IF Writes THEN Append(pending, Taken) ELSE pending
      /\ ~out.complete /\ ~out.invalid /\ (bd_state = "WAIT_FOR_FIRST_BYTE" => ~Holds)
  BY <1>1, PendingStep
<1>4. /\ out'.next => bd_state = "RECEIVE_AND_TRANSMIT" /\ out'.byte = buffered_byte
      /\ bd_state' = "RECEIVE_AND_TRANSMIT" =>
           \/ bd_state = "WAIT_FOR_FIRST_BYTE" /\ buffered_byte' = f
           \/ bd_state = "RECEIVE_AND_TRANSMIT" /\ buffered_byte' = buffered_byte + (IF out'.next THEN 1 ELSE 0)
      /\ out'.complete => bd_state = "OUTPUT_STROBES" /\ out.next /\ out.last /\ out.byte = f + n - 1
      /\ out.next /\ out.last => out'.complete \/ out'.invalid
      /\ out.next => bd_state # "WAIT_FOR_FIRST_BYTE"
  BY <1>1, DetectorGoes
<1>5. /\ f \in Nat /\ n \in Nat /\ buffered_byte \in Nat /\ out.byte \in Nat
      /\ BytesOf(Current) = f .. f + n - 1 /\ BytesOf(Current)' = BytesOf(Current)
      /\ f = Current'.from /\ n = Current'.length
  BY <1>2, CurrentTypes DEF OutTypes, DetectorTypes, BytesOf
<1>6. pending \in Seq(Entry) /\ Len(pending) \in Nat
  BY DEF OutTypes, FifoTypes
<1>7. out.next => /\ out.byte \in f .. f + n - 1 /\ (out.first <=> out.byte = f)
                  /\ bd_state = "RECEIVE_AND_TRANSMIT" => buffered_byte = out.byte + 1
  BY <1>2, <1>5 DEF Marked
<1>8. Holds => EntriesOrdered
  BY <1>2 DEF Written, EntriesOrdered
<1>9. \A k \in 1 .. Len(pending) :
        /\ pending[k].byte \in f .. f + n - 1
        /\ pending[k].first <=> pending[k].byte = f
        /\ k > 1 => pending[k - 1].byte < pending[k].byte
        /\ out.next => pending[k].byte < out.byte
        /\ bd_state # "WAIT_FOR_FIRST_BYTE"
        /\ bd_state = "RECEIVE_AND_TRANSMIT" => pending[k].byte < buffered_byte
        /\ ~pending[k].last
  <2>1. pending # << >> => Holds
    BY DEF Written
  <2>2. QED BY <1>3, <1>5, <1>6, <1>8, <2>1 DEF EntriesOrdered
<1> HIDE DEF f, n
<1>10. \A k \in 1 .. Len(pending) :
         /\ out'.next => pending[k].byte < out'.byte
         /\ bd_state' = "RECEIVE_AND_TRANSMIT" => pending[k].byte < buffered_byte'
         /\ out'.complete => (pending[k].last <=> pending[k].byte = f + n - 1)
  BY <1>4, <1>5, <1>9
<1>11. CASE ~Writes
  <2>1. pending' = pending
    BY <1>3, <1>11
  <2>2. QED BY <1>5, <1>9, <1>10, <2>1 DEF EntriesOrdered
<1>12. CASE Writes
  <2>1. /\ out.next /\ Taken.byte = out.byte /\ Taken.first = out.first /\ Taken.last = out.last /\ Taken \in Entry
    BY <1>12 DEF Writes, Taken, Entry, OutTypes, DetectorTypes
  <2>2. pending' = Append(pending, Taken)
    BY <1>3, <1>12
  <2> HIDE DEF Taken
  <2>3. /\ Len(pending') = Len(pending) + 1 /\ pending'[Len(pending) + 1] = Taken
        /\ \A k \in 1 .. Len(pending) : pending'[k] = pending[k]
    BY <1>6, <2>1, <2>2, AppendProperties
  <2>4. /\ out'.next => out.byte < out'.byte
        /\ bd_state' = "RECEIVE_AND_TRANSMIT" => out.byte < buffered_byte'
    BY <1>4, <1>5, <1>7, <2>1
  <2>5. /\ ~out'.complete /\ ~out'.invalid => ~out.last
        /\ out'.complete => (out.last <=> out.byte = f + n - 1)
    BY <1>4, <2>1
  <2>6. ASSUME NEW k \in 1 .. Len(pending')
        PROVE  /\ pending'[k].byte \in f .. f + n - 1
               /\ pending'[k].first <=> pending'[k].byte = f
               /\ k > 1 => pending'[k - 1].byte < pending'[k].byte
               /\ out'.next => pending'[k].byte < out'.byte
               /\ bd_state' = "RECEIVE_AND_TRANSMIT" => pending'[k].byte < buffered_byte'
               /\ ~out'.complete /\ ~out'.invalid => ~pending'[k].last
               /\ out'.complete => (pending'[k].last <=> pending'[k].byte = f + n - 1)
    <3>1. CASE k \in 1 .. Len(pending)
      <4>1. k > 1 => k - 1 \in 1 .. Len(pending)
        BY <1>6, <3>1
      <4>2. QED BY <1>9, <1>10, <2>3, <3>1, <4>1
    <3>2. CASE k = Len(pending) + 1
      <4>1. k > 1 => k - 1 \in 1 .. Len(pending)
        BY <1>6, <3>2
      <4>2. k > 1 => pending'[k - 1].byte < out.byte
        BY <1>9, <2>1, <2>3, <4>1
      <4>3. QED BY <1>7, <2>1, <2>3, <2>4, <2>5, <3>2, <4>2
    <3>3. QED BY <1>6, <2>3, <3>1, <3>2
  <2>7. QED BY <1>5, <2>6 DEF EntriesOrdered
<1>13. QED BY <1>11, <1>12

LEMMA AllIfRoomyStep ==
  ASSUME SizeAssumption, OutControl, OutControl', Judged, Position, Marked, Written, Steps,
         Arriving', Current'.roomy
  PROVE  AllIfRoomy'
<1> USE DEF OutControl
<1>1. CASE StartStep
  <2>1. ~Holds' /\ pending = << >> /\ pending' = << >> /\ Len(committed') <= Len(committed)
    BY <1>1, PendingStep, ArrivingStep
  <2>2. token.endpoint = ISO
    BY <1>1 DEF StartStep, Arriving
  <2>3. PICK p : /\ packets' = Append(packets, p) /\ p.length \in 0 .. max_packet_size
                 /\ p.roomy = (O!Fifo!Room >= 2 * max_packet_size - 1)
    <3>1. PICK length \in 0 .. max_packet_size :
            packets' = Append(packets, [from |-> Sent + 1, length |-> length, whole |-> intact',
                                        roomy |-> O!Fifo!Room >= 2 * max_packet_size - 1])
      BY <1>1, <2>2 DEF StartStep
    <3> DEFINE p == [from |-> Sent + 1, length |-> length, whole |-> intact',
                     roomy |-> O!Fifo!Room >= 2 * max_packet_size - 1]
    <3>2. p.length = length /\ p.roomy = (O!Fifo!Room >= 2 * max_packet_size - 1)
      OBVIOUS
    <3>3. packets' = Append(packets, p)
      BY <3>1
    <3> HIDE DEF p
    <3>4. QED BY <3>1, <3>2, <3>3
  <2>4. packets \in Seq(SentPacket) /\ Current' = p
    BY <2>3 DEF OutTypes, SenderTypes, Current
  <2>5. Len(committed) + 2 * max_packet_size - 1 <= buffer_size
    <3>1. O!Fifo!Room = buffer_size - Len(committed) - 0
      BY <2>1 DEF O!Fifo!Room
    <3>2. Len(committed) \in Nat /\ buffer_size \in Nat /\ max_packet_size \in Nat
      BY DEF OutTypes, FifoTypes, SizeAssumption
    <3>3. O!Fifo!Room >= 2 * max_packet_size - 1
      BY <2>3, <2>4, Zenon
    <3>4. QED BY <3>1, <3>2, <3>3
  <2>6. Len(committed) \in Nat /\ Len(committed') \in Nat /\ buffer_size \in Nat /\ max_packet_size \in Nat
    BY DEF OutTypes, FifoTypes, SizeAssumption
  <2>7. Len(committed') + 2 * max_packet_size - 1 <= buffer_size
    BY <2>1, <2>5, <2>6
  <2>8. Len(pending') = 0 /\ 0 <= Current'.length
    BY <2>1, <2>3, <2>4
  <2>9. bd_state' # "RECEIVE_AND_TRANSMIT" /\ ~out'.next /\ ~out'.complete
    BY <2>1 DEF Holds
  <2>10. QED BY <2>7, <2>8, <2>9 DEF AllIfRoomy
<1>2. CASE ~StartStep
  <2> DEFINE f == Current.from
             n == Current.length
  <2>1. Arriving /\ Current' = Current
    BY <1>2, ArrivingStep DEF Current
  <2>2. /\ pending' = IF Writes THEN Append(pending, Taken) ELSE pending
        /\ bd_state = "WAIT_FOR_FIRST_BYTE" => ~Holds
        /\ Len(committed') <= Len(committed)
    BY <1>2, PendingStep
  <2>3. /\ out'.next => bd_state = "RECEIVE_AND_TRANSMIT" /\ out'.byte = buffered_byte
        /\ bd_state' = "RECEIVE_AND_TRANSMIT" =>
             \/ bd_state = "WAIT_FOR_FIRST_BYTE" /\ buffered_byte' = f
             \/ bd_state = "RECEIVE_AND_TRANSMIT" /\ buffered_byte' = buffered_byte + (IF out'.next THEN 1 ELSE 0)
        /\ out'.complete => out.next /\ out.byte = f + n - 1
        /\ out.next => bd_state # "WAIT_FOR_FIRST_BYTE"
    BY <1>2, DetectorGoes
  <2>4. /\ f \in Nat /\ n \in 0 .. max_packet_size /\ max_packet_size \in Nat \ {0} /\ buffer_size \in Nat
        /\ buffered_byte \in Nat /\ out.byte \in Nat
        /\ BytesOf(Current) = f .. f + n - 1 /\ f = Current'.from /\ n = Current'.length
    BY <2>1, CurrentTypes DEF OutTypes, DetectorTypes, SizeAssumption
  <2>5. pending \in Seq(Entry) /\ Len(pending) \in Nat /\ Len(committed) \in Nat /\ Len(committed') \in Nat
    BY DEF OutTypes, FifoTypes
  <2>6. AllIfRoomy
    BY <2>1 DEF Written, AllIfRoomy
  <2>7. out.next => out.byte \in f .. f + n - 1
    BY <2>1, <2>4 DEF Marked
  <2>8. bd_state = "WAIT_FOR_FIRST_BYTE" => pending = << >> /\ ~out.next
    BY <2>2, <2>3 DEF Written
  <2>9. IsOut
    BY <2>1, ArrivingStep
  <2>10. /\ Len(committed) + 2 * max_packet_size - 1 <= buffer_size /\ Len(pending) <= n
         /\ \A k \in 1 .. Len(pending) : pending[k].byte = f + k - 1
         /\ bd_state = "RECEIVE_AND_TRANSMIT" => buffered_byte = f + Len(pending) + (IF out.next THEN 1 ELSE 0)
         /\ out.next => out.byte = f + Len(pending)
    BY <2>6 DEF AllIfRoomy
  <2> HIDE DEF f, n
  <2>11. Writes <=> out.next
    <3>1. out.next => Len(pending) <= n - 1
      BY <2>4, <2>5, <2>7, <2>10
    <3>2. out.next => Room
      BY <2>4, <2>5, <2>10, <3>1 DEF Room
    <3>3. QED BY <2>9, <3>2 DEF Writes
  <2>12. /\ out.next => Len(pending') = Len(pending) + 1
         /\ ~out.next => Len(pending') = Len(pending)
         /\ \A k \in 1 .. Len(pending) : pending'[k] = pending[k]
         /\ out.next => pending'[Len(pending) + 1].byte = out.byte
    <3>1. CASE out.next
      <4>1. Taken.byte = out.byte /\ Taken \in Entry
        BY DEF Taken, Entry, OutTypes, DetectorTypes
      <4> HIDE DEF Taken
      <4>2. pending' = Append(pending, Taken)
        BY <2>2, <2>11, <3>1
      <4>3. QED BY <2>5, <3>1, <4>1, <4>2, AppendProperties
    <3>2. CASE ~out.next
      BY <2>2, <2>5, <2>11, <3>2
    <3>3. QED BY <3>1, <3>2
  <2>13. Len(pending) \in Nat /\ f \in Nat /\ n \in Nat
    BY <2>4, <2>5
  <2>14. out.next => /\ Len(pending') = Len(pending) + 1 /\ out.byte = f + Len(pending) /\ Len(pending) <= n - 1
    <3>1. out.next => out.byte = f + Len(pending) /\ out.byte <= f + n - 1
      BY <2>4, <2>7, <2>10
    <3>2. QED BY <2>12, <2>13, <3>1
  <2>15. ~out.next => Len(pending') = Len(pending) /\ Len(pending) <= n
    BY <2>10, <2>12
  <2>16. Len(pending') <= n
    BY <2>13, <2>14, <2>15
  <2>17. \A k \in 1 .. Len(pending') : pending'[k].byte = f + k - 1
    <3>1. SUFFICES ASSUME NEW k \in 1 .. Len(pending') PROVE pending'[k].byte = f + k - 1
      OBVIOUS
    <3>2. CASE k \in 1 .. Len(pending)
      BY <2>10, <2>12, <3>2
    <3>3. CASE k = Len(pending) + 1 /\ out.next
      BY <2>4, <2>5, <2>10, <2>12, <3>3
    <3>4. QED BY <2>5, <2>12, <3>2, <3>3
  <2>18. bd_state' = "RECEIVE_AND_TRANSMIT" =>
           buffered_byte' = f + Len(pending') + (IF out'.next THEN 1 ELSE 0)
    <3>1. CASE bd_state = "WAIT_FOR_FIRST_BYTE"
      <4>1. Len(pending') = 0 /\ ~out'.next
        BY <2>3, <2>8, <2>12, <3>1
      <4>2. QED BY <2>3, <2>4, <3>1, <4>1
    <3>2. CASE bd_state = "RECEIVE_AND_TRANSMIT"
      <4>1. buffered_byte = f + Len(pending')
        <5>1. buffered_byte = f + Len(pending) + (IF out.next THEN 1 ELSE 0)
          BY <2>10, <3>2
        <5>2. QED BY <2>13, <2>14, <2>15, <5>1
      <4>2. QED BY <2>3, <3>2, <4>1
    <3>3. QED BY <2>3, <3>1, <3>2
  <2>19. out'.next => out'.byte = f + Len(pending')
    <3>1. SUFFICES ASSUME out'.next PROVE out'.byte = f + Len(pending')
      OBVIOUS
    <3>2. out'.byte = f + Len(pending) + (IF out.next THEN 1 ELSE 0)
      BY <2>3, <2>10, <3>1
    <3>3. QED BY <2>13, <2>14, <2>15, <3>2
  <2>20. out'.complete => Len(pending') = n
    <3>1. SUFFICES ASSUME out'.complete PROVE Len(pending') = n
      OBVIOUS
    <3>2. out.next /\ out.byte = f + n - 1
      BY <2>3, <3>1
    <3>3. QED BY <2>13, <2>14, <3>2
  <2>21. Len(committed') + 2 * max_packet_size - 1 <= buffer_size
    BY <2>2, <2>4, <2>5, <2>10
  <2>22. QED BY <2>4, <2>16, <2>17, <2>18, <2>19, <2>20, <2>21 DEF AllIfRoomy
<1>3. QED BY <1>1, <1>2

LEMMA WrittenStep ==
  ASSUME SizeAssumption, OutControl, OutControl', Judged, Position, Marked, Written, Steps
  PROVE  Written'
<1>1. ~(Arriving' /\ Holds') => pending' = << >>
  BY PendingStep
<1>2. Arriving' /\ Holds' => EntriesOrdered'
  BY EntriesOrderedStep
<1>3. Arriving' /\ Current'.roomy => AllIfRoomy'
  BY AllIfRoomyStep
<1>4. QED BY <1>1, <1>2, <1>3 DEF Written, EntriesOrdered, AllIfRoomy

---------------------------------------------------------------------------
(* The OUT endpoint: what is let through *)

LEMMA PacketAdded ==
  ASSUME SizeAssumption, OutControl, StartStep, token.endpoint = ISO
  PROVE  /\ Len(packets') = Len(packets) + 1 /\ Len(packets) \in Nat
         /\ \A j \in 1 .. Len(packets) : packets'[j] = packets[j]
         /\ packets'[Len(packets) + 1].from = Sent + 1
<1>1. PICK p : packets' = Append(packets, p) /\ p.from = Sent + 1
  BY DEF StartStep
<1>2. packets \in Seq(SentPacket) /\ Len(packets) \in Nat
  BY DEF OutControl, OutTypes, SenderTypes
<1>3. QED BY <1>1, <1>2

LEMMA ChainedStep ==
  ASSUME SizeAssumption, OutControl, Chained, Steps, OutControl'
  PROVE  Chained'
<1>1. CASE StartStep /\ token.endpoint = ISO
  <2>1. /\ Len(packets') = Len(packets) + 1 /\ Len(packets) \in Nat
        /\ \A j \in 1 .. Len(packets) : packets'[j] = packets[j]
        /\ packets'[Len(packets) + 1].from = Sent + 1
    BY <1>1, PacketAdded
  <2>2. /\ \A j \in 1 .. Len(packets) : packets[j].from \in Nat /\ packets[j].length \in Nat
        /\ packets # << >> => Len(packets) >= 1 /\ Sent = Current.from + Current.length - 1
    BY SentSoFar DEF OutControl, OutTypes, SizeAssumption
  <2>3. SUFFICES ASSUME NEW i \in 1 .. Len(packets'), NEW j \in 1 .. Len(packets'), i < j
                 PROVE packets'[i].from + packets'[i].length <= packets'[j].from
    BY DEF Chained
  <2>4. i \in 1 .. Len(packets) /\ packets'[i] = packets[i] /\ packets # << >>
    BY <2>1, <2>3
  <2>5. CASE j \in 1 .. Len(packets)
    BY <2>1, <2>3, <2>4, <2>5 DEF Chained
  <2>6. CASE j = Len(packets) + 1
    <3>1. packets[i].from + packets[i].length <= Current.from + Current.length
      <4>1. CASE i = Len(packets)
        BY <2>2, <2>4, <4>1 DEF Current
      <4>2. CASE i < Len(packets)
        <5>1. packets[i].from + packets[i].length <= Current.from
          BY <2>1, <2>4, <4>2 DEF Chained, Current
        <5>2. Len(packets) \in 1 .. Len(packets)
          BY <2>1, <2>2, <2>4
        <5>3. /\ packets[i].from \in Nat /\ packets[i].length \in Nat
              /\ Current.from \in Nat /\ Current.length \in Nat
          BY <2>2, <2>4, <5>2 DEF Current
        <5>4. QED BY <5>1, <5>3
      <4>3. QED BY <2>1, <2>4, <4>1, <4>2
    <3>2. packets'[j].from = Current.from + Current.length
      <4>1. Len(packets) \in 1 .. Len(packets)
        BY <2>1, <2>2, <2>4
      <4>2. QED BY <2>1, <2>2, <2>4, <2>6, <4>1 DEF Current
    <3>3. QED BY <2>4, <3>1, <3>2
  <2>7. QED BY <2>1, <2>5, <2>6
<1>2. CASE ~(StartStep /\ token.endpoint = ISO)
  <2>1. packets' = packets
    BY <1>2, ArrivingStep DEF StartStep
  <2>2. QED BY <2>1 DEF Chained
<1>3. QED BY <1>1, <1>2

\* A packet that is gone without a commit was harmed, or empty.
LEMMA ArrivalEnds ==
  ASSUME SizeAssumption, OutControl, OutControl', Judged, Position, Marked, Steps,
         Arriving, ~Arriving', ~Commits
  PROVE  ~Current.whole \/ Current.length = 0
<1> USE DEF OutControl
<1>1. UNCHANGED token /\ IsOut /\ ~StartStep
  BY ArrivingStep
<1>2. wire' \notin {"pid", "data"} /\ ~Ends' /\ ~Holds'
  BY <1>1 DEF Arriving
<1>3. CASE FinishStep
  <2>1. CASE intact
    <3>1. wire = "data" /\ Len(bus) = 0 /\ ReceiverMoves(FALSE, FALSE, 0, "other", intact)
      BY <1>3, <2>1 DEF FinishStep, Moves
    <3>2. rx_state \in {"RECEIVE_FIRST_BYTE", "RECEIVE_SECOND_BYTE", "RECEIVE_AND_EMIT"}
      BY <2>1, <3>1 DEF OnTheBus
    <3>3. rx_state # "RECEIVE_AND_EMIT"
      BY <1>2, <3>1 DEF ReceiverMoves, Ends
    <3>4. Current.length \in Nat
      BY CurrentTypes
    <3>5. rx_state = "RECEIVE_FIRST_BYTE" => Current.length + 2 - Len(bus) = 0
      BY <3>1 DEF Position
    <3>6. rx_state = "RECEIVE_SECOND_BYTE" => Current.length + 2 - Len(bus) = 1
      BY <3>1 DEF Position
    <3>7. QED BY <3>1, <3>2, <3>3, <3>4, <3>5, <3>6
  <2>2. CASE ~intact
    BY <1>3, <2>2 DEF FinishStep, Judged
  <2>3. QED BY <2>1, <2>2
<1>4. CASE RestStep
  <2>1. Ends \/ Holds
    BY <1>4 DEF RestStep, Still, Arriving
  <2>2. PICK valid \in BOOLEAN : Sees(valid)
    BY StepSees
  <2>3. bd_state = "WAIT_FOR_FIRST_BYTE"
    <3>1. bd_state \in {"WAIT_FOR_FIRST_BYTE", "RECEIVE_AND_TRANSMIT", "OUTPUT_STROBES"}
      BY DEF OutTypes, DetectorTypes
    <3>2. QED BY <1>2, <2>2, <3>1 DEF Sees, DetectorMoves, Holds, Strobes
  <2>4. Holds => out.invalid
    BY <1>1, <2>3 DEF Holds, Strobes, Commits
  <2>5. QED BY <2>1, <2>3, <2>4 DEF Ends, Judged, Marked
<1>5. QED BY <1>1, <1>2, <1>3, <1>4 DEF Steps, PidStep, ByteStep, GapStep

\* The two parts of Delivered.
InOrder ==
  \A k \in 1 .. Len(Kept) :
    /\ k > 1 => Kept[k - 1].byte < Kept[k].byte
    /\ \E j \in 1 .. Len(packets) :
         IsByteOf(Kept[k], packets[j]) /\ (Arriving => j < Len(packets))
NoneMissing ==
  \A j \in 1 .. Len(packets) :
    packets[j].whole /\ packets[j].roomy /\ (Arriving => j < Len(packets)) =>
      \A b \in BytesOf(packets[j]) : \E k \in 1 .. Len(Kept) : Kept[k].byte = b

LEMMA KeptStep ==
  ASSUME OutControl, Steps
  PROVE  /\ Kept \in Seq(Entry) /\ Len(Kept) \in Nat /\ (~Commits => Kept' = Kept)
         /\ Commits => /\ Len(Kept') = Len(Kept) + Len(pending) /\ Len(pending) \in Nat
                       /\ \A k \in 1 .. Len(Kept) : Kept'[k] = Kept[k]
                       /\ \A k \in 1 .. Len(pending) : Kept'[Len(Kept) + k] = pending[k]
<1>1. Kept \in Seq(Entry) /\ Kept' = IF Commits THEN Kept \o pending ELSE Kept
  BY StepSees DEF Sees, EndpointMoves
<1>2. pending \in Seq(Entry)
  BY DEF OutControl, OutTypes, FifoTypes
<1> HIDE DEF Commits
<1> DEFINE kept == Kept
<1>3. kept \in Seq(Entry)
  BY <1>1
<1> HIDE DEF kept
<1>4. /\ Len(kept) \in Nat /\ Len(pending) \in Nat /\ Len(kept \o pending) = Len(kept) + Len(pending)
      /\ \A k \in 1 .. Len(kept) : (kept \o pending)[k] = kept[k]
      /\ \A k \in 1 .. Len(pending) : (kept \o pending)[Len(kept) + k] = pending[k]
  BY <1>2, <1>3
<1>5. QED BY <1>1, <1>2, <1>4 DEF kept

\* While nothing is let through.
LEMMA DeliveredStays ==
  ASSUME SizeAssumption, OutControl, OutControl', Judged, Position, Marked, Delivered, Steps, ~Commits
  PROVE  Delivered'
<1>1. Kept' = Kept
  BY KeptStep
<1>2. CASE StartStep /\ token.endpoint = ISO
  <2>1. /\ Len(packets') = Len(packets) + 1 /\ Len(packets) \in Nat
        /\ \A j \in 1 .. Len(packets) : packets'[j] = packets[j]
    BY <1>2, PacketAdded
  <2>2. Arriving' /\ ~Arriving
    BY <1>2, ArrivingStep DEF StartStep, Arriving
  <2>3. \A j \in 1 .. Len(packets) : j \in 1 .. Len(packets') /\ j < Len(packets')
    BY <2>1
  <2>4. \A j \in 1 .. Len(packets') : j < Len(packets') => j \in 1 .. Len(packets)
    BY <2>1
  <2>5. ASSUME NEW k \in 1 .. Len(Kept)
        PROVE \E j \in 1 .. Len(packets') : IsByteOf(Kept[k], packets'[j]) /\ j < Len(packets')
    <3>1. PICK j \in 1 .. Len(packets) : IsByteOf(Kept[k], packets[j])
      BY DEF Delivered
    <3>2. QED BY <2>1, <2>3, <3>1
  <2>6. ASSUME NEW j \in 1 .. Len(packets'), packets'[j].whole, packets'[j].roomy, j < Len(packets'),
               NEW b \in BytesOf(packets'[j])
        PROVE \E k \in 1 .. Len(Kept) : Kept[k].byte = b
    <3>1. j \in 1 .. Len(packets) /\ packets'[j] = packets[j]
      BY <2>1, <2>4, <2>6
    <3>2. QED BY <2>2, <2>6, <3>1 DEF Delivered
  <2>7. /\ \A k \in 1 .. Len(Kept) : k > 1 => Kept[k - 1].byte < Kept[k].byte
    BY DEF Delivered
  <2>8. ASSUME NEW e, NEW p PROVE IsByteOf(e, p)' = IsByteOf(e', p')
    BY DEF IsByteOf, BytesOf
  <2>9. QED BY <1>1, <2>2, <2>5, <2>6, <2>7 DEF Delivered, IsByteOf, BytesOf
<1>3. CASE ~(StartStep /\ token.endpoint = ISO)
  <2>1. packets' = packets
    BY <1>3, ArrivingStep DEF StartStep
  <2>2. Arriving' => Arriving
    <3>1. StartStep => ~Arriving'
      BY <1>3 DEF StartStep, Arriving
    <3>2. QED BY <3>1, ArrivingStep
  <2>3. Arriving /\ ~Arriving' => ~Current.whole \/ Current.length = 0
    BY ArrivalEnds
  <2>4. Arriving => Current.from \in Nat /\ BytesOf(Current) = Current.from .. Current.from + Current.length - 1
    BY CurrentTypes
  <2>5. Arriving /\ ~Arriving' => ~Current.whole \/ BytesOf(Current) = {}
    BY <2>3, <2>4
  <2>6. ASSUME NEW j \in 1 .. Len(packets), packets[j].whole, packets[j].roomy, Arriving' => j < Len(packets),
               NEW b \in BytesOf(packets[j])
        PROVE \E k \in 1 .. Len(Kept) : Kept[k].byte = b
    <3>1. Arriving => j < Len(packets)
      <4>1. Arriving => Len(packets) \in Nat
        BY CurrentTypes
      <4>2. QED BY <2>5, <2>6, <4>1 DEF Current
    <3>2. QED BY <2>6, <3>1 DEF Delivered
  <2>7. QED BY <1>1, <2>1, <2>2, <2>6 DEF Delivered, IsByteOf, BytesOf
<1>4. QED BY <1>2, <1>3

\* A packet is let through.
LEMMA DeliveredGrows ==
  ASSUME SizeAssumption, OutControl, OutControl', Judged, Written, Chained, Delivered, Steps, Commits
  PROVE  Delivered'
<1> DEFINE f == Current.from
           n == Current.length
           N == Len(Kept)
<1>1. Arriving /\ Holds /\ out.complete
  BY DEF Commits, IsOut, Arriving, Holds
<1>2. ~Arriving' /\ packets' = packets
  BY <1>1, ArrivingStep DEF Holds
<1>3. /\ N \in Nat /\ Len(Kept') = N + Len(pending) /\ Len(pending) \in Nat
      /\ \A k \in 1 .. N : Kept'[k] = Kept[k]
      /\ \A k \in 1 .. Len(pending) : Kept'[N + k] = pending[k]
  BY KeptStep
<1>4. /\ f \in Nat /\ n \in Nat /\ BytesOf(Current) = f .. f + n - 1 /\ Len(packets) \in 1 .. Len(packets)
  BY <1>1, CurrentTypes
<1>5. Current.whole
  BY <1>1 DEF Judged
<1>6. \A k \in 1 .. Len(pending) :
        /\ IsByteOf(pending[k], Current) /\ pending[k].byte \in f .. f + n - 1
        /\ k > 1 => pending[k - 1].byte < pending[k].byte
  BY <1>1, <1>4, <1>5 DEF Written, IsByteOf
<1>7. \A k \in 1 .. N : Kept[k].byte \in Nat /\ Kept[k].byte < f
  <2>1. SUFFICES ASSUME NEW k \in 1 .. N PROVE Kept[k].byte \in Nat /\ Kept[k].byte < f
    OBVIOUS
  <2>2. PICK j \in 1 .. Len(packets) : IsByteOf(Kept[k], packets[j]) /\ j < Len(packets)
    BY <1>1 DEF Delivered
  <2>3. packets[j].from \in Nat /\ packets[j].length \in Nat
        /\ BytesOf(packets[j]) = packets[j].from .. packets[j].from + packets[j].length - 1
    BY SentSoFar DEF OutControl, OutTypes, SizeAssumption
  <2>4. packets[j].from + packets[j].length <= f
    BY <1>4, <2>2 DEF Chained, Current
  <2>5. Kept[k].byte \in packets[j].from .. packets[j].from + packets[j].length - 1
    BY <2>2, <2>3 DEF IsByteOf
  <2> HIDE DEF f
  <2>6. QED BY <1>4, <2>3, <2>4, <2>5
<1>8. InOrder'
  <2>1. SUFFICES ASSUME NEW k \in 1 .. Len(Kept')
                 PROVE  /\ k > 1 => Kept'[k - 1].byte < Kept'[k].byte
                        /\ \E j \in 1 .. Len(packets) : IsByteOf(Kept'[k], packets[j])
    BY <1>2 DEF InOrder, IsByteOf, BytesOf
  <2>2. CASE k \in 1 .. N
    <3>1. k > 1 => k - 1 \in 1 .. N
      BY <1>3, <2>2
    <3>2. QED BY <1>3, <2>2, <3>1 DEF Delivered
  <2>3. CASE k > N
    <3>1. k - N \in 1 .. Len(pending) /\ N + (k - N) = k
      BY <1>3, <2>1, <2>3
    <3>2. Kept'[k] = pending[k - N] /\ IsByteOf(Kept'[k], packets[Len(packets)])
      BY <1>3, <1>6, <3>1 DEF Current
    <3>3. CASE k - N = 1
      <4>1. k > 1 => k - 1 \in 1 .. N
        BY <1>3, <3>3
      <4>2. k > 1 => Kept'[k - 1].byte < f /\ Kept'[k - 1].byte \in Nat
        BY <1>3, <1>7, <4>1
      <4>3. Kept'[k].byte >= f /\ Kept'[k].byte \in Nat
        BY <1>4, <1>6, <3>1, <3>2
      <4> HIDE DEF f
      <4>4. k > 1 => Kept'[k - 1].byte < Kept'[k].byte
        BY <1>4, <4>2, <4>3
      <4>5. QED BY <1>4, <3>2, <4>4
    <3>4. CASE k - N > 1
      <4>1. (k - N) - 1 \in 1 .. Len(pending) /\ N + ((k - N) - 1) = k - 1
        BY <1>3, <3>1, <3>4
      <4>2. Kept'[k - 1] = pending[(k - N) - 1]
        BY <1>3, <4>1
      <4>3. Kept'[k - 1].byte < Kept'[k].byte
        BY <1>6, <3>1, <3>2, <3>4, <4>2
      <4>4. QED BY <1>4, <3>2, <4>3
    <3>5. QED BY <1>3, <3>1, <3>3, <3>4
  <2>4. QED BY <1>3, <2>1, <2>2, <2>3
<1>9. NoneMissing'
  <2>1. SUFFICES ASSUME NEW j \in 1 .. Len(packets), packets[j].whole, packets[j].roomy,
                        NEW b \in BytesOf(packets[j])
                 PROVE  \E k \in 1 .. Len(Kept') : Kept'[k].byte = b
    BY <1>2 DEF NoneMissing, BytesOf
  <2>2. CASE j < Len(packets)
    <3>1. PICK k \in 1 .. N : Kept[k].byte = b
      BY <2>1, <2>2 DEF Delivered
    <3>2. k \in 1 .. Len(Kept') /\ Kept'[k].byte = b
      BY <1>3, <3>1
    <3>3. QED BY <3>2
  <2>3. CASE j = Len(packets)
    <3>1. /\ Len(pending) = n /\ \A k \in 1 .. Len(pending) : pending[k].byte = f + k - 1
      BY <1>1, <2>1, <2>3 DEF Written, Current
    <3>2. b \in f .. f + n - 1
      BY <1>4, <2>1, <2>3 DEF Current
    <3> DEFINE m == b - f + 1
    <3> HIDE DEF f, n
    <3>3. m \in 1 .. Len(pending) /\ f + m - 1 = b /\ N + m \in 1 .. Len(Kept')
      BY <1>3, <1>4, <3>1, <3>2
    <3>4. Kept'[N + m].byte = b
      BY <1>3, <3>1, <3>3
    <3>5. QED BY <3>3, <3>4
  <2>4. QED BY <1>4, <2>1, <2>2, <2>3
<1>10. QED BY <1>8, <1>9 DEF Delivered, InOrder, NoneMissing

LEMMA DeliveredStep ==
  ASSUME SizeAssumption, OutInv, OutControl', Steps
  PROVE  Delivered'
<1>1. OutControl /\ Judged /\ Position /\ Marked /\ Written /\ Chained /\ Delivered
  BY DEF OutInv
<1>2. CASE Commits
  BY <1>1, <1>2, DeliveredGrows
<1>3. CASE ~Commits
  BY <1>1, <1>3, DeliveredStays
<1>4. QED BY <1>2, <1>3

---------------------------------------------------------------------------
(* The OUT endpoint: the invariant *)

LEMMA OutInit == SizeAssumption /\ Init => OutInv
<1> SUFFICES ASSUME SizeAssumption, Init PROVE OutInv
  OBVIOUS
<1>1. /\ rx_state = "IDLE" /\ data_pipeline = <<0, 0>> /\ packet_complete = FALSE /\ crc_mismatch = FALSE
      /\ bd_state = "WAIT_FOR_FIRST_BYTE" /\ buffered_byte = 0 /\ is_first_byte = FALSE
      /\ buffered_complete = FALSE /\ buffered_invalid = FALSE
      /\ out = [next |-> FALSE, byte |-> 0, first |-> FALSE, last |-> FALSE,
                complete |-> FALSE, invalid |-> FALSE]
      /\ committed = << >> /\ taken = 0 /\ pending = << >> /\ streamed = << >>
      /\ wire = "quiet" /\ token = [pid |-> "none", endpoint |-> 0]
      /\ bus = << >> /\ intact = TRUE /\ packets = << >>
  BY DEF Init, R!Init, B!Init, O!Init, O!Fifo!Init
<1>2. ~Ends /\ ~Holds /\ ~Arriving
  BY <1>1 DEF Ends, Holds, Arriving
<1>3. OutTypes
  <2>1. ReceiverTypes /\ DetectorTypes
    BY <1>1 DEF ReceiverTypes, DetectorTypes
  <2>2. FifoTypes
    BY <1>1 DEF FifoTypes, SizeAssumption
  <2>3. SenderTypes
    BY <1>1 DEF SenderTypes
  <2>4. QED BY <2>1, <2>2, <2>3 DEF OutTypes
<1>4. Strobes /\ Stages /\ OnTheBus
  BY <1>1, <1>2 DEF Strobes, Stages, OnTheBus, Holds
<1>5. Judged /\ Position /\ Marked /\ Written /\ Chained
  BY <1>1, <1>2 DEF Judged, Position, Marked, Written, Chained
<1>6. Delivered
  <2>1. Kept = << >>
    <3>1. SubSeq(committed, taken + 1, Len(committed)) = << >>
      BY <1>1
    <3>2. QED BY <1>1, <3>1 DEF Kept, O!Fifo!Drop
  <2>2. QED BY <1>1, <2>1 DEF Delivered
<1>7. QED BY <1>3, <1>4, <1>5, <1>6 DEF OutInv, OutControl

LEMMA OutStutters == OutInv /\ UNCHANGED vars => OutInv'
<1> SUFFICES ASSUME OutInv, UNCHANGED vars PROVE OutInv'
  OBVIOUS
<1> USE DEF vars, receiverVars, detectorVars, outVars, outHostVars
<1>1. OutTypes' = OutTypes /\ Strobes' = Strobes /\ Settled' = Settled /\ Ends' = Ends /\ Holds' = Holds
  BY DEF OutTypes, ReceiverTypes, DetectorTypes, FifoTypes, SenderTypes, Strobes, Settled, Ends, Holds
<1>2. Arriving' = Arriving /\ Current' = Current /\ Kept' = Kept
  BY DEF Arriving, Ends, Holds, Current, Kept, O!Fifo!Drop
<1>3. Stages' = Stages /\ OnTheBus' = OnTheBus
  BY <1>1 DEF Stages, OnTheBus
<1>4. Judged' = Judged /\ Marked' = Marked /\ Chained' = Chained
  BY <1>2 DEF Judged, Marked, Chained, BytesOf
<1>5. Position' = Position
  BY <1>2 DEF Position, PacketByte
<1>6. Written' = Written
  BY <1>1, <1>2 DEF Written, BytesOf
<1>7. Delivered' = Delivered
  BY <1>2 DEF Delivered, IsByteOf, BytesOf
<1>8. QED BY <1>1, <1>3, <1>4, <1>5, <1>6, <1>7 DEF OutInv, OutControl

LEMMA OutInvariance ==
  ASSUME SizeAssumption
  PROVE  Spec => []OutInv
<1>1. Init => OutInv
  BY OutInit
<1>2. OutInv /\ [Next]_vars => OutInv'
  <2> SUFFICES ASSUME OutInv, [Next]_vars PROVE OutInv'
    OBVIOUS
  <2>1. CASE UNCHANGED vars
    BY <2>1, OutStutters
  <2>2. CASE Next
    <3>1. OutControl /\ Judged /\ Position /\ Marked /\ Written /\ Chained /\ Delivered
      BY DEF OutInv
    <3>2. Steps
      BY <2>2, <3>1, NextSteps DEF OutControl
    <3>3. OutControl'
      BY <3>1, <3>2, OutControlStep
    <3>4. Judged' /\ Position' /\ Marked' /\ Written' /\ Chained'
      BY <3>1, <3>2, <3>3, JudgedStep, PositionStep, MarkedStep, WrittenStep, ChainedStep
    <3>5. Delivered'
      BY <3>2, <3>3, DeliveredStep
    <3>6. QED BY <3>3, <3>4, <3>5 DEF OutInv
  <2>3. QED BY <2>1, <2>2
<1>3. QED BY <1>1, <1>2, PTL DEF Spec

\* Whatever a host sends and however harmed it arrives, the consumer of the isochronous OUT
\* endpoint gets bytes of undamaged packets only, in order and with the first and last bytes of
\* a packet marked, and no byte is missing of a packet that found room for two of the largest size, less one:
\* WholePacketsKept, for all sizes of packet and buffer.
THEOREM WholePacketsAreKept ==
  ASSUME SizeAssumption
  PROVE  Spec => []WholePacketsKept
<1>1. OutInv => WholePacketsKept
  <2> SUFFICES ASSUME OutInv PROVE WholePacketsKept
    OBVIOUS
  <2>1. OutControl /\ Delivered
    BY DEF OutInv
  <2>2. packets \in Seq(SentPacket) /\ streamed \in Seq(Entry) /\ committed \in Seq(Entry) /\ taken \in Nat
    BY <2>1 DEF OutControl, OutTypes, SenderTypes, FifoTypes
  <2>3. DOMAIN packets = 1 .. Len(packets) /\ Range(packets) = {packets[j] : j \in 1 .. Len(packets)}
    BY <2>2 DEF Range
  <2>4. Kept \in Seq(Entry) /\ DOMAIN Kept = 1 .. Len(Kept)
    <3>1. SubSeq(committed, taken + 1, Len(committed)) \in Seq(Entry)
      <4>1. \A k \in taken + 1 .. Len(committed) : committed[k] \in Entry
        BY <2>2
      <4>2. QED BY <2>2, <4>1, SubSeqProperties
    <3>2. Kept \in Seq(Entry)
      BY <2>2, <3>1, ConcatProperties DEF Kept, O!Fifo!Drop
    <3>3. QED BY <3>2
  <2>5. ASSUME NEW k \in DOMAIN Kept
        PROVE  /\ k > 1 => Kept[k - 1].byte < Kept[k].byte
               /\ \E p \in Range(packets) :
                    /\ p.whole /\ Kept[k].byte \in BytesOf(p)
                    /\ Kept[k].first <=> Kept[k].byte = p.from
                    /\ Kept[k].last  <=> Kept[k].byte = p.from + p.length - 1
    <3>1. k \in 1 .. Len(Kept)
      BY <2>4
    <3>2. PICK j \in 1 .. Len(packets) : IsByteOf(Kept[k], packets[j])
      BY <2>1, <3>1 DEF Delivered
    <3>3. packets[j] \in Range(packets)
      BY <2>3
    <3>4. k > 1 => Kept[k - 1].byte < Kept[k].byte
      BY <2>1, <3>1 DEF Delivered
    <3>5. QED BY <3>2, <3>3, <3>4 DEF IsByteOf
  <2>6. ASSUME Settled, wire \in {"quiet", "asked"}, NEW p \in Range(packets), p.whole, p.roomy,
               NEW b \in BytesOf(p)
        PROVE  b \in {Kept[k].byte : k \in DOMAIN Kept}
    <3>1. ~Arriving
      BY <2>6 DEF Settled, Arriving, Ends, Holds
    <3>2. PICK j \in 1 .. Len(packets) : p = packets[j]
      BY <2>3
    <3>3. PICK k \in 1 .. Len(Kept) : Kept[k].byte = b
      BY <2>1, <2>6, <3>1, <3>2 DEF Delivered
    <3>4. QED BY <2>4, <3>3
  <2>7. QED BY <2>5, <2>6 DEF WholePacketsKept
<1>2. Spec => []OutInv
  BY OutInvariance
<1>3. QED BY <1>1, <1>2, PTL
==================================================================================
