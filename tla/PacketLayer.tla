------------------------------- MODULE PacketLayer -------------------------------
(***************************************************************************)
(* The packet layer of a USBDevice, src/liteusb/gateware/usb/usb2/         *)
(* device.py: token detector, handshake detector and data packet receiver  *)
(* read the same bytes side by side, one CRC register serves reception and *)
(* transmission, and the packet generators share the transmitter.  A host  *)
(* sends packets whole, cut off, too long or with a wrong bit; endpoints   *)
(* answer when the timers let them.                                        *)
(***************************************************************************)
EXTENDS Integers, Sequences, FiniteSets, SequencesExt

CONSTANTS
  Speeds,         \* subset of DOMAIN RxToTx: what the bus and the clock may be
  OwnAddress, OtherAddress, Endpoint,   \* numbers
  Payloads,       \* payloads of data packets, both ways
  Flips,          \* bits of a packet that may arrive wrong
  Latency,        \* clocks an endpoint may take to look its answer up, at most
  Slack,          \* clocks the host waits beyond the earliest answer, at least
  MaxStalls,      \* clocks without a byte within a packet, at most
  MaxFrame, MicroFrames,   \* bounds: frames and microframes
  MaxPackets, MaxDamaged   \* bounds: how many packets the host sends, and damaged ones

VARIABLES
  tok_state, token_data, current_pid, tokenizer,                      \* USBTokenDetector
  hd_state, hd_pid, detected,                                         \* USBHandshakeDetector
  rx_state, active_pid, data_pipeline, packet_complete, crc_mismatch, \* USBDataPacketReceiver
  last_byte_crc, last_word_crc,
  tx_state, packet_pid, is_zlp, remaining_crc,                        \* USBDataPacketGenerator
  hg_state, hg_data,                                                  \* USBHandshakeGenerator
  crc,                                                                \* USBDataPacketCRC
  counter, token_counter, rx_to_tx_delay,                             \* the timers
  frame_number, microframe_number,                                    \* USBDevice
  speed,
  utmi,        \* what the transceiver shows: [active, valid, data]
  host,        \* [packet, left, stalls]: the packet until it is reported, the bytes to come
  sent,        \* [packets, damaged]: how many so far
  sof,         \* [frame, micro, lost]: the last frame packet sent; whether this frame lost one
  since,       \* clocks since the end of the host's packet, before an answer
  stream,      \* [left, first, zlp, pid]: what an endpoint has to send
  lag,         \* clocks the endpoint has taken since it was asked, until its answer is over
  asked,       \* history: the packet that has been asked for, << >> if none
  sending,     \* history: the bytes the transceiver has accepted of it
  collected,   \* history: the payload received of this packet
  bus_token    \* history: [pid, ours, intact]: the last token of the host, as it was sent

tokVars == <<tok_state, token_data, current_pid, tokenizer>>
hdVars == <<hd_state, hd_pid, detected>>
rxVars == <<rx_state, active_pid, data_pipeline, packet_complete, crc_mismatch,
            last_byte_crc, last_word_crc>>
txVars == <<tx_state, packet_pid, is_zlp, remaining_crc, hg_state, hg_data>>
hostVars == <<utmi, host, sent, sof, since, collected, bus_token>>
vars == <<tokVars, hdVars, rxVars, txVars, crc, counter, token_counter, rx_to_tx_delay,
          frame_number, microframe_number, speed, hostVars, stream, lag, asked, sending>>

\* USBInterpacketTimer's delays: the earliest and the latest clock of an answer.
RxToTx == [hs60 |-> <<1, 24>>, fs12 |-> <<2, 7>>, fs60 |-> <<10, 32>>, ls60 |-> <<80, 260>>]
earliest == RxToTx[speed][1]
latest   == RxToTx[speed][2]
MaxSince == latest + Latency   \* bound: from then on the clocks are not counted
Delays == {RxToTx[s][1] : s \in Speeds}
counter_max == rx_to_tx_delay + 1   \* bound: the code's maximum is longer, and as idle

C  == INSTANCE PacketCRC
D  == INSTANCE TokenDetector
H  == INSTANCE Handshakes
R  == INSTANCE DataPacketReceiver
G  == INSTANCE DataPacketGenerator

---------------------------------------------------------------------------
(* Packets, by the USB specification *)

Bits(n, width) == C!Bits(n, width)
PidByte(pid) == pid \o C!Not(pid)

Token(pid, word) ==
  LET checked == word \o C!Crc5(word)
  IN  <<PidByte(pid), SubSeq(checked, 1, 8), SubSeq(checked, 9, 16)>>
TokenTo(pid, address) == Token(pid, Bits(address, 7) \o Bits(Endpoint, 4))
Sof(frame) == Token(D!SOF_PID, Bits(frame, 11))

DataPids == <<<<1, 1, 0, 0>>, <<1, 1, 0, 1>>, <<1, 1, 1, 0>>, <<1, 1, 1, 1>>>>
Data(pid, payload) ==
  LET checksum == C!Crc16(FlattenSeq(payload))
  IN  <<PidByte(DataPids[pid + 1])>> \o payload \o <<SubSeq(checksum, 1, 8), SubSeq(checksum, 9, 16)>>
Handshake(name) == <<PidByte(H!HandshakePids[name])>>

\* What the bytes of a packet after its PID are, and whether they are whole.
TokenWord(packet) == packet[2] \o SubSeq(packet[3], 1, 3)
TokenIsWhole(packet) == Len(packet) = 3 /\ C!Crc5(TokenWord(packet)) = SubSeq(packet[3], 4, 8)
Payload(packet) == SubSeq(packet, 2, Len(packet) - 2)
DataIsWhole(packet) ==
  C!Crc16(FlattenSeq(Payload(packet))) = packet[Len(packet) - 1] \o packet[Len(packet)]

\* What a packet tells this device: an event, or nothing.
Meaning(packet) ==
  IF packet = << >> \/ ~D!PidIntact(packet[1]) THEN {}
  ELSE LET pid == D!Pid(packet[1])
           word == TokenWord(packet)
       IN  CASE pid = D!SOF_PID ->
                  IF TokenIsWhole(packet) THEN {[kind |-> "sof", frame |-> word]} ELSE {}
             [] pid \in {D!OUT_PID, D!IN_PID, D!SETUP_PID, D!PING_PID} ->
                  IF TokenIsWhole(packet) /\ SubSeq(word, 1, 7) = Bits(OwnAddress, 7)
                  THEN {[kind |-> "token", pid |-> pid, endpoint |-> SubSeq(word, 8, 11)]} ELSE {}
             [] \E h \in DOMAIN H!HandshakePids : H!HandshakePids[h] = pid ->
                  IF Len(packet) = 1 THEN {[kind |-> "handshake", name |-> H!HandshakeOf(pid)]} ELSE {}
             [] \E k \in 1 .. 4 : DataPids[k] = pid ->
                  IF Len(packet) < 3 THEN {}
                  ELSE IF DataIsWhole(packet)
                       THEN {[kind |-> "data", toggle |-> pid[4], payload |-> Payload(packet)]}
                       ELSE {[kind |-> "invalid"]}
             [] OTHER -> {}

---------------------------------------------------------------------------
(* Wiring *)

address == Bits(OwnAddress, 7)
output_crc == C!output_crc(crc)

\* The checksum before the last two bytes, against these.
RxInput ==
  [active |-> utmi.active, valid |-> utmi.valid, byte |-> utmi.data,
   kind |-> IF D!PidIntact(utmi.data) /\ SubSeq(utmi.data, 1, 2) = <<1, 1>> THEN "data" ELSE "other",
   toggle |-> utmi.data[4],
   crc_matches |-> last_word_crc = data_pipeline[1] \o data_pipeline[2]]

KeepCrc ==
  IF utmi.valid /\ rx_state \in {"RECEIVE_FIRST_BYTE", "RECEIVE_SECOND_BYTE", "RECEIVE_AND_EMIT"}
  THEN /\ last_byte_crc' = output_crc
       /\ last_word_crc' = IF rx_state = "RECEIVE_FIRST_BYTE" THEN last_word_crc ELSE last_byte_crc
  ELSE UNCHANGED <<last_byte_crc, last_word_crc>>

tx_allowed == counter = rx_to_tx_delay
\* Mutant: once allowed, an answer to a token stays allowed.
token_tx_allowed_on == token_counter >= rx_to_tx_delay
token_tx_allowed == token_counter = rx_to_tx_delay

TimerClock(count, start) == IF start THEN 0 ELSE IF count < counter_max + 1 THEN count + 1 ELSE count

\* The endpoint's stream, and the byte the generator shows the transceiver.
stream_valid == stream.left # << >> \/ stream.zlp
stream_last == stream.zlp \/ Len(stream.left) = 1

GeneratorByte ==
  CASE tx_state = "SEND_PID"        -> PidByte(DataPids[packet_pid + 1])
    [] tx_state = "SEND_PAYLOAD"    -> IF stream.left # << >> THEN Head(stream.left) ELSE C!Byte(0)
    [] tx_state = "SEND_CRC_FIRST"  -> SubSeq(output_crc, 1, 8)
    [] tx_state = "SEND_CRC_SECOND" -> remaining_crc

generator_valid ==
  \/ tx_state \in {"SEND_PID", "SEND_CRC_FIRST", "SEND_CRC_SECOND"}
  \/ tx_state = "SEND_PAYLOAD" /\ stream_valid

\* UTMIInterfaceMultiplexer: OR of the valids, OR of the bytes that are valid.
tx_valid == generator_valid \/ H!tx_valid
tx_data ==
  LET bytes == (IF generator_valid THEN {GeneratorByte} ELSE {}) \cup (IF H!tx_valid THEN {hg_data} ELSE {})
  IN  [k \in 1 .. 8 |-> IF \E b \in bytes : b[k] = 1 THEN 1 ELSE 0]

crc_clear == rx_state = "READ_PID" \/ tx_state = "SEND_PID"

\* Mutant: sending does not clear the register that reception has used.
ClearedByReception(tx_ready) ==
  IF rx_state = "READ_PID" THEN C!initial_value
  ELSE IF utmi.valid THEN C!generate_next_crc(crc, utmi.data)
  ELSE IF tx_valid /\ tx_ready THEN C!generate_next_crc(crc, tx_data) ELSE crc
NextCrc(tx_ready) ==
  IF crc_clear THEN C!initial_value
  ELSE IF utmi.valid THEN C!generate_next_crc(crc, utmi.data)
  ELSE IF tx_valid /\ tx_ready THEN C!generate_next_crc(crc, tx_data) ELSE crc

new_frame == tokenizer.new_frame /\ tokenizer.frame # frame_number

\* Mutant: the microframes are counted over all frames.
MicroframesOn == (microframe_number + 1) % 8
NextMicroframe == IF new_frame THEN 0 ELSE (microframe_number + 1) % 8

FrameClock ==
  IF tokenizer.new_frame
  THEN frame_number' = tokenizer.frame /\ microframe_number' = NextMicroframe
  ELSE UNCHANGED <<frame_number, microframe_number>>

DeviceClock(issue, tx_ready) ==
  /\ D!Clock(utmi, address)
  /\ H!DetectorClock(utmi)
  /\ R!Clock(RxInput, tx_allowed) /\ KeepCrc
  /\ remaining_crc' = IF tx_state = "SEND_CRC_FIRST" THEN SubSeq(output_crc, 9, 16) ELSE remaining_crc
  /\ H!GeneratorClock(issue, tx_ready)
  /\ crc' = NextCrc(tx_ready)
  /\ \E again \in (IF packet_complete THEN BOOLEAN ELSE {FALSE}) :   \* up to eight bytes: new_packet
       counter' = TimerClock(counter, R!timer_start(RxInput) \/ again)
  /\ token_counter' = TimerClock(token_counter, D!timer_start(utmi, address))
  /\ UNCHANGED <<rx_to_tx_delay, speed>>
  /\ FrameClock

---------------------------------------------------------------------------
(* The host *)

Damaged(packet) ==
  {SubSeq(packet, 1, n) : n \in {0, 1, Len(packet) - 1} \ {Len(packet)}}
    \cup {Append(packet, C!Byte(0))}
    \cup {[packet EXCEPT ![(k \div 8) + 1][(k % 8) + 1] = 1 - @] : k \in Flips \cap 0 .. 8 * Len(packet) - 1}

Tokens == [pid : {D!OUT_PID, D!IN_PID, D!SETUP_PID, D!PING_PID}, ours : {TRUE}]
            \cup {[pid |-> D!OUT_PID, ours |-> FALSE]}
TokenPackets == [t \in Tokens |-> TokenTo(t.pid, IF t.ours THEN OwnAddress ELSE OtherAddress)]
OtherPackets == {Handshake("ack"), Handshake("nyet")} \cup {Data(Len(p) % 2, p) : p \in Payloads}
SofPackets == {Sof(frame) : frame \in 1 .. MaxFrame}

Variants == [packet \in SofPackets \cup OtherPackets \cup {TokenPackets[t] : t \in Tokens} |-> Damaged(packet)]

\* The packet as it was made, or one of its damaged forms, within the bound.
Arrives(packet, intact) ==
  /\ sent.packets < MaxPackets
  /\ \E arriving \in IF intact THEN {packet}
                     ELSE IF sent.damaged < MaxDamaged THEN Variants[packet] ELSE {} :
       host' = [packet |-> arriving, left |-> arriving, stalls |-> 0]
  /\ sent' = [packets |-> sent.packets + 1, damaged |-> sent.damaged + IF intact THEN 0 ELSE 1]
  /\ utmi' = [utmi EXCEPT !.active = TRUE]

SendToken ==
  \E t \in Tokens, intact \in BOOLEAN :
    /\ Arrives(TokenPackets[t], intact)
    /\ bus_token' = [pid |-> t.pid, ours |-> t.ours, intact |-> intact]
    /\ UNCHANGED sof

SendOther ==
  \E packet \in OtherPackets, intact \in BOOLEAN : Arrives(packet, intact) /\ UNCHANGED <<sof, bus_token>>

NextSof == IF sof.micro + 1 < (IF speed = "hs60" THEN MicroFrames ELSE 1)
           THEN [sof EXCEPT !.micro = @ + 1]
           ELSE [frame |-> (sof.frame % MaxFrame) + 1, micro |-> 0, lost |-> FALSE]

SendSof ==
  \E intact \in BOOLEAN :
    /\ Arrives(Sof(NextSof.frame), intact)
    /\ sof' = [NextSof EXCEPT !.lost = @ \/ ~intact]
    /\ UNCHANGED bus_token

\* The host sends when the bus is free and no answer is due any more.
MaySend == ~utmi.active /\ since >= rx_to_tx_delay + Slack /\ ~tx_valid /\ asked = << >>

SendByte ==
  /\ utmi.active
  /\ \/ /\ host.left # << >>
        /\ utmi' = [active |-> TRUE, valid |-> TRUE, data |-> Head(host.left)]
        /\ host' = [host EXCEPT !.left = Tail(@)]
     \/ /\ host.stalls < MaxStalls
        /\ utmi' = [utmi EXCEPT !.valid = FALSE]
        /\ host' = [host EXCEPT !.stalls = @ + 1]
     \/ /\ host.left = << >>
        /\ utmi' = [active |-> FALSE, valid |-> FALSE, data |-> C!Byte(0)]
        /\ UNCHANGED host
  /\ UNCHANGED <<sent, sof, bus_token>>

HostClock ==
  /\ \/ SendByte
     \/ MaySend /\ (SendToken \/ SendOther \/ SendSof)
     \/ /\ ~utmi.active
        /\ host' = [host EXCEPT !.packet = IF since = 0 THEN @ ELSE << >>]
        /\ UNCHANGED <<utmi, sent, sof, bus_token>>
  /\ since' = IF utmi'.active THEN 0
              ELSE IF utmi.active \/ tx_valid \/ since > MaxSince THEN since ELSE since + 1
  /\ collected' = IF ~utmi.active /\ utmi'.active THEN << >>
                  ELSE IF R!stream_next(RxInput) THEN Append(collected, R!stream_payload) ELSE collected

---------------------------------------------------------------------------
(* The endpoints: what they answer is theirs, when is up to the timers *)

free == asked = << >>

\* The handler of GET_DESCRIPTOR looks up what it was asked for; the others know at once.
MayAnswerIn == free /\ ((token_tx_allowed /\ tokenizer.pid = D!IN_PID) \/ lag > 0)
MayAnswerPing == free /\ token_tx_allowed /\ tokenizer.pid = D!PING_PID
MayAnswerOut == free /\ R!ready_for_response(tx_allowed) /\ tokenizer.pid \in {D!OUT_PID, D!SETUP_PID}
\* At high speed a SETUP packet is acknowledged in the clock after its end.
MayAnswerSetup == free /\ speed = "hs60" /\ packet_complete /\ tokenizer.pid = D!SETUP_PID /\ ~tokenizer.new_token

Shake(names, issue) ==
  /\ \E name \in names : issue = {name} /\ asked' = Handshake(name)
  /\ UNCHANGED <<stream, lag>>

SendStream(issue) ==
  /\ issue = {} /\ UNCHANGED lag
  /\ \E pid \in {0, 1}, payload \in Payloads :
       /\ stream' = [left |-> payload, first |-> payload # << >>, zlp |-> payload = << >>, pid |-> pid]
       /\ asked' = Data(pid, payload)

LookUp(issue) == lag < Latency /\ lag' = lag + 1 /\ issue = {} /\ UNCHANGED <<stream, asked>>

\* An empty packet that is shown to the generator in the clock of the request itself.
SendZlp(issue) ==
  /\ MayAnswerIn /\ issue = {} /\ << >> \in Payloads /\ UNCHANGED <<stream, lag>>
  /\ \E pid \in {0, 1} : G!Clock(pid, FALSE, TRUE, TRUE, FALSE) /\ asked' = Data(pid, << >>)

StreamClock(tx_ready) ==
  stream' = IF stream.zlp THEN [stream EXCEPT !.zlp = FALSE]
            ELSE IF G!stream_ready(tx_ready /\ tx_valid) /\ stream.left # << >>
                 THEN [stream EXCEPT !.left = Tail(@), !.first = FALSE] ELSE stream

GeneratorClock(tx_ready) == G!Clock(stream.pid, stream.first, stream_last, stream_valid, tx_ready /\ tx_valid)

EndpointClock(issue, tx_ready) ==
  \/ SendZlp(issue)
  \/ /\ GeneratorClock(tx_ready)
     /\ \/ MayAnswerIn /\ (SendStream(issue) \/ Shake({"nak", "stall"}, issue) \/ LookUp(issue))
        \/ MayAnswerPing /\ Shake({"ack", "nak"}, issue)
        \/ MayAnswerOut /\ Shake({"ack", "nak", "stall"}, issue)
        \/ MayAnswerSetup /\ Shake({"ack"}, issue)
        \/ /\ issue = {} /\ StreamClock(tx_ready)
           /\ asked' = IF sending # << >> /\ ~tx_valid THEN << >> ELSE asked
           /\ lag' = IF asked' = << >> THEN 0 ELSE lag

Next ==
  \E issue \in {{}, {"ack"}, {"nak"}, {"stall"}}, tx_ready \in (IF tx_valid THEN BOOLEAN ELSE {FALSE}) :
    /\ EndpointClock(issue, tx_ready)
    /\ DeviceClock(issue, tx_ready)
    /\ HostClock
    /\ sending' = IF tx_valid /\ tx_ready THEN Append(sending, tx_data)
                  ELSE IF ~tx_valid THEN << >> ELSE sending

Init ==
  /\ D!Init /\ H!DetectorInit /\ R!Init(C!Byte(0)) /\ G!Init /\ H!GeneratorInit
  /\ last_byte_crc = D!Zeros(16) /\ last_word_crc = D!Zeros(16) /\ remaining_crc = C!Byte(0)
  /\ crc = C!initial_value
  /\ speed \in Speeds /\ rx_to_tx_delay = RxToTx[speed][1]
  /\ counter = 0 /\ token_counter = 0
  /\ frame_number = Bits(0, 11) /\ microframe_number = 0
  /\ utmi = [active |-> FALSE, valid |-> FALSE, data |-> C!Byte(0)]
  /\ host = [packet |-> << >>, left |-> << >>, stalls |-> 0]
  /\ sof = [frame |-> 0, micro |-> MicroFrames, lost |-> FALSE] /\ sent = [packets |-> 0, damaged |-> 0]
  /\ since = MaxSince + 1
  /\ stream = [left |-> << >>, first |-> FALSE, zlp |-> FALSE, pid |-> 0] /\ lag = 0
  /\ asked = << >> /\ sending = << >> /\ collected = << >>
  /\ bus_token = [pid |-> D!NO_PID, ours |-> FALSE, intact |-> TRUE]

Spec == Init /\ [][Next]_vars

---------------------------------------------------------------------------
TypeOK ==
  /\ D!TypeOK /\ G!TypeOK
  /\ Len(crc) = 16 /\ counter \in 0 .. counter_max + 1 /\ token_counter \in 0 .. counter_max + 1
  /\ since \in 0 .. MaxSince + 1 /\ lag \in 0 .. Latency

\* What the three readers of the bus report in this clock.
Reports ==
  (IF tokenizer.new_token
   THEN {[kind |-> "token", pid |-> tokenizer.pid, endpoint |-> tokenizer.endpoint]} ELSE {})
  \cup (IF tokenizer.new_frame THEN {[kind |-> "sof", frame |-> tokenizer.frame]} ELSE {})
  \cup (IF detected # "none" THEN {[kind |-> "handshake", name |-> detected]} ELSE {})
  \cup (IF packet_complete THEN {[kind |-> "data", toggle |-> active_pid, payload |-> collected]} ELSE {})
  \cup (IF crc_mismatch THEN {[kind |-> "invalid"]} ELSE {})

\* Every packet is reported once, by one of the readers and as what it is, in the clock after
\* its end; what is cut off, too long or has a wrong bit is not reported as anything else.
ReportedAsSent ==
  Reports = IF ~utmi.active /\ since = 1 THEN Meaning(host.packet) ELSE {}

\* A data packet for another device is not taken for one of ours, if its token arrived.
OthersDataIgnored ==
  packet_complete /\ bus_token.intact /\ ~bus_token.ours => tokenizer.pid = D!NO_PID

\* The packets this device sends are those its endpoints asked for, with a right checksum,
\* even though the register that makes it checks the received packets as well.
AnswersWellFormed ==
  IF tx_valid THEN IsPrefix(sending, asked) ELSE sending # << >> => sending = asked

\* Detectors, timers and generators take three clocks of the time the USB specification leaves for
\* an answer.  It never starts too early, and not too late if the endpoint takes no more than the rest.
Spare == latest - earliest - 3
AnswersInTime == tx_valid => since >= earliest /\ (lag <= Spare => since <= latest)

\* The frame number is the host's, and the microframe's too unless one of the frame was lost.
FramesFollow ==
  ~utmi.active /\ since > 1 /\ sof.frame > 0 /\ ~sof.lost =>
    frame_number = Bits(sof.frame, 11) /\ microframe_number = sof.micro

---------------------------------------------------------------------------
(* A small instance *)

SmallPayloads == {<< >>, <<C!Byte(165), C!Byte(3)>>}

\* The equations for tokens are those of the polynomial, for every token.
ASSUME TokenCrcAgrees ==
  \A word \in C!Words(11) : C!generate_crc_for_token(word) = C!Crc5(word)

\* A wrong bit in a token changes its checksum.
ASSUME WrongBitShows ==
  \A word \in C!Words(11) : \A k \in 1 .. 11 : C!Crc5([word EXCEPT ![k] = 1 - @]) # C!Crc5(word)

\* The equations for data are those of the polynomial, for what host and device send here.
ASSUME DataCrcAgrees ==
  /\ \A payload \in Payloads : C!FollowsPolynomial(payload)
  /\ \A packet \in DOMAIN Variants : \A arriving \in {packet} \cup Variants[packet] :
       C!FollowsPolynomial(SubSeq(arriving, 2, Len(arriving)))

\* A host that waits out the answers, and frame numbers that do not come round while
\* all packets in between are lost.
ASSUME PacketAssumption ==
  /\ Speeds \subseteq DOMAIN RxToTx
  /\ OwnAddress \in 0 .. 127 /\ OtherAddress \in 0 .. 127 \ {OwnAddress} /\ Endpoint \in 0 .. 15
  /\ Payloads \subseteq Seq(C!Words(8))
  /\ Latency \in Nat /\ Slack \in Nat /\ Slack >= Latency + 3
  /\ MaxDamaged \in Nat /\ MaxFrame \in Nat /\ MaxDamaged + 1 < MaxFrame /\ MaxFrame < 2048
  /\ MicroFrames \in 1 .. 8
=================================================================================
