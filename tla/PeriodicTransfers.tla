---------------------------- MODULE PeriodicTransfers ----------------------------
(***************************************************************************)
(* A USBDevice with the endpoints that a host serves frame by frame: an    *)
(* isochronous endpoint in either direction and a status endpoint, behind  *)
(* the endpoint multiplexer.  The host sends frame packets, asks for data, *)
(* asks again for a status it did not get, and sends data nobody answers,  *)
(* over a bus that loses and corrupts packets and that other devices       *)
(* share.  One step is one usb clock.                                      *)
(***************************************************************************)
EXTENDS Integers, Sequences, SequencesExt

CONSTANTS
  max_packet_size, buffer_size, bytes_in_signal,
  Delays, counter_max,
  FrameSizes,     \* what bytes_in_frame may be
  SignalValues,   \* what the signal may be
  Traffic,        \* sets of {"iso_in", "status", "iso_out"}: what a host makes use of
  MaxFrames,      \* bound: how many frames
  MaxPackets,     \* bound: how many packets the host sends
  MaxMisses,      \* bound: how many answers and ACKs get lost
  Nobody

ASSUME SizeAssumption ==
  /\ max_packet_size \in Nat \ {0} /\ bytes_in_signal \in Nat \ {0}
  /\ buffer_size \in Nat /\ buffer_size >= max_packet_size
  /\ FrameSizes \subseteq 0 .. 3 * max_packet_size

VARIABLES
  counter, rx_to_tx_delay,                                             \* USBInterpacketTimer
  rx_state, active_pid, data_pipeline, packet_complete, crc_mismatch,  \* USBDataPacketReceiver
  bd_state, buffered_byte, is_first_byte, buffered_complete, buffered_invalid, out,
  committed, taken, pending,                                           \* the OUT endpoint
  iso_state, bytes_left_in_frame, bytes_left_in_packet, next_data_pid, iso_first, frame_finished,
  address,                                                             \* the isochronous IN endpoint
  status_state, latched_signal, bytes_transmitted, status_pid,         \* the status endpoint
  past_valid,                                                          \* the multiplexer
  tx_state, packet_pid, is_zlp,                                        \* USBDataPacketGenerator
  token,         \* the token detector's last token: [pid, endpoint]
  traffic,
  streamed,      \* what the consumer of the OUT endpoint's stream has taken
  wire,          \* what is on the bus
  incoming,      \* the bytes of the answer so far
  frame,         \* [count, size, heard, packets]: this frame, and what came of it
  status,        \* [toggle, got, stolen]: the host's toggle, the last value it took, and whether
                 \* another's ACK has since been taken for that of a value it did not get
  status_read,   \* the last value the status endpoint called read
  misses,
  bus, intact,   \* the rest of the host's packet, and whether it will arrive unharmed
  packets        \* the packets the host has sent: [from, length, whole, roomy]

receiverVars == <<counter, rx_to_tx_delay, rx_state, active_pid, data_pipeline, packet_complete, crc_mismatch>>
detectorVars == <<bd_state, buffered_byte, is_first_byte, buffered_complete, buffered_invalid, out>>
outVars      == <<committed, taken, pending, streamed>>
isoVars      == <<iso_state, bytes_left_in_frame, bytes_left_in_packet, next_data_pid, iso_first, frame_finished,
                  address>>
statusVars   == <<status_state, latched_signal, bytes_transmitted, status_pid>>
txVars       == <<past_valid, tx_state, packet_pid, is_zlp>>
inHostVars   == <<incoming, frame, misses, status>>
outHostVars  == <<bus, intact, packets>>
vars == <<receiverVars, detectorVars, outVars, isoVars, statusVars, txVars, token, traffic, wire,
          inHostVars, status_read, outHostVars>>

T == INSTANCE InterpacketTimer
R == INSTANCE DataPacketReceiver
B == INSTANCE OutStreamBoundaryDetector
O == INSTANCE IsochronousOutEndpoint
I == INSTANCE IsochronousInEndpoint
S == INSTANCE SignalInEndpoint
X == INSTANCE EndpointMultiplexer
G == INSTANCE DataPacketGenerator

---------------------------------------------------------------------------
(* The device *)

ISO == 1      \* endpoint numbers
STATUS == 2

Silence == [active |-> FALSE, valid |-> FALSE, byte |-> 0, kind |-> "other", toggle |-> 0,
            crc_matches |-> FALSE]

Sample(k) == <<"sample", "at", k>>

\* The interfaces of the two endpoints that transmit.
tx == << [valid |-> S!tx_valid, first |-> S!tx_first, last |-> S!tx_last,
          payload |-> <<latched_signal, bytes_transmitted>>, pid |-> status_pid],
         [valid |-> I!tx_valid, first |-> iso_first, last |-> I!tx_last,
          payload |-> Sample(address), pid |-> next_data_pid] >>

\* Mutant: the number of the endpoint is not looked at.
TargetedAny(pid, endpoint) == token.pid = pid
Targeted(pid, endpoint) == token = [pid |-> pid, endpoint |-> endpoint]

\* What a clock brings: new_frame, new_token, ready_for_response, ack and tx_ready; u is
\* the receiver's side of it.
Nothing == [new_frame |-> FALSE, new_token |-> FALSE, ready |-> FALSE, ack |-> FALSE, tx_ready |-> FALSE]

DeviceClock(u, s, signal, stream_ready) ==
  LET ready == G!stream_ready(s.tx_ready)
      status_in == [signal |-> signal, packet_requested |-> s.ready /\ Targeted("in", STATUS),
                    ready |-> ready, ack |-> s.ack, new_token |-> s.new_token]
      out_in == [is_out |-> Targeted("out", ISO), rx |-> out, stream_ready |-> stream_ready]
  IN  /\ T!Tick(R!timer_start(u))
      /\ R!Clock(u, T!tx_allowed)
      /\ B!Clock([valid |-> R!stream_valid, next |-> R!stream_next(u), payload |-> R!stream_payload,
                  complete |-> packet_complete, invalid |-> crc_mismatch])
      /\ O!Clock(out_in) /\ streamed' = streamed \o O!stream_taken(out_in)
      /\ I!Clock([new_frame |-> s.new_frame, bytes_in_frame |-> frame'.size,
                  data_requested |-> s.ready /\ Targeted("in", ISO), ready |-> ready])
      /\ S!Clock(status_in)
      /\ X!Clock(tx)
      /\ G!Clock(X!tx_pid_toggle(tx), X!first(tx), X!last(tx), X!valid(tx), s.tx_ready)
      /\ status_read' = IF S!status_read_complete(status_in) THEN latched_signal ELSE status_read
      /\ UNCHANGED traffic

\* The signal is looked at when the endpoint answers, the consumer in any clock.
Clock(u, s) ==
  \E signal \in IF s.ready THEN SignalValues ELSE {latched_signal},
     stream_ready \in IF "iso_out" \in traffic THEN BOOLEAN ELSE {FALSE} :
    DeviceClock(u, s, signal, stream_ready)

\* The device has dealt with what it received; a host leaves it more time than that.
Settled ==
  /\ rx_state = "IDLE" /\ ~packet_complete /\ ~crc_mismatch
  /\ bd_state = "WAIT_FOR_FIRST_BYTE" /\ ~out.next /\ ~out.complete /\ ~out.invalid

---------------------------------------------------------------------------
(* The host: frames and what it asks for *)

QuietClock ==
  /\ wire \in {"quiet", "asked", "ack", "token"}
  /\ UNCHANGED <<token, wire, inHostVars, outHostVars>>
  /\ Clock(Silence, Nothing)

Miss == misses < MaxMisses /\ misses' = misses + 1

\* A frame packet arrives, or does not.
Sof(heard) ==
  /\ wire = "quiet" /\ Settled /\ frame.count < MaxFrames /\ "iso_in" \in traffic
  /\ IF heard THEN UNCHANGED misses ELSE Miss
  /\ \E size \in IF heard THEN FrameSizes ELSE {frame.size} :
       frame' = [count |-> frame.count + 1, size |-> size, heard |-> heard, packets |-> << >>]
  /\ UNCHANGED <<token, wire, incoming, status, outHostVars>>
  /\ Clock(Silence, [Nothing EXCEPT !.new_frame = heard])

\* DATA0 is the last packet of a frame, and so is a third one; after a packet that is
\* missing the host does not ask again either.
Missing == [pid |-> -1, length |-> 0]
FrameDone ==
  frame.packets # << >> /\ (Len(frame.packets) = 3 \/ Last(frame.packets).pid = 0
                            \/ Last(frame.packets) = Missing)

\* An IN token ...
Ask(endpoint) ==
  /\ wire = "quiet" /\ Settled
  /\ token' = [pid |-> "in", endpoint |-> endpoint] /\ wire' = "asked"
  /\ UNCHANGED <<inHostVars, outHostVars>>
  /\ Clock(Silence, [Nothing EXCEPT !.new_token = TRUE])
AskIso == "iso_in" \in traffic /\ frame.count > 0 /\ ~FrameDone /\ Ask(ISO)
AskStatus == "status" \in traffic /\ Ask(STATUS)

\* ... is to be answered now ...
Answer ==
  /\ wire = "asked" /\ wire' = "answer"
  /\ UNCHANGED <<token, inHostVars, outHostVars>>
  /\ Clock(Silence, [Nothing EXCEPT !.ready = TRUE])

\* ... byte after byte, with pauses as the transceiver pleases ...
Transmit(tx_ready) ==
  /\ wire = "answer" /\ ~(tx_ready /\ tx_state = "SEND_CRC_SECOND")
  /\ incoming' = IF G!stream_ready(tx_ready) /\ X!valid(tx) THEN Append(incoming, X!payload(tx)) ELSE incoming
  /\ UNCHANGED <<token, wire, frame, misses, status, outHostVars>>
  /\ Clock(Silence, [Nothing EXCEPT !.tx_ready = tx_ready])

\* ... up to the last one, by which the packet has reached the host or not.
EndOfPacket(from, next_wire) ==
  /\ wire = "answer" /\ tx_state = "SEND_CRC_SECOND" /\ token.endpoint = from
  /\ wire' = next_wire /\ incoming' = << >>
  /\ UNCHANGED <<token, outHostVars>>
  /\ Clock(Silence, [Nothing EXCEPT !.tx_ready = TRUE])

IsoEnds(packet) ==
  frame' = [frame EXCEPT !.packets = Append(@, packet)] /\ UNCHANGED status /\ EndOfPacket(ISO, "quiet")
IsoArrives == UNCHANGED misses /\ IsoEnds([pid |-> packet_pid, length |-> Len(incoming)])
IsoMissed  == Miss /\ IsoEnds(Missing)

\* A status with the other toggle is the one the host has; it is acknowledged as well.
StatusArrives ==
  /\ wire = "answer" /\ token.endpoint = STATUS /\ tx_state = "SEND_CRC_SECOND"
  /\ status' = IF packet_pid = status.toggle
               THEN [toggle |-> 1 - status.toggle, got |-> incoming[1][1], stolen |-> FALSE] ELSE status
  /\ UNCHANGED <<frame, misses>>
  /\ EndOfPacket(STATUS, "ack")
StatusMissed == Miss /\ UNCHANGED <<frame, status>> /\ EndOfPacket(STATUS, "quiet")

Ack(arrives) ==
  /\ wire = "ack" /\ wire' = "quiet"
  /\ IF arrives THEN UNCHANGED misses ELSE Miss
  /\ UNCHANGED <<token, incoming, frame, status, outHostVars>>
  /\ Clock(Silence, [Nothing EXCEPT !.ack = arrives])

\* The host has a packet of another device and acknowledges it; that is heard by all devices.
ForeignAck ==
  /\ wire = "quiet" /\ Settled
  /\ token' = [pid |-> "none", endpoint |-> 0]
  /\ status' = [status EXCEPT !.stolen = @ \/ (status_state = "WAIT_FOR_ACK" /\ status_pid = status.toggle)]
  /\ UNCHANGED <<wire, incoming, frame, misses, outHostVars>>
  /\ Clock(Silence, [Nothing EXCEPT !.ack = TRUE])

---------------------------------------------------------------------------
(* The host: what it sends.  The n-th byte it sends to the endpoint is n. *)

Sent == IF packets = << >> THEN 0 ELSE Last(packets).from + Last(packets).length - 1

OutToken(endpoint) ==
  /\ wire = "quiet" /\ Settled /\ "iso_out" \in traffic /\ Len(packets) < MaxPackets
  /\ token' = [pid |-> "out", endpoint |-> endpoint] /\ wire' = "token"
  /\ UNCHANGED <<inHostVars, outHostVars>>
  /\ Clock(Silence, [Nothing EXCEPT !.new_token = TRUE])

\* A packet begins; a packet for another endpoint has one byte.
PacketStarts(unharmed) ==
  /\ wire = "token" /\ wire' = "pid" /\ intact' = unharmed
  /\ \E length \in 0 .. max_packet_size :
       /\ token.endpoint # ISO => length = 1
       /\ bus' = (IF token.endpoint = ISO THEN [k \in 1 .. length |-> Sent + k] ELSE <<0>>) \o <<0, 0>>
       /\ packets' = IF token.endpoint # ISO THEN packets
                     ELSE Append(packets, [from |-> Sent + 1, length |-> length, whole |-> unharmed,
                                           roomy |-> O!Fifo!Room >= 2 * max_packet_size - 1])
  /\ UNCHANGED <<token, inHostVars>>
  /\ Clock([Silence EXCEPT !.active = TRUE], Nothing)

PidByte(kind) ==
  /\ wire = "pid" /\ (intact => kind = "data") /\ wire' = "data"
  /\ UNCHANGED <<token, inHostVars, outHostVars>>
  /\ Clock([Silence EXCEPT !.active = TRUE, !.valid = TRUE, !.kind = kind], Nothing)

DataByte ==
  /\ wire = "data" /\ bus # << >> /\ bus' = Tail(bus)
  /\ UNCHANGED <<token, wire, inHostVars, intact, packets>>
  /\ Clock([Silence EXCEPT !.active = TRUE, !.valid = TRUE, !.byte = Head(bus)], Nothing)

Gap ==
  /\ wire \in {"pid", "data"}
  /\ UNCHANGED <<token, wire, inHostVars, outHostVars>>
  /\ Clock([Silence EXCEPT !.active = TRUE], Nothing)

\* The packet ends after its last byte and with the right CRC, or it does not.
PacketEnds ==
  /\ wire \in {"pid", "data"} /\ wire' = "quiet"
  /\ intact => wire = "data" /\ bus = << >>
  /\ bus' = << >> /\ intact' = TRUE
  /\ UNCHANGED <<token, inHostVars, packets>>
  /\ Clock([Silence EXCEPT !.crc_matches = intact], Nothing)

---------------------------------------------------------------------------

Init ==
  /\ T!Init /\ R!Init(0) /\ B!Init(0) /\ O!Init /\ I!Init /\ S!Init(0) /\ X!Init /\ G!Init
  /\ token = [pid |-> "none", endpoint |-> 0] /\ traffic \in Traffic
  /\ streamed = << >> /\ wire = "quiet" /\ incoming = << >> /\ misses = 0
  /\ frame = [count |-> 0, size |-> 0, heard |-> FALSE, packets |-> << >>]
  /\ status = [toggle |-> 0, got |-> 0, stolen |-> FALSE] /\ status_read = 0
  /\ bus = << >> /\ intact = TRUE /\ packets = << >>

Next ==
  \/ QuietClock
  \/ (\E heard \in BOOLEAN : Sof(heard))
  \/ AskIso \/ AskStatus \/ Answer
  \/ (\E tx_ready \in BOOLEAN : Transmit(tx_ready))
  \/ IsoArrives \/ IsoMissed \/ StatusArrives \/ StatusMissed
  \/ (\E arrives \in BOOLEAN : Ack(arrives)) \/ ForeignAck
  \/ (\E endpoint \in {ISO, STATUS} : OutToken(endpoint))
  \/ (\E unharmed \in BOOLEAN : PacketStarts(unharmed))
  \/ (\E kind \in {"data", "other"} : PidByte(kind))
  \/ DataByte \/ Gap \/ PacketEnds

Spec == Init /\ [][Next]_vars

---------------------------------------------------------------------------
(* Properties *)

\* What goes out after an IN token comes from the endpoint that was asked, all of it and
\* nothing of another: a full status of one moment, or samples without a gap.  The
\* endpoints share the transmitter without an arbiter.
AnswersComeFromTheAsked ==
  wire = "answer" =>
    IF token.endpoint = STATUS
    THEN /\ incoming = [k \in 1 .. Len(incoming) |-> <<latched_signal, k - 1>>]
         /\ tx_state = "SEND_CRC_FIRST" => Len(incoming) = bytes_in_signal
    ELSE incoming = [k \in 1 .. Len(incoming) |-> Sample(k - 1)]

\* The packets of a frame count down to DATA0, none but the last is short, and together
\* they bring what bytes_in_frame asked for, whatever was lost in the frame before.
FrameIsWhole ==
  LET got == frame.packets
      n   == Len(got)
  IN  frame.heard /\ n > 0 /\ Last(got) # Missing =>
        /\ \A k \in 1 .. n - 1 : got[k].length = max_packet_size /\ got[k].pid = got[k + 1].pid + 1
        /\ got[n].pid = 0 => (n - 1) * max_packet_size + got[n].length = frame.size
        /\ n = 3 => got[n].pid = 0

\* When the endpoint goes back to IDLE, the value it called read is the one the host holds,
\* and the host expects the PID that comes next, whatever the host missed and whichever ACKs
\* the endpoint heard: all but an ACK for another device right after a value the host missed.
\* That one is taken for its own; what it spoils lasts until the host has the next value.
ReadStatusIsTheHosts ==
  status_state = "IDLE" /\ ~status.stolen => status_read = status.got /\ status_pid = status.toggle

Kept == streamed \o O!Fifo!Drop(committed, taken)
BytesOf(packet) == packet.from .. packet.from + packet.length - 1

\* The consumer gets bytes in order and of undamaged packets only, with `first` and `last` on
\* the bytes that begin and end a packet and on no others; and a packet that finds room for
\* two of the largest size, less a byte, loses none of its bytes.  One that finds less may lose
\* bytes, its last one too, and is delivered without them.
WholePacketsKept ==
  /\ \A k \in DOMAIN Kept :
       /\ k > 1 => Kept[k - 1].byte < Kept[k].byte
       /\ \E p \in Range(packets) :
            /\ p.whole /\ Kept[k].byte \in BytesOf(p)
            /\ Kept[k].first <=> Kept[k].byte = p.from
            /\ Kept[k].last  <=> Kept[k].byte = p.from + p.length - 1
  /\ Settled /\ wire \in {"quiet", "asked"} =>
       \A p \in Range(packets) :
         p.whole /\ p.roomy => BytesOf(p) \subseteq {Kept[k].byte : k \in DOMAIN Kept}
=================================================================================
