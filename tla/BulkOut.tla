--------------------------------- MODULE BulkOut ---------------------------------
(***************************************************************************)
(* A USBStreamOutEndpoint at work, with the pieces of USBDevice that feed  *)
(* it: the data packet receiver, its interpacket timer and the boundary    *)
(* detector, clock by clock; the consumer of the stream; and a host that   *)
(* sends packets, PINGs, addresses other endpoints in between, and repeats *)
(* what it holds no ACK for, on a bus that loses, corrupts and truncates.  *)
(***************************************************************************)
EXTENDS Integers, Sequences

CONSTANTS
  max_packet_size, rx_counts, buffer_size,
  Delays, counter_max,
  MaxBytes,    \* bound: how many bytes the host sends
  Pings,       \* whether the host uses the PING protocol
  MaxHalts     \* bound: how often the host sends CLEAR_FEATURE(ENDPOINT_HALT)

ASSUME SizeAssumption ==
  /\ max_packet_size \in Nat \ {0} /\ rx_counts \in Nat /\ rx_counts >= max_packet_size
  /\ buffer_size \in Nat /\ buffer_size >= max_packet_size
ASSUME DelayAssumption ==
  /\ Delays \subseteq Nat \ {0} /\ Delays # {}
  /\ counter_max \in Nat /\ \A d \in Delays : counter_max >= d

VARIABLES
  counter, rx_to_tx_delay,                                         \* USBInterpacketTimer
  rx_state, active_pid, data_pipeline, packet_complete, crc_mismatch,  \* USBDataPacketReceiver
  bd_state, buffered_byte, is_first_byte, buffered_complete, buffered_invalid, out,
  committed, taken, pending, expected_data_toggle, overflow, rx_cnt, transfer_active,
  streamed,     \* what the consumer has taken
  token,        \* which token the token detector saw last: "out" or "ping" for this
                \* endpoint, "other" for another endpoint or another device
  wire,         \* what is on the bus
  bus,          \* bytes of the packet under way that are still to come
  intact,       \* whether the bus will deliver all of it unharmed
  host_acked,   \* how many bytes the host has got an ACK for
  packet_len,   \* length of the packet the host is trying to send
  short_ends,   \* bytes that ended a short packet with an ACK
  host_toggle,
  ping_acked,   \* whether the device ACKed a PING and got no packet since
  halts_cleared

receiverVars == <<counter, rx_to_tx_delay, rx_state, active_pid, data_pipeline, packet_complete, crc_mismatch>>
detectorVars == <<bd_state, buffered_byte, is_first_byte, buffered_complete, buffered_invalid, out>>
endpointVars == <<committed, taken, pending, expected_data_toggle, overflow, rx_cnt,
                  transfer_active>>
packetVars   == <<host_acked, packet_len, short_ends, host_toggle>>
hostVars     == <<packetVars, ping_acked, halts_cleared>>
vars         == <<receiverVars, detectorVars, endpointVars, streamed, token, wire, bus, intact, hostVars>>

T == INSTANCE InterpacketTimer
R == INSTANCE DataPacketReceiver
B == INSTANCE OutStreamBoundaryDetector
E == INSTANCE StreamOutEndpoint

---------------------------------------------------------------------------
(* The device *)

Silence == [active |-> FALSE, valid |-> FALSE, byte |-> 0, kind |-> "other", toggle |-> 0,
            crc_matches |-> FALSE]

rx_ready == R!ready_for_response(T!tx_allowed)

EndpointInputs(token_ready, stream_ready, clear_halt) ==
  [token |-> token, token_ready |-> token_ready, rx |-> out, rx_pid_toggle |-> active_pid,
   rx_ready |-> rx_ready, stream_ready |-> stream_ready, clear_halt |-> clear_halt]

\* One clock with u from the transceiver and i at the endpoint, which never starts
\* the timer itself.
DeviceClock(u, i) ==
  /\ T!Tick(R!timer_start(u))
  /\ R!Clock(u, T!tx_allowed)
  /\ B!Clock([valid |-> R!stream_valid, next |-> R!stream_next(u), payload |-> R!stream_payload,
              complete |-> packet_complete, invalid |-> crc_mismatch])
  /\ E!Clock(i)
  /\ streamed' = streamed \o E!stream_taken(i)

\* A clock without a strobe for the endpoint; the consumer is ready or not.
PlainClock(u) ==
  \E stream_ready \in BOOLEAN : DeviceClock(u, EndpointInputs(FALSE, stream_ready, FALSE))

\* The device has dealt with what it received.  Before its next token a host waits
\* for an answer at least 16 bit times, and a token takes longer still to arrive:
\* more clocks than the device needs.
Settled ==
  /\ rx_state = "IDLE" /\ ~packet_complete /\ ~crc_mismatch
  /\ bd_state = "WAIT_FOR_FIRST_BYTE" /\ ~out.next /\ ~out.complete /\ ~out.invalid

---------------------------------------------------------------------------
(* The host and the bus *)

Lengths(sent) == {n \in 0 .. max_packet_size : sent + n <= MaxBytes}

\* A packet's bytes and its two CRC bytes; a packet for others carries a byte 0.
PacketBytes == (IF token = "out" THEN [k \in 1 .. packet_len |-> host_acked + k] ELSE <<0>>)
               \o <<0, 0>>

\* Nothing happens on the bus in this clock.
QuietClock(stream_ready) ==
  /\ wire \in {"quiet", "token", "sent", "pinged"}
  /\ ~(wire = "sent" /\ token = "out" /\ rx_ready)
  /\ DeviceClock(Silence, EndpointInputs(FALSE, stream_ready, FALSE))
  /\ UNCHANGED <<token, wire, bus, intact, hostVars>>

\* The host's tokens; each one is a few clocks before what follows it.
SendToken(kind, next_wire) ==
  /\ wire = "quiet" /\ Settled
  /\ PlainClock(Silence)
  /\ token' = kind /\ wire' = next_wire
  /\ UNCHANGED <<bus, intact, hostVars>>

OutToken   == SendToken("out", "token")
PingToken  == Pings /\ rx_to_tx_delay = 1 /\ SendToken("ping", "pinged")   \* at high speed
OtherToken == SendToken("other", "quiet") \/ SendToken("other", "token")

\* A data packet starts to arrive, intact to the end or not ...
PacketStarts(unharmed) ==
  /\ wire = "token"
  /\ intact' = unharmed
  /\ PlainClock([Silence EXCEPT !.active = TRUE])
  /\ wire' = "pid" /\ bus' = PacketBytes
  /\ UNCHANGED <<token, hostVars>>

\* ... its PID comes, possibly damaged ...
PidByte(kind) ==
  /\ wire = "pid" /\ (intact => kind = "data")
  /\ \E toggle \in IF token = "out" THEN {host_toggle} ELSE {0, 1} :
       PlainClock([Silence EXCEPT !.active = TRUE, !.valid = TRUE, !.kind = kind,
                                  !.toggle = toggle])
  /\ wire' = "data"
  /\ UNCHANGED <<token, bus, intact, hostVars>>

\* ... and byte after byte ...
DataByte ==
  /\ wire = "data" /\ bus # << >>
  /\ PlainClock([Silence EXCEPT !.active = TRUE, !.valid = TRUE, !.byte = Head(bus)])
  /\ bus' = Tail(bus)
  /\ UNCHANGED <<token, wire, intact, hostVars>>

\* ... with clocks without a byte in between ...
Gap ==
  /\ wire \in {"pid", "data"}
  /\ PlainClock([Silence EXCEPT !.active = TRUE])
  /\ UNCHANGED <<token, wire, bus, intact, hostVars>>

\* ... up to its end.
PacketIntact ==
  /\ wire = "data" /\ bus = << >> /\ intact
  /\ PlainClock([Silence EXCEPT !.crc_matches = TRUE])
  /\ wire' = "sent"
  /\ UNCHANGED <<token, bus, intact, hostVars>>

\* It was corrupted or ends too early, which its CRC reveals, ...
PacketDamaged ==
  /\ wire \in {"pid", "data"} /\ ~intact
  /\ PlainClock(Silence)
  /\ wire' = "sent" /\ bus' = << >> /\ intact' = TRUE
  /\ UNCHANGED <<token, hostVars>>

\* ... or not arrive at all.
PacketLost ==
  /\ wire = "token"
  /\ PlainClock(Silence)
  /\ wire' = "sent"
  /\ UNCHANGED <<token, bus, intact, hostVars>>

\* The endpoint answers the packet.
Answers ==
  /\ wire = "sent" /\ token = "out" /\ rx_ready
  /\ PlainClock(Silence)
  /\ wire' = "quiet"
  /\ ping_acked' = FALSE
  /\ UNCHANGED <<token, bus, intact, halts_cleared>>

DataAnswer == EndpointInputs(FALSE, FALSE, FALSE)

\* The host receives an ACK and goes on to its next packet, ...
AckHeard ==
  /\ Answers /\ E!ack(DataAnswer)
  /\ host_acked' = host_acked + packet_len
  /\ host_toggle' = 1 - host_toggle
  /\ short_ends' = IF packet_len \in 1 .. max_packet_size - 1
                   THEN short_ends \cup {host_acked + packet_len} ELSE short_ends
  /\ packet_len' \in Lengths(host_acked + packet_len)

\* ... or a NAK, or the answer is lost: it will send the packet again.
NothingGained ==
  /\ Answers
  /\ UNCHANGED packetVars

\* No answer came, or another endpoint's.
HostMovesOn ==
  /\ wire = "sent" /\ Settled
  /\ PlainClock(Silence)
  /\ wire' = "quiet"
  /\ UNCHANGED <<token, bus, intact, hostVars>>

\* The endpoint answers a PING.
PingAnswer ==
  /\ wire = "pinged"
  /\ \E stream_ready \in BOOLEAN :
       LET i == EndpointInputs(TRUE, stream_ready, FALSE)
       IN  /\ DeviceClock(Silence, i)
           /\ ping_acked' = E!ack(i)
  /\ wire' = "quiet"
  /\ UNCHANGED <<token, bus, intact, packetVars, halts_cleared>>

\* CLEAR_FEATURE(ENDPOINT_HALT), asked for at the control endpoint; the host's
\* toggle starts over as well.
ClearHalt ==
  /\ halts_cleared < MaxHalts /\ wire = "quiet" /\ token = "other"
  /\ \E stream_ready \in BOOLEAN : DeviceClock(Silence, EndpointInputs(FALSE, stream_ready, TRUE))
  /\ halts_cleared' = halts_cleared + 1
  /\ host_toggle' = 0
  /\ UNCHANGED <<token, wire, bus, intact, host_acked, packet_len, short_ends, ping_acked>>

---------------------------------------------------------------------------

Init ==
  /\ T!Init /\ R!Init(0) /\ B!Init(0) /\ E!Init
  /\ streamed = << >>
  /\ token = "other" /\ wire = "quiet" /\ bus = << >> /\ intact = TRUE
  /\ host_acked = 0 /\ packet_len \in Lengths(0) /\ short_ends = {} /\ host_toggle = 0
  /\ ping_acked = FALSE /\ halts_cleared = 0

Next ==
  \/ \E stream_ready \in BOOLEAN : QuietClock(stream_ready)
  \/ OutToken \/ PingToken \/ OtherToken
  \/ (\E unharmed \in BOOLEAN : PacketStarts(unharmed))
  \/ (\E kind \in {"data", "other"} : PidByte(kind))
  \/ DataByte \/ Gap \/ PacketIntact \/ PacketDamaged \/ PacketLost
  \/ AckHeard \/ NothingGained \/ HostMovesOn \/ PingAnswer \/ ClearHalt

Spec == Init /\ [][Next]_vars

\* The host keeps trying, the bus does not lose or damage every packet or every
\* ACK, and the consumer keeps taking what is there.
Fairness ==
  /\ SF_vars(QuietClock(TRUE))
  /\ SF_vars(OutToken) /\ SF_vars(token = "out" /\ PacketStarts(TRUE))
  /\ WF_vars(DataByte) /\ WF_vars(PacketIntact) /\ SF_vars(AckHeard)
  /\ WF_vars(PacketLost \/ \E unharmed \in BOOLEAN : PacketStarts(unharmed))
  /\ WF_vars(\E kind \in {"data", "other"} : PidByte(kind)) /\ WF_vars(PacketDamaged)
  /\ WF_vars(AckHeard \/ NothingGained) /\ WF_vars(PingAnswer) /\ WF_vars(HostMovesOn)
FairSpec == Spec /\ Fairness

---------------------------------------------------------------------------
(* Properties *)

Bytes == 0 .. MaxBytes

TypeOK ==
  /\ T!TypeOK /\ R!TypeOK(Bytes) /\ B!TypeOK(Bytes) /\ E!TypeOK(Bytes)
  /\ streamed \in Seq([byte : Bytes, last : BOOLEAN, first : BOOLEAN])
  /\ token \in {"out", "ping", "other"}
  /\ wire \in {"quiet", "token", "pid", "data", "sent", "pinged"}
  /\ bus \in Seq(Bytes) /\ intact \in BOOLEAN
  /\ host_acked \in Bytes /\ packet_len \in Lengths(host_acked)
  /\ short_ends \subseteq 1 .. host_acked /\ host_toggle \in {0, 1}
  /\ ping_acked \in BOOLEAN /\ halts_cleared \in 0 .. MaxHalts

\* What the endpoint has let through: streamed already, or committed to the FIFO.
Kept == streamed \o E!Fifo!Drop(committed, taken)

\* The stream is what the host sent, each byte once and in order, and it never
\* holds a byte of a packet the host has not begun to send.
StreamInOrder ==
  halts_cleared = 0 =>
    /\ Len(Kept) <= host_acked + packet_len
    /\ \A k \in 1 .. Len(Kept) : Kept[k].byte = k

\* A byte whose packet the host saw ACKed is not thrown away: once the device has
\* settled it is in the stream or in the FIFO.  "We'll NAK any time we want to
\* accept a packet, but we don't have enough room."
AckedIsKept == Settled => Len(Kept) >= host_acked

\* `last` marks the bytes that end a short packet, and no others.
LastMarksShortPackets ==
  \A k \in 1 .. Len(Kept) :
    Kept[k].byte <= host_acked => (Kept[k].last <=> Kept[k].byte \in short_ends)

\* A host whose PING was ACKed need not expect a NAK of its next packet.
PingHonoured ==
  ping_acked /\ wire = "sent" /\ token = "out" /\ rx_ready => ~E!nak(DataAnswer)

\* The FIFO is never told to commit and to discard in the same clock, which the
\* TransactionalQueue relies on.
FifoUsedProperly ==
  LET i == DataAnswer IN ~(E!write_commit(i) /\ E!write_discard(i))

\* CLEAR_FEATURE(ENDPOINT_HALT) may make the endpoint take a packet twice whose ACK
\* was lost, but with both toggles at 0 again no packet is skipped.
HaltLosesNothing ==
  /\ \A k \in 1 .. Len(Kept) : Kept[k].byte <= (IF k = 1 THEN 1 ELSE Kept[k - 1].byte + 1)
  /\ Settled /\ host_acked > 0 => Kept # << >> /\ Kept[Len(Kept)].byte >= host_acked

\* Every byte of a packet the host sends gets to the consumer eventually.
BytesGetThrough ==
  \A n \in 1 .. MaxBytes : host_acked + packet_len >= n ~> Len(streamed) >= n
==================================================================================
