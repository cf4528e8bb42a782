--------------------------------- MODULE BulkIn ---------------------------------
(***************************************************************************)
(* A USBStreamInEndpoint (src/liteusb/gateware/usb/usb2/endpoints/         *)
(* stream.py) at work: its transfer manager, the data packet generator it  *)
(* feeds, the user that streams bytes in, and a host at the other end of a *)
(* bus that loses and corrupts packets.  One step is one usb clock.        *)
(*                                                                         *)
(* The host is USB 2.0's: it asks with IN tokens, takes a DATA0/DATA1      *)
(* packet that matches its toggle, ACKs what it received intact (a repeat  *)
(* included), and starts over when something got lost.                     *)
(***************************************************************************)
EXTENDS Integers, Sequences

CONSTANTS
  max_packet_size,
  send_positions,
  generate_zlps,
  start_with_data1,
  MaxBytes,    \* bound: how many bytes the user streams in
  Flushes,     \* whether the user strobes flush
  Discards,    \* whether the user strobes discard
  MaxHalts,    \* bound: how often the host sends CLEAR_FEATURE(ENDPOINT_HALT)
  SharedBus    \* whether ACKs for another device on the bus are seen here

ASSUME SizeAssumption ==
  max_packet_size \in Nat \ {0} /\ send_positions \in Nat /\ send_positions > max_packet_size
ASSUME TiedAssumption == generate_zlps \in BOOLEAN /\ start_with_data1 \in {0, 1}
ASSUME BoundAssumption == MaxBytes \in Nat /\ MaxHalts \in Nat

VARIABLES
  \* USBInTransferManager
  state, buffer_toggle, data_pid, buffer, stream_ended, send_position, first, read_adr,
  \* USBDataPacketGenerator
  tx_state, packet_pid, is_zlp,
  \* the user
  accepted, ends,
  dropped,   \* whether a discard or another device's ACK may have cost bytes
  \* the host and the bus
  wire, host_toggle, incoming, delivered, cuts, halts_cleared

managerVars   == <<state, buffer_toggle, data_pid, buffer, stream_ended, send_position, first,
                   read_adr>>
generatorVars == <<tx_state, packet_pid, is_zlp>>
userVars      == <<accepted, ends, dropped>>
hostVars      == <<host_toggle, incoming, delivered, cuts>>
vars          == <<managerVars, generatorVars, userVars, wire, hostVars, halts_cleared>>

M == INSTANCE InTransferManager WITH Payload <- 1 .. MaxBytes + 1
G == INSTANCE DataPacketGenerator

---------------------------------------------------------------------------
(* The device *)

\* The inputs the manager can see in a clock in which the bus brings `strobe`.
InputsFor(strobe, tx_ready) ==
  {i \in [valid : IF accepted < MaxBytes THEN BOOLEAN ELSE {FALSE}, last : BOOLEAN,
          payload : {accepted + 1},
          flush : IF Flushes THEN BOOLEAN ELSE {FALSE},
          discard : IF Discards THEN BOOLEAN ELSE {FALSE},
          reset_sequence : {strobe = "reset"}, in_token : {strobe = "in"},
          new_token : {strobe = "token"}, ack : {strobe = "ack"},
          ready : {G!stream_ready(tx_ready)}] : i.last => i.valid}

\* The user counts the bytes it got rid of.
Produce(i) ==
  /\ accepted' = IF M!byte_accepted(i) THEN accepted + 1 ELSE accepted
  /\ ends' = IF M!byte_accepted(i) /\ i.last THEN ends \cup {accepted + 1} ELSE ends
  /\ dropped' = (dropped \/ i.discard \/ (i.ack /\ wire = "quiet"))

DeviceClock(i, tx_ready) ==
  /\ M!Clock(i)
  /\ G!Clock(data_pid, first, M!out_last(i), M!out_valid(i), tx_ready)
  /\ Produce(i)

\* The host's part of most clocks: it learns nothing.
HostUnmoved == UNCHANGED <<hostVars, halts_cleared>>

---------------------------------------------------------------------------
(* The host and the bus *)

\* Nothing arrives from the bus in this clock.
QuietClock ==
  /\ wire # "answer"
  /\ \E i \in InputsFor("none", FALSE) : DeviceClock(i, FALSE)
  /\ UNCHANGED wire /\ HostUnmoved

\* The host's IN token for this endpoint has been received.
AskIn ==
  /\ wire = "quiet"
  /\ \E i \in InputsFor("token", FALSE) : DeviceClock(i, FALSE)
  /\ wire' = "asked"
  /\ HostUnmoved

\* The interpacket gap is over: the endpoint answers, with a packet or a NAK.  When the
\* packet that was due is discarded in this very clock, it does not answer at all.
Answer ==
  /\ wire = "asked"
  /\ \E i \in InputsFor("in", FALSE) :
       /\ DeviceClock(i, FALSE)
       /\ wire' = IF M!nak(i) \/ i.discard THEN "quiet" ELSE "answer"
  /\ incoming' = << >>
  /\ UNCHANGED <<host_toggle, delivered, cuts, halts_cleared>>

\* A token for another endpoint of this device, whose packet the host then ACKs.
AskElsewhere ==
  /\ wire = "quiet"
  /\ \E i \in InputsFor("token", FALSE) : DeviceClock(i, FALSE)
  /\ wire' = "elsewhere"
  /\ HostUnmoved

AckElsewhere ==
  /\ wire = "elsewhere"
  /\ \E i \in InputsFor("ack", FALSE) : DeviceClock(i, FALSE)
  /\ wire' = "quiet"
  /\ HostUnmoved

\* The answer is under way; the transceiver takes a byte or makes it wait.  The
\* host stops listening to a packet that outgrows max_packet_size.
Transmit(tx_ready) ==
  /\ wire = "answer"
  /\ ~(tx_ready /\ tx_state = "SEND_CRC_SECOND")
  /\ \E i \in InputsFor("none", tx_ready) :
       /\ DeviceClock(i, tx_ready)
       /\ incoming' = IF i.ready /\ M!out_valid(i) /\ Len(incoming) <= max_packet_size
                      THEN Append(incoming, M!out_payload) ELSE incoming
  /\ UNCHANGED <<wire, host_toggle, delivered, cuts, halts_cleared>>

\* The packet's last byte goes out.
EndOfPacket ==
  /\ wire = "answer" /\ tx_state = "SEND_CRC_SECOND"
  /\ \E i \in InputsFor("none", TRUE) : DeviceClock(i, TRUE)

\* The host receives it intact, takes it unless it is a repeat, and sends an ACK.
HostReceives ==
  /\ EndOfPacket
  /\ packet_pid \in {0, 1} /\ Len(incoming) <= max_packet_size
  /\ wire' = "ack"
  /\ IF packet_pid = host_toggle
     THEN /\ delivered' = delivered \o incoming
          /\ cuts' = Append(cuts, Len(delivered) + Len(incoming))
          /\ host_toggle' = 1 - host_toggle
     ELSE UNCHANGED <<delivered, cuts, host_toggle>>
  /\ incoming' = << >>
  /\ UNCHANGED halts_cleared

\* The packet is lost, corrupted, or of a kind the host does not expect here.
HostMisses ==
  /\ EndOfPacket
  /\ wire' = "quiet"
  /\ incoming' = << >>
  /\ UNCHANGED <<host_toggle, delivered, cuts, halts_cleared>>

\* The host's ACK arrives ...
AckArrives ==
  /\ wire = "ack"
  /\ \E i \in InputsFor("ack", FALSE) : DeviceClock(i, FALSE)
  /\ wire' = "quiet"
  /\ HostUnmoved

\* ... or it does not.
AckLost ==
  /\ wire = "ack"
  /\ \E i \in InputsFor("none", FALSE) : DeviceClock(i, FALSE)
  /\ wire' = "quiet"
  /\ HostUnmoved

\* CLEAR_FEATURE(ENDPOINT_HALT): tokens for the control endpoint, then the strobe
\* of its request handler; the host's toggle starts over as well.
ControlToken ==
  /\ halts_cleared < MaxHalts /\ wire = "quiet"
  /\ \E i \in InputsFor("token", FALSE) : DeviceClock(i, FALSE)
  /\ wire' = "control"
  /\ HostUnmoved

ClearHalt ==
  /\ wire = "control"
  /\ \E i \in InputsFor("reset", FALSE) : DeviceClock(i, FALSE)
  /\ wire' = "quiet"
  /\ host_toggle' = 0
  /\ halts_cleared' = halts_cleared + 1
  /\ UNCHANGED <<incoming, delivered, cuts>>

\* The host ACKs a packet of another device.  Its token did not concern this
\* device, so no new_token was seen here.
ForeignAck ==
  /\ SharedBus /\ wire = "quiet"
  /\ \E i \in InputsFor("ack", FALSE) : DeviceClock(i, FALSE)
  /\ UNCHANGED wire /\ HostUnmoved

---------------------------------------------------------------------------

Init ==
  /\ M!Init /\ G!Init
  /\ accepted = 0 /\ ends = {} /\ dropped = FALSE
  /\ wire = "quiet" /\ host_toggle = 0 /\ incoming = << >>
  /\ delivered = << >> /\ cuts = << >>
  /\ halts_cleared = 0

Next ==
  \/ QuietClock \/ AskIn \/ Answer \/ AskElsewhere \/ AckElsewhere
  \/ (\E tx_ready \in BOOLEAN : Transmit(tx_ready))
  \/ HostReceives \/ HostMisses \/ AckArrives \/ AckLost
  \/ ControlToken \/ ClearHalt \/ ForeignAck

\* The host keeps polling the endpoint, the transceiver keeps taking bytes, and
\* the bus does not lose every packet or every ACK.
Fairness ==
  /\ SF_vars(AskIn) /\ WF_vars(Answer) /\ WF_vars(Transmit(TRUE)) /\ WF_vars(AckElsewhere)
  /\ SF_vars(HostReceives) /\ SF_vars(AckArrives)

Spec == Init /\ [][Next]_vars
FairSpec == Spec /\ Fairness

---------------------------------------------------------------------------
(* Properties *)

TypeOK ==
  /\ M!TypeOK /\ G!TypeOK
  /\ accepted \in 0 .. MaxBytes /\ ends \subseteq 1 .. accepted /\ dropped \in BOOLEAN
  /\ wire \in {"quiet", "asked", "answer", "ack", "elsewhere", "control"}
  /\ host_toggle \in {0, 1}
  /\ incoming \in Seq(1 .. MaxBytes) /\ delivered \in Seq(1 .. MaxBytes)
  /\ cuts \in Seq(Nat)
  /\ halts_cleared \in 0 .. MaxHalts

\* The host has the bytes the endpoint took, each once and in order, as far as
\* they have come.  Double buffering, retransmission and the data toggle of
\* USBInTransferManager all serve this.
InOrderExactlyOnce ==
  /\ Len(delivered) <= accepted
  /\ \A k \in 1 .. Len(delivered) : delivered[k] = k

\* What is left of it in an environment in which neither half can be had.  Discards and
\* ACKs for other devices, at whatever moment they come, may cost bytes, but no byte reaches
\* the host twice or out of order; CLEAR_FEATURE(ENDPOINT_HALT) may make the host take a
\* packet for new whose ACK was lost, but no byte is left out before one that reaches it.
OrderSurvivesFaults ==
  \A k \in 1 .. Len(delivered) :
    LET before == IF k = 1 THEN 0 ELSE delivered[k - 1]
    IN  /\ halts_cleared = 0 => before < delivered[k]
        /\ ~dropped => delivered[k] <= before + 1

\* What is unacknowledged can be repeated exactly: a byte leaves a buffer only with
\* its whole packet, when the host's ACK of that packet arrives; a packet that waits
\* or is under way gets no further bytes; and its PID changes only with the ACK.
Acknowledged == state = "WAIT_FOR_ACK" /\ wire = "ack" /\ wire' = "quiet"
KeptOrFreed ==
  /\ \A b \in M!Buffers :
       \/ /\ Len(buffer[b]) <= Len(buffer'[b])
          /\ \A k \in DOMAIN buffer[b] : buffer'[b][k] = buffer[b][k]
       \/ b = M!read /\ buffer'[b] = << >> /\ Acknowledged
  /\ state # "WAIT_FOR_DATA" /\ ~Acknowledged
       => buffer'[M!read] = buffer[M!read] /\ data_pid' = data_pid
UnackedPacketKept == [][KeptOrFreed]_vars

Pipe == INSTANCE PacketPipe

\* The endpoint, its lossy bus included, implements the packet pipe.
ImplementsPipe == Pipe!Spec

\* Every transfer the user finishes is eventually seen to end by the host: its
\* bytes arrive and a short packet closes it.
TransferSeen(n) ==
  \E k \in 1 .. Len(cuts) : cuts[k] = n /\ Pipe!PacketLength(k) < max_packet_size
TransfersComplete ==
  \A n \in 1 .. MaxBytes : n \in ends ~> TransferSeen(n)
=================================================================================
