---------------------------- MODULE InTransferManager ----------------------------
(***************************************************************************)
(* USBInTransferManager, src/liteusb/gateware/usb/usb2/transfer.py: turns  *)
(* a byte stream into packets, double buffered, and keeps a packet until   *)
(* the host has ACKed it.  One step is one clock of the usb domain: the    *)
(* statements of self.sync.usb and those of the current FSM state act      *)
(* together on the values before the clock; where two of them write the    *)
(* same register the later one (the FSM's, last of all) wins.              *)
(***************************************************************************)
EXTENDS Integers, Sequences

CONSTANTS
  max_packet_size,
  send_positions,     \* number of values the send_position register can hold
  generate_zlps,      \* tied high by USBStreamInEndpoint
  start_with_data1,   \* 0 or 1
  Payload             \* contents of a byte

VARIABLES
  state,          \* of the FSM
  buffer_toggle,  \* the buffer being filled; the other one is sent from
  data_pid,       \* 0 DATA0, 1 DATA1, 2 DATA2, 3 MDATA
  buffer,         \* per buffer, the bytes counted by its fill_count
  stream_ended,   \* per buffer, whether the transfer ended while filling it
  send_position,
  first,          \* register driving packet_stream.first
  read_adr        \* per buffer, the address register of its read port

vars == <<state, buffer_toggle, data_pid, buffer, stream_ended, send_position, first, read_adr>>

(***************************************************************************)
(* The inputs of one clock.  in_token is active & is_in &                  *)
(* ready_for_response, ready is packet_stream.ready.                       *)
(***************************************************************************)
Inputs == [valid : BOOLEAN, last : BOOLEAN, payload : Payload,
           flush : BOOLEAN, discard : BOOLEAN, reset_sequence : BOOLEAN,
           in_token : BOOLEAN, new_token : BOOLEAN, ack : BOOLEAN, ready : BOOLEAN]

---------------------------------------------------------------------------
(* Combinational logic *)

Buffers == {0, 1}
write == buffer_toggle
read  == 1 - buffer_toggle

write_fill_count == Len(buffer[write])
read_fill_count  == Len(buffer[read])

in_ready == write_fill_count # max_packet_size /\ ~stream_ended[write]

byte_accepted(i) == i.valid /\ in_ready

packet_ready(i) ==
  /\ \/ i.valid /\ (i.last \/ write_fill_count + 1 = max_packet_size)
     \/ i.flush /\ write_fill_count # 0
  /\ ~i.discard

\* Mutants: a zero-length packet after every full packet; none at all.
zlp_due_always == generate_zlps /\ read_fill_count = max_packet_size
zlp_due_never  == FALSE
\* A full packet that ended its transfer is followed by a zero-length one.
zlp_due == generate_zlps /\ read_fill_count = max_packet_size /\ stream_ended[read]

\* The other buffer holds, or is just getting, a packet that can go out next.
next_packet_waiting(i) == ~in_ready \/ packet_ready(i)

sends_zlp(i) ==
  state = "WAIT_TO_SEND" /\ ~i.discard /\ ~i.reset_sequence /\ i.in_token /\ read_fill_count = 0

\* What the manager drives: packet_stream and the NAK request.
out_valid(i) == state = "SEND_PACKET" \/ sends_zlp(i)
out_last(i)  == (state = "SEND_PACKET" /\ send_position + 1 = read_fill_count) \/ sends_zlp(i)
\* Beyond the counted bytes the memory holds some byte of an earlier packet.
out_payload  == IF read_adr[read] < read_fill_count
                THEN buffer[read][read_adr[read] + 1] ELSE CHOOSE p \in Payload : TRUE
nak(i)       == state = "WAIT_FOR_DATA" /\ i.in_token

---------------------------------------------------------------------------
(* Register updates shared by all states *)

\* Mutant: bytes go to the buffer that is being sent.
FilledReadBuffers(i) ==
  [b \in Buffers |-> IF b = read /\ byte_accepted(i) THEN Append(buffer[b], i.payload)
                     ELSE IF i.discard THEN << >> ELSE buffer[b]]
\* A byte that is accepted while discarding overrides the discard.
FilledBuffers(i) ==
  [b \in Buffers |-> IF b = write /\ byte_accepted(i) THEN Append(buffer[b], i.payload)
                     ELSE IF i.discard THEN << >> ELSE buffer[b]]
EndedStreams(i) ==
  [b \in Buffers |-> \/ b = write /\ byte_accepted(i) /\ i.last
                     \/ stream_ended[b] /\ ~i.discard]

\* ~start_with_data1 is written to a two-bit register: its upper bit becomes 1.
HeldPid(i) == IF i.reset_sequence THEN 3 - start_with_data1 ELSE data_pid
\* data_pid[0].eq(~data_pid[0]) writes the lower bit only.
ToggledPid(i) == 2 * (HeldPid(i) \div 2) + (1 - (data_pid % 2))

\* Only the read buffer's port is addressed; the other's address defaults to 0.
ReadPorts(i) ==
  read_adr' = [b \in Buffers |->
                 IF b # read THEN 0
                 ELSE IF state = "SEND_PACKET" /\ i.ready THEN send_position + 1
                 ELSE send_position]

---------------------------------------------------------------------------
(* The states of the FSM *)

\* WAIT_FOR_DATA: swap buffers and get ready to send when a packet completes.
WaitForData(i) ==
  /\ state = "WAIT_FOR_DATA"
  /\ buffer' = FilledBuffers(i)
  /\ \/ /\ packet_ready(i)
        /\ state' = "WAIT_TO_SEND"
        /\ buffer_toggle' = read
        /\ data_pid' = ToggledPid(i)
        /\ stream_ended' = [EndedStreams(i) EXCEPT ![read] = FALSE]
     \/ /\ ~packet_ready(i)
        /\ data_pid' = HeldPid(i)
        /\ stream_ended' = EndedStreams(i)
        /\ UNCHANGED <<state, buffer_toggle>>
  /\ UNCHANGED <<send_position, first>>

\* WAIT_TO_SEND: a packet is due; wait for the IN token that asks for it.
WaitToSend(i) ==
  /\ state = "WAIT_TO_SEND"
  /\ buffer' = FilledBuffers(i)
  /\ send_position' = 0
  /\ stream_ended' =
       IF i.in_token /\ read_fill_count = 0
       THEN [EndedStreams(i) EXCEPT ![read] = FALSE] ELSE EndedStreams(i)
  /\ \/ /\ i.discard
        /\ state' = "WAIT_FOR_DATA" /\ data_pid' = ToggledPid(i)
        /\ UNCHANGED first
     \/ /\ ~i.discard /\ i.reset_sequence
        /\ data_pid' = start_with_data1
        /\ UNCHANGED <<state, first>>
     \/ /\ ~i.discard /\ ~i.reset_sequence
        /\ \/ /\ i.in_token /\ read_fill_count # 0
              /\ state' = "SEND_PACKET" /\ first' = TRUE
           \/ /\ i.in_token /\ read_fill_count = 0
              /\ state' = "WAIT_FOR_ACK" /\ UNCHANGED first
           \/ ~i.in_token /\ UNCHANGED <<state, first>>
        /\ UNCHANGED data_pid
  /\ UNCHANGED buffer_toggle

\* SEND_PACKET: hand the read buffer to the transmitter, byte by byte.
SendPacket(i) ==
  /\ state = "SEND_PACKET"
  /\ buffer' = FilledBuffers(i)
  /\ stream_ended' = EndedStreams(i)
  /\ data_pid' = HeldPid(i)
  /\ \/ /\ i.ready
        /\ send_position' = (send_position + 1) % send_positions
        /\ first' = FALSE
        /\ state' = IF out_last(i) THEN "WAIT_FOR_ACK" ELSE state
     \/ ~i.ready /\ UNCHANGED <<send_position, first, state>>
  /\ UNCHANGED buffer_toggle

StateAfter(i) ==
  CASE i.discard                             -> "WAIT_FOR_DATA"
    [] ~i.discard /\ i.new_token             -> "WAIT_TO_SEND"
    [] ~i.discard /\ ~i.new_token /\ i.ack   ->
         IF zlp_due \/ next_packet_waiting(i) THEN "WAIT_TO_SEND" ELSE "WAIT_FOR_DATA"
    [] OTHER                                 -> state

\* Mutant: the packet that was ACKed stays in its buffer.
FreedBuffersKept(i) == FilledBuffers(i)
FreedBuffers(i) == [FilledBuffers(i) EXCEPT ![read] = << >>]

\* WAIT_FOR_ACK: the packet is out; an ACK frees it, a new token repeats it.
WaitForAck(i) ==
  /\ state = "WAIT_FOR_ACK"
  /\ state' = StateAfter(i)
  /\ \/ /\ i.ack
        /\ buffer' = FreedBuffers(i)
        /\ \/ /\ zlp_due
              /\ data_pid' = ToggledPid(i)
              /\ stream_ended' = EndedStreams(i)
              /\ UNCHANGED buffer_toggle
           \/ /\ ~zlp_due /\ next_packet_waiting(i)
              /\ data_pid' = ToggledPid(i)
              /\ stream_ended' = [EndedStreams(i) EXCEPT ![read] = FALSE]
              /\ buffer_toggle' = read
           \/ /\ ~zlp_due /\ ~next_packet_waiting(i)
              /\ data_pid' = HeldPid(i)
              /\ stream_ended' = EndedStreams(i)
              /\ UNCHANGED buffer_toggle
     \/ /\ ~i.ack
        /\ buffer' = FilledBuffers(i)
        /\ stream_ended' = EndedStreams(i)
        /\ data_pid' = HeldPid(i)
        /\ UNCHANGED buffer_toggle
  /\ UNCHANGED <<send_position, first>>

---------------------------------------------------------------------------

Init ==
  /\ state = "WAIT_FOR_DATA"
  /\ buffer_toggle = 0
  /\ data_pid = 1
  /\ buffer = [b \in Buffers |-> << >>]
  /\ stream_ended = [b \in Buffers |-> FALSE]
  /\ send_position = 0
  /\ first = FALSE
  /\ read_adr = [b \in Buffers |-> 0]

Clock(i) ==
  /\ ReadPorts(i)
  /\ WaitForData(i) \/ WaitToSend(i) \/ SendPacket(i) \/ WaitForAck(i)

Next == \E i \in Inputs : Clock(i)

Spec == Init /\ [][Next]_vars

---------------------------------------------------------------------------
(* Properties *)

\* The registers keep values of their widths and no buffer holds more than a
\* packet, whatever the inputs do.
TypeOK ==
  /\ state \in {"WAIT_FOR_DATA", "WAIT_TO_SEND", "SEND_PACKET", "WAIT_FOR_ACK"}
  /\ buffer_toggle \in Buffers
  /\ data_pid \in 0 .. 3
  /\ buffer \in [Buffers -> Seq(Payload)]
  /\ \A b \in Buffers : Len(buffer[b]) <= max_packet_size
  /\ stream_ended \in [Buffers -> BOOLEAN]
  /\ send_position \in 0 .. send_positions - 1
  /\ first \in BOOLEAN
  /\ read_adr \in [Buffers -> 0 .. send_positions]
===================================================================================
