-------------------------- MODULE IsochronousInEndpoint --------------------------
(***************************************************************************)
(* USBIsochronousStreamInEndpoint, src/liteusb/gateware/usb/usb2/          *)
(* endpoints/isochronous_stream_in.py: sends bytes_in_frame bytes in each  *)
(* frame, in up to three packets.  USBIsochronousInEndpoint, in            *)
(* isochronous.py, has the same registers and the same FSM, and asks for   *)
(* the byte at an address where this one takes the next of a stream.       *)
(***************************************************************************)
EXTENDS Integers

CONSTANT max_packet_size

VARIABLES
  iso_state,              \* of the FSM
  bytes_left_in_frame, bytes_left_in_packet, next_data_pid,
  iso_first,              \* tx_stream.first
  frame_finished,
  address                 \* tx_cnt here

vars == <<iso_state, bytes_left_in_frame, bytes_left_in_packet, next_data_pid, iso_first, frame_finished,
          address>>

\* i: [new_frame : BOOLEAN, bytes_in_frame, data_requested, ready : BOOLEAN]

last_byte_in_packet  == bytes_left_in_packet <= 1
last_byte_in_frame   == bytes_left_in_frame <= 1
byte_terminates_send == last_byte_in_packet \/ last_byte_in_frame

tx_valid == iso_state \in {"SEND_DATA", "SEND_ZLP"}
tx_last  == iso_state = "SEND_ZLP" \/ (iso_state = "SEND_DATA" /\ byte_terminates_send)

next_address(i) ==
  IF iso_state # "SEND_DATA" THEN 0 ELSE IF i.ready THEN address + 1 ELSE address

FirstPid(bytes) ==
  IF bytes > 2 * max_packet_size THEN 2 ELSE IF bytes > max_packet_size THEN 1 ELSE 0

\* The registers as a new frame, or nothing, leaves them.
FrameClock(i) ==
  /\ bytes_left_in_frame' = IF i.new_frame THEN i.bytes_in_frame ELSE bytes_left_in_frame
  /\ bytes_left_in_packet' = IF i.new_frame THEN max_packet_size ELSE bytes_left_in_packet
  /\ next_data_pid' = IF i.new_frame THEN FirstPid(i.bytes_in_frame) ELSE next_data_pid

Idle(i) ==
  /\ iso_state = "IDLE"
  /\ iso_state' = IF ~i.data_requested THEN "IDLE"
                  ELSE IF bytes_left_in_frame # 0 THEN "SEND_DATA" ELSE "SEND_ZLP"
  /\ iso_first' = (i.data_requested /\ bytes_left_in_frame # 0)
  /\ frame_finished' = FALSE
  /\ FrameClock(i)

\* A byte that is accepted has the last word on the registers.
SendData(i) ==
  /\ iso_state = "SEND_DATA"
  /\ frame_finished' = last_byte_in_frame
  /\ \/ /\ ~i.ready
        /\ FrameClock(i) /\ UNCHANGED <<iso_state, iso_first>>
     \/ /\ i.ready
        /\ iso_first' = FALSE
        /\ iso_state' = IF byte_terminates_send THEN "IDLE" ELSE "SEND_DATA"
        /\ bytes_left_in_frame' = bytes_left_in_frame - 1
        /\ bytes_left_in_packet' = IF byte_terminates_send THEN max_packet_size
                                   ELSE bytes_left_in_packet - 1
        /\ next_data_pid' = IF byte_terminates_send THEN (next_data_pid - 1) % 4
                            ELSE IF i.new_frame THEN FirstPid(i.bytes_in_frame) ELSE next_data_pid

SendZlp(i) ==
  /\ iso_state = "SEND_ZLP"
  /\ iso_state' = "IDLE"
  /\ frame_finished' = FALSE
  /\ FrameClock(i) /\ UNCHANGED iso_first

Clock(i) == address' = next_address(i) /\ (Idle(i) \/ SendData(i) \/ SendZlp(i))

Init ==
  /\ iso_state = "IDLE" /\ bytes_left_in_frame = 0 /\ bytes_left_in_packet = max_packet_size - 1
  /\ next_data_pid = 0 /\ iso_first = FALSE /\ frame_finished = FALSE
  /\ address = 0

TypeOK ==
  /\ iso_state \in {"IDLE", "SEND_DATA", "SEND_ZLP"}
  /\ bytes_left_in_frame \in 0 .. 3 * max_packet_size
  /\ bytes_left_in_packet \in 0 .. max_packet_size /\ next_data_pid \in 0 .. 3
  /\ iso_first \in BOOLEAN /\ frame_finished \in BOOLEAN
  /\ address \in 0 .. max_packet_size
==================================================================================
