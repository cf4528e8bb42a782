--------------------------- MODULE DataPacketReceiver ---------------------------
(***************************************************************************)
(* USBDataPacketReceiver, src/liteusb/gateware/usb/usb2/packet.py: turns   *)
(* the bytes of a DATA packet into a stream two bytes late, so that the    *)
(* CRC never gets into it, and tells afterwards whether the CRC matched.   *)
(* The CRC itself is an input: crc_matches is the outcome of comparing     *)
(* last_word_crc with the last two bytes.                                  *)
(***************************************************************************)
EXTENDS Integers, Sequences

VARIABLES
  rx_state,         \* of the FSM
  active_pid,       \* bit 3 of the PID: the packet's data toggle
  data_pipeline,    \* the two bytes received last, newest last
  packet_complete,  \* strobe: a packet ended with a matching CRC
  crc_mismatch      \* strobe: it ended with another one

vars == <<rx_state, active_pid, data_pipeline, packet_complete, crc_mismatch>>

\* What UTMI shows in one clock.  kind is what a first byte would be read as.
\*   [active, valid : BOOLEAN, byte, kind : {"data", "other"}, toggle : {0, 1},
\*    crc_matches : BOOLEAN]

\* stream.valid, stream.next and stream.payload.
stream_valid   == rx_state = "RECEIVE_AND_EMIT"
stream_next(u) == stream_valid /\ u.valid
stream_payload == data_pipeline[1]

\* timer.start and ready_for_response.
timer_start(u) == stream_valid /\ ~u.active /\ u.crc_matches
ready_for_response(tx_allowed) == rx_state = "INTERPACKET_DELAY" /\ tx_allowed

Shift(u) == data_pipeline' = IF u.valid THEN <<data_pipeline[2], u.byte>> ELSE data_pipeline

\* The two strobes are low unless the packet ends in this clock.
NoStrobe == packet_complete' = FALSE /\ crc_mismatch' = FALSE

Idle(u) ==
  /\ rx_state = "IDLE"
  /\ rx_state' = IF u.active THEN "READ_PID" ELSE "IDLE"
  /\ NoStrobe /\ UNCHANGED <<active_pid, data_pipeline>>

ReadPid(u) ==
  /\ rx_state = "READ_PID"
  /\ \/ /\ ~u.active
        /\ rx_state' = "IDLE" /\ UNCHANGED active_pid
     \/ /\ u.active /\ u.valid /\ u.kind = "data"
        /\ rx_state' = "RECEIVE_FIRST_BYTE" /\ active_pid' = u.toggle
     \/ /\ u.active /\ u.valid /\ u.kind # "data"
        /\ rx_state' = "IRRELEVANT" /\ UNCHANGED active_pid
     \/ u.active /\ ~u.valid /\ UNCHANGED <<rx_state, active_pid>>
  /\ NoStrobe /\ UNCHANGED data_pipeline

\* Fewer than two bytes after the PID: no packet, nothing to clean up.
ReceiveFirstByte(u) ==
  /\ rx_state = "RECEIVE_FIRST_BYTE"
  /\ rx_state' = IF ~u.active THEN "IDLE"
                 ELSE IF u.valid THEN "RECEIVE_SECOND_BYTE" ELSE rx_state
  /\ Shift(u) /\ NoStrobe /\ UNCHANGED active_pid

ReceiveSecondByte(u) ==
  /\ rx_state = "RECEIVE_SECOND_BYTE"
  /\ rx_state' = IF u.valid THEN "RECEIVE_AND_EMIT"
                 ELSE IF ~u.active THEN "IDLE" ELSE rx_state
  /\ Shift(u) /\ NoStrobe /\ UNCHANGED active_pid

ReceiveAndEmit(u) ==
  /\ rx_state = "RECEIVE_AND_EMIT"
  /\ Shift(u)
  /\ packet_complete' = (~u.active /\ u.crc_matches)
  /\ crc_mismatch' = (~u.active /\ ~u.crc_matches)
  /\ rx_state' = IF u.active THEN rx_state
                 ELSE IF u.crc_matches THEN "INTERPACKET_DELAY" ELSE "IDLE"
  /\ UNCHANGED active_pid

\* Whatever the bus does meanwhile is not looked at.
InterpacketDelay(tx_allowed) ==
  /\ rx_state = "INTERPACKET_DELAY"
  /\ rx_state' = IF tx_allowed THEN "IDLE" ELSE rx_state
  /\ NoStrobe /\ UNCHANGED <<active_pid, data_pipeline>>

Irrelevant(u) ==
  /\ rx_state = "IRRELEVANT"
  /\ rx_state' = IF u.active THEN rx_state ELSE "IDLE"
  /\ NoStrobe /\ UNCHANGED <<active_pid, data_pipeline>>

Init(byte) ==
  /\ rx_state = "IDLE" /\ active_pid = 0 /\ data_pipeline = <<byte, byte>>
  /\ packet_complete = FALSE /\ crc_mismatch = FALSE

Clock(u, tx_allowed) ==
  \/ Idle(u) \/ ReadPid(u) \/ ReceiveFirstByte(u) \/ ReceiveSecondByte(u)
  \/ ReceiveAndEmit(u) \/ InterpacketDelay(tx_allowed) \/ Irrelevant(u)

TypeOK(Bytes) ==
  /\ rx_state \in {"IDLE", "READ_PID", "RECEIVE_FIRST_BYTE", "RECEIVE_SECOND_BYTE",
                   "RECEIVE_AND_EMIT", "INTERPACKET_DELAY", "IRRELEVANT"}
  /\ active_pid \in {0, 1}
  /\ data_pipeline \in Bytes \X Bytes
  /\ packet_complete \in BOOLEAN /\ crc_mismatch \in BOOLEAN
=================================================================================
