--------------------------- MODULE DataPacketGenerator ---------------------------
(***************************************************************************)
(* USBDataPacketGenerator, src/liteusb/gateware/usb/usb2/packet.py: sends  *)
(* PID, payload and CRC of a data packet to the transceiver.  A `last`     *)
(* without a `first` asks for a zero-length packet.  The CRC bytes are     *)
(* states of the FSM; their value is left out.                             *)
(***************************************************************************)
EXTENDS Integers

VARIABLES
  tx_state,    \* of the FSM
  packet_pid,  \* current_data_pid, latched while idle
  is_zlp

vars == <<tx_state, packet_pid, is_zlp>>

\* stream.ready: the payload state connects the stream straight to the transceiver.
stream_ready(tx_ready) == tx_state = "SEND_PAYLOAD" /\ tx_ready

Idle(pid, first, last, valid) ==
  /\ tx_state = "IDLE"
  /\ packet_pid' = pid
  /\ \/ /\ valid /\ first
        /\ tx_state' = "SEND_PID" /\ is_zlp' = FALSE
     \/ /\ valid /\ ~first /\ last
        /\ tx_state' = "SEND_PID" /\ is_zlp' = TRUE
     \/ /\ ~(valid /\ (first \/ last))
        /\ UNCHANGED <<tx_state, is_zlp>>

SendPid ==
  /\ tx_state = "SEND_PID"
  /\ tx_state' = IF is_zlp THEN "SEND_CRC_FIRST" ELSE "SEND_PAYLOAD"
  /\ UNCHANGED <<packet_pid, is_zlp>>

SendPayload(last, valid) ==
  /\ tx_state = "SEND_PAYLOAD"
  /\ tx_state' = IF last \/ ~valid THEN "SEND_CRC_FIRST" ELSE tx_state
  /\ UNCHANGED <<packet_pid, is_zlp>>

SendCrcFirst ==
  /\ tx_state = "SEND_CRC_FIRST"
  /\ tx_state' = "SEND_CRC_SECOND"
  /\ UNCHANGED <<packet_pid, is_zlp>>

SendCrcSecond ==
  /\ tx_state = "SEND_CRC_SECOND"
  /\ tx_state' = "IDLE"
  /\ UNCHANGED <<packet_pid, is_zlp>>

Init == tx_state = "IDLE" /\ packet_pid = 0 /\ is_zlp = FALSE

\* Outside IDLE nothing moves until the transceiver accepts the current byte.
Clock(pid, first, last, valid, tx_ready) ==
  \/ Idle(pid, first, last, valid)
  \/ tx_ready /\ (SendPid \/ SendPayload(last, valid) \/ SendCrcFirst \/ SendCrcSecond)
  \/ tx_state # "IDLE" /\ ~tx_ready /\ UNCHANGED vars

TypeOK ==
  /\ tx_state \in {"IDLE", "SEND_PID", "SEND_PAYLOAD", "SEND_CRC_FIRST", "SEND_CRC_SECOND"}
  /\ packet_pid \in 0 .. 3
  /\ is_zlp \in BOOLEAN
===================================================================================
