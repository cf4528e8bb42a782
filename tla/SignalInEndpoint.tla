----------------------------- MODULE SignalInEndpoint -----------------------------
(***************************************************************************)
(* USBSignalInEndpoint, src/liteusb/gateware/usb/usb2/endpoints/status.py: *)
(* sends the value a signal had when the host asked for it, and the same   *)
(* again until the host acknowledges it.                                   *)
(***************************************************************************)
EXTENDS Integers

CONSTANT bytes_in_signal

VARIABLES
  status_state,        \* of the FSM
  latched_signal,
  bytes_transmitted,
  status_pid           \* interface.tx_pid_toggle

vars == <<status_state, latched_signal, bytes_transmitted, status_pid>>

\* i: [signal, packet_requested, ready, ack, new_token : BOOLEAN]

is_last_byte == bytes_transmitted + 1 = bytes_in_signal

tx_valid == status_state = "TRANSMIT_RESPONSE"
tx_first == tx_valid /\ bytes_transmitted = 0
tx_last  == tx_valid /\ is_last_byte

status_read_complete(i) == status_state = "WAIT_FOR_ACK" /\ i.ack

Idle(i) ==
  /\ status_state = "IDLE"
  /\ IF i.packet_requested
     THEN status_state' = "TRANSMIT_RESPONSE" /\ bytes_transmitted' = 0 /\ latched_signal' = i.signal
     ELSE UNCHANGED <<status_state, bytes_transmitted, latched_signal>>
  /\ UNCHANGED status_pid

TransmitResponse(i) ==
  /\ status_state = "TRANSMIT_RESPONSE"
  /\ bytes_transmitted' = IF i.ready THEN bytes_transmitted + 1 ELSE bytes_transmitted
  /\ status_state' = IF i.ready /\ is_last_byte THEN "WAIT_FOR_ACK" ELSE status_state
  /\ UNCHANGED <<latched_signal, status_pid>>

\* A token outdoes an acknowledgement.
WaitForAck(i) ==
  /\ status_state = "WAIT_FOR_ACK"
  /\ status_pid' = IF i.ack THEN 1 - status_pid ELSE status_pid
  /\ status_state' = IF i.new_token THEN "RETRANSMIT" ELSE IF i.ack THEN "IDLE" ELSE status_state
  /\ UNCHANGED <<latched_signal, bytes_transmitted>>

\* Mutant: what is sent again is the signal's value of now.
Repeated(i) == i.signal
\* What is sent again is what was sent.
Again(i) == latched_signal

Retransmit(i) ==
  /\ status_state = "RETRANSMIT"
  /\ IF i.packet_requested
     THEN status_state' = "TRANSMIT_RESPONSE" /\ bytes_transmitted' = 0 /\ latched_signal' = Again(i)
     ELSE UNCHANGED <<status_state, bytes_transmitted, latched_signal>>
  /\ UNCHANGED status_pid

Clock(i) == Idle(i) \/ TransmitResponse(i) \/ WaitForAck(i) \/ Retransmit(i)

Init(signal) ==
  /\ status_state = "IDLE" /\ latched_signal = signal /\ bytes_transmitted = 0 /\ status_pid = 0
==================================================================================
