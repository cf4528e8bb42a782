---------------------------- MODULE InterpacketTimer ----------------------------
(***************************************************************************)
(* USBInterpacketTimer, src/liteusb/gateware/usb/usb2/packet.py: counts    *)
(* clocks since the last start and strobes when the gap before an answer   *)
(* has passed.                                                             *)
(***************************************************************************)
EXTENDS Integers

CONSTANTS
  Delays,       \* of the speeds: 1 at high speed, 10 at full speed, 2 there in a 12 MHz domain
  counter_max   \* bound: where the counter saturates

VARIABLES
  counter,
  rx_to_tx_delay   \* the delay that belongs to the input `speed`

tx_allowed == counter = rx_to_tx_delay

Init == counter = 0 /\ rx_to_tx_delay \in Delays

\* The speed changes by a bus reset only, which ends all transfers.
Tick(start) ==
  /\ counter' = IF start THEN 0 ELSE IF counter < counter_max + 1 THEN counter + 1 ELSE counter
  /\ UNCHANGED rx_to_tx_delay

TypeOK == counter \in 0 .. counter_max + 1 /\ rx_to_tx_delay \in Delays
=================================================================================
