------------------------------ MODULE SetupDecoder ------------------------------
(***************************************************************************)
(* USBSetupDecoder (src/liteusb/gateware/usb/usb2/request.py) and the      *)
(* USBDataPacketDeserializer it owns (packet.py): from a SETUP token and   *)
(* the data packet behind it to the fields of a control request.           *)
(*                                                                         *)
(* The deserializer is modelled packet by packet: it gets every packet the *)
(* bus brings as [data |-> it has a DATA PID, bytes |-> how many follow    *)
(* the PID, good |-> its CRC holds, content |-> what it says].             *)
(***************************************************************************)
EXTENDS Integers

CONSTANTS
  NoRequest,  \* the fields before the first SETUP packet
  Requests    \* what a SETUP packet can say

VARIABLES
  position,    \* in the packet being captured; -1 when none is
  new_packet,  \* strobe, registered
  captured,    \* the deserializer's packet and length: a request, if it was 8 bytes
  decoder,     \* state of the decoder's FSM
  packet,      \* the parsed fields
  received     \* strobe, registered

vars == <<position, new_packet, captured, decoder, packet, received>>

setup_size  == 8
max_size_with_crc == setup_size + 2

NoPacket    == [data |-> FALSE, bytes |-> 0, good |-> FALSE, content |-> NoRequest]
TokenPacket == [NoPacket EXCEPT !.bytes = 2]

\* A packet with a bad CRC leaves the FSM in CAPTURE_DATA, so that it takes the
\* packets that follow, their PIDs too, for the rest of this one: until the buffer is
\* over-filled, or one of them ends with its CRC, over which the receiver has restarted
\* the checksum they share.  The eight bytes then are of several packets and may say
\* anything.
Captures(rx, first) ==
  LET end == first + rx.bytes IN
    /\ new_packet' = (rx.good /\ end <= max_size_with_crc)
    /\ position' = IF new_packet' \/ end > max_size_with_crc THEN -1 ELSE end
    /\ captured' \in IF ~new_packet' THEN {captured}
                     ELSE IF end # max_size_with_crc THEN {NoRequest}
                     ELSE IF first = 0 THEN {rx.content} ELSE Requests

Deserialize(rx) ==
  \/ rx = NoPacket /\ new_packet' = FALSE /\ UNCHANGED <<position, captured>>
  \/ rx # NoPacket /\ position = -1 /\ ~rx.data /\ new_packet' = FALSE /\ UNCHANGED <<position, captured>>
  \/ rx # NoPacket /\ position = -1 /\ rx.data /\ Captures(rx, 0)
  \/ rx # NoPacket /\ position # -1 /\ Captures(rx, position + 1)

\* A packet of eight bytes is a request.
IsSetup == new_packet /\ captured # NoRequest

ack(tx_allowed) ==
  tx_allowed /\ ((decoder = "READ_DATA" /\ IsSetup) \/ decoder = "INTERPACKET_DELAY")

\* tx_allowed stands for the timer's signal, which is not looked at for high speed.
Decode(setup_token, new_token, tx_allowed) ==
  \/ /\ decoder = "IDLE"
     /\ decoder' = IF setup_token /\ new_token THEN "READ_DATA" ELSE decoder
     /\ received' = FALSE /\ UNCHANGED packet
  \/ /\ decoder = "READ_DATA" /\ new_token
     /\ decoder' = "IDLE"
     /\ received' = FALSE /\ UNCHANGED packet
  \/ /\ decoder = "READ_DATA" /\ ~new_token
     /\ decoder' = IF IsSetup /\ ~tx_allowed THEN "INTERPACKET_DELAY"
                   ELSE IF new_packet THEN "IDLE" ELSE decoder
     /\ packet' = IF IsSetup THEN captured ELSE packet
     /\ received' = IsSetup
  \/ /\ decoder = "INTERPACKET_DELAY"
     /\ decoder' = IF tx_allowed THEN "IDLE" ELSE decoder
     /\ received' = FALSE /\ UNCHANGED packet

Init ==
  /\ position = -1 /\ new_packet = FALSE /\ captured = NoRequest
  /\ decoder = "IDLE" /\ packet = NoRequest /\ received = FALSE

Clock(rx, setup_token, new_token, tx_allowed) ==
  Deserialize(rx) /\ Decode(setup_token, new_token, tx_allowed)

TypeOK ==
  /\ position \in -1 .. max_size_with_crc /\ new_packet \in BOOLEAN
  /\ captured \in Requests \cup {NoRequest} /\ packet \in Requests \cup {NoRequest}
  /\ decoder \in {"IDLE", "READ_DATA", "INTERPACKET_DELAY"} /\ received \in BOOLEAN
=================================================================================
