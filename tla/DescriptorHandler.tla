---------------------------- MODULE DescriptorHandler ----------------------------
(***************************************************************************)
(* GetDescriptorHandlerBlock (src/liteusb/gateware/usb/usb2/descriptor.py):*)
(* looks a descriptor up in the ROM and streams one packet of it, from     *)
(* start_position on.  The ROM's tables are the sequence of descriptors of *)
(* each type; its data is fetched a word at a time, a clock ahead.         *)
(***************************************************************************)
EXTENDS Integers, Sequences, FiniteSetsExt

CONSTANTS
  descriptors,        \* for each type from 0 on, its descriptors, in order of their index
  max_packet_length,
  element_size        \* bytes in a word of the ROM

VARIABLES
  lookup,              \* state of the FSM
  length,              \* of this packet at most; registered
  position_in_stream,
  bytes_sent,
  chosen,              \* what descriptor_data_base_address and descriptor_length select
  fetched              \* the word of it the ROM's port shows

vars == <<lookup, length, position_in_stream, bytes_sent, chosen, fetched>>

max_type_index == Max(DOMAIN descriptors)
AllDescriptors == UNION {{descriptors[t][i] : i \in DOMAIN descriptors[t]} : t \in DOMAIN descriptors}
descriptor_max_length == Max({Len(d) : d \in AllDescriptors})
\* position_in_stream has as many bits as descriptor_max_length needs.
position_values ==
  CHOOSE w \in {2, 4, 8, 16, 32, 64, 128, 256, 512, 1024, 2048} :
    descriptor_max_length < w /\ w <= 2 * descriptor_max_length

\* value is <<type, index>>.
HasType(value)  == value[1] <= max_type_index
HasIndex(value) == value[2] < Len(descriptors[value[1]])

on_last_packet ==
  position_in_stream = Len(chosen) - 1 \/ bytes_sent + 1 >= length

out_valid == lookup \in {"SEND_DESCRIPTOR", "SEND_ZLP"}
out_first(start_position) == lookup = "SEND_DESCRIPTOR" /\ position_in_stream = start_position
out_last  == lookup = "SEND_ZLP" \/ (lookup = "SEND_DESCRIPTOR" /\ on_last_packet)
out_payload == chosen[fetched * element_size + (position_in_stream % element_size) + 1]

stall(value) ==
  (lookup = "START" /\ ~HasType(value)) \/ (lookup = "LOOKUP_TYPE" /\ ~HasIndex(value))

\* length_requested - start_position, in 16 bits, and no more than a packet.
PacketLimit(length_requested, start_position) ==
  LET words_remaining == (length_requested - start_position) % 65536 IN
    IF words_remaining <= max_packet_length THEN words_remaining ELSE max_packet_length

Init ==
  /\ lookup = "IDLE" /\ length = 0 /\ position_in_stream = 0 /\ bytes_sent = 0
  /\ chosen = << >> /\ fetched = 0

\* Mutant: the packet before still counts.
IdleCountKept(start) ==
  /\ lookup = "IDLE"
  /\ lookup' = IF start THEN "START" ELSE "IDLE"
  /\ UNCHANGED <<bytes_sent, position_in_stream, chosen, fetched>>

Idle(start) ==
  /\ lookup = "IDLE"
  /\ lookup' = IF start THEN "START" ELSE "IDLE"
  /\ bytes_sent' = 0
  /\ UNCHANGED <<position_in_stream, chosen, fetched>>

Start(value, start_position) ==
  /\ lookup = "START"
  /\ lookup' = IF HasType(value) THEN "LOOKUP_TYPE" ELSE "IDLE"
  /\ position_in_stream' = start_position % position_values
  /\ UNCHANGED <<bytes_sent, chosen, fetched>>

LookupType(value) ==
  /\ lookup = "LOOKUP_TYPE"
  /\ lookup' = IF ~HasIndex(value) THEN "IDLE"
               ELSE IF length = 0 THEN "SEND_ZLP" ELSE "LOOKUP_DESCRIPTOR"
  /\ UNCHANGED <<position_in_stream, bytes_sent, chosen, fetched>>

LookupDescriptor(value) ==
  /\ lookup = "LOOKUP_DESCRIPTOR"
  /\ chosen' = descriptors[value[1]][value[2] + 1]
  /\ lookup' = IF position_in_stream >= Len(chosen') THEN "SEND_ZLP" ELSE "SEND_DESCRIPTOR"
  /\ fetched' = position_in_stream \div element_size
  /\ UNCHANGED <<position_in_stream, bytes_sent>>

SendDescriptor(ready) ==
  /\ lookup = "SEND_DESCRIPTOR"
  /\ \/ /\ ready /\ ~on_last_packet
        /\ position_in_stream' = (position_in_stream + 1) % position_values
        /\ bytes_sent' = bytes_sent + 1
        /\ fetched' = (position_in_stream + 1) \div element_size
        /\ UNCHANGED <<lookup, chosen>>
     \/ /\ ready /\ on_last_packet
        /\ chosen' = << >>
        /\ lookup' = "IDLE"
        /\ fetched' = position_in_stream \div element_size
        /\ UNCHANGED <<position_in_stream, bytes_sent>>
     \/ /\ ~ready
        /\ fetched' = position_in_stream \div element_size
        /\ UNCHANGED <<lookup, position_in_stream, bytes_sent, chosen>>

\* One clock is enough: an idle packet generator takes the request at once.
SendZlp ==
  /\ lookup = "SEND_ZLP"
  /\ lookup' = "IDLE"
  /\ UNCHANGED <<position_in_stream, bytes_sent, chosen, fetched>>

Clock(value, length_requested, start_position, start, ready) ==
  /\ length' = PacketLimit(length_requested, start_position)
  /\ \/ Idle(start) \/ Start(value, start_position) \/ LookupType(value)
     \/ LookupDescriptor(value) \/ SendDescriptor(ready) \/ SendZlp

TypeOK ==
  /\ lookup \in {"IDLE", "START", "LOOKUP_TYPE", "LOOKUP_DESCRIPTOR", "SEND_DESCRIPTOR", "SEND_ZLP"}
  /\ length \in 0 .. max_packet_length
  /\ position_in_stream \in 0 .. position_values - 1 /\ bytes_sent \in 0 .. max_packet_length
  /\ chosen \in AllDescriptors \cup {<< >>}
  /\ fetched \in 0 .. descriptor_max_length
=================================================================================
