------------------------- MODULE StandardRequestHandler -------------------------
(***************************************************************************)
(* StandardRequestHandler (src/liteusb/gateware/usb/request/standard.py)   *)
(* with the two kinds of request ControlRequestHandler gives it            *)
(* (request/control.py).  It drives the descriptor handler and the         *)
(* serializer; a record `i` carries its inputs in a clock:                 *)
(*   setup, received    the decoder's fields and its strobe                *)
(*   data_requested, status_requested   the control endpoint's strobes     *)
(*   ack                the host's ACK                                     *)
(*   descriptor_stall   from the descriptor handler                        *)
(***************************************************************************)
EXTENDS Integers

CONSTANT max_packet_size

VARIABLES
  handler,         \* state of the FSM
  start_position,  \* of the next packet in the descriptor
  tx_data_pid,
  expecting_ack

vars == <<handler, start_position, tx_data_pid, expecting_ack>>

register_writes == {"SET_ADDRESS", "SET_CONFIGURATION"}
simple_data     == {"GET_STATUS", "GET_CONFIGURATION"}
handled         == register_writes \cup simple_data \cup {"CLEAR_FEATURE", "GET_DESCRIPTOR"}
start_positions == 2048

\* Only clearing ENDPOINT_HALT is implemented; its number is 0.
stall_condition(i) == i.setup.recipient # "ENDPOINT" \/ i.setup.value # <<0, 0>>

---------------------------------------------------------------------------
(* Outputs *)

descriptor_start(i) == handler = "GET_DESCRIPTOR" /\ i.data_requested
serializer_start(i) == handler \in simple_data /\ i.data_requested
serializer_length   == CASE handler = "GET_STATUS"        -> 2
                         [] handler = "GET_CONFIGURATION" -> 1
                         [] OTHER                         -> 0

send_zlp(i) ==
  /\ i.status_requested
  /\ handler \in register_writes \/ (handler = "CLEAR_FEATURE" /\ ~stall_condition(i))

stall(i) ==
  \/ handler = "CLEAR_FEATURE" /\ i.status_requested /\ stall_condition(i)
  \/ handler = "GET_DESCRIPTOR" /\ i.descriptor_stall
  \/ handler = "UNHANDLED" /\ (i.data_requested \/ i.status_requested)

ack(i) == handler \in simple_data \cup {"GET_DESCRIPTOR"} /\ i.status_requested

\* Mutant: the address is taken over when its status stage is asked for.
address_changed_at_once(i) == handler = "SET_ADDRESS" /\ i.status_requested

\* The strobes of the requests that change something; the value is the live
\* setup.value, of which the address takes 7 bits and the configuration 8.
address_changed(i)     == handler = "SET_ADDRESS" /\ i.ack
config_changed(i)      == handler = "SET_CONFIGURATION" /\ i.ack
clear_endpoint_halt(i) == handler = "CLEAR_FEATURE" /\ i.ack
new_address(i)         == i.setup.value[2] % 128
new_config(i)          == i.setup.value[2]

---------------------------------------------------------------------------
(* One clock *)

Init == handler = "IDLE" /\ start_position = 0 /\ tx_data_pid = 1 /\ expecting_ack = FALSE

\* Only here does the handler look at a new SETUP packet.
Idle(i) ==
  /\ handler = "IDLE"
  /\ handler' = IF ~(i.received /\ i.setup.type = "STANDARD") THEN handler
                ELSE IF i.setup.request \in handled THEN i.setup.request ELSE "UNHANDLED"
  /\ start_position' = 0
  /\ tx_data_pid' = 1
  /\ UNCHANGED expecting_ack

\* Mutant: the handler is done when the host has ACKed the data.
HandleSimpleDataRequestUntilAck(i) ==
  /\ handler \in simple_data
  /\ handler' = IF i.ack THEN "IDLE" ELSE handler
  /\ UNCHANGED <<start_position, tx_data_pid, expecting_ack>>

HandleSimpleDataRequest(i) ==
  /\ handler \in simple_data
  /\ handler' = IF i.status_requested THEN "IDLE" ELSE handler
  /\ UNCHANGED <<start_position, tx_data_pid, expecting_ack>>

\* CLEAR_FEATURE has the same shape; a STALL leaves all three where they are.
HandleWriteRequest(i) ==
  /\ handler \in register_writes \cup {"CLEAR_FEATURE"}
  /\ handler' = IF i.ack THEN "IDLE" ELSE handler
  /\ UNCHANGED <<start_position, tx_data_pid, expecting_ack>>

\* An ACK takes the handler on to the next packet if it has sent one.
\* Mutant: it never notices that it has.
advances(i) == i.ack /\ expecting_ack
awaits_ack_dropped(i) == expecting_ack /\ ~advances(i) /\ ~i.descriptor_stall
awaits_ack(i) == (i.data_requested \/ expecting_ack) /\ ~advances(i) /\ ~i.descriptor_stall

GetDescriptor(i) ==
  /\ handler = "GET_DESCRIPTOR"
  /\ handler' = IF i.status_requested \/ i.descriptor_stall THEN "IDLE" ELSE handler
  /\ start_position' = IF advances(i) THEN (start_position + max_packet_size) % start_positions
                       ELSE start_position
  /\ tx_data_pid' = IF advances(i) THEN 1 - tx_data_pid ELSE tx_data_pid
  /\ expecting_ack' = awaits_ack(i)

Unhandled(i) ==
  /\ handler = "UNHANDLED"
  /\ handler' = IF i.data_requested \/ i.status_requested THEN "IDLE" ELSE handler
  /\ UNCHANGED <<start_position, tx_data_pid, expecting_ack>>

Clock(i) ==
  Idle(i) \/ HandleSimpleDataRequest(i) \/ HandleWriteRequest(i) \/ GetDescriptor(i) \/ Unhandled(i)

TypeOK ==
  /\ handler \in handled \cup {"IDLE", "UNHANDLED"}
  /\ start_position \in 0 .. start_positions - 1
  /\ tx_data_pid \in {0, 1} /\ expecting_ack \in BOOLEAN
=================================================================================
