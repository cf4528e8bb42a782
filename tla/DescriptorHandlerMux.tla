--------------------------- MODULE DescriptorHandlerMux ---------------------------
(***************************************************************************)
(* GetDescriptorHandlerMux (src/liteusb/gateware/usb/usb2/descriptor.py)   *)
(* as StandardRequestHandler makes it for a device that has runtime        *)
(* descriptors: fixed ones in a ROM, the others generated.  Both handlers  *)
(* are started; a STALL needs both of them, which come to it at different  *)
(* times, so that the earlier one is latched.                              *)
(***************************************************************************)
EXTENDS Integers, Sequences

CONSTANTS descriptors, generated, max_packet_length, element_size

VARIABLES
  lookup, length, position_in_stream, bytes_sent, chosen, fetched,   \* GetDescriptorHandlerBlock
  generators, any_match,                                             \* ... Distributed
  stall_latch   \* the handlers that have stalled

blockVars == <<lookup, length, position_in_stream, bytes_sent, chosen, fetched>>
vars == <<blockVars, generators, any_match, stall_latch>>

B == INSTANCE DescriptorHandler
R == INSTANCE DistributedDescriptorHandler

Handlers == {"block", "distributed"}

\* i is what the request handler gives: [value, length, start_position, start].
stalling(i) ==
  {h \in Handlers : IF h = "block" THEN B!stall(i.value) ELSE R!stall(i.value, i.start)}
stall(i) == stalling(i) \cup stall_latch = Handlers

\* The streams are ORed: only one of them is valid.
out_valid(i) == B!out_valid \/ R!out_valid(i.value)
out_first(i) == B!out_first(i.start_position) \/ R!out_first(i.value, i.start_position)
out_last(i)  == B!out_last \/ R!out_last(i.value, i.length, i.start_position)
out_payload(i) == IF R!out_valid(i.value) THEN R!out_payload(i.value) ELSE B!out_payload

\* Neither handler has anything to send.
Idle == lookup = "IDLE" /\ \A g \in DOMAIN generated : generators[g].state # "STREAMING"

Init == B!Init /\ R!Init /\ stall_latch = {}

Clock(i, ready) ==
  /\ B!Clock(i.value, i.length, i.start_position, i.start, ready)
  /\ R!Clock(i.value, i.length, i.start_position, i.start, ready)
  /\ stall_latch' = (IF i.start \/ stall(i) THEN {} ELSE stall_latch)
                    \cup (IF stall(i) THEN {} ELSE stalling(i))

TypeOK == B!TypeOK /\ R!TypeOK /\ stall_latch \subseteq Handlers
====================================================================================
