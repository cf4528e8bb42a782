----------------------- MODULE DistributedDescriptorHandler -----------------------
(***************************************************************************)
(* GetDescriptorHandlerDistributed and its USBDescriptorStreamGenerators   *)
(* (src/liteusb/gateware/usb/usb2/descriptor.py): every descriptor has a   *)
(* generator of its own, and the value of the request selects one.  The    *)
(* generator's ROM is given its address a clock ahead, so that it shows    *)
(* the byte of position_in_stream.                                         *)
(***************************************************************************)
EXTENDS Integers, Sequences, SequencesExt, FiniteSetsExt

CONSTANTS
  generated,          \* the descriptors in the order they were added: records [value, data]
  max_packet_length

VARIABLES
  generators,  \* for each of them [state, position_in_stream, bytes_sent]
  any_match    \* whether the value has matched

vars == <<generators, any_match>>

\* How many values a Signal(max = n) can hold: a power of two.
Wide(n) == CHOOSE w \in {2, 4, 8, 16, 32, 64, 128, 256, 512, 1024, 2048} : n <= w /\ (w = 2 \/ w < 2 * n)

\* At most a packet of what the host still wants, in 16 bits.
length_internal(length, start_position) ==
  Min({(length - start_position) % 65536, max_packet_length})

data_length(g) == Len(generated[g].data)
Narrowed(g, start_position) == start_position % Wide(data_length(g))

Selected(value) == {g \in DOMAIN generated : generated[g].value = value}

on_last_packet(g, max_length) ==
  \/ generators[g].position_in_stream >= data_length(g) - 1
  \/ generators[g].bytes_sent + 1 >= max_length

---------------------------------------------------------------------------
(* Outputs: those of the selected generator *)

Streaming(value) == {g \in Selected(value) : generators[g].state = "STREAMING"}
out_valid(value) == Streaming(value) # {}
out_first(value, start_position) ==
  \E g \in Streaming(value) : generators[g].position_in_stream = Narrowed(g, start_position)
out_last(value, length, start_position) ==
  \E g \in Streaming(value) : on_last_packet(g, length_internal(length, start_position))
out_payload(value) ==
  LET g == CHOOSE g \in Streaming(value) : TRUE
  IN  generated[g].data[generators[g].position_in_stream + 1]

\* any_match is ORed with itself: the last comparison is what can set it, and nothing
\* clears it.
matches(value) == any_match \/ value = Last(generated).value
stall(value, start) == start /\ ~matches(value)

---------------------------------------------------------------------------
(* One clock *)

Init ==
  /\ generators = [g \in DOMAIN generated |-> [state |-> "IDLE", position_in_stream |-> 0, bytes_sent |-> 0]]
  /\ any_match = FALSE

\* Generator g; only the selected one has a start, and its stream a ready.
Idle(g, max_length, start_position, start) ==
  [state |-> IF ~start THEN "IDLE" ELSE IF max_length > 0 THEN "STREAMING" ELSE "DONE",
   position_in_stream |-> Narrowed(g, start_position), bytes_sent |-> 0]
Stream(r, g, max_length, ready) ==
  IF ~ready THEN r
  ELSE IF on_last_packet(g, max_length) THEN [r EXCEPT !.state = "DONE"]
  ELSE [r EXCEPT !.position_in_stream = (@ + 1) % Wide(data_length(g) + 1), !.bytes_sent = @ + 1]
Done(r) == [r EXCEPT !.state = "IDLE"]

Clock(value, length, start_position, start, ready) ==
  LET max_length == length_internal(length, start_position)
      selected   == Selected(value)
  IN /\ generators' = [g \in DOMAIN generated |->
          LET r == generators[g] IN
          CASE r.state = "IDLE"      -> Idle(g, max_length, start_position, start /\ g \in selected)
            [] r.state = "STREAMING" -> Stream(r, g, max_length, ready /\ g \in selected)
            [] r.state = "DONE"      -> Done(r)]
     /\ any_match' = matches(value)

TypeOK ==
  /\ any_match \in BOOLEAN
  /\ \A g \in DOMAIN generated :
       /\ generators[g].state \in {"IDLE", "STREAMING", "DONE"}
       /\ generators[g].position_in_stream \in 0 .. data_length(g)
       /\ generators[g].bytes_sent \in 0 .. max_packet_length
====================================================================================
