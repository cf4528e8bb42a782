---------------------------- MODULE StreamSerializer ----------------------------
(***************************************************************************)
(* StreamSerializer (src/liteusb/gateware/stream/generator.py): sends a    *)
(* short array of bytes as a stream.                                       *)
(***************************************************************************)
EXTENDS Integers

CONSTANTS
  data_length,     \* number of bytes in the array
  length_values    \* number of values max_length and bytes_sent can hold

VARIABLES
  serializer,    \* state of the FSM
  at,            \* position_in_stream
  bytes_sent

vars == <<serializer, at, bytes_sent>>

out_valid == serializer = "STREAMING"
out_first == out_valid /\ at = 0
on_last_packet(max_length) == at = data_length - 1 \/ bytes_sent = max_length - 1
out_last(max_length) == out_valid /\ on_last_packet(max_length)

Init == serializer = "IDLE" /\ at = 0 /\ bytes_sent = 0

\* max_length as its few bits show it.
Narrowed(max_length) == max_length % length_values

Clock(start, max_length, ready) ==
  \/ /\ serializer = "IDLE"
     /\ serializer' = IF start /\ max_length > 0 THEN "STREAMING" ELSE "IDLE"
     /\ at' = 0 /\ bytes_sent' = 0
  \/ /\ serializer = "STREAMING" /\ ready /\ ~on_last_packet(max_length)
     /\ at' = at + 1 /\ bytes_sent' = (bytes_sent + 1) % length_values
     /\ UNCHANGED serializer
  \/ /\ serializer = "STREAMING" /\ ready /\ on_last_packet(max_length)
     /\ serializer' = "DONE" /\ UNCHANGED <<at, bytes_sent>>
  \/ serializer = "STREAMING" /\ ~ready /\ UNCHANGED vars
  \/ serializer = "DONE" /\ serializer' = "IDLE" /\ UNCHANGED <<at, bytes_sent>>

TypeOK ==
  /\ serializer \in {"IDLE", "STREAMING", "DONE"}
  /\ at \in 0 .. data_length - 1 /\ bytes_sent \in 0 .. length_values - 1
=================================================================================
