-------------------------- MODULE IsochronousOutEndpoint --------------------------
(***************************************************************************)
(* USBIsochronousStreamOutEndpoint, src/liteusb/gateware/usb/usb2/         *)
(* endpoints/isochronous_stream_out.py, from the output of its boundary    *)
(* detector on: what goes into its FIFO and comes out as a stream.         *)
(* Nothing reads its overflow and rx_cnt registers; they are left out.     *)
(***************************************************************************)
EXTENDS Integers, Sequences

CONSTANTS
  max_packet_size,
  buffer_size      \* depth of the FIFO; 2 * max_packet_size unless given

VARIABLES committed, taken, pending   \* the FIFO, entries [byte, last, first]

vars == <<committed, taken, pending>>

Fifo == INSTANCE TransactionalQueue WITH depth <- buffer_size, Data <- {}

\* i: [is_out : BOOLEAN, rx : the boundary detector's output, stream_ready : BOOLEAN];
\* is_out: the last token was an OUT token for this endpoint.

sufficient_space   == Fifo!Room >= max_packet_size
okay_to_receive(i) == i.is_out /\ sufficient_space

write_en(i)      == okay_to_receive(i) /\ i.rx.next
write_data(i)    == [byte |-> i.rx.byte, last |-> i.rx.last, first |-> i.rx.first]
\* Mutant: a damaged packet is kept.
write_commit_any(i) == i.is_out /\ (i.rx.complete \/ i.rx.invalid)
write_commit(i)  == i.is_out /\ i.rx.complete
write_discard(i) == i.is_out /\ i.rx.invalid

stream_taken(i) ==
  IF taken < Len(committed) /\ i.stream_ready THEN <<committed[taken + 1]>> ELSE << >>

\* Reads are committed in the clock after they happen.
Clock(i) ==
  Fifo!Clock([en |-> write_en(i), commit |-> write_commit(i), discard |-> write_discard(i)],
             write_data(i),
             [en |-> i.stream_ready, commit |-> TRUE, discard |-> FALSE])

Init == Fifo!Init
==================================================================================
