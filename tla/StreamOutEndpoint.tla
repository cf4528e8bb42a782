---------------------------- MODULE StreamOutEndpoint ----------------------------
(***************************************************************************)
(* USBStreamOutEndpoint, src/liteusb/gateware/usb/usb2/endpoints/stream.py *)
(* from the output of its boundary detector on: which bytes go into the    *)
(* receive FIFO, what is answered to a data packet and to a PING, and what *)
(* comes out as a stream.  The FIFO is the TransactionalQueue that         *)
(* TransactionalizedFIFO implements.  One step is one usb clock.           *)
(***************************************************************************)
EXTENDS Integers, Sequences

CONSTANTS
  max_packet_size,
  rx_counts,      \* number of values the rx_cnt register can hold
  buffer_size     \* depth of the FIFO; 2 * max_packet_size - 1 unless given

VARIABLES
  committed, taken, pending,  \* the FIFO, entries [byte, last, first]
  expected_data_toggle, overflow, rx_cnt, transfer_active

fifoVars == <<committed, taken, pending>>
vars     == <<fifoVars, expected_data_toggle, overflow, rx_cnt, transfer_active>>

\* Values reach a TransactionalQueue as parameters of Clock only.
Fifo == INSTANCE TransactionalQueue WITH depth <- buffer_size, Data <- {}

(***************************************************************************)
(* The inputs of one clock: the tokenizer's last token for this endpoint   *)
(* and its ready_for_response, the boundary detector's output, the toggle  *)
(* of the data packet, rx_ready_for_response, stream.ready, and the        *)
(* CLEAR_FEATURE(ENDPOINT_HALT) strobe for this endpoint.                  *)
(*   [token : {"out", "ping", "other"}, token_ready : BOOLEAN,             *)
(*    rx : [next, byte, first, last, complete, invalid],                   *)
(*    rx_pid_toggle : {0, 1}, rx_ready, stream_ready, clear_halt : BOOLEAN]*)
(***************************************************************************)

---------------------------------------------------------------------------
(* Combinational logic *)

fifo_full        == Fifo!Room = 0
fifo_empty       == taken = Len(committed)
\* Mutant: a PING is answered without regard to the packet's size.
sufficient_space_for_a_byte == Fifo!Room > 0
sufficient_space == Fifo!Room >= max_packet_size

targeting_endpoint(i) == i.token = "out"
expected_pid_match(i) == i.rx_pid_toggle = expected_data_toggle

ping_response_requested(i) == i.token = "ping" /\ i.token_ready
data_response_requested(i) == targeting_endpoint(i) /\ i.rx_ready

\* Mutant: a repeat is received like a new packet.
okay_to_receive_any(i) == targeting_endpoint(i)
okay_to_receive(i) == targeting_endpoint(i) /\ expected_pid_match(i)
should_skip(i)     == targeting_endpoint(i) /\ ~expected_pid_match(i)
data_is_lost(i)    == okay_to_receive(i) /\ i.rx.next /\ fifo_full
\* Mutants: one of the two signs of a loss is not looked at.
data_accepted_losing(i)   == okay_to_receive(i) /\ ~overflow
data_accepted_overflow(i) == okay_to_receive(i) /\ ~data_is_lost(i)
data_accepted(i)   == okay_to_receive(i) /\ ~data_is_lost(i) /\ ~overflow

\* Mutant: off by one.
full_packet_late == rx_cnt = max_packet_size
full_packet == rx_cnt = max_packet_size - 1

write_en(i)      == okay_to_receive(i) /\ i.rx.next /\ ~fifo_full
write_data(i)    == [byte |-> i.rx.byte, last |-> i.rx.last /\ ~full_packet,
                     first |-> i.rx.first /\ ~transfer_active]
write_commit(i)  == targeting_endpoint(i) /\ i.rx.complete /\ ~overflow
write_discard(i) == targeting_endpoint(i) /\ (i.rx.invalid \/ (i.rx.complete /\ overflow))

ack(i) == \/ data_response_requested(i) /\ (data_accepted(i) \/ should_skip(i))
          \/ ping_response_requested(i) /\ sufficient_space
nak(i) == \/ data_response_requested(i) /\ ~data_accepted(i) /\ ~should_skip(i)
          \/ ping_response_requested(i) /\ ~sufficient_space

\* The stream: what its consumer takes in this clock.
stream_valid  == ~fifo_empty
stream_taken(i) == IF stream_valid /\ i.stream_ready THEN <<committed[taken + 1]>> ELSE << >>

---------------------------------------------------------------------------
(* Registers *)

Init ==
  /\ Fifo!Init
  /\ expected_data_toggle = 0 /\ overflow = FALSE /\ rx_cnt = 0 /\ transfer_active = FALSE

\* Reads are committed in the clock after they happen.
FifoClock(i) ==
  Fifo!Clock([en |-> write_en(i), commit |-> write_commit(i), discard |-> write_discard(i)],
             write_data(i),
             [en |-> i.stream_ready, commit |-> TRUE, discard |-> FALSE])

\* Mutant: a discard leaves the flag set.
NextOverflowSticky(i) == IF write_commit(i) THEN FALSE ELSE overflow \/ data_is_lost(i)
NextOverflow(i) == IF write_commit(i) \/ write_discard(i) THEN FALSE
                   ELSE overflow \/ data_is_lost(i)

\* Mutant: CLEAR_FEATURE(ENDPOINT_HALT) is ignored.
NextToggleUnhalted(i) == IF data_response_requested(i) /\ data_accepted(i)
                         THEN 1 - expected_data_toggle ELSE expected_data_toggle
NextToggle(i) == IF i.clear_halt THEN 0
                 ELSE IF data_response_requested(i) /\ data_accepted(i)
                      THEN 1 - expected_data_toggle ELSE expected_data_toggle

Clock(i) ==
  /\ FifoClock(i)
  /\ rx_cnt' = IF write_commit(i) \/ write_discard(i) THEN 0
               ELSE IF write_en(i) THEN (rx_cnt + 1) % rx_counts ELSE rx_cnt
  /\ transfer_active' = IF write_en(i) /\ i.rx.last THEN full_packet ELSE transfer_active
  /\ overflow' = NextOverflow(i)
  /\ expected_data_toggle' = NextToggle(i)

TypeOK(Bytes) ==
  LET Entries == [byte : Bytes, last : BOOLEAN, first : BOOLEAN]
  IN  /\ committed \in Seq(Entries) /\ pending \in Seq(Entries)
      /\ Fifo!Room >= 0 /\ taken \in 0 .. Len(committed)
      /\ expected_data_toggle \in {0, 1}
      /\ overflow \in BOOLEAN /\ transfer_active \in BOOLEAN
      /\ rx_cnt \in 0 .. rx_counts - 1
==================================================================================
