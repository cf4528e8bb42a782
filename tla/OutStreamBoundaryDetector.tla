------------------------ MODULE OutStreamBoundaryDetector ------------------------
(***************************************************************************)
(* USBOutStreamBoundaryDetector, src/liteusb/gateware/usb/stream.py: holds *)
(* one byte back so that the last byte of a packet can be marked, and      *)
(* delays the complete / invalid strobes until that byte has gone out.     *)
(* All outputs are registers.                                              *)
(***************************************************************************)
EXTENDS Integers

VARIABLES
  bd_state, buffered_byte, is_first_byte, buffered_complete, buffered_invalid,
  out  \* [next, byte, first, last, complete, invalid]: the processed stream and strobes

vars == <<bd_state, buffered_byte, is_first_byte, buffered_complete, buffered_invalid, out>>

\* out_stream.valid is left out: its users only look at it together with next.
Silent == [out EXCEPT !.next = FALSE, !.first = FALSE, !.last = FALSE,
                      !.complete = FALSE, !.invalid = FALSE]

\* in: [valid, next : BOOLEAN, payload, complete, invalid : BOOLEAN]
ByteArrives(in) == in.valid /\ in.next

WaitForFirstByte(in) ==
  /\ bd_state = "WAIT_FOR_FIRST_BYTE"
  /\ \/ /\ ByteArrives(in)
        /\ buffered_byte' = in.payload /\ is_first_byte' = TRUE
        /\ bd_state' = "RECEIVE_AND_TRANSMIT"
     \/ ~ByteArrives(in) /\ UNCHANGED <<bd_state, buffered_byte, is_first_byte>>
  /\ out' = Silent
  /\ UNCHANGED <<buffered_complete, buffered_invalid>>

ReceiveAndTransmit(in) ==
  /\ bd_state = "RECEIVE_AND_TRANSMIT"
  /\ buffered_complete' = (buffered_complete \/ in.complete)
  /\ buffered_invalid' = (buffered_invalid \/ in.invalid)
  /\ \/ /\ ByteArrives(in)
        /\ buffered_byte' = in.payload /\ is_first_byte' = FALSE
        /\ out' = [Silent EXCEPT !.next = TRUE, !.byte = buffered_byte, !.first = is_first_byte]
        /\ UNCHANGED bd_state
     \/ /\ ~in.valid
        /\ is_first_byte' = FALSE /\ UNCHANGED buffered_byte
        /\ out' = [Silent EXCEPT !.next = TRUE, !.byte = buffered_byte, !.first = is_first_byte,
                                 !.last = TRUE]
        /\ bd_state' = "OUTPUT_STROBES"
     \/ /\ in.valid /\ ~in.next
        /\ out' = Silent
        /\ UNCHANGED <<bd_state, buffered_byte, is_first_byte>>

\* Mutant: the buffered strobes are kept for the next packet.
OutputStrobesSticky ==
  /\ bd_state = "OUTPUT_STROBES"
  /\ out' = [Silent EXCEPT !.complete = buffered_complete, !.invalid = buffered_invalid]
  /\ bd_state' = "WAIT_FOR_FIRST_BYTE"
  /\ UNCHANGED <<buffered_byte, is_first_byte, buffered_complete, buffered_invalid>>

OutputStrobes ==
  /\ bd_state = "OUTPUT_STROBES"
  /\ out' = [Silent EXCEPT !.complete = buffered_complete, !.invalid = buffered_invalid]
  /\ buffered_complete' = FALSE /\ buffered_invalid' = FALSE
  /\ bd_state' = "WAIT_FOR_FIRST_BYTE"
  /\ UNCHANGED <<buffered_byte, is_first_byte>>

Init(byte) ==
  /\ bd_state = "WAIT_FOR_FIRST_BYTE" /\ buffered_byte = byte /\ is_first_byte = FALSE
  /\ buffered_complete = FALSE /\ buffered_invalid = FALSE
  /\ out = [next |-> FALSE, byte |-> byte, first |-> FALSE, last |-> FALSE,
            complete |-> FALSE, invalid |-> FALSE]

Clock(in) == WaitForFirstByte(in) \/ ReceiveAndTransmit(in) \/ OutputStrobes

TypeOK(Bytes) ==
  /\ bd_state \in {"WAIT_FOR_FIRST_BYTE", "RECEIVE_AND_TRANSMIT", "OUTPUT_STROBES"}
  /\ buffered_byte \in Bytes
  /\ is_first_byte \in BOOLEAN
  /\ buffered_complete \in BOOLEAN /\ buffered_invalid \in BOOLEAN
  /\ out \in [next : BOOLEAN, byte : Bytes, first : BOOLEAN, last : BOOLEAN,
              complete : BOOLEAN, invalid : BOOLEAN]
===================================================================================
