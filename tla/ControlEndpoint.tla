----------------------------- MODULE ControlEndpoint -----------------------------
(***************************************************************************)
(* The stages of USBControlEndpoint (src/liteusb/gateware/usb/usb2/        *)
(* control.py).  A record `i` carries what the endpoint sees in a clock:   *)
(*   setup, received     the setup decoder's fields and its strobe         *)
(*   pid, targeted       of the last token: its PID, and whether it named  *)
(*                       this endpoint                                     *)
(*   new_token, ready_for_response      the token detector's strobes       *)
(*   rx_ready_for_response              the receiver's strobe              *)
(***************************************************************************)
VARIABLE control   \* state of the FSM

vars == control

\* When a response is due: to an IN token in the data stage, ...
data_requested(i) ==
  /\ control = "DATA_IN"
  /\ i.ready_for_response /\ i.targeted /\ i.pid = "IN"

\* Mutant: the host's empty packet is answered at its token already.
status_requested_at_token(i) ==
  /\ control \in {"STATUS_IN", "STATUS_OUT"} /\ i.ready_for_response /\ i.targeted
  /\ i.pid = IF control = "STATUS_IN" THEN "IN" ELSE "OUT"

\* ... to an IN token or the host's empty packet in the status stage.
status_requested(i) ==
  \/ control = "STATUS_IN" /\ i.ready_for_response /\ i.targeted /\ i.pid = "IN"
  \/ control = "STATUS_OUT" /\ i.rx_ready_for_response /\ i.targeted /\ i.pid = "OUT"

\* The host's data gets through to the request handler.
handler_rx_ready(i) ==
  control = "DATA_OUT" /\ i.targeted /\ i.pid = "OUT" /\ i.rx_ready_for_response

\* A PING is always answered with an ACK.
ping_ack(i) ==
  /\ control \in {"DATA_OUT", "STATUS_OUT"}
  /\ i.ready_for_response /\ i.targeted /\ i.pid = "PING"

---------------------------------------------------------------------------

Init == control = "SETUP"

Setup(i) ==
  /\ control = "SETUP"
  /\ control' = IF ~(i.received /\ i.targeted) THEN control
                ELSE IF i.setup.length = 0 THEN "STATUS_IN"
                ELSE IF i.setup.is_in_request THEN "DATA_IN" ELSE "DATA_OUT"

\* A SETUP token, for whatever endpoint, takes all the other stages back.
Restarts(i) == i.new_token /\ i.pid = "SETUP"

Stage(i, here, moves, next) ==
  /\ control = here
  /\ control' = IF i.new_token /\ i.targeted /\ i.pid \in moves THEN next
                ELSE IF Restarts(i) THEN "SETUP" ELSE control

Clock(i) ==
  \/ Setup(i)
  \/ Stage(i, "DATA_IN", {"OUT", "PING"}, "STATUS_OUT")
  \/ Stage(i, "DATA_OUT", {"IN"}, "STATUS_IN")
  \/ Stage(i, "STATUS_IN", {}, "STATUS_IN")
  \/ Stage(i, "STATUS_OUT", {}, "STATUS_OUT")

TypeOK == control \in {"SETUP", "DATA_IN", "DATA_OUT", "STATUS_IN", "STATUS_OUT"}
==================================================================================
