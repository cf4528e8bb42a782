--------------------------- MODULE ULPIRegisterWindow ---------------------------
(***************************************************************************)
(* ULPIRegisterWindow, src/liteusb/gateware/interface/ulpi.py: writes one  *)
(* register of a ULPI PHY, starting over whenever the PHY takes the bus    *)
(* meanwhile.  Its only user never reads (ulpi.py:511), so the states of a *)
(* read cannot be reached and are left out.  One step is one usb clock.    *)
(***************************************************************************)
VARIABLES
  window_state,
  window_data,   \* ulpi_data_out: an item <<kind, value>> for the PHY
  window_stop,   \* ulpi_stop
  window_done    \* done: the write is complete

vars == <<window_state, window_data, window_stop, window_done>>

\* The inputs of a clock.  Address and data are looked at when they are sent, not
\* latched with the request.
\*   [dir, nxt, write_request : BOOLEAN, address, write_data]

Noop == <<"noop", "none">>
busy == window_state # "IDLE"

\* Every state but the last keeps the strobes low.
NoStrobe == window_stop' = FALSE /\ window_done' = FALSE

Idle(i) ==
  /\ window_state = "IDLE"
  /\ window_state' = IF i.write_request THEN "START_WRITE" ELSE "IDLE"
  /\ window_data' = Noop /\ NoStrobe

\* Mutant: the write is taken up again where it was interrupted.
ResumedState == IF window_state = "HOLD_WRITE" THEN "HOLD_WRITE" ELSE "START_WRITE"

\* The PHY has the bus: wait, or start over.
InterruptedState == "START_WRITE"
Interrupted(i) ==
  /\ window_state \in {"START_WRITE", "SEND_WRITE_ADDRESS", "HOLD_WRITE", "STOPPING"} /\ i.dir
  /\ window_state' = InterruptedState
  /\ UNCHANGED window_data /\ NoStrobe

StartWrite(i) ==
  /\ window_state = "START_WRITE" /\ ~i.dir
  /\ window_state' = "SEND_WRITE_ADDRESS"
  /\ window_data' = <<"write", i.address>> /\ NoStrobe

SendWriteAddress(i) ==
  /\ window_state = "SEND_WRITE_ADDRESS" /\ ~i.dir
  /\ \/ i.nxt /\ window_state' = "HOLD_WRITE" /\ window_data' = <<"byte", i.write_data>>
     \/ ~i.nxt /\ UNCHANGED <<window_state, window_data>>
  /\ NoStrobe

HoldWrite(i) ==
  /\ window_state = "HOLD_WRITE" /\ ~i.dir
  /\ window_stop' = i.nxt
  /\ \/ i.nxt /\ window_state' = "STOPPING" /\ window_data' = Noop
     \/ ~i.nxt /\ UNCHANGED <<window_state, window_data>>
  /\ window_done' = FALSE

Stopping(i) ==
  /\ window_state = "STOPPING" /\ ~i.dir
  /\ window_state' = "IDLE" /\ window_done' = TRUE /\ window_stop' = FALSE
  /\ UNCHANGED window_data

Init ==
  /\ window_state = "IDLE" /\ window_data = Noop
  /\ window_stop = FALSE /\ window_done = FALSE

Clock(i) ==
  \/ Idle(i) \/ Interrupted(i) \/ StartWrite(i) \/ SendWriteAddress(i) \/ HoldWrite(i)
  \/ Stopping(i)
=================================================================================
