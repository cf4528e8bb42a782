-------------------------- MODULE ULPIControlTranslator --------------------------
(***************************************************************************)
(* ULPIControlTranslator, src/liteusb/gateware/interface/ulpi.py: keeps the*)
(* registers of a ULPI PHY equal to values composed of control signals,    *)
(* through one register window.                                            *)
(***************************************************************************)
EXTENDS Integers, Sequences, SequencesExt

CONSTANTS
  Registers,     \* the registers' names, the one served first in front
  ResetValue     \* register -> the value it is taken to have after a reset

VARIABLES
  current,       \* current_register_value: register -> the value written last
  write_value,   \* register -> the value to write
  control_busy

vars == <<current, write_value, control_busy>>

Names == ToSet(Registers)

write_requested(signals, r) == current[r] # signals[r]

\* The If/Elif chain: the first register that asks, if any, has the window.
Served(signals) ==
  {Registers[k] : k \in {n \in 1 .. Len(Registers) :
     /\ write_requested(signals, Registers[n])
     /\ \A m \in 1 .. n - 1 : ~write_requested(signals, Registers[m])}}

\* What the window sees.  With no register served, address and data are 0.
address(signals)    == IF Served(signals) = {} THEN "none" ELSE CHOOSE r \in Served(signals) : TRUE
write_data(signals) == IF Served(signals) = {} THEN "zero" ELSE write_value[address(signals)]
write_request(signals, bus_idle, window_done) ==
  Served(signals) # {} /\ ~window_done /\ bus_idle

Init ==
  /\ current = ResetValue
  /\ write_value = [r \in Names |-> "zero"]
  /\ control_busy = FALSE

\* Mutant: a completed write is put down to every register that asked.
WrittenAll(signals, window_done) ==
  [r \in Names |-> IF write_requested(signals, r) /\ window_done THEN write_value[r] ELSE current[r]]
\* write_done goes to the register that is served when the window is done.
Written(signals, window_done) ==
  [r \in Names |-> IF r \in Served(signals) /\ window_done THEN write_value[r] ELSE current[r]]

Clock(signals, bus_idle, window_busy, window_done) ==
  /\ current' = Written(signals, window_done)
  /\ write_value' = [r \in Names |-> IF write_requested(signals, r) THEN signals[r]
                                     ELSE write_value[r]]
  /\ control_busy' = (write_request(signals, bus_idle, window_done) \/ window_busy)
==================================================================================
