------------------------------- MODULE TxPipeline -------------------------------
(***************************************************************************)
(* TxPipeline, src/liteusb/gateware/interface/gateware_phy/transmitter.py, *)
(* with its parts: the controller, shifter and bit stuffer, clocked once a *)
(* bit, and the NRZI encoder, clocked four times a bit.  Bytes are their   *)
(* bits, in the order in which they are sent.                              *)
(***************************************************************************)
EXTENDS Integers, Sequences

VARIABLES
  fsm,       \* the controller: "IDLE", "SEND_SYNC", "SEND_DATA", "STUFF_LAST_BIT"
  gray,      \* state_gray, by what it says: "off", "sync", "data", "ending"
  pulse,     \* the place of the bit of sync_pulse, -1 when it has left
  shifter,   \* TxShifter: [reg, o_get]; reg holds the bits up to that of pos
  ones,      \* TxBitstuffer's fsm_state
  cross,     \* the flops of cdc_dat and cdc_oe: <<newer, older>> of [dat, oe]
  encoder,   \* TxNRZIEncoder's fsm_state
  driver,    \* usbp, usbn and oe as a line: "J", "K", "SE0" or "Z", not driven
  wire       \* o_usbp, o_usbn and o_oe, likewise

vars == <<fsm, gray, pulse, shifter, ones, cross, encoder, driver, wire>>

o_oe == wire # "Z"

---------------------------------------------------------------------------
(* Once a bit *)

stall == ones = 6
\* Mutant: the stuffed bit is not announced while the last bit goes out.
never_will_stall == FALSE
o_will_stall == ones = 5
o_empty == Len(shifter.reg) = 1

ShifterClock(i_data) ==
  shifter' = [reg   |-> IF pulse = 1 THEN <<0>>
                        ELSE IF stall THEN shifter.reg
                        ELSE IF o_empty THEN i_data ELSE Tail(shifter.reg),
              o_get |-> IF stall THEN shifter.o_get ELSE o_empty]

BitstuffClock ==
  ones' = IF stall \/ Head(shifter.reg) = 0 THEN 0 ELSE ones + 1

o_data_strobe(i_oe) == gray = "data" /\ shifter.o_get /\ ~stall /\ i_oe
fit == [oe  |-> gray \in {"data", "sync"},
        dat |-> IF pulse = 0 \/ (gray = "data" /\ Head(shifter.reg) = 1 /\ ~stall) THEN 1 ELSE 0]

Idle(i_oe) ==
  /\ fsm = "IDLE"
  /\ IF i_oe THEN fsm' = "SEND_SYNC" /\ gray' = "sync" /\ pulse' = 7
             ELSE gray' = "off" /\ UNCHANGED <<fsm, pulse>>

SendSync ==
  /\ fsm = "SEND_SYNC"
  /\ pulse' = pulse - 1
  /\ IF pulse = 0 THEN fsm' = "SEND_DATA" /\ gray' = "data" ELSE gray' = "sync" /\ UNCHANGED fsm

SendData(i_oe) ==
  /\ fsm = "SEND_DATA"
  /\ CASE i_oe \/ ~o_empty \/ stall -> gray' = "data" /\ UNCHANGED fsm
       [] ~i_oe /\ o_empty /\ ~stall /\ o_will_stall  -> fsm' = "STUFF_LAST_BIT" /\ UNCHANGED gray
       [] ~i_oe /\ o_empty /\ ~stall /\ ~o_will_stall -> fsm' = "IDLE" /\ gray' = "ending"
  /\ UNCHANGED pulse

StuffLastBit ==
  /\ fsm = "STUFF_LAST_BIT"
  /\ fsm' = "IDLE" /\ gray' = "ending" /\ UNCHANGED pulse

Controller(i_oe) == Idle(i_oe) \/ SendSync \/ SendData(i_oe) \/ StuffLastBit

UsbClock(i_data, i_oe) ==
  /\ Controller(i_oe)
  /\ ShifterClock(i_data)
  /\ BitstuffClock

---------------------------------------------------------------------------
(* Four times a bit *)

nrzi == cross[2]

NextIsJ == (nrzi.dat = 1) = (encoder = "DJ")

EncoderState ==
  CASE encoder = "IDLE"         -> IF nrzi.oe THEN "DK" ELSE "IDLE"
    [] encoder \in {"DJ", "DK"} -> IF ~nrzi.oe THEN "SE0A" ELSE IF NextIsJ THEN "DJ" ELSE "DK"
    [] encoder = "SE0A"         -> "SE0B"
    [] encoder = "SE0B"         -> "EOPJ"
    [] encoder = "EOPJ"         -> "IDLE"

Driven ==
  CASE encoder = "IDLE"             -> "Z"
    [] encoder \in {"DJ", "EOPJ"}   -> "J"
    [] encoder = "DK"               -> "K"
    [] encoder \in {"SE0A", "SE0B"} -> "SE0"

IoClock(i_bit_strobe, i_data, i_oe, tick) ==
  /\ IF tick THEN UsbClock(i_data, i_oe) ELSE UNCHANGED <<fsm, gray, pulse, shifter, ones>>
  /\ cross' = <<fit, cross[1]>>
  /\ encoder' = IF i_bit_strobe THEN EncoderState ELSE encoder
  /\ driver' = Driven
  /\ wire' = driver

Init ==
  /\ fsm = "IDLE" /\ gray = "off" /\ pulse = -1
  /\ shifter = [reg |-> <<0>>, o_get |-> FALSE]
  /\ ones = 0
  /\ cross = [k \in 1 .. 2 |-> [dat |-> 0, oe |-> FALSE]]
  /\ encoder = "IDLE" /\ driver = "Z" /\ wire = "Z"

TypeOK ==
  /\ fsm \in {"IDLE", "SEND_SYNC", "SEND_DATA", "STUFF_LAST_BIT"}
  /\ gray \in {"off", "sync", "data", "ending"}
  /\ pulse \in -1 .. 7 /\ Len(shifter.reg) \in 1 .. 8 /\ ones \in 0 .. 6
  /\ encoder \in {"IDLE", "DJ", "DK", "SE0A", "SE0B", "EOPJ"}
  /\ wire \in {"J", "K", "SE0", "Z"}
=================================================================================
