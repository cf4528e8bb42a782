------------------------------- MODULE RxPipeline -------------------------------
(***************************************************************************)
(* RxPipeline, src/liteusb/gateware/interface/gateware_phy/receiver.py,    *)
(* with its parts: clock and data recovery, NRZI decoder, packet detector, *)
(* bit stuffing remover, shifter, and the FIFOs into the usb domain.  One  *)
(* IoClock is a clock of usb_io, four per bit; a UsbClock comes with every *)
(* fourth of them.                                                         *)
(***************************************************************************)
EXTENDS Integers, Sequences, SequencesExt

VARIABLES
  sync,      \* the two flops of each MultiReg: <<newer, older>> state of the line
  cdr,       \* RxClockDataRecovery: [state, line, phase, valid]
  nrzi,      \* RxNRZIDecoder: [last_data, valid, data, se0]
  detect,    \* RxPacketDetect's fsm_state: 0 .. 5, 6 is PKT_ACTIVE
  bitstuff,  \* RxBitstuffRemover: [state, data, stall, error]
  shifter,   \* RxShifter: [reg, put]; reg holds the bits below the sentinel
  past_o_pkt_active,
  payload, flags,    \* the FIFOs: entries [item, age], age in usb clocks up to 2
  o_pkt_in_progress, rx_complete

vars == <<sync, cdr, nrzi, detect, bitstuff, shifter, past_o_pkt_active, payload, flags,
          o_pkt_in_progress, rx_complete>>

\* Lines are "J", "K", "SE0", "SE1"; "DT" is the transition state.  The code's STATE_DJ
\* is D- high, the K of a full-speed bus, and its STATE_DK the J: the decoder does not mind.

---------------------------------------------------------------------------
(* RxClockDataRecovery *)

SynchronizerClock(line) == sync' = <<line, sync[1]>>
dpair == sync[2]

\* Any change of the pair goes through the transition state, for one clock at least.
RecoveredLine == IF cdr.state \in {"DT", dpair} THEN dpair ELSE "DT"

\* Mutant: a transition does not align the phase.
FreePhase == (cdr.phase + 1) % 4
AlignedPhase == IF cdr.state = "DT" THEN 0 ELSE (cdr.phase + 1) % 4

RecoveryClock ==
  cdr' = [state |-> RecoveredLine, line |-> cdr.state, phase |-> AlignedPhase,
          valid |-> cdr.state # "DT" /\ cdr.phase = 1]

---------------------------------------------------------------------------
(* RxNRZIDecoder: a bit is 1 if the line is as it was at the bit before *)

NrziClock ==
  LET i_dk == IF cdr.line = "J" THEN 1 ELSE 0
  IN  nrzi' = IF cdr.valid
              THEN [last_data |-> i_dk, valid |-> TRUE,
                    data |-> IF i_dk = nrzi.last_data THEN 1 ELSE 0,
                    se0 |-> cdr.line \notin {"J", "K"}]
              ELSE [nrzi EXCEPT !.valid = FALSE]

---------------------------------------------------------------------------
(* RxPacketDetect: five zeros at least and a one begin a packet, SE0 ends it *)

PKT_ACTIVE == 6
o_pkt_active == detect = PKT_ACTIVE
o_pkt_start  == detect = 5 /\ nrzi.valid /\ nrzi.data = 1
o_pkt_end    == o_pkt_active /\ nrzi.valid /\ nrzi.se0

DetectClock ==
  detect' = CASE ~nrzi.valid                                  -> detect
              [] nrzi.valid /\ nrzi.se0                       -> 0
              [] nrzi.valid /\ ~nrzi.se0 /\ o_pkt_active      -> detect
              [] nrzi.valid /\ ~nrzi.se0 /\ detect < 5        -> IF nrzi.data = 1 THEN 0 ELSE detect + 1
              [] nrzi.valid /\ ~nrzi.se0 /\ detect = 5        -> IF nrzi.data = 1 THEN PKT_ACTIVE ELSE 5

---------------------------------------------------------------------------
(* RxBitstuffRemover.  State 6, six ones in a row, lasts one clock of usb_io. *)

drop_bit == bitstuff.state = 6

BitstuffClock ==
  bitstuff' = [state |-> IF drop_bit THEN 0
                         ELSE IF ~nrzi.valid THEN bitstuff.state
                         ELSE IF nrzi.data = 1 THEN bitstuff.state + 1 ELSE 0,
               data  |-> nrzi.data,
               stall |-> drop_bit \/ ~nrzi.valid,
               error |-> drop_bit /\ nrzi.valid /\ nrzi.data = 1]

---------------------------------------------------------------------------
(* RxShifter.  The sentinel of the code is the length of the register here. *)

shift == ~bitstuff.stall /\ past_o_pkt_active

ShifterClock ==
  shifter' = [reg |-> IF o_pkt_end THEN << >>
                      ELSE IF ~shift THEN shifter.reg
                      ELSE IF Len(shifter.reg) = 8 THEN <<bitstuff.data>>
                      ELSE Append(shifter.reg, bitstuff.data),
              put |-> shift /\ Len(shifter.reg) = 7]

\* The byte that is put, the bit received first in front.
o_data == shifter.reg

---------------------------------------------------------------------------
(* The pipeline and the crossing into the usb domain *)

readable(fifo) == fifo # << >> /\ fifo[1].age = 2
dout(fifo)     == fifo[1].item

o_data_strobe == readable(payload)
pkt_start_usb == readable(flags) /\ dout(flags) = "start"
pkt_end_usb   == readable(flags) /\ dout(flags) = "end"
rx_valid      == o_data_strobe /\ o_pkt_in_progress

\* Both are read in every usb clock; an entry takes two of them to show.
Crossed(fifo, tick) ==
  IF ~tick THEN fifo
  ELSE LET rest == IF readable(fifo) THEN Tail(fifo) ELSE fifo
       IN  [k \in DOMAIN rest |-> [rest[k] EXCEPT !.age = IF @ < 2 THEN @ + 1 ELSE @]]

Entered(fifo, we, item) == IF we THEN Append(fifo, [item |-> item, age |-> 0]) ELSE fifo

flag == IF o_pkt_start THEN "start" ELSE "end"

IoClock(line, tick) ==
  /\ SynchronizerClock(line) /\ RecoveryClock /\ NrziClock /\ DetectClock /\ BitstuffClock
  /\ ShifterClock
  /\ past_o_pkt_active' = o_pkt_active
  /\ payload' = Entered(Crossed(payload, tick), shifter.put, o_data)
  /\ flags' = Entered(Crossed(flags, tick), o_pkt_start \/ o_pkt_end, flag)
  /\ IF tick
     THEN /\ o_pkt_in_progress' = (pkt_start_usb \/ (o_pkt_in_progress /\ ~pkt_end_usb))
          /\ rx_complete' = pkt_end_usb
     ELSE UNCHANGED <<o_pkt_in_progress, rx_complete>>

Init ==
  /\ sync = <<"SE0", "SE0">>
  /\ cdr = [state |-> "DT", line |-> "DT", phase |-> 0, valid |-> FALSE]
  /\ nrzi = [last_data |-> 0, valid |-> FALSE, data |-> 0, se0 |-> FALSE]
  /\ detect = 0
  /\ bitstuff = [state |-> 0, data |-> 0, stall |-> TRUE, error |-> FALSE]
  /\ shifter = [reg |-> << >>, put |-> FALSE]
  /\ past_o_pkt_active = FALSE /\ payload = << >> /\ flags = << >>
  /\ o_pkt_in_progress = FALSE /\ rx_complete = FALSE

TypeOK ==
  /\ detect \in 0 .. 6 /\ bitstuff.state \in 0 .. 6 /\ cdr.phase \in 0 .. 3
  /\ Len(shifter.reg) \in 0 .. 8 /\ Len(payload) \in 0 .. 4 /\ Len(flags) \in 0 .. 4
=================================================================================
