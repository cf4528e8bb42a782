----------------------------- MODULE ResetSequencer -----------------------------
(***************************************************************************)
(* USBResetSequencer, src/liteusb/gateware/usb/usb2/reset.py: tells resets *)
(* and suspends apart by how long the bus is in which state, and finds out *)
(* by chirping whether the host can do high speed.  One step is one usb    *)
(* clock; the intervals are constants, in clocks.                          *)
(***************************************************************************)
EXTENDS Integers

CONSTANTS
  CYCLES_2P5_MICROSECONDS, CYCLES_5_MICROSECONDS, CYCLES_200_MICROSECONDS,
  CYCLES_2_MILLISECONDS, CYCLES_2P5_MILLISECONDS, CYCLES_3_MILLISECONDS,
  Wrap    \* number of values of the two timers

VARIABLE
  seq   \* [state, timer, line_state_time, valid_pairs, was_hs_pre_suspend, tddis,
        \*  current_speed, operating_mode, termination_select]

\* The inputs of a clock: [low_speed_only, full_speed_only, bus_busy, vbus_connected,
\* disconnect : BOOLEAN, line_state : {"SE0", "J", "K", "SE1"}].  J and K are those of
\* full and high speed; at low speed they are exchanged.

bus_idle(i) == i.line_state = CASE seq.current_speed = "HIGH" -> "SE0"
                                [] seq.current_speed = "FULL" -> "J"
                                [] seq.current_speed = "LOW"  -> "K"

high_speed_allowed(i) == ~i.low_speed_only /\ ~i.full_speed_only

At(state) == seq.state = state

\* By default both timers count on; they wrap around.
Counted == [seq EXCEPT !.timer = (@ + 1) % Wrap, !.line_state_time = (@ + 1) % Wrap]
Reset(r, fields) == [f \in DOMAIN r |-> IF f \in fields THEN 0 ELSE r[f]]
Timers == {"timer", "line_state_time"}
Go(r, state) == [r EXCEPT !.state = state]

\* What a transition switches the transceiver to.
Drive(r, speed, mode, termination) ==
  [r EXCEPT !.current_speed = speed, !.operating_mode = mode, !.termination_select = termination]

---------------------------------------------------------------------------
(* Outputs *)

\* A reset in this clock.
bus_reset(i) ==
  \/ At("LS_FS_NON_RESET") /\ (~i.vbus_connected \/ seq.timer = CYCLES_5_MICROSECONDS)
  \/ At("HS_NON_RESET") /\ ~i.vbus_connected
  \/ At("DETECT_HS_SUSPEND") /\ seq.timer = CYCLES_200_MICROSECONDS /\ i.line_state # "J"
  \/ At("SUSPENDED") /\ seq.timer = CYCLES_2P5_MICROSECONDS

suspended == At("SUSPENDED")
tx_valid  == At("DEVICE_CHIRP")

---------------------------------------------------------------------------
(* The states.  Of several conditions that hold, the code's last one wins. *)

Initialize(i) ==
  /\ At("INITIALIZE")
  /\ seq' = [Go(Reset(Counted, Timers), "LS_FS_NON_RESET")
             EXCEPT !.current_speed = IF i.low_speed_only THEN "LOW" ELSE @]

\* Mutant: activity on the bus does not restart the suspend timer.
ActivityIgnored(i) == IF i.line_state # "SE0" \/ ~i.vbus_connected THEN {"timer"} ELSE {}
\* Mutant: the times of several short SE0s add up to a reset.
Se0AddsUp(i) == IF bus_idle(i) THEN {} ELSE {"line_state_time"}
\* The timers that this clock's line state clears.
Cleared(i) == (IF i.line_state # "SE0" \/ ~i.vbus_connected THEN {"timer"} ELSE {})
              \cup (IF bus_idle(i) THEN {} ELSE {"line_state_time"})

LsFsNonReset(i) ==
  LET counted == Reset(Counted, Cleared(i))
  IN  /\ At("LS_FS_NON_RESET")
      /\ seq' = IF seq.line_state_time = CYCLES_3_MILLISECONDS
                THEN [Go(counted, "SUSPENDED") EXCEPT !.was_hs_pre_suspend = FALSE]
                ELSE IF seq.timer = CYCLES_5_MICROSECONDS /\ high_speed_allowed(i)
                THEN Go(counted, "START_HS_DETECTION")
                ELSE IF i.line_state # "SE0" /\ i.disconnect THEN Go(counted, "DISCONNECT")
                ELSE counted

HsNonReset(i) ==
  LET counted == IF i.line_state # "SE0" THEN Reset(Counted, {"timer"}) ELSE Counted
      idled   == seq.timer = CYCLES_3_MILLISECONDS
      fallen  == IF idled THEN Drive(Reset(counted, {"timer"}), "FULL", "NORMAL", 1) ELSE counted
  IN  /\ At("HS_NON_RESET")
      /\ seq' = IF ~high_speed_allowed(i) THEN Go(fallen, "IS_LOW_OR_FULL_SPEED")
                ELSE IF idled THEN Go(fallen, "DETECT_HS_SUSPEND")
                ELSE IF ~i.vbus_connected THEN Go(fallen, "IS_LOW_OR_FULL_SPEED")
                ELSE IF i.line_state # "SE0" /\ i.disconnect THEN Go(fallen, "DISCONNECT")
                ELSE fallen

StartHsDetection ==
  /\ At("START_HS_DETECTION")
  /\ seq' = Drive(Go(Reset(Counted, {"timer"}), "PREPARE_FOR_CHIRP_0"), "HIGH", "CHIRP", 1)

PrepareForChirp0(i) ==
  /\ At("PREPARE_FOR_CHIRP_0")
  /\ seq' = IF i.bus_busy THEN Counted ELSE Go(Counted, "PREPARE_FOR_CHIRP_1")

PrepareForChirp1(i) ==
  /\ At("PREPARE_FOR_CHIRP_1")
  /\ seq' = IF i.bus_busy THEN Counted ELSE Go(Counted, "DEVICE_CHIRP")

DeviceChirp ==
  /\ At("DEVICE_CHIRP")
  /\ seq' = IF seq.timer = CYCLES_2_MILLISECONDS
            THEN Go(Reset(Counted, {"timer", "valid_pairs"}), "AWAIT_HOST_K") ELSE Counted

no_answer == seq.timer = CYCLES_2P5_MILLISECONDS
long_enough == seq.line_state_time = CYCLES_2P5_MICROSECONDS

\* Wait for a chirp of the host; once there, it must stay long enough, and the answer
\* must not take too long.
Await(i, line_state, state, next) ==
  /\ At(state)
  /\ seq' = IF i.line_state = line_state THEN Go(Reset(Counted, {"line_state_time"}), next)
            ELSE IF no_answer THEN Go(Counted, "IS_LOW_OR_FULL_SPEED") ELSE Counted

AwaitHostK(i) == Await(i, "K", "AWAIT_HOST_K", "IN_HOST_K")
AwaitHostJ(i) == Await(i, "J", "AWAIT_HOST_J", "IN_HOST_J")

InHostK(i) ==
  /\ At("IN_HOST_K")
  /\ seq' = IF no_answer THEN Go(Counted, "IS_LOW_OR_FULL_SPEED")
            ELSE IF i.line_state # "K" THEN Go(Counted, "AWAIT_HOST_K")
            ELSE IF long_enough THEN Go(Counted, "AWAIT_HOST_J") ELSE Counted

\* The pair counts even when the line or the time makes the state another one.
third == seq.valid_pairs = 2
PairCounted(r) == IF long_enough /\ ~third THEN [r EXCEPT !.valid_pairs = @ + 1] ELSE r
InHostJ(i) ==
  LET counted == PairCounted(Counted)
  IN  /\ At("IN_HOST_J")
      /\ seq' = IF no_answer THEN Go(counted, "IS_LOW_OR_FULL_SPEED")
                ELSE IF i.line_state # "J" THEN Go(counted, "AWAIT_HOST_J")
                ELSE IF long_enough THEN Go(counted, IF third THEN "IS_HIGH_SPEED" ELSE "AWAIT_HOST_K")
                ELSE counted

IsHighSpeed ==
  /\ At("IS_HIGH_SPEED")
  /\ seq' = Drive(Go(Reset(Counted, Timers), "HS_NON_RESET"), "HIGH", "NORMAL", 0)

IsLowOrFullSpeed(i) ==
  LET driven == Drive(Counted, IF i.low_speed_only THEN "LOW" ELSE "FULL", "NORMAL", 1)
  IN  /\ At("IS_LOW_OR_FULL_SPEED")
      /\ seq' = IF i.line_state # "SE0" THEN Go(Reset(driven, Timers), "LS_FS_NON_RESET") ELSE driven

\* Mutant: a high-speed suspend is not remembered.
HsSuspendForgotten(r) == [r EXCEPT !.was_hs_pre_suspend = FALSE]
HsSuspend(r) == [r EXCEPT !.was_hs_pre_suspend = TRUE]
DetectHsSuspend(i) ==
  /\ At("DETECT_HS_SUSPEND")
  /\ seq' = IF seq.timer # CYCLES_200_MICROSECONDS THEN Counted
            ELSE IF i.line_state = "J" THEN HsSuspend(Go(Reset(Counted, {"timer"}), "SUSPENDED"))
            ELSE Go(Reset(Counted, {"timer"}), "START_HS_DETECTION")

Suspended(i) ==
  LET resumed == i.line_state = IF i.low_speed_only THEN "J" ELSE "K"
      reset   == seq.timer = CYCLES_2P5_MICROSECONDS
      afresh  == \/ resumed /\ ~seq.was_hs_pre_suspend
                 \/ reset /\ ~high_speed_allowed(i)
      counted == Reset(Counted, IF afresh THEN Timers
                                ELSE IF reset \/ i.line_state # "SE0" THEN {"timer"} ELSE {})
  IN  /\ suspended
      /\ seq' = IF reset /\ high_speed_allowed(i) THEN Go(counted, "START_HS_DETECTION")
                ELSE IF afresh THEN Go(counted, "LS_FS_NON_RESET")
                ELSE IF resumed THEN Go(counted, "IS_HIGH_SPEED") ELSE counted

Disconnect(i) ==
  LET held == [Counted EXCEPT !.operating_mode = "NON_DRIVING",
                              !.tddis = @ \/ seq.timer = CYCLES_2P5_MICROSECONDS]
  IN  /\ At("DISCONNECT")
      /\ seq' = IF ~i.disconnect /\ seq.tddis
                THEN Drive([Go(Counted, "INITIALIZE") EXCEPT !.tddis = FALSE], "FULL", "NORMAL", 1)
                ELSE held

---------------------------------------------------------------------------

Init == seq = [state |-> "INITIALIZE", timer |-> 0, line_state_time |-> 0, valid_pairs |-> 0,
               was_hs_pre_suspend |-> FALSE, tddis |-> FALSE, current_speed |-> "FULL",
               operating_mode |-> "NORMAL", termination_select |-> 1]

Clock(i) ==
  \/ Initialize(i) \/ LsFsNonReset(i) \/ HsNonReset(i) \/ StartHsDetection
  \/ PrepareForChirp0(i) \/ PrepareForChirp1(i) \/ DeviceChirp
  \/ AwaitHostK(i) \/ InHostK(i) \/ AwaitHostJ(i) \/ InHostJ(i)
  \/ IsHighSpeed \/ IsLowOrFullSpeed(i) \/ DetectHsSuspend(i) \/ Suspended(i) \/ Disconnect(i)

TypeOK ==
  /\ seq.timer \in 0 .. Wrap - 1 /\ seq.line_state_time \in 0 .. Wrap - 1
  /\ seq.valid_pairs \in 0 .. 2
  /\ seq.was_hs_pre_suspend \in BOOLEAN /\ seq.tddis \in BOOLEAN
  /\ seq.current_speed \in {"HIGH", "FULL", "LOW"}
  /\ seq.operating_mode \in {"NORMAL", "NON_DRIVING", "CHIRP"}
  /\ seq.termination_select \in {0, 1}
=================================================================================
