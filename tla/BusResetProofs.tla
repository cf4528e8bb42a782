------------------------------ MODULE BusResetProofs ------------------------------
(***************************************************************************)
(* A device that is reset, chirps, falls back, suspends, resumes and is    *)
(* unplugged agrees with its host on address, configuration and speed, and *)
(* chirps and suspends only when it is meant to: for all intervals that    *)
(* keep the order of the USB specification's, any delay of the transceiver *)
(* and any number of events.                                               *)
(***************************************************************************)
EXTENDS BusReset, TLAPS

us2_5 == CYCLES_2P5_MICROSECONDS
us5   == CYCLES_5_MICROSECONDS
us200 == CYCLES_200_MICROSECONDS
ms2   == CYCLES_2_MILLISECONDS
ms2_5 == CYCLES_2P5_MILLISECONDS
ms3   == CYCLES_3_MILLISECONDS

timer == seq.timer
line_time == seq.line_state_time
At(state) == seq.state = state
phase == host.phase
time == host.time

any == device_mode = "any"
slowest == IF device_mode = "low_only" THEN "LOW" ELSE "FULL"
Following ==
  /\ transceiver.mode = seq.operating_mode /\ transceiver.speed = seq.current_speed
  /\ transceiver.termination = IF connect THEN seq.termination_select ELSE 0
Cleared == address = 0 /\ configuration = 0

---------------------------------------------------------------------------
(* The inductive invariant *)

Listening == {"AWAIT_HOST_K", "IN_HOST_K", "AWAIT_HOST_J", "IN_HOST_J"}
Preparations == {"PREPARE_FOR_CHIRP_0", "PREPARE_FOR_CHIRP_1"}
HighStates ==
  Listening \cup Preparations
    \cup {"START_HS_DETECTION", "DEVICE_CHIRP", "IS_HIGH_SPEED", "HS_NON_RESET", "DETECT_HS_SUSPEND",
          "IS_LOW_OR_FULL_SPEED"}
States == HighStates \cup {"INITIALIZE", "LS_FS_NON_RESET", "SUSPENDED", "DISCONNECT"}
Phases == {"off", "powered", "reset", "run", "suspend", "resume"}
SpeedNames == {"HIGH", "FULL", "LOW"}
ModeNames == {"NORMAL", "NON_DRIVING", "CHIRP"}

SeqType ==
  [state : States, timer : 0 .. Wrap - 1, line_state_time : 0 .. Wrap - 1, valid_pairs : 0 .. 2,
   was_hs_pre_suspend : BOOLEAN, tddis : BOOLEAN, current_speed : SpeedNames,
   operating_mode : ModeNames, termination_select : {0, 1}]
HostType ==
  [phase : Phases, time : Nat, speed : SpeedNames, capable : {"HIGH", "FULL"},
   drive : {"none", "SE0", "J", "K"}, heard : {"none", "K", "packet"}, chirps : 0 .. 8]
TransceiverType == [mode : ModeNames, termination : {0, 1}, speed : SpeedNames]

Types ==
  /\ seq \in SeqType /\ host \in HostType /\ transceiver \in TransceiverType
  /\ address \in {0, 1} /\ configuration \in {0, 1} /\ host_address \in {0, 1}
  /\ lag \in 0 .. RegisterDelay /\ line_state \in {"SE0", "J", "K"}
  /\ connect \in BOOLEAN /\ device_mode \in {"any", "full_only", "low_only"}

\* What the sequencer asks of the transceiver in each of its states.
Asks(speed, mode, termination) ==
  seq.current_speed = speed /\ seq.operating_mode = mode /\ seq.termination_select = termination
Modes ==
  /\ seq.state \in HighStates => any
  /\ seq.was_hs_pre_suspend => any
  /\ seq.current_speed = "LOW" \/ transceiver.speed = "LOW" => device_mode = "low_only"
  /\ seq.state \in {"INITIALIZE", "DETECT_HS_SUSPEND", "START_HS_DETECTION"} => Asks("FULL", "NORMAL", 1)
  /\ seq.state \in {"LS_FS_NON_RESET", "SUSPENDED"} => Asks(slowest, "NORMAL", 1)
  /\ seq.state \in Listening \cup Preparations \cup {"DEVICE_CHIRP"} => Asks("HIGH", "CHIRP", 1)
  /\ At("HS_NON_RESET") => Asks("HIGH", "NORMAL", 0)
  /\ At("IS_LOW_OR_FULL_SPEED") => Asks("HIGH", "CHIRP", 1) \/ Asks("HIGH", "NORMAL", 0)
                                     \/ Asks("FULL", "NORMAL", 1)

\* No state waits for a time that has passed already, unless its timer goes round.
Timers ==
  /\ At("HS_NON_RESET") => timer <= ms3
  /\ At("DETECT_HS_SUSPEND") => timer <= us200
  /\ At("SUSPENDED") => timer <= us2_5
  /\ At("DEVICE_CHIRP") => timer <= ms2
  /\ At("LS_FS_NON_RESET") =>
       /\ line_time > 0 => timer = 0
       /\ line_time <= ms3 /\ (~connect => line_time < ms3)
  /\ At("IN_HOST_K") \/ At("IN_HOST_J") => line_time <= us2_5

\* The device chirps when the transceiver is ready for it.  A connection on the way makes
\* it wait once more.
Preparing ==
  LET once_more == IF connect THEN RegisterDelay + 2 ELSE 0
  IN  /\ At("PREPARE_FOR_CHIRP_0") =>
           timer <= once_more + IF lag = 0 THEN IF Following THEN RegisterDelay + 1 ELSE 0
                                ELSE IF Following THEN RegisterDelay ELSE lag - 1
      /\ At("PREPARE_FOR_CHIRP_1") =>
           /\ timer <= once_more + IF lag = 0 THEN RegisterDelay + 2
                                   ELSE IF Following THEN RegisterDelay + 1 ELSE lag
           /\ lag > 0 \/ transceiver.mode = "CHIRP"
           /\ ~connect \/ phase = "reset" => lag > 0 \/ Following
      /\ At("DEVICE_CHIRP") => transceiver.mode = "CHIRP"
      /\ ~connect \/ phase = "reset" => (seq.state \in Listening \cup {"DEVICE_CHIRP"} => Following)

\* A device at high speed, connected or not, knows in time that the host has gone silent.
AtHighSpeed ==
  /\ (phase = "reset" /\ host.chirps = 0) \/ phase = "suspend" =>
       /\ At("IS_HIGH_SPEED") => time <= 1
       /\ At("HS_NON_RESET") => time <= timer + 2
       /\ At("DETECT_HS_SUSPEND") => 1 <= time /\ time <= timer + ms3 + 3
  /\ phase = "reset" /\ host.chirps = 0 =>
       /\ At("SUSPENDED") => time <= timer + 2 /\ (any => line_state # "K")
       /\ At("LS_FS_NON_RESET") /\ time >= 2 => line_time = 0
       /\ time >= 1 /\ ~At("DEVICE_CHIRP") => line_state = "SE0" \/ (At("AWAIT_HOST_K") /\ timer = 0)
  /\ phase = "suspend" =>
       /\ time >= 1 /\ any => line_state # "K"
       /\ At("HS_NON_RESET") /\ time >= 1 => line_state = "SE0"
       /\ At("HS_NON_RESET") \/ At("IS_HIGH_SPEED") => transceiver.termination = 0
       /\ At("SUSPENDED") /\ time = 0 => ~seq.was_hs_pre_suspend
       /\ ~connect /\ seq.state \in Listening /\ time >= 1 => line_state = "SE0"
       /\ host.drive = "none"
  /\ phase = "resume" =>
       /\ ~At("DETECT_HS_SUSPEND")
       /\ At("HS_NON_RESET") => time >= 1 /\ timer = 0
       /\ At("SUSPENDED") => time <= 1
       /\ host.drive = IF host.speed = "LOW" THEN "J" ELSE "K"
       /\ time >= 1 => line_state = host.drive
  /\ phase = "run" =>
       /\ time <= SofInterval
       /\ ~At("DETECT_HS_SUSPEND") /\ ~At("SUSPENDED")
       /\ At("IS_HIGH_SPEED") => transceiver.termination = 0
       /\ At("HS_NON_RESET") =>
            /\ \/ timer <= time + 1
               \/ time = 1 /\ host.drive \in {"J", "K"} /\ timer <= SofInterval + 2
               \/ time = 2 /\ line_state # "SE0" /\ timer <= SofInterval + 3
            /\ transceiver.termination = 0 \/ (host.heard = "none" /\ time <= lag)

\* How long a device with power has been on the bus: long enough for it to come to rest
\* before the host resets it, whatever it was doing when it got there.
fastest_end == SofInterval + us2_5 + RegisterDelay + 6
chirp_end == fastest_end + us200 + 2
await_end == chirp_end + ms2 + 2 + (Wrap - ms2_5)
rest == await_end + ms2_5 + 1
WhenPowered ==
  phase = "powered" =>
    /\ host.drive = "none"
    /\ ~connect => transceiver.termination = 0 \/ time <= lag
    /\ connect =>
         /\ line_state = "SE0" => time <= SofInterval
         /\ line_state = "K" /\ any =>
              time <= SofInterval \/ At("DEVICE_CHIRP") \/ (At("AWAIT_HOST_K") /\ timer = 0)
         /\ At("LS_FS_NON_RESET") \/ At("SUSPENDED") =>
              /\ timer > 0 => time <= SofInterval + 1
              /\ Following \/ time <= rest + 1 + lag
         /\ At("DISCONNECT") =>
              /\ seq.operating_mode # "NON_DRIVING" => time <= SofInterval
              /\ seq.operating_mode = "NON_DRIVING" => Following \/ time <= SofInterval + 1 + lag
         /\ At("INITIALIZE") => time <= SofInterval + RegisterDelay + 3
         /\ At("HS_NON_RESET") =>
              transceiver.termination = 0 \/ time <= SofInterval + us2_5 + 4 + lag
         /\ At("DETECT_HS_SUSPEND") => time <= fastest_end + 1 + timer
         /\ At("START_HS_DETECTION") => time <= chirp_end
         /\ seq.state \in Preparations \cup {"DEVICE_CHIRP"} => time <= chirp_end + 1 + timer
         /\ At("AWAIT_HOST_K") => time <= await_end + timer - IF timer <= ms2_5 THEN 0 ELSE Wrap
         /\ At("IN_HOST_K") =>
              time <= SofInterval + 1 \/ (timer = 1 /\ time <= await_end + 1 /\ line_state # "K")
         /\ At("AWAIT_HOST_J") => time <= SofInterval + 1
         /\ At("IN_HOST_J") => time <= SofInterval + 2 + line_time
         /\ At("IS_HIGH_SPEED") => time <= SofInterval + us2_5 + 3
         /\ At("IS_LOW_OR_FULL_SPEED") => time <= rest

\* How far a device is with a reset in which no chirp of the host has come yet.  As long
\* as it still has its address, the reset is not older than it takes to see it.
reset_seen == ms3 + us200 + 4
InReset ==
  phase = "reset" =>
    /\ host.heard # "packet"
    /\ host.heard = "K" \/ host.chirps > 0 => host.capable = "HIGH"
    /\ ~connect => host.chirps = 0 /\ host.heard = "none"
    /\ host.chirps = 0 => host.drive = "SE0"
    /\ connect /\ host.chirps = 0 =>
         /\ seq.state \notin {"AWAIT_HOST_J", "IN_HOST_J", "IS_HIGH_SPEED", "INITIALIZE", "DISCONNECT"}
         /\ ~Cleared => seq.state \in {"LS_FS_NON_RESET", "HS_NON_RESET", "DETECT_HS_SUSPEND", "SUSPENDED"}
         /\ host.heard = "K" => At("DEVICE_CHIRP") \/ At("AWAIT_HOST_K")
         /\ At("LS_FS_NON_RESET") /\ (~Cleared \/ any) => timer <= us5 /\ time <= timer + 1
         /\ At("LS_FS_NON_RESET") \/ At("SUSPENDED") => Following
         /\ At("START_HS_DETECTION") => time <= reset_seen
         /\ seq.state \in Preparations \cup {"DEVICE_CHIRP"} => time <= reset_seen + 1 + timer
         /\ At("AWAIT_HOST_K") =>
              /\ timer <= ms2_5 /\ time <= reset_seen + ms2 + 2 + timer
              /\ IF host.capable = "HIGH" THEN host.heard = "K" /\ timer = 0 /\ seq.valid_pairs = 0
                 ELSE host.heard = "none"
              /\ timer = 0 <=> line_state = "K"
         /\ At("IN_HOST_K") =>
              /\ timer = 1 /\ time <= reset_seen + ms2 + 3
              /\ line_state = "SE0" /\ host.capable # "HIGH"
         /\ At("IS_LOW_OR_FULL_SPEED") =>
              \/ time = 0 /\ Cleared /\ line_state # "SE0" /\ Following /\ seq.current_speed = "FULL"
              \/ /\ host.capable # "HIGH" /\ line_state = "SE0"
                 /\ \/ seq.current_speed = "HIGH" /\ time <= reset_seen + ms2 + ms2_5 + 3
                    \/ /\ seq.current_speed = "FULL"
                       /\ Following \/ time <= reset_seen + ms2 + ms2_5 + 4 + lag

\* Device and host are at the same chirp: the device sees it a clock late, and waits for
\* the next one as soon as it has seen it long enough.
InChirps ==
  phase = "reset" /\ host.chirps > 0 =>
    /\ Cleared /\ host.heard = "none" /\ time < ChirpLength
    /\ host.drive = IF host.chirps \in {1, 3, 5, 7} THEN "K" ELSE "J"
    /\ seq.state \in Listening => timer = 1 + (host.chirps - 1) * ChirpLength + time
    /\ host.chirps = 1 /\ time = 0 =>
         At("IN_HOST_K") /\ line_state = "SE0" /\ seq.valid_pairs = 0
    /\ host.chirps \in {3, 5} /\ time = 0 =>
         /\ line_state = "J"
         /\ \/ At("AWAIT_HOST_K") /\ seq.valid_pairs = (host.chirps - 1) \div 2
            \/ At("IN_HOST_J") /\ line_time = us2_5 /\ seq.valid_pairs = (host.chirps - 3) \div 2
    /\ host.chirps \in {1, 3, 5} /\ time > 0 =>
         /\ line_state = "K" /\ seq.valid_pairs = (host.chirps - 1) \div 2
         /\ \/ time = 1 /\ At("AWAIT_HOST_K")
            \/ time >= 2 /\ time <= 2 + us2_5 /\ At("IN_HOST_K") /\ line_time = time - 2
            \/ time > 2 + us2_5 /\ At("AWAIT_HOST_J")
    /\ host.chirps \in {2, 4, 6} /\ time = 0 =>
         /\ line_state = "K" /\ seq.valid_pairs = (host.chirps - 2) \div 2
         /\ At("AWAIT_HOST_J") \/ (At("IN_HOST_K") /\ line_time = us2_5)
    /\ host.chirps \in {2, 4, 6} /\ time > 0 =>
         /\ line_state = "J"
         /\ \/ time = 1 /\ At("AWAIT_HOST_J") /\ seq.valid_pairs = (host.chirps - 2) \div 2
            \/ /\ time >= 2 /\ time <= 2 + us2_5
               /\ At("IN_HOST_J") /\ line_time = time - 2 /\ seq.valid_pairs = (host.chirps - 2) \div 2
            \/ time > 2 + us2_5 /\ host.chirps < 6 /\ At("AWAIT_HOST_K") /\ seq.valid_pairs = host.chirps \div 2
            \/ time = 3 + us2_5 /\ host.chirps = 6 /\ At("IS_HIGH_SPEED")
            \/ time > 3 + us2_5 /\ host.chirps = 6 /\ At("HS_NON_RESET") /\ timer = 0
    /\ host.chirps \in {7, 8} =>
         /\ line_state # "SE0"
         /\ \/ At("HS_NON_RESET") /\ timer = 0
            \/ host.chirps = 7 /\ time <= 1 /\ At("IS_HIGH_SPEED")
            \/ /\ host.chirps = 7 /\ time = 0 /\ At("IN_HOST_J")
               /\ line_time = us2_5 /\ seq.valid_pairs = 2 /\ line_state = "J"

\* A connected device that the host uses is in a state for it, has the host's address and
\* speed, and is not about to see a reset.
idle == IF device_mode = "low_only" THEN "K" ELSE "J"
fast == host.speed = "HIGH"
InUse ==
  /\ phase \in {"off", "powered", "reset"} => host_address = 0
  /\ phase \in {"run", "suspend", "resume"} => (host.speed = "LOW" <=> device_mode = "low_only")
  /\ connect /\ phase \in {"run", "suspend", "resume"} =>
       /\ address = host_address /\ configuration = host_address
       /\ fast <=> host.capable = "HIGH" /\ any
       /\ ~fast => Following
  /\ connect /\ phase = "run" /\ fast => At("HS_NON_RESET")
  /\ connect /\ phase = "suspend" /\ fast =>
       At("HS_NON_RESET") \/ At("DETECT_HS_SUSPEND") \/ (At("SUSPENDED") /\ seq.was_hs_pre_suspend)
  /\ connect /\ phase = "resume" /\ fast =>
       At("HS_NON_RESET") \/ At("IS_HIGH_SPEED") \/ (At("SUSPENDED") /\ seq.was_hs_pre_suspend)
  /\ connect /\ phase = "run" /\ ~fast =>
       \/ At("LS_FS_NON_RESET")
       \/ /\ At("IS_LOW_OR_FULL_SPEED") /\ seq.current_speed = "FULL" /\ time <= 1
          /\ host.heard = "none" /\ host.drive = "none"
          /\ host_address = 0 /\ line_state = IF time = 0 THEN "SE0" ELSE "J"
  /\ connect /\ phase \in {"suspend", "resume"} /\ ~fast =>
       At("LS_FS_NON_RESET") \/ (At("SUSPENDED") /\ ~seq.was_hs_pre_suspend)

\* What a full-speed or low-speed device sees of a host that talks, suspends and resumes.
SlowRun ==
  connect /\ phase = "run" =>
    /\ host.drive # "none" => time <= us2_5
    /\ At("LS_FS_NON_RESET") =>
         /\ \/ /\ time <= 1 /\ host.heard = "none" /\ host_address = 0 /\ host.drive = "none"
               /\ line_state = IF time = 0 THEN "SE0" ELSE idle
               /\ ~any
            \/ /\ time = 0 => timer = 0 /\ line_state # "SE0"
               /\ time > 0 => timer < time
               /\ time >= us2_5 + 3 => timer = 0
               /\ line_state = "SE0" => time <= us2_5 + 1
         /\ \/ line_time <= time
            \/ time = 1 /\ host.drive \notin {"none", idle} /\ line_time <= SofInterval + 1
            \/ time = 2 /\ line_state # idle /\ line_time <= SofInterval + 2
SlowSuspend ==
  connect /\ phase = "suspend" =>
    /\ At("LS_FS_NON_RESET") =>
         /\ timer <= us2_5 + 1 /\ (line_state = "SE0" => timer <= us2_5)
         /\ time <= line_time + 1 /\ line_time <= time + SofInterval + 3
         /\ time >= 1 => line_state = idle
    /\ At("SUSPENDED") => timer = 0 /\ line_state = idle /\ Following
    /\ At("DETECT_HS_SUSPEND") =>
         /\ Following \/ timer <= lag
         /\ timer >= RegisterDelay + 2 => line_state = "J"
Resuming ==
  connect /\ phase = "resume" =>
    /\ At("SUSPENDED") => timer = 0 /\ line_state # "SE0"
    /\ At("LS_FS_NON_RESET") => time >= 1 /\ timer = 0 /\ line_time = 0

IInv ==
  /\ Types /\ Modes /\ Timers /\ Preparing /\ AtHighSpeed /\ WhenPowered /\ InReset /\ InChirps
  /\ InUse /\ SlowRun /\ SlowSuspend /\ Resuming

---------------------------------------------------------------------------
(* A step of the system, field by field *)

To(state) == seq'.state = state
Counts == timer' = IF timer = Wrap - 1 THEN 0 ELSE timer + 1
LineCounts == line_time' = IF line_time = Wrap - 1 THEN 0 ELSE line_time + 1
Set(speed, mode, termination) ==
  seq'.current_speed = speed /\ seq'.operating_mode = mode /\ seq'.termination_select = termination
SettingsKept == Set(seq.current_speed, seq.operating_mode, seq.termination_select)
PairsKept == seq'.valid_pairs = seq.valid_pairs
WasKept == seq'.was_hs_pre_suspend = seq.was_hs_pre_suspend
TddisKept == seq'.tddis = seq.tddis
OthersKept == PairsKept /\ WasKept /\ TddisKept

powered == phase # "off"
LineIdle == line_state = IF seq.current_speed = "HIGH" THEN "SE0" ELSE IF seq.current_speed = "FULL" THEN "J" ELSE "K"

InitializeMove ==
  /\ At("INITIALIZE") /\ To("LS_FS_NON_RESET") /\ timer' = 0 /\ line_time' = 0 /\ OthersKept
  /\ Set(IF device_mode = "low_only" THEN "LOW" ELSE seq.current_speed, seq.operating_mode, seq.termination_select)

LsFsMove ==
  /\ At("LS_FS_NON_RESET") /\ SettingsKept /\ PairsKept /\ TddisKept
  /\ IF line_state # "SE0" \/ ~powered THEN timer' = 0 ELSE Counts
  /\ IF LineIdle THEN LineCounts ELSE line_time' = 0
  /\ \/ line_time = ms3 /\ To("SUSPENDED") /\ seq'.was_hs_pre_suspend = FALSE
     \/ line_time # ms3 /\ timer = us5 /\ any /\ To("START_HS_DETECTION") /\ WasKept
     \/ /\ line_time # ms3 /\ ~(timer = us5 /\ any) /\ line_state # "SE0" /\ ~connect
        /\ To("DISCONNECT") /\ WasKept
     \/ /\ line_time # ms3 /\ ~(timer = us5 /\ any) /\ ~(line_state # "SE0" /\ ~connect)
        /\ To("LS_FS_NON_RESET") /\ WasKept

HsMove ==
  /\ At("HS_NON_RESET") /\ any /\ OthersKept /\ LineCounts
  /\ \/ timer = ms3 /\ To("DETECT_HS_SUSPEND") /\ timer' = 0 /\ Set("FULL", "NORMAL", 1)
     \/ /\ timer # ms3 /\ SettingsKept
        /\ IF line_state # "SE0" THEN timer' = 0 ELSE Counts
        /\ \/ ~powered /\ To("IS_LOW_OR_FULL_SPEED")
           \/ powered /\ line_state # "SE0" /\ ~connect /\ To("DISCONNECT")
           \/ powered /\ ~(line_state # "SE0" /\ ~connect) /\ To("HS_NON_RESET")

StartMove ==
  /\ At("START_HS_DETECTION") /\ To("PREPARE_FOR_CHIRP_0") /\ timer' = 0 /\ LineCounts
  /\ Set("HIGH", "CHIRP", 1) /\ OthersKept

PrepareMove ==
  /\ \/ At("PREPARE_FOR_CHIRP_0") /\ lag > 0 /\ To("PREPARE_FOR_CHIRP_0")
     \/ At("PREPARE_FOR_CHIRP_0") /\ ~(lag > 0) /\ To("PREPARE_FOR_CHIRP_1")
     \/ At("PREPARE_FOR_CHIRP_1") /\ lag > 0 /\ To("PREPARE_FOR_CHIRP_1")
     \/ At("PREPARE_FOR_CHIRP_1") /\ ~(lag > 0) /\ To("DEVICE_CHIRP")
  /\ Counts /\ LineCounts /\ SettingsKept /\ OthersKept

ChirpMove ==
  /\ At("DEVICE_CHIRP") /\ LineCounts /\ SettingsKept /\ WasKept /\ TddisKept
  /\ \/ timer = ms2 /\ To("AWAIT_HOST_K") /\ timer' = 0 /\ seq'.valid_pairs = 0
     \/ timer # ms2 /\ To("DEVICE_CHIRP") /\ Counts /\ PairsKept

AwaitMove ==
  /\ Counts /\ SettingsKept /\ OthersKept
  /\ \/ At("AWAIT_HOST_K") /\ line_state = "K" /\ To("IN_HOST_K") /\ line_time' = 0
     \/ At("AWAIT_HOST_K") /\ line_state # "K" /\ timer # ms2_5 /\ To("AWAIT_HOST_K") /\ LineCounts
     \/ At("AWAIT_HOST_J") /\ line_state = "J" /\ To("IN_HOST_J") /\ line_time' = 0
     \/ At("AWAIT_HOST_J") /\ line_state # "J" /\ timer # ms2_5 /\ To("AWAIT_HOST_J") /\ LineCounts
     \/ At("AWAIT_HOST_K") /\ line_state # "K" /\ timer = ms2_5 /\ To("IS_LOW_OR_FULL_SPEED") /\ LineCounts
     \/ At("AWAIT_HOST_J") /\ line_state # "J" /\ timer = ms2_5 /\ To("IS_LOW_OR_FULL_SPEED") /\ LineCounts

InKMove ==
  /\ At("IN_HOST_K") /\ Counts /\ LineCounts /\ SettingsKept /\ OthersKept
  /\ \/ timer = ms2_5 /\ To("IS_LOW_OR_FULL_SPEED")
     \/ timer # ms2_5 /\ line_state # "K" /\ To("AWAIT_HOST_K")
     \/ timer # ms2_5 /\ line_state = "K" /\ line_time = us2_5 /\ To("AWAIT_HOST_J")
     \/ timer # ms2_5 /\ line_state = "K" /\ line_time # us2_5 /\ To("IN_HOST_K")

InJMove ==
  /\ At("IN_HOST_J") /\ Counts /\ LineCounts /\ SettingsKept /\ WasKept /\ TddisKept
  /\ IF line_time = us2_5 /\ seq.valid_pairs # 2 THEN seq'.valid_pairs = seq.valid_pairs + 1 ELSE PairsKept
  /\ \/ timer = ms2_5 /\ To("IS_LOW_OR_FULL_SPEED")
     \/ timer # ms2_5 /\ line_state # "J" /\ To("AWAIT_HOST_J")
     \/ timer # ms2_5 /\ line_state = "J" /\ line_time = us2_5 /\ seq.valid_pairs = 2 /\ To("IS_HIGH_SPEED")
     \/ timer # ms2_5 /\ line_state = "J" /\ line_time = us2_5 /\ seq.valid_pairs # 2 /\ To("AWAIT_HOST_K")
     \/ timer # ms2_5 /\ line_state = "J" /\ line_time # us2_5 /\ To("IN_HOST_J")

IsHighMove ==
  /\ At("IS_HIGH_SPEED") /\ To("HS_NON_RESET") /\ timer' = 0 /\ line_time' = 0
  /\ Set("HIGH", "NORMAL", 0) /\ OthersKept

IsLowMove ==
  /\ At("IS_LOW_OR_FULL_SPEED") /\ Set(slowest, "NORMAL", 1) /\ OthersKept
  /\ \/ line_state # "SE0" /\ To("LS_FS_NON_RESET") /\ timer' = 0 /\ line_time' = 0
     \/ line_state = "SE0" /\ To("IS_LOW_OR_FULL_SPEED") /\ Counts /\ LineCounts

DetectMove ==
  /\ At("DETECT_HS_SUSPEND") /\ LineCounts /\ SettingsKept /\ PairsKept /\ TddisKept
  /\ \/ timer # us200 /\ To("DETECT_HS_SUSPEND") /\ Counts /\ WasKept
     \/ timer = us200 /\ line_state = "J" /\ To("SUSPENDED") /\ timer' = 0 /\ seq'.was_hs_pre_suspend = TRUE
     \/ timer = us200 /\ line_state # "J" /\ To("START_HS_DETECTION") /\ timer' = 0 /\ WasKept

SuspendedMove ==
  LET resumed == line_state = IF device_mode = "low_only" THEN "J" ELSE "K"
      reset == timer = us2_5
  IN  /\ At("SUSPENDED") /\ SettingsKept /\ OthersKept
      /\ \/ /\ reset /\ any /\ To("START_HS_DETECTION") /\ timer' = 0
            /\ IF resumed /\ ~seq.was_hs_pre_suspend THEN line_time' = 0 ELSE LineCounts
         \/ /\ ~(reset /\ any) /\ ((resumed /\ ~seq.was_hs_pre_suspend) \/ reset)
            /\ To("LS_FS_NON_RESET") /\ timer' = 0 /\ line_time' = 0
         \/ ~reset /\ resumed /\ seq.was_hs_pre_suspend /\ To("IS_HIGH_SPEED") /\ timer' = 0 /\ LineCounts
         \/ /\ ~reset /\ ~resumed /\ To("SUSPENDED") /\ LineCounts
            /\ IF line_state # "SE0" THEN timer' = 0 ELSE Counts

DisconnectMove ==
  /\ At("DISCONNECT") /\ Counts /\ LineCounts /\ PairsKept /\ WasKept
  /\ \/ connect /\ seq.tddis /\ To("INITIALIZE") /\ Set("FULL", "NORMAL", 1)
     \/ ~(connect /\ seq.tddis) /\ To("DISCONNECT") /\ Set(seq.current_speed, "NON_DRIVING", seq.termination_select)

SeqMove ==
  \/ InitializeMove \/ LsFsMove \/ HsMove \/ StartMove \/ PrepareMove \/ ChirpMove \/ AwaitMove \/ InKMove
  \/ InJMove \/ IsHighMove \/ IsLowMove \/ DetectMove \/ SuspendedMove \/ DisconnectMove

\* The clocks in which the device sees a reset.
Resets ==
  \/ At("LS_FS_NON_RESET") /\ (~powered \/ timer = us5)
  \/ At("HS_NON_RESET") /\ ~powered
  \/ At("DETECT_HS_SUSPEND") /\ timer = us200 /\ line_state # "J"
  \/ At("SUSPENDED") /\ timer = us2_5

TransceiverKept ==
  /\ transceiver'.mode = transceiver.mode /\ transceiver'.speed = transceiver.speed
  /\ transceiver'.termination = transceiver.termination
TransceiverMove ==
  \/ Following /\ TransceiverKept /\ lag' = 0
  \/ /\ ~Following /\ lag > 0 /\ lag' = 1
     /\ transceiver'.mode = seq.operating_mode /\ transceiver'.speed = seq.current_speed
     /\ transceiver'.termination = IF connect THEN seq.termination_select ELSE 0
  \/ ~Following /\ lag < RegisterDelay /\ lag' = lag + 1 /\ TransceiverKept

BusLine ==
  IF At("DEVICE_CHIRP") /\ transceiver.mode = "CHIRP" /\ transceiver.termination = 1 THEN "K"
  ELSE IF host.drive # "none" THEN host.drive
  ELSE IF transceiver.mode = "NON_DRIVING" \/ transceiver.termination = 0 THEN "SE0"
  ELSE IF transceiver.speed = "LOW" THEN "K" ELSE "J"

DeviceMove == SeqMove /\ TransceiverMove /\ line_state' = BusLine /\ device_mode' = device_mode

Assigned(assigned, configured) ==
  /\ address' = IF Resets THEN 0 ELSE assigned
  /\ configuration' = IF Resets THEN 0 ELSE configured
Quiet == Assigned(address, configuration) /\ connect' = connect /\ host_address' = host_address
Forgotten == Assigned(address, configuration) /\ connect' = connect /\ host_address' = 0

Becomes(its_phase, its_time, its_drive, its_heard) ==
  /\ host'.phase = its_phase /\ host'.time = its_time /\ host'.drive = its_drive /\ host'.heard = its_heard
  /\ host'.capable = host.capable
SpeedKept == host'.speed = host.speed
ChirpsKept == host'.chirps = host.chirps
Passes == Becomes(phase, time + 1, host.drive, host.heard) /\ SpeedKept /\ ChirpsKept
Enters(its_phase, its_drive) == Becomes(its_phase, 0, its_drive, "none")

Left ==
  /\ phase \notin {"off", "powered"}
  /\ \/ transceiver.mode = "NON_DRIVING"
     \/ ~connect /\ transceiver.termination = 0 /\ host.speed # "HIGH"

PowerOnMove == phase = "off" /\ Quiet /\ Enters("powered", "none") /\ SpeedKept /\ ChirpsKept
PowerOffMove == phase # "off" /\ ~Left /\ Forgotten /\ Enters("off", "none") /\ SpeedKept /\ ChirpsKept
BeginResetMove ==
  /\ \/ phase = "powered" /\ time = ResetLength /\ BusLine # "SE0"
     \/ phase = "run" /\ time > 0
     \/ phase = "suspend" /\ time > SuspendLength
  /\ ~Left /\ Forgotten /\ Enters("reset", "SE0") /\ SpeedKept /\ host'.chirps = 0
KeepResetMove ==
  /\ phase = "reset" /\ ~Left /\ time < ResetLength /\ host.chirps = 0 /\ ~(host.heard = "K" /\ BusLine # "K")
  /\ Quiet /\ SpeedKept /\ ChirpsKept
  /\ Becomes("reset", time + 1, host.drive, IF host.capable = "HIGH" /\ BusLine = "K" THEN "K" ELSE host.heard)
BeginChirpsMove ==
  /\ phase = "reset" /\ ~Left /\ host.heard = "K" /\ BusLine # "K"
  /\ Quiet /\ Enters("reset", "K") /\ SpeedKept /\ host'.chirps = 1
ChirpOnMove == phase = "reset" /\ ~Left /\ host.chirps > 0 /\ time < ChirpLength - 1 /\ Quiet /\ Passes
NextChirpMove ==
  /\ phase = "reset" /\ ~Left /\ host.chirps > 0 /\ ~(time < ChirpLength - 1) /\ host.chirps < 8 /\ Quiet
  /\ Becomes("reset", 0, IF host.drive = "K" THEN "J" ELSE "K", host.heard) /\ SpeedKept
  /\ host'.chirps = host.chirps + 1
EndChirpsMove ==
  /\ phase = "reset" /\ ~Left /\ host.chirps > 0 /\ ~(time < ChirpLength - 1) /\ ~(host.chirps < 8) /\ Quiet
  /\ Enters("run", "none") /\ host'.speed = "HIGH" /\ ChirpsKept
EndResetMove ==
  /\ phase = "reset" /\ ~Left /\ host.chirps = 0 /\ time = ResetLength /\ Quiet
  /\ Enters("run", "none") /\ host'.speed = (IF device_mode = "low_only" THEN "LOW" ELSE "FULL") /\ ChirpsKept
IdleMove ==
  /\ ~Left /\ Quiet /\ SpeedKept /\ ChirpsKept
  /\ \/ phase = "powered" /\ BusLine = "SE0" /\ Enters("powered", "none")
     \/ /\ \/ phase = "powered" /\ BusLine # "SE0" /\ time < ResetLength
           \/ phase = "run" /\ time < SofInterval
           \/ phase = "suspend" /\ time <= SuspendLength
           \/ phase = "off"
        /\ Becomes(phase, time + 1, IF time < us2_5 THEN host.drive ELSE "none", host.heard)
     \/ /\ phase = "off" \/ (phase = "suspend" /\ ~(time <= SuspendLength))
        /\ Becomes(phase, time, host.drive, host.heard)
PacketMove ==
  /\ phase = "run" /\ host.drive = "none" /\ ~Left /\ time >= SofInterval - 1 /\ Quiet /\ SpeedKept /\ ChirpsKept
  /\ \E drive \in {"J", "K", "SE0"} :
       /\ drive # IF host.speed = "HIGH" THEN "SE0" ELSE IF host.speed = "FULL" THEN "J" ELSE "K"
       /\ Becomes("run", 1, drive, "packet")
SetAddressMove ==
  /\ phase = "run" /\ host.heard = "packet" /\ host_address = 0 /\ host.drive = "none" /\ time < SofInterval
  /\ connect /\ ~Left /\ Assigned(1, 1) /\ connect' = connect /\ host_address' = 1 /\ Passes
SuspendMove ==
  /\ phase = "run" /\ host.heard = "packet" /\ ~Left /\ Quiet
  /\ Enters("suspend", "none") /\ SpeedKept /\ ChirpsKept
BeginResumeMove ==
  /\ phase = "suspend" /\ time > SuspendLength /\ ~Left /\ Quiet
  /\ Enters("resume", IF host.speed = "LOW" THEN "J" ELSE "K") /\ SpeedKept /\ ChirpsKept
ResumeMove ==
  /\ phase = "resume" /\ ~Left /\ Quiet /\ SpeedKept /\ ChirpsKept
  /\ IF time < ms2 THEN Becomes("resume", time + 1, host.drive, host.heard) ELSE Enters("run", "SE0")
NoticeMove == Left /\ Forgotten /\ Enters("powered", "none") /\ SpeedKept /\ ChirpsKept
ToggleMove ==
  /\ ~Left /\ time < SofInterval /\ Passes
  /\ IF connect THEN phase = "run" \/ phase = "suspend" ELSE phase = "powered"
  /\ Assigned(address, configuration) /\ connect' = ~connect /\ host_address' = host_address

HostMove ==
  \/ PowerOnMove \/ PowerOffMove \/ BeginResetMove \/ KeepResetMove \/ BeginChirpsMove \/ ChirpOnMove
  \/ NextChirpMove \/ EndChirpsMove \/ EndResetMove \/ IdleMove \/ PacketMove \/ SetAddressMove
  \/ SuspendMove \/ BeginResumeMove \/ ResumeMove \/ NoticeMove \/ ToggleMove

---------------------------------------------------------------------------
(* What the steps of the proof use of the types and of the constants *)

Fields ==
  /\ timer \in Nat /\ timer < Wrap /\ line_time \in Nat /\ line_time < Wrap
  /\ seq.valid_pairs \in 0 .. 2 /\ seq.termination_select \in {0, 1} /\ transceiver.termination \in {0, 1}
  /\ seq.current_speed \in SpeedNames /\ host.speed \in SpeedNames /\ transceiver.speed \in SpeedNames
  /\ seq.was_hs_pre_suspend \in BOOLEAN /\ seq.tddis \in BOOLEAN /\ connect \in BOOLEAN
  /\ device_mode \in {"any", "full_only", "low_only"}
  /\ address \in {0, 1} /\ configuration \in {0, 1} /\ host_address \in {0, 1}
  /\ lag \in Nat /\ lag <= RegisterDelay /\ line_state \in {"SE0", "J", "K"}
  /\ time \in Nat /\ host.chirps \in 0 .. 8 /\ host.capable \in {"HIGH", "FULL"}
  /\ host.drive \in {"none", "SE0", "J", "K"} /\ host.heard \in {"none", "K", "packet"} /\ phase \in Phases

Times ==
  /\ us2_5 \in Nat /\ us5 \in Nat /\ us200 \in Nat /\ ms2 \in Nat /\ ms2_5 \in Nat /\ ms3 \in Nat /\ Wrap \in Nat
  /\ RegisterDelay \in Nat /\ SofInterval \in Nat /\ ChirpLength \in Nat /\ ResetLength \in Nat
  /\ 0 < us2_5 /\ us2_5 + 1 < us5 /\ us5 < us200 /\ us200 < ms2 /\ ms2 < ms2_5 /\ ms2_5 < ms3 /\ ms3 < Wrap
  /\ RegisterDelay + 3 <= us200 /\ 2 * RegisterDelay + 6 <= ms2
  /\ us2_5 + 4 <= SofInterval /\ RegisterDelay + 2 <= SofInterval /\ 2 * SofInterval + 6 <= ms3
  /\ us2_5 + 2 <= ChirpLength /\ 6 * ChirpLength + us2_5 + 5 <= ms2_5
  /\ ResetLength >= ms3 + us200 + ms2 + ms2_5 + RegisterDelay + 9
  /\ ResetLength >= SofInterval + us2_5 + us200 + ms2 + Wrap + 2 * RegisterDelay + 15
  /\ SuspendLength = ms3 + us200 + RegisterDelay + 4

---------------------------------------------------------------------------
(* The steps are these moves *)

USE DEF At, To, any, slowest, Asks, Set, SettingsKept, PairsKept, WasKept, TddisKept, OthersKept, Counts,
        LineCounts, phase, time, Cleared, Following, TransceiverKept, TransceiverMove, powered, LineIdle,
        Quiet, Forgotten, Assigned, Becomes, SpeedKept, ChirpsKept, Passes, Enters, idle, fast,
        HighStates, Listening, Preparations,
        InitializeMove, LsFsMove, HsMove, StartMove, PrepareMove, ChirpMove, AwaitMove, InKMove, InJMove,
        IsHighMove, IsLowMove, DetectMove, SuspendedMove, DisconnectMove

LEMMA TimesHold ==
  ASSUME SequencerAssumption, HostAssumption
  PROVE  Times
BY DEF SequencerAssumption, HostAssumption, Times, us2_5, us5, us200, ms2, ms2_5, ms3, SuspendLength

LEMMA FieldsHold ==
  ASSUME Times, Types
  PROVE  Fields
<1>1. seq \in SeqType /\ host \in HostType /\ transceiver \in TransceiverType
  BY DEF Types
<1>2. /\ timer \in 0 .. Wrap - 1 /\ line_time \in 0 .. Wrap - 1
      /\ seq.valid_pairs \in 0 .. 2 /\ seq.termination_select \in {0, 1} /\ seq.current_speed \in SpeedNames
      /\ seq.was_hs_pre_suspend \in BOOLEAN /\ seq.tddis \in BOOLEAN
  BY <1>1 DEF SeqType, timer, line_time
<1>3. /\ host.speed \in SpeedNames /\ time \in Nat /\ host.chirps \in 0 .. 8 /\ host.capable \in {"HIGH", "FULL"}
      /\ host.drive \in {"none", "SE0", "J", "K"} /\ host.heard \in {"none", "K", "packet"} /\ phase \in Phases
  BY <1>1 DEF HostType
<1>4. transceiver.termination \in {0, 1} /\ transceiver.speed \in SpeedNames
  BY <1>1 DEF TransceiverType
<1> QED
  BY <1>2, <1>3, <1>4 DEF Types, Fields, Times

\* Both timers count up to Wrap.
LEMMA Wraps ==
  ASSUME Wrap \in Nat, 1 < Wrap, NEW n \in 0 .. Wrap - 1
  PROVE  /\ (n + 1) % Wrap = IF n = Wrap - 1 THEN 0 ELSE n + 1
         /\ (n + 1) % Wrap \in 0 .. Wrap - 1
<1>1. CASE n = Wrap - 1
  <2>1. n + 1 = Wrap
    BY <1>1
  <2>2. Wrap % Wrap = 0
    BY SMT
  <2> QED
    BY <1>1, <2>1, <2>2
<1>2. CASE n # Wrap - 1
  <2>1. n + 1 \in 0 .. Wrap - 1
    BY <1>2
  <2>2. (n + 1) % Wrap = n + 1
    BY <2>1, SMT
  <2> QED
    BY <1>2, <2>1, <2>2
<1> QED
  BY <1>1, <1>2

LEMMA BusLineIsLine ==
  BusLine = Line
BY DEF BusLine, Line, S!tx_valid, S!At

LEMMA ResetsAreResets ==
  Resets <=> S!bus_reset(SequencerInputs)
BY DEF Resets, S!bus_reset, S!At, SequencerInputs, timer, us5, us200, us2_5

LEMMA LeftIsGone ==
  Left <=> Gone
BY DEF Left, Gone

LEMMA TransceiverSteps ==
  ASSUME Times, Types, TransceiverClock
  PROVE  TransceiverMove /\ transceiver' \in TransceiverType /\ lag' \in 0 .. RegisterDelay
<1>1. seq \in SeqType /\ transceiver \in TransceiverType /\ lag \in 0 .. RegisterDelay /\ RegisterDelay \in Nat
  BY DEF Types, Times
<1>2. Settings \in TransceiverType
  BY <1>1 DEF Settings, SeqType, TransceiverType
<1>3. transceiver = Settings <=> Following
  BY <1>1, <1>2 DEF Settings, TransceiverType
<1>4. CASE transceiver = Settings
  BY <1>1, <1>3, <1>4 DEF TransceiverClock
<1>5. CASE transceiver # Settings /\ lag > 0 /\ transceiver' = Settings /\ lag' = 1
  BY <1>1, <1>2, <1>3, <1>5 DEF Settings
<1>6. CASE transceiver # Settings /\ lag < RegisterDelay /\ lag' = lag + 1 /\ UNCHANGED transceiver
  BY <1>1, <1>3, <1>6
<1> QED
  BY <1>4, <1>5, <1>6 DEF TransceiverClock

\* Two records of the sequencer that agree on some of their fields.
SameSettings(q, r) ==
  /\ q.current_speed = r.current_speed /\ q.operating_mode = r.operating_mode
  /\ q.termination_select = r.termination_select
SameHistory(q, r) == q.was_hs_pre_suspend = r.was_hs_pre_suspend /\ q.tddis = r.tddis
SameCounts(q, r) == q.timer = r.timer /\ q.line_state_time = r.line_state_time /\ q.valid_pairs = r.valid_pairs

\* A record of the sequencer with some fields cleared, with another state, with other settings.
LEMMA ResetFields ==
  ASSUME 0 \in 0 .. Wrap - 1
  PROVE  \A r \in SeqType, fields \in SUBSET {"timer", "line_state_time", "valid_pairs"} :
           LET q == S!Reset(r, fields)
           IN  /\ q \in SeqType /\ q.state = r.state /\ SameSettings(q, r) /\ SameHistory(q, r)
               /\ q.timer = (IF "timer" \in fields THEN 0 ELSE r.timer)
               /\ q.line_state_time = (IF "line_state_time" \in fields THEN 0 ELSE r.line_state_time)
               /\ q.valid_pairs = (IF "valid_pairs" \in fields THEN 0 ELSE r.valid_pairs)
<1> SUFFICES ASSUME NEW r \in SeqType, NEW fields \in SUBSET {"timer", "line_state_time", "valid_pairs"}
             PROVE  LET q == S!Reset(r, fields)
                    IN  /\ q \in SeqType /\ q.state = r.state /\ SameSettings(q, r) /\ SameHistory(q, r)
                        /\ q.timer = (IF "timer" \in fields THEN 0 ELSE r.timer)
                        /\ q.line_state_time = (IF "line_state_time" \in fields THEN 0 ELSE r.line_state_time)
                        /\ q.valid_pairs = (IF "valid_pairs" \in fields THEN 0 ELSE r.valid_pairs)
  OBVIOUS
<1> DEFINE q == [state |-> r.state, timer |-> IF "timer" \in fields THEN 0 ELSE r.timer,
       line_state_time |-> IF "line_state_time" \in fields THEN 0 ELSE r.line_state_time,
       valid_pairs |-> IF "valid_pairs" \in fields THEN 0 ELSE r.valid_pairs,
       was_hs_pre_suspend |-> r.was_hs_pre_suspend, tddis |-> r.tddis, current_speed |-> r.current_speed,
       operating_mode |-> r.operating_mode, termination_select |-> r.termination_select]
<1>1. DOMAIN r = {"state", "timer", "line_state_time", "valid_pairs", "was_hs_pre_suspend", "tddis",
                  "current_speed", "operating_mode", "termination_select"}
  BY DEF SeqType
<1>2. S!Reset(r, fields) = q
  BY <1>1 DEF S!Reset
<1>3. q \in SeqType
  BY DEF SeqType
<1> QED
  BY <1>2, <1>3 DEF SameSettings, SameHistory

LEMMA GoFields ==
  \A r \in SeqType, state \in States :
    LET q == S!Go(r, state)
    IN  q \in SeqType /\ q.state = state /\ SameSettings(q, r) /\ SameHistory(q, r) /\ SameCounts(q, r)
BY DEF S!Go, SeqType, SameSettings, SameHistory, SameCounts

LEMMA DriveFields ==
  \A r \in SeqType, speed \in SpeedNames, mode \in ModeNames, termination \in {0, 1} :
    LET q == S!Drive(r, speed, mode, termination)
    IN  /\ q \in SeqType /\ q.state = r.state /\ SameHistory(q, r) /\ SameCounts(q, r)
        /\ q.current_speed = speed /\ q.operating_mode = mode /\ q.termination_select = termination
<1> SUFFICES ASSUME NEW r \in SeqType, NEW speed \in SpeedNames, NEW mode \in ModeNames,
                    NEW termination \in {0, 1}
             PROVE  LET q == S!Drive(r, speed, mode, termination)
                    IN  /\ q \in SeqType /\ q.state = r.state /\ SameHistory(q, r) /\ SameCounts(q, r)
                        /\ q.current_speed = speed /\ q.operating_mode = mode /\ q.termination_select = termination
  OBVIOUS
<1> DEFINE q == [state |-> r.state, timer |-> r.timer, line_state_time |-> r.line_state_time,
       valid_pairs |-> r.valid_pairs,
       was_hs_pre_suspend |-> r.was_hs_pre_suspend, tddis |-> r.tddis, current_speed |-> speed,
       operating_mode |-> mode, termination_select |-> termination]
<1>1. S!Drive(r, speed, mode, termination) = q
  <2>1. S!Drive(r, speed, mode, termination)
          = [f \in DOMAIN r |-> IF f = "current_speed" THEN speed ELSE IF f = "operating_mode" THEN mode
                                ELSE IF f = "termination_select" THEN termination ELSE r[f]]
    BY DEF S!Drive, SeqType
  <2> QED
    BY <2>1 DEF SeqType
<1>2. q \in SeqType
  BY DEF SeqType
<1> QED
  BY <1>1, <1>2 DEF SameHistory, SameCounts

\* What the sequencer does in a clock, whatever state it is in.
LEMMA SequencerSteps ==
  ASSUME Times, Types, Modes, S!Clock(SequencerInputs)
  PROVE  SeqMove /\ seq' \in SeqType
<1> DEFINE i == SequencerInputs
           t == IF timer = Wrap - 1 THEN 0 ELSE timer + 1
           l == IF line_time = Wrap - 1 THEN 0 ELSE line_time + 1
           c == S!Counted
<1>1. seq \in SeqType /\ Wrap \in Nat /\ 1 < Wrap
  BY DEF Types, Times
<1>2. (timer + 1) % Wrap = t /\ (line_time + 1) % Wrap = l /\ t \in 0 .. Wrap - 1 /\ l \in 0 .. Wrap - 1
      /\ 0 \in 0 .. Wrap - 1
  BY <1>1, Wraps DEF SeqType, timer, line_time
<1>3. /\ c \in SeqType /\ c.state = seq.state /\ SameSettings(c, seq) /\ SameHistory(c, seq)
      /\ c.valid_pairs = seq.valid_pairs /\ c.timer = t /\ c.line_state_time = l
  BY <1>1, <1>2 DEF S!Counted, SeqType, timer, line_time, SameSettings, SameHistory
<1>i. /\ i.line_state = line_state
      /\ (i.low_speed_only <=> device_mode = "low_only") /\ (i.full_speed_only <=> device_mode = "full_only")
      /\ (i.bus_busy <=> lag > 0) /\ (i.vbus_connected <=> host.phase # "off") /\ (i.disconnect <=> ~connect)
  BY DEF SequencerInputs, bus_busy
<1> HIDE DEF t, l, c, i
<1>h. S!high_speed_allowed(i) <=> any
  BY <1>i DEF S!high_speed_allowed, Types
<1> USE DEF SeqMove, SameSettings, SameHistory, SameCounts, States, SpeedNames, ModeNames, Times,
            timer, line_time, us2_5, us5, us200, ms2, ms2_5, ms3, t, l, c
<1>4. CASE S!Initialize(i)
  <2> DEFINE g == S!Go(S!Reset(c, {"timer", "line_state_time"}), "LS_FS_NON_RESET")
  <2>1. /\ g \in SeqType /\ g.state = "LS_FS_NON_RESET" /\ SameSettings(g, seq) /\ SameHistory(g, seq)
        /\ g.timer = 0 /\ g.line_state_time = 0 /\ g.valid_pairs = seq.valid_pairs
    BY <1>2, <1>3, ResetFields, GoFields DEF States, SameSettings, SameHistory, SameCounts
  <2> HIDE DEF g
  <2>2. seq' = [g EXCEPT !.current_speed = IF i.low_speed_only THEN "LOW" ELSE g.current_speed] /\ At("INITIALIZE")
    BY <1>4 DEF S!Initialize, S!Timers, S!At, g, c
  <2> QED
    BY <1>i, <2>1, <2>2 DEF SeqType
<1>5. CASE S!LsFsNonReset(i)
  <2> DEFINE d == S!Reset(c, S!Cleared(i))
             g == S!Go(d, "SUSPENDED")
  <2>1. /\ d \in SeqType /\ d.state = seq.state /\ SameSettings(d, seq) /\ SameHistory(d, seq)
        /\ d.valid_pairs = seq.valid_pairs
        /\ d.timer = (IF line_state # "SE0" \/ ~powered THEN 0 ELSE t)
        /\ d.line_state_time = (IF LineIdle THEN l ELSE 0)
    BY <1>1, <1>2, <1>3, <1>i, ResetFields
       DEF S!Cleared, S!bus_idle, SeqType, SpeedNames, SameSettings, SameHistory, SameCounts
  <2> HIDE DEF d
  <2>2. CASE line_time = ms3
    <3>1. g \in SeqType /\ g.state = "SUSPENDED" /\ SameSettings(g, d) /\ SameHistory(g, d) /\ SameCounts(g, d)
      BY <2>1, GoFields DEF States
    <3> HIDE DEF g
    <3>2. seq' = [g EXCEPT !.was_hs_pre_suspend = FALSE] /\ At("LS_FS_NON_RESET")
      BY <1>5, <2>2 DEF S!LsFsNonReset, S!At, g, d, c, line_time, ms3
    <3>3. /\ seq' \in SeqType /\ seq'.state = "SUSPENDED" /\ SameSettings(seq', g) /\ SameCounts(seq', g)
          /\ seq'.was_hs_pre_suspend = FALSE /\ seq'.tddis = g.tddis
      BY <3>1, <3>2 DEF SeqType, SameSettings, SameCounts
    <3> QED
      BY <2>1, <2>2, <3>1, <3>2, <3>3
  <2>3. CASE line_time # ms3
    <3>1. /\ At("LS_FS_NON_RESET")
          /\ seq' = IF timer = us5 /\ any THEN S!Go(d, "START_HS_DETECTION")
                    ELSE IF line_state # "SE0" /\ ~connect THEN S!Go(d, "DISCONNECT") ELSE d
      BY <1>i, <1>h, <1>5, <2>3 DEF S!LsFsNonReset, S!At, d, c, timer, line_time, us5, ms3
    <3> QED
      BY <2>1, <2>3, <3>1, GoFields
  <2> QED
    BY <2>2, <2>3
<1>6. CASE S!HsNonReset(i)
  BY <1>1, <1>2, <1>3, <1>i, <1>6, ResetFields, GoFields, DriveFields, SMTT(20)
  DEF S!HsNonReset, S!high_speed_allowed, Modes, S!At
<1>7. CASE S!StartHsDetection
  BY <1>1, <1>2, <1>3, <1>i, <1>7, ResetFields, GoFields, DriveFields, SMTT(20)
  DEF S!StartHsDetection, S!At
<1>8. CASE S!PrepareForChirp0(i)
  BY <1>1, <1>2, <1>3, <1>i, <1>8, ResetFields, GoFields, DriveFields, SMTT(20)
  DEF S!PrepareForChirp0, S!At
<1>9. CASE S!PrepareForChirp1(i)
  BY <1>1, <1>2, <1>3, <1>i, <1>9, ResetFields, GoFields, DriveFields, SMTT(20)
  DEF S!PrepareForChirp1, S!At
<1>10. CASE S!DeviceChirp
  BY <1>1, <1>2, <1>3, <1>i, <1>10, ResetFields, GoFields, DriveFields, SMTT(20)
  DEF S!DeviceChirp, S!At
<1>11. CASE S!AwaitHostK(i)
  BY <1>1, <1>2, <1>3, <1>i, <1>11, ResetFields, GoFields, DriveFields, SMTT(20)
  DEF S!AwaitHostK, S!Await, S!no_answer, S!At
<1>12. CASE S!InHostK(i)
  BY <1>1, <1>2, <1>3, <1>i, <1>12, ResetFields, GoFields, DriveFields, SMTT(20)
  DEF S!InHostK, S!no_answer, S!long_enough, S!At
<1>13. CASE S!AwaitHostJ(i)
  BY <1>1, <1>2, <1>3, <1>i, <1>13, ResetFields, GoFields, DriveFields, SMTT(20)
  DEF S!AwaitHostJ, S!Await, S!no_answer, S!At
<1>14. CASE S!InHostJ(i)
  <2> DEFINE d == S!PairCounted(c)
  <2>1. /\ d \in SeqType /\ d.state = seq.state /\ SameSettings(d, seq) /\ SameHistory(d, seq)
        /\ d.timer = t /\ d.line_state_time = l
        /\ d.valid_pairs = IF line_time = us2_5 /\ seq.valid_pairs # 2 THEN seq.valid_pairs + 1 ELSE seq.valid_pairs
    <3>1. CASE line_time = us2_5 /\ seq.valid_pairs # 2
      <4>1. d = [c EXCEPT !.valid_pairs = c.valid_pairs + 1]
        BY <3>1 DEF S!PairCounted, S!long_enough, S!third, line_time, us2_5
      <4>2. c.valid_pairs + 1 \in 0 .. 2
        BY <1>1, <1>3, <3>1 DEF SeqType
      <4> HIDE DEF d
      <4> QED
        BY <1>3, <3>1, <4>1, <4>2 DEF SeqType, SameSettings, SameHistory
    <3>2. CASE ~(line_time = us2_5 /\ seq.valid_pairs # 2)
      <4>1. d = c
        BY <3>2 DEF S!PairCounted, S!long_enough, S!third, line_time, us2_5
      <4> QED
        BY <1>3, <3>2, <4>1
    <3> QED
      BY <3>1, <3>2
  <2> HIDE DEF d
  <2>2. /\ At("IN_HOST_J")
        /\ seq' = IF timer = ms2_5 THEN S!Go(d, "IS_LOW_OR_FULL_SPEED")
                  ELSE IF line_state # "J" THEN S!Go(d, "AWAIT_HOST_J")
                  ELSE IF line_time = us2_5 THEN S!Go(d, IF seq.valid_pairs = 2 THEN "IS_HIGH_SPEED" ELSE "AWAIT_HOST_K")
                  ELSE d
    BY <1>i, <1>14
       DEF S!InHostJ, S!no_answer, S!long_enough, S!third, S!At, d, c, timer, line_time, us2_5, ms2_5
  <2> QED
    BY <2>1, <2>2, GoFields
<1>15. CASE S!IsHighSpeed
  BY <1>1, <1>2, <1>3, <1>i, <1>15, ResetFields, GoFields, DriveFields, SMTT(20)
  DEF S!IsHighSpeed, S!Timers, S!At
<1>16. CASE S!IsLowOrFullSpeed(i)
  BY <1>1, <1>2, <1>3, <1>i, <1>16, ResetFields, GoFields, DriveFields, SMTT(20)
  DEF S!IsLowOrFullSpeed, S!Timers, S!At
<1>17. CASE S!DetectHsSuspend(i)
  <2> DEFINE d == S!Reset(c, {"timer"})
             g == S!Go(d, "SUSPENDED")
  <2>1. /\ d \in SeqType /\ SameSettings(d, seq) /\ SameHistory(d, seq) /\ d.valid_pairs = seq.valid_pairs
        /\ d.timer = 0 /\ d.line_state_time = l
    BY <1>2, <1>3, ResetFields DEF SameSettings, SameHistory, SameCounts
  <2> HIDE DEF d
  <2>2. CASE timer = us200 /\ line_state = "J"
    <3>1. g \in SeqType /\ g.state = "SUSPENDED" /\ SameSettings(g, d) /\ SameHistory(g, d) /\ SameCounts(g, d)
      BY <2>1, GoFields DEF States
    <3> HIDE DEF g
    <3>2. seq' = [g EXCEPT !.was_hs_pre_suspend = TRUE] /\ At("DETECT_HS_SUSPEND")
      BY <1>i, <1>17, <2>2 DEF S!DetectHsSuspend, S!HsSuspend, S!At, g, d, c, timer, us200
    <3>3. /\ seq' \in SeqType /\ seq'.state = "SUSPENDED" /\ SameSettings(seq', g) /\ SameCounts(seq', g)
          /\ seq'.was_hs_pre_suspend = TRUE /\ seq'.tddis = g.tddis
      BY <3>1, <3>2 DEF SeqType, SameSettings, SameCounts
    <3> QED
      BY <2>1, <2>2, <3>1, <3>2, <3>3
  <2>3. CASE ~(timer = us200 /\ line_state = "J")
    BY <1>3, <1>i, <1>17, <2>1, <2>3, GoFields DEF S!DetectHsSuspend, S!At, d
  <2> QED
    BY <2>2, <2>3
<1>18. CASE S!Suspended(i)
  <2> DEFINE resumed == line_state = IF device_mode = "low_only" THEN "J" ELSE "K"
             reset == timer = us2_5
             afresh == (resumed /\ ~seq.was_hs_pre_suspend) \/ (reset /\ ~any)
             all == S!Reset(c, {"timer", "line_state_time"})
             one == S!Reset(c, {"timer"})
             none == S!Reset(c, {})
             d == IF afresh THEN all ELSE IF reset \/ line_state # "SE0" THEN one ELSE none
  <2>1. /\ d \in SeqType /\ d.state = seq.state /\ SameSettings(d, seq) /\ SameHistory(d, seq)
        /\ d.valid_pairs = seq.valid_pairs
        /\ d.timer = (IF afresh \/ reset \/ line_state # "SE0" THEN 0 ELSE t)
        /\ d.line_state_time = (IF afresh THEN 0 ELSE l)
    <3>1. \A q \in {all, one, none} :
            q \in SeqType /\ q.state = seq.state /\ SameSettings(q, seq) /\ SameHistory(q, seq)
            /\ q.valid_pairs = seq.valid_pairs
      BY <1>2, <1>3, ResetFields DEF SameSettings, SameHistory, SameCounts
    <3>2. all.timer = 0 /\ all.line_state_time = 0 /\ one.timer = 0 /\ one.line_state_time = l
          /\ none.timer = t /\ none.line_state_time = l
      BY <1>2, <1>3, ResetFields
    <3> HIDE DEF all, one, none, afresh, reset
    <3> QED
      BY <3>1, <3>2
  <2>2. /\ At("SUSPENDED")
        /\ seq' = IF reset /\ any THEN S!Go(d, "START_HS_DETECTION")
                  ELSE IF afresh THEN S!Go(d, "LS_FS_NON_RESET")
                  ELSE IF resumed THEN S!Go(d, "IS_HIGH_SPEED") ELSE d
    BY <1>i, <1>h, <1>18 DEF S!Suspended, S!suspended, S!Timers, S!At, c, timer, us2_5
  <2>3. seq' \in SeqType
    <3> HIDE DEF d, resumed, afresh, reset
    <3> QED
      BY <2>1, <2>2, GoFields DEF States
  <2>4. SuspendedMove
    <3> HIDE DEF d
    <3>1. \A state \in States : LET q == S!Go(d, state) IN
            /\ q.state = state /\ SameSettings(q, seq) /\ SameHistory(q, seq) /\ q.valid_pairs = seq.valid_pairs
            /\ q.timer = d.timer /\ q.line_state_time = d.line_state_time
      BY <2>1, GoFields DEF SameSettings, SameHistory, SameCounts
    <3>2. CASE reset /\ any
      BY <2>1, <2>2, <3>1, <3>2
    <3>3. CASE ~(reset /\ any) /\ afresh
      BY <2>1, <2>2, <3>1, <3>3
    <3>4. CASE ~reset /\ ~afresh /\ resumed
      BY <2>1, <2>2, <3>1, <3>4
    <3>5. CASE ~reset /\ ~afresh /\ ~resumed
      BY <2>1, <2>2, <3>5
    <3> QED
      BY <3>2, <3>3, <3>4, <3>5
  <2> QED
    BY <2>3, <2>4 DEF SeqMove
<1>19. CASE S!Disconnect(i)
  <2>1. CASE connect /\ seq.tddis
    <3> DEFINE g == [S!Go(c, "INITIALIZE") EXCEPT !.tddis = FALSE]
    <3>1. /\ g \in SeqType /\ g.state = "INITIALIZE" /\ SameSettings(g, seq) /\ SameCounts(g, c)
          /\ g.was_hs_pre_suspend = seq.was_hs_pre_suspend /\ g.tddis = FALSE
      <4> DEFINE h == S!Go(c, "INITIALIZE")
      <4>1. h \in SeqType /\ h.state = "INITIALIZE" /\ SameSettings(h, c) /\ SameHistory(h, c) /\ SameCounts(h, c)
        BY <1>3, GoFields DEF States
      <4> HIDE DEF h
      <4>2. g = [h EXCEPT !.tddis = FALSE]
        BY DEF h
      <4> HIDE DEF g
      <4> QED
        BY <1>3, <4>1, <4>2 DEF SeqType, SameSettings, SameHistory, SameCounts
    <3> HIDE DEF g
    <3>2. seq' = S!Drive(g, "FULL", "NORMAL", 1) /\ At("DISCONNECT")
      BY <1>i, <1>19, <2>1 DEF S!Disconnect, S!At, g, c
    <3> QED
      BY <1>3, <2>1, <3>1, <3>2, DriveFields
  <2>2. CASE ~(connect /\ seq.tddis)
    <3> DEFINE out == seq.tddis \/ timer = us2_5
    <3>1. c.tddis = seq.tddis /\ seq.tddis \in BOOLEAN /\ c \in SeqType /\ out \in BOOLEAN
      BY <1>1, <1>3 DEF SeqType, SameHistory
    <3>2. seq' = [c EXCEPT !.operating_mode = "NON_DRIVING", !.tddis = out] /\ At("DISCONNECT")
      BY <1>i, <1>19, <2>2, <3>1 DEF S!Disconnect, S!At, c, timer, us2_5
    <3> HIDE DEF out
    <3>3. /\ seq' \in SeqType /\ seq'.state = c.state /\ seq'.operating_mode = "NON_DRIVING" /\ SameCounts(seq', c)
          /\ seq'.was_hs_pre_suspend = c.was_hs_pre_suspend /\ seq'.current_speed = c.current_speed
          /\ seq'.termination_select = c.termination_select
      BY <3>1, <3>2 DEF SeqType, ModeNames, SameCounts
    <3> QED
      BY <1>3, <2>2, <3>2, <3>3
  <2> QED
    BY <2>1, <2>2
<1> QED
  BY <1>4, <1>5, <1>6, <1>7, <1>8, <1>9, <1>10, <1>11, <1>12, <1>13, <1>14, <1>15, <1>16, <1>17, <1>18,
     <1>19 DEF S!Clock, i

\* What a clock does to the device.
LEMMA DeviceSteps ==
  ASSUME Times, Types, Modes, NEW a \in {0, 1}, NEW c \in {0, 1}, DeviceClock(a, c)
  PROVE  /\ DeviceMove /\ Assigned(a, c)
         /\ seq' \in SeqType /\ transceiver' \in TransceiverType /\ lag' \in 0 .. RegisterDelay
         /\ line_state' \in {"SE0", "J", "K"} /\ device_mode' = device_mode
         /\ address' \in {0, 1} /\ configuration' \in {0, 1}
<1>1. /\ S!Clock(SequencerInputs) /\ TransceiverClock /\ line_state' = Line /\ device_mode' = device_mode
      /\ address' = AddressAfter(a) /\ configuration' = AddressAfter(c)
  BY DEF DeviceClock
<1>2. SeqMove /\ seq' \in SeqType
  BY <1>1, SequencerSteps
<1>3. TransceiverMove /\ transceiver' \in TransceiverType /\ lag' \in 0 .. RegisterDelay
  BY <1>1, TransceiverSteps
<1>4. Assigned(a, c)
  BY <1>1, ResetsAreResets DEF AddressAfter
<1>5. line_state' = BusLine /\ BusLine \in {"SE0", "J", "K"}
  BY <1>1, BusLineIsLine DEF BusLine, Types, HostType
<1> QED
  BY <1>1, <1>2, <1>3, <1>4, <1>5 DEF DeviceMove

\* Every step is a clock of the device and one of the host's moves.
LEMMA Steps ==
  ASSUME Times, Types, Modes, Next
  PROVE  DeviceMove /\ HostMove /\ Types'
<1> DEFINE Device == /\ DeviceMove /\ seq' \in SeqType /\ transceiver' \in TransceiverType
                     /\ lag' \in 0 .. RegisterDelay /\ line_state' \in {"SE0", "J", "K"} /\ device_mode' = device_mode
                     /\ address' \in {0, 1} /\ configuration' \in {0, 1}
           Host == host' \in HostType /\ connect' \in BOOLEAN /\ host_address' \in {0, 1}
           Clock == DeviceClock(address, configuration)
<1>1. /\ host \in HostType /\ time \in Nat /\ phase \in Phases
      /\ host.chirps \in 0 .. 8 /\ host.speed \in SpeedNames
      /\ host.heard \in {"none", "K", "packet"} /\ host.drive \in {"none", "SE0", "J", "K"}
      /\ connect \in BOOLEAN /\ host_address \in {0, 1} /\ address \in {0, 1} /\ configuration \in {0, 1}
  BY DEF Types, HostType
<1>2. ASSUME NEW its_phase \in Phases, NEW its_drive \in {"none", "SE0", "J", "K"}
      PROVE  LET h == Enter(its_phase, its_drive)
             IN  /\ h \in HostType /\ h.phase = its_phase /\ h.time = 0 /\ h.drive = its_drive /\ h.heard = "none"
                 /\ h.speed = host.speed /\ h.chirps = host.chirps /\ h.capable = host.capable
  BY <1>1 DEF Enter, HostType
<1>3. LET h == Later(host)
      IN  /\ h \in HostType /\ h.phase = phase /\ h.time = time + 1 /\ h.drive = host.drive /\ h.heard = host.heard
          /\ h.speed = host.speed /\ h.chirps = host.chirps /\ h.capable = host.capable
  BY <1>1 DEF Later, HostType
<1>4. Clock => Device /\ Assigned(address, configuration)
  BY <1>1, DeviceSteps
<1>5. Quietly => Clock /\ Quiet
  BY <1>4 DEF Quietly
<1> SUFFICES Device /\ Host /\ HostMove
  BY DEF Types
<1> HIDE DEF Clock, Device, Host
<1>6. CASE PowerOn
  <2>1. Device /\ Assigned(address, configuration)
    BY <1>4, <1>5, <1>6 DEF PowerOn, Clock
  <2>2. Host /\ (PowerOnMove)
    BY <1>1, <1>2, <1>3, <1>6, <2>1, LeftIsGone, BusLineIsLine
       DEF PowerOn, PowerOnMove, Quietly, Host, Phases, SpeedNames, HostType
  <2> QED
    BY <2>1, <2>2 DEF HostMove
<1>7. CASE PowerOff
  <2>1. Device /\ Assigned(address, configuration)
    BY <1>4, <1>5, <1>7 DEF PowerOff, Clock
  <2>2. Host /\ (PowerOffMove)
    BY <1>1, <1>2, <1>3, <1>7, <2>1, LeftIsGone, BusLineIsLine
       DEF PowerOff, PowerOffMove, Quietly, Host, Phases, SpeedNames, HostType
  <2> QED
    BY <2>1, <2>2 DEF HostMove
<1>8. CASE BeginReset
  <2>1. Device /\ Assigned(address, configuration)
    BY <1>4, <1>8 DEF BeginReset, Clock
  <2> DEFINE h == Enter("reset", "SE0")
  <2>2. h \in HostType /\ h.phase = "reset" /\ h.time = 0 /\ h.drive = "SE0" /\ h.heard = "none"
        /\ h.speed = host.speed /\ h.capable = host.capable
    BY <1>2 DEF Phases
  <2> HIDE DEF h
  <2>3. host' = [h EXCEPT !.chirps = 0]
    BY <1>8 DEF BeginReset, h
  <2>4. Host /\ Enters("reset", "SE0") /\ SpeedKept /\ host'.chirps = 0
    BY <1>1, <1>8, <2>2, <2>3 DEF BeginReset, Host, HostType
  <2>5. BeginResetMove
    BY <1>1, <1>8, <2>1, <2>4, LeftIsGone, BusLineIsLine DEF BeginReset, BeginResetMove, Attached
  <2> QED
    BY <2>1, <2>4, <2>5 DEF HostMove
<1>9. CASE KeepReset
  <2>1. Device /\ Assigned(address, configuration)
    BY <1>4, <1>5, <1>9 DEF KeepReset, Clock
  <2>2. Host /\ (KeepResetMove)
    BY <1>1, <1>2, <1>3, <1>9, <2>1, LeftIsGone, BusLineIsLine
       DEF KeepReset, KeepResetMove, Quietly, Host, Phases, SpeedNames, HostType
  <2> QED
    BY <2>1, <2>2 DEF HostMove
<1>10. CASE BeginChirps
  <2>1. Device /\ Assigned(address, configuration)
    BY <1>4, <1>5, <1>10 DEF BeginChirps, Clock
  <2>2. Host /\ (BeginChirpsMove)
    BY <1>1, <1>2, <1>3, <1>10, <2>1, LeftIsGone, BusLineIsLine
       DEF BeginChirps, BeginChirpsMove, Quietly, Host, Phases, SpeedNames, HostType
  <2> QED
    BY <2>1, <2>2 DEF HostMove
<1>11. CASE Chirp
  <2>1. Device /\ Quiet /\ Clock
    BY <1>4, <1>5, <1>11 DEF Chirp
  <2>2. connect' \in BOOLEAN /\ host_address' \in {0, 1}
    BY <1>1, <1>11 DEF Chirp, Quietly
  <2>3. CASE time < ChirpLength - 1
    <3>1. ChirpOnMove /\ host' \in HostType
      BY <1>1, <1>3, <1>11, <2>1, <2>3, LeftIsGone DEF Chirp, ChirpOnMove
    <3> QED
      BY <2>1, <2>2, <3>1 DEF HostMove, Host
  <2>4. CASE ~(time < ChirpLength - 1) /\ host.chirps < 8
    <3>1. host' = [host EXCEPT !.time = 0, !.chirps = host.chirps + 1,
                               !.drive = IF host.drive = "K" THEN "J" ELSE "K"]
      BY <1>11, <2>4 DEF Chirp
    <3> DEFINE d == IF host.drive = "K" THEN "J" ELSE "K"
               n == host.chirps + 1
    <3>2. n \in 0 .. 8 /\ d \in {"J", "K"}
      BY <1>1, <2>4
    <3> HIDE DEF d, n
    <3>3. /\ host' \in HostType /\ host'.phase = phase /\ host'.time = 0 /\ host'.chirps = n /\ host'.drive = d
          /\ host'.heard = host.heard /\ host'.capable = host.capable /\ SpeedKept
      BY <1>1, <3>1, <3>2 DEF HostType, d, n
    <3>4. NextChirpMove
      BY <1>1, <1>11, <2>1, <2>4, <3>3, LeftIsGone DEF Chirp, NextChirpMove, d, n
    <3> QED
      BY <2>1, <2>2, <3>3, <3>4 DEF HostMove, Host
  <2>5. CASE ~(time < ChirpLength - 1) /\ ~(host.chirps < 8)
    <3> DEFINE h == Enter("run", "none")
    <3>1. h \in HostType /\ h.phase = "run" /\ h.time = 0 /\ h.drive = "none" /\ h.heard = "none"
          /\ h.chirps = host.chirps /\ h.capable = host.capable
      BY <1>2 DEF Phases
    <3> HIDE DEF h
    <3>2. host' = [h EXCEPT !.speed = "HIGH"]
      BY <1>11, <2>5 DEF Chirp, h
    <3>3. host' \in HostType /\ Enters("run", "none") /\ host'.speed = "HIGH" /\ ChirpsKept
      BY <3>1, <3>2 DEF HostType, SpeedNames
    <3>4. EndChirpsMove
      BY <1>11, <2>1, <2>5, <3>3, LeftIsGone DEF Chirp, EndChirpsMove
    <3> QED
      BY <2>1, <2>2, <3>3, <3>4 DEF HostMove, Host
  <2> QED
    BY <2>3, <2>4, <2>5
<1>12. CASE EndReset
  <2>1. Device /\ Assigned(address, configuration)
    BY <1>4, <1>5, <1>12 DEF EndReset, Clock
  <2>2. Host /\ (EndResetMove)
    BY <1>1, <1>2, <1>3, <1>12, <2>1, LeftIsGone, BusLineIsLine
       DEF EndReset, EndResetMove, Quietly, Host, Phases, SpeedNames, HostType
  <2> QED
    BY <2>1, <2>2 DEF HostMove
<1>13. CASE Idle
  <2>1. Device /\ Quiet /\ Clock
    BY <1>4, <1>5, <1>13 DEF Idle
  <2>2. connect' \in BOOLEAN /\ host_address' \in {0, 1} /\ ~Left
    BY <1>1, <1>13, LeftIsGone DEF Idle, Quietly
  <2>3. CASE phase = "powered" /\ ~Attached
    <3>1. IdleMove /\ host' \in HostType
      BY <1>1, <1>2, <1>13, <2>1, <2>2, <2>3, BusLineIsLine DEF Idle, IdleMove, Attached, Phases
    <3> QED
      BY <2>1, <2>2, <3>1 DEF HostMove, Host
  <2>4. CASE ~(phase = "powered" /\ ~Attached) /\ host' = host
    <3> DEFINE h == Later(host)
               d == IF time < us2_5 THEN h.drive ELSE "none"
               later == [h EXCEPT !.drive = d]
               waits == CASE phase = "suspend" -> SuspendLength [] phase = "powered" -> ResetLength - 1
                             [] OTHER -> us5
    <3>1. h \in HostType /\ h.time = time + 1
      BY <1>3
    <3>2. later.time = h.time
      <4> HIDE DEF h, d
      <4> QED
        BY <3>1 DEF HostType
    <3>3. host # later
      <4> HIDE DEF later
      <4> QED
        BY <1>1, <3>1, <3>2
    <3>4. phase # "run" /\ ~(time <= waits)
      <4>1. ~(phase = "run" \/ time <= waits) \/ host' = later
        BY <1>13, <2>4 DEF Idle, us2_5, us5
      <4> QED
        BY <2>4, <3>3, <4>1
    <3>5. phase = "off" \/ (phase = "suspend" /\ ~(time <= SuspendLength))
      <4>1. phase \in {"off", "powered", "suspend"} /\ (phase = "powered" => time < ResetLength)
        BY <1>13, <2>4, <3>4 DEF Idle
      <4>2. CASE phase = "powered"
        <5>1. time < ResetLength /\ ~(time <= ResetLength - 1)
          BY <3>4, <4>1, <4>2
        <5> QED
          BY <1>1, <5>1 DEF Times
      <4>3. CASE phase = "suspend"
        BY <3>4, <4>3
      <4> QED
        BY <4>1, <4>2, <4>3
    <3>6. IdleMove
      BY <2>1, <2>2, <2>4, <3>5 DEF IdleMove
    <3> QED
      BY <1>1, <2>1, <2>2, <2>4, <3>6 DEF HostMove, Host
  <2>5. CASE ~(phase = "powered" /\ ~Attached) /\ host' # host
    <3> DEFINE h == Later(host)
               d == IF time < us2_5 THEN h.drive ELSE "none"
    <3>1. host' = [h EXCEPT !.drive = d] /\ (phase = "suspend" => time <= SuspendLength)
      BY <1>13, <2>5 DEF Idle, us2_5
    <3>2. h \in HostType /\ d \in {"none", "SE0", "J", "K"}
      BY <1>1, <1>3
    <3> HIDE DEF h, d
    <3>3. host' \in HostType /\ host'.drive = d /\ host'.phase = h.phase /\ host'.time = h.time
          /\ host'.heard = h.heard /\ host'.capable = h.capable /\ SpeedKept /\ ChirpsKept
      BY <1>3, <3>1, <3>2 DEF HostType, h
    <3>4. Becomes(phase, time + 1, IF time < us2_5 THEN host.drive ELSE "none", host.heard)
          /\ SpeedKept /\ ChirpsKept
      BY <1>3, <3>3 DEF h, d
    <3>5. \/ phase = "powered" /\ BusLine # "SE0" /\ time < ResetLength
          \/ phase = "run" /\ time < SofInterval
          \/ phase = "suspend" /\ time <= SuspendLength
          \/ phase = "off"
      BY <1>13, <2>5, <3>1, BusLineIsLine DEF Idle, Attached
    <3>6. IdleMove
      BY <2>1, <2>2, <3>4, <3>5 DEF IdleMove
    <3> QED
      BY <2>1, <2>2, <3>3, <3>6 DEF Host, HostMove
  <2> QED
    BY <2>3, <2>4, <2>5
<1>14. CASE Packet
  <2>1. Device /\ Quiet /\ Clock
    BY <1>4, <1>5, <1>14 DEF Packet
  <2>2. connect' \in BOOLEAN /\ host_address' \in {0, 1} /\ ~Left
    BY <1>1, <1>14, LeftIsGone DEF Packet, Quietly
  <2>3. PICK drive \in {"J", "K", "SE0"} \ {idle_state} :
          host' = [host EXCEPT !.time = 1, !.drive = drive, !.heard = "packet"]
    BY <1>14 DEF Packet
  <2>4. host' \in HostType /\ Becomes("run", 1, drive, "packet") /\ SpeedKept /\ ChirpsKept
    BY <1>1, <1>14, <2>3 DEF Packet, HostType
  <2>5. drive # IF host.speed = "HIGH" THEN "SE0" ELSE IF host.speed = "FULL" THEN "J" ELSE "K"
    BY <1>1, <2>3 DEF idle_state, SpeedNames
  <2>6. PacketMove
    BY <1>1, <1>14, <2>1, <2>2, <2>4, <2>5 DEF Packet, PacketMove
  <2> QED
    BY <2>1, <2>2, <2>4, <2>6 DEF Host, HostMove
<1>15. CASE SetAddress
  <2>1. Device /\ Assigned(1, 1)
    BY <1>15, DeviceSteps DEF SetAddress, Device
  <2>2. Host /\ SetAddressMove
    BY <1>1, <1>3, <1>15, <2>1, LeftIsGone DEF SetAddress, SetAddressMove, Host
  <2> QED
    BY <2>1, <2>2 DEF HostMove
<1>16. CASE Suspend
  <2>1. Device /\ Assigned(address, configuration)
    BY <1>4, <1>5, <1>16 DEF Suspend, Clock
  <2>2. Host /\ (SuspendMove)
    BY <1>1, <1>2, <1>3, <1>16, <2>1, LeftIsGone, BusLineIsLine
       DEF Suspend, SuspendMove, Quietly, Host, Phases, SpeedNames, HostType
  <2> QED
    BY <2>1, <2>2 DEF HostMove
<1>17. CASE BeginResume
  <2>1. Device /\ Assigned(address, configuration)
    BY <1>4, <1>5, <1>17 DEF BeginResume, Clock
  <2>2. Host /\ (BeginResumeMove)
    BY <1>1, <1>2, <1>3, <1>17, <2>1, LeftIsGone, BusLineIsLine
       DEF BeginResume, BeginResumeMove, Quietly, Host, Phases, SpeedNames, HostType
  <2> QED
    BY <2>1, <2>2 DEF HostMove
<1>18. CASE Resume
  <2>1. Device /\ Assigned(address, configuration)
    BY <1>4, <1>5, <1>18 DEF Resume, Clock
  <2>2. Host /\ (ResumeMove)
    BY <1>1, <1>2, <1>3, <1>18, <2>1, LeftIsGone, BusLineIsLine
       DEF Resume, ResumeMove, Quietly, Host, Phases, SpeedNames, HostType, ms2
  <2> QED
    BY <2>1, <2>2 DEF HostMove
<1>19. CASE Notice
  <2>1. Device /\ Assigned(address, configuration)
    BY <1>4, <1>5, <1>19 DEF Notice, Clock
  <2>2. Host /\ (NoticeMove)
    BY <1>1, <1>2, <1>3, <1>19, <2>1, LeftIsGone, BusLineIsLine
       DEF Notice, NoticeMove, Quietly, Host, Phases, SpeedNames, HostType
  <2> QED
    BY <2>1, <2>2 DEF HostMove
<1>20. CASE Toggle
  <2>1. Device /\ Assigned(address, configuration)
    BY <1>4, <1>5, <1>20 DEF Toggle, Clock
  <2>2. Host /\ (ToggleMove)
    BY <1>1, <1>2, <1>3, <1>20, <2>1, LeftIsGone, BusLineIsLine
       DEF Toggle, ToggleMove, Quietly, Host, Phases, SpeedNames, HostType
  <2> QED
    BY <2>1, <2>2 DEF HostMove
<1> QED
  BY <1>6, <1>7, <1>8, <1>9, <1>10, <1>11, <1>12, <1>13, <1>14, <1>15, <1>16, <1>17, <1>18, <1>19, <1>20
     DEF Next

---------------------------------------------------------------------------
(* Each part of the invariant is kept *)

USE DEF Times, Fields, Left, BusLine, Resets, Phases,
        PowerOnMove, PowerOffMove, BeginResetMove, KeepResetMove, BeginChirpsMove, ChirpOnMove, NextChirpMove,
        EndChirpsMove, EndResetMove, IdleMove, PacketMove, SetAddressMove, SuspendMove, BeginResumeMove,
        ResumeMove, NoticeMove, ToggleMove

\* What the sequencer asks of the transceiver fits the state it is in.
LEMMA ModesKept ==
  ASSUME Times, Fields, Modes, DeviceMove
  PROVE  Modes'
BY SMTT(30) DEF Modes, DeviceMove, SeqMove

\* No wait is missed, whatever the host does.  When a connection comes or goes, the line is too
\* lively for a suspend.
LEMMA TimersKept ==
  ASSUME Times, Fields, Modes, Timers, Preparing, SlowRun, SlowSuspend, DeviceMove, HostMove
  PROVE  Timers'
<1>1. CASE connect' = connect
  BY <1>1, SMTT(30) DEF Timers, Modes, Preparing, DeviceMove, SeqMove
<1>2. CASE PowerOnMove \/ PowerOffMove \/ BeginResetMove \/ KeepResetMove \/ BeginChirpsMove \/
           ChirpOnMove \/ NextChirpMove \/ EndChirpsMove \/ EndResetMove \/ IdleMove \/ PacketMove
           \/ SetAddressMove \/ SuspendMove \/ BeginResumeMove \/ ResumeMove \/ NoticeMove
  <2>1. connect' = connect
    BY <1>2
  <2> QED
    BY <1>1, <2>1
<1>3. CASE ToggleMove
  BY <1>3, SMTT(30) DEF Timers, Modes, Preparing, SlowRun, SlowSuspend, DeviceMove, SeqMove
<1> QED
  BY <1>2, <1>3 DEF HostMove

\* The transceiver is in the mode for a chirp when the device begins one.
LEMMA PreparingKept ==
  ASSUME Times, Fields, Modes, Preparing, WhenPowered, InUse, DeviceMove, HostMove
  PROVE  Preparing'
<1>1. CASE connect' = connect /\ (phase' = "reset" => phase = "reset")
  BY <1>1, SMTT(30) DEF Preparing, Modes, DeviceMove, SeqMove
<1>2. CASE PowerOnMove \/ PowerOffMove \/ KeepResetMove \/ BeginChirpsMove \/ ChirpOnMove \/
           NextChirpMove \/ EndChirpsMove \/ EndResetMove \/ IdleMove \/ PacketMove \/
           SetAddressMove \/ SuspendMove \/ BeginResumeMove \/ ResumeMove \/ NoticeMove
  <2>1. connect' = connect /\ (phase' = "reset" => phase = "reset")
    BY <1>2
  <2> QED
    BY <1>1, <2>1
<1>3. CASE BeginResetMove
  BY <1>3, SMTT(30) DEF Preparing, Modes, WhenPowered, fastest_end, chirp_end, await_end, rest,
     InUse, DeviceMove, SeqMove
<1>4. CASE ToggleMove
  BY <1>4, SMTT(30) DEF Preparing, Modes, InUse, DeviceMove, SeqMove
<1> QED
  BY <1>2, <1>3, <1>4 DEF HostMove

\* A device at high speed notices the end of the traffic.
LEMMA AtHighSpeedKept ==
  ASSUME Times, Fields, Modes, Timers, Preparing, AtHighSpeed, WhenPowered, InReset, InChirps,
         InUse, SlowRun, Resuming, DeviceMove, HostMove
  PROVE  AtHighSpeed'
<1>1. CASE PowerOnMove \/ PowerOffMove \/ BeginChirpsMove \/ ChirpOnMove \/ NextChirpMove \/
           NoticeMove
  BY <1>1 DEF AtHighSpeed
<1>2. CASE BeginResetMove
  BY <1>2, SMTT(30) DEF AtHighSpeed, Modes, Timers, WhenPowered, fastest_end, chirp_end, await_end,
     rest, SlowRun, DeviceMove, SeqMove
<1>3. CASE KeepResetMove
  BY <1>3, SMTT(30) DEF AtHighSpeed, Modes, Timers, InReset, reset_seen, DeviceMove, SeqMove
<1>4. CASE EndChirpsMove
  BY <1>4, SMTT(30) DEF AtHighSpeed, InChirps, DeviceMove, SeqMove
<1>5. CASE EndResetMove
  BY <1>5, SMTT(30) DEF AtHighSpeed, Timers, DeviceMove, SeqMove
<1>6. CASE IdleMove
  BY <1>6, SMTT(30) DEF AtHighSpeed, Modes, Timers, Preparing, InUse, SlowRun, DeviceMove, SeqMove
<1>7. CASE PacketMove
  BY <1>7, SMTT(30) DEF AtHighSpeed, Modes, Timers, Preparing, InUse, SlowRun, DeviceMove, SeqMove
<1>8. CASE SetAddressMove
  BY <1>8, SMTT(30) DEF AtHighSpeed, Modes, InUse, SlowRun, DeviceMove, SeqMove
<1>9. CASE SuspendMove
  BY <1>9, SMTT(30) DEF AtHighSpeed, Modes, Preparing, InUse, DeviceMove, SeqMove
<1>10. CASE BeginResumeMove
  BY <1>10, SMTT(30) DEF AtHighSpeed, Timers, DeviceMove, SeqMove
<1>11. CASE ResumeMove
  BY <1>11, SMTT(30) DEF AtHighSpeed, Modes, Timers, InUse, Resuming, DeviceMove, SeqMove
<1>12. CASE ToggleMove
  BY <1>12, SMTT(30) DEF AtHighSpeed, Modes, Timers, InUse, SlowRun, DeviceMove, SeqMove
<1> QED
  BY <1>1, <1>2, <1>3, <1>4, <1>5, <1>6, <1>7, <1>8, <1>9, <1>10, <1>11, <1>12 DEF HostMove

\* A device with power comes to rest.
LEMMA WhenPoweredKept ==
  ASSUME Times, Fields, Modes, Timers, Preparing, WhenPowered, DeviceMove, HostMove
  PROVE  WhenPowered'
<1>1. CASE PowerOffMove \/ BeginResetMove \/ KeepResetMove \/ BeginChirpsMove \/ ChirpOnMove \/
           NextChirpMove \/ EndChirpsMove \/ EndResetMove \/ PacketMove \/ SetAddressMove \/
           SuspendMove \/ BeginResumeMove \/ ResumeMove
  BY <1>1 DEF WhenPowered, fastest_end, chirp_end, await_end, rest
<1>2. CASE PowerOnMove
  BY <1>2, SMTT(30) DEF WhenPowered, fastest_end, chirp_end, await_end, rest, DeviceMove, SeqMove
<1>3. CASE IdleMove
  BY <1>3, SMTT(30) DEF WhenPowered, fastest_end, chirp_end, await_end, rest, Modes, Timers,
     Preparing, DeviceMove, SeqMove
<1>4. CASE NoticeMove
  BY <1>4, SMTT(30) DEF WhenPowered, fastest_end, chirp_end, await_end, rest, DeviceMove, SeqMove
<1>5. CASE ToggleMove
  BY <1>5, SMTT(30) DEF WhenPowered, fastest_end, chirp_end, await_end, rest, DeviceMove, SeqMove
<1> QED
  BY <1>1, <1>2, <1>3, <1>4, <1>5 DEF HostMove

\* A device that is reset sees it, and chirps.
LEMMA InResetKept ==
  ASSUME Times, Fields, Modes, Timers, Preparing, AtHighSpeed, WhenPowered, InReset, InUse, SlowRun,
         SlowSuspend, DeviceMove, HostMove
  PROVE  InReset'
<1>1. CASE PowerOnMove \/ PowerOffMove \/ EndChirpsMove \/ EndResetMove \/ IdleMove \/ PacketMove \/
           SetAddressMove \/ SuspendMove \/ BeginResumeMove \/ ResumeMove \/ NoticeMove \/
           ToggleMove
  BY <1>1 DEF InReset, reset_seen
<1>2. CASE BeginResetMove
  BY <1>2, SMTT(30) DEF InReset, reset_seen, Modes, WhenPowered, fastest_end, chirp_end, await_end,
     rest, InUse, SlowRun, SlowSuspend, DeviceMove, SeqMove
<1>3. CASE KeepResetMove
  BY <1>3, SMTT(30) DEF InReset, reset_seen, Modes, Timers, Preparing, AtHighSpeed, DeviceMove,
     SeqMove
<1>4. CASE BeginChirpsMove
  BY <1>4, SMTT(30) DEF InReset, reset_seen, DeviceMove, SeqMove
<1>5. CASE ChirpOnMove
  BY <1>5, SMTT(30) DEF InReset, reset_seen, DeviceMove, SeqMove
<1>6. CASE NextChirpMove
  BY <1>6, SMTT(30) DEF InReset, reset_seen, DeviceMove, SeqMove
<1> QED
  BY <1>1, <1>2, <1>3, <1>4, <1>5, <1>6 DEF HostMove

\* Device and host stay at the same chirp.
LEMMA InChirpsKept ==
  ASSUME Times, Fields, Modes, Preparing, InReset, InChirps, DeviceMove, HostMove
  PROVE  InChirps'
<1>1. CASE PowerOnMove \/ PowerOffMove \/ BeginResetMove \/ KeepResetMove \/ EndChirpsMove \/
           EndResetMove \/ IdleMove \/ PacketMove \/ SetAddressMove \/ SuspendMove \/
           BeginResumeMove \/ ResumeMove \/ NoticeMove \/ ToggleMove
  BY <1>1 DEF InChirps
<1>2. CASE BeginChirpsMove
  BY <1>2, SMTT(30) DEF InChirps, Modes, Preparing, InReset, reset_seen, DeviceMove, SeqMove
<1>3. CASE ChirpOnMove
  BY <1>3, SMTT(30) DEF InChirps, Modes, InReset, reset_seen, DeviceMove, SeqMove
<1>4. CASE NextChirpMove
  BY <1>4, SMTT(30) DEF InChirps, Modes, InReset, reset_seen, DeviceMove, SeqMove
<1> QED
  BY <1>1, <1>2, <1>3, <1>4 DEF HostMove

\* A device in use has the host's address and speed, and is not about to see a reset.
LEMMA InUseKept ==
  ASSUME Times, Fields, Modes, Timers, Preparing, AtHighSpeed, InReset, InChirps, InUse, SlowRun,
         SlowSuspend, Resuming, DeviceMove, HostMove
  PROVE  InUse'
<1>1. CASE PowerOnMove \/ PowerOffMove \/ BeginResetMove \/ KeepResetMove \/ BeginChirpsMove \/
           ChirpOnMove \/ NextChirpMove \/ NoticeMove
  BY <1>1 DEF InUse
<1>2. CASE EndChirpsMove
  BY <1>2, SMTT(30) DEF InUse, Modes, InReset, reset_seen, InChirps, DeviceMove, SeqMove
<1>3. CASE EndResetMove
  BY <1>3, SMTT(30) DEF InUse, Modes, Timers, Preparing, AtHighSpeed, InReset, reset_seen,
     DeviceMove, SeqMove
<1>4. CASE IdleMove
  BY <1>4, SMTT(30) DEF InUse, Modes, AtHighSpeed, SlowRun, SlowSuspend, DeviceMove, SeqMove
<1>5. CASE PacketMove
  BY <1>5, SMTT(30) DEF InUse, AtHighSpeed, SlowRun, DeviceMove, SeqMove
<1>6. CASE SetAddressMove
  BY <1>6, SMTT(30) DEF InUse, AtHighSpeed, SlowRun, DeviceMove, SeqMove
<1>7. CASE SuspendMove
  BY <1>7, SMTT(30) DEF InUse, SlowRun, DeviceMove, SeqMove
<1>8. CASE BeginResumeMove
  BY <1>8, SMTT(30) DEF InUse, Timers, AtHighSpeed, SlowSuspend, DeviceMove, SeqMove
<1>9. CASE ResumeMove
  BY <1>9, SMTT(30) DEF InUse, AtHighSpeed, Resuming, DeviceMove, SeqMove
<1>10. CASE ToggleMove
  <2>1. device_mode' = device_mode
    BY DEF DeviceMove
  <2> QED
    BY <1>10, <2>1 DEF InUse
<1> QED
  BY <1>1, <1>2, <1>3, <1>4, <1>5, <1>6, <1>7, <1>8, <1>9, <1>10 DEF HostMove

\* A slow device in use sees every packet, and the idle bus between them.
LEMMA SlowRunKept ==
  ASSUME Times, Fields, Modes, AtHighSpeed, InReset, InChirps, InUse, SlowRun, DeviceMove, HostMove
  PROVE  SlowRun'
<1>1. CASE PowerOnMove \/ PowerOffMove \/ BeginResetMove \/ KeepResetMove \/ BeginChirpsMove \/
           ChirpOnMove \/ NextChirpMove \/ SuspendMove \/ BeginResumeMove \/ NoticeMove \/
           ToggleMove
  BY <1>1 DEF SlowRun
<1>2. CASE EndChirpsMove
  BY <1>2, SMTT(30) DEF SlowRun, InChirps, DeviceMove, SeqMove
<1>3. CASE EndResetMove
  BY <1>3, SMTT(30) DEF SlowRun, Modes, AtHighSpeed, InReset, reset_seen, InUse, DeviceMove, SeqMove
<1>4. CASE IdleMove
  BY <1>4, SMTT(30) DEF SlowRun, Modes, InUse, DeviceMove, SeqMove
<1>5. CASE PacketMove
  <2>1. CASE InitializeMove
    BY <1>5, <2>1, SMTT(30) DEF SlowRun, AtHighSpeed, InUse, DeviceMove
  <2>2. CASE LsFsMove
    <3> SUFFICES ASSUME connect PROVE SlowRun'
      BY <1>5 DEF SlowRun
    <3>1. /\ time >= us2_5 + 3 /\ time <= SofInterval /\ timer = 0 /\ line_state # "SE0" /\ line_time <= time
          /\ host.speed = IF device_mode = "low_only" THEN "LOW" ELSE "FULL"
      BY <1>5, <2>2 DEF SlowRun, AtHighSpeed, InUse, SpeedNames
    <3>2. timer' = 0 /\ line_time' <= SofInterval + 1 /\ line_time' \in Nat
      BY <2>2, <3>1
    <3>3. time' = 1 /\ device_mode' = device_mode /\ host'.drive \notin {"none", idle}
      BY <1>5, <3>1 DEF DeviceMove
    <3> QED
      BY <1>5, <3>2, <3>3 DEF SlowRun
  <2>3. CASE HsMove
    BY <1>5, <2>3, SMTT(30) DEF SlowRun, AtHighSpeed, InUse, DeviceMove
  <2>4. CASE StartMove
    BY <1>5, <2>4, SMTT(30) DEF SlowRun, AtHighSpeed, InUse, DeviceMove
  <2>5. CASE PrepareMove
    BY <1>5, <2>5, SMTT(30) DEF SlowRun, AtHighSpeed, InUse, DeviceMove
  <2>6. CASE ChirpMove
    BY <1>5, <2>6, SMTT(30) DEF SlowRun, AtHighSpeed, InUse, DeviceMove
  <2>7. CASE AwaitMove
    BY <1>5, <2>7, SMTT(30) DEF SlowRun, AtHighSpeed, InUse, DeviceMove
  <2>8. CASE InKMove
    BY <1>5, <2>8, SMTT(30) DEF SlowRun, AtHighSpeed, InUse, DeviceMove
  <2>9. CASE InJMove
    BY <1>5, <2>9, SMTT(30) DEF SlowRun, AtHighSpeed, InUse, DeviceMove
  <2>10. CASE IsHighMove
    BY <1>5, <2>10, SMTT(30) DEF SlowRun, AtHighSpeed, InUse, DeviceMove
  <2>11. CASE IsLowMove
    BY <1>5, <2>11, SMTT(30) DEF SlowRun, AtHighSpeed, InUse, DeviceMove
  <2>12. CASE DetectMove
    BY <1>5, <2>12, SMTT(30) DEF SlowRun, AtHighSpeed, InUse, DeviceMove
  <2>13. CASE SuspendedMove
    BY <1>5, <2>13, SMTT(30) DEF SlowRun, AtHighSpeed, InUse, DeviceMove
  <2>14. CASE DisconnectMove
    BY <1>5, <2>14, SMTT(30) DEF SlowRun, AtHighSpeed, InUse, DeviceMove
  <2> QED
    BY <2>1, <2>2, <2>3, <2>4, <2>5, <2>6, <2>7, <2>8, <2>9, <2>10, <2>11, <2>12, <2>13, <2>14 DEF
       DeviceMove, SeqMove
<1>6. CASE SetAddressMove
  BY <1>6, SMTT(30) DEF SlowRun, Modes, InUse, DeviceMove, SeqMove
<1>7. CASE ResumeMove
  BY <1>7, SMTT(30) DEF SlowRun, Modes, AtHighSpeed, InUse, DeviceMove, SeqMove
<1> QED
  BY <1>1, <1>2, <1>3, <1>4, <1>5, <1>6, <1>7 DEF HostMove

\* A slow device whose host has gone silent is on its way into the suspend.
LEMMA SlowSuspendKept ==
  ASSUME Times, Fields, Modes, Timers, AtHighSpeed, InUse, SlowRun, SlowSuspend, DeviceMove,
         HostMove
  PROVE  SlowSuspend'
<1>1. CASE PowerOnMove \/ PowerOffMove \/ BeginResetMove \/ KeepResetMove \/ BeginChirpsMove \/
           ChirpOnMove \/ NextChirpMove \/ EndChirpsMove \/ EndResetMove \/ PacketMove \/
           SetAddressMove \/ BeginResumeMove \/ ResumeMove \/ NoticeMove \/ ToggleMove
  BY <1>1 DEF SlowSuspend
<1>2. CASE IdleMove
  BY <1>2, SMTT(30) DEF SlowSuspend, Modes, Timers, AtHighSpeed, InUse, DeviceMove, SeqMove
<1>3. CASE SuspendMove
  BY <1>3, SMTT(30) DEF SlowSuspend, Modes, AtHighSpeed, InUse, SlowRun, DeviceMove, SeqMove
<1> QED
  BY <1>1, <1>2, <1>3 DEF HostMove

\* A device whose host resumes it wakes.
LEMMA ResumingKept ==
  ASSUME Times, Fields, Modes, Timers, AtHighSpeed, InUse, SlowSuspend, Resuming, DeviceMove,
         HostMove
  PROVE  Resuming'
<1>1. CASE PowerOnMove \/ PowerOffMove \/ BeginResetMove \/ KeepResetMove \/ BeginChirpsMove \/
           ChirpOnMove \/ NextChirpMove \/ EndChirpsMove \/ EndResetMove \/ IdleMove \/ PacketMove
           \/ SetAddressMove \/ SuspendMove \/ NoticeMove \/ ToggleMove
  BY <1>1 DEF Resuming
<1>2. CASE BeginResumeMove
  BY <1>2, SMTT(30) DEF Resuming, Modes, Timers, AtHighSpeed, InUse, SlowSuspend, DeviceMove,
     SeqMove
<1>3. CASE ResumeMove
  BY <1>3, SMTT(30) DEF Resuming, Modes, AtHighSpeed, InUse, DeviceMove, SeqMove
<1> QED
  BY <1>1, <1>2, <1>3 DEF HostMove

---------------------------------------------------------------------------
(* The invariant *)

LEMMA InitiallyIInv ==
  ASSUME SequencerAssumption, HostAssumption, Init
  PROVE  IInv
<1>1. Times
  BY TimesHold
<1>2. PICK speed \in HostSpeeds :
        host = [phase |-> "off", time |-> 0, speed |-> "FULL", capable |-> speed, drive |-> "none",
                heard |-> "none", chirps |-> 0]
  BY DEF Init
<1>3. /\ seq \in SeqType /\ At("INITIALIZE") /\ timer = 0 /\ line_time = 0 /\ ~seq.was_hs_pre_suspend
      /\ Asks("FULL", "NORMAL", 1)
  BY <1>1 DEF Init, S!Init, SeqType, States, SpeedNames, ModeNames, timer, line_time, Times
<1>4. host \in HostType /\ phase = "off" /\ host.chirps = 0
  BY <1>2 DEF HostAssumption, HostType, Phases, SpeedNames
<1>5. transceiver \in TransceiverType /\ transceiver.speed = "FULL"
  BY <1>3 DEF Init, Settings, TransceiverType, ModeNames, SpeedNames
<1>6. Types
  <2>1. connect \in BOOLEAN
    BY DEF Init
  <2>2. device_mode \in {"any", "full_only", "low_only"} /\ lag \in 0 .. RegisterDelay
    BY DEF Init, HostAssumption
  <2>3. address = 0 /\ configuration = 0 /\ host_address = 0 /\ line_state = "SE0"
    BY DEF Init
  <2> QED
    BY <1>3, <1>4, <1>5, <2>1, <2>2, <2>3 DEF Types
<1>7. Modes /\ Timers /\ Preparing
  BY <1>1, <1>3, <1>4, <1>5 DEF Modes, Timers, Preparing, Times
<1>8. AtHighSpeed /\ WhenPowered /\ InReset /\ InChirps
  BY <1>4 DEF AtHighSpeed, WhenPowered, InReset, InChirps
<1>9. InUse /\ SlowRun /\ SlowSuspend /\ Resuming
  BY <1>4 DEF Init, InUse, SlowRun, SlowSuspend, Resuming
<1> QED
  BY <1>6, <1>7, <1>8, <1>9 DEF IInv

LEMMA StepKeepsIInv ==
  ASSUME SequencerAssumption, HostAssumption, IInv, [Next]_vars
  PROVE  IInv'
<1> USE DEF IInv
<1>1. Times
  BY TimesHold
<1>2. Fields
  BY <1>1, FieldsHold
<1>3. CASE Next
  <2>1. DeviceMove /\ HostMove /\ Types'
    BY <1>1, <1>3, Steps
  <2>2. Modes' /\ Timers' /\ Preparing'
    BY <1>1, <1>2, <2>1, ModesKept, TimersKept, PreparingKept
  <2>3. AtHighSpeed' /\ WhenPowered'
    BY <1>1, <1>2, <2>1, AtHighSpeedKept, WhenPoweredKept
  <2>4. InReset' /\ InChirps'
    BY <1>1, <1>2, <2>1, InResetKept, InChirpsKept
  <2>5. InUse' /\ SlowRun' /\ SlowSuspend' /\ Resuming'
    BY <1>1, <1>2, <2>1, InUseKept, SlowRunKept, SlowSuspendKept, ResumingKept
  <2> QED
    BY <2>1, <2>2, <2>3, <2>4, <2>5
<1>4. CASE UNCHANGED vars
  <2>1. /\ UNCHANGED <<seq, address, configuration, transceiver, lag, line_state>>
        /\ UNCHANGED <<connect, device_mode, host, host_address>>
    BY <1>4 DEF vars, deviceVars
  <2>2. UNCHANGED <<timer, line_time>>
    BY <2>1 DEF timer, line_time
  <2>3. Types' /\ Modes' /\ Timers' /\ Preparing'
    BY <2>1, <2>2 DEF Types, Modes, Timers, Preparing
  <2>4. AtHighSpeed' /\ WhenPowered' /\ InReset' /\ InChirps'
    BY <2>1, <2>2 DEF AtHighSpeed, WhenPowered, InReset, InChirps
  <2>5. InUse' /\ SlowRun' /\ SlowSuspend' /\ Resuming'
    BY <2>1, <2>2 DEF InUse, SlowRun, SlowSuspend, Resuming
  <2> QED
    BY <2>3, <2>4, <2>5
<1> QED
  BY <1>3, <1>4

\* The state always satisfies the invariant.
LEMMA Invariance ==
  ASSUME SequencerAssumption, HostAssumption
  PROVE  Spec => []IInv
<1>1. Init => IInv
  BY InitiallyIInv
<1>2. IInv /\ [Next]_vars => IInv'
  BY StepKeepsIInv
<1> QED
  BY <1>1, <1>2, PTL DEF Spec

---------------------------------------------------------------------------
(* The theorems *)

\* Whatever a host does to the device, and however often it is unplugged meanwhile: when the
\* host talks to it after a reset or a resume, both are at the best speed they have in common,
\* and the transceiver is set for it.
THEOREM SpeedsAlwaysAgree ==
  ASSUME SequencerAssumption, HostAssumption
  PROVE  Spec => []SpeedsAgree
<1>1. IInv => SpeedsAgree
  <2> SUFFICES ASSUME IInv, connect, phase = "run", host.heard = "packet"
               PROVE  /\ seq.current_speed = host.speed /\ seq.operating_mode = "NORMAL"
                      /\ seq.termination_select = IF host.speed = "HIGH" THEN 0 ELSE 1
                      /\ (host.speed = "HIGH") <=> (host.capable = "HIGH" /\ device_mode = "any")
    BY DEF SpeedsAgree
  <2>1. Modes /\ InUse /\ host.speed \in SpeedNames
    BY DEF IInv, Types, HostType
  <2>2. CASE fast
    BY <2>1, <2>2 DEF Modes, InUse
  <2>3. CASE ~fast
    <3>1. At("LS_FS_NON_RESET") /\ Asks(slowest, "NORMAL", 1)
      BY <2>1, <2>3 DEF InUse, Modes
    <3> QED
      BY <2>1, <2>3, <3>1 DEF InUse, SpeedNames
  <2> QED
    BY <2>2, <2>3
<1>2. Spec => []IInv
  BY Invariance
<1> QED
  BY <1>1, <1>2, PTL

\* A device in use has the address and the configuration of the host's last request since
\* the last reset: it sees every reset, and sees none that is not there.
THEOREM AddressAlwaysAgrees ==
  ASSUME SequencerAssumption, HostAssumption
  PROVE  Spec => []AddressAgrees
<1>1. IInv => AddressAgrees
  BY DEF IInv, InUse, AddressAgrees
<1>2. Spec => []IInv
  BY Invariance
<1> QED
  BY <1>1, <1>2, PTL

\* No device chirps at a host that uses it, and none before its transceiver is in the mode
\* for it.
THEOREM ChirpsAreAlwaysMeant ==
  ASSUME SequencerAssumption, HostAssumption
  PROVE  Spec => []ChirpsAreMeant
<1>1. IInv => ChirpsAreMeant
  <2> SUFFICES ASSUME IInv, At("DEVICE_CHIRP")
               PROVE  /\ connect => phase \notin {"run", "suspend", "resume"}
                      /\ transceiver.mode = "CHIRP"
    BY DEF ChirpsAreMeant, S!tx_valid, S!At
  <2>1. transceiver.mode = "CHIRP"
    BY DEF IInv, Preparing
  <2>2. connect => phase \notin {"run", "suspend", "resume"}
    BY DEF IInv, InUse
  <2> QED
    BY <2>1, <2>2
<1>2. Spec => []IInv
  BY Invariance
<1> QED
  BY <1>1, <1>2, PTL

\* No device is suspended while its host talks, and every connected one is when the host has
\* been silent for as long as the device may take to see it.
THEOREM AlwaysSuspendsAsMeant ==
  ASSUME SequencerAssumption, HostAssumption
  PROVE  Spec => []SuspendsAsMeant
<1>1. IInv => SuspendsAsMeant
  <2> SUFFICES ASSUME IInv PROVE SuspendsAsMeant
    OBVIOUS
  <2>1. Times
    BY TimesHold
  <2>2. Fields
    BY <2>1, FieldsHold DEF IInv
  <2>3. Timers /\ AtHighSpeed /\ InUse /\ SlowSuspend
    BY DEF IInv
  <2>4. At("SUSPENDED") => phase # "run"
    BY <2>3 DEF AtHighSpeed
  <2>5. ASSUME connect, phase = "suspend", time >= SuspendLength
        PROVE  At("SUSPENDED")
    <3>1. At("HS_NON_RESET") => time <= ms3 + 2
      BY <2>1, <2>2, <2>3, <2>5 DEF AtHighSpeed, Timers, Times, Fields
    <3>2. At("DETECT_HS_SUSPEND") => time <= us200 + ms3 + 3
      BY <2>1, <2>2, <2>3, <2>5 DEF AtHighSpeed, Timers, Times, Fields
    <3>3. At("LS_FS_NON_RESET") => time <= ms3 + 1
      BY <2>1, <2>2, <2>3, <2>5 DEF SlowSuspend, Timers, Times, Fields
    <3>4. At("HS_NON_RESET") \/ At("DETECT_HS_SUSPEND") \/ At("LS_FS_NON_RESET") \/ At("SUSPENDED")
      BY <2>3, <2>5 DEF InUse
    <3> QED
      BY <2>1, <2>2, <2>5, <3>1, <3>2, <3>3, <3>4 DEF Times, Fields
  <2> QED
    BY <2>4, <2>5 DEF SuspendsAsMeant, S!suspended, S!At
<1>2. Spec => []IInv
  BY Invariance
<1> QED
  BY <1>1, <1>2, PTL
====
