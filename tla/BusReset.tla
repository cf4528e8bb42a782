--------------------------------- MODULE BusReset ---------------------------------
(***************************************************************************)
(* The reset sequencer of a USBDevice at the bus: the transceiver, which   *)
(* takes a while to follow the sequencer's settings (UTMITranslator); the  *)
(* device's address and configuration, which a reset clears; and a host    *)
(* that supplies power, resets, chirps if it can do high speed, talks,     *)
(* suspends and resumes, within the times of the USB specification.        *)
(***************************************************************************)
EXTENDS Integers

CONSTANTS
  CYCLES_2P5_MICROSECONDS, CYCLES_5_MICROSECONDS, CYCLES_200_MICROSECONDS,
  CYCLES_2_MILLISECONDS, CYCLES_2P5_MILLISECONDS, CYCLES_3_MILLISECONDS, Wrap,
  DeviceModes,   \* subset of {"any", "full_only", "low_only"}: the speeds the device is set to
  HostSpeeds,    \* subset of {"HIGH", "FULL"}: the fastest the host can do
  RegisterDelay, \* clocks the transceiver takes to follow its settings, at most
  ChirpLength,   \* clocks of one chirp of the host
  SofInterval,   \* clocks between two packets of the host, at most
  ResetLength,   \* clocks of a reset without a handshake, and of the wait before the first
  Unplugs,       \* whether the user disconnects the device, or leaves connect as it was at first
  MaxEvents      \* bound: how often the host or the user does something of its own accord

ASSUME SequencerAssumption ==
  /\ 0 < CYCLES_2P5_MICROSECONDS /\ CYCLES_2P5_MICROSECONDS < CYCLES_5_MICROSECONDS
  /\ CYCLES_5_MICROSECONDS < CYCLES_200_MICROSECONDS
  /\ CYCLES_200_MICROSECONDS < CYCLES_2_MILLISECONDS
  /\ CYCLES_2_MILLISECONDS < CYCLES_2P5_MILLISECONDS
  /\ CYCLES_2P5_MILLISECONDS < CYCLES_3_MILLISECONDS
  /\ CYCLES_3_MILLISECONDS < Wrap

\* The host keeps the times of the USB specification: what it sends between resets is shorter
\* than one, its packets come closer together than a suspend, a chirp is long enough to be seen
\* and three pairs of them come in time, and a reset outlasts all the device may do.
ASSUME HostAssumption ==
  /\ CYCLES_2P5_MICROSECONDS \in Nat /\ CYCLES_5_MICROSECONDS \in Nat
  /\ CYCLES_200_MICROSECONDS \in Nat /\ CYCLES_2_MILLISECONDS \in Nat
  /\ CYCLES_2P5_MILLISECONDS \in Nat /\ CYCLES_3_MILLISECONDS \in Nat /\ Wrap \in Nat
  /\ DeviceModes \subseteq {"any", "full_only", "low_only"} /\ HostSpeeds \subseteq {"HIGH", "FULL"}
  /\ RegisterDelay \in Nat \ {0} /\ ChirpLength \in Nat /\ SofInterval \in Nat /\ ResetLength \in Nat
  /\ Unplugs \in BOOLEAN /\ MaxEvents \in Nat
  /\ RegisterDelay + 3 <= CYCLES_200_MICROSECONDS /\ 2 * RegisterDelay + 6 <= CYCLES_2_MILLISECONDS
  /\ CYCLES_2P5_MICROSECONDS + 1 < CYCLES_5_MICROSECONDS
  /\ CYCLES_2P5_MICROSECONDS + 4 <= SofInterval /\ RegisterDelay + 2 <= SofInterval
  /\ 2 * SofInterval + 6 <= CYCLES_3_MILLISECONDS
  /\ CYCLES_2P5_MICROSECONDS + 2 <= ChirpLength
  /\ 6 * ChirpLength + CYCLES_2P5_MICROSECONDS + 5 <= CYCLES_2P5_MILLISECONDS
  /\ ResetLength >= CYCLES_3_MILLISECONDS + CYCLES_200_MICROSECONDS + CYCLES_2_MILLISECONDS
                      + CYCLES_2P5_MILLISECONDS + RegisterDelay + 9
  /\ ResetLength >= SofInterval + CYCLES_2P5_MICROSECONDS + CYCLES_200_MICROSECONDS
                      + CYCLES_2_MILLISECONDS + Wrap + 2 * RegisterDelay + 15

VARIABLES
  seq,           \* USBResetSequencer
  address, configuration,
  connect,       \* USBDevice's input
  device_mode,   \* low_speed_only and full_speed_only
  transceiver,   \* [mode, termination]: what the transceiver has been told and done
  lag,           \* clocks since it was told something else
  line_state,    \* what it shows the sequencer, a clock late
  host,          \* [phase, time, speed, capable, drive, heard, chirps]
  host_address,  \* the address the host has given the device, 0 if none
  events

deviceVars == <<seq, address, configuration, transceiver, lag, line_state>>
vars == <<deviceVars, connect, device_mode, host, host_address, events>>

S == INSTANCE ResetSequencer

---------------------------------------------------------------------------
(* The device *)

\* What the sequencer's outputs and connect make of the transceiver.
Settings == [mode |-> seq.operating_mode,
             termination |-> IF connect THEN seq.termination_select ELSE 0,
             speed |-> seq.current_speed]

bus_busy == lag > 0

SequencerInputs ==
  [low_speed_only  |-> device_mode = "low_only", full_speed_only |-> device_mode = "full_only",
   bus_busy |-> bus_busy, vbus_connected |-> host.phase # "off",
   disconnect |-> ~connect, line_state |-> line_state]

\* The bus: a host's drive wins over termination, a device's chirp over a host's SE0.
Line ==
  IF S!tx_valid /\ transceiver.mode = "CHIRP" /\ transceiver.termination = 1 THEN "K"
  ELSE IF host.drive # "none" THEN host.drive
  ELSE IF transceiver.mode = "NON_DRIVING" \/ transceiver.termination = 0 THEN "SE0"
  ELSE IF transceiver.speed = "LOW" THEN "K" ELSE "J"

\* A write takes some clocks, busy shows from the clock after the one it begins in.
TransceiverClock ==
  IF transceiver = Settings THEN lag' = 0 /\ UNCHANGED transceiver
  ELSE \/ lag > 0 /\ transceiver' = Settings /\ lag' = 1
       \/ lag < RegisterDelay /\ lag' = lag + 1 /\ UNCHANGED transceiver

\* Mutant: a bus reset leaves the address.
AddressAfterKept(assigned) == assigned
\* A reset wins over a request that is served in the same clock.
AddressAfter(assigned) == IF S!bus_reset(SequencerInputs) THEN 0 ELSE assigned

\* One clock, in which the endpoints make the device's address and configuration as given.
DeviceClock(assigned, configured) ==
  /\ S!Clock(SequencerInputs)
  /\ address' = AddressAfter(assigned)
  /\ configuration' = AddressAfter(configured)
  /\ TransceiverClock
  /\ line_state' = Line
  /\ UNCHANGED device_mode

---------------------------------------------------------------------------
(* The host *)

Quietly == DeviceClock(address, configuration) /\ UNCHANGED <<connect, host_address>>

Later(h) == [h EXCEPT !.time = @ + 1]
Enter(phase, drive) == [host EXCEPT !.phase = phase, !.drive = drive, !.time = 0, !.heard = "none"]
Event == events < MaxEvents /\ events' = events + 1

Attached == Line # "SE0"

\* A suspend lasts longer than a device may take to see it.
SuspendLength == CYCLES_3_MILLISECONDS + CYCLES_200_MICROSECONDS + RegisterDelay + 4

\* The device has left the bus, and the host notices: at full and low speed it sees that
\* the pull-up is gone.
Gone ==
  /\ host.phase \notin {"off", "powered"}
  /\ \/ transceiver.mode = "NON_DRIVING"
     \/ ~connect /\ transceiver.termination = 0 /\ host.speed # "HIGH"

PowerOn ==
  /\ host.phase = "off" /\ Event
  /\ Quietly /\ host' = Enter("powered", "none")

PowerOff ==
  /\ host.phase # "off" /\ ~Gone /\ Event
  /\ DeviceClock(address, configuration) /\ host' = Enter("off", "none") /\ host_address' = 0
  /\ UNCHANGED connect

\* A device has been there for a while, at least as long as a reset: reset it.  A device at any later time may be
\* reset too.
BeginReset ==
  /\ \/ host.phase = "powered" /\ host.time = ResetLength /\ UNCHANGED events
     \/ host.phase = "run" /\ host.time > 0 /\ Event
     \/ host.phase = "suspend" /\ host.time > SuspendLength /\ Event
  /\ ~Gone /\ (host.phase = "powered" => Attached)
  /\ DeviceClock(address, configuration) /\ host' = [Enter("reset", "SE0") EXCEPT !.chirps = 0]
  /\ host_address' = 0 /\ UNCHANGED connect

\* A host that can do high speed answers the device's chirp, K and J in turn, until it
\* ends the reset; a host that cannot, or hears none, just waits.
KeepReset ==
  /\ host.phase = "reset" /\ ~Gone /\ host.time < ResetLength /\ host.chirps = 0
  /\ ~(host.heard = "K" /\ Line # "K")
  /\ Quietly /\ UNCHANGED events
  /\ host' = [Later(host) EXCEPT !.heard = IF host.capable = "HIGH" /\ Line = "K" THEN "K" ELSE @]

BeginChirps ==
  /\ host.phase = "reset" /\ ~Gone /\ host.heard = "K" /\ Line # "K"
  /\ Quietly /\ UNCHANGED events
  /\ host' = [Enter("reset", "K") EXCEPT !.chirps = 1]

Chirp ==
  /\ host.phase = "reset" /\ ~Gone /\ host.chirps > 0
  /\ Quietly /\ UNCHANGED events
  /\ host' = IF host.time < ChirpLength - 1 THEN Later(host)
             ELSE IF host.chirps < 8
             THEN [host EXCEPT !.time = 0, !.chirps = @ + 1, !.drive = IF @ = "K" THEN "J" ELSE "K"]
             ELSE [Enter("run", "none") EXCEPT !.speed = "HIGH"]

EndReset ==
  /\ host.phase = "reset" /\ ~Gone /\ host.chirps = 0 /\ host.time = ResetLength
  /\ Quietly /\ UNCHANGED events
  /\ host' = [Enter("run", "none") EXCEPT !.speed = IF device_mode = "low_only" THEN "LOW" ELSE "FULL"]

idle_state == CASE host.speed = "HIGH" -> "SE0" [] host.speed = "FULL" -> "J" [] OTHER -> "K"

\* Nothing, or the packets of a host that is talking: activity for a clock.
Idle ==
  /\ host.phase \in {"off", "powered", "run", "suspend"} /\ ~Gone
  /\ host.phase = "run" => host.time < SofInterval
  /\ host.phase = "powered" => host.time < ResetLength \/ ~Attached
  /\ Quietly /\ UNCHANGED events
  /\ host' = IF host.phase = "powered" /\ ~Attached THEN Enter("powered", "none")
             ELSE IF host.phase = "run" \/ host.time <= CASE host.phase = "suspend" -> SuspendLength
                                                           [] host.phase = "powered" -> ResetLength - 1
                                                           [] OTHER -> CYCLES_5_MICROSECONDS
             THEN [Later(host) EXCEPT !.drive = IF host.time < CYCLES_2P5_MICROSECONDS THEN @ ELSE "none"]
             ELSE host

Packet ==
  /\ host.phase = "run" /\ host.drive = "none" /\ ~Gone /\ host.time >= SofInterval - 1
  /\ Quietly /\ UNCHANGED events
  /\ \E drive \in {"J", "K", "SE0"} \ {idle_state} : host' = [host EXCEPT !.time = 1, !.drive = drive, !.heard = "packet"]

\* A SET_ADDRESS and a SET_CONFIGURATION have their effect.
SetAddress ==
  /\ host.phase = "run" /\ host.heard = "packet" /\ host_address = 0 /\ host.drive = "none" /\ host.time < SofInterval
  /\ connect /\ ~Gone
  /\ DeviceClock(1, 1) /\ host_address' = 1
  /\ host' = Later(host) /\ UNCHANGED <<connect, events>>

Suspend ==
  /\ host.phase = "run" /\ host.heard = "packet" /\ ~Gone /\ Event
  /\ Quietly /\ host' = Enter("suspend", "none")

BeginResume ==
  /\ host.phase = "suspend" /\ host.time > SuspendLength /\ ~Gone /\ Event
  /\ Quietly /\ host' = Enter("resume", IF host.speed = "LOW" THEN "J" ELSE "K")

Resume ==
  /\ host.phase = "resume" /\ ~Gone
  /\ Quietly /\ UNCHANGED events
  /\ host' = IF host.time < CYCLES_2_MILLISECONDS THEN Later(host) ELSE Enter("run", "SE0")

Notice ==
  /\ Gone
  /\ DeviceClock(address, configuration) /\ host' = Enter("powered", "none") /\ host_address' = 0
  /\ UNCHANGED <<connect, events>>

\* The user of the device disconnects it, and connects it again when the host has noticed.
Toggle ==
  /\ Unplugs /\ Event /\ ~Gone
  /\ host.phase \in IF connect THEN {"run", "suspend"} ELSE {"powered"}
  /\ host.time < SofInterval
  /\ DeviceClock(address, configuration)
  /\ connect' = ~connect /\ host' = Later(host) /\ UNCHANGED host_address

Next ==
  \/ PowerOn \/ PowerOff \/ BeginReset \/ KeepReset \/ BeginChirps \/ Chirp \/ EndReset
  \/ Idle \/ Packet \/ SetAddress \/ Suspend \/ BeginResume \/ Resume \/ Notice \/ Toggle

Init ==
  /\ S!Init /\ address = 0 /\ configuration = 0
  /\ device_mode \in DeviceModes
  /\ connect \in IF Unplugs THEN {TRUE} ELSE BOOLEAN
  /\ transceiver = Settings /\ lag = 0 /\ line_state = "SE0"
  /\ \E speed \in HostSpeeds :
       host = [phase |-> "off", time |-> 0, speed |-> "FULL", capable |-> speed, drive |-> "none",
               heard |-> "none", chirps |-> 0]
  /\ host_address = 0 /\ events = 0

Spec == Init /\ [][Next]_vars

---------------------------------------------------------------------------
(* Properties *)

\* The state's types.
TypeOK ==
  /\ S!TypeOK
  /\ address \in {0, 1} /\ configuration \in {0, 1} /\ host_address \in {0, 1}
  /\ lag \in 0 .. RegisterDelay /\ line_state \in {"SE0", "J", "K"}
  /\ host.chirps \in 0 .. 8 /\ host.time \in 0 .. ResetLength

\* Once a host that has ended a reset or a resume talks again, device and host are at the
\* same speed, the best one both can do, and the device drives the bus as that speed needs.
SpeedsAgree ==
  connect /\ host.phase = "run" /\ host.heard = "packet" =>
    /\ seq.current_speed = host.speed
    /\ seq.operating_mode = "NORMAL"
    /\ seq.termination_select = IF host.speed = "HIGH" THEN 0 ELSE 1
    /\ (host.speed = "HIGH") = (host.capable = "HIGH" /\ device_mode = "any")

\* While the host uses the device, the device has the address and the configuration the
\* host gave it since the last reset: it misses no reset, makes up none, and not even a
\* suspend or a new connection changes them.
AddressAgrees ==
  connect /\ host.phase \in {"run", "suspend", "resume"} => address = host_address /\ configuration = host_address

\* A connected device never chirps at a host that is not resetting it, and no device before
\* the transceiver is in the mode for it: a zero sent in another mode would be a packet.
ChirpsAreMeant ==
  S!tx_valid => /\ connect => host.phase \notin {"run", "suspend", "resume"}
                /\ transceiver.mode = "CHIRP"

\* A device whose host talks to it is not suspended; and one the host has left alone for as
\* long as the specification allows is.
SuspendsAsMeant ==
  /\ S!suspended => host.phase # "run"
  /\ connect /\ host.phase = "suspend" /\ host.time >= SuspendLength => S!suspended
====================================================================================
