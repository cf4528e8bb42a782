------------------------------ MODULE UTMITranslator ------------------------------
(***************************************************************************)
(* UTMITranslator, src/liteusb/gateware/interface/ulpi.py: register        *)
(* window, control translator, receive decoder and transmit translator     *)
(* share the ULPI bus of a PHY.  The PHY is the environment: it accepts    *)
(* commands when it likes, takes the bus when it has something to report,  *)
(* interrupting a register write if need be, and receives packets.  A step *)
(* is one usb clock.                                                       *)
(***************************************************************************)
EXTENDS Integers, Sequences, FiniteSets

CONSTANTS
  OtgReset,          \* what the second register, the OTG control, holds after a reset
  OtgValue,          \* what its control signals compose to
  FunctionReset,     \* what the first register, the function control, holds after a reset
  Modes,             \* what its control signals compose to
  RegisterOutputs,   \* register_outputs
  Startup,           \* clocks the PHY needs after a reset
  Calm,              \* whether the settings change only when no write is under way and no
                     \* transmission waits for the PHY, and transmissions start only when
                     \* at most one register differs
  Lines,             \* what else a receive command tells
  MaxChanges, MaxGrabs, MaxPackets, MaxLength  \* bounds on the environment

ASSUME TranslatorAssumption ==
  /\ "chirp" \in Modes /\ FunctionReset \in Modes
  /\ RegisterOutputs \in BOOLEAN /\ Calm \in BOOLEAN
  /\ Startup \in Nat /\ MaxLength \in Nat \ {0}

VARIABLES
  window_state, window_data, window_stop, window_done,         \* ULPIRegisterWindow
  current, write_value, control_busy,                          \* ULPIControlTranslator
  translator_state, out_req,                                   \* ULPIPacketTranslators
  direction_delayed, last_rx_command, rx_start, rx_stop, rx_active, rx_valid, rx_data,
  startup_counter, phy_ready,
  pins,        \* data and stp as registered for the bus
  signals,     \* register -> the value its control signals ask for
  tx_length, tx_data,   \* the packet being transmitted: length, 0 if none; the byte due
  phy,         \* the PHY: [state, address, value, packet]
  phy_register,         \* register -> its value in the PHY
  phy_command, \* the receive command it sent last
  air,         \* the packet it received last, as far as it came
  aired,       \* whether that packet is still going on
  heard,       \* that packet in UTMI's form
  deaf,        \* whether the decoder missed the command that began it, or the one before
               \* that, because it came during a register write
  wanted,      \* the length of the packet transmitted last
  sent,        \* what became of it in the PHY: "none" (yet), "intact" or "broken"
  changes, grabs, packets        \* how much the environment has done

windowVars  == <<window_state, window_data, window_stop, window_done>>
controlVars == <<current, write_value, control_busy>>
rxVars      == <<direction_delayed, last_rx_command, rx_start, rx_stop, rx_active, rx_valid, rx_data>>
phyVars     == <<phy, phy_register, phy_command, air, aired, deaf, sent, grabs>>
vars == <<windowVars, controlVars, translator_state, out_req, rxVars, startup_counter, phy_ready,
          pins, signals, tx_length, tx_data, wanted, phyVars, heard, changes, packets>>

Registers  == <<"function", "otg">>
ResetValue == [r \in {"function", "otg"} |-> IF r = "otg" THEN OtgReset ELSE FunctionReset]

W == INSTANCE ULPIRegisterWindow
C == INSTANCE ULPIControlTranslator
X == INSTANCE ULPIPacketTranslators

---------------------------------------------------------------------------
(* The wires between the parts *)

tx_valid == tx_length > 0
raw      == signals["function"] = "chirp"

control_bus_idle     == ~X!busy /\ phy_ready
transmit_bus_idle(u) == ~control_busy /\ ~u.dir /\ phy_ready

busy(u) == W!busy \/ X!busy \/ control_busy \/ u.dir

WindowInputs(u) ==
  [dir |-> u.dir, nxt |-> u.nxt, address |-> C!address(signals),
   write_data |-> C!write_data(signals),
   write_request |-> C!write_request(signals, control_bus_idle, window_done)]

TransmitInputs(u) ==
  [tx_valid |-> tx_valid, tx_data |-> tx_data, raw |-> raw, nxt |-> u.nxt,
   bus_idle |-> transmit_bus_idle(u)]

\* out_data and out_stp, and what of them the PHY sees.
Out(u) == IF out_req
          THEN [data |-> X!data_out(TransmitInputs(u)), stp |-> X!stp(TransmitInputs(u))]
          ELSE [data |-> window_data, stp |-> window_stop]
Seen(u) == IF RegisterOutputs THEN pins ELSE Out(u)

DeviceClock(u) ==
  /\ W!Clock(WindowInputs(u))
  /\ C!Clock(signals, control_bus_idle, W!busy, window_done)
  /\ X!TransmitClock(TransmitInputs(u))
  /\ X!ReceiveClock(u, W!busy)
  /\ startup_counter' = IF startup_counter < Startup THEN startup_counter + 1 ELSE startup_counter
  /\ phy_ready' = (phy_ready \/ startup_counter = Startup)
  /\ pins' = IF RegisterOutputs THEN Out(u) ELSE pins
  /\ heard' = IF rx_active' /\ ~rx_active THEN << >>
              ELSE IF rx_active' /\ rx_valid' THEN Append(heard, rx_data') ELSE heard

---------------------------------------------------------------------------
(* The device behind UTMI: control signals and packets to transmit *)

\* The registers hold what the signals ask for, as far as the translator knows.
Settled == \A r \in C!Names : ~C!write_requested(signals, r)
AtRest  == Settled /\ ~W!busy /\ ~window_done /\ ~control_busy

\* tx_ready moves on to the next byte, and past the last one tx_valid falls; a
\* chirp ends when its time is up.
TransmitOn(u) ==
  /\ LET last == tx_data = tx_length
     IN  \/ /\ tx_valid /\ X!tx_ready(TransmitInputs(u))
            /\ tx_length' = (IF last THEN 0 ELSE tx_length)
            /\ tx_data' = (IF last THEN 0 ELSE tx_data + 1)
         \/ /\ tx_valid /\ raw /\ X!busy
            /\ tx_length' = 0 /\ tx_data' = 0
         \/ /\ ~(tx_valid /\ X!tx_ready(TransmitInputs(u)))
            /\ UNCHANGED <<tx_length, tx_data>>

\* The registers that are to be written.
Pending == {r \in C!Names : C!write_requested(signals, r)}

StartTransmission ==
  /\ ~tx_valid /\ ~X!busy /\ ~aired /\ ~rx_active /\ phy_ready
  /\ packets < MaxPackets /\ packets' = packets + 1
  /\ Calm => Cardinality(Pending) <= 1
  /\ \E n \in 1 .. MaxLength : tx_length' = n /\ wanted' = n
  /\ tx_data' = 1
  /\ UNCHANGED <<signals, changes>>

\* The settings change, while a packet is sent only to others of the same kind.
ChangeSignals ==
  /\ Calm => AtRest /\ (tx_valid => X!busy)
  /\ changes < MaxChanges /\ changes' = changes + 1
  /\ \E m \in Modes \ {signals["function"]} :
       /\ tx_valid \/ X!busy => (m = "chirp") = raw
       /\ signals' = [signals EXCEPT !["function"] = m]
  /\ UNCHANGED <<wanted, packets>>

---------------------------------------------------------------------------
(* The PHY *)

Clock(u) ==
  /\ DeviceClock(u)
  /\ \/ StartTransmission
     \/ TransmitOn(u) /\ ChangeSignals
     \/ TransmitOn(u) /\ UNCHANGED <<signals, wanted, changes, packets>>

Quiet == [dir |-> FALSE, nxt |-> FALSE, data |-> 0]
Nxt   == [dir |-> FALSE, nxt |-> TRUE, data |-> 0]
Empty == [state |-> "idle", address |-> "none", value |-> "zero", packet |-> << >>]

\* It has nothing to do, or takes its time.
Wait ==
  /\ \/ phy.state = "idle"
     \/ phy.state \in {"write_data", "write_stop", "tx_data"} /\ ~Seen(Quiet).stp
  /\ Clock(Quiet) /\ UNCHANGED phyVars

\* A command is there, and will be accepted in the next clock ...
SeeCommand ==
  /\ phy.state = "idle" /\ Seen(Quiet).data[1] \in {"write", "transmit"}
  /\ Clock(Quiet)
  /\ phy' = [phy EXCEPT !.state = "command"]
  /\ UNCHANGED <<phy_register, phy_command, air, aired, deaf, sent, grabs>>

AcceptWrite ==
  LET command == Seen(Nxt).data
  IN  /\ phy.state = "command" /\ command[1] = "write"
      /\ Clock(Nxt)
      /\ phy' = [phy EXCEPT !.state = "write_data", !.address = command[2]]
      /\ UNCHANGED <<phy_register, phy_command, air, aired, deaf, sent, grabs>>

AcceptTransmit ==
  LET command == Seen(Nxt).data
  IN  /\ phy.state = "command" /\ command[1] = "transmit"
      /\ Clock(Nxt)
      /\ phy' = [phy EXCEPT !.state = "tx_data",
                            !.packet = IF command[2] = 0 THEN << >> ELSE <<command[2]>>]
      /\ sent' = "none"
      /\ UNCHANGED <<phy_register, phy_command, air, aired, deaf, grabs>>

\* ... and then the register's value and the stop ...
TakeRegisterData ==
  /\ phy.state = "write_data"
  /\ Clock(Nxt)
  /\ phy' = [phy EXCEPT !.state = "write_stop", !.value = Seen(Nxt).data[2]]
  /\ UNCHANGED <<phy_register, phy_command, air, aired, deaf, sent, grabs>>

Stored == [phy_register EXCEPT ![phy.address] = phy.value]

FinishWrite ==
  /\ phy.state = "write_stop" /\ Seen(Quiet).stp
  /\ Clock(Quiet)
  /\ phy' = Empty /\ phy_register' = Stored
  /\ UNCHANGED <<phy_command, air, aired, deaf, sent, grabs>>

\* ... or the bytes of the packet and the stop.
TakeByte ==
  /\ phy.state = "tx_data" /\ ~Seen(Nxt).stp
  /\ Clock(Nxt)
  /\ phy' = [phy EXCEPT !.packet = IF Len(@) > MaxLength THEN @ ELSE Append(@, Seen(Nxt).data[2])]
  /\ UNCHANGED <<phy_register, phy_command, air, aired, deaf, sent, grabs>>

InOrder(p) == p = [k \in 1 .. Len(p) |-> k]

FinishPacket ==
  LET forced == Seen(Quiet).data[2] = "error"
  IN  /\ phy.state = "tx_data" /\ Seen(Quiet).stp
      /\ Clock(Quiet)
      /\ phy' = Empty
      /\ sent' = IF IF raw THEN forced /\ InOrder(phy.packet)
                    ELSE ~forced /\ phy.packet = [k \in 1 .. wanted |-> k]
                 THEN "intact" ELSE "broken"
      /\ UNCHANGED <<phy_register, phy_command, air, aired, deaf, grabs>>

\* The PHY takes the bus, unless it is transmitting; a write that is at its stop
\* in this clock may count or not.  With nxt, a packet begins at once.
TakeBus(begins) ==
  LET u == [dir |-> TRUE, nxt |-> begins, data |-> 0]
  IN  /\ phy.state \in {"idle", "write_data", "write_stop"}
      /\ begins => ~tx_valid /\ ~X!busy        \* the bus is half duplex
      /\ grabs < MaxGrabs /\ grabs' = grabs + 1
      /\ Clock(u) /\ (begins => tx_length' = 0)
      /\ phy' = [Empty EXCEPT !.state = "rx", !.value = IF begins THEN "packet" ELSE "zero"]
      /\ phy_register' \in {phy_register} \cup
                           (IF phy.state = "write_stop" /\ Seen(u).stp THEN {Stored} ELSE {})
      /\ aired' = begins /\ air' = (IF begins THEN << >> ELSE air) /\ deaf' = (deaf /\ ~begins)
      /\ UNCHANGED <<phy_command, sent>>

\* The last receive command had RxActive down.  One that leaves it up when dir falls
\* hides the beginning of the next packet that a receive command begins (ulpi.py:334).
BeginningShows == ~phy_command.active

\* Whenever it has the bus and no byte it sends a receive command, which may begin
\* or end a packet.  It leaves a clock between the beginning and the first byte, and
\* gives the bus back between packets.
Command ==
  \E active \in BOOLEAN, line \in Lines :
    LET command == [active |-> active, line |-> line]
        begins  == active /\ ~aired
    IN  /\ phy.state \in {"rx", "rx_begins"}
        /\ phy.state = "rx_begins" => command = phy_command
        /\ begins => phy.value # "packet" /\ BeginningShows /\ ~tx_valid /\ ~X!busy
        /\ Clock([dir |-> TRUE, nxt |-> FALSE, data |-> command]) /\ (begins => tx_length' = 0)
        /\ phy' = IF begins THEN [phy EXCEPT !.state = "rx_begins", !.value = "packet"]
                  ELSE [phy EXCEPT !.state = "rx"]
        /\ phy_command' = command
        /\ aired' = active /\ air' = (IF begins THEN << >> ELSE air)
        /\ deaf' = IF begins THEN W!busy \/ last_rx_command # phy_command ELSE deaf
        /\ UNCHANGED <<phy_register, sent, grabs>>

Byte ==
  LET byte == Len(air) + 1
  IN  /\ phy.state = "rx" /\ aired /\ Len(air) < MaxLength
      /\ Clock([dir |-> TRUE, nxt |-> TRUE, data |-> byte])
      /\ air' = Append(air, byte)
      /\ UNCHANGED <<phy, phy_register, phy_command, aired, deaf, sent, grabs>>

\* The clock in which dir falls is a turnaround: nobody looks at the bus.
Release ==
  /\ phy.state = "rx"
  /\ Clock(Quiet)
  /\ phy' = Empty /\ aired' = FALSE
  /\ UNCHANGED <<phy_register, phy_command, air, deaf, sent, grabs>>

Next ==
  \/ Wait \/ SeeCommand \/ AcceptWrite \/ AcceptTransmit \/ TakeRegisterData \/ FinishWrite
  \/ TakeByte \/ FinishPacket \/ TakeBus(TRUE) \/ TakeBus(FALSE) \/ Command \/ Byte \/ Release

Init ==
  /\ W!Init /\ C!Init /\ X!TransmitInit
  /\ LET idle == [active |-> FALSE, line |-> "idle"]
     IN  X!ReceiveInit("idle") /\ phy_command = idle
  /\ startup_counter = 0 /\ phy_ready = FALSE
  /\ pins = [data |-> W!Noop, stp |-> FALSE]
  /\ \E m \in Modes : signals = [r \in C!Names |-> IF r = "otg" THEN OtgValue ELSE m]
  /\ tx_length = 0 /\ tx_data = 0 /\ wanted = 0
  /\ phy = Empty /\ phy_register = ResetValue
  /\ air = << >> /\ aired = FALSE /\ deaf = FALSE /\ heard = << >> /\ sent = "none"
  /\ changes = 0 /\ grabs = 0 /\ packets = 0

\* The clock ticks, and the PHY neither keeps the bus nor the link waiting for ever: again
\* and again it does what the link or the end of its own report calls for.
Progress ==
  \/ Wait /\ phy.state = "idle" /\ Seen(Quiet).data[1] \notin {"write", "transmit"}
  \/ SeeCommand \/ AcceptWrite \/ AcceptTransmit \/ TakeRegisterData \/ FinishWrite
  \/ TakeByte \/ FinishPacket \/ Release \/ (phy.state = "rx_begins" /\ Command)

Spec == Init /\ [][Next]_vars /\ WF_vars(Progress)

---------------------------------------------------------------------------
(* Properties *)

\* Types; what the PHY is told to write is always a value the signals asked for.
TypeOK ==
  /\ window_state \in {"IDLE", "START_WRITE", "SEND_WRITE_ADDRESS", "HOLD_WRITE", "STOPPING"}
  /\ translator_state \in {"IDLE", "TRANSMIT"} /\ out_req \in BOOLEAN
  /\ signals \in [C!Names -> Modes \cup {OtgValue}]
  /\ phy_register \in [C!Names -> Modes \cup {OtgValue, ResetValue["otg"]}]
  /\ phy.state \in {"idle", "command", "write_data", "write_stop", "tx_data", "rx", "rx_begins"}
  /\ phy.state = "write_stop" => phy.address \in C!Names /\ phy.value # "zero"
  /\ tx_length \in 0 .. MaxLength /\ tx_data \in 0 .. tx_length

\* Interrupted at any point and taken up again, a write ends with the value in the
\* PHY: whenever the translator rests, its copy of the registers (ulpi.py:408) and
\* the PHY's own agree.
ShadowIsTrue == AtRest => phy_register = current

\* Every packet given to UTMI leaves the PHY byte for byte, a chirp with its forced
\* error, and a packet the PHY receives comes out of UTMI with all its bytes, in one piece,
\* whether the PHY begins it with nxt or with a receive command, ends it with one or with
\* dir and pauses in it (ulpi.py:890-910), whatever register writes and receive commands
\* come in between.  A command that begins it in a register write, or after one the decoder
\* did not see, hides a packet; so does one after an RxActive left up (BeginningShows),
\* which this PHY does not send.
PacketsIntact ==
  /\ sent # "broken"
  /\ ~aired /\ ~rx_active /\ ~deaf => heard = air

\* Signals that stop changing get into the PHY.
RegistersFollow == <>[](phy_register = signals)

\* Every transmission comes to its end, in the PHY too.
TransmissionsEnd == tx_valid ~> ~tx_valid /\ sent = "intact"
====================================================================================
