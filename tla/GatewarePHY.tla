------------------------------- MODULE GatewarePHY -------------------------------
(***************************************************************************)
(* GatewarePHY, src/liteusb/gateware/interface/gateware_phy/phy.py: the    *)
(* receive and the transmit pipeline on one pair of wires, with a host     *)
(* whose bits arrive a clock early or late, and a device that hands over   *)
(* packets through UTMI.  A step is a clock of usb_io.                     *)
(***************************************************************************)
EXTENDS Integers, Sequences, SequencesExt

CONSTANTS
  HostPackets,      \* packets the host sends: sequences of bytes
  DevicePackets,    \* packets the device sends
  OpModes,          \* values of op_mode the device may hold
  HostGaps, DeviceGaps,   \* clocks of usb_io that may pass before the next packet
  Settle,           \* clocks of usb_io after which a packet has gone through
  MaxDrift,         \* clocks of usb_io an edge is late, at most
  Skewed,           \* whether D+ and D- may change a clock apart
  MaxHostPackets, MaxDevicePackets   \* bounds: how many packets are sent

VARIABLES
  counter,          \* the divider of phy.py; the strobe is its zero
  phase,            \* the counter at which usb is clocked: fixed, but any
  op_mode,
  sync, cdr, nrzi, detect, bitstuff, rx_shifter, past_o_pkt_active,
  payload, flags, o_pkt_in_progress, rx_complete,
  fsm, gray, pulse, tx_shifter, ones, cross, encoder, driver, wire,
  host,             \* [lines, line, left, drift]: the bits to come, the one it sends
  tx,               \* the bytes the device has yet to hand over
  quiet,            \* clocks since the bus was driven, up to Settle
  sent,             \* history: packets of the host
  heard, got,       \* history: packets the device has received, and the bytes of this one
  handed,           \* history: packets of the device
  air               \* history: what the device has driven, once a bit

rxVars == <<sync, cdr, nrzi, detect, bitstuff, rx_shifter, past_o_pkt_active, payload, flags,
            o_pkt_in_progress, rx_complete>>
txVars == <<fsm, gray, pulse, tx_shifter, ones, cross, encoder, driver, wire>>
vars == <<counter, phase, op_mode, rxVars, txVars, host, tx, quiet, sent, heard, got, handed, air>>

Rx == INSTANCE RxPipeline WITH shifter <- rx_shifter
Tx == INSTANCE TxPipeline WITH shifter <- tx_shifter

---------------------------------------------------------------------------
(* How a packet looks on the wire, by the USB specification *)

Byte(n) == [k \in 1 .. 8 |-> (n \div 2 ^ (k - 1)) % 2]
SyncByte == Byte(128)

StuffBit(acc, bit) ==
  IF bit = 0 THEN [out |-> Append(acc.out, 0), run |-> 0]
  ELSE IF acc.run = 5 THEN [out |-> acc.out \o <<1, 0>>, run |-> 0]
  ELSE [out |-> Append(acc.out, 1), run |-> acc.run + 1]
Stuffed(bits) == FoldLeft(StuffBit, [out |-> << >>, run |-> 0], bits).out

Toggled(lines, bit) ==
  LET last == IF lines = << >> THEN "J" ELSE Last(lines)
  IN  Append(lines, IF bit = 1 THEN last ELSE IF last = "J" THEN "K" ELSE "J")

Encode(packet) ==
  FoldLeft(Toggled, << >>, Stuffed(SyncByte \o FlattenSeq(packet))) \o <<"SE0", "SE0", "J">>

Encoded == [packet \in HostPackets \cup DevicePackets |-> Encode(packet)]

---------------------------------------------------------------------------
(* The wires *)

tick == counter = phase
i_bit_strobe == counter = 0

tx_valid == tx # << >>
tx_data == IF tx_valid THEN Head(tx) ELSE Byte(0)
tx_ready == Tx!o_data_strobe(tx_valid)

\* What the device drives, "Z" for nothing.
Driven ==
  CASE op_mode = "NORMAL"        -> wire
    [] op_mode = "NO_ENCODING"   -> IF ~tx_valid THEN "Z" ELSE IF tx_data[1] = 1 THEN "J" ELSE "K"
    [] op_mode = "NONDRIVING"    -> "Z"

\* The pull-up holds the bus at J when nobody drives it.
Pins == IF Driven # "Z" THEN Driven ELSE host.line

Listened == IF Tx!o_oe THEN "SE0" ELSE Pins

---------------------------------------------------------------------------
(* The host: every bit is four clocks long, and its edges are late at most MaxDrift *)

Crossover == IF Skewed THEN {"SE0", "SE1"} ELSE {}

Bit(lines, drift) ==
  \E next \in 0 .. MaxDrift :
    \E shown \in {Head(lines)} \cup (IF Head(lines) \in {"J", "K"} \ {host.line} THEN Crossover ELSE {}) :
      host' = [lines |-> lines, line |-> shown, left |-> 3 + next - drift, drift |-> next]

HostClock ==
  \/ /\ host.left > 0
     /\ host' = [host EXCEPT !.left = @ - 1, !.line = Head(host.lines)]
     /\ UNCHANGED sent
  \/ /\ host.left = 0 /\ Len(host.lines) > 1
     /\ Bit(Tail(host.lines), host.drift)
     /\ UNCHANGED sent
  \/ /\ host.left = 0 /\ Len(host.lines) = 1
     /\ host' = [lines |-> << >>, line |-> "J", left |-> 0, drift |-> 0]
     /\ UNCHANGED sent
  \/ /\ host.lines = << >>
     /\ UNCHANGED <<host, sent>>
  \/ /\ host.lines = << >> /\ ~tx_valid /\ quiet \in HostGaps /\ Len(sent) < MaxHostPackets
     /\ \E packet \in HostPackets : Bit(Encoded[packet], 0) /\ sent' = Append(sent, packet)

---------------------------------------------------------------------------
(* The device behind UTMI: it hands over the next byte whenever tx_ready is up *)

UserClock ==
  \/ /\ ~tick
     /\ UNCHANGED <<tx, handed>>
  \/ /\ tick
     /\ tx' = IF tx_valid /\ tx_ready THEN Tail(tx) ELSE tx
     /\ UNCHANGED handed
  \/ /\ tick /\ ~tx_valid /\ host.lines = << >> /\ quiet \in DeviceGaps /\ ~o_pkt_in_progress
     /\ Len(handed) < MaxDevicePackets
     /\ \E packet \in DevicePackets : tx' = packet /\ handed' = Append(handed, packet)

ReceiverClock ==
  LET bytes == IF Rx!rx_valid THEN Append(got, Rx!dout(payload)) ELSE got
  IN  IF ~tick THEN UNCHANGED <<got, heard>>
      ELSE IF rx_complete' THEN got' = << >> /\ heard' = Append(heard, bytes)
      ELSE got' = bytes /\ UNCHANGED heard

---------------------------------------------------------------------------
Next ==
  /\ counter' = (counter + 1) % 4
  /\ UNCHANGED <<phase, op_mode>>
  /\ Rx!IoClock(Listened, tick)
  /\ Tx!IoClock(i_bit_strobe, tx_data, tx_valid, tick)
  /\ HostClock
  /\ UserClock
  /\ host' = host \/ handed' = handed \/ host.lines # << >>   \* not both at once
  /\ ReceiverClock
  /\ quiet' = IF host.lines # << >> \/ tx_valid \/ fsm # "IDLE" \/ Tx!o_oe THEN 0
              ELSE IF quiet < Settle THEN quiet + 1 ELSE quiet
  /\ air' = IF counter = 1 /\ Driven # "Z" THEN Append(air, Driven) ELSE air

Init ==
  /\ counter = 0 /\ phase \in 0 .. 3 /\ op_mode \in OpModes
  /\ Rx!Init /\ Tx!Init
  /\ host = [lines |-> << >>, line |-> "J", left |-> 0, drift |-> 0]
  /\ tx = << >> /\ quiet = 0
  /\ sent = << >> /\ heard = << >> /\ got = << >> /\ handed = << >> /\ air = << >>

Spec == Init /\ [][Next]_vars

---------------------------------------------------------------------------
TypeOK ==
  /\ Rx!TypeOK /\ Tx!TypeOK
  /\ host.line \in {"J", "K", "SE0", "SE1"} /\ host.left \in 0 .. 4

\* What has gone through both pipelines, their synchronisers and FIFOs.
AllQuiet == quiet = Settle /\ host.lines = << >> /\ ~tx_valid

\* What the device takes from the bus is what the host has sent, byte by byte and packet by
\* packet, whichever clock the bits' edges meet, and all of it: no packet is missed because
\* its first bits met the clock recovery out of phase, or the device had just been
\* transmitting.  Clock recovery, NRZI decoder, packet detector, shifter and both FIFOs.
ReceivedIntact ==
  /\ IsPrefix(heard, sent) /\ (got # << >> => IsPrefix(got, Last(sent)))
  /\ AllQuiet => heard = sent

\* What the device drives is the packets that were handed over, as the specification wants
\* them on the wire: sync pattern, stuffed, NRZI, and an end of two SE0 and a J.
SentIntact ==
  op_mode = "NORMAL" =>
    LET onair == FlattenSeq([k \in DOMAIN handed |-> Encoded[handed[k]]])
    IN  IsPrefix(air, onair) /\ (AllQuiet => air = onair)

---------------------------------------------------------------------------
(* A small instance *)

\* An ACK, 0xD2, and a byte of data after a DATA0, 0xC3.
Ack == <<Byte(210)>>
Data(byte) == <<Byte(195), Byte(byte)>>

Plain == {Ack, Data(165)}
\* 0xFC ends in six ones, 0xFF has a bit stuffed in the middle.
Stuffing == {Ack, Data(252), Data(255)}
OnlyStuffing == {Data(255)}
=================================================================================
