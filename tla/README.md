# A verification of the liteusb device core

liteusb is a USB 2.0 device in Migen: gateware that turns a transceiver's bytes
into packets, keeps endpoints in step with a host, and answers control requests.
It is a few dozen state machines that run in the same clock and talk through
strobes, one of them (the host) at the far end of a bus that loses packets. This
directory holds TLA+ models of its core, TLC configurations that check them, and
proofs that TLAPS checks.

Everything is translated from the Python that generates the gateware
(`src/liteusb/gateware`). One step of a clocked model is one clock of the
`usb` domain (in `GatewarePHY` one of `usb_io`, four times as fast): all registers take their next values together, from the values
before the clock. A `NextValue` and a statement in `self.sync` become a primed
variable; where two of them write one register, the textually later one wins, the
FSM's own after its parent's. A statement in `comb`, or a plain `.eq` inside
`fsm.act`, becomes an operator on the state before the clock and on the inputs.

## 1. The system

| Component | Source | State | What it does, and with whom |
|---|---|---|---|
| `TransactionalizedFIFO` | `memory/__init__.py` | memory, four pointers, port address | a FIFO whose reads and writes can be taken back; the OUT endpoints' buffer |
| `USBInTransferManager` | `usb/usb2/transfer.py` | FSM, two buffers, PID, positions | cuts a byte stream into packets, repeats what was not ACKed; fed by the user, drives the packet generator |
| `USBStreamInEndpoint`, `USBMultibyteStreamInEndpoint` | `usb/usb2/endpoints/stream.py` | (a byte counter) | token filter around a transfer manager |
| `USBStreamOutEndpoint` | `usb/usb2/endpoints/stream.py` | toggle, overflow, byte counter | decides per packet: store, skip, NAK; fed by receiver and boundary detector, fills a FIFO |
| `USBOutStreamBoundaryDetector` | `usb/stream.py` | FSM, one byte | delays a stream by a byte to mark its last one |
| Status and isochronous endpoints | `usb/usb2/endpoints/` | latches, counters, FIFO | a latched value with a toggle; frames of up to three packets in, packets without a handshake out |
| Token detector, packet receiver, deserializer, packet generator, handshake detector and generator, interpacket timer, CRC | `usb/usb2/packet.py` | an FSM each | bytes to packets and back; strobes for everybody above |
| `USBSetupDecoder`, `USBRequestHandlerMultiplexer` | `usb/usb2/request.py` | FSM, the fields of the last request | SETUP packets to requests; selects the handler that claims one |
| `USBControlEndpoint` | `usb/usb2/control.py` | stage FSM | data and status stages; strobes for the handlers |
| `StandardRequestHandler`, `ControlRequestHandler` | `usb/request/` | FSM, position, PID | answers standard requests; changes address, configuration, halts |
| `ACMRequestHandler`, the CDC-ACM device | `usb/devices/acm.py` | none | one class request; assembly of endpoints |
| Descriptor handlers | `usb/usb2/descriptor.py` | FSM, positions, ROM port | streams the part of a descriptor that fits in a packet |
| `StreamSerializer`, `ConstantStreamGenerator` | `stream/generator.py` | FSM, position | short constant answers |
| `USBDevice`, `USBEndpointMultiplexer` | `usb/usb2/device.py`, `endpoint.py` | address, configuration, frame number | wiring; registers; joins of the endpoints' outputs |
| Reset sequencer | `usb/usb2/reset.py` | FSM, two timers, chirp count | bus reset, suspend, the chirps of the high-speed handshake; sets the transceiver, clears the device |
| ULPI interface | `interface/ulpi.py` | register window, shadow registers, FSMs | UTMI to an external transceiver over a bus that either side drives |
| Gateware PHY | `interface/gateware_phy/` | shift registers, FSMs, two FIFOs | clock recovery, NRZI, bit stuffing; the same UTMI, without a transceiver |

From the wire up: a transceiver (ULPI or gateware) shows bytes on UTMI; detectors and
receivers read them side by side and strobe; the endpoints see every strobe of every
packet and filter by the token; their answers join in the multiplexer and go back
through one generator. The reset sequencer has the bus while nobody talks. There is
no arbitration anywhere: what keeps the parts off each other is that USB is half
duplex and that each knows whose turn it is.

### What makes it hard

* **Losses.** Every packet and every handshake can get lost or damaged, in both
  directions; host and device each repeat from what they know. The data toggle, a
  single bit, is all that keeps bytes from being lost or doubled.
* **Coincidence.** An ACK, the byte that fills a buffer, a `flush`, a `discard` and
  a token may share a clock. What happens is decided by the textual order of
  assignments in different places.
* **Delays between parts.** The FIFO's memory answers a clock late, the boundary
  detector a byte late, the handshake is chosen an interpacket delay after the
  packet; what a part looks at then must still be about the same packet.
* **Several parts that track one thing.** Setup decoder, stage FSM and request
  handler each follow the current request on their own; three readers of the bus each
  decide what a packet is; a shadow register stands for one in the transceiver.
* **A shared resource without an owner.** One CRC register checks and makes packets,
  one generator sends for all endpoints, one register window writes all registers, and
  the transceiver may take the ULPI bus in any clock.
* **Time.** Reset and suspend are the same line state held for different times;
  retimed and jittering inputs decide in which clock a bit is seen.
* **Boundaries.** Transfers that end with a packet, FIFOs one entry short of a
  packet, frames that are a multiple of a packet, wrap-around of rings that are no
  power of two, registers one bit too narrow.

### What each component owes

* FIFO: a bounded queue with undo, whatever the requests; published space exact.
* IN path: the host has the user's bytes once each, in order, in packets that show
  where transfers end; every transfer is seen to end.
* OUT path: the consumer has the host's bytes once each, in order; what was ACKed
  is kept; short packets are marked; a PING's ACK is honoured; the stream goes on.
* Control: a request is one step: exact answer, no other effect, under the address
  the host knows; every request comes to an end.
* Packet layer: one report per packet, and the right one; answers well formed, and in time as
  long as the endpoint takes no longer than is left for it.
* Periodic endpoints: a frame comes whole and under the right PIDs; a status read is a
  status seen; an OUT packet is delivered undamaged or not at all, and whole if there was room for it.
* Reset sequencer: whenever host and device talk, they agree on speed, address and on
  being suspended; a chirp only in answer to a reset.
* ULPI: the registers come to equal the signals; packets cross whole although both sides
  want the bus; nobody waits for ever.
* Gateware PHY: what one side sends is what the other hears, whatever the phase and drift.

`PROJECT.json` lists the hazards line by line, with the property that would catch
each of them.

## 2. Modules

| Module | Models |
|---|---|
| `TransactionalQueue` | abstract: a queue with undo, three values and no pointers |
| `TransactionalizedFIFO` | the FIFO, both ports in one clock, with the refinement mapping |
| `TransactionalizedFIFOProofs` | its theorems |
| `InTransferManager` | `USBInTransferManager`: one `Clock(i)` for all inputs `i` of a clock |
| `DataPacketGenerator` | `USBDataPacketGenerator` |
| `PacketPipe` | abstract: bytes in, packets out, no buffers, toggles or losses |
| `BulkIn` | IN endpoint, generator, user, host and bus; refines `PacketPipe` |
| `BulkInProofs` | its theorems, the refinement among them |
| `InterpacketTimer`, `DataPacketReceiver`, `OutStreamBoundaryDetector` | the parts of the same names |
| `StreamOutEndpoint` | `USBStreamOutEndpoint`; its FIFO is a `TransactionalQueue` |
| `BulkOut` | OUT endpoint with receiver, timer and detector, consumer, host and bus |
| `BulkOutProofs` | its theorems |
| `SetupDecoder` | `USBSetupDecoder` and the `USBDataPacketDeserializer` in it |
| `ControlEndpoint` | the stage FSM of `USBControlEndpoint` |
| `StandardRequestHandler` | the standard request handler |
| `DescriptorHandler`, `DistributedDescriptorHandler` | `GetDescriptorHandlerBlock` with its ROM; `GetDescriptorHandlerDistributed` with a `USBDescriptorStreamGenerator` for each descriptor |
| `DescriptorHandlerMux` | `GetDescriptorHandlerMux` in front of both, with its stall latches |
| `StreamSerializer` | `StreamSerializer` |
| `ControlRequests` | abstract: a request is one step, or is given up without effect |
| `ControlTransfers` | all of the control plane, host and bus; the `ACMRequestHandler` is three operators in it (`acm_...`), as it has no state; refines `ControlRequests` |
| `ControlTransfersProofs` | its theorems, the refinement among them |
| `PacketCRC` | CRC5 and CRC16, as equations of the code and as polynomials, and the shared CRC16 register |
| `TokenDetector`, `Handshakes` | `USBTokenDetector`; `USBHandshakeDetector` and `USBHandshakeGenerator`, byte by byte |
| `PacketLayer` | the three readers of the bus, the two generators and the CRC register between them, the timers, and a host that sends whole and damaged packets |
| `PacketLayerProofs` | its theorems |
| `EndpointMultiplexer` | the ORs and the PID selection of `USBEndpointMultiplexer` |
| `SignalInEndpoint`, `IsochronousInEndpoint`, `IsochronousOutEndpoint` | the status endpoint, both isochronous IN endpoints (same registers and FSM), the isochronous OUT endpoint |
| `PeriodicTransfers` | these three behind the multiplexer, with user, consumer, host and bus |
| `PeriodicTransfersProofs` | its theorems |
| `ResetSequencer` | `USBResetSequencer`, every state and both timers |
| `BusReset` | the sequencer, the device's registers, a transceiver that follows late, a host and a user who unplugs |
| `BusResetProofs` | its theorems |
| `ULPIRegisterWindow`, `ULPIControlTranslator`, `ULPIPacketTranslators` | the parts of `interface/ulpi.py`; the last one is `ULPITransmitTranslator` and `ULPIRxEventDecoder` |
| `UTMITranslator` | their composition as in `UTMITranslator`, with a ULPI transceiver and a device that changes modes and transmits |
| `UTMITranslatorProofs` | its theorems |
| `RxPipeline`, `TxPipeline` | the two halves of the gateware PHY with all their parts |
| `GatewarePHY` | both on one pair of wires, with a host whose edges drift |

Values for TLC that a configuration cannot write are at the end of a module, under "A small instance".

A module of a part holds no environment: it has `Init` and `Clock(inputs)`, and the
composition wires the output operators of one part to the inputs of another, as
`do_finalize` of the endpoint or device does. Names follow the source; the
`map` of `PROJECT.json` gives the lines of every definition. The FIFO inside
`StreamOutEndpoint` and `IsochronousOutEndpoint` is its abstract specification: the
`fifo` run and the theorem `QueueImplemented` show that the real one implements it,
`FifoUsedProperly` that the endpoint keeps to its condition (never commit and discard
at once), and `ReadDataIsNext` that its port shows the entry the queue has next.

The host is USB 2.0's: it sends tokens, takes a data packet that has its toggle,
ACKs what it received intact, and repeats. The bus between them is a variable
`wire` that says how far a transaction is. Its steps are marked external, and so are
those of the ULPI transceiver, of the USB host in `BusReset` and of the host's line
driver in `GatewarePHY`.

**What the data is.** Above the packet layer, bytes of a stream are numbered as they are
sent, so that "once and in order" is a statement about numbers; a SETUP packet is a
record; a CRC is a verdict that comes with a packet (`crc_matches` in
`DataPacketReceiver`, `good` in `SetupDecoder`). In `PacketLayer` bytes are bytes and
CRCs are computed, because there the question is whether the verdict is right: a
damaged packet has a wrong bit or a wrong length. In `GatewarePHY` they are bits. The
ROM of descriptors is the table it encodes; runtime descriptors come from the repository's own
generator. The deserializer works packet by packet;
that is what its state means to others, its bytes are not looked at before a packet
ends. Eight bytes that it has put together from several packets (after a damaged one) are any
request at all.

**Two clock domains.** `usb` is clocked on one of every four clocks of `usb_io`; on which
one (`phase`) is fixed but unknown. The strobe of the NRZI encoder has a phase of its own.
An entry of the asynchronous FIFOs shows two `usb` clocks after it was written, as the
Gray-coded pointers need. The FIFOs' domains are called "write" and "read" in the source
and never renamed; the model takes `usb_io` and `usb`, the only choice that works.

## 3. Runs

| Run | Asks | Instance |
|---|---|---|
| `fifo` | every read, write, commit and discard: space, kept entries, read port, refinement | depth 3, two values |
| `in_bulk` | exact delivery, repeats possible, packets as promised, transfers complete | packets of 2 bytes, 5 bytes, flushes, another endpoint's traffic |
| `in_faults` | what remains true when discards, foreign ACKs and `CLEAR_FEATURE` interfere | 3 bytes, one halt |
| `out_bulk` | order, nothing ACKed is lost, marks, PING, use of the FIFO | packets of 2, buffer of 2, 3 bytes, delays 1 and 2 |
| `out_live` | a full buffer, losses and a cleared halt only delay | packets of 1, buffer of 1, 2 bytes |
| `control` | two requests in a row, of ten: exact answers, agreement of the three FSMs, the address, refinement, termination | packets of 2, descriptors of 2 to 4 bytes, one of them made at run time |
| `packets` | one right report per packet, answers whole and in time, frame numbers | 3 packets of every kind, one of them damaged, one stall in each; endpoints that take up to 3 clocks; full speed at 12 MHz, high speed at 60 |
| `periodic` | who answers, whole frames, true statuses, undamaged OUT packets | frames of 0, 2, 3, 5 and 6 bytes in packets of 2, 3 frames, two statuses and their repetitions, ACKs for another device; OUT packets into a buffer of 4 |
| `reset` | agreement on speed, address, suspension; chirps | scaled timers, hosts of both speeds, devices of three settings, three events |
| `ulpi` | registers, packets both ways, no deadlock | two registers, two changes of mode, two interruptions, one packet each way of up to 2 bytes |
| `phy` | packets whole in both directions | one packet of the host with late and skewed edges, two of the device, all phases and modes |
| `phy_stuffed_bit` | a disagreement of code and documentation, section 6 | a packet with a stuffed bit |

**Why these bounds are enough.**

* *FIFO.* Depth 3 makes a ring of four words, with every relative position of the
  pointers, wrapped and not; two values tell a kept entry from an overwritten one.
  The theorems hold for every depth.
* *IN.* A two-byte packet has a first byte, a last byte, and can be short, full or
  empty. Five bytes are two and a half packets: both buffers fill, swap, and fill
  again, while the first one may be repeated. `send_position` keeps a bit to spare,
  as `Signal(max=max_packet_size + 1)` of 512 does.
* *OUT.* A buffer of one packet is full after every packet, so that overflow,
  PING and NAK happen all the time; three bytes make a full and a short packet or
  three packets with toggles 0, 1, 0. Delays 1 and 2 are those of high speed and of
  full speed in a 12 MHz domain.
* *Control.* Two descriptors in the ROM, of one packet and of two, and one made at run time
  behind the multiplexer, which ends inside its second packet; wLength below, at and above their lengths; missing type and
  missing index; the standard writes, a request that is not handled, a class
  request with data, and one that nobody claims. Two requests in a row show what
  the first leaves behind. The one byte of `SET_LINE_CODING` is short enough for the deserializer to finish a damaged
  packet with a good one behind it. After a request that ends, every FSM is back where it
  started (only registers that the next request sets again differ), so a third one
  adds nothing of a new kind.
* *Packets.* A reader holds at most the last token and the packet before the one it reads;
  three packets make every sequence of predecessor, damaged packet and victim. Two
  positions of a wrong bit, one in the PID and one in the payload or CRC, with the
  packet's being cut off or too long, are the damages a reader tells apart. That the
  CRC5 equations are those of the polynomial, and that a wrong bit changes it, is checked for all
  2048 tokens by assumptions of `PacketLayer`, and the CRC16 equations byte by byte for all packets of the run.
  `Latency` = 3 is the longest any endpoint of the repository takes from the timer's strobe to its stream more than
  one that has its packet ready: `START`, `LOOKUP_TYPE` and `LOOKUP_DESCRIPTOR` (descriptor.py:455-489).
* *Periodic.* The frame sizes are none, one packet, one and a half, two and a half and
  three packets: every first PID, and a last packet that is full or short. Three frames
  show what a frame that was left unfinished does to the next. An IN token between
  OUT packets is not combined (`Traffic` has the readers and the writer apart): the OUT
  endpoint shares no state with the others, and its product with them adds none.
* *Reset.* The intervals 2, 4, 8, 11, 40, 42 clocks keep the order
  of 2.5 us to 3 ms, and 2.5 and 3 ms stay far from 2 ms, so that a chirp and the host's
  answer to it fit between them as they do in the code. A setting takes up
  to two clocks, `RegisterDelay`, to reach the transceiver, less than the shortest interval,
  as a ULPI write of a few clocks is to 2.5 us. Three events are a power-up with its reset, and
  two of: suspend, resume, another reset, power off, unplug.
* *ULPI.* Two registers show the priority between them, at start-up both are due. Two
  interruptions hit a write twice or a write and a transmission. Packets of two bytes have a
  first, a last and a boundary.
* *PHY.* Two device packets are adjacent, so that what the first leaves behind hits the
  second; gaps cover all phases of a bit and of a byte. An edge comes at most one
  `usb_io` clock late, D+ and D- change at most one apart: the recovery samples a
  bit four times and cannot promise more. Of the host there is one packet, as after the first
  the code goes wrong (section 6).

**Fairness.** The gateware runs on a clock: what it is going to do it does (weak
fairness of the steps of the device and of the transceiver). The host goes on
asking, and the bus does not lose everything, so that steps that come about again
and again are taken (strong fairness of the host's tokens and of the arrival of
packets and handshakes). Nothing is assumed about the user of an IN endpoint. The
consumer of the OUT stream takes bytes again and again. In `ControlTransfers` two
habits of the code make it stricter: after a damaged packet the deserializer
overlooks the next ones, and after a lost SETUP packet the decoder overlooks every
second one, so `DataTaken` asks that the bus does not time its losses by that. In
`UTMITranslator` the transceiver neither keeps the bus nor lets the link wait for ever
(weak fairness of `Progress`, all of its steps but taking the bus and staying idle), as the
ULPI specification has it.

**Assumptions about the environment** that the code needs and that are stated as constants or
guards:

* `Calm` (ULPI): the device changes no mode while it starts a transmission, and starts none
  with registers pending. Section 6 says what happens otherwise.
* `Slack` (packets): the host leaves six clocks more than the device's own delay before it sends again, as the
  receiver does not look at the bus in `INTERPACKET_DELAY` and a look-up of a descriptor goes on whatever the bus
  brings. A host that waits for an answer leaves more, 16 bit times; behind a packet that nobody answers it is an assumption.
* The host of `BusReset` keeps the USB times: a reset and a suspend are longer than the device
  needs to see them, packets come more often than a suspend needs.

**Deadlock** is checked in every run but `packets` and `phy` (and `phy_stuffed_bit`): there the bounded number of
packets has been sent at some time and the bus stays idle.

### What the control run leaves out

`Supported` in `ControlTransfers` says what the run and the theorems of the control plane are about; it is
an assumption of its small instance and a hypothesis of the theorems. Most of its exclusions are cases in which the code goes wrong (section 6):

* requests: `GET_STATUS`; a `CLEAR_FEATURE` that is stalled; a read of no bytes, or with data in the wrong
  direction; an unsupported request with an OUT data stage; a request other than `GET_DESCRIPTOR` whose `wValue` is that
  of the generated descriptor (the stall logic compares the value whatever the request); a read past the end of a
  generated descriptor that ends with a packet. Request names are those of their type: a class request is never
  called `SET_ADDRESS`, as its number means something else.
* descriptors: the tables fit the 11 bits of `start_position`, and one descriptor is generated, which is not
  empty and not in the ROM as well.
* the bus: `StatusAckLost` and `OtherAcks`, a lost ACK in the status stage and an ACK of another endpoint's
  transaction, are false, and so is `MixedReads`: after a generated descriptor the host reads no other one.

Everything else is free: which packets, tokens and handshakes get lost or are damaged, how often and when; when the
host polls, and asks other endpoints; how fast the transceiver takes bytes. The host does not abort a request
with another SETUP before its end. When a handshake
that ended the request for the device is lost (`unsettled`), the host gets no answer
any more and gives the request up; `GiveUp` of `ControlRequests` allows that without
an effect only, so that no request can change a register and be unknown to the host.

## 4. Properties worth a word

* `UnackedPacketKept` (IN) says why repeats work: a buffer loses its bytes only as a
  whole and with the host's ACK of just that packet.
* `OrderSurvivesFaults` is what is left of exact delivery in an environment that breaks it:
  a foreign ACK or a discard may cost bytes, and a cleared halt may repeat a packet,
  but neither does the other's damage, and none puts bytes out of order.
* `AckedIsKept` (OUT) relates a handshake chosen late to a FIFO settled early.
* `HandlerHasRequest` compares the three parts that follow a request with the host.
* `ImplementsPipe`, `ImplementsQueue`, `ImplementsRequests` are refinements: every
  step of the model, with all its packets and repetitions, is a step of the abstract
  module or changes nothing in it.
* `ReportedAsSent` compares, in each clock, what three FSMs report with what the packet
  means: no report is missing, doubled, late or of the wrong kind.
* `AnswersWellFormed` is about one CRC register that is cleared and advanced by reception and
  transmission in turn.
* `FrameIsWhole` follows a frame over tokens that are lost, packets that are damaged and never
  repeated, and a new frame that comes before the old one has been read.
* `ReadStatusIsTheHosts`: what the endpoint calls read is the status the host has, taken once, whatever tokens and
  ACKs pass by the endpoint, but for one case that goes wrong: an ACK for another device right after a
  status that the host missed (`ForeignAck`, `status.stolen`; section 6). The property says how long that lasts.
* `AnswersInTime` adds up a packet's way through detectors, timers, endpoint and generators: what is left for the endpoint
  (`Spare`) is two clocks at 12 MHz and 19 or more at the other speeds of `RxToTx`.
* `SpeedsAgree` and `SuspendsAsMeant` compare a state machine that only measures times with
  what the host meant by them; `ChirpsAreMeant` says that noise, short resets and a host without
  high speed do not make a high-speed device.
* `ShadowIsTrue` (ULPI): at rest, what the link believes to be in the transceiver's registers is there, after
  writes that were cut off at any byte. `RegistersFollow` adds that it comes to rest.
* `ReceivedIntact` and `SentIntact` (PHY) run both pipelines against the encoding of the USB
  specification (`Encode`), in all phases.

Each property of a passing run has a mutant in `PROJECT.json`, a plausible slip in a
modelled definition that violates it.

## 5. Proofs

Eight modules hold theorems. In each, an invariant that says more than the property was checked with
TLC on the small instance first, then proved to be kept by every action for every value of the
constants: packet sizes, depths, lengths, numbers of losses, consumers. Assumptions on the constants
are those of the modules (`SizeAssumption`, `DepthAssumption`, ...) and the ones named below.

| Theorem | What is proved | Assumed besides |
|---|---|---|
| `TransactionalizedFIFOProofs`: `TypeCorrect`, `OrderCorrect`, `SpaceCorrect`, `HeldEntriesCorrect`, `QueueImplemented`, `ReadDataCorrect` | types; cyclic order of the pointers; space; held entries; refinement of the queue; the read port | nothing |
| `BulkInProofs!OrderCorrect` | `InOrderExactlyOnce` | `Undisturbed` |
| `BulkInProofs!PacketsRepeatable` | `UnackedPacketKept` | `Undisturbed` |
| `BulkInProofs!PipeImplemented` | `ImplementsPipe`, the refinement of `PacketPipe` | `Undisturbed`, `generate_zlps` |
| `BulkInProofs!FaultsKeepOrder` | `OrderSurvivesFaults` | `start_with_data1 = 0` |
| `BulkOutProofs!FifoIsUsedProperly` | `FifoUsedProperly` | nothing |
| `BulkOutProofs!StreamIsInOrder`, `NothingAckedIsLost`, `LastIsRight`, `PingIsHonoured`, `HaltsLoseNothing` | `StreamInOrder`, `AckedIsKept`, `LastMarksShortPackets`, `PingHonoured`, `HaltLosesNothing` | `Prompt` |
| `PeriodicTransfersProofs!OnlyTheAskedAnswers`, `FramesAreWhole`, `StatusIsRight`, `WholePacketsAreKept` | `AnswersComeFromTheAsked`, `FrameIsWhole`, `ReadStatusIsTheHosts`, `WholePacketsKept` | nothing |
| `ControlTransfersProofs!AnswersAlways`, `HandlerCorrect`, `AddressCorrect` | `AlwaysAnswered`, `HandlerHasRequest`, `AddressAgrees` | `Supported` |
| `ControlTransfersProofs!RequestsImplemented` | `ImplementsRequests`, the refinement of `ControlRequests` | `Supported` |
| `UTMITranslatorProofs!ShadowCorrect`, `PacketsCorrect` | `ShadowIsTrue`, `PacketsIntact` | `Orderly` |
| `BusResetProofs!SpeedsAlwaysAgree`, `AddressAlwaysAgrees`, `ChirpsAreAlwaysMeant`, `AlwaysSuspendsAsMeant` | `SpeedsAgree`, `AddressAgrees`, `ChirpsAreMeant`, `SuspendsAsMeant` | nothing |
| `PacketLayerProofs!AlwaysAnswersInTime` | `AnswersInTime` for every `Latency` | nothing (`PacketAssumption` has `Slack` cover `Latency`) |
| `PacketLayerProofs!AlwaysWellFormed`, `AlwaysReported`, `OthersAlwaysIgnored`, `FramesAlwaysFollow` | `AnswersWellFormed`, `ReportedAsSent`, `OthersDataIgnored`, `FramesFollow` | `TokenCrcAgrees`, `DataCrcAgrees`, `WrongBitShows` |

**The FIFO.**

* `TypeCorrect`, `OrderCorrect`. The inductive invariant is `TypeOK` and
  `PointersInOrder`. Neither "reads do not pass the commit" nor "writes do not reach
  a held entry" is inductive alone: a write that is taken back moves a pointer to a
  place whose safety depends on the others. The cyclic order of all four pointers is
  what every request keeps. `ClockKeepsOrder` shows it for one clock and any two
  requests, from lemmas on how a distance changes when one of its ends moves. Both are
  proved and so no run checks them.
* `SpaceCorrect` follows from the types alone; `HeldEntriesCorrect` from the order.
* `QueueImplemented`. `Segment(m, p, q)` is the sequence in memory from one pointer to
  another; the queue's `committed` and `pending` are two adjacent ones. Lemmas say
  that adjacent segments join, that a final read drops a prefix, and that a write
  behind a segment does not change it; `ClockImplements` puts them together, with the
  same requests on both sides, so that a clock of the FIFO is a clock of the queue.
* `ReadDataCorrect`: after a clock without a `read_discard` the registered address is
  the read pointer, where the queue's next entry lies.

**The IN path.** `Undisturbed` says that the user discards nothing, that no halt is cleared and that
ACKs for other devices are not seen: each of these breaks the promise of the first three theorems
(section 6). Their invariant has four parts. `InStep` places manager, generator and host at the same
point of a transaction: how much of the packet in the buffer is on the wire, and where the PID comes
from. `Resting` says that `WAIT_FOR_DATA` has nothing unacknowledged. `Accounted` is the core: with
`Taken` (the PID of the buffer is not the one the host expects, so it has the packet), the bytes with
the host, those of the sent buffer and those of the filling buffer are the accepted ones, in order and
without a gap. Neither the toggle nor the buffers alone are inductive: an ACK frees a buffer, and that
is right only since an ACK implies `Taken`. The refinement needs `EndsMarked` and `CutsMarked` too: a
buffer that is short or flagged ends where the user ended a transfer, and the host's last packet is the
one in the buffer, so that an empty packet is due just when the pipe says so.

`FaultsKeepOrder` has no such assumption: discards, foreign ACKs and cleared halts may come in any clock.
`FaultInStep` splits a transmission into three cases: a packet under way, one whose bytes are out (and
that may have been discarded since), and `Endless`, the discarded packet that never ends (transfer.py:209).
`NoRepeats` keeps what host, wire and buffers hold rising, as long as no halt was cleared; `NoGaps` keeps
the buffers the last bytes accepted, as long as nothing was dropped, with `Heard` in the place of
`Taken` because a PID after a cleared halt may be DATA2 or MDATA. `start_with_data1` is 0 as in every
endpoint of the repository; the host expects DATA0 after a cleared halt.

**The OUT path.** `Control` (types, the order of the detector's strobes, the stage each part is in, the time
of the answer) is inductive for every delay; `FifoUsedProperly` follows. The rest needs `Prompt`, the delays 1
and 2. This bound is exact for the code: at three clocks or more the overflow is forgotten before the
handshake is chosen (section 6). `Position` follows a byte from the bus over the receiver's two registers and the
detector's one, `Flow` relates the uncommitted entries to them, `RoomKept` says what a PING's ACK has promised, `InOrder`
that FIFO and consumer hold the bytes up to those that were ACKed, none skipped, and none twice unless a halt was cleared.

**The control plane.** None of the promises is inductive: that a handler has the host's request depends on how it
left the one before, and that on which packets came through. `IInv` divides a request into `WhenIdle`, `InSetup` (the
SETUP packet may have come through although its ACK has not) and `InRequest`, and that by the host's stage:
`InDataIn`, `InDataOut`, `InStatusIn`, `InStatusOut` say which stages the device may be in and what is on the wire.
`Over` is the one way in which they may differ: the handler is through and the host may not know; `OverChangesNothing`
says that it then changed no register, which makes `GiveUp` harmless. `ReadSoFar` is the core of a read: the host has a
beginning of the descriptor made of whole packets, and the handler is to send the next one (`Sending`) or the last one again
under its old PID (`Repeating`). `Answering` describes a transaction while the device works on its answer: the packet is being
looked up (`LookedUp`), streamed from the ROM (`Streamed`), from the generator while the ROM's search fails (`Generating`), or is
out (`Finished`), and `Carries` compares what the host has of it with the descriptor, byte by byte. `Matching` says what
`any_match` and the stall latches may remember of earlier requests.
The proof goes clock by clock: `Parts` gives what each part of the device does, `StillDevice` and `AckDevice` sum up the
clocks in which nothing is due and those with an ACK, and each action of host and bus has its lemma (`BeginKeeps` to
`HostReceivesKeeps`). The refinement needs few more facts: a register changes with an ACK alone (`RegistersRest`), and
the ends of a request are those of `ControlRequests` (`OverEnds`, `AckPerforms`). Before the proof TLC checked `IInv` on the
instance of the run and on larger ones: packets of four bytes, descriptors that end with and within a packet or are
empty, and more requests.

**The periodic endpoints.** `InStep` gives the transmitter to one of the two IN endpoints at a time,
`StatusAgrees` compares the toggles of the status endpoint and the host, `FrameInStep` lets packets,
PIDs and bytes left count down together. Frames of up to three packets need no induction.
`WholePacketsAreKept` is about the third endpoint, and the longest of these proofs. `OutInv` says in ten parts how a
packet gets from the bus to the consumer: `Stages`, `Strobes` and `OnTheBus` place receiver and detector in the host's packet, so that
the verdict is on the packet whose bytes are pending (`Judged`); `Position` says that what is pending, held in the
detector and held in the receiver is what the host has sent of it; `Marked` and `Chained`
that `first` and `last` lie where packets begin and end; `Written` that a packet which found the FIFO
roomy loses no byte, although the consumer may take entries in any clock; and `Delivered` that the consumer has a
beginning of the entries that were kept. A strobe comes a clock before the byte it is about is committed, so none of
these parts is inductive without the others.

**The ULPI translator.** `Orderly` says that modes change only between writes and that outputs are not registered;
without either the property fails (section 6). `Turns` keeps writes and transmissions off each other, `PhyInStep`
and `Shown` have the window and the transceiver at the same point of a write, `Shadow` allows the one register
that is being written to differ. `Sending` and `Receiving` do the same for packets of any length.

**The reset sequencer.** `HostAssumption` asks of the intervals what the proof needs, each as an inequality: settings reach
the transceiver well within 200 us and 2 ms, a chirp of the host is longer than the 2.5 us it is looked at and six of them
fit into 2.5 ms, twice the time between packets is less than 3 ms, and the host resets longer than all the device's waits together, its
timer's going round once included. The code's own numbers (60 MHz: 150, 300, 12000, 120000, 150000, 180000 clocks and an
18-bit timer) satisfy it with packets every 125 us or 1 ms, chirps of 40 to 60 us and a reset of 10 ms, and so do the run's.
The promises compare a device that measures times with a host that means something by them, and so the invariant
bounds the host's `time` by the device's two timers in every pair of phase and state. `Timers` says that no wait is for a time that has
passed, or else a timer goes round first; `Preparing` that the transceiver is in the mode for a chirp when the device begins one, however
long it takes; `InReset` how old a reset can be while the device still has its address, and before it chirps, hears nothing and falls back;
`InChirps` that host and device are at the same one of the eight chirps, the device a clock late; `SlowRun`, `SlowSuspend` and `Resuming` that
packets keep a slow device's timers down and silence lets them grow; `AtHighSpeed` the same at high speed, where a reset and a suspend begin alike;
`WhenPowered` that a device that was unplugged or misled by an empty bus, and may be anywhere in a handshake with nobody,
has come to rest before the host's first reset. `InUse` gives the four theorems. The proof translates a clock into moves
that say what each field becomes (`SequencerSteps`, `Steps`), so that what is left (`ModesKept` to `ResumingKept`) is arithmetic over a finite
case split. TLC checked the twelve parts beforehand, with the run's constants and with two sets that make the
inequalities tight.

**The packet layer.** Here the data counts: bytes are words of bits, and the proof computes with them. `TokenIsBytes`,
`DataIsBytes` and `DamageCases` say what each byte of a packet, whole or damaged, is. What the checksum of a payload is
comes from three assumptions: `TokenCrcAgrees` (the equations of the code are CRC5, for all tokens), `WrongBitShows` (one
wrong bit changes it) and `DataCrcAgrees` (over the bytes of a packet the code's CRC16 register is where the polynomial has
it, byte by byte). They are facts of the polynomials and limit nothing; the first two have no parameters and TLC has them checked
completely, the third one it checks for the packets of the run. For payloads of every length it is an induction over a fold, which is out of the prover's reach.
`TimedInv` is the part that needs no checksum: which reader waits for which timer, when the one
endpoint that was asked may begin, and how many clocks it has taken for it (`lag`), which is how late the answer is beyond
the timer's own delay (`AnswersInTime`). Nothing is assumed about the endpoint's delay but the bound. `AnswerIntact` adds where the transmitter is in its packet
and that the shared register has the checksum of the bytes that are out; that it starts from nothing, although the receiver has
used it since, is what `crc_clear` is for. `Tracked` places all three readers in the packet on the bus
at once (`TokenReader`, `HandshakeReader`, `DataReader`: state, bytes collected, checksums of all but the last one and
two), so that at its end exactly the reader of its kind reports, and a packet that is too short, too
long or wrong is dropped by all of them; `ReportedAsSent` follows in the clock after. `ForeignSeen` follows the PID that a
foreign token leaves behind until its data packet is over. `FrameInv` is arithmetic of numbers that come round: the device's frame number is behind the
host's by no more than the frame packets that were damaged, which `PacketAssumption` bounds below a whole round, and
`OnlyWholeFrames` shows that nothing but a whole frame packet is read as one. TLC checked the parts
of `TimedInv`, `AnswerIntact` and `FrameInv` on the instance of the run beforehand.

**What failed proofs found.** The proof of `PacketsIntact` would not go through with the excuse the model made for
a command that comes in a register write: with three such interruptions it did not cover all of them, and TLC
then found the counterexample; `deaf` in `UTMITranslator` is the corrected one. In `BulkIn` the clock that both answers
and discards left the bus waiting for ever for an answer that the generator never began; the endpoint is silent then.

**Only model-checked.** All liveness (`TransfersComplete`, `RegistersFollow` and the like): TLAPS has no rules for
`ENABLED`, and so none for fairness. The gateware PHY (`ReceivedIntact`, `SentIntact`): its bits are compared with
`Encode`, a fold over those of the packet, and what that is for every packet would need induction over data, which the installed provers cannot instantiate.

## 6. Where code and documentation differ

The run `phy_stuffed_bit` ends in a counterexample: receiver.py:551. The state `D6` of the bit-stuffing remover,
in which a bit is dropped, is left after one clock of `usb_io`, whereas the bit comes four
clocks later; the comment at line 439 says that the stuffed bit is removed. It goes on as data,
every later bit of the packet is shifted, and stuffing errors are never seen.

The others were met while modelling. Where a constant is named, the model shows the behaviour with that
value; the passing runs set the other one.

*IN endpoints*

* transfer.py:341: `WAIT_FOR_ACK` takes every ACK on the bus for its
  own, and no token for another device ends the wait. If the packet was lost, it is
  freed and never repeated (`SharedBus`).
* transfer.py:120: `~start_with_data1` is assigned to a two-bit PID and
  sets its upper bit too: after `CLEAR_FEATURE(ENDPOINT_HALT)` packets are DATA2 and
  MDATA (`MaxHalts`).
* transfer.py:209: a discard while a packet is sent empties the
  buffer that the end of the packet is found by; the packet goes on for ever (`Discards`).
  A discard in the clock of the answer itself leaves the IN token without one.
* With `discard` high a byte that is accepted in the same clock stays counted by the
  user but not by the manager (transfer.py:214; line 50 speaks of data not buffered).

*OUT endpoints and the FIFO*

* stream.py:417: the overflow of a packet is forgotten when the
  packet is settled, two clocks after its end, while at full speed in a 60 MHz domain
  the handshake is chosen after ten: a packet that was thrown away is ACKed (`Delays` = {10}).
* The memory port shows the abandoned position for a clock after a `read_discard`
  (memory/\_\_init\_\_.py:206), while line 27 calls `read_data` valid whenever `empty`
  is low. `ReadDataIsNext` exempts that clock.
* A damaged packet that is discarded has already updated `transfer_active`
  (stream.py:406): the next byte may lack `first`, or a byte within a transfer may
  carry it, whereas line 390 has it follow `last`.
* A transfer of full packets that ends with an empty one gets no `last`.

*Control*

* standard.py:142: only `IDLE` looks at a new SETUP packet, and
  `CLEAR_FEATURE` leaves its state for a host's ACK alone, which does not come after
  the STALL it sends for a feature it does not have. A lost ACK in
  the status stage leaves the handler of `SET_ADDRESS` or `SET_CONFIGURATION` behind
  in the same way (`StatusAckLost`). It then answers the next request as if it were the old one.
* control.py:42: the register writes wait for "the" ACK, which
  is any ACK: with an IN transaction of another endpoint between SETUP and status
  stage, the address changes before the status stage, which then does not reach the
  device (`OtherAcks`).
* `GET_STATUS` is never answered: `Signal(max=max_length_width)` (generator.py:424)
  makes a one-bit `max_length`, and the length 2 is 0 in it. `StreamSerializer` models
  the width.
* descriptor.py:588: while a runtime descriptor is read, the ROM handler stalls and the multiplexer
  latches it until the next start, the one of the next descriptor read. The distributed handler stalls a fixed one at once,
  in that very clock, and the two make a STALL for a descriptor that exists (line 564: "Stall when all handlers
  stall"); the ROM handler streams into the void (`MixedReads`).
* `any_match` (descriptor.py:216) is ORed with itself combinationally: only the last comparison can set
  it and nothing clears it. With several generated descriptors all but the last are stalled until
  the last has been asked for; after that no missing one is.
* A generator's `start_position` has just the bits for its length (descriptor.py:36): a generated descriptor that
  is a multiple of the packet and shorter than wLength restarts from its first byte instead of ending
  with an empty packet. The run's is no multiple.
* A `GET_DESCRIPTOR` with wLength 0 has an IN status stage, in which the handler issues
  an ACK handshake instead of an empty packet.
* An unsupported request with an OUT data stage is stalled in neither data packets
  nor PINGs (request.py:514), and an unsupported standard one leaves the handler in
  `UNHANDLED`.
* A bad CRC leaves the deserializer in `CAPTURE_DATA` (packet.py:1053); it takes the
  next packets, an intact SETUP included, for the rest of the damaged one. The receiver restarts the checksum
  they share at every PID, so that a good data packet of few bytes ends the damaged one as if it were whole; the decoder
  looks at that behind a SETUP token only, and the SETUP packet over-fills the buffer.
* In `READ_DATA` a second SETUP token counts as a wrong packet (request.py:241), so
  the SETUP packet behind it is dropped as well.
* A bus reset clears address and configuration (device.py:374), but neither the stage
  FSM, nor the handler, nor any endpoint's toggle; nor does `SET_CONFIGURATION`.

*Packet layer*

* A damaged OUT token for another device leaves the PID of the token before it, and the device
  takes the other one's DATA packet (the comment at packet.py:420 has that prevented).
  `OthersDataIgnored` holds for tokens that arrive.
* The first SOF after power-up, if it has frame number 0, begins microframe 1 and gives no
  `new_frame` at full speed (device.py:73 says the microframe is always 0 there).
* descriptor.py:447: `GET_DESCRIPTOR` begins to look its descriptor up when the timer lets it answer, and takes three
  clocks. At full speed on a 12 MHz clock its packet starts 8 clocks after the request's end; packet.py:1341 has a device
  "respond before 6.5 bit times pass", the 7 clocks of `RxToTx`. `AnswersInTime` exempts an endpoint that takes more than `Spare`.
* `USBHandshakeGenerator` has no input for NYET, and drops a request that comes in `TRANSMIT`;
  `rx_timeout` and `tx_timeout` of the timer are used by nobody, so no part gives up waiting
  for a host.

*Periodic endpoints*

* The address of the memory-backed isochronous IN endpoint restarts at 0 in each packet of a
  frame, where its doc gives it the range of the whole frame: the second and third packets repeat the first.
* After a lost SOF it answers with an empty packet under MDATA (`next_data_pid` wraps from
  0 to 3) or with what is left of the old frame.
* `frame_finished` (isochronous_stream_in.py:38) is high as long as the last byte waits, also before it is sent; the
  stream-backed version fills an underflow with zeros.
* The isochronous OUT endpoint looks for space byte by byte, so that a packet can be committed with
  a hole or without its end and its `last`, contrary to the comment at its lines 131 and 132.
  `WholePacketsKept` says how much room keeps a packet from that, and lets one that finds less lose bytes.
* The status endpoint has no reset of its toggle, and takes any ACK on the bus (status.py:160): after a status that the host
  missed, an ACK for another device makes it strobe `status_read_complete`, "each time a status read is complete"
  (status.py:33), and flip the PID, and the host then drops the next status as a repetition. Tokens for other devices do
  not warn it, as the token detector hides them. `PeriodicTransfers` has these ACKs (`ForeignAck`).

*Reset sequencer*

* With `connect` low on a powered bus the sequencer takes the missing pull-up's SE0 for a
  reset after 5 us and drives a chirp, though reset.py:70 has the device keep off the bus.
* `disconnect` is not looked at in the states of the handshake, nor when suspended; a short loss of
  VBUS in the handshake goes unnoticed.

*ULPI*

* RXCMDs in a register *write* are dropped although the comment at ulpi.py:291 excludes
  reads only; what they said is lost until the next one.
* With registered outputs (`RegisterOutputs`) a `nxt` on consecutive clocks is answered a clock late; the comment
  at ulpi.py:865 has this absorbed transparently.
* With `Calm` false: a control signal that changes between `tx_valid` and the first `nxt`, or a
  second register pending when a transmission starts, makes both translators drive the bus or wait
  for each other. A signal that changes again while it is written goes to the transceiver as a
  value that the shadow does not have.
* A packet that is begun by `dir` and `nxt` together and ended by an RXCMD, without one before, leaves `rx_active` up until
  `dir` falls; an RxActive that is still set when `dir` falls hides the beginning of the
  next packet that is begun by an RXCMD (ulpi.py:314, 334, 897; `BeginningShows` keeps it out of `utmi`).

*Gateware PHY*

* The bit of the SE0 is shifted into the shifter after it has been reset (receiver.py:703): every
  packet after the first is one bit off. `phy` has one packet of the host therefore.
* `o_will_stall` does not look at the bit that goes out: a packet that ends in five ones and a zero, like
  0x7C, gets a bit too many, where transmitter.py:267 has a 0 stuffed after six ones.
* The bit stuffer of the transmitter does not count the one that ends the sync byte, the receiver's does.
* phy.py's `line_state` is `Cat(d_n, d_p)`, which exchanges J and K for the reset sequencer;
  `OP_MODE_NONDRIVING` and `OP_MODE_NO_ENCODING` are exchanged against `UTMIOperatingMode`; the pulldown
  drives the pullup's pin (phy.py:159).

## 7. Not modelled, and the plan

* **Multi-byte IN endpoint**: cannot be modelled as it stands. Its FSM assigns the shift register, the latches and the byte
  counter combinationally (stream.py:206 on, `eq` for `NextValue`), partly from themselves: gates in a
  loop, without a next state.
* **`ConstantStreamGenerator`**: used nowhere in the repository. Its FSM is `StreamSerializer`'s before a
  synchronous ROM that it gives the address of the present byte (generator.py:293), so at full rate every byte comes a clock late.
* **Bus reset inside `ControlTransfers`**, and a composition of packet layer, endpoints and reset in one
  device. Each needs its state space cut by half first: the packet layer is checked against the
  meaning of packets, the endpoints against packets, and this interface (one report a packet, in the
  clock after its end) is `ReportedAsSent`.
* **Register reads** of the ULPI window: nothing in the repository requests one.
* **Proofs**: every invariant of a run but the two of the gateware PHY is a theorem.

Left out for good: signal records and
wire multiplexers, vendor I/O and clock-domain wrappers, descriptors' contents, tests
and examples; `usb/device.py`, a near copy of `usb2/device.py`.
