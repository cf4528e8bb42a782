---------------------------- MODULE ControlTransfers ----------------------------
(***************************************************************************)
(* A USBControlEndpoint with a StandardRequestHandler and an               *)
(* ACMRequestHandler, in a USBDevice, and a host that makes control        *)
(* requests over a bus that loses packets.  One step is one usb clock.     *)
(* The endpoint's parts are modules of their own; here they are wired to   *)
(* each other, to the request multiplexer and its fallback                 *)
(* (StallOnlyRequestHandler), to the data packet generator and to the      *)
(* address and configuration registers of the device.                      *)
(*                                                                         *)
(* The host follows USB 2.0, 8.5.3: SETUP, data and status stage, each     *)
(* transaction repeated when part of it was lost.  A transaction that came *)
(* through whole and got no answer makes it give the request up.           *)
(***************************************************************************)
EXTENDS Integers, Sequences

CONSTANTS
  descriptors,
  generated,
  max_packet_size,
  element_size,
  Requests,      \* the requests the host makes
  MaxRequests,   \* bound: how many
  StatusAckLost, \* whether the host's ACK of a status stage can get lost
  MixedReads,    \* whether it reads another descriptor after a generated one
  OtherAcks      \* whether the host ACKs packets of other endpoints in between

ASSUME SizeAssumption == max_packet_size \in Nat \ {0} /\ element_size \in Nat \ {0}
ASSUME BoundAssumption == MaxRequests \in Nat

VARIABLES
  \* SetupDecoder
  position, new_packet, captured, decoder, packet, received,
  \* USBControlEndpoint
  control,
  \* StandardRequestHandler
  handler, start_position, tx_data_pid, expecting_ack,
  \* GetDescriptorHandlerMux and the two handlers behind it
  lookup, length, position_in_stream, bytes_sent, chosen, fetched,
  generators, any_match, stall_latch,
  \* StreamSerializer
  serializer, at, serialized,
  \* USBDataPacketGenerator
  tx_state, packet_pid, is_zlp,
  \* USBDevice and its token detector
  address, configuration, token,
  \* the endpoints' CLEAR_FEATURE(ENDPOINT_HALT) strobes, counted
  halts_cleared,
  \* the host and the bus
  wire, stage, asked, got, incoming, host_toggle, host_address, missed, unsettled, log

decoderVars    == <<position, new_packet, captured, decoder, packet, received>>
handlerVars    == <<handler, start_position, tx_data_pid, expecting_ack>>
descriptorVars == <<lookup, length, position_in_stream, bytes_sent, chosen, fetched,
                    generators, any_match, stall_latch>>
serializerVars == <<serializer, at, serialized>>
generatorVars  == <<tx_state, packet_pid, is_zlp>>
deviceVars     == <<decoderVars, control, handlerVars, descriptorVars, serializerVars,
                    generatorVars, address, configuration, token, halts_cleared>>
requestVars    == <<asked, host_address, log>>
dataVars       == <<got, incoming, host_toggle>>
excuseVars     == <<missed, unsettled>>
hostVars       == <<wire, stage, requestVars, dataVars, excuseVars>>
vars           == <<deviceVars, hostVars>>

NoRequest == [type |-> "NONE", recipient |-> "NONE", request |-> "NONE", value |-> <<0, 0>>,
              length |-> 0, is_in_request |-> FALSE]
NoToken   == [pid |-> "NONE", endpoint |-> 0]

R == INSTANCE SetupDecoder
C == INSTANCE ControlEndpoint
H == INSTANCE StandardRequestHandler
D == INSTANCE DescriptorHandlerMux WITH max_packet_length <- max_packet_size
S == INSTANCE StreamSerializer WITH data_length <- 2, length_values <- 2, bytes_sent <- serialized
G == INSTANCE DataPacketGenerator
P == INSTANCE ControlRequests

---------------------------------------------------------------------------
(* The device *)

\* What the bus brings in a clock: a packet for the deserializer and the strobes
\* of the detectors, the receiver and the transceiver.
Nothing == [rx |-> R!NoPacket, new_token |-> FALSE, ready_for_response |-> FALSE,
            rx_ready_for_response |-> FALSE, ack |-> FALSE, tx_allowed |-> FALSE,
            tx_ready |-> FALSE]

\* The request multiplexer: a handler has the word when it claims the request, the
\* fallback when none does.
claim        == packet.type = "STANDARD"
acm_claim(h) == h.setup.type = "CLASS" /\ h.setup.request = "SET_LINE_CODING"
any_claim(h) == claim \/ acm_claim(h)

\* ACMRequestHandler accepts SET_LINE_CODING, whatever it says, and has no state.
acm_ack(h)      == acm_claim(h) /\ h.rx_ready_for_response
acm_send_zlp(h) == acm_claim(h) /\ h.status_requested

\* What the control endpoint and the handlers see, for the token the detector
\* shows in this clock.
ControlInputs(b, t) ==
  [setup |-> packet, received |-> received, pid |-> t.pid, targeted |-> t.endpoint = 0,
   new_token |-> b.new_token, ready_for_response |-> b.ready_for_response,
   rx_ready_for_response |-> b.rx_ready_for_response]
\* What the standard handler asks of the descriptor handlers.
describing  == handler = "GET_DESCRIPTOR"
DescriptorInputs(b, t) ==
  [value |-> packet.value, length |-> packet.length, start_position |-> start_position,
   start |-> H!descriptor_start([data_requested |-> C!data_requested(ControlInputs(b, t))])]
HandlerInputs(b, t) ==
  [setup |-> packet, received |-> received, ack |-> b.ack,
   data_requested |-> C!data_requested(ControlInputs(b, t)),
   status_requested |-> C!status_requested(ControlInputs(b, t)),
   rx_ready_for_response |-> C!handler_rx_ready(ControlInputs(b, t)),
   descriptor |-> DescriptorInputs(b, t), descriptor_stall |-> D!stall(DescriptorInputs(b, t))]

\* The handshakes the endpoint asks for.
device_stall(h) ==
  (claim /\ H!stall(h)) \/ (~any_claim(h) /\ (h.data_requested \/ h.status_requested))
device_ack(b, t, h) ==
  R!ack(b.tx_allowed) \/ C!ping_ack(ControlInputs(b, t)) \/ (claim /\ H!ack(h)) \/ acm_ack(h)

\* Its transmit stream, driven by the state the handler is in.
serializing == handler \in H!simple_data
send_zlp(h) == (claim /\ H!send_zlp(h)) \/ acm_send_zlp(h)
out_valid(h) ==
  send_zlp(h) \/ (claim /\ ((serializing /\ S!out_valid) \/ (describing /\ D!out_valid(h.descriptor))))
out_first(h) ==
  claim /\ ((serializing /\ S!out_first) \/ (describing /\ D!out_first(h.descriptor)))
out_last(h) ==
  \/ send_zlp(h)
  \/ claim /\ serializing /\ S!out_last(S!Narrowed(H!serializer_length))
  \/ claim /\ describing /\ D!out_last(h.descriptor)
out_payload(h) ==
  IF describing THEN D!out_payload(h.descriptor)
  ELSE IF handler = "GET_CONFIGURATION" THEN configuration ELSE 0

\* (A quantifier over one value has TLC evaluate it once.)
DeviceClock(b, t) ==
  \E c \in {ControlInputs(b, t)}, h \in {HandlerInputs(b, t)}, ready \in {G!stream_ready(b.tx_ready)} :
     /\ R!Clock(b.rx, t.pid = "SETUP", b.new_token, b.tx_allowed)
     /\ C!Clock(c)
     /\ H!Clock(h)
     /\ D!Clock(h.descriptor, describing /\ ready)
     /\ S!Clock(H!serializer_start(h), S!Narrowed(H!serializer_length), serializing /\ ready)
     /\ G!Clock(IF claim THEN tx_data_pid ELSE 1, out_first(h), out_last(h), out_valid(h), b.tx_ready)
     /\ address' = IF claim /\ H!address_changed(h) THEN H!new_address(h) ELSE address
     /\ configuration' = IF claim /\ H!config_changed(h) THEN H!new_config(h) ELSE configuration
     /\ halts_cleared' = IF claim /\ H!clear_endpoint_halt(h) THEN halts_cleared + 1
                         ELSE halts_cleared
     /\ token' = t

\* Nothing in the device is going to answer any more.
DeviceIdle ==
  /\ ~new_packet /\ ~received /\ decoder # "INTERPACKET_DELAY"
  /\ D!Idle /\ serializer # "STREAMING" /\ tx_state = "IDLE"

---------------------------------------------------------------------------
(* The host and the bus.  `wire` says how far the transaction is:          *)
(*   quiet -> setup | out -> [sent ->] waiting     token, then data        *)
(*   quiet -> asked -> waiting                     token, then an answer   *)
(*   waiting -> device_ack | device_stall | ack -> quiet                   *)

IsGenerated(r) == r.request = "GET_DESCRIPTOR" /\ P!Generated(r.value) # {}

\* A clock in which nothing arrives.
QuietClock == DeviceClock(Nothing, token)
Arrives(b) == DeviceClock(b, token)

\* The host goes on once the device's handshake is decided.
AfterClock(b, h) ==
  IF device_stall(h) THEN "device_stall"
  ELSE IF device_ack(b, token, h) THEN "device_ack" ELSE "waiting"
Decided(b) == \E h \in {HandlerInputs(b, token)} : wire' = AfterClock(b, h)

Begin(r) ==
  /\ stage = "idle" /\ wire = "quiet" /\ Len(log) < MaxRequests
  /\ \/ MixedReads \/ r.request # "GET_DESCRIPTOR" \/ IsGenerated(r)
     \/ ~\E k \in DOMAIN log : IsGenerated(log[k].request)
  /\ stage' = "setup" /\ asked' = r
  /\ QuietClock
  /\ UNCHANGED <<wire, host_address, log, dataVars, excuseVars>>

\* The request is over, with the answer the host has.
Complete(result) ==
  /\ log' = Append(log, [request |-> asked, result |-> result])
  /\ host_address' = IF asked.request = "SET_ADDRESS" /\ result.status = "done"
                     THEN asked.value[2] % 128 ELSE host_address
  /\ stage' = "idle" /\ wire' = "quiet" /\ asked' = NoRequest
  /\ got' = << >> /\ incoming' = << >> /\ host_toggle' = 1
  /\ missed' = FALSE /\ unsettled' = FALSE

\* A token for this endpoint.  A device that has another address forgets the PID.
Token(pid, next) ==
  /\ wire = "quiet" /\ wire' = next
  /\ missed' = (host_address # address)
  /\ IF missed' THEN DeviceClock([Nothing EXCEPT !.rx = R!TokenPacket], NoToken)
     ELSE DeviceClock([Nothing EXCEPT !.rx = R!TokenPacket, !.new_token = TRUE],
                      [pid |-> pid, endpoint |-> 0])
  /\ UNCHANGED <<stage, requestVars, dataVars, unsettled>>

AskSetup == stage = "setup" /\ Token("SETUP", "setup")
AskIn    == stage \in {"data_in", "status_in"} /\ Token("IN", "asked")
AskOut   == stage \in {"data_out", "status_out"} /\ Token("OUT", "out")
Ping     == stage \in {"data_out", "status_out"} /\ Token("PING", "asked")

\* It gets lost.  The host sends its data all the same; a lost IN or PING is a
\* quiet clock.
TokenLost ==
  /\ wire = "quiet" /\ stage \in {"setup", "data_out", "status_out"}
  /\ wire' = IF stage = "setup" THEN "setup" ELSE "out"
  /\ missed' = TRUE
  /\ QuietClock
  /\ UNCHANGED <<stage, requestVars, dataVars, unsettled>>

\* The packet the host sends after its token.
HostPacket ==
  IF stage = "setup" THEN [data |-> TRUE, bytes |-> R!max_size_with_crc, good |-> TRUE, content |-> asked]
  ELSE [data |-> TRUE, bytes |-> 2 + (IF stage = "data_out" THEN asked.length ELSE 0),
        good |-> TRUE, content |-> NoRequest]

DataArrives ==
  /\ wire \in {"setup", "out"}
  /\ wire' = IF wire = "setup" THEN "waiting" ELSE "sent"
  /\ Arrives([Nothing EXCEPT !.rx = HostPacket])
  /\ UNCHANGED <<stage, requestVars, dataVars, excuseVars>>

\* It does not come through, or not whole.
DataLost(damaged) ==
  /\ wire \in {"setup", "out"}
  /\ wire' = "waiting" /\ missed' = TRUE
  /\ Arrives([Nothing EXCEPT !.rx = IF damaged THEN [HostPacket EXCEPT !.good = FALSE]
                                    ELSE R!NoPacket])
  /\ UNCHANGED <<stage, requestVars, dataVars, unsettled>>

\* The delay before an answer is over: to a token, ...
Respond ==
  /\ wire = "asked"
  /\ LET b == [Nothing EXCEPT !.ready_for_response = TRUE] IN Arrives(b) /\ Decided(b)
  /\ UNCHANGED <<stage, requestVars, dataVars, excuseVars>>

\* ... and to a packet.
RespondToData ==
  /\ wire = "sent"
  /\ LET b == [Nothing EXCEPT !.rx_ready_for_response = TRUE] IN Arrives(b) /\ Decided(b)
  /\ UNCHANGED <<stage, requestVars, dataVars, excuseVars>>

\* The device works on its answer or sends it, a byte whenever the transceiver is
\* ready for one; the setup decoder waits for its timer.
Work(tx_ready, tx_allowed) ==
  /\ wire = "waiting" /\ ~DeviceIdle
  /\ ~(tx_ready /\ tx_state = "SEND_CRC_SECOND")
  /\ tx_allowed => decoder # "IDLE"
  /\ LET b == [Nothing EXCEPT !.tx_ready = tx_ready, !.tx_allowed = tx_allowed] IN
     \E h \in {HandlerInputs(b, token)} :
        /\ Arrives(b) /\ wire' = AfterClock(b, h)
        /\ incoming' = IF G!stream_ready(tx_ready) /\ out_valid(h) /\ Len(incoming) <= max_packet_size
                       THEN Append(incoming, out_payload(h)) ELSE incoming
  /\ UNCHANGED <<stage, requestVars, got, host_toggle, excuseVars>>

EndOfPacket == wire = "waiting" /\ tx_state = "SEND_CRC_SECOND" /\ Arrives([Nothing EXCEPT !.tx_ready = TRUE])

\* The host has received a packet it can take, and sends an ACK.
HostReceives ==
  /\ EndOfPacket
  /\ Len(incoming) <= max_packet_size /\ packet_pid \in {0, 1}
  /\ stage = "data_in" \/ (stage = "status_in" /\ incoming = << >> /\ packet_pid = 1)
  /\ wire' = "ack" /\ incoming' = << >>
  /\ IF stage = "data_in" /\ packet_pid = host_toggle
     THEN /\ got' = got \o incoming /\ host_toggle' = 1 - host_toggle
          /\ stage' = IF Len(got') >= asked.length \/ Len(incoming) < max_packet_size
                      THEN "status_out" ELSE stage
     ELSE UNCHANGED <<stage, got, host_toggle>>
  /\ UNCHANGED <<requestVars, excuseVars>>

HostMisses ==
  /\ EndOfPacket
  /\ wire' = "quiet" /\ incoming' = << >>
  /\ UNCHANGED <<stage, requestVars, got, host_toggle, excuseVars>>

AckArrives ==
  /\ wire = "ack"
  /\ Arrives([Nothing EXCEPT !.ack = TRUE])
  /\ IF stage = "status_in" THEN Complete(P!Done(<< >>))
     ELSE wire' = "quiet" /\ UNCHANGED <<stage, requestVars, dataVars, excuseVars>>

AckLost ==
  /\ wire = "ack" /\ (stage = "status_in" => StatusAckLost)
  /\ QuietClock
  /\ IF stage = "status_in" THEN Complete(P!Done(<< >>))
     ELSE wire' = "quiet" /\ UNCHANGED <<stage, requestVars, dataVars, excuseVars>>

\* The device's ACK reaches the host.
HostSeesAck ==
  /\ wire = "device_ack" /\ QuietClock
  /\ \/ /\ token.pid = "PING" /\ wire' = "quiet"
        /\ UNCHANGED <<stage, requestVars, dataVars, excuseVars>>
     \/ /\ token.pid # "PING" /\ stage \in {"setup", "data_out"}
        /\ stage' = IF stage = "data_out" \/ asked.length = 0 THEN "status_in"
                    ELSE IF asked.is_in_request THEN "data_in" ELSE "data_out"
        /\ wire' = "quiet" /\ host_toggle' = 1
        /\ UNCHANGED <<requestVars, got, incoming, excuseVars>>
     \/ token.pid # "PING" /\ stage = "status_out" /\ Complete(P!Done(got))

HostSeesStall ==
  /\ wire = "device_stall" /\ QuietClock
  /\ Complete(P!Stalled)

\* A handshake that ends the request leaves the device with nothing to repeat.
HandshakeLost ==
  /\ wire \in {"device_ack", "device_stall"} /\ QuietClock
  /\ wire' = "quiet"
  /\ unsettled' = (unsettled \/ wire = "device_stall" \/ (stage = "status_out" /\ token.pid # "PING"))
  /\ UNCHANGED <<stage, requestVars, dataVars, missed>>

\* No answer: try again, or give up if the device has had its chance.
Timeout ==
  /\ wire = "waiting" /\ DeviceIdle /\ QuietClock
  /\ IF missed \/ stage = "setup"
     THEN wire' = "quiet" /\ UNCHANGED <<stage, requestVars, dataVars, excuseVars>>
     ELSE Complete(P!Unknown)

\* Between its transactions here, the host asks another endpoint of the device.
AskElsewhere ==
  /\ wire = "quiet" /\ host_address = address
  /\ DeviceClock([Nothing EXCEPT !.rx = R!TokenPacket, !.new_token = TRUE],
                 [pid |-> "IN", endpoint |-> 1])
  /\ wire' = "elsewhere"
  /\ UNCHANGED <<stage, requestVars, dataVars, excuseVars>>

AnsweredElsewhere(ack) ==
  /\ wire = "elsewhere" /\ (ack => OtherAcks)
  /\ Arrives([Nothing EXCEPT !.ack = ack])
  /\ wire' = "quiet"
  /\ UNCHANGED <<stage, requestVars, dataVars, excuseVars>>

---------------------------------------------------------------------------

Init ==
  /\ R!Init /\ C!Init /\ H!Init /\ D!Init /\ S!Init /\ G!Init
  /\ address = 0 /\ configuration = 0 /\ token = NoToken /\ halts_cleared = 0
  /\ wire = "quiet" /\ stage = "idle" /\ asked = NoRequest /\ got = << >> /\ incoming = << >>
  /\ host_toggle = 1 /\ host_address = 0 /\ missed = FALSE /\ unsettled = FALSE /\ log = << >>

Transaction ==
  \/ AskSetup \/ AskIn \/ AskOut \/ Ping \/ TokenLost
  \/ DataArrives \/ (\E damaged \in BOOLEAN : DataLost(damaged))
  \/ Respond \/ RespondToData
  \/ (\E tx_ready, tx_allowed \in BOOLEAN : Work(tx_ready, tx_allowed))
  \/ HostReceives \/ HostMisses \/ AckArrives \/ AckLost
  \/ HostSeesAck \/ HostSeesStall \/ HandshakeLost \/ Timeout

Next ==
  \/ (\E r \in Requests : Begin(r))
  \/ Transaction
  \/ AskElsewhere \/ (\E ack \in BOOLEAN : AnsweredElsewhere(ack))

\* The host goes on with its request, timers run out and the transceiver takes
\* bytes; and the bus does not lose everything.  The deserializer overlooks packets
\* behind a damaged one and the decoder every SETUP packet behind a lost one: the
\* losses must not come in step with that.
HostAsks      == AskSetup \/ AskIn \/ AskOut
DataTaken     == ~missed /\ (wire = "setup" => decoder = "READ_DATA" /\ position = -1) /\ DataArrives
ClockGoesOn   == \/ DataArrives \/ DataLost(FALSE)
                 \/ Respond \/ RespondToData \/ Work(TRUE, decoder # "IDLE") \/ Timeout
                 \/ AnsweredElsewhere(FALSE) \/ HandshakeLost
HandshakeSeen == token.pid # "PING" /\ (HostSeesAck \/ HostSeesStall)

Fairness ==
  /\ SF_vars(HostAsks) /\ SF_vars(DataTaken) /\ WF_vars(ClockGoesOn)
  /\ SF_vars(HostReceives) /\ SF_vars(AckArrives) /\ SF_vars(HandshakeSeen)

Spec == Init /\ [][Next]_vars
FairSpec == Spec /\ Fairness

---------------------------------------------------------------------------
(* What the promises below are about: devices and requests without the     *)
(* cases in which the code cannot go on.                                   *)

\* The descriptors in the ROM are as long as 11 bits can count.
RomFits ==
  /\ DOMAIN descriptors = 0 .. D!B!max_type_index
  /\ \A type \in DOMAIN descriptors : descriptors[type] \in Seq(Seq(Nat))
  /\ \E longest \in D!B!AllDescriptors :
       /\ 0 < Len(longest) /\ Len(longest) < H!start_positions
       /\ \A d \in D!B!AllDescriptors : Len(d) <= Len(longest)

\* So is the one made at run time.  It is the only one of its kind, as the stall logic looks
\* at the last one alone, and it is not empty.
GeneratedFits ==
  /\ generated \in Seq([value : Nat \X Nat, data : Seq(Nat)]) /\ Len(generated) = 1
  /\ 0 < Len(generated[1].data) /\ Len(generated[1].data) < H!start_positions
  /\ generated[1].value[1] > 0 /\ P!Fixed(generated[1].value) = {}

SetsLineCoding(r) == r.type = "CLASS" /\ r.request = "SET_LINE_CODING"

\* A host that reads past the end of the generated descriptor finds it within a packet.
EndShows(r) ==
  LET size == Len(generated[1].data) IN
  r.length <= size \/ \A k \in 0 .. size : size # k * max_packet_size

\* A request that goes through its stages.
Served(r) ==
  /\ r \in [type : STRING, recipient : STRING, request : STRING, value : Nat \X Nat,
            length : Nat, is_in_request : BOOLEAN]
  /\ r.length < 65536 /\ r.type # "NONE" /\ (r.request \in H!handled => r.type = "STANDARD")
  /\ r.request \in H!register_writes \cup {"CLEAR_FEATURE"} => r.length = 0
  /\ r.request = "CLEAR_FEATURE" => r.recipient = "ENDPOINT" /\ r.value = <<0, 0>>
  /\ r.request # "GET_STATUS"
  /\ r.request \in {"GET_CONFIGURATION", "GET_DESCRIPTOR"} => r.length > 0
  /\ r.length > 0 => (r.is_in_request <=> ~SetsLineCoding(r))
  /\ r.value = generated[1].value => r.request = "GET_DESCRIPTOR"
  /\ IsGenerated(r) => EndShows(r)

Supported ==
  /\ RomFits /\ GeneratedFits /\ \A r \in Requests : Served(r)
  /\ ~StatusAckLost /\ ~MixedReads /\ ~OtherAcks

---------------------------------------------------------------------------
(* Properties *)

TypeOK ==
  /\ R!TypeOK /\ C!TypeOK /\ H!TypeOK /\ D!TypeOK /\ S!TypeOK /\ G!TypeOK
  /\ wire \in {"quiet", "setup", "out", "sent", "asked", "waiting", "device_ack", "device_stall",
               "ack", "elsewhere"}
  /\ stage \in {"idle", "setup", "data_in", "data_out", "status_in", "status_out"}
  /\ asked \in Requests \cup {NoRequest} /\ host_toggle \in {0, 1}
  /\ missed \in BOOLEAN /\ unsettled \in BOOLEAN
  /\ Len(got) <= asked.length /\ Len(incoming) <= max_packet_size

\* The control endpoint, lost packets and repetitions included, implements requests
\* that happen in one step: exact answers, and no change of the device's address,
\* configuration or endpoints but by the request that asks for it.
ImplementsRequests == P!Spec

\* In the data and status stages a transaction that reaches the device whole is
\* answered, unless the handshake that ended the request for the device was lost.
AlwaysAnswered == wire = "waiting" /\ DeviceIdle /\ stage # "setup" => missed \/ unsettled

\* Once the host has the ACK to its SETUP packet, the three parts of the device
\* agree with it on the request: the decoder's fields, the stage of the control
\* endpoint and the state of the request handler ("If we've received a new setup
\* packet, handle it").
HandlerState(r) == IF r.request \in H!handled THEN r.request ELSE "UNHANDLED"
StageOf(s) == CASE s = "data_in" -> {"DATA_IN"} [] s = "data_out" -> {"DATA_OUT"}
                [] s = "status_in" -> {"STATUS_IN", "DATA_OUT"}
                [] s = "status_out" -> {"STATUS_OUT", "DATA_IN"}
HandlerHasRequest ==
  wire = "quiet" /\ stage \notin {"idle", "setup"} /\ ~unsettled =>
    /\ packet = asked
    /\ control \in StageOf(stage)
    /\ asked.type = "STANDARD" => handler = HandlerState(asked)

\* Host and device have the same idea of the device's address in every clock:
\* "Accept the relevant value after the packet is ACK'd".
AddressAgrees == address = host_address

\* Each request the host makes comes to an end.
RequestsComplete == stage # "idle" ~> stage = "idle"

---------------------------------------------------------------------------
(* A small instance: two descriptors in the ROM and one made at run time,  *)
(* read up to a point within the second packet and past ends that fall     *)
(* within a packet and between packets.                                    *)

MCDescriptors == [type \in 0 .. 2 |->
  CASE type = 0 -> << >> [] type = 1 -> << <<11, 12, 13, 14>> >> [] type = 2 -> << <<21, 22>> >>]
\* A string made at run time.
MCGenerated == << [value |-> <<2, 1>>, data |-> <<31, 32, 33>>] >>

ReqOf(recipient, request, value, wLength) ==
  [type |-> "STANDARD", recipient |-> recipient, request |-> request, value |-> value,
   length |-> wLength, is_in_request |-> wLength > 0]
Req(request, value, wLength) == ReqOf("DEVICE", request, value, wLength)

Writes == {Req("SET_ADDRESS", <<0, 5>>, 0), Req("SET_CONFIGURATION", <<0, 1>>, 0),
           ReqOf("ENDPOINT", "CLEAR_FEATURE", <<0, 0>>, 0)}
Reads  == {Req("GET_DESCRIPTOR", <<1, 0>>, 3), Req("GET_DESCRIPTOR", <<2, 0>>, 4), Req("GET_DESCRIPTOR", <<2, 1>>, 4),
           Req("GET_CONFIGURATION", <<0, 0>>, 1)}
Stalls == {Req("GET_DESCRIPTOR", <<3, 0>>, 2),
           Req("SYNCH_FRAME", <<0, 0>>, 2)}
\* Its byte of data behind a damaged copy and a token fills the deserializer's buffer.
LineCoding == [type |-> "CLASS", recipient |-> "INTERFACE", request |-> "SET_LINE_CODING",
               value |-> <<0, 0>>, length |-> 1, is_in_request |-> FALSE]

MCRequests == Writes \cup Reads \cup Stalls \cup {LineCoding}

\* The instance is one the promises are about; the theorems state the condition themselves.
ASSUME InstanceAssumption == Supported
=================================================================================
