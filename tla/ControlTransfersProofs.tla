------------------------- MODULE ControlTransfersProofs -------------------------
(***************************************************************************)
(* The control plane for every packet size, every set of descriptors and   *)
(* every number of requests: the parts of the device agree with the host   *)
(* on the request, each transaction that comes through is answered, and    *)
(* the whole implements requests that are one step.                        *)
(***************************************************************************)
EXTENDS ControlTransfers, SequenceTheorems, TLAPS

---------------------------------------------------------------------------
(* The inductive invariant *)

\* The generator of the descriptor made at run time.
gen == generators[1]
gen_value == generated[1].value
gen_data == generated[1].data

\* Nothing is being sent or looked up.
Calm == tx_state = "IDLE" /\ lookup = "IDLE" /\ serializer = "IDLE" /\ gen.state = "IDLE"

\* The descriptor the host has asked for, how much of it the host gets in all, and in a
\* packet that begins at `start`.
Wanted == P!Descriptor(asked.value)
Smaller(m, n) == IF m <= n THEN m ELSE n
Whole == Smaller(asked.length, Len(Wanted))
PacketLength(start) == Smaller(max_packet_size, Whole - start)

Reading == asked.request = "GET_DESCRIPTOR"
Expected == IF asked.type = "STANDARD" THEN HandlerState(asked) ELSE "IDLE"
FirstStage == IF asked.length = 0 THEN "STATUS_IN"
              ELSE IF asked.is_in_request THEN "DATA_IN" ELSE "DATA_OUT"

Heard(pid) == token.pid = pid /\ token.endpoint = 0

\* The handler is at the beginning of the request the host makes.
Fresh == start_position = 0 /\ tx_data_pid = 1
Taken == control = FirstStage /\ handler = Expected /\ (Reading => Fresh)

Tokens == [pid : {"NONE", "SETUP", "IN", "OUT", "PING"}, endpoint : {0, 1}]
DeviceTypes ==
  /\ position \in Int /\ position >= -1 /\ new_packet \in BOOLEAN /\ received \in BOOLEAN
  /\ decoder \in {"IDLE", "READ_DATA", "INTERPACKET_DELAY"}
  /\ control \in {"SETUP", "DATA_IN", "DATA_OUT", "STATUS_IN", "STATUS_OUT"}
  /\ handler \in H!handled \cup {"IDLE", "UNHANDLED"}
  /\ start_position \in Nat /\ tx_data_pid \in {0, 1} /\ expecting_ack \in BOOLEAN
  /\ lookup \in {"IDLE", "START", "LOOKUP_TYPE", "LOOKUP_DESCRIPTOR", "SEND_DESCRIPTOR", "SEND_ZLP"}
  /\ length \in Nat /\ position_in_stream \in Nat /\ bytes_sent \in Nat /\ fetched \in Nat
  /\ generators \in [{1} -> [state : {"IDLE", "STREAMING", "DONE"}, position_in_stream : Nat,
                             bytes_sent : Nat]]
  /\ any_match \in BOOLEAN /\ stall_latch \in {{}, {"block"}, {"distributed"}}
  /\ serializer \in {"IDLE", "STREAMING", "DONE"}
  /\ tx_state \in {"IDLE", "SEND_PID", "SEND_PAYLOAD", "SEND_CRC_FIRST", "SEND_CRC_SECOND"}
  /\ is_zlp \in BOOLEAN /\ configuration \in Nat /\ token \in Tokens
  /\ handler \notin {"IDLE", "GET_DESCRIPTOR"} => Fresh
HostTypes ==
  /\ packet \in Requests \cup {NoRequest} /\ asked \in Requests \cup {NoRequest}
  /\ got \in Seq(Nat) /\ incoming \in Seq(Nat)
  /\ host_toggle \in {0, 1} /\ missed \in BOOLEAN /\ unsettled \in BOOLEAN
  /\ log \in Seq([request : Requests, result : [status : {"done", "stall", "unknown"}, data : Seq(Nat)]])
Types == DeviceTypes /\ HostTypes

\* What the distributed handler's stall logic remembers: any_match is set from the first
\* request on that reads the generated descriptor.
GeneratedRead == \E k \in DOMAIN log : IsGenerated(log[k].request)
Matching ==
  /\ packet # NoRequest => packet = asked \/ \E k \in DOMAIN log : packet = log[k].request
  /\ any_match => GeneratedRead \/ IsGenerated(asked)
  /\ Reading /\ ~IsGenerated(asked) => ~GeneratedRead
  /\ ~any_match => "block" \notin stall_latch

\* Between requests.
WhenIdle ==
  /\ asked = NoRequest /\ wire \in {"quiet", "elsewhere"}
  /\ Calm /\ handler = "IDLE" /\ decoder = "IDLE" /\ ~received /\ ~new_packet
  /\ got = << >> /\ incoming = << >> /\ ~missed /\ ~unsettled

\* Until the host has the ACK to its SETUP packet, which may have come through all the same.
InSetup ==
  /\ asked \in Requests /\ wire \in {"quiet", "setup", "waiting", "device_ack", "elsewhere"}
  /\ Calm /\ got = << >> /\ incoming = << >> /\ ~unsettled
  /\ handler = "IDLE" \/ (handler = Expected /\ packet = asked /\ (Reading => Fresh))
  /\ new_packet => wire = "waiting" /\ captured = asked
  /\ decoder = "READ_DATA" => Heard("SETUP") /\ control = "SETUP" /\ ~received
  /\ received => control = "SETUP"
  /\ received \/ decoder = "INTERPACKET_DELAY" \/ wire = "device_ack" =>
       Heard("SETUP") /\ packet = asked /\ (received \/ Taken)
  /\ decoder = "INTERPACKET_DELAY" => wire = "waiting"
  /\ wire = "device_ack" => decoder = "IDLE"
  /\ received /\ decoder # "INTERPACKET_DELAY" => wire = "device_ack"

\* The request is over for the handler: it has stalled it, or has acknowledged its status
\* stage and the host may not know.
Over ==
  \/ unsettled \/ wire = "device_stall"
  \/ wire = "device_ack" /\ stage = "status_out" /\ token.pid # "PING"

\* The host has a beginning of the descriptor, of whole packets, and the device is to send the
\* next of them, or the last one again because it has not seen the ACK.
Upto(s, n) == \A k \in 1 .. n : s[k] = Wanted[k]
Sending == start_position = Len(got) /\ tx_data_pid = host_toggle
Repeating == start_position + max_packet_size = Len(got) /\ tx_data_pid = 1 - host_toggle
ReadSoFar ==
  /\ IF P!Exists(asked.value) THEN /\ Len(got) < asked.length /\ Len(got) <= Len(Wanted)
                                   /\ Upto(got, Len(got)) /\ (Sending \/ Repeating)
                              ELSE got = << >> /\ Sending
  /\ \E k \in 0 .. start_position : start_position = k * max_packet_size
  /\ wire = "ack" => expecting_ack /\ Repeating

\* What the packet in flight holds is what the descriptor holds there.
Carries == \A k \in 1 .. Len(incoming) : incoming[k] = Wanted[start_position + k]
Limit == D!B!PacketLimit(asked.length, start_position)

\* A packet from the ROM: it is looked up, ...
LookedUp ==
  /\ tx_state = "IDLE" /\ incoming = << >> /\ bytes_sent = 0 /\ gen.state = "IDLE"
  /\ lookup \in {"START", "LOOKUP_TYPE"} => stall_latch = {"distributed"}
  /\ lookup \in {"LOOKUP_TYPE", "LOOKUP_DESCRIPTOR"} =>
       /\ D!B!HasType(asked.value) /\ position_in_stream = start_position /\ length = Limit
  /\ lookup \in {"LOOKUP_DESCRIPTOR", "SEND_ZLP"} => D!B!HasIndex(asked.value)
  /\ lookup = "SEND_ZLP" => D!B!HasType(asked.value) /\ start_position = Len(Wanted)
\* ... it is sent, ...
Streamed ==
  /\ lookup = "SEND_DESCRIPTOR" /\ chosen = Wanted /\ length = Limit /\ gen.state = "IDLE"
  /\ P!Exists(asked.value) /\ ~IsGenerated(asked)
  /\ tx_state \in {"IDLE", "SEND_PID", "SEND_PAYLOAD"} /\ (tx_state # "IDLE" => ~is_zlp)
  /\ tx_state # "SEND_PAYLOAD" => incoming = << >>
  /\ bytes_sent = Len(incoming) /\ Carries
  /\ position_in_stream = start_position + bytes_sent /\ fetched = position_in_stream \div element_size
  /\ bytes_sent < PacketLength(start_position)
\* ... or the generated one is, while the ROM finds that it has none; ...
Generating ==
  /\ gen.state = "STREAMING" /\ IsGenerated(asked) /\ stall_latch \in {{}, {"block"}}
  /\ lookup \in {"IDLE", "START", "LOOKUP_TYPE"}
  /\ lookup = "START" => tx_state = "IDLE"
  /\ lookup = "LOOKUP_TYPE" => tx_state = "SEND_PID" /\ D!B!HasType(asked.value)
  /\ tx_state \in {"IDLE", "SEND_PID", "SEND_PAYLOAD"} /\ (tx_state # "IDLE" => ~is_zlp)
  /\ tx_state # "SEND_PAYLOAD" => incoming = << >>
  /\ gen.bytes_sent = Len(incoming) /\ Carries
  /\ gen.position_in_stream = start_position + gen.bytes_sent
  /\ gen.bytes_sent < PacketLength(start_position)
\* ... and it is out.
Finished ==
  /\ lookup = "IDLE" /\ P!Exists(asked.value)
  /\ tx_state \in {"SEND_PID", "SEND_CRC_FIRST", "SEND_CRC_SECOND"} /\ (tx_state = "SEND_PID" => is_zlp)
  /\ gen.state # "STREAMING" /\ (gen.state = "DONE" => tx_state = "SEND_CRC_FIRST")
  /\ Len(incoming) = PacketLength(start_position) /\ Carries
DescriptorUnderway ==
  /\ serializer = "IDLE" /\ expecting_ack /\ (tx_state # "IDLE" => packet_pid = tx_data_pid)
  /\ (lookup \in {"START", "LOOKUP_TYPE", "LOOKUP_DESCRIPTOR", "SEND_ZLP"} /\ LookedUp /\ ~IsGenerated(asked))
     \/ Streamed \/ Generating \/ Finished

\* The one byte of GET_CONFIGURATION.
ConfigurationUnderway ==
  /\ lookup = "IDLE" /\ gen.state = "IDLE" /\ (tx_state # "IDLE" => packet_pid = 1)
  /\ \/ /\ serializer = "STREAMING" /\ at = 0 /\ serialized = 0
        /\ tx_state \in {"IDLE", "SEND_PID", "SEND_PAYLOAD"} /\ (tx_state # "IDLE" => ~is_zlp)
        /\ incoming = << >>
     \/ /\ serializer = "DONE" => tx_state = "SEND_CRC_FIRST"
        /\ serializer # "STREAMING" /\ tx_state \in {"SEND_CRC_FIRST", "SEND_CRC_SECOND"}
        /\ incoming = <<configuration>>

\* The empty packet of a status stage.
StatusUnderway ==
  /\ lookup = "IDLE" /\ gen.state = "IDLE" /\ serializer = "IDLE" /\ incoming = << >>
  /\ tx_state \in {"SEND_PID", "SEND_CRC_FIRST", "SEND_CRC_SECOND"} /\ packet_pid = 1
  /\ tx_state = "SEND_PID" => is_zlp

Answering ==
  /\ Heard("IN")
  /\ \/ stage = "status_in" /\ StatusUnderway /\ P!Result(asked) = P!Done(<< >>)
     \/ stage = "data_in" /\ handler = "GET_CONFIGURATION" /\ ConfigurationUnderway
     \/ stage = "data_in" /\ handler = "GET_DESCRIPTOR" /\ DescriptorUnderway

InDataIn ==
  /\ asked.length > 0 /\ asked.is_in_request /\ control = "DATA_IN"
  /\ wire \in {"quiet", "asked", "waiting", "ack", "device_stall", "elsewhere"}
  /\ wire = "asked" => Heard("IN")
  /\ handler = "GET_DESCRIPTOR" => ReadSoFar
  /\ handler = "GET_CONFIGURATION" => (got = << >> /\ host_toggle = 1) \/ (got = <<configuration>> /\ host_toggle = 0)
  /\ wire = "ack" => handler \in {"GET_DESCRIPTOR", "GET_CONFIGURATION"}

InDataOut ==
  /\ SetsLineCoding(asked) /\ asked.length > 0 /\ control = "DATA_OUT" /\ got = << >> /\ ~Heard("IN")
  /\ wire \in {"quiet", "asked", "out", "sent", "waiting", "device_ack", "elsewhere"}
  /\ wire = "asked" => Heard("PING")
  /\ wire \in {"out", "sent"} /\ ~missed => Heard("OUT")
  /\ ~unsettled

InStatusIn ==
  /\ asked.length = 0 \/ SetsLineCoding(asked)
  /\ control \in {"STATUS_IN", "DATA_OUT"} /\ got = << >>
  /\ asked.length = 0 \/ Heard("IN") => control = "STATUS_IN"
  /\ wire \in {"quiet", "asked", "waiting", "ack", "device_stall", "elsewhere"}
  /\ wire = "asked" => Heard("IN")
  /\ wire = "ack" => P!Result(asked) = P!Done(<< >>)
  /\ unsettled => P!Result(asked) = P!Stalled

InStatusOut ==
  /\ asked.request \in {"GET_DESCRIPTOR", "GET_CONFIGURATION"}
  /\ control \in {"DATA_IN", "STATUS_OUT"} /\ P!Result(asked) = P!Done(got)
  /\ Heard("OUT") \/ Heard("PING") => control = "STATUS_OUT"
  /\ wire \in {"quiet", "asked", "out", "sent", "waiting", "device_ack", "ack", "elsewhere"}
  /\ wire = "asked" => Heard("PING")
  /\ wire \in {"out", "sent"} /\ ~missed => Heard("OUT")

\* From the ACK to the SETUP packet to the end.
InRequest ==
  /\ asked \in Requests /\ packet = asked /\ decoder = "IDLE" /\ ~received
  /\ handler = IF Over THEN "IDLE" ELSE Expected
  /\ new_packet => wire = "sent"
  /\ wire = "waiting" /\ ~missed /\ ~unsettled => Answering
  /\ ~(wire = "waiting" /\ ~missed /\ ~unsettled) => Calm /\ incoming = << >>
  /\ wire = "asked" => ~missed
  /\ wire = "ack" => ~unsettled
  /\ wire = "device_stall" => P!Result(asked) = P!Stalled
  /\ unsettled => ~P!Changes(asked)
  /\ \/ stage = "data_in" /\ InDataIn
     \/ stage = "data_out" /\ InDataOut
     \/ stage = "status_in" /\ InStatusIn
     \/ stage = "status_out" /\ InStatusOut

IInv ==
  /\ Types /\ Matching /\ AddressAgrees
  /\ stage # "idle" => Len(log) < MaxRequests
  /\ \/ stage = "idle" /\ WhenIdle
     \/ stage = "setup" /\ InSetup
     \/ InRequest

---------------------------------------------------------------------------
(* Descriptors *)

LEMMA GeneratedFacts ==
  ASSUME Supported
  PROVE  /\ DOMAIN generated = {1}
         /\ gen_data \in Seq(Nat) /\ 0 < Len(gen_data) /\ Len(gen_data) < H!start_positions
         /\ gen_value \in Nat \X Nat /\ gen_value[1] > 0 /\ P!Fixed(gen_value) = {}
         /\ \A value : P!Generated(value) = IF value = gen_value THEN {gen_data} ELSE {}
         /\ \A r : IsGenerated(r) <=> r.request = "GET_DESCRIPTOR" /\ r.value = gen_value
         /\ \A value : D!R!Selected(value) = IF value = gen_value THEN {1} ELSE {}
<1>1. /\ generated \in Seq([value : Nat \X Nat, data : Seq(Nat)]) /\ Len(generated) = 1
      /\ 0 < Len(gen_data) /\ Len(gen_data) < H!start_positions
      /\ gen_value[1] > 0 /\ P!Fixed(gen_value) = {}
  BY DEF Supported, GeneratedFits, gen_value, gen_data
<1>2. DOMAIN generated = {1} /\ generated[1] \in [value : Nat \X Nat, data : Seq(Nat)]
  <2>1. DOMAIN generated = 1 .. 1
    BY <1>1, LenProperties
  <2>2. generated[1] \in [value : Nat \X Nat, data : Seq(Nat)]
    BY <1>1, ElementOfSeq, 1 \in 1 .. 1
  <2>3. QED BY <2>1, <2>2
<1>3. \A value : P!Generated(value) = IF value = gen_value THEN {gen_data} ELSE {}
  BY <1>2 DEF P!Generated, gen_value, gen_data
<1>4. \A value : D!R!Selected(value) = IF value = gen_value THEN {1} ELSE {}
  BY <1>2 DEF D!R!Selected, gen_value
<1>5. gen_data \in Seq(Nat) /\ gen_value \in Nat \X Nat
  BY <1>2 DEF gen_value, gen_data
<1>6. \A r : IsGenerated(r) <=> r.request = "GET_DESCRIPTOR" /\ r.value = gen_value
  BY <1>3 DEF IsGenerated
<1>7. QED BY <1>1, <1>2, <1>3, <1>4, <1>5, <1>6

\* The fixed descriptors as the ROM finds them.
LEMMA FixedFacts ==
  ASSUME Supported, NEW value \in Nat \X Nat
  PROVE  /\ P!Fixed(value) = IF D!B!HasType(value) /\ D!B!HasIndex(value)
                             THEN {descriptors[value[1]][value[2] + 1]} ELSE {}
         /\ D!B!HasType(value) /\ D!B!HasIndex(value) =>
              /\ descriptors[value[1]][value[2] + 1] \in D!B!AllDescriptors
              /\ descriptors[value[1]][value[2] + 1] \in Seq(Nat)
<1>1. /\ DOMAIN descriptors = 0 .. D!B!max_type_index
      /\ \A type \in DOMAIN descriptors : descriptors[type] \in Seq(Seq(Nat))
  BY DEF Supported, RomFits
<1>2. value[1] \in Nat /\ value[2] \in Nat
  OBVIOUS
<1>3. D!B!HasType(value) <=> value[1] \in DOMAIN descriptors
  BY <1>1, <1>2 DEF D!B!HasType
<1>4. ASSUME value[1] \in DOMAIN descriptors
      PROVE  /\ D!B!HasIndex(value) <=> value[2] < Len(descriptors[value[1]])
             /\ D!B!HasIndex(value) => value[2] + 1 \in DOMAIN descriptors[value[1]]
  BY <1>1, <1>2, <1>4 DEF D!B!HasIndex
<1>5. P!Fixed(value) = IF D!B!HasType(value) /\ D!B!HasIndex(value)
                       THEN {descriptors[value[1]][value[2] + 1]} ELSE {}
  BY <1>3, <1>4 DEF P!Fixed
<1>6. ASSUME D!B!HasType(value), D!B!HasIndex(value)
      PROVE  /\ descriptors[value[1]][value[2] + 1] \in D!B!AllDescriptors
             /\ descriptors[value[1]][value[2] + 1] \in Seq(Nat)
  <2>1. value[1] \in DOMAIN descriptors /\ value[2] + 1 \in DOMAIN descriptors[value[1]]
    BY <1>3, <1>4, <1>6
  <2>2. descriptors[value[1]] \in Seq(Seq(Nat))
    BY <1>1, <2>1
  <2>3. descriptors[value[1]][value[2] + 1] \in Seq(Nat)
    BY <2>1, <2>2
  <2>4. QED BY <2>1, <2>3 DEF D!B!AllDescriptors
<1>7. QED BY <1>5, <1>6

\* position_in_stream can count through every descriptor.
LEMMA FixedFit ==
  ASSUME Supported, NEW d \in D!B!AllDescriptors
  PROVE  Len(d) < H!start_positions /\ Len(d) < D!B!position_values
         /\ D!B!position_values \in Nat \ {0}
<1> DEFINE lengths == {Len(e) : e \in D!B!AllDescriptors}
<1>1. PICK longest \in D!B!AllDescriptors :
        /\ 0 < Len(longest) /\ Len(longest) < H!start_positions
        /\ \A e \in D!B!AllDescriptors : Len(e) <= Len(longest)
  BY DEF Supported, RomFits
<1>2. Len(longest) \in Nat /\ \A e \in D!B!AllDescriptors : Len(e) \in Nat
  OBVIOUS
<1>3. D!B!descriptor_max_length = Len(longest)
  <2>1. Len(longest) \in lengths /\ \A n \in lengths : n \in Nat /\ Len(longest) >= n
    BY <1>1, <1>2
  <2>2. \A m \in lengths : (\A n \in lengths : m >= n) => m = Len(longest)
    BY <2>1
  <2> HIDE DEF lengths
  <2>3. (CHOOSE m \in lengths : \A n \in lengths : m >= n) = Len(longest)
    BY <2>1, <2>2
  <2>4. QED BY <2>3 DEF lengths, D!B!descriptor_max_length, D!B!Max
<1>4. D!B!position_values \in Nat \ {0} /\ Len(longest) < D!B!position_values
  <2> DEFINE powers == {2, 4, 8, 16, 32, 64, 128, 256, 512, 1024, 2048}
  <2>1. \E w \in powers : Len(longest) < w /\ w <= 2 * Len(longest)
    BY <1>1, <1>2, SMT DEF H!start_positions
  <2>2. \A w \in powers : w \in Nat \ {0}
    OBVIOUS
  <2>3. D!B!position_values = CHOOSE w \in powers : Len(longest) < w /\ w <= 2 * Len(longest)
    BY <1>3 DEF D!B!position_values
  <2> HIDE DEF powers
  <2>4. QED BY <2>1, <2>2, <2>3
<1>5. QED BY <1>1, <1>2, <1>4 DEF H!start_positions

\* So can a generator.
LEMMA WideEnough ==
  ASSUME NEW n \in Nat, n <= H!start_positions
  PROVE  D!R!Wide(n) \in Nat \ {0} /\ n <= D!R!Wide(n)
<1> DEFINE powers == {2, 4, 8, 16, 32, 64, 128, 256, 512, 1024, 2048}
<1>1. \E w \in powers : n <= w /\ (w = 2 \/ w < 2 * n)
  BY SMT DEF H!start_positions
<1>2. \A w \in powers : w \in Nat \ {0}
  OBVIOUS
<1>3. D!R!Wide(n) = CHOOSE w \in powers : n <= w /\ (w = 2 \/ w < 2 * n)
  BY DEF D!R!Wide
<1> HIDE DEF powers
<1>4. QED BY <1>1, <1>2, <1>3

LEMMA SmallRemainder ==
  ASSUME NEW x \in Nat, NEW n \in Nat, x < n
  PROVE  x % n = x
  OBVIOUS

\* A byte's place in the ROM is that of its word and its place in the word.
LEMMA WordAndByte ==
  ASSUME NEW x \in Nat
  PROVE  /\ (x \div element_size) * element_size + (x % element_size) = x
         /\ x \div element_size \in Nat
  BY SizeAssumption

\* What a request for a descriptor is about.
LEMMA WantedFacts ==
  ASSUME Supported, asked \in Requests, Reading
  PROVE  /\ IsGenerated(asked) <=> asked.value = gen_value
         /\ asked.value \in Nat \X Nat /\ asked.length \in Nat /\ 0 < asked.length /\ asked.length < 65536
         /\ P!Exists(asked.value) <=> \/ IsGenerated(asked)
                                      \/ D!B!HasType(asked.value) /\ D!B!HasIndex(asked.value)
         /\ IsGenerated(asked) => /\ Wanted = gen_data
                                  /\ ~(D!B!HasType(asked.value) /\ D!B!HasIndex(asked.value))
         /\ D!B!HasType(asked.value) /\ D!B!HasIndex(asked.value) =>
              /\ Wanted = descriptors[asked.value[1]][asked.value[2] + 1]
              /\ Wanted \in D!B!AllDescriptors
         /\ P!Exists(asked.value) => /\ Wanted \in Seq(Nat) /\ Len(Wanted) \in Nat
                                     /\ Len(Wanted) < H!start_positions
<1>1. Served(asked)
  BY DEF Supported
<1>2. asked.value \in Nat \X Nat /\ asked.length \in Nat /\ 0 < asked.length /\ asked.length < 65536
  BY <1>1 DEF Served, Reading
<1>3. IsGenerated(asked) <=> asked.value = gen_value
  BY GeneratedFacts DEF Reading
<1>4. P!Fixed(gen_value) = {} /\ P!Generated(gen_value) = {gen_data}
      /\ (asked.value # gen_value => P!Generated(asked.value) = {})
  BY GeneratedFacts
<1> DEFINE fixed == descriptors[asked.value[1]][asked.value[2] + 1]
<1>a. /\ P!Fixed(asked.value) = IF D!B!HasType(asked.value) /\ D!B!HasIndex(asked.value)
                                 THEN {fixed} ELSE {}
      /\ D!B!HasType(asked.value) /\ D!B!HasIndex(asked.value) =>
           fixed \in D!B!AllDescriptors /\ fixed \in Seq(Nat)
  <2>1. asked.value \in Nat \X Nat
    BY <1>2
  <2>2. QED BY <2>1, FixedFacts, Zenon
<1> HIDE DEF fixed
<1>5. CASE asked.value = gen_value
  <2>1. P!Exists(asked.value)
    BY <1>4, <1>5 DEF P!Exists
  <2>2. Wanted = gen_data
    BY <1>4, <1>5 DEF Wanted, P!Descriptor
  <2>3. ~(D!B!HasType(asked.value) /\ D!B!HasIndex(asked.value))
    BY <1>4, <1>5, <1>a
  <2>4. QED BY <1>2, <1>3, <1>5, <2>1, <2>2, <2>3, GeneratedFacts
<1>6. CASE asked.value # gen_value
  <2>1. P!Exists(asked.value) <=> D!B!HasType(asked.value) /\ D!B!HasIndex(asked.value)
    BY <1>4, <1>6, <1>a DEF P!Exists
  <2>2. D!B!HasType(asked.value) /\ D!B!HasIndex(asked.value) =>
          Wanted = fixed
    BY <1>4, <1>6, <1>a DEF Wanted, P!Descriptor
  <2>3. QED BY <1>2, <1>3, <1>6, <1>a, <2>1, <2>2, FixedFit DEF fixed
<1>7. QED BY <1>5, <1>6

---------------------------------------------------------------------------
(* One clock of the device *)

\* What DeviceClock has each part do.
LEMMA Parts ==
  ASSUME NEW b, NEW t, DeviceClock(b, t)
  PROVE  /\ R!Deserialize(b.rx) /\ R!Decode(t.pid = "SETUP", b.new_token, b.tx_allowed)
         /\ C!Clock(ControlInputs(b, t)) /\ H!Clock(HandlerInputs(b, t))
         /\ D!Clock(DescriptorInputs(b, t), describing /\ G!stream_ready(b.tx_ready))
         /\ S!Clock(H!serializer_start(HandlerInputs(b, t)), S!Narrowed(H!serializer_length),
                    serializing /\ G!stream_ready(b.tx_ready))
         /\ G!Clock(IF claim THEN tx_data_pid ELSE 1, out_first(HandlerInputs(b, t)),
                    out_last(HandlerInputs(b, t)), out_valid(HandlerInputs(b, t)), b.tx_ready)
         /\ address' = IF claim /\ H!address_changed(HandlerInputs(b, t))
                       THEN packet.value[2] % 128 ELSE address
         /\ configuration' = IF claim /\ H!config_changed(HandlerInputs(b, t))
                             THEN packet.value[2] ELSE configuration
         /\ halts_cleared' = IF claim /\ H!clear_endpoint_halt(HandlerInputs(b, t))
                             THEN halts_cleared + 1 ELSE halts_cleared
         /\ token' = t
<1> DEFINE h == HandlerInputs(b, t)
<1>1. /\ h.descriptor = DescriptorInputs(b, t)
      /\ H!new_address(h) = packet.value[2] % 128
      /\ H!new_config(h) = packet.value[2]
  BY DEF HandlerInputs, H!new_address, H!new_config
<1> HIDE DEF h
<1>2. /\ R!Clock(b.rx, t.pid = "SETUP", b.new_token, b.tx_allowed)
      /\ C!Clock(ControlInputs(b, t)) /\ H!Clock(h)
      /\ D!Clock(h.descriptor, describing /\ G!stream_ready(b.tx_ready))
      /\ S!Clock(H!serializer_start(h), S!Narrowed(H!serializer_length),
                 serializing /\ G!stream_ready(b.tx_ready))
      /\ G!Clock(IF claim THEN tx_data_pid ELSE 1, out_first(h), out_last(h), out_valid(h), b.tx_ready)
      /\ address' = IF claim /\ H!address_changed(h) THEN H!new_address(h) ELSE address
      /\ configuration' = IF claim /\ H!config_changed(h) THEN H!new_config(h) ELSE configuration
      /\ halts_cleared' = IF claim /\ H!clear_endpoint_halt(h) THEN halts_cleared + 1
                          ELSE halts_cleared
      /\ token' = t
  BY Zenon DEF DeviceClock, h
<1>3. R!Deserialize(b.rx) /\ R!Decode(t.pid = "SETUP", b.new_token, b.tx_allowed)
  BY <1>2, Zenon DEF R!Clock
<1>4. QED BY <1>1, <1>2, <1>3, Zenon DEF h

\* A clock without an answer due and without an ACK.
Quiet(b) == ~b.ready_for_response /\ ~b.rx_ready_for_response /\ ~b.ack

LEMMA QuietInputs ==
  ASSUME NEW b, NEW t, Quiet(b)
  PROVE  /\ ~HandlerInputs(b, t).data_requested /\ ~HandlerInputs(b, t).status_requested
         /\ ~HandlerInputs(b, t).rx_ready_for_response /\ ~HandlerInputs(b, t).ack
         /\ ~DescriptorInputs(b, t).start
<1>1. ~C!data_requested(ControlInputs(b, t)) /\ ~C!status_requested(ControlInputs(b, t))
      /\ ~C!handler_rx_ready(ControlInputs(b, t))
  BY DEF C!data_requested, C!status_requested, C!handler_rx_ready, ControlInputs, Quiet
<1>2. ~DescriptorInputs(b, t).start
  BY <1>1 DEF DescriptorInputs, H!descriptor_start
<1>3. QED BY <1>1, <1>2 DEF HandlerInputs, Quiet

LEMMA Plain ==
  ASSUME NEW b, NEW t
  PROVE  /\ HandlerInputs(b, t).setup = packet /\ HandlerInputs(b, t).received = received
         /\ HandlerInputs(b, t).ack = b.ack
         /\ HandlerInputs(b, t).data_requested = C!data_requested(ControlInputs(b, t))
         /\ HandlerInputs(b, t).status_requested = C!status_requested(ControlInputs(b, t))
         /\ HandlerInputs(b, t).rx_ready_for_response = C!handler_rx_ready(ControlInputs(b, t))
         /\ HandlerInputs(b, t).descriptor = DescriptorInputs(b, t)
         /\ HandlerInputs(b, t).descriptor_stall = D!stall(DescriptorInputs(b, t))
         /\ DescriptorInputs(b, t).value = packet.value
         /\ DescriptorInputs(b, t).length = packet.length
         /\ DescriptorInputs(b, t).start_position = start_position
         /\ DescriptorInputs(b, t).start
              = (handler = "GET_DESCRIPTOR" /\ C!data_requested(ControlInputs(b, t)))
BY DEF HandlerInputs, DescriptorInputs, H!descriptor_start

\* The descriptor handlers' parts of a clock.
LEMMA DescriptorParts ==
  ASSUME Supported, NEW b, NEW t, DeviceClock(b, t)
  PROVE  LET i == DescriptorInputs(b, t)
             ready == describing /\ G!stream_ready(b.tx_ready)
         IN /\ D!B!Clock(packet.value, packet.length, start_position, i.start, ready)
            /\ D!R!Clock(packet.value, packet.length, start_position, i.start, ready)
            /\ stall_latch' = (IF i.start \/ D!stall(i) THEN {} ELSE stall_latch)
                              \cup (IF D!stall(i) THEN {} ELSE D!stalling(i))
            /\ any_match' = (any_match \/ packet.value = gen_value)
<1>1. D!Clock(DescriptorInputs(b, t), describing /\ G!stream_ready(b.tx_ready))
  BY Parts
<1>2. D!R!matches(packet.value) = (any_match \/ packet.value = gen_value)
  <2>1. generated \in Seq([value : Nat \X Nat, data : Seq(Nat)]) /\ Len(generated) = 1
    BY DEF Supported, GeneratedFits
  <2>2. D!R!Last(generated) = generated[1]
    BY <2>1 DEF D!R!Last
  <2>3. QED BY <2>2 DEF D!R!matches, gen_value
<1>3. D!R!Clock(packet.value, packet.length, start_position, DescriptorInputs(b, t).start,
                describing /\ G!stream_ready(b.tx_ready))
      => any_match' = (any_match \/ packet.value = gen_value)
  BY <1>2 DEF D!R!Clock
<1>4. QED BY <1>1, <1>3, Plain DEF D!Clock

\* A request for a descriptor is stalled when both handlers have stalled it.
LEMMA StallFacts ==
  ASSUME Types, NEW i
  PROVE  /\ D!stall(i) <=> /\ D!B!stall(i.value) \/ "block" \in stall_latch
                           /\ D!R!stall(i.value, i.start) \/ "distributed" \in stall_latch
         /\ D!B!stall(i.value) <=> "block" \in D!stalling(i)
         /\ D!R!stall(i.value, i.start) <=> "distributed" \in D!stalling(i)
         /\ D!stalling(i) \subseteq {"block", "distributed"}
         /\ stall_latch \subseteq {"block", "distributed"} /\ stall_latch # {"block", "distributed"}
<1>1. stall_latch \in {{}, {"block"}, {"distributed"}}
  BY DEF Types, DeviceTypes
<1>2. stall_latch \subseteq {"block", "distributed"} /\ stall_latch # {"block", "distributed"}
  BY <1>1
<1>3. /\ D!B!stall(i.value) <=> "block" \in D!stalling(i)
      /\ D!R!stall(i.value, i.start) <=> "distributed" \in D!stalling(i)
      /\ D!stalling(i) \subseteq {"block", "distributed"}
  BY DEF D!stalling, D!Handlers
<1>4. D!stall(i) <=> D!stalling(i) \cup stall_latch = {"block", "distributed"}
  BY DEF D!stall, D!Handlers
<1>5. QED BY <1>2, <1>3, <1>4

LEMMA LatchFacts ==
  ASSUME Supported, Types, NEW b, NEW t, DeviceClock(b, t)
  PROVE  LET i == DescriptorInputs(b, t)
         IN /\ stall_latch' \in {{}, {"block"}, {"distributed"}}
            /\ ~i.start /\ ~D!B!stall(packet.value) => ~D!stall(i) /\ stall_latch' = stall_latch
            /\ "block" \in stall_latch' => "block" \in stall_latch \/ D!B!stall(packet.value)
<1> DEFINE i == DescriptorInputs(b, t)
<1>1. stall_latch' = (IF i.start \/ D!stall(i) THEN {} ELSE stall_latch)
                     \cup (IF D!stall(i) THEN {} ELSE D!stalling(i))
  BY DescriptorParts, Zenon
<1>2. i.value = packet.value
  BY Plain
<1> HIDE DEF i
<1>3. /\ D!stall(i) <=> /\ D!B!stall(packet.value) \/ "block" \in stall_latch
                        /\ D!R!stall(packet.value, i.start) \/ "distributed" \in stall_latch
      /\ D!B!stall(packet.value) <=> "block" \in D!stalling(i)
      /\ D!R!stall(packet.value, i.start) <=> "distributed" \in D!stalling(i)
      /\ D!stalling(i) \subseteq {"block", "distributed"}
      /\ stall_latch \subseteq {"block", "distributed"} /\ stall_latch # {"block", "distributed"}
  BY <1>2, StallFacts
<1>4. ~i.start => ~D!R!stall(packet.value, i.start)
  BY DEF D!R!stall
<1>5. stall_latch' \subseteq {"block", "distributed"} /\ stall_latch' # {"block", "distributed"}
  BY <1>1, <1>3
<1>6. stall_latch' \in {{}, {"block"}, {"distributed"}}
  BY <1>5
<1>7. ASSUME ~i.start, ~D!B!stall(packet.value)
      PROVE  ~D!stall(i) /\ stall_latch' = stall_latch
  <2>1. D!stalling(i) = {}
    BY <1>3, <1>4, <1>7
  <2>2. ~D!stall(i)
    BY <1>3, <1>4, <1>7
  <2>3. QED BY <1>1, <1>7, <2>1, <2>2
<1>8. "block" \in stall_latch' => "block" \in stall_latch \/ D!B!stall(packet.value)
  BY <1>1, <1>3
<1>9. QED BY <1>6, <1>7, <1>8 DEF i

LEMMA PacketTyped ==
  ASSUME Supported, HostTypes
  PROVE  /\ packet.value \in Nat \X Nat /\ packet.length \in Nat /\ packet.length < 65536
         /\ packet.value[1] \in Nat /\ packet.value[2] \in Nat
<1>1. CASE packet = NoRequest
  BY <1>1 DEF NoRequest
<1>2. CASE packet \in Requests
  <2>1. Served(packet)
    BY <1>2 DEF Supported
  <2>2. packet.value \in Nat \X Nat /\ packet.length \in Nat /\ packet.length < 65536
    BY <2>1 DEF Served
  <2>3. QED BY <2>2
<1>3. QED BY <1>1, <1>2 DEF HostTypes

LEMMA LimitTyped ==
  ASSUME NEW l \in Nat, NEW s \in Nat
  PROVE  D!B!PacketLimit(l, s) \in Nat /\ D!B!PacketLimit(l, s) <= max_packet_size
BY SizeAssumption DEF D!B!PacketLimit

LEMMA DecoderTypes ==
  ASSUME Supported, Types, NEW b, NEW t, DeviceClock(b, t),
         b.rx.bytes \in Nat
  PROVE  /\ position' \in Int /\ position' >= -1 /\ new_packet' \in BOOLEAN /\ received' \in BOOLEAN
         /\ decoder' \in {"IDLE", "READ_DATA", "INTERPACKET_DELAY"}
         /\ control' \in {"SETUP", "DATA_IN", "DATA_OUT", "STATUS_IN", "STATUS_OUT"}
<1>1. position' \in Int /\ position' >= -1 /\ new_packet' \in BOOLEAN
  <2>1. R!Deserialize(b.rx) /\ position \in Int /\ position >= -1
    BY Parts DEF Types, DeviceTypes
  <2>2. ASSUME NEW first \in Nat, R!Captures(b.rx, first)
        PROVE  position' \in Int /\ position' >= -1 /\ new_packet' \in BOOLEAN
    <3>1. first + b.rx.bytes \in Int /\ first + b.rx.bytes >= -1
      OBVIOUS
    <3>2. QED BY <2>2, <3>1 DEF R!Captures
  <2>3. CASE new_packet' = FALSE /\ UNCHANGED <<position, captured>>
    BY <2>1, <2>3
  <2>4. CASE R!Captures(b.rx, 0)
    BY <2>2, <2>4
  <2>5. CASE R!Captures(b.rx, position + 1)
    <3>1. position + 1 \in Nat
      BY <2>1
    <3>2. QED BY <2>2, <2>5, <3>1
  <2>6. QED BY <2>1, <2>3, <2>4, <2>5, Zenon DEF R!Deserialize
<1>2. received' \in BOOLEAN /\ decoder' \in {"IDLE", "READ_DATA", "INTERPACKET_DELAY"}
  <2>1. R!Decode(t.pid = "SETUP", b.new_token, b.tx_allowed)
    BY Parts
  <2>2. R!IsSetup \in BOOLEAN
    BY DEF R!IsSetup, Types, DeviceTypes
  <2>3. QED BY <2>1, <2>2 DEF R!Decode, Types, DeviceTypes
<1>3. control' \in {"SETUP", "DATA_IN", "DATA_OUT", "STATUS_IN", "STATUS_OUT"}
  <2>1. C!Clock(ControlInputs(b, t))
    BY Parts
  <2>2. control \in {"SETUP", "DATA_IN", "DATA_OUT", "STATUS_IN", "STATUS_OUT"}
    BY DEF Types, DeviceTypes
  <2>3. QED BY <2>1, <2>2 DEF C!Clock, C!Setup, C!Stage
<1>4. QED BY <1>1, <1>2, <1>3

LEMMA HandlerTypes ==
  ASSUME Supported, Types, NEW b, NEW t, DeviceClock(b, t)
  PROVE  /\ handler' \in H!handled \cup {"IDLE", "UNHANDLED"}
         /\ start_position' \in Nat /\ tx_data_pid' \in {0, 1} /\ expecting_ack' \in BOOLEAN
         /\ configuration' \in Nat /\ (handler' \notin {"IDLE", "GET_DESCRIPTOR"} => Fresh')
<1> DEFINE h == HandlerInputs(b, t)
<1>1. H!Clock(h)
  BY Parts
<1>2. /\ handler \in H!handled \cup {"IDLE", "UNHANDLED"}
      /\ start_position \in Nat /\ tx_data_pid \in {0, 1} /\ expecting_ack \in BOOLEAN
      /\ handler \notin {"IDLE", "GET_DESCRIPTOR"} => start_position = 0 /\ tx_data_pid = 1
  BY DEF Types, DeviceTypes, Fresh
<1> HIDE DEF h
<1>3. (start_position + max_packet_size) % H!start_positions \in Nat
  BY <1>2, SizeAssumption DEF H!start_positions
<1>9. configuration' \in Nat
  <2>1. packet.value[2] \in Nat /\ configuration \in Nat
    BY PacketTyped DEF Types, DeviceTypes
  <2>2. QED BY <2>1, Parts
<1>4. CASE H!Idle(h)
  BY <1>2, <1>9, <1>4 DEF H!Idle, Fresh
<1>5. CASE H!HandleSimpleDataRequest(h)
  BY <1>2, <1>9, <1>5 DEF H!HandleSimpleDataRequest, Fresh
<1>6. CASE H!HandleWriteRequest(h)
  BY <1>2, <1>9, <1>6 DEF H!HandleWriteRequest, Fresh
<1>7. CASE H!GetDescriptor(h)
  <2>1. H!awaits_ack(h) \in BOOLEAN
    BY DEF H!awaits_ack
  <2>2. QED BY <1>2, <1>3, <1>7, <1>9, <2>1 DEF H!GetDescriptor, Fresh
<1>8. CASE H!Unhandled(h)
  BY <1>2, <1>9, <1>8 DEF H!Unhandled, Fresh
<1>a. QED BY <1>1, <1>4, <1>5, <1>6, <1>7, <1>8, <1>9 DEF H!Clock

\* Both handlers come to the same limit.
LEMMA LimitsAgree ==
  ASSUME NEW l \in Nat, NEW s \in Nat
  PROVE  D!R!length_internal(l, s) = D!B!PacketLimit(l, s)
<1> DEFINE m == (l - s) % 65536
<1>1. m \in Nat /\ max_packet_size \in Nat
  BY SizeAssumption
<1>2. D!R!length_internal(l, s) = CHOOSE x \in {m, max_packet_size} : \A y \in {m, max_packet_size} : x <= y
  BY DEF D!R!length_internal, D!R!Min
<1>3. D!B!PacketLimit(l, s) = IF m <= max_packet_size THEN m ELSE max_packet_size
  BY DEF D!B!PacketLimit
<1> HIDE DEF m
<1>4. QED BY <1>1, <1>2, <1>3

\* The one generator.
GeneratorStarts(b, t) == DescriptorInputs(b, t).start /\ packet.value = gen_value
GeneratorTaken(b) == describing /\ G!stream_ready(b.tx_ready) /\ packet.value = gen_value
PacketEnds == \/ gen.position_in_stream >= Len(gen_data) - 1
              \/ gen.bytes_sent + 1 >= D!B!PacketLimit(packet.length, start_position)
GeneratorClock(b, t) ==
  \/ /\ gen.state = "IDLE"
     /\ gen'.state = IF ~GeneratorStarts(b, t) THEN "IDLE"
                     ELSE IF D!B!PacketLimit(packet.length, start_position) > 0 THEN "STREAMING" ELSE "DONE"
     /\ gen'.position_in_stream = start_position % D!R!Wide(Len(gen_data)) /\ gen'.bytes_sent = 0
  \/ gen.state = "STREAMING" /\ ~GeneratorTaken(b) /\ gen' = gen
  \/ gen.state = "STREAMING" /\ GeneratorTaken(b) /\ PacketEnds /\ gen' = [gen EXCEPT !.state = "DONE"]
  \/ gen.state = "STREAMING" /\ GeneratorTaken(b) /\ ~PacketEnds
     /\ gen'.state = "STREAMING" /\ gen'.bytes_sent = gen.bytes_sent + 1
     /\ gen'.position_in_stream = (gen.position_in_stream + 1) % D!R!Wide(Len(gen_data) + 1)
  \/ gen.state = "DONE" /\ gen' = [gen EXCEPT !.state = "IDLE"]

LEMMA GeneratorParts ==
  ASSUME Supported, Types, NEW b, NEW t, DeviceClock(b, t)
  PROVE  /\ GeneratorClock(b, t)
         /\ generators' \in [{1} -> [state : {"IDLE", "STREAMING", "DONE"}, position_in_stream : Nat,
                                     bytes_sent : Nat]]
<1> DEFINE limit == D!B!PacketLimit(packet.length, start_position)
           start == DescriptorInputs(b, t).start
           ready == describing /\ G!stream_ready(b.tx_ready)
<1>1. /\ DOMAIN generated = {1} /\ \A value : D!R!Selected(value) = IF value = gen_value THEN {1} ELSE {}
      /\ gen_data \in Seq(Nat) /\ Len(gen_data) \in Nat /\ Len(gen_data) < H!start_positions
  BY GeneratedFacts
<1>2. packet.length \in Nat /\ start_position \in Nat
  BY PacketTyped DEF Types, DeviceTypes
<1>3. D!R!length_internal(packet.length, start_position) = limit /\ limit \in Nat
  BY <1>2, LimitsAgree, LimitTyped
<1>4. D!R!data_length(1) = Len(gen_data)
  BY DEF D!R!data_length, gen_data
<1>5. /\ D!R!Wide(Len(gen_data)) \in Nat \ {0}
      /\ D!R!Wide(Len(gen_data) + 1) \in Nat \ {0}
  BY <1>1, WideEnough DEF H!start_positions
<1>6. D!R!Narrowed(1, start_position) = start_position % D!R!Wide(Len(gen_data))
  BY <1>4 DEF D!R!Narrowed
<1>7. D!R!on_last_packet(1, limit) = PacketEnds
  BY <1>4 DEF D!R!on_last_packet, PacketEnds, gen
<1>8. gen \in [state : {"IDLE", "STREAMING", "DONE"}, position_in_stream : Nat, bytes_sent : Nat]
  BY DEF Types, DeviceTypes, gen
<1>9. generators' = [g \in {1} |->
        LET r == generators[g] IN
        CASE r.state = "IDLE"      -> D!R!Idle(g, limit, start_position, start /\ g \in D!R!Selected(packet.value))
          [] r.state = "STREAMING" -> D!R!Stream(r, g, limit, ready /\ g \in D!R!Selected(packet.value))
          [] r.state = "DONE"      -> D!R!Done(r)]
  <2>1. D!R!Clock(packet.value, packet.length, start_position, start, ready)
    BY DescriptorParts, Zenon
  <2> HIDE DEF limit, start, ready
  <2>2. QED BY <1>1, <1>3, <2>1 DEF D!R!Clock
<1>a. 1 \in D!R!Selected(packet.value) <=> packet.value = gen_value
  BY <1>1
<1>b. gen' = CASE gen.state = "IDLE"      -> D!R!Idle(1, limit, start_position, start /\ packet.value = gen_value)
               [] gen.state = "STREAMING" -> D!R!Stream(gen, 1, limit, ready /\ packet.value = gen_value)
               [] gen.state = "DONE"      -> D!R!Done(gen)
  <2> HIDE DEF limit, start, ready
  <2>1. QED BY <1>9, <1>a DEF gen
<1>c. /\ start /\ packet.value = gen_value <=> GeneratorStarts(b, t)
      /\ ready /\ packet.value = gen_value <=> GeneratorTaken(b)
  BY DEF GeneratorStarts, GeneratorTaken
<1> HIDE DEF start, ready
<1>d. CASE gen.state = "IDLE"
  <2>1. gen' = D!R!Idle(1, limit, start_position, start /\ packet.value = gen_value)
    BY <1>b, <1>d
  <2>2. gen' = [state |-> IF ~GeneratorStarts(b, t) THEN "IDLE" ELSE IF limit > 0 THEN "STREAMING" ELSE "DONE",
                position_in_stream |-> start_position % D!R!Wide(Len(gen_data)), bytes_sent |-> 0]
    BY <1>6, <1>c, <2>1 DEF D!R!Idle
  <2>3. GeneratorClock(b, t)
    BY <1>d, <2>2 DEF GeneratorClock
  <2>4. start_position % D!R!Wide(Len(gen_data)) \in Nat
    BY <1>2, <1>5
  <2>5. gen' \in [state : {"IDLE", "STREAMING", "DONE"}, position_in_stream : Nat, bytes_sent : Nat]
    <3> HIDE DEF limit
    <3>1. QED BY <2>2, <2>4
  <2>6. QED BY <1>9, <2>3, <2>5 DEF gen
<1>e. CASE gen.state = "STREAMING"
  <2>1. gen' = D!R!Stream(gen, 1, limit, ready /\ packet.value = gen_value)
    BY <1>b, <1>e
  <2>2. gen' = IF ~GeneratorTaken(b) THEN gen
               ELSE IF PacketEnds THEN [gen EXCEPT !.state = "DONE"]
               ELSE [gen EXCEPT !.position_in_stream = (gen.position_in_stream + 1) % D!R!Wide(Len(gen_data) + 1),
                                !.bytes_sent = gen.bytes_sent + 1]
    <3>1. D!R!Stream(gen, 1, limit, ready /\ packet.value = gen_value)
            = IF ~GeneratorTaken(b) THEN gen
              ELSE IF D!R!on_last_packet(1, limit) THEN [gen EXCEPT !.state = "DONE"]
              ELSE [gen EXCEPT !.position_in_stream = (@ + 1) % D!R!Wide(D!R!data_length(1) + 1),
                               !.bytes_sent = @ + 1]
      BY <1>c, Zenon DEF D!R!Stream
    <3> HIDE DEF limit
    <3>2. QED BY <1>4, <1>7, <1>8, <2>1, <3>1
  <2>3. (gen.position_in_stream + 1) % D!R!Wide(Len(gen_data) + 1) \in Nat
    BY <1>5, <1>8
  <2>4. GeneratorClock(b, t)
    BY <1>8, <1>e, <2>2 DEF GeneratorClock
  <2>5. gen' \in [state : {"IDLE", "STREAMING", "DONE"}, position_in_stream : Nat, bytes_sent : Nat]
    <3> HIDE DEF limit
    <3>1. CASE ~GeneratorTaken(b)
      BY <1>8, <2>2, <3>1
    <3>2. CASE GeneratorTaken(b) /\ PacketEnds
      BY <1>8, <2>2, <3>2
    <3>3. CASE GeneratorTaken(b) /\ ~PacketEnds
      <4>1. PICK n \in Nat : gen' = [gen EXCEPT !.position_in_stream = n, !.bytes_sent = gen.bytes_sent + 1]
        BY <2>2, <2>3, <3>3, Zenon
      <4>2. gen.bytes_sent + 1 \in Nat
        BY <1>8
      <4>3. QED BY <1>8, <4>1, <4>2, Zenon
    <3>4. QED BY <3>1, <3>2, <3>3
  <2>6. QED BY <1>9, <2>4, <2>5 DEF gen
<1>f. CASE gen.state = "DONE"
  <2>1. gen' = [gen EXCEPT !.state = "IDLE"]
    BY <1>b, <1>f DEF D!R!Done
  <2>2. gen' \in [state : {"IDLE", "STREAMING", "DONE"}, position_in_stream : Nat, bytes_sent : Nat]
    BY <1>8, <2>1
  <2>3. GeneratorClock(b, t)
    BY <1>f, <2>1 DEF GeneratorClock
  <2>4. QED BY <1>9, <2>2, <2>3 DEF gen
<1>g. QED BY <1>8, <1>d, <1>e, <1>f

LEMMA PositionsFit ==
  ASSUME Supported
  PROVE  D!B!position_values \in Nat \ {0}
<1>1. \E d \in D!B!AllDescriptors : TRUE
  BY DEF Supported, RomFits
<1>2. QED BY <1>1, FixedFit

LEMMA LookupTypes ==
  ASSUME Supported, Types, NEW b, NEW t, DeviceClock(b, t)
  PROVE  /\ lookup' \in {"IDLE", "START", "LOOKUP_TYPE", "LOOKUP_DESCRIPTOR", "SEND_DESCRIPTOR", "SEND_ZLP"}
         /\ length' \in Nat /\ position_in_stream' \in Nat /\ bytes_sent' \in Nat /\ fetched' \in Nat
         /\ length' = D!B!PacketLimit(packet.length, start_position)
<1> DEFINE start == DescriptorInputs(b, t).start
           ready == describing /\ G!stream_ready(b.tx_ready)
<1>1. D!B!Clock(packet.value, packet.length, start_position, start, ready)
  BY DescriptorParts, Zenon
<1> HIDE DEF start, ready
<1>2. /\ lookup \in {"IDLE", "START", "LOOKUP_TYPE", "LOOKUP_DESCRIPTOR", "SEND_DESCRIPTOR", "SEND_ZLP"}
      /\ position_in_stream \in Nat /\ bytes_sent \in Nat /\ fetched \in Nat /\ start_position \in Nat
  BY DEF Types, DeviceTypes
<1>3. length' = D!B!PacketLimit(packet.length, start_position) /\ length' \in Nat
  <2>1. length' = D!B!PacketLimit(packet.length, start_position)
    BY <1>1, Zenon DEF D!B!Clock
  <2>2. packet.length \in Nat
    BY PacketTyped DEF Types
  <2>3. QED BY <1>2, <2>1, <2>2, LimitTyped
<1>4. /\ start_position % D!B!position_values \in Nat
      /\ (position_in_stream + 1) % D!B!position_values \in Nat
      /\ position_in_stream \div element_size \in Nat
      /\ (position_in_stream + 1) \div element_size \in Nat
  BY <1>2, PositionsFit, WordAndByte
<1>5. CASE D!B!Idle(start)
  BY <1>2, <1>3, <1>5 DEF D!B!Idle
<1>6. CASE D!B!Start(packet.value, start_position)
  BY <1>2, <1>3, <1>4, <1>6 DEF D!B!Start
<1>7. CASE D!B!LookupType(packet.value)
  BY <1>2, <1>3, <1>7 DEF D!B!LookupType
<1>8. CASE D!B!LookupDescriptor(packet.value)
  BY <1>2, <1>3, <1>4, <1>8 DEF D!B!LookupDescriptor
<1>9. CASE D!B!SendDescriptor(ready)
  BY <1>2, <1>3, <1>4, <1>9 DEF D!B!SendDescriptor
<1>a. CASE D!B!SendZlp
  BY <1>2, <1>3, <1>a DEF D!B!SendZlp
<1>b. QED BY <1>1, <1>5, <1>6, <1>7, <1>8, <1>9, <1>a DEF D!B!Clock

LEMMA TransmitterTypes ==
  ASSUME Types, NEW b, NEW t, DeviceClock(b, t)
  PROVE  /\ serializer' \in {"IDLE", "STREAMING", "DONE"}
         /\ tx_state' \in {"IDLE", "SEND_PID", "SEND_PAYLOAD", "SEND_CRC_FIRST", "SEND_CRC_SECOND"}
         /\ is_zlp' \in BOOLEAN
<1>1. ASSUME NEW p, NEW f, NEW l, NEW v, NEW r, G!Clock(p, f, l, v, r)
      PROVE  /\ tx_state' \in {"IDLE", "SEND_PID", "SEND_PAYLOAD", "SEND_CRC_FIRST", "SEND_CRC_SECOND"}
             /\ is_zlp' \in BOOLEAN
  <2>1. /\ tx_state \in {"IDLE", "SEND_PID", "SEND_PAYLOAD", "SEND_CRC_FIRST", "SEND_CRC_SECOND"}
        /\ is_zlp \in BOOLEAN
    BY DEF Types, DeviceTypes
  <2>2. CASE G!Idle(p, f, l, v)
    BY <2>1, <2>2 DEF G!Idle
  <2>3. CASE G!SendPid \/ G!SendPayload(l, v) \/ G!SendCrcFirst \/ G!SendCrcSecond
    BY <2>1, <2>3 DEF G!SendPid, G!SendPayload, G!SendCrcFirst, G!SendCrcSecond
  <2>4. CASE UNCHANGED G!vars
    BY <2>1, <2>4 DEF G!vars
  <2>5. QED BY <1>1, <2>2, <2>3, <2>4 DEF G!Clock
<1>2. ASSUME NEW s, NEW m, NEW r, S!Clock(s, m, r)
      PROVE  serializer' \in {"IDLE", "STREAMING", "DONE"}
  BY <1>2 DEF S!Clock, S!vars, Types, DeviceTypes
<1>3. QED BY <1>1, <1>2, Parts, Zenon

LEMMA DeviceTypesKept ==
  ASSUME Supported, Types, NEW b, NEW t \in Tokens,
         DeviceClock(b, t), b.rx.bytes \in Nat
  PROVE  DeviceTypes'
<1>1. /\ lookup' \in {"IDLE", "START", "LOOKUP_TYPE", "LOOKUP_DESCRIPTOR", "SEND_DESCRIPTOR", "SEND_ZLP"}
      /\ length' \in Nat /\ position_in_stream' \in Nat /\ bytes_sent' \in Nat /\ fetched' \in Nat
  BY LookupTypes
<1>2. any_match' \in BOOLEAN /\ stall_latch' \in {{}, {"block"}, {"distributed"}}
  <2>1. any_match' = (any_match \/ packet.value = gen_value)
    BY DescriptorParts, Zenon
  <2>2. QED BY <2>1, LatchFacts
<1>3. generators' \in [{1} -> [state : {"IDLE", "STREAMING", "DONE"}, position_in_stream : Nat,
                               bytes_sent : Nat]]
  BY GeneratorParts
<1>4. token' \in Tokens
  <2>1. token' = t
    BY Parts, Zenon
  <2>2. QED BY <2>1
<1>5. QED BY <1>1, <1>2, <1>3, <1>4, DecoderTypes, HandlerTypes, TransmitterTypes DEF DeviceTypes

\* Nothing is sent in a clock in which nothing is asked for.
LEMMA CalmDevice ==
  ASSUME Supported, Types, Calm, NEW b, NEW t, DeviceClock(b, t), ~send_zlp(HandlerInputs(b, t)),
         ~HandlerInputs(b, t).data_requested \/ handler \notin H!simple_data \cup {"GET_DESCRIPTOR"}
  PROVE  /\ Calm' /\ ~HandlerInputs(b, t).descriptor_stall
         /\ stall_latch' = stall_latch
         /\ any_match' = (any_match \/ packet.value = gen_value)
<1> DEFINE h == HandlerInputs(b, t)
           i == DescriptorInputs(b, t)
<1>1. ~H!serializer_start(h) /\ ~i.start /\ h.descriptor_stall = D!stall(i)
  <2>1. /\ h.data_requested = C!data_requested(ControlInputs(b, t)) /\ h.descriptor_stall = D!stall(i)
        /\ i.start = (handler = "GET_DESCRIPTOR" /\ C!data_requested(ControlInputs(b, t)))
    BY Plain
  <2>2. ~i.start /\ ~H!serializer_start(h)
    BY <2>1 DEF H!serializer_start
  <2>3. QED BY <2>1, <2>2
<1>2. tx_state = "IDLE" /\ lookup = "IDLE" /\ serializer = "IDLE" /\ gen.state = "IDLE"
  BY DEF Calm
<1>3. ~D!stall(i) /\ stall_latch' = stall_latch
  <2>1. ~D!B!stall(packet.value)
    BY <1>2 DEF D!B!stall
  <2>2. QED BY <1>1, <2>1, LatchFacts, Zenon
<1>4. any_match' = (any_match \/ packet.value = gen_value)
  BY DescriptorParts, Zenon
<1>5. lookup' = "IDLE"
  <2>1. D!B!Clock(packet.value, packet.length, start_position, i.start, describing /\ G!stream_ready(b.tx_ready))
    BY DescriptorParts, Zenon
  <2> HIDE DEF i
  <2>2. QED BY <1>1, <1>2, <2>1
       DEF D!B!Clock, D!B!Idle, D!B!Start, D!B!LookupType, D!B!LookupDescriptor, D!B!SendDescriptor, D!B!SendZlp
<1>6. gen'.state = "IDLE"
  BY <1>1, <1>2, GeneratorParts DEF GeneratorClock, GeneratorStarts
<1>7. serializer' = "IDLE"
  BY <1>1, <1>2, Parts DEF S!Clock
<1>8. tx_state' = "IDLE"
  <2>1. ~send_zlp(h)
    OBVIOUS
  <2>2. ~S!out_valid
    BY <1>2 DEF S!out_valid
  <2>3. ~D!out_valid(h.descriptor)
    <3>1. \A g \in D!R!Selected(packet.value) : generators[g].state = "IDLE"
      BY <1>2, GeneratedFacts DEF gen
    <3>2. ~D!R!out_valid(packet.value)
      BY <3>1 DEF D!R!out_valid, D!R!Streaming
    <3>3. ~D!B!out_valid
      BY <1>2 DEF D!B!out_valid
    <3>4. h.descriptor.value = packet.value
      BY Plain
    <3>5. QED BY <3>2, <3>3, <3>4 DEF D!out_valid
  <2>4. ~out_valid(h)
    BY <2>1, <2>2, <2>3 DEF out_valid
  <2>5. QED BY <1>2, <2>4, Parts DEF G!Clock, G!Idle, G!SendPid, G!SendPayload, G!SendCrcFirst, G!SendCrcSecond
<1>9. QED BY <1>1, <1>3, <1>4, <1>5, <1>6, <1>7, <1>8 DEF Calm

\* Nothing starts in a quiet clock, but that the handler takes a request.
Still(b, t) ==
  /\ ~HandlerInputs(b, t).data_requested /\ ~HandlerInputs(b, t).status_requested
  /\ ~HandlerInputs(b, t).ack

LEMMA QuietIsStill ==
  ASSUME NEW b, NEW t, Quiet(b)
  PROVE  Still(b, t)
BY QuietInputs DEF Still

LEMMA StillDevice ==
  ASSUME Supported, Types, Calm, NEW b, NEW t, DeviceClock(b, t), Still(b, t)
  PROVE  /\ Calm'
         /\ handler' = IF handler = "IDLE" /\ received /\ packet.type = "STANDARD"
                       THEN HandlerState(packet) ELSE handler
         /\ handler = "IDLE" => Fresh'
         /\ handler # "IDLE" => UNCHANGED <<start_position, tx_data_pid>>
         /\ UNCHANGED <<expecting_ack, address, configuration, halts_cleared, stall_latch>>
         /\ any_match' = (any_match \/ packet.value = gen_value)
         /\ token' = t
<1> DEFINE h == HandlerInputs(b, t)
<1>1. /\ ~h.data_requested /\ ~h.status_requested /\ ~h.ack
      /\ h.setup = packet /\ h.received = received
  BY Plain DEF Still
<1>2. ~send_zlp(h)
  BY <1>1 DEF send_zlp, H!send_zlp, acm_send_zlp
<1>3. /\ Calm' /\ ~h.descriptor_stall /\ stall_latch' = stall_latch
      /\ any_match' = (any_match \/ packet.value = gen_value)
  BY <1>1, <1>2, CalmDevice, Zenon
<1>9. UNCHANGED <<address, configuration, halts_cleared>>
  BY <1>1, Parts DEF H!address_changed, H!config_changed, H!clear_endpoint_halt
<1>a. /\ handler' = IF handler = "IDLE" /\ received /\ packet.type = "STANDARD"
                    THEN HandlerState(packet) ELSE handler
      /\ handler = "IDLE" => Fresh'
      /\ handler # "IDLE" => UNCHANGED <<start_position, tx_data_pid>>
      /\ expecting_ack' = expecting_ack
  <2>1. H!Clock(h) /\ expecting_ack \in BOOLEAN
    BY Parts DEF Types, DeviceTypes
  <2> HIDE DEF h
  <2>2. CASE H!Idle(h)
    BY <1>1, <2>2 DEF H!Idle, HandlerState, Fresh
  <2>3. CASE H!HandleSimpleDataRequest(h)
    BY <1>1, <2>3 DEF H!HandleSimpleDataRequest, H!simple_data
  <2>4. CASE H!HandleWriteRequest(h)
    BY <1>1, <2>4 DEF H!HandleWriteRequest, H!register_writes
  <2>5. CASE H!GetDescriptor(h)
    <3>1. ~H!advances(h) /\ ~h.descriptor_stall
      BY <1>1, <1>3 DEF H!advances
    <3>2. H!awaits_ack(h) = expecting_ack
      BY <1>1, <2>1, <3>1 DEF H!awaits_ack
    <3>3. QED BY <1>1, <2>5, <3>1, <3>2 DEF H!GetDescriptor
  <2>6. CASE H!Unhandled(h)
    BY <1>1, <2>6 DEF H!Unhandled
  <2>7. QED BY <2>1, <2>2, <2>3, <2>4, <2>5, <2>6 DEF H!Clock
<1>b. QED BY <1>3, <1>9, <1>a, Parts, Zenon

LEMMA QuietDevice ==
  ASSUME Supported, Types, Calm, NEW b, NEW t, DeviceClock(b, t), Quiet(b)
  PROVE  /\ Calm'
         /\ handler' = IF handler = "IDLE" /\ received /\ packet.type = "STANDARD"
                       THEN HandlerState(packet) ELSE handler
         /\ handler = "IDLE" => Fresh'
         /\ handler # "IDLE" => UNCHANGED <<start_position, tx_data_pid>>
         /\ UNCHANGED <<expecting_ack, address, configuration, halts_cleared, stall_latch>>
         /\ any_match' = (any_match \/ packet.value = gen_value)
         /\ token' = t
<1>1. Still(b, t)
  BY QuietIsStill
<1>2. QED BY <1>1, StillDevice, Zenon

\* A packet that is not a good one with a DATA PID leaves nothing behind.
LEMMA NothingCaptured ==
  ASSUME Supported, Types, NEW b, NEW t, DeviceClock(b, t), ~b.rx.good
  PROVE  ~new_packet' /\ captured' = captured
<1>1. R!Deserialize(b.rx)
  BY Parts
<1>2. ASSUME NEW first, R!Captures(b.rx, first)
      PROVE  ~new_packet' /\ captured' = captured
  BY <1>2 DEF R!Captures
<1>3. QED BY <1>1, <1>2 DEF R!Deserialize

\* A good one of ten bytes is a request of its own: behind a damaged one it over-fills the buffer.
LEMMA PacketCaptured ==
  ASSUME Supported, Types, NEW b, NEW t, DeviceClock(b, t), b.rx.bytes = 10, new_packet'
  PROVE  captured' = b.rx.content
<1>1. R!Deserialize(b.rx) /\ position \in Int /\ position >= -1
  BY Parts DEF Types, DeviceTypes
<1>2. R!max_size_with_crc = 10
  BY DEF R!max_size_with_crc, R!setup_size
<1>3. CASE new_packet' = FALSE
  BY <1>3
<1>4. CASE R!Captures(b.rx, 0)
  BY <1>2, <1>4 DEF R!Captures
<1>5. CASE position # -1 /\ R!Captures(b.rx, position + 1)
  <2>1. position + 1 + b.rx.bytes > R!max_size_with_crc
    BY <1>1, <1>2, <1>5
  <2>2. new_packet' => position + 1 + b.rx.bytes <= R!max_size_with_crc
    BY <1>5 DEF R!Captures
  <2>3. QED BY <1>1, <1>2, <2>1, <2>2
<1>6. QED BY <1>1, <1>3, <1>4, <1>5, Zenon DEF R!Deserialize

\* The decoder looks at nothing but a packet behind a SETUP token.
LEMMA DecoderRests ==
  ASSUME Supported, Types, NEW b, NEW t, DeviceClock(b, t),
         decoder = "IDLE", ~(t.pid = "SETUP" /\ b.new_token)
  PROVE  decoder' = "IDLE" /\ ~received' /\ packet' = packet
<1>1. R!Decode(t.pid = "SETUP", b.new_token, b.tx_allowed)
  BY Parts
<1>2. QED BY <1>1 DEF R!Decode

LEMMA GeneratedPacket ==
  ASSUME Supported, HostTypes, Matching, packet.value = gen_value
  PROVE  GeneratedRead \/ IsGenerated(asked)
<1>1. packet # NoRequest
  <2>1. gen_value[1] > 0
    BY GeneratedFacts
  <2>2. NoRequest.value[1] = 0
    BY DEF NoRequest
  <2>3. QED BY <2>1, <2>2
<1>2. packet \in Requests
  BY <1>1 DEF HostTypes
<1>3. IsGenerated(packet)
  <2>1. packet.request = "GET_DESCRIPTOR"
    BY <1>2 DEF Supported, Served, gen_value
  <2>2. QED BY <2>1, GeneratedFacts
<1>4. packet = asked \/ \E k \in DOMAIN log : packet = log[k].request
  BY <1>1 DEF Matching
<1>5. QED BY <1>3, <1>4 DEF GeneratedRead

LEMMA MatchingKept ==
  ASSUME Supported, HostTypes, Matching, packet' = packet \/ packet' = asked,
         UNCHANGED <<asked, log>>, any_match' = (any_match \/ packet.value = gen_value),
         ~any_match' => "block" \notin stall_latch'
  PROVE  Matching'
<1>1. GeneratedRead' = GeneratedRead
  BY DEF GeneratedRead
<1>2. packet.value = gen_value => GeneratedRead \/ IsGenerated(asked)
  BY GeneratedPacket
<1>3. packet' # NoRequest => packet' = asked' \/ \E k \in DOMAIN log' : packet' = log'[k].request
  BY DEF Matching
<1>4. any_match' => GeneratedRead' \/ IsGenerated(asked')
  BY <1>1, <1>2 DEF Matching
<1>5. (Reading /\ ~IsGenerated(asked))' => ~GeneratedRead'
  BY <1>1 DEF Matching, Reading
<1>6. QED BY <1>3, <1>4, <1>5 DEF Matching

\* What all the quiet clocks within a request have in common.
LEMMA StillClocks ==
  ASSUME Supported, IInv, Calm, NEW b, NEW t \in Tokens,
         DeviceClock(b, t), Still(b, t), b.rx.bytes \in Nat,
         packet' = packet \/ packet' = asked, UNCHANGED <<asked, host_address, log>>,
         got' \in Seq(Nat), incoming' \in Seq(Nat), host_toggle' \in {0, 1},
         missed' \in BOOLEAN, unsettled' \in BOOLEAN
  PROVE  Types' /\ Matching' /\ AddressAgrees'
<1>1. Types /\ HostTypes /\ Matching /\ AddressAgrees
  BY DEF IInv, Types
<1>2. DeviceTypes'
  BY <1>1, DeviceTypesKept
<1>3. HostTypes'
  BY <1>1 DEF HostTypes
<1>4. /\ UNCHANGED <<address, stall_latch>>
      /\ any_match' = (any_match \/ packet.value = gen_value)
  BY <1>1, StillDevice, Zenon
<1>5. ~any_match' => "block" \notin stall_latch'
  BY <1>1, <1>4 DEF Matching
<1>6. Matching'
  BY <1>1, <1>4, <1>5, MatchingKept
<1>7. AddressAgrees'
  BY <1>1, <1>4 DEF AddressAgrees
<1>8. QED BY <1>2, <1>3, <1>6, <1>7 DEF Types

LEMMA QuietClocks ==
  ASSUME Supported, IInv, Calm, NEW b, NEW t \in Tokens,
         DeviceClock(b, t), Quiet(b), b.rx.bytes \in Nat,
         packet' = packet \/ packet' = asked, UNCHANGED <<asked, host_address, log>>,
         got' \in Seq(Nat), incoming' \in Seq(Nat), host_toggle' \in {0, 1},
         missed' \in BOOLEAN, unsettled' \in BOOLEAN
  PROVE  Types' /\ Matching' /\ AddressAgrees'
<1>1. Still(b, t)
  BY QuietIsStill
<1>2. QED BY <1>1, StillClocks

---------------------------------------------------------------------------
(* Clocks between answers *)

LEMMA AskedKept ==
  ASSUME UNCHANGED <<asked, configuration>>
  PROVE  /\ Wanted' = Wanted /\ Reading' = Reading /\ Expected' = Expected /\ FirstStage' = FirstStage
         /\ P!Result(asked)' = P!Result(asked) /\ P!Changes(asked)' = P!Changes(asked)
<1>1. Wanted' = Wanted /\ Reading' = Reading /\ Expected' = Expected /\ FirstStage' = FirstStage
  BY DEF Wanted, Reading, Expected, FirstStage
<1>2. P!Result(asked)' = P!Result(asked)
  BY DEF P!Result, P!StandardResult
<1>3. P!Changes(asked)' = P!Changes(asked)
  BY <1>2 DEF P!Changes
<1>4. QED BY <1>1, <1>2, <1>3

\* Between requests nothing stirs.
LEMMA IdleKept ==
  ASSUME Supported, IInv, stage = "idle", WhenIdle,
         NEW b, NEW t \in Tokens, DeviceClock(b, t), Quiet(b),
         ~b.rx.good, b.rx.bytes \in Nat, ~(t.pid = "SETUP" /\ b.new_token),
         UNCHANGED <<stage, requestVars, dataVars, excuseVars>>, wire' \in {"quiet", "elsewhere"}
  PROVE  IInv'
<1>1. Types /\ Calm
  BY DEF IInv, WhenIdle
<1>2. Types' /\ Matching' /\ AddressAgrees'
  <2>1. packet' = packet
    BY <1>1, DecoderRests DEF WhenIdle
  <2>2. QED BY <1>1, <2>1, QuietClocks DEF requestVars, dataVars, excuseVars, Types, HostTypes
<1>3. decoder' = "IDLE" /\ ~received'
  BY <1>1, DecoderRests DEF WhenIdle
<1>4. ~new_packet'
  BY <1>1, NothingCaptured
<1>5. Calm' /\ handler' = "IDLE"
  <2>1. /\ Calm'
        /\ handler' = IF handler = "IDLE" /\ received /\ packet.type = "STANDARD"
                      THEN HandlerState(packet) ELSE handler
    BY <1>1, QuietDevice, Zenon
  <2>2. QED BY <2>1 DEF WhenIdle
<1>6. WhenIdle'
  BY <1>3, <1>4, <1>5 DEF WhenIdle, requestVars, dataVars, excuseVars
<1>7. QED BY <1>2, <1>6 DEF IInv

\* While the host makes a SETUP transaction that no complete packet has reached.
LEMMA SetupKept ==
  ASSUME Supported, IInv, stage = "setup", InSetup,
         \/ wire \in {"quiet", "setup", "elsewhere"}
         \/ wire = "waiting" /\ ~new_packet /\ ~received /\ decoder # "INTERPACKET_DELAY",
         NEW b, NEW t \in Tokens, DeviceClock(b, t), Quiet(b),
         b.rx.bytes \in Nat, b.new_token \/ t = token,
         t.pid = "SETUP" /\ b.new_token => t.endpoint = 0,
         UNCHANGED <<stage, requestVars, dataVars, unsettled>>, missed' \in BOOLEAN,
         wire' \in {"quiet", "setup", "waiting", "elsewhere"},
         new_packet' => wire' = "waiting" /\ captured' = asked
  PROVE  IInv'
<1>1. Types /\ Calm /\ Len(log) < MaxRequests
  BY DEF IInv, InSetup
<1>2. /\ decoder \in {"IDLE", "READ_DATA"} /\ ~received /\ ~new_packet
      /\ decoder = "READ_DATA" => token.pid = "SETUP" /\ token.endpoint = 0 /\ control = "SETUP"
  BY <1>1 DEF InSetup, Types, DeviceTypes, Heard
<1>3. /\ packet' = packet /\ ~received' /\ decoder' \in {"IDLE", "READ_DATA"}
      /\ decoder' = "READ_DATA" => (b.new_token /\ t.pid = "SETUP") \/ (~b.new_token /\ decoder = "READ_DATA")
  <2>1. R!Decode(t.pid = "SETUP", b.new_token, b.tx_allowed)
    BY Parts
  <2>2. ~R!IsSetup
    BY <1>2 DEF R!IsSetup
  <2>3. QED BY <1>2, <2>1, <2>2 DEF R!Decode
<1>4. Types' /\ Matching' /\ AddressAgrees'
  BY <1>1, <1>3, QuietClocks DEF requestVars, dataVars, Types, HostTypes
<1>5. decoder' = "READ_DATA" => Heard("SETUP")' /\ control' = "SETUP"
  <2>1. token' = t /\ C!Clock(ControlInputs(b, t))
    BY Parts
  <2>2. /\ ControlInputs(b, t).pid = t.pid /\ ControlInputs(b, t).new_token = b.new_token
        /\ ControlInputs(b, t).received = received
    BY DEF ControlInputs
  <2>3. ASSUME b.new_token, t.pid = "SETUP"
        PROVE  control' = "SETUP"
    BY <1>2, <2>1, <2>2, <2>3 DEF C!Clock, C!Setup, C!Stage, C!Restarts
  <2>4. ASSUME control = "SETUP"
        PROVE  control' = "SETUP"
    BY <1>2, <2>1, <2>2, <2>4 DEF C!Clock, C!Setup, C!Stage
  <2>5. QED BY <1>2, <1>3, <2>1, <2>3, <2>4 DEF Heard
<1>6. /\ Calm' /\ handler' = handler
      /\ handler # "IDLE" => UNCHANGED <<start_position, tx_data_pid>>
      /\ UNCHANGED configuration
  <2>1. /\ Calm' /\ UNCHANGED configuration
        /\ handler' = IF handler = "IDLE" /\ received /\ packet.type = "STANDARD"
                      THEN HandlerState(packet) ELSE handler
        /\ handler # "IDLE" => UNCHANGED <<start_position, tx_data_pid>>
    BY <1>1, QuietDevice, Zenon
  <2>2. QED BY <1>2, <2>1
<1>7. handler' = "IDLE" \/ (handler' = Expected' /\ packet' = asked' /\ (Reading' => Fresh'))
  <2>1. Expected' = Expected /\ Reading' = Reading
    BY <1>6, AskedKept DEF requestVars
  <2>2. QED BY <1>3, <1>6, <2>1 DEF InSetup, Fresh, requestVars
<1>8. InSetup'
  BY <1>3, <1>5, <1>6, <1>7 DEF InSetup, requestVars, dataVars
<1>9. QED BY <1>1, <1>4, <1>8 DEF IInv, requestVars

\* The same for the stages behind it.
LEMMA ReadKept ==
  ASSUME ReadSoFar, UNCHANGED <<asked, configuration, got, host_toggle, start_position, tx_data_pid>>,
         wire' # "ack"
  PROVE  ReadSoFar'
<1>1. Wanted' = Wanted
  BY AskedKept
<1>2. Upto(got, Len(got))' = Upto(got, Len(got))
  BY <1>1 DEF Upto
<1>3. Sending' = Sending /\ Repeating' = Repeating
  BY DEF Sending, Repeating
<1>4. QED BY <1>1, <1>2, <1>3 DEF ReadSoFar

LEMMA RequestGoesOn ==
  ASSUME Supported, IInv, InRequest, Calm, incoming = << >>, stage \notin {"idle", "setup"},
         NEW b, NEW t \in Tokens, DeviceClock(b, t), Still(b, t),
         b.rx.bytes \in Nat, b.new_token \/ t = token,
         b.new_token => \/ t.pid = "IN" /\ t.endpoint = 1
                        \/ stage \in {"data_in", "status_in"} /\ t.pid = "IN" /\ t.endpoint = 0
                        \/ stage \in {"data_out", "status_out"} /\ t.pid = "OUT" /\ t.endpoint = 0
                        \/ stage \in {"data_out", "status_out"} /\ t.pid = "PING" /\ t.endpoint = 0,
         UNCHANGED <<stage, requestVars, dataVars>>, missed' \in BOOLEAN,
         unsettled' \in BOOLEAN, Over' = Over, unsettled' => stage # "data_out" /\ ~P!Changes(asked),
         unsettled' /\ stage = "status_in" => P!Result(asked) = P!Stalled,
         wire' \in {"quiet", "asked", "out", "sent", "waiting", "device_ack", "elsewhere"},
         wire' = "device_ack" => stage \in {"data_out", "status_out"},
         new_packet' => wire' = "sent",
         wire' = "waiting" => missed' \/ unsettled',
         wire' = "asked" => /\ ~missed'
                            /\ t.endpoint = 0 /\ t.pid = IF stage \in {"data_in", "status_in"} THEN "IN" ELSE "PING",
         wire' \in {"out", "sent"} => /\ stage \in {"data_out", "status_out"}
                                      /\ missed' \/ (t.pid = "OUT" /\ t.endpoint = 0)
  PROVE  IInv'
<1>1. Types /\ Len(log) < MaxRequests
  BY DEF IInv
<1>2. /\ decoder = "IDLE" /\ ~received /\ packet = asked /\ asked \in Requests
      /\ handler = (IF Over THEN "IDLE" ELSE Expected)
  BY Zenon DEF InRequest
<1>3. ~(t.pid = "SETUP" /\ b.new_token)
  OBVIOUS
<1>4. packet' = packet /\ decoder' = "IDLE" /\ ~received'
  BY <1>1, <1>2, <1>3, DecoderRests
<1>5. Types' /\ Matching' /\ AddressAgrees'
  BY <1>1, <1>4, StillClocks DEF requestVars, dataVars, Types, HostTypes
<1>6. /\ Calm' /\ UNCHANGED <<configuration, handler, expecting_ack>>
      /\ handler # "IDLE" => UNCHANGED <<start_position, tx_data_pid>>
  <2>1. /\ Calm' /\ UNCHANGED <<configuration, expecting_ack>>
        /\ handler' = IF handler = "IDLE" /\ received /\ packet.type = "STANDARD"
                      THEN HandlerState(packet) ELSE handler
        /\ handler # "IDLE" => UNCHANGED <<start_position, tx_data_pid>>
    BY <1>1, StillDevice, Zenon
  <2>2. QED BY <1>2, <2>1
<1>7. asked' = asked /\ got' = got /\ incoming' = incoming /\ host_toggle' = host_toggle
  BY DEF requestVars, dataVars
<1>8. /\ Wanted' = Wanted /\ Reading' = Reading /\ Expected' = Expected
      /\ P!Result(asked)' = P!Result(asked) /\ P!Changes(asked)' = P!Changes(asked)
  BY <1>6, <1>7, AskedKept
<1>a. token' = t /\ C!Clock(ControlInputs(b, t))
      /\ ControlInputs(b, t).pid = t.pid /\ ControlInputs(b, t).new_token = b.new_token
      /\ ControlInputs(b, t).received = received /\ ControlInputs(b, t).targeted = (t.endpoint = 0)
  BY Parts DEF ControlInputs
<1>b. control \in {"DATA_IN", "DATA_OUT", "STATUS_IN", "STATUS_OUT"}
  BY DEF InRequest, InDataIn, InDataOut, InStatusIn, InStatusOut
<1>c. control' = IF b.new_token /\ t.endpoint = 0 /\ control = "DATA_IN" /\ t.pid \in {"OUT", "PING"} THEN "STATUS_OUT"
                 ELSE IF b.new_token /\ t.endpoint = 0 /\ control = "DATA_OUT" /\ t.pid = "IN" THEN "STATUS_IN"
                 ELSE control
  <2>1. ~C!Restarts(ControlInputs(b, t))
    BY <1>3, <1>a DEF C!Restarts
  <2>2. QED BY <1>a, <1>b, <2>1 DEF C!Clock, C!Setup, C!Stage
<1>d. CASE stage = "data_in" /\ InDataIn
  <2>1. control' = "DATA_IN"
    BY <1>c, <1>d DEF InDataIn
  <2>2. wire' = "asked" => Heard("IN")'
    BY <1>a, <1>d DEF Heard
  <2>3. handler' = "GET_DESCRIPTOR" => ReadSoFar'
    BY <1>6, <1>7, <1>d, ReadKept DEF InDataIn
  <2>4. InDataIn'
    BY <1>6, <1>7, <1>d, <2>1, <2>2, <2>3 DEF InDataIn
  <2>5. InRequest'
    BY <1>2, <1>4, <1>6, <1>7, <1>8, <1>d, <2>4 DEF InRequest
  <2>6. QED BY <1>1, <1>5, <1>7, <2>5 DEF IInv, requestVars
<1>e. CASE stage = "data_out" /\ InDataOut
  <2>1. control' = "DATA_OUT" /\ ~Heard("IN")'
    BY <1>a, <1>c, <1>e DEF InDataOut, Heard
  <2>2. (wire' = "asked" => Heard("PING")') /\ (wire' \in {"out", "sent"} /\ ~missed' => Heard("OUT")')
    BY <1>a, <1>e DEF Heard
  <2>3. InDataOut'
    BY <1>7, <1>e, <2>1, <2>2 DEF InDataOut
  <2>4. InRequest'
    BY <1>2, <1>4, <1>6, <1>7, <1>8, <1>e, <2>3 DEF InRequest
  <2>5. QED BY <1>1, <1>5, <1>7, <2>4 DEF IInv, requestVars
<1>f. CASE stage = "status_in" /\ InStatusIn
  <2>1. control' \in {"STATUS_IN", "DATA_OUT"} /\ (asked.length = 0 \/ Heard("IN")' => control' = "STATUS_IN")
    BY <1>a, <1>c, <1>f DEF InStatusIn, Heard
  <2>2. wire' = "asked" => Heard("IN")'
    BY <1>a, <1>f DEF Heard
  <2>3. InStatusIn'
    BY <1>7, <1>8, <1>f, <2>1, <2>2 DEF InStatusIn
  <2>4. InRequest'
    BY <1>2, <1>4, <1>6, <1>7, <1>8, <1>f, <2>3 DEF InRequest
  <2>5. QED BY <1>1, <1>5, <1>7, <2>4 DEF IInv, requestVars
<1>g. CASE stage = "status_out" /\ InStatusOut
  <2>1. control' \in {"DATA_IN", "STATUS_OUT"} /\ (Heard("OUT")' \/ Heard("PING")' => control' = "STATUS_OUT")
    BY <1>a, <1>c, <1>g DEF InStatusOut, Heard
  <2>2. (wire' = "asked" => Heard("PING")') /\ (wire' \in {"out", "sent"} /\ ~missed' => Heard("OUT")')
    BY <1>a, <1>g DEF Heard
  <2>3. P!Done(got)' = P!Done(got)
    BY <1>7 DEF P!Done
  <2>4. InStatusOut'
    BY <1>7, <1>8, <1>g, <2>1, <2>2, <2>3 DEF InStatusOut
  <2>5. InRequest'
    BY <1>2, <1>4, <1>6, <1>7, <1>8, <1>g, <2>4 DEF InRequest
  <2>6. QED BY <1>1, <1>5, <1>7, <2>5 DEF IInv, requestVars
<1>h. QED BY <1>d, <1>e, <1>f, <1>g DEF InRequest

\* Most of the clocks decide nothing.
LEMMA RequestKept ==
  ASSUME Supported, IInv, InRequest, Calm, incoming = << >>, stage \notin {"idle", "setup"},
         wire \notin {"device_ack", "device_stall"},
         NEW b, NEW t \in Tokens, DeviceClock(b, t), Quiet(b),
         b.rx.bytes \in Nat, b.new_token \/ t = token,
         b.new_token => \/ t.pid = "IN" /\ t.endpoint = 1
                        \/ stage \in {"data_in", "status_in"} /\ t.pid = "IN" /\ t.endpoint = 0
                        \/ stage \in {"data_out", "status_out"} /\ t.pid = "OUT" /\ t.endpoint = 0
                        \/ stage \in {"data_out", "status_out"} /\ t.pid = "PING" /\ t.endpoint = 0,
         UNCHANGED <<stage, requestVars, dataVars, unsettled>>, missed' \in BOOLEAN,
         wire' \in {"quiet", "asked", "out", "sent", "waiting", "elsewhere"},
         new_packet' => wire' = "sent",
         wire' = "waiting" => missed' \/ unsettled,
         wire' = "asked" => /\ ~missed'
                            /\ t.endpoint = 0 /\ t.pid = IF stage \in {"data_in", "status_in"} THEN "IN" ELSE "PING",
         wire' \in {"out", "sent"} => /\ stage \in {"data_out", "status_out"}
                                      /\ missed' \/ (t.pid = "OUT" /\ t.endpoint = 0)
  PROVE  IInv'
<1>1. unsettled \in BOOLEAN
  BY DEF IInv, Types, HostTypes
<1>2. Over' = Over
  BY DEF Over
<1>3. unsettled => stage # "data_out" /\ ~P!Changes(asked)
  BY DEF InRequest, InDataOut
<1>4. unsettled' = unsettled /\ UNCHANGED <<stage, requestVars, dataVars>> /\ Still(b, t)
  BY QuietIsStill
<1>5. unsettled /\ stage = "status_in" => P!Result(asked) = P!Stalled
  BY DEF InRequest, InStatusIn
<1>6. QED BY <1>1, <1>2, <1>3, <1>4, <1>5, RequestGoesOn

LEMMA Stages ==
  ASSUME IInv
  PROVE  \/ stage = "idle" /\ WhenIdle
         \/ stage = "setup" /\ InSetup
         \/ stage \in {"data_in", "data_out", "status_in", "status_out"} /\ InRequest
BY DEF IInv, InRequest

\* The clocks in which the bus is silent or brings a token, ...
LEMMA QuietBuses ==
  /\ Quiet(Nothing) /\ ~Nothing.rx.good /\ Nothing.rx.bytes \in Nat /\ ~Nothing.new_token
  /\ LET b == [Nothing EXCEPT !.rx = R!TokenPacket, !.new_token = TRUE]
     IN Quiet(b) /\ ~b.rx.good /\ b.rx.bytes \in Nat /\ b.new_token
BY DEF Nothing, R!NoPacket, R!TokenPacket, Quiet

\* ... a packet, ...
LEMMA PacketBuses ==
  ASSUME NEW rx, rx.bytes \in Nat
  PROVE  LET b == [Nothing EXCEPT !.rx = rx]
         IN Quiet(b) /\ b.rx = rx /\ b.rx.bytes \in Nat /\ ~b.new_token
BY DEF Nothing, Quiet

LEMMA AddressedDevice ==
  ASSUME IInv, NEW pid, NEW next, Token(pid, next)
  PROVE  /\ wire = "quiet" /\ wire' = next /\ ~missed' /\ missed' = FALSE
         /\ DeviceClock([Nothing EXCEPT !.rx = R!TokenPacket, !.new_token = TRUE], [pid |-> pid, endpoint |-> 0])
         /\ UNCHANGED <<stage, requestVars, dataVars, unsettled>>
BY DEF IInv, AddressAgrees, Token

LEMMA BeginKeeps ==
  ASSUME Supported, IInv, NEW r \in Requests, Begin(r)
  PROVE  IInv'
<1>1. /\ stage = "idle" /\ wire = "quiet" /\ Len(log) < MaxRequests
      /\ stage' = "setup" /\ asked' = r /\ wire' = wire
      /\ DeviceClock(Nothing, token) /\ UNCHANGED <<host_address, log, dataVars, excuseVars>>
      /\ MixedReads \/ r.request # "GET_DESCRIPTOR" \/ IsGenerated(r) \/ ~GeneratedRead
  BY DEF Begin, QuietClock, GeneratedRead
<1>2. WhenIdle /\ Types /\ Matching /\ AddressAgrees /\ Calm
  BY <1>1, Stages DEF IInv, WhenIdle
<1>3. token \in Tokens
  BY <1>2 DEF Types, DeviceTypes
<1>4. decoder' = "IDLE" /\ ~received' /\ packet' = packet /\ ~new_packet'
  BY <1>1, <1>2, QuietBuses, DecoderRests, NothingCaptured DEF WhenIdle
<1>5. /\ Calm' /\ UNCHANGED <<address, stall_latch>> /\ handler' = "IDLE"
      /\ any_match' = (any_match \/ packet.value = gen_value)
  <2>1. /\ Calm' /\ UNCHANGED <<address, stall_latch>>
        /\ handler' = IF handler = "IDLE" /\ received /\ packet.type = "STANDARD"
                      THEN HandlerState(packet) ELSE handler
        /\ any_match' = (any_match \/ packet.value = gen_value)
    BY <1>1, <1>2, QuietBuses, QuietDevice, Zenon
  <2>2. QED BY <1>2, <2>1 DEF WhenIdle
<1>6. Types'
  <2>1. DeviceTypes'
    BY <1>1, <1>2, <1>3, QuietBuses, DeviceTypesKept
  <2>2. HostTypes'
    BY <1>1, <1>2, <1>4 DEF Types, HostTypes, dataVars, excuseVars
  <2>3. QED BY <2>1, <2>2 DEF Types
<1>7. Matching'
  <2>1. asked = NoRequest /\ ~IsGenerated(asked)
    BY <1>2 DEF WhenIdle, IsGenerated, NoRequest
  <2>2. GeneratedRead' = GeneratedRead
    BY <1>1 DEF GeneratedRead
  <2>3. any_match' => GeneratedRead
    BY <1>2, <1>5, <2>1, GeneratedPacket DEF Types, Matching
  <2>4. packet' # NoRequest => \E k \in DOMAIN log' : packet' = log'[k].request
    BY <1>1, <1>2, <1>4, <2>1 DEF Matching
  <2>5. (Reading /\ ~IsGenerated(asked))' => ~GeneratedRead
    BY <1>1 DEF Reading, Supported
  <2>6. ~any_match' => "block" \notin stall_latch'
    BY <1>2, <1>5 DEF Matching
  <2>7. QED BY <2>2, <2>3, <2>4, <2>5, <2>6 DEF Matching
<1>8. AddressAgrees'
  BY <1>1, <1>2, <1>5 DEF AddressAgrees
<1>9. InSetup'
  BY <1>1, <1>2, <1>4, <1>5 DEF InSetup, WhenIdle, dataVars, excuseVars
<1>a. QED BY <1>1, <1>6, <1>7, <1>8, <1>9 DEF IInv

LEMMA AskKeeps ==
  ASSUME Supported, IInv, AskSetup \/ AskIn \/ AskOut \/ Ping
  PROVE  IInv'
<1> DEFINE b == [Nothing EXCEPT !.rx = R!TokenPacket, !.new_token = TRUE]
<1>1. Quiet(b) /\ ~b.rx.good /\ b.rx.bytes \in Nat /\ b.new_token
  BY QuietBuses, Zenon
<1>2. PICK pid \in {"SETUP", "IN", "OUT", "PING"}, next \in {"setup", "asked", "out"} :
        /\ Token(pid, next)
        /\ \/ stage = "setup" /\ pid = "SETUP" /\ next = "setup"
           \/ stage \in {"data_in", "status_in"} /\ pid = "IN" /\ next = "asked"
           \/ stage \in {"data_out", "status_out"} /\ pid = "OUT" /\ next = "out"
           \/ stage \in {"data_out", "status_out"} /\ pid = "PING" /\ next = "asked"
  BY DEF AskSetup, AskIn, AskOut, Ping
<1> DEFINE t == [pid |-> pid, endpoint |-> 0]
<1>3. /\ wire = "quiet" /\ wire' = next /\ ~missed' /\ missed' \in BOOLEAN
      /\ DeviceClock(b, t) /\ UNCHANGED <<stage, requestVars, dataVars, unsettled>>
  BY <1>2, AddressedDevice
<1>4. t \in Tokens /\ t.pid = pid /\ t.endpoint = 0
  BY <1>2 DEF Tokens
<1> HIDE DEF b
<1>5. ~new_packet' /\ Types
  BY <1>1, <1>3, NothingCaptured DEF IInv
<1>6. CASE stage = "setup"
  <2>1. InSetup /\ pid = "SETUP" /\ next = "setup"
    BY <1>2, <1>6, Stages
  <2>2. QED BY <1>1, <1>3, <1>4, <1>5, <1>6, <2>1, SetupKept
<1>7. CASE stage \in {"data_in", "status_in", "data_out", "status_out"}
  <2>1. InRequest
    BY <1>7, Stages
  <2>2. Calm /\ incoming = << >>
    BY <1>3, <2>1 DEF InRequest
  <2>3. stage \in {"data_in", "status_in"} => pid = "IN" /\ next = "asked"
    BY <1>2, <1>7
  <2>4. stage \in {"data_out", "status_out"} => (pid = "OUT" /\ next = "out") \/ (pid = "PING" /\ next = "asked")
    BY <1>2, <1>7
  <2>5. CASE stage \in {"data_in", "status_in"}
    BY <1>1, <1>3, <1>4, <1>5, <2>1, <2>2, <2>3, <2>5, RequestKept
  <2>6. CASE stage \in {"data_out", "status_out"}
    BY <1>1, <1>3, <1>4, <1>5, <2>1, <2>2, <2>4, <2>6, RequestKept
  <2>7. QED BY <1>7, <2>5, <2>6
<1>8. QED BY <1>2, <1>6, <1>7

LEMMA TokenLostKeeps ==
  ASSUME Supported, IInv, TokenLost
  PROVE  IInv'
<1>1. /\ wire = "quiet" /\ stage \in {"setup", "data_out", "status_out"} /\ missed' /\ missed' \in BOOLEAN
      /\ wire' = IF stage = "setup" THEN "setup" ELSE "out"
      /\ DeviceClock(Nothing, token) /\ UNCHANGED <<stage, requestVars, dataVars, unsettled>>
  BY DEF TokenLost, QuietClock
<1>2. Types /\ token \in Tokens
  BY DEF IInv, Types, DeviceTypes
<1>3. ~new_packet'
  BY <1>1, <1>2, QuietBuses, NothingCaptured
<1>4. CASE stage = "setup"
  <2>1. InSetup
    BY <1>4, Stages
  <2>2. QED BY <1>1, <1>2, <1>3, <1>4, <2>1, QuietBuses, SetupKept
<1>5. CASE stage \in {"data_out", "status_out"}
  <2>1. InRequest
    BY <1>5, Stages
  <2>2. Calm /\ incoming = << >>
    BY <1>1, <2>1 DEF InRequest
  <2>3. Quiet(Nothing) /\ Nothing.rx.bytes \in Nat /\ ~Nothing.new_token /\ wire' = "out"
    BY <1>1, <1>5, QuietBuses
  <2>4. /\ wire' \in {"quiet", "asked", "out", "sent", "waiting", "elsewhere"}
        /\ ~(wire' = "waiting") /\ ~(wire' = "asked")
        /\ stage \in {"data_out", "status_out"} /\ (missed' \/ (token.pid = "OUT" /\ token.endpoint = 0))
        /\ stage \notin {"idle", "setup"} /\ wire \notin {"device_ack", "device_stall"}
    BY <1>1, <1>5, <2>3
  <2>5. QED BY <1>1, <1>2, <1>3, <2>1, <2>2, <2>3, <2>4, RequestKept, Zenon
<1>6. QED BY <1>1, <1>4, <1>5

\* The clocks of the other endpoint, and those in which a transaction is over.
LEMMA LeftAlone ==
  ASSUME Supported, IInv, NEW b, NEW t \in Tokens, DeviceClock(b, t), Quiet(b),
         ~b.rx.good, b.rx.bytes \in Nat,
         (b.new_token /\ t.pid = "IN" /\ t.endpoint = 1) \/ (~b.new_token /\ t = token),
         wire \in {"quiet", "elsewhere"}, wire' \in {"quiet", "elsewhere"},
         UNCHANGED <<stage, requestVars, dataVars, excuseVars>>
  PROVE  IInv'
<1>1. Types /\ ~new_packet'
  BY NothingCaptured DEF IInv
<1>2. ~(t.pid = "SETUP" /\ b.new_token)
  OBVIOUS
<1>3. missed' = missed /\ unsettled' = unsettled /\ missed' \in BOOLEAN
  BY <1>1 DEF excuseVars, Types, HostTypes
<1>4. CASE stage = "idle"
  <2>1. WhenIdle
    BY <1>4, Stages
  <2>2. QED BY <1>2, <1>4, <2>1, IdleKept
<1>5. CASE stage = "setup"
  <2>1. InSetup
    BY <1>5, Stages
  <2>2. QED BY <1>1, <1>2, <1>3, <1>5, <2>1, SetupKept
<1>6. CASE stage \notin {"idle", "setup"}
  <2>1. InRequest
    BY <1>6, Stages
  <2>2. Calm /\ incoming = << >>
    BY <2>1 DEF InRequest
  <2>3. QED BY <1>1, <1>2, <1>3, <1>6, <2>1, <2>2, RequestKept
<1>7. QED BY <1>4, <1>5, <1>6

LEMMA AskElsewhereKeeps ==
  ASSUME Supported, IInv, AskElsewhere
  PROVE  IInv'
<1> DEFINE b == [Nothing EXCEPT !.rx = R!TokenPacket, !.new_token = TRUE]
           t == [pid |-> "IN", endpoint |-> 1]
<1>1. /\ wire = "quiet" /\ wire' = "elsewhere" /\ DeviceClock(b, t)
      /\ UNCHANGED <<stage, requestVars, dataVars, excuseVars>>
  BY DEF AskElsewhere
<1>2. Quiet(b) /\ ~b.rx.good /\ b.rx.bytes \in Nat /\ b.new_token
  BY QuietBuses, Zenon
<1>3. t \in Tokens /\ t.pid = "IN" /\ t.endpoint = 1
  BY DEF Tokens
<1> HIDE DEF b
<1>4. QED BY <1>1, <1>2, <1>3, LeftAlone

LEMMA AnsweredElsewhereKeeps ==
  ASSUME Supported, IInv, NEW ack \in BOOLEAN, AnsweredElsewhere(ack)
  PROVE  IInv'
<1> DEFINE b == [Nothing EXCEPT !.ack = ack]
<1>1. /\ wire = "elsewhere" /\ wire' = "quiet" /\ DeviceClock(b, token) /\ ~ack
      /\ UNCHANGED <<stage, requestVars, dataVars, excuseVars>>
  BY DEF AnsweredElsewhere, Arrives, Supported
<1>2. Quiet(b) /\ ~b.rx.good /\ b.rx.bytes \in Nat /\ ~b.new_token
  BY <1>1 DEF Nothing, R!NoPacket, Quiet
<1>3. token \in Tokens
  BY DEF IInv, Types, DeviceTypes
<1> HIDE DEF b
<1>4. QED BY <1>1, <1>2, <1>3, LeftAlone

\* What the host sends comes through, or not whole.
LEMMA HostPackets ==
  ASSUME Supported, IInv, wire \in {"setup", "out"}
  PROVE  /\ HostPacket.bytes \in Nat /\ HostPacket.content = IF stage = "setup" THEN asked ELSE NoRequest
         /\ stage = "setup" => HostPacket.bytes = 10
         /\ [HostPacket EXCEPT !.good = FALSE].bytes \in Nat /\ ~[HostPacket EXCEPT !.good = FALSE].good
         /\ R!NoPacket.bytes \in Nat /\ ~R!NoPacket.good
         /\ stage = "setup" <=> wire = "setup"
<1>1. asked \in Requests => asked.length \in Nat
  BY DEF Supported, Served
<1>2. stage = "setup" <=> wire = "setup"
  BY Stages DEF WhenIdle, InSetup, InRequest, InDataIn, InDataOut, InStatusIn, InStatusOut
<1>3. asked.length \in Nat
  BY <1>1, Stages DEF WhenIdle, InSetup, InRequest
<1>4. QED BY <1>2, <1>3 DEF HostPacket, R!max_size_with_crc, R!setup_size, R!NoPacket

LEMMA DataArrivesKeeps ==
  ASSUME Supported, IInv, DataArrives
  PROVE  IInv'
<1> DEFINE b == [Nothing EXCEPT !.rx = HostPacket]
<1>1. /\ wire \in {"setup", "out"} /\ wire' = (IF wire = "setup" THEN "waiting" ELSE "sent")
      /\ DeviceClock(b, token) /\ UNCHANGED <<stage, requestVars, dataVars, excuseVars>>
  BY DEF DataArrives, Arrives
<1>2. Quiet(b) /\ b.rx = HostPacket /\ b.rx.bytes \in Nat /\ ~b.new_token
  BY <1>1, HostPackets, PacketBuses, Zenon
<1>3. Types /\ token \in Tokens /\ missed' = missed /\ missed' \in BOOLEAN
  BY <1>1 DEF IInv, Types, DeviceTypes, HostTypes, excuseVars
<1> HIDE DEF b
<1>4. CASE stage = "setup"
  <2>1. InSetup /\ wire = "setup" /\ wire' = "waiting"
    BY <1>1, <1>4, Stages, HostPackets
  <2>2. new_packet' => captured' = asked
    <3>1. HostPacket.bytes = 10 /\ HostPacket.content = asked
      BY <1>1, <1>4, HostPackets
    <3>2. QED BY <1>1, <1>2, <1>3, <3>1, PacketCaptured, Zenon
  <2>3. UNCHANGED unsettled
    BY <1>1 DEF excuseVars
  <2>4. QED BY <1>1, <1>2, <1>3, <1>4, <2>1, <2>2, <2>3, SetupKept
<1>5. CASE stage # "setup"
  <2>1. InRequest /\ wire = "out" /\ wire' = "sent" /\ stage # "idle"
    BY <1>1, <1>5, Stages, HostPackets DEF WhenIdle
  <2>2. Calm /\ incoming = << >> /\ stage \in {"data_out", "status_out"} /\ (~missed => Heard("OUT"))
    BY <2>1 DEF InRequest, InDataIn, InDataOut, InStatusIn, InStatusOut
  <2>3. UNCHANGED unsettled
    BY <1>1 DEF excuseVars
  <2>4. /\ wire' \in {"quiet", "asked", "out", "sent", "waiting", "elsewhere"}
        /\ ~(wire' = "waiting") /\ ~(wire' = "asked") /\ wire' = "sent"
        /\ stage \in {"data_out", "status_out"} /\ (missed' \/ (token.pid = "OUT" /\ token.endpoint = 0))
        /\ stage \notin {"idle", "setup"} /\ wire \notin {"device_ack", "device_stall"}
    BY <1>3, <2>1, <2>2 DEF Heard
  <2>5. QED BY <1>1, <1>2, <1>3, <2>1, <2>2, <2>3, <2>4, RequestKept, Zenon
<1>6. QED BY <1>4, <1>5

LEMMA DataLostKeeps ==
  ASSUME Supported, IInv, NEW damaged \in BOOLEAN, DataLost(damaged)
  PROVE  IInv'
<1> DEFINE rx == IF damaged THEN [HostPacket EXCEPT !.good = FALSE] ELSE R!NoPacket
           b == [Nothing EXCEPT !.rx = rx]
<1>1. /\ wire \in {"setup", "out"} /\ wire' = "waiting" /\ missed' /\ missed' \in BOOLEAN
      /\ DeviceClock(b, token) /\ UNCHANGED <<stage, requestVars, dataVars, unsettled>>
  BY DEF DataLost, Arrives
<1>2. rx.bytes \in Nat /\ ~rx.good
  BY <1>1, HostPackets
<1> HIDE DEF rx
<1>3. Quiet(b) /\ b.rx = rx /\ b.rx.bytes \in Nat /\ ~b.new_token
  BY <1>2, PacketBuses, Zenon
<1>4. Types /\ token \in Tokens
  BY DEF IInv, Types, DeviceTypes
<1> HIDE DEF b
<1>5. ~new_packet'
  BY <1>1, <1>2, <1>3, <1>4, NothingCaptured
<1>6. CASE stage = "setup"
  <2>1. InSetup
    BY <1>6, Stages
  <2>2. QED BY <1>1, <1>3, <1>4, <1>5, <1>6, <2>1, HostPackets, SetupKept
<1>7. CASE stage # "setup"
  <2>1. InRequest /\ wire = "out" /\ stage # "idle"
    BY <1>1, <1>7, Stages, HostPackets DEF WhenIdle
  <2>2. Calm /\ incoming = << >>
    BY <2>1 DEF InRequest
  <2>3. QED BY <1>1, <1>3, <1>4, <1>5, <1>7, <2>1, <2>2, RequestKept
<1>8. QED BY <1>6, <1>7

---------------------------------------------------------------------------
(* The ends of requests *)

LEMMA CompleteKeeps ==
  ASSUME Supported, IInv, asked \in Requests,
         NEW result \in [status : {"done", "stall", "unknown"}, data : Seq(Nat)], Complete(result),
         DeviceTypes', Calm', handler' = "IDLE", decoder' = "IDLE", ~received', ~new_packet',
         packet' = packet, any_match' = (any_match \/ packet.value = gen_value),
         ~any_match' => "block" \notin stall_latch', AddressAgrees'
  PROVE  IInv'
<1>1. Types /\ Matching
  BY DEF IInv
<1>2. /\ log' = Append(log, [request |-> asked, result |-> result])
      /\ stage' = "idle" /\ wire' = "quiet" /\ asked' = NoRequest
      /\ got' = << >> /\ incoming' = << >> /\ host_toggle' = 1
      /\ missed' = FALSE /\ unsettled' = FALSE
  BY DEF Complete
<1>3. log \in Seq([request : Requests, result : [status : {"done", "stall", "unknown"}, data : Seq(Nat)]])
  BY <1>1 DEF Types, HostTypes
<1> DEFINE entry == [request |-> asked, result |-> result]
<1>4. entry \in [request : Requests, result : [status : {"done", "stall", "unknown"}, data : Seq(Nat)]]
  OBVIOUS
<1>5. /\ log' \in Seq([request : Requests, result : [status : {"done", "stall", "unknown"}, data : Seq(Nat)]])
      /\ \A k \in DOMAIN log : k \in DOMAIN log' /\ log'[k] = log[k]
      /\ Len(log) + 1 \in DOMAIN log' /\ log'[Len(log) + 1] = entry
  <2> HIDE DEF entry
  <2>1. log' = Append(log, entry)
    BY <1>2 DEF entry
  <2>2. QED BY <1>3, <1>4, <2>1, AppendProperties, LenProperties
<1>6. entry.request = asked
  OBVIOUS
<1> HIDE DEF entry
<1>7. HostTypes'
  <2>1. << >> \in Seq(Nat)
    OBVIOUS
  <2>2. packet' \in Requests \cup {NoRequest}
    BY <1>1 DEF Types, HostTypes
  <2>3. QED BY <1>2, <1>5, <2>1, <2>2 DEF HostTypes
<1>8. WhenIdle'
  BY <1>2 DEF WhenIdle
<1>9. Matching'
  <2>1. packet' # NoRequest => \E k \in DOMAIN log' : packet' = log'[k].request
    BY <1>1, <1>5, <1>6 DEF Matching
  <2>2. GeneratedRead \/ IsGenerated(asked) => GeneratedRead'
    BY <1>5, <1>6 DEF GeneratedRead
  <2>3. packet.value = gen_value => GeneratedRead \/ IsGenerated(asked)
    BY <1>1, GeneratedPacket DEF Types
  <2>4. any_match' => GeneratedRead'
    BY <1>1, <2>2, <2>3 DEF Matching
  <2>5. ~Reading'
    BY <1>2 DEF Reading, NoRequest
  <2>6. QED BY <2>1, <2>4, <2>5 DEF Matching
<1>a. QED BY <1>2, <1>7, <1>8, <1>9 DEF IInv, Types

\* In a quiet clock a request can end when the handler is through with it.
LEMMA QuietlyComplete ==
  ASSUME Supported, IInv, InRequest, Over, Calm, DeviceClock(Nothing, token), wire # "sent",
         NEW result \in [status : {"done", "stall", "unknown"}, data : Seq(Nat)], Complete(result),
         host_address' = host_address
  PROVE  IInv'
<1>1. /\ Types /\ Matching /\ AddressAgrees /\ token \in Tokens
      /\ asked \in Requests /\ decoder = "IDLE" /\ ~received /\ handler = "IDLE" /\ packet = asked
  BY DEF IInv, InRequest, Types, DeviceTypes
<1>2. Quiet(Nothing) /\ ~Nothing.rx.good /\ Nothing.rx.bytes \in Nat /\ ~Nothing.new_token
  BY QuietBuses
<1>3. decoder' = "IDLE" /\ ~received' /\ packet' = packet /\ ~new_packet'
  BY <1>1, <1>2, DecoderRests, NothingCaptured
<1>4. /\ Calm' /\ UNCHANGED <<address, stall_latch>>
      /\ handler' = IF handler = "IDLE" /\ received /\ packet.type = "STANDARD"
                    THEN HandlerState(packet) ELSE handler
      /\ any_match' = (any_match \/ packet.value = gen_value)
  BY <1>1, <1>2, QuietDevice, Zenon
<1>5. DeviceTypes'
  BY <1>1, <1>2, DeviceTypesKept
<1>6. AddressAgrees' /\ (~any_match' => "block" \notin stall_latch')
  BY <1>1, <1>4 DEF AddressAgrees, Matching
<1>7. QED BY <1>1, <1>3, <1>4, <1>5, <1>6, CompleteKeeps

LEMMA Answers ==
  ASSUME Supported, IInv
  PROVE  AlwaysAnswered
<1> SUFFICES ASSUME wire = "waiting", DeviceIdle, stage # "setup", ~missed, ~unsettled
             PROVE  FALSE
  BY DEF AlwaysAnswered
<1>1. InRequest /\ Answering
  BY Stages DEF WhenIdle, InRequest
<1>2. DOMAIN generated = {1}
  BY GeneratedFacts
<1>3. lookup = "IDLE" /\ gen.state # "STREAMING" /\ serializer # "STREAMING" /\ tx_state = "IDLE"
  BY <1>2 DEF DeviceIdle, D!Idle, gen
<1>4. QED BY <1>1, <1>3 DEF Answering, StatusUnderway, ConfigurationUnderway, DescriptorUnderway,
                            LookedUp, Streamed, Generating, Finished

LEMMA TimeoutKeeps ==
  ASSUME Supported, IInv, Timeout
  PROVE  IInv'
<1>1. /\ wire = "waiting" /\ DeviceIdle /\ DeviceClock(Nothing, token)
      /\ IF missed \/ stage = "setup"
         THEN wire' = "quiet" /\ UNCHANGED <<stage, requestVars, dataVars, excuseVars>>
         ELSE Complete(P!Unknown)
  BY DEF Timeout, QuietClock
<1>2. Types /\ token \in Tokens /\ missed \in BOOLEAN
  BY DEF IInv, Types, DeviceTypes, HostTypes
<1>3. Quiet(Nothing) /\ ~Nothing.rx.good /\ Nothing.rx.bytes \in Nat /\ ~Nothing.new_token
  BY QuietBuses
<1>4. ~new_packet'
  BY <1>1, <1>2, <1>3, NothingCaptured
<1>5. CASE stage = "setup"
  <2>1. InSetup /\ ~new_packet /\ ~received /\ decoder \in {"IDLE", "READ_DATA"}
    BY <1>1, <1>2, <1>5, Stages DEF DeviceIdle, Types, DeviceTypes
  <2>2. wire' = "quiet" /\ UNCHANGED <<stage, requestVars, dataVars, unsettled>> /\ missed' = missed
    BY <1>1, <1>5 DEF excuseVars
  <2>3. QED BY <1>1, <1>2, <1>3, <1>4, <1>5, <2>1, <2>2, SetupKept
<1>6. CASE stage # "setup" /\ missed
  <2>1. InRequest /\ stage # "idle"
    BY <1>1, <1>6, Stages DEF WhenIdle
  <2>2. Calm /\ incoming = << >>
    BY <1>6, <2>1 DEF InRequest
  <2>3. wire' = "quiet" /\ UNCHANGED <<stage, requestVars, dataVars, unsettled>> /\ missed' = missed
    BY <1>1, <1>6 DEF excuseVars
  <2>4. QED BY <1>1, <1>2, <1>3, <1>4, <1>6, <2>1, <2>2, <2>3, RequestKept
<1>7. CASE stage # "setup" /\ ~missed
  <2>1. InRequest
    BY <1>1, <1>7, Stages DEF WhenIdle
  <2>2. unsettled
    BY <1>1, <1>7, Answers DEF AlwaysAnswered
  <2>3. Over /\ Calm
    BY <2>1, <2>2 DEF Over, InRequest
  <2>4. P!Unknown \in [status : {"done", "stall", "unknown"}, data : Seq(Nat)]
    BY DEF P!Unknown
  <2>5. Complete(P!Unknown) /\ host_address' = host_address
    BY <1>1, <1>7 DEF Complete, P!Unknown
  <2>6. QED BY <1>1, <2>1, <2>3, <2>4, <2>5, QuietlyComplete
<1>8. QED BY <1>5, <1>6, <1>7

\* The device takes the request up: first the control endpoint and the handler get the
\* decoder's strobe, then they are in its first stage.
LEMMA RequestTaken ==
  ASSUME Supported, Types, Calm, NEW b, NEW t, DeviceClock(b, t), Quiet(b),
         Heard("SETUP"), t = token, ~b.new_token, packet = asked,
         (received /\ control = "SETUP") \/ Taken,
         handler = "IDLE" \/ (handler = Expected /\ (Reading => Fresh)),
         asked' = asked, packet' = packet, asked \in Requests
  PROVE  Taken'
<1>1. /\ handler' = IF handler = "IDLE" /\ received /\ packet.type = "STANDARD"
                    THEN HandlerState(packet) ELSE handler
      /\ handler = "IDLE" => Fresh'
      /\ handler # "IDLE" => UNCHANGED <<start_position, tx_data_pid>>
      /\ UNCHANGED configuration
  BY QuietDevice, Zenon
<1>2. Reading' = Reading /\ Expected' = Expected /\ FirstStage' = FirstStage
  BY <1>1, AskedKept
<1>3. C!Clock(ControlInputs(b, t))
  BY Parts
<1>4. /\ ControlInputs(b, t).pid = "SETUP" /\ ControlInputs(b, t).new_token = b.new_token
      /\ ControlInputs(b, t).received = received /\ ControlInputs(b, t).targeted
      /\ ControlInputs(b, t).setup = asked
  BY DEF ControlInputs, Heard
<1>5. control' = FirstStage
  <2>1. CASE received /\ control = "SETUP"
    BY <1>3, <1>4, <2>1 DEF C!Clock, C!Setup, C!Stage, FirstStage
  <2>2. CASE Taken
    <3>1. control \in {"STATUS_IN", "DATA_IN", "DATA_OUT"} /\ control = FirstStage
      BY <2>2 DEF Taken, FirstStage
    <3>2. control' = control
      BY <1>3, <1>4, <3>1 DEF C!Clock, C!Setup, C!Stage, C!Restarts
    <3>3. QED BY <3>1, <3>2
  <2>3. QED BY <2>1, <2>2
<1>6. handler' = Expected
  BY <1>1 DEF Taken, Expected
<1>7. Reading => Fresh'
  BY <1>1 DEF Taken, Fresh
<1>8. QED BY <1>2, <1>5, <1>6, <1>7 DEF Taken

LEMMA HostSeesStallKeeps ==
  ASSUME Supported, IInv, HostSeesStall
  PROVE  IInv'
<1>1. wire = "device_stall" /\ DeviceClock(Nothing, token) /\ Complete(P!Stalled)
  BY DEF HostSeesStall, QuietClock
<1>2. InRequest
  BY <1>1, Stages DEF WhenIdle, InSetup
<1>3. Over /\ Calm
  BY <1>1, <1>2 DEF Over, InRequest
<1>4. P!Stalled \in [status : {"done", "stall", "unknown"}, data : Seq(Nat)]
  BY DEF P!Stalled
<1>5. host_address' = host_address
  BY <1>1 DEF Complete, P!Stalled
<1>6. QED BY <1>1, <1>2, <1>3, <1>4, <1>5, QuietlyComplete

LEMMA AckLostKeeps ==
  ASSUME Supported, IInv, AckLost
  PROVE  IInv'
<1>1. wire = "ack" /\ DeviceClock(Nothing, token) /\ stage # "status_in"
      /\ wire' = "quiet" /\ UNCHANGED <<stage, requestVars, dataVars, excuseVars>>
  BY DEF AckLost, QuietClock, Supported
<1>2. InRequest /\ stage \notin {"idle", "setup"}
  BY <1>1, Stages DEF WhenIdle, InSetup
<1>3. Calm /\ incoming = << >> /\ Types
  BY <1>1, <1>2 DEF InRequest, IInv
<1>4. token \in Tokens /\ missed' = missed /\ unsettled' = unsettled /\ missed' \in BOOLEAN
  BY <1>1, <1>3 DEF excuseVars, Types, DeviceTypes, HostTypes
<1>5. ~new_packet'
  BY <1>1, <1>3, QuietBuses, NothingCaptured
<1>6. Quiet(Nothing) /\ Nothing.rx.bytes \in Nat /\ ~Nothing.new_token
  BY QuietBuses
<1>7. QED BY <1>1, <1>2, <1>3, <1>4, <1>5, <1>6, RequestKept

\* What is over for the device changes nothing.
LEMMA OverChangesNothing ==
  ASSUME Supported, IInv, InRequest, Over
  PROVE  ~P!Changes(asked)
<1>1. CASE unsettled
  BY <1>1 DEF InRequest
<1>2. CASE wire = "device_stall"
  BY <1>2 DEF InRequest, P!Changes
<1>3. CASE stage = "status_out"
  <2>1. asked.request \in {"GET_DESCRIPTOR", "GET_CONFIGURATION"} /\ Served(asked)
    BY <1>3 DEF InRequest, InStatusOut, Supported
  <2>2. asked.length # 0
    BY <2>1 DEF Served
  <2>3. QED BY <2>2 DEF P!Changes
<1>4. QED BY <1>1, <1>2, <1>3 DEF Over

LEMMA HandshakeLostKeeps ==
  ASSUME Supported, IInv, HandshakeLost
  PROVE  IInv'
<1>1. /\ wire \in {"device_ack", "device_stall"} /\ DeviceClock(Nothing, token) /\ wire' = "quiet"
      /\ unsettled' = (unsettled \/ wire = "device_stall" \/ (stage = "status_out" /\ token.pid # "PING"))
      /\ UNCHANGED <<stage, requestVars, dataVars>> /\ missed' = missed
  BY DEF HandshakeLost, QuietClock
<1>2. Types /\ token \in Tokens /\ missed' \in BOOLEAN /\ unsettled \in BOOLEAN /\ unsettled' \in BOOLEAN
  BY <1>1 DEF IInv, Types, DeviceTypes, HostTypes
<1>3. Quiet(Nothing) /\ ~Nothing.rx.good /\ Nothing.rx.bytes \in Nat /\ ~Nothing.new_token
  BY QuietBuses
<1>4. ~new_packet'
  BY <1>1, <1>2, <1>3, NothingCaptured
<1>5. CASE stage = "setup"
  <2>1. InSetup /\ wire = "device_ack" /\ Calm /\ asked \in Requests /\ Len(log) < MaxRequests
    BY <1>1, <1>5, Stages DEF InSetup, IInv
  <2>2. unsettled' = unsettled
    BY <1>1, <1>2, <1>5, <2>1
  <2>3. /\ decoder = "IDLE" /\ Heard("SETUP") /\ packet = asked /\ (received => control = "SETUP")
        /\ received \/ Taken
        /\ handler = "IDLE" \/ (handler = Expected /\ (Reading => Fresh))
    BY <2>1 DEF InSetup
  <2>4. decoder' = "IDLE" /\ ~received' /\ packet' = packet
    BY <1>1, <1>2, <1>3, <2>3, DecoderRests
  <2>5. asked' = asked
    BY <1>1 DEF requestVars
  <2>6. Taken'
    BY <1>1, <1>2, <1>3, <2>1, <2>3, <2>4, <2>5, RequestTaken
  <2>7. Calm'
    BY <1>1, <1>2, <1>3, <2>1, QuietDevice, Zenon
  <2>8. Types' /\ Matching' /\ AddressAgrees'
    BY <1>1, <1>2, <1>3, <2>1, <2>2, <2>4, QuietClocks DEF requestVars, dataVars, Types, HostTypes
  <2>9. InSetup'
    BY <1>1, <1>4, <2>1, <2>2, <2>3, <2>4, <2>5, <2>6, <2>7 DEF InSetup, Taken, dataVars
  <2>a. QED BY <1>1, <1>5, <2>1, <2>8, <2>9 DEF IInv, requestVars
<1>6. CASE stage # "setup"
  <2>1. InRequest /\ stage \notin {"idle", "setup"}
    BY <1>1, <1>6, Stages DEF WhenIdle
  <2>2. Calm /\ incoming = << >>
    BY <1>1, <2>1 DEF InRequest
  <2>3. Over' = Over
    BY <1>1, <1>2, <2>1 DEF Over, InRequest, InDataIn, InDataOut, InStatusIn, InStatusOut
  <2>4. unsettled' => stage # "data_out" /\ ~P!Changes(asked)
    <3>1. unsettled' => Over
      BY <1>1 DEF Over, InRequest
    <3>2. stage = "data_out" => ~unsettled'
      BY <1>1, <2>1 DEF InRequest, InDataOut
    <3>3. QED BY <2>1, <3>1, <3>2, OverChangesNothing
  <2>5. unsettled' /\ stage = "status_in" => P!Result(asked) = P!Stalled
    BY <1>1, <2>1 DEF InRequest, InStatusIn
  <2>6. Still(Nothing, token)
    BY <1>3, QuietIsStill
  <2>7. QED BY <1>1, <1>2, <1>3, <1>4, <2>1, <2>2, <2>3, <2>4, <2>5, <2>6, RequestGoesOn
<1>7. QED BY <1>5, <1>6

LEMMA StageKept ==
  ASSUME Types, NEW b, NEW t, DeviceClock(b, t), ~received, ~b.new_token
  PROVE  control' = control
<1>1. C!Clock(ControlInputs(b, t))
  BY Parts
<1>2. ~ControlInputs(b, t).received /\ ~ControlInputs(b, t).new_token
  BY DEF ControlInputs
<1>3. QED BY <1>1, <1>2 DEF C!Clock, C!Setup, C!Stage, C!Restarts

\* The host goes on to the first stage: everybody is at the beginning of the request.
LEMMA FirstStageBegins ==
  ASSUME Supported, IInv, stage = "setup", HostSeesAck
  PROVE  IInv'
<1>1. InSetup /\ wire = "device_ack" /\ Calm /\ asked \in Requests /\ Len(log) < MaxRequests
  BY Stages DEF InSetup, IInv, HostSeesAck
<1>2. /\ decoder = "IDLE" /\ Heard("SETUP") /\ packet = asked /\ (received => control = "SETUP")
      /\ received \/ Taken
      /\ handler = "IDLE" \/ (handler = Expected /\ (Reading => Fresh))
      /\ got = << >> /\ incoming = << >> /\ ~unsettled
  BY <1>1 DEF InSetup
<1>3. /\ DeviceClock(Nothing, token) /\ wire' = "quiet" /\ host_toggle' = 1
      /\ stage' = IF asked.length = 0 THEN "status_in" ELSE IF asked.is_in_request THEN "data_in" ELSE "data_out"
      /\ UNCHANGED <<requestVars, got, incoming, excuseVars>>
  BY <1>2 DEF HostSeesAck, QuietClock, Heard
<1>4. Types /\ token \in Tokens /\ got' \in Seq(Nat) /\ incoming' \in Seq(Nat) /\ missed' = missed /\ unsettled' = unsettled
      /\ missed' \in BOOLEAN /\ unsettled' \in BOOLEAN /\ asked' = asked /\ got' = << >> /\ incoming' = << >>
  BY <1>2, <1>3 DEF IInv, Types, DeviceTypes, HostTypes, excuseVars, requestVars
<1>5. Quiet(Nothing) /\ ~Nothing.rx.good /\ Nothing.rx.bytes \in Nat /\ ~Nothing.new_token
  BY QuietBuses
<1>6. ~new_packet'
  BY <1>3, <1>4, <1>5, NothingCaptured
<1>7. decoder' = "IDLE" /\ ~received' /\ packet' = packet
  BY <1>2, <1>3, <1>4, <1>5, DecoderRests
<1>8. Taken'
  BY <1>1, <1>2, <1>3, <1>4, <1>5, <1>7, RequestTaken
<1>9. Calm' /\ UNCHANGED configuration /\ token' = token
  BY <1>1, <1>3, <1>4, <1>5, QuietDevice, Zenon
<1>a. Types' /\ Matching' /\ AddressAgrees'
  BY <1>1, <1>3, <1>4, <1>5, <1>7, QuietClocks DEF requestVars
<1>b. /\ Reading' = Reading /\ Expected' = Expected /\ FirstStage' = FirstStage /\ Wanted' = Wanted
      /\ P!Result(asked)' = P!Result(asked) /\ P!Changes(asked)' = P!Changes(asked)
  BY <1>4, <1>9, AskedKept
<1>c. ~Over'
  BY <1>2, <1>3, <1>4 DEF Over
<1>d. handler' = Expected /\ control' = FirstStage /\ (Reading => start_position' = 0 /\ tx_data_pid' = 1)
  BY <1>8, <1>b DEF Taken, Fresh
<1>e. Served(asked) /\ asked.length \in Nat /\ asked.is_in_request \in BOOLEAN
  BY <1>1 DEF Supported, Served
<1>f. Heard("SETUP")' /\ ~Heard("IN")'
  BY <1>2, <1>9 DEF Heard
<1>g. CASE asked.length = 0
  <2>1. stage' = "status_in" /\ control' = "STATUS_IN"
    BY <1>3, <1>d, <1>g DEF FirstStage
  <2>2. InStatusIn'
    BY <1>2, <1>3, <1>4, <1>g, <2>1 DEF InStatusIn
  <2>3. InRequest'
    BY <1>1, <1>2, <1>3, <1>4, <1>6, <1>7, <1>9, <1>b, <1>c, <1>d, <2>1, <2>2 DEF InRequest
  <2>4. QED BY <1>1, <1>3, <1>a, <2>3 DEF IInv, requestVars
<1>h. CASE asked.length # 0 /\ asked.is_in_request
  <2>1. stage' = "data_in" /\ control' = "DATA_IN" /\ asked.length > 0
    BY <1>3, <1>d, <1>e, <1>h DEF FirstStage
  <2>2. ASSUME handler' = "GET_DESCRIPTOR"
        PROVE  ReadSoFar'
    <3>1. Reading
      BY <1>d, <2>2 DEF Expected, HandlerState, Reading
    <3>2. start_position' = 0 /\ tx_data_pid' = 1 /\ Len(got') = 0
      BY <1>4, <1>d, <3>1
    <3>3. Sending'
      BY <1>3, <3>2 DEF Sending
    <3>4. Upto(got, Len(got))'
      BY <3>2 DEF Upto
    <3>5. \E k \in 0 .. start_position' : start_position' = k * max_packet_size
      BY <3>2, SizeAssumption
    <3>6. P!Exists(asked.value) => Len(Wanted) \in Nat
      BY <1>1, <3>1, WantedFacts
    <3>7. QED BY <1>3, <1>4, <1>b, <2>1, <3>2, <3>3, <3>4, <3>5, <3>6 DEF ReadSoFar
  <2>3. InDataIn'
    BY <1>3, <1>4, <1>h, <2>1, <2>2 DEF InDataIn
  <2>4. InRequest'
    BY <1>1, <1>2, <1>3, <1>4, <1>6, <1>7, <1>9, <1>b, <1>c, <1>d, <2>1, <2>3 DEF InRequest
  <2>5. QED BY <1>1, <1>3, <1>a, <2>4 DEF IInv, requestVars
<1>i. CASE asked.length # 0 /\ ~asked.is_in_request
  <2>1. stage' = "data_out" /\ control' = "DATA_OUT" /\ asked.length > 0
    BY <1>3, <1>d, <1>e, <1>i DEF FirstStage
  <2>2. SetsLineCoding(asked)
    BY <1>e, <1>i, <2>1 DEF Served
  <2>3. SetsLineCoding(asked')
    BY <1>4, <2>2
  <2>4. InDataOut'
    BY <1>2, <1>3, <1>4, <1>f, <2>1, <2>3 DEF InDataOut
  <2>5. InRequest'
    BY <1>1, <1>2, <1>3, <1>4, <1>6, <1>7, <1>9, <1>b, <1>c, <1>d, <2>1, <2>4 DEF InRequest
  <2>6. QED BY <1>1, <1>3, <1>a, <2>5 DEF IInv, requestVars
<1>j. QED BY <1>g, <1>h, <1>i

LEMMA HostSeesAckKeeps ==
  ASSUME Supported, IInv, HostSeesAck
  PROVE  IInv'
<1>1. wire = "device_ack" /\ DeviceClock(Nothing, token)
  BY DEF HostSeesAck, QuietClock
<1>2. Types /\ token \in Tokens /\ missed \in BOOLEAN /\ unsettled \in BOOLEAN
  BY DEF IInv, Types, DeviceTypes, HostTypes
<1>3. Quiet(Nothing) /\ ~Nothing.rx.good /\ Nothing.rx.bytes \in Nat /\ ~Nothing.new_token
  BY QuietBuses
<1>4. ~new_packet'
  BY <1>1, <1>2, <1>3, NothingCaptured
<1>5. CASE stage = "setup"
  BY <1>5, FirstStageBegins
<1>6. CASE stage # "setup"
  <2>1. InRequest /\ stage \notin {"idle", "setup"} /\ Len(log) < MaxRequests
    BY <1>1, <1>6, Stages DEF WhenIdle, IInv
  <2>2. Calm /\ incoming = << >> /\ ~received /\ decoder = "IDLE" /\ packet = asked /\ asked \in Requests
    BY <1>1, <2>1 DEF InRequest
  <2>3. CASE token.pid = "PING" /\ wire' = "quiet" /\ UNCHANGED <<stage, requestVars, dataVars, excuseVars>>
    <3>1. unsettled' = unsettled /\ missed' = missed
      BY <2>3 DEF excuseVars
    <3>2. Over' = Over
      BY <1>1, <2>3, <3>1 DEF Over
    <3>3. unsettled' => stage # "data_out" /\ ~P!Changes(asked)
      BY <2>1, <3>1 DEF InRequest, InDataOut
    <3>4. unsettled' /\ stage = "status_in" => P!Result(asked) = P!Stalled
      BY <2>1, <3>1 DEF InRequest, InStatusIn
    <3>5. Still(Nothing, token)
      BY <1>3, QuietIsStill
    <3>6. QED BY <1>1, <1>2, <1>3, <1>4, <2>1, <2>2, <2>3, <3>1, <3>2, <3>3, <3>4, <3>5, RequestGoesOn
  <2>4. CASE stage = "data_out" /\ stage' = "status_in" /\ wire' = "quiet" /\ host_toggle' = 1
             /\ UNCHANGED <<requestVars, got, incoming, excuseVars>>
    <3>1. /\ missed' = missed /\ unsettled' = unsettled /\ asked' = asked /\ got' = got /\ incoming' = incoming
          /\ got' \in Seq(Nat) /\ incoming' \in Seq(Nat) /\ host_address' = host_address /\ log' = log
      BY <1>2, <2>4 DEF requestVars, excuseVars, Types, HostTypes
    <3>2. decoder' = "IDLE" /\ ~received' /\ packet' = packet
      BY <1>1, <1>2, <1>3, <2>2, DecoderRests
    <3>3. /\ Calm' /\ UNCHANGED configuration /\ token' = token
          /\ handler' = IF handler = "IDLE" /\ received /\ packet.type = "STANDARD"
                        THEN HandlerState(packet) ELSE handler
      BY <1>1, <1>2, <1>3, <2>2, QuietDevice, Zenon
    <3>4. Types' /\ Matching' /\ AddressAgrees'
      BY <1>1, <1>2, <1>3, <2>2, <2>4, <3>1, <3>2, QuietClocks
    <3>5. InDataOut /\ control' = "DATA_OUT"
      BY <1>1, <1>2, <1>3, <2>1, <2>2, <2>4, StageKept DEF InRequest, InDataOut
    <3>6. /\ Expected' = Expected /\ P!Result(asked)' = P!Result(asked)
          /\ P!Changes(asked)' = P!Changes(asked)
      BY <3>1, <3>3, AskedKept
    <3>7. handler = Expected /\ ~Over' /\ ~unsettled
      BY <1>1, <2>1, <2>4, <3>1, <3>5 DEF InRequest, InDataOut, Over
    <3>8. SetsLineCoding(asked') /\ ~Heard("IN")'
      BY <3>1, <3>3, <3>5 DEF InDataOut, Heard
    <3>9. InStatusIn'
      BY <2>4, <3>1, <3>5, <3>8 DEF InStatusIn, InDataOut
    <3>a. InRequest'
      BY <1>4, <2>2, <2>4, <3>1, <3>2, <3>3, <3>6, <3>7, <3>9 DEF InRequest
    <3>b. QED BY <2>1, <3>1, <3>4, <3>a DEF IInv
  <2>5. CASE token.pid # "PING" /\ stage = "status_out" /\ Complete(P!Done(got))
    <3>1. Over
      BY <1>1, <2>5 DEF Over
    <3>2. P!Done(got) \in [status : {"done", "stall", "unknown"}, data : Seq(Nat)]
      BY <1>2 DEF P!Done, Types, HostTypes
    <3>3. asked.request # "SET_ADDRESS"
      BY <2>1, <2>5 DEF InRequest, InStatusOut
    <3>4. host_address' = host_address
      BY <2>5, <3>3 DEF Complete
    <3>5. QED BY <1>1, <2>1, <2>2, <2>5, <3>1, <3>2, <3>4, QuietlyComplete
  <2>6. QED BY <1>6, <2>1, <2>3, <2>4, <2>5 DEF HostSeesAck
<1>7. QED BY <1>5, <1>6

\* The host's ACK, when nothing else happens.
LEMMA AckDevice ==
  ASSUME Supported, Types, Calm, NEW b, NEW t, DeviceClock(b, t), b.ack,
         ~b.ready_for_response, ~b.rx_ready_for_response, ~received
  PROVE  /\ Calm' /\ stall_latch' = stall_latch
         /\ any_match' = (any_match \/ packet.value = gen_value)
         /\ token' = t
         /\ handler \in H!register_writes \cup {"CLEAR_FEATURE", "IDLE"} => handler' = "IDLE"
         /\ handler \in H!simple_data \cup {"GET_DESCRIPTOR", "UNHANDLED"} => handler' = handler
         /\ handler = "GET_DESCRIPTOR" /\ expecting_ack =>
              /\ start_position' = (start_position + max_packet_size) % H!start_positions
              /\ tx_data_pid' = 1 - tx_data_pid
         /\ address' = IF claim /\ handler = "SET_ADDRESS" THEN packet.value[2] % 128 ELSE address
         /\ configuration' = IF claim /\ handler = "SET_CONFIGURATION" THEN packet.value[2]
                             ELSE configuration
         /\ halts_cleared' = IF claim /\ handler = "CLEAR_FEATURE" THEN halts_cleared + 1
                             ELSE halts_cleared
<1> DEFINE h == HandlerInputs(b, t)
<1>1. /\ ~h.data_requested /\ ~h.status_requested /\ h.ack /\ ~h.received
  <2>1. ~C!data_requested(ControlInputs(b, t)) /\ ~C!status_requested(ControlInputs(b, t))
    BY DEF C!data_requested, C!status_requested, ControlInputs
  <2>2. QED BY <2>1, Plain
<1>2. ~send_zlp(h)
  BY <1>1 DEF send_zlp, H!send_zlp, acm_send_zlp
<1>3. /\ Calm' /\ ~h.descriptor_stall /\ stall_latch' = stall_latch
      /\ any_match' = (any_match \/ packet.value = gen_value)
  BY <1>1, <1>2, CalmDevice, Zenon
<1>4. /\ address' = IF claim /\ handler = "SET_ADDRESS" THEN packet.value[2] % 128 ELSE address
      /\ configuration' = IF claim /\ handler = "SET_CONFIGURATION" THEN packet.value[2] ELSE configuration
      /\ halts_cleared' = IF claim /\ handler = "CLEAR_FEATURE" THEN halts_cleared + 1 ELSE halts_cleared
      /\ token' = t
  BY <1>1, Parts DEF H!address_changed, H!config_changed, H!clear_endpoint_halt
<1>5. H!Clock(h) /\ handler \in H!handled \cup {"IDLE", "UNHANDLED"}
  BY Parts DEF Types, DeviceTypes
<1> HIDE DEF h
<1>6. /\ handler \in H!register_writes \cup {"CLEAR_FEATURE", "IDLE"} => handler' = "IDLE"
      /\ handler \in H!simple_data \cup {"GET_DESCRIPTOR", "UNHANDLED"} => handler' = handler
      /\ handler = "GET_DESCRIPTOR" /\ expecting_ack =>
           /\ start_position' = (start_position + max_packet_size) % H!start_positions
           /\ tx_data_pid' = 1 - tx_data_pid
  <2>1. CASE H!Idle(h)
    BY <1>1, <2>1 DEF H!Idle, H!simple_data
  <2>2. CASE H!HandleSimpleDataRequest(h)
    BY <1>1, <2>2 DEF H!HandleSimpleDataRequest, H!simple_data, H!register_writes
  <2>3. CASE H!HandleWriteRequest(h)
    BY <1>1, <2>3 DEF H!HandleWriteRequest, H!register_writes, H!simple_data
  <2>4. CASE H!GetDescriptor(h)
    <3>1. handler = "GET_DESCRIPTOR" /\ handler' = handler
      BY <1>1, <1>3, <2>4 DEF H!GetDescriptor
    <3>2. expecting_ack => H!advances(h)
      BY <1>1 DEF H!advances
    <3>3. expecting_ack => /\ start_position' = (start_position + max_packet_size) % H!start_positions
                           /\ tx_data_pid' = 1 - tx_data_pid
      BY <2>4, <3>2, Zenon DEF H!GetDescriptor
    <3>4. QED BY <3>1, <3>3 DEF H!register_writes
  <2>5. CASE H!Unhandled(h)
    BY <1>1, <2>5 DEF H!Unhandled, H!register_writes
  <2>6. QED BY <1>5, <2>1, <2>2, <2>3, <2>4, <2>5 DEF H!Clock
<1>7. QED BY <1>3, <1>4, <1>6, Zenon

\* What a request's acknowledged status stage says of it.
LEMMA DoneWithoutData ==
  ASSUME Supported, asked \in Requests, asked.length = 0 \/ SetsLineCoding(asked),
         P!Result(asked) = P!Done(<< >>)
  PROVE  \/ /\ asked.type = "STANDARD" /\ asked.length = 0
            /\ asked.request \in H!register_writes \cup {"CLEAR_FEATURE"}
            /\ Expected = asked.request
         \/ asked.type # "STANDARD" /\ Expected = "IDLE" /\ asked.request \notin H!handled
<1>1. Served(asked)
  BY DEF Supported
<1>2. CASE asked.type = "STANDARD"
  <2>1. asked.length = 0
    BY <1>2 DEF SetsLineCoding
  <2>2. asked.request \notin {"GET_DESCRIPTOR", "GET_CONFIGURATION", "GET_STATUS"}
    BY <1>1, <2>1 DEF Served
  <2>3. P!StandardResult(asked) = P!Done(<< >>)
    BY <1>2 DEF P!Result
  <2>4. P!Done(<< >>) # P!Stalled
    BY DEF P!Done, P!Stalled
  <2>5. asked.request \in H!register_writes \cup {"CLEAR_FEATURE"}
    BY <2>2, <2>3, <2>4 DEF P!StandardResult, H!register_writes
  <2>6. QED BY <1>2, <2>1, <2>5 DEF Expected, HandlerState, H!handled
<1>3. CASE asked.type # "STANDARD"
  BY <1>1, <1>3 DEF Expected, Served
<1>4. QED BY <1>2, <1>3

LEMMA AckArrivesKeeps ==
  ASSUME Supported, IInv, AckArrives
  PROVE  IInv'
<1> DEFINE b == [Nothing EXCEPT !.ack = TRUE]
<1>1. /\ wire = "ack" /\ DeviceClock(b, token)
      /\ IF stage = "status_in" THEN Complete(P!Done(<< >>))
         ELSE wire' = "quiet" /\ UNCHANGED <<stage, requestVars, dataVars, excuseVars>>
  BY DEF AckArrives, Arrives
<1>2. /\ b.ack /\ ~b.ready_for_response /\ ~b.rx_ready_for_response /\ ~b.rx.good /\ b.rx.bytes \in Nat
      /\ ~b.new_token
  BY DEF Nothing, R!NoPacket
<1> HIDE DEF b
<1>3. Types /\ Matching /\ token \in Tokens /\ unsettled \in BOOLEAN
  BY DEF IInv, Types, DeviceTypes, HostTypes
<1>4. InRequest /\ stage \notin {"idle", "setup"} /\ Len(log) < MaxRequests
  BY <1>1, Stages DEF WhenIdle, InSetup, IInv
<1>5. /\ Calm /\ incoming = << >> /\ ~received /\ decoder = "IDLE" /\ packet = asked /\ asked \in Requests
      /\ ~unsettled /\ ~Over /\ handler = Expected
  BY <1>1, <1>4 DEF InRequest, Over
<1>6. decoder' = "IDLE" /\ ~received' /\ packet' = packet /\ ~new_packet'
  BY <1>1, <1>2, <1>3, <1>5, DecoderRests, NothingCaptured
<1>7. /\ Calm' /\ stall_latch' = stall_latch
      /\ any_match' = (any_match \/ packet.value = gen_value)
      /\ token' = token
      /\ handler \in H!register_writes \cup {"CLEAR_FEATURE", "IDLE"} => handler' = "IDLE"
      /\ handler \in H!simple_data \cup {"GET_DESCRIPTOR", "UNHANDLED"} => handler' = handler
      /\ handler = "GET_DESCRIPTOR" /\ expecting_ack =>
           /\ start_position' = (start_position + max_packet_size) % H!start_positions
           /\ tx_data_pid' = 1 - tx_data_pid
      /\ address' = IF claim /\ handler = "SET_ADDRESS" THEN packet.value[2] % 128 ELSE address
      /\ configuration' = IF claim /\ handler = "SET_CONFIGURATION" THEN packet.value[2]
                          ELSE configuration
  BY <1>1, <1>2, <1>3, <1>5, AckDevice, Zenon
<1>8. DeviceTypes'
  BY <1>1, <1>2, <1>3, DeviceTypesKept
<1>9. ~any_match' => "block" \notin stall_latch'
  BY <1>3, <1>7 DEF Matching
<1>a. control' = control
  BY <1>1, <1>2, <1>3, <1>5, StageKept
<1>b. CASE stage = "status_in"
  <2>1. asked.length = 0 \/ SetsLineCoding(asked)
    BY <1>4, <1>b DEF InRequest, InStatusIn
  <2>2. P!Result(asked) = P!Done(<< >>)
    BY <1>1, <1>4, <1>b DEF InRequest, InStatusIn
  <2>3. \/ /\ asked.type = "STANDARD" /\ asked.length = 0
           /\ asked.request \in H!register_writes \cup {"CLEAR_FEATURE"}
           /\ Expected = asked.request
        \/ asked.type # "STANDARD" /\ Expected = "IDLE" /\ asked.request \notin H!handled
    BY <1>5, <2>1, <2>2, DoneWithoutData
  <2>4. handler' = "IDLE"
    BY <1>5, <1>7, <2>3
  <2>5. AddressAgrees'
    <3>1. host_address' = IF asked.request = "SET_ADDRESS" THEN asked.value[2] % 128 ELSE host_address
      BY <1>1, <1>b DEF Complete, P!Done
    <3>2. address' = IF asked.request = "SET_ADDRESS" THEN asked.value[2] % 128 ELSE address
      BY <1>5, <1>7, <2>3 DEF claim, H!handled, H!register_writes
    <3>3. QED BY <3>1, <3>2 DEF IInv, AddressAgrees
  <2>6. P!Done(<< >>) \in [status : {"done", "stall", "unknown"}, data : Seq(Nat)]
    <3>1. << >> \in Seq(Nat)
      OBVIOUS
    <3>2. QED BY <3>1 DEF P!Done
  <2>7. QED BY <1>1, <1>5, <1>6, <1>7, <1>8, <1>9, <1>b, <2>4, <2>5, <2>6, CompleteKeeps
<1>c. CASE stage # "status_in"
  <2>1. /\ wire' = "quiet" /\ stage' = stage /\ asked' = asked /\ log' = log /\ host_address' = host_address
        /\ got' = got /\ incoming' = incoming /\ host_toggle' = host_toggle
        /\ missed' = missed /\ unsettled' = unsettled
    BY <1>1, <1>c DEF requestVars, dataVars, excuseVars
  <2>2. stage \in {"data_in", "status_out"} /\ asked.request \in {"GET_DESCRIPTOR", "GET_CONFIGURATION"}
        /\ handler \in {"GET_DESCRIPTOR", "GET_CONFIGURATION"}
    <3>1. stage = "data_in" \/ stage = "status_out"
      BY <1>1, <1>4, <1>c DEF InRequest, InDataOut
    <3>2. CASE stage = "data_in"
      <4>1. handler \in {"GET_DESCRIPTOR", "GET_CONFIGURATION"}
        BY <1>1, <1>4, <3>2 DEF InRequest, InDataIn
      <4>2. QED BY <1>5, <3>2, <4>1 DEF Expected, HandlerState
    <3>3. CASE stage = "status_out"
      <4>1. asked.request \in {"GET_DESCRIPTOR", "GET_CONFIGURATION"} /\ Served(asked)
        BY <1>4, <1>5, <3>3 DEF InRequest, InStatusOut, Supported
      <4>2. handler = asked.request
        BY <1>5, <4>1 DEF Served, Expected, HandlerState, H!handled, H!simple_data
      <4>3. QED BY <3>3, <4>1, <4>2
    <3>4. QED BY <3>1, <3>2, <3>3
  <2>3. handler' = handler /\ address' = address /\ configuration' = configuration
    BY <1>7, <2>2 DEF H!simple_data
  <2>4. Types' /\ Matching' /\ AddressAgrees'
    <3>1. HostTypes'
      BY <1>3, <1>6, <2>1 DEF Types, HostTypes
    <3>2. Matching'
      BY <1>3, <1>6, <1>7, <1>9, <2>1, MatchingKept DEF Types
    <3>3. AddressAgrees'
      BY <2>1, <2>3 DEF IInv, AddressAgrees
    <3>4. QED BY <1>8, <3>1, <3>2, <3>3 DEF Types
  <2>5. /\ Expected' = Expected /\ Wanted' = Wanted /\ P!Result(asked)' = P!Result(asked)
        /\ P!Changes(asked)' = P!Changes(asked)
    BY <2>1, <2>3, AskedKept
  <2>6. ~Over'
    BY <1>5, <2>1 DEF Over
  <2>7. CASE stage = "data_in"
    <3>1. InDataIn
      BY <1>4, <2>7 DEF InRequest
    <3>2. ASSUME handler = "GET_DESCRIPTOR"
          PROVE  ReadSoFar'
      <4>1. /\ expecting_ack /\ Repeating
            /\ IF P!Exists(asked.value) THEN /\ Len(got) < asked.length /\ Len(got) <= Len(Wanted)
                                             /\ Upto(got, Len(got))
                                        ELSE got = << >> /\ Sending
            /\ \E k \in 0 .. start_position : start_position = k * max_packet_size
        BY <1>1, <3>1, <3>2 DEF InDataIn, ReadSoFar
      <4>2. /\ start_position \in Nat /\ tx_data_pid \in {0, 1} /\ host_toggle \in {0, 1}
            /\ max_packet_size \in Nat \ {0} /\ Len(got) \in Nat
        BY <1>3, SizeAssumption DEF Types, DeviceTypes, HostTypes
      <4>3. P!Exists(asked.value)
        BY <4>1, <4>2 DEF Repeating, Sending
      <4>4. Len(got) < H!start_positions
        <5>1. Reading
          BY <1>5, <3>2 DEF Expected, HandlerState, Reading
        <5>2. Len(Wanted) \in Nat /\ Len(Wanted) < H!start_positions
          BY <1>5, <4>3, <5>1, WantedFacts
        <5>3. QED BY <4>1, <4>2, <4>3, <5>2 DEF H!start_positions
      <4>5. start_position + max_packet_size = Len(got) /\ tx_data_pid = 1 - host_toggle
        BY <4>1 DEF Repeating
      <4>6. start_position' = Len(got) /\ tx_data_pid' = host_toggle
        <5>1. Len(got) % H!start_positions = Len(got)
          BY <4>2, <4>4, SmallRemainder DEF H!start_positions
        <5>2. start_position' = Len(got) % H!start_positions /\ tx_data_pid' = 1 - tx_data_pid
          BY <1>7, <3>2, <4>1, <4>5
        <5>3. QED BY <4>2, <4>5, <5>1, <5>2
      <4>7. Sending'
        BY <2>1, <4>6 DEF Sending
      <4>8. \E k \in 0 .. start_position' : start_position' = k * max_packet_size
        <5>1. PICK k \in 0 .. start_position : start_position = k * max_packet_size
          BY <4>1
        <5>2. start_position + max_packet_size = (k + 1) * max_packet_size
          BY <4>2, <5>1
        <5>3. k + 1 \in 0 .. start_position'
          BY <4>2, <4>5, <4>6, <5>1
        <5>4. QED BY <4>5, <4>6, <5>2, <5>3
      <4>9. Upto(got, Len(got))'
        BY <2>1, <2>5, <4>1, <4>3 DEF Upto
      <4>a. QED BY <2>1, <2>5, <4>1, <4>3, <4>7, <4>8, <4>9 DEF ReadSoFar
    <3>3. InDataIn'
      BY <1>a, <2>1, <2>3, <3>1, <3>2 DEF InDataIn
    <3>4. InRequest'
      BY <1>5, <1>6, <1>7, <2>1, <2>3, <2>5, <2>6, <2>7, <3>3 DEF InRequest
    <3>5. QED BY <1>4, <2>1, <2>4, <3>4 DEF IInv
  <2>8. CASE stage = "status_out"
    <3>1. InStatusOut
      BY <1>4, <2>8 DEF InRequest
    <3>2. P!Done(got)' = P!Done(got) /\ Heard("OUT")' = Heard("OUT") /\ Heard("PING")' = Heard("PING")
      BY <1>7, <2>1 DEF P!Done, Heard
    <3>3. InStatusOut'
      BY <1>a, <2>1, <2>5, <3>1, <3>2 DEF InStatusOut
    <3>4. InRequest'
      BY <1>5, <1>6, <1>7, <2>1, <2>3, <2>5, <2>6, <2>8, <3>3 DEF InRequest
    <3>5. QED BY <1>4, <2>1, <2>4, <3>4 DEF IInv
  <2>9. QED BY <2>2, <2>7, <2>8
<1>d. QED BY <1>b, <1>c

---------------------------------------------------------------------------
(* The device works on its answer *)

LEMMA WorkStep ==
  ASSUME IInv, NEW tx_ready \in BOOLEAN, NEW tx_allowed \in BOOLEAN, Work(tx_ready, tx_allowed)
  PROVE  LET b == [Nothing EXCEPT !.tx_ready = tx_ready, !.tx_allowed = tx_allowed]
             h == HandlerInputs(b, token)
         IN /\ wire = "waiting" /\ ~DeviceIdle /\ DeviceClock(b, token)
            /\ Quiet(b) /\ ~b.rx.good /\ b.rx.bytes \in Nat /\ ~b.new_token
            /\ b.tx_allowed = tx_allowed /\ b.tx_ready = tx_ready
            /\ ~(tx_ready /\ tx_state = "SEND_CRC_SECOND") /\ (tx_allowed => decoder # "IDLE")
            /\ wire' = AfterClock(b, h)
            /\ incoming' = IF G!stream_ready(tx_ready) /\ out_valid(h) /\ Len(incoming) <= max_packet_size
                           THEN Append(incoming, out_payload(h)) ELSE incoming
            /\ UNCHANGED <<stage, requestVars, got, host_toggle, excuseVars>>
            /\ token \in Tokens /\ Types
<1> DEFINE b == [Nothing EXCEPT !.tx_ready = tx_ready, !.tx_allowed = tx_allowed]
<1>1. /\ Quiet(b) /\ ~b.rx.good /\ b.rx.bytes \in Nat /\ ~b.new_token
      /\ b.tx_allowed = tx_allowed /\ b.tx_ready = tx_ready
  BY DEF Nothing, R!NoPacket, Quiet
<1>2. token \in Tokens /\ Types
  BY DEF IInv, Types, DeviceTypes
<1> HIDE DEF b
<1>3. /\ wire = "waiting" /\ ~DeviceIdle /\ DeviceClock(b, token)
      /\ ~(tx_ready /\ tx_state = "SEND_CRC_SECOND") /\ (tx_allowed => decoder # "IDLE")
      /\ wire' = AfterClock(b, HandlerInputs(b, token))
      /\ incoming' = IF G!stream_ready(tx_ready) /\ out_valid(HandlerInputs(b, token)) /\ Len(incoming) <= max_packet_size
                     THEN Append(incoming, out_payload(HandlerInputs(b, token))) ELSE incoming
      /\ UNCHANGED <<stage, requestVars, got, host_toggle, excuseVars>>
  BY Zenon DEF Work, Arrives, b
<1>4. QED BY <1>1, <1>2, <1>3 DEF b

\* In a quiet clock the host can hear the setup decoder's ACK and the descriptor handlers' STALL.
LEMMA QuietHandshake ==
  ASSUME NEW b, Quiet(b)
  PROVE  LET h == HandlerInputs(b, token)
         IN AfterClock(b, h) = IF claim /\ handler = "GET_DESCRIPTOR" /\ h.descriptor_stall THEN "device_stall"
                               ELSE IF R!ack(b.tx_allowed) THEN "device_ack" ELSE "waiting"
<1> DEFINE h == HandlerInputs(b, token)
<1>1. ~h.data_requested /\ ~h.status_requested /\ ~h.rx_ready_for_response
  BY QuietInputs
<1> HIDE DEF h
<1>2. ~C!ping_ack(ControlInputs(b, token))
  BY DEF C!ping_ack, ControlInputs, Quiet
<1>3. device_stall(h) <=> claim /\ handler = "GET_DESCRIPTOR" /\ h.descriptor_stall
  BY <1>1 DEF device_stall, H!stall
<1>4. device_ack(b, token, h) <=> R!ack(b.tx_allowed)
  BY <1>1, <1>2 DEF device_ack, H!ack, acm_ack
<1>5. QED BY <1>3, <1>4 DEF AfterClock, h

LEMMA SetupWorkKeeps ==
  ASSUME Supported, IInv, stage = "setup", NEW tx_ready \in BOOLEAN, NEW tx_allowed \in BOOLEAN,
         Work(tx_ready, tx_allowed)
  PROVE  IInv'
<1> DEFINE b == [Nothing EXCEPT !.tx_ready = tx_ready, !.tx_allowed = tx_allowed]
           h == HandlerInputs(b, token)
<1>1. /\ wire = "waiting" /\ DeviceClock(b, token)
      /\ Quiet(b) /\ ~b.rx.good /\ b.rx.bytes \in Nat /\ ~b.new_token /\ b.tx_allowed = tx_allowed
      /\ tx_allowed => decoder # "IDLE"
      /\ wire' = AfterClock(b, h)
      /\ incoming' = IF G!stream_ready(tx_ready) /\ out_valid(h) /\ Len(incoming) <= max_packet_size
                     THEN Append(incoming, out_payload(h)) ELSE incoming
      /\ UNCHANGED <<stage, requestVars, got, host_toggle, excuseVars>>
      /\ token \in Tokens /\ Types
  BY WorkStep, Zenon
<1> HIDE DEF b
<1>2. /\ InSetup /\ Calm /\ asked \in Requests /\ Len(log) < MaxRequests /\ got = << >> /\ incoming = << >>
      /\ ~unsettled
      /\ handler = "IDLE" \/ (handler = Expected /\ packet = asked /\ (Reading => Fresh))
      /\ new_packet => captured = asked
  BY Stages DEF InSetup, IInv
<1>3. incoming' = incoming
  BY <1>1, <1>2 DEF Calm, G!stream_ready
<1>4. wire' = IF R!ack(tx_allowed) THEN "device_ack" ELSE "waiting"
  <2>1. ~h.data_requested /\ ~h.status_requested
    BY <1>1, QuietInputs
  <2>2. ~send_zlp(h)
    BY <2>1 DEF send_zlp, H!send_zlp, acm_send_zlp
  <2>3. ~h.descriptor_stall
    BY <1>1, <1>2, <2>1, <2>2, CalmDevice, Zenon
  <2>4. AfterClock(b, h) = IF claim /\ handler = "GET_DESCRIPTOR" /\ h.descriptor_stall THEN "device_stall"
                           ELSE IF R!ack(b.tx_allowed) THEN "device_ack" ELSE "waiting"
    BY <1>1, QuietHandshake, Zenon
  <2> HIDE DEF h
  <2>5. QED BY <1>1, <2>3, <2>4
<1>5. /\ R!Decode(token.pid = "SETUP", b.new_token, tx_allowed) /\ ~new_packet'
  BY <1>1, Parts, NothingCaptured
<1>6. new_packet <=> R!IsSetup
  <2>1. asked # NoRequest
    BY <1>2 DEF Supported, Served, NoRequest
  <2>2. new_packet \in BOOLEAN
    BY <1>1 DEF Types, DeviceTypes
  <2>3. QED BY <1>2, <2>1, <2>2 DEF R!IsSetup
<1>7. /\ asked' = asked /\ got' = got /\ host_toggle' = host_toggle /\ missed' = missed /\ unsettled' = unsettled
      /\ log' = log /\ host_address' = host_address /\ stage' = stage
      /\ got' \in Seq(Nat) /\ incoming' \in Seq(Nat) /\ host_toggle' \in {0, 1}
      /\ missed' \in BOOLEAN /\ unsettled' \in BOOLEAN
  BY <1>1, <1>3 DEF requestVars, excuseVars, Types, HostTypes
<1>8. packet' = packet \/ packet' = asked
  BY <1>2, <1>5, <1>6 DEF R!Decode, R!IsSetup
<1>9. Types' /\ Matching' /\ AddressAgrees'
  BY <1>1, <1>2, <1>7, <1>8, QuietClocks
<1>a. /\ Calm' /\ UNCHANGED configuration /\ token' = token
      /\ handler' = IF handler = "IDLE" /\ received /\ packet.type = "STANDARD"
                    THEN HandlerState(packet) ELSE handler
      /\ handler # "IDLE" => UNCHANGED <<start_position, tx_data_pid>>
  BY <1>1, <1>2, QuietDevice, Zenon
<1>b. Reading' = Reading /\ Expected' = Expected
  BY <1>7, <1>a, AskedKept
<1>c. Heard("SETUP")' = Heard("SETUP")
  BY <1>a DEF Heard
<1>d. CASE decoder = "IDLE"
  <2>1. ~received /\ ~tx_allowed
    BY <1>1, <1>2, <1>d DEF InSetup
  <2>2. decoder' = "IDLE" /\ ~received' /\ packet' = packet
    BY <1>1, <1>5, <1>d DEF R!Decode
  <2>3. wire' = "waiting"
    BY <1>4, <2>1 DEF R!ack
  <2>4. handler' = "IDLE" \/ (handler' = Expected' /\ packet' = asked' /\ (Reading' => Fresh'))
    BY <1>2, <1>7, <1>a, <1>b, <2>1, <2>2 DEF Fresh
  <2>5. InSetup'
    BY <1>2, <1>3, <1>5, <1>7, <1>a, <2>2, <2>3, <2>4 DEF InSetup
  <2>6. QED BY <1>2, <1>7, <1>9, <2>5 DEF IInv
<1>e. CASE decoder = "READ_DATA"
  <2>1. Heard("SETUP") /\ control = "SETUP" /\ ~received
    BY <1>2, <1>e DEF InSetup
  <2>2. /\ received' = R!IsSetup /\ packet' = (IF R!IsSetup THEN captured ELSE packet)
        /\ decoder' = IF R!IsSetup /\ ~tx_allowed THEN "INTERPACKET_DELAY"
                      ELSE IF new_packet THEN "IDLE" ELSE decoder
    BY <1>1, <1>5, <1>e DEF R!Decode
  <2>3. control' = "SETUP"
    BY <1>1, <2>1, StageKept
  <2>4. R!ack(tx_allowed) <=> tx_allowed /\ new_packet
    BY <1>6, <1>e DEF R!ack
  <2>5. handler' = "IDLE" \/ (handler' = Expected' /\ packet' = asked' /\ (Reading' => Fresh'))
    BY <1>2, <1>6, <1>7, <1>a, <1>b, <2>1, <2>2 DEF Fresh
  <2>6. CASE new_packet
    <3>1. received' /\ packet' = asked' /\ decoder' = IF tx_allowed THEN "IDLE" ELSE "INTERPACKET_DELAY"
      BY <1>2, <1>6, <1>7, <2>2, <2>6
    <3>2. wire' = IF tx_allowed THEN "device_ack" ELSE "waiting"
      BY <1>4, <2>4, <2>6
    <3>3. InSetup'
      BY <1>2, <1>3, <1>5, <1>7, <1>a, <1>c, <2>1, <2>3, <2>5, <3>1, <3>2 DEF InSetup
    <3>4. QED BY <1>2, <1>7, <1>9, <3>3 DEF IInv
  <2>7. CASE ~new_packet
    <3>1. ~received' /\ decoder' = "READ_DATA"
      BY <1>6, <1>e, <2>2, <2>7
    <3>2. wire' = "waiting"
      BY <1>4, <2>4, <2>7
    <3>3. InSetup'
      BY <1>2, <1>3, <1>5, <1>7, <1>a, <1>c, <2>1, <2>3, <2>5, <3>1, <3>2 DEF InSetup
    <3>4. QED BY <1>2, <1>7, <1>9, <3>3 DEF IInv
  <2>8. QED BY <2>6, <2>7
<1>f. CASE decoder = "INTERPACKET_DELAY"
  <2>1. Heard("SETUP") /\ packet = asked /\ (received \/ Taken) /\ (received => control = "SETUP")
    BY <1>2, <1>f DEF InSetup
  <2>2. ~received' /\ packet' = packet /\ decoder' = IF tx_allowed THEN "IDLE" ELSE "INTERPACKET_DELAY"
    BY <1>5, <1>f DEF R!Decode
  <2>3. wire' = IF tx_allowed THEN "device_ack" ELSE "waiting"
    BY <1>4, <1>f DEF R!ack
  <2>4. Taken'
    BY <1>1, <1>2, <1>7, <2>1, <2>2, RequestTaken
  <2>5. InSetup'
    BY <1>2, <1>3, <1>5, <1>7, <1>a, <1>c, <2>1, <2>2, <2>3, <2>4 DEF InSetup, Taken
  <2>6. QED BY <1>2, <1>7, <1>9, <2>5 DEF IInv
<1>g. QED BY <1>1, <1>d, <1>e, <1>f DEF Types, DeviceTypes

\* What the requests without a descriptor come to.
LEMMA Results ==
  ASSUME Supported, asked \in Requests
  PROVE  /\ asked.type # "STANDARD" /\ ~SetsLineCoding(asked) => P!Result(asked) = P!Stalled
         /\ asked.type = "STANDARD" /\ asked.request \notin H!handled => P!Result(asked) = P!Stalled
         /\ asked.type = "STANDARD" /\ asked.request \in H!register_writes \cup {"CLEAR_FEATURE"} =>
              P!Result(asked) = P!Done(<< >>)
         /\ SetsLineCoding(asked) => P!Result(asked) = P!Done(<< >>) /\ asked.type # "STANDARD"
         /\ P!Done(<< >>) # P!Stalled
<1>1. Served(asked)
  BY DEF Supported
<1>2. asked.type = "STANDARD" => P!Result(asked) = P!StandardResult(asked)
  BY DEF P!Result
<1>3. asked.type # "STANDARD" /\ ~SetsLineCoding(asked) => P!Result(asked) = P!Stalled
  BY DEF P!Result, SetsLineCoding
<1>4. SetsLineCoding(asked) => P!Result(asked) = P!Done(<< >>) /\ asked.type # "STANDARD"
  BY DEF P!Result, SetsLineCoding
<1>5. ASSUME asked.type = "STANDARD", asked.request \notin H!handled
      PROVE  P!Result(asked) = P!Stalled
  <2>1. asked.request \notin {"GET_DESCRIPTOR", "GET_CONFIGURATION", "GET_STATUS", "SET_ADDRESS",
                              "SET_CONFIGURATION", "CLEAR_FEATURE"}
    BY <1>5 DEF H!handled, H!register_writes, H!simple_data
  <2>2. QED BY <1>2, <1>5, <2>1 DEF P!StandardResult
<1>6. ASSUME asked.type = "STANDARD", asked.request \in H!register_writes \cup {"CLEAR_FEATURE"}
      PROVE  P!Result(asked) = P!Done(<< >>)
  <2>1. CASE asked.request \in {"SET_ADDRESS", "SET_CONFIGURATION"}
    BY <1>2, <1>6, <2>1 DEF P!StandardResult
  <2>2. CASE asked.request = "CLEAR_FEATURE" /\ asked.recipient = "ENDPOINT" /\ asked.value = <<0, 0>>
    BY <1>2, <1>6, <2>2 DEF P!StandardResult
  <2>3. QED BY <1>1, <1>6, <2>1, <2>2 DEF Served, H!register_writes
<1>7. P!Done(<< >>) # P!Stalled
  BY DEF P!Done, P!Stalled
<1>8. QED BY <1>3, <1>4, <1>5, <1>6, <1>7

\* What all clocks of a request have in common in which the host sends neither a token nor an ACK.
LEMMA RequestClocks ==
  ASSUME Supported, IInv, InRequest, NEW b, DeviceClock(b, token), ~b.ack, ~b.new_token,
         ~b.rx.good, b.rx.bytes \in Nat, UNCHANGED <<requestVars, excuseVars>>,
         got' \in Seq(Nat), incoming' \in Seq(Nat), host_toggle' \in {0, 1},
         ~any_match' => "block" \notin stall_latch'
  PROVE  /\ Types' /\ Matching' /\ AddressAgrees'
         /\ decoder' = "IDLE" /\ ~received' /\ packet' = packet /\ ~new_packet'
         /\ UNCHANGED <<control, token, configuration, address, halts_cleared, asked, log, missed, unsettled>>
         /\ Expected' = Expected /\ Wanted' = Wanted
         /\ P!Result(asked)' = P!Result(asked) /\ P!Changes(asked)' = P!Changes(asked)
<1>1. /\ Types /\ HostTypes /\ Matching /\ AddressAgrees /\ token \in Tokens
      /\ decoder = "IDLE" /\ ~received /\ asked \in Requests
  BY DEF IInv, InRequest, Types, DeviceTypes
<1>2. decoder' = "IDLE" /\ ~received' /\ packet' = packet /\ ~new_packet'
  BY <1>1, DecoderRests, NothingCaptured
<1>3. control' = control
  BY <1>1, StageKept
<1>4. /\ asked' = asked /\ host_address' = host_address /\ log' = log /\ missed' = missed /\ unsettled' = unsettled
  BY DEF requestVars, excuseVars
<1>5. UNCHANGED <<token, configuration, address, halts_cleared>>
  <2>1. ~HandlerInputs(b, token).ack
    BY Plain
  <2>2. QED BY <2>1, Parts DEF H!address_changed, H!config_changed, H!clear_endpoint_halt
<1>6. Types'
  <2>1. DeviceTypes'
    BY <1>1, DeviceTypesKept
  <2>2. HostTypes'
    BY <1>1, <1>2, <1>4 DEF HostTypes
  <2>3. QED BY <2>1, <2>2 DEF Types
<1>7. Matching'
  <2>1. any_match' = (any_match \/ packet.value = gen_value)
    BY DescriptorParts, Zenon
  <2>2. QED BY <1>1, <1>2, <1>4, <2>1, MatchingKept
<1>8. AddressAgrees'
  BY <1>1, <1>4, <1>5 DEF AddressAgrees
<1>9. /\ Expected' = Expected /\ Wanted' = Wanted
      /\ P!Result(asked)' = P!Result(asked) /\ P!Changes(asked)' = P!Changes(asked)
  BY <1>4, <1>5, AskedKept
<1>a. QED BY <1>2, <1>3, <1>4, <1>5, <1>6, <1>7, <1>8, <1>9

\* The device works on its answer or does not; it has nothing to say or stalls.
LEMMA RequestAfter ==
  ASSUME Supported, IInv, InRequest, stage \in {"data_in", "status_in"}, wire \in {"asked", "waiting"},
         NEW b, DeviceClock(b, token), ~b.ack, ~b.new_token, ~b.rx.good, b.rx.bytes \in Nat,
         UNCHANGED <<stage, requestVars, got, host_toggle, excuseVars>>, incoming' \in Seq(Nat),
         ~any_match' => "block" \notin stall_latch',
         \/ /\ wire' = "waiting" /\ ~unsettled /\ ~missed /\ Answering'
            /\ handler' = handler
            /\ handler = "GET_DESCRIPTOR" => UNCHANGED <<start_position, tx_data_pid>>
         \/ wire' = "waiting" /\ unsettled /\ Calm' /\ incoming' = << >> /\ handler' = "IDLE"
         \/ /\ wire' = "device_stall" /\ Calm' /\ incoming' = << >> /\ handler' = "IDLE"
            /\ P!Result(asked) = P!Stalled
  PROVE  IInv'
<1>1. got \in Seq(Nat) /\ host_toggle \in {0, 1} /\ unsettled \in BOOLEAN /\ missed \in BOOLEAN
  BY DEF IInv, Types, HostTypes
<1>2. got' = got /\ host_toggle' = host_toggle /\ stage' = stage /\ got' \in Seq(Nat) /\ host_toggle' \in {0, 1}
  BY <1>1
<1>3. /\ Types' /\ Matching' /\ AddressAgrees'
      /\ decoder' = "IDLE" /\ ~received' /\ packet' = packet /\ ~new_packet'
      /\ UNCHANGED <<control, token, configuration, asked, log, missed, unsettled>>
      /\ Expected' = Expected /\ Wanted' = Wanted
      /\ P!Result(asked)' = P!Result(asked) /\ P!Changes(asked)' = P!Changes(asked)
  BY <1>2, RequestClocks, Zenon
<1>4. /\ asked \in Requests /\ packet = asked /\ Len(log) < MaxRequests
      /\ handler = (IF Over THEN "IDLE" ELSE Expected) /\ (unsettled => ~P!Changes(asked))
  BY Zenon DEF InRequest, IInv
<1>5. Over <=> unsettled
  BY DEF Over
<1>6. handler' = IF Over' THEN "IDLE" ELSE Expected'
  <2>1. Over' <=> unsettled \/ wire' = "device_stall"
    BY <1>2, <1>3 DEF Over
  <2>2. QED BY <1>3, <1>4, <1>5, <2>1
<1>7. ~(wire' = "waiting" /\ ~missed' /\ ~unsettled') => Calm' /\ incoming' = << >>
  BY <1>3
<1>8. (wire' = "waiting" /\ ~missed' /\ ~unsettled') => Answering'
  BY <1>3
<1>9. CASE stage = "data_in"
  <2>1. InDataIn
    BY <1>9 DEF InRequest
  <2>2. ASSUME handler' = "GET_DESCRIPTOR"
        PROVE  ReadSoFar'
    <3>1. handler' = handler /\ UNCHANGED <<start_position, tx_data_pid>> /\ wire' # "ack"
      BY <2>2
    <3>2. ReadSoFar
      BY <2>1, <2>2, <3>1 DEF InDataIn
    <3>3. QED BY <1>2, <1>3, <3>1, <3>2, ReadKept
  <2>3. handler' = "GET_CONFIGURATION" => handler = "GET_CONFIGURATION"
    OBVIOUS
  <2>4. wire' \in {"waiting", "device_stall"}
    OBVIOUS
  <2>5. InDataIn'
    BY <1>2, <1>3, <2>1, <2>2, <2>3, <2>4 DEF InDataIn
  <2>6. InRequest'
    BY <1>2, <1>3, <1>4, <1>6, <1>7, <1>8, <1>9, <2>4, <2>5 DEF InRequest
  <2>7. QED BY <1>3, <1>4, <2>6 DEF IInv
<1>a. CASE stage = "status_in"
  <2>1. InStatusIn
    BY <1>a DEF InRequest
  <2>2. wire' \in {"waiting", "device_stall"}
    OBVIOUS
  <2>3. Heard("IN")' = Heard("IN") /\ SetsLineCoding(asked') = SetsLineCoding(asked)
    BY <1>3 DEF Heard
  <2>4. InStatusIn'
    BY <1>2, <1>3, <2>1, <2>2, <2>3 DEF InStatusIn
  <2>5. InRequest'
    BY <1>2, <1>3, <1>4, <1>6, <1>7, <1>8, <1>a, <2>2, <2>4 DEF InRequest
  <2>6. QED BY <1>3, <1>4, <2>5 DEF IInv
<1>b. QED BY <1>9, <1>a

---------------------------------------------------------------------------
(* An answer is due *)

LEMMA RespondStep ==
  ASSUME Supported, IInv, Respond
  PROVE  LET b == [Nothing EXCEPT !.ready_for_response = TRUE]
             h == HandlerInputs(b, token)
         IN /\ DeviceClock(b, token) /\ ~b.ack /\ ~b.new_token /\ ~b.rx.good /\ b.rx.bytes \in Nat
            /\ wire = "asked" /\ wire' = AfterClock(b, h)
            /\ UNCHANGED <<stage, requestVars, dataVars, excuseVars>>
            /\ h.data_requested = (control = "DATA_IN" /\ Heard("IN"))
            /\ h.status_requested = (control = "STATUS_IN" /\ Heard("IN"))
            /\ ~h.rx_ready_for_response /\ ~h.ack /\ h.setup = packet /\ h.received = received
            /\ C!ping_ack(ControlInputs(b, token)) = (control \in {"DATA_OUT", "STATUS_OUT"} /\ Heard("PING"))
            /\ ~R!ack(b.tx_allowed)
            /\ token \in Tokens /\ Types /\ InRequest /\ Calm /\ incoming = << >> /\ ~missed
            /\ stage \in {"data_in", "data_out", "status_in", "status_out"}
            /\ asked \in Requests /\ packet = asked /\ decoder = "IDLE" /\ ~received /\ ~new_packet
<1> DEFINE b == [Nothing EXCEPT !.ready_for_response = TRUE]
           h == HandlerInputs(b, token)
<1>1. /\ DeviceClock(b, token) /\ wire = "asked" /\ wire' = AfterClock(b, h)
      /\ UNCHANGED <<stage, requestVars, dataVars, excuseVars>>
  BY Zenon DEF Respond, Arrives, Decided
<1>2. /\ ~b.ack /\ ~b.new_token /\ ~b.rx.good /\ b.rx.bytes \in Nat
      /\ b.ready_for_response /\ ~b.rx_ready_for_response /\ ~b.tx_allowed
  BY DEF Nothing, R!NoPacket
<1> HIDE DEF b
<1>3. /\ C!data_requested(ControlInputs(b, token)) = (control = "DATA_IN" /\ Heard("IN"))
      /\ C!status_requested(ControlInputs(b, token)) = (control = "STATUS_IN" /\ Heard("IN"))
      /\ ~C!handler_rx_ready(ControlInputs(b, token))
      /\ C!ping_ack(ControlInputs(b, token)) = (control \in {"DATA_OUT", "STATUS_OUT"} /\ Heard("PING"))
  <2>1. /\ ControlInputs(b, token).pid = token.pid /\ ControlInputs(b, token).targeted = (token.endpoint = 0)
        /\ ControlInputs(b, token).ready_for_response = b.ready_for_response
        /\ ControlInputs(b, token).rx_ready_for_response = b.rx_ready_for_response
    BY DEF ControlInputs
  <2>2. QED BY <1>2, <2>1 DEF C!data_requested, C!status_requested, C!handler_rx_ready, C!ping_ack, Heard
<1>4. /\ h.data_requested = (control = "DATA_IN" /\ Heard("IN"))
      /\ h.status_requested = (control = "STATUS_IN" /\ Heard("IN"))
      /\ ~h.rx_ready_for_response /\ ~h.ack /\ h.setup = packet /\ h.received = received
  BY <1>2, <1>3, Plain
<1>5. ~R!ack(b.tx_allowed)
  BY <1>2 DEF R!ack
<1>6. /\ token \in Tokens /\ Types /\ InRequest /\ stage \in {"data_in", "data_out", "status_in", "status_out"}
  BY <1>1, Stages DEF WhenIdle, InSetup, IInv, Types, DeviceTypes
<1>7. /\ Calm /\ incoming = << >> /\ ~missed /\ asked \in Requests /\ packet = asked
      /\ decoder = "IDLE" /\ ~received /\ ~new_packet
  BY <1>1, <1>6 DEF InRequest
<1>8. QED BY <1>1, <1>2, <1>3, <1>4, <1>5, <1>6, <1>7 DEF b

\* A PING is acknowledged and changes nothing.
LEMMA PingAnswered ==
  ASSUME Supported, IInv, Respond, stage \in {"data_out", "status_out"}
  PROVE  IInv'
<1> DEFINE b == [Nothing EXCEPT !.ready_for_response = TRUE]
           h == HandlerInputs(b, token)
<1>1. /\ DeviceClock(b, token) /\ ~b.new_token /\ ~b.rx.good /\ b.rx.bytes \in Nat
      /\ wire = "asked" /\ wire' = AfterClock(b, h)
      /\ UNCHANGED <<stage, requestVars, dataVars, excuseVars>>
      /\ h.data_requested = (control = "DATA_IN" /\ Heard("IN"))
      /\ h.status_requested = (control = "STATUS_IN" /\ Heard("IN"))
      /\ ~h.rx_ready_for_response /\ ~h.ack
      /\ C!ping_ack(ControlInputs(b, token)) = (control \in {"DATA_OUT", "STATUS_OUT"} /\ Heard("PING"))
      /\ token \in Tokens /\ Types /\ InRequest /\ Calm /\ incoming = << >>
  BY RespondStep, Zenon
<1>2. Heard("PING") /\ ~Heard("IN") /\ control \in {"DATA_OUT", "STATUS_OUT"}
  BY <1>1 DEF InRequest, InDataOut, InStatusOut, Heard
<1>3. ~h.data_requested /\ ~h.status_requested /\ Still(b, token)
  BY <1>1, <1>2 DEF Still
<1> HIDE DEF b
<1>4. ~h.descriptor_stall
  <2>1. ~send_zlp(h)
    BY <1>3 DEF send_zlp, H!send_zlp, acm_send_zlp
  <2>2. QED BY <1>1, <1>3, <2>1, CalmDevice, Zenon
<1> HIDE DEF h
<1>5. wire' = "device_ack"
  <2>1. ~device_stall(h)
    BY <1>3, <1>4 DEF device_stall, H!stall
  <2>2. device_ack(b, token, h)
    BY <1>1, <1>2 DEF device_ack
  <2>3. QED BY <1>1, <2>1, <2>2 DEF AfterClock
<1>6. ~new_packet'
  BY <1>1, NothingCaptured
<1>7. missed' = missed /\ unsettled' = unsettled /\ missed' \in BOOLEAN /\ unsettled' \in BOOLEAN
  BY <1>1 DEF excuseVars, Types, HostTypes
<1>8. Over' = Over
  <2>1. token' = token /\ token.pid = "PING"
    BY <1>1, <1>2, Parts DEF Heard
  <2>2. QED BY <1>1, <1>5, <1>7, <2>1 DEF Over
<1>9. unsettled' => stage # "data_out" /\ ~P!Changes(asked)
  BY <1>1, <1>7 DEF InRequest, InDataOut
<1>a. QED BY <1>1, <1>3, <1>5, <1>6, <1>7, <1>8, <1>9, RequestGoesOn

LEMMA StatusAnswered ==
  ASSUME Supported, IInv, Respond, stage = "status_in"
  PROVE  IInv'
<1> DEFINE b == [Nothing EXCEPT !.ready_for_response = TRUE]
           h == HandlerInputs(b, token)
<1>1. /\ DeviceClock(b, token) /\ ~b.ack /\ ~b.new_token /\ ~b.rx.good /\ b.rx.bytes \in Nat
      /\ wire = "asked" /\ wire' = AfterClock(b, h)
      /\ UNCHANGED <<stage, requestVars, dataVars, excuseVars>>
      /\ h.data_requested = (control = "DATA_IN" /\ Heard("IN"))
      /\ h.status_requested = (control = "STATUS_IN" /\ Heard("IN"))
      /\ ~h.rx_ready_for_response /\ ~h.ack /\ h.setup = packet /\ h.received = received
      /\ C!ping_ack(ControlInputs(b, token)) = (control \in {"DATA_OUT", "STATUS_OUT"} /\ Heard("PING"))
      /\ ~R!ack(b.tx_allowed)
      /\ token \in Tokens /\ Types /\ InRequest /\ Calm /\ incoming = << >> /\ ~missed
      /\ asked \in Requests /\ packet = asked /\ ~received
  BY RespondStep, Zenon
<1> HIDE DEF b
<1>2. /\ InStatusIn /\ Heard("IN") /\ ~Heard("PING") /\ control = "STATUS_IN"
      /\ handler = (IF unsettled THEN "IDLE" ELSE Expected)
      /\ unsettled => P!Result(asked) = P!Stalled
      /\ asked.length = 0 \/ SetsLineCoding(asked)
  <2>1. InStatusIn /\ handler = (IF Over THEN "IDLE" ELSE Expected)
    BY <1>1, Zenon DEF InRequest
  <2>2. Over <=> unsettled
    BY <1>1 DEF Over
  <2>3. QED BY <1>1, <2>1, <2>2 DEF InStatusIn, Heard
<1>3. h.status_requested /\ ~h.data_requested
  BY <1>1, <1>2
<1>4. Served(asked)
  BY <1>1 DEF Supported
<1>5. handler \in H!register_writes \cup {"CLEAR_FEATURE", "IDLE", "UNHANDLED"}
  <2>1. asked.type = "STANDARD" => asked.request \notin {"GET_DESCRIPTOR", "GET_CONFIGURATION", "GET_STATUS"}
    BY <1>2, <1>4 DEF Served, SetsLineCoding
  <2>2. QED BY <1>2, <2>1 DEF Expected, HandlerState, H!handled, H!simple_data
<1>6. handler \notin H!simple_data \cup {"GET_DESCRIPTOR"}
  BY <1>5 DEF H!simple_data, H!register_writes
<1> HIDE DEF h
<1>7. /\ ~device_ack(b, token, h)
      /\ device_stall(h) <=> \/ claim /\ (handler = "UNHANDLED" \/ (handler = "CLEAR_FEATURE" /\ (asked.recipient # "ENDPOINT" \/ asked.value # <<0, 0>>)))
                             \/ ~any_claim(h)
  <2>1. ~device_ack(b, token, h)
    BY <1>1, <1>2, <1>6 DEF device_ack, H!ack, acm_ack
  <2>2. H!stall(h) <=> \/ handler = "UNHANDLED"
                       \/ handler = "CLEAR_FEATURE" /\ (asked.recipient # "ENDPOINT" \/ asked.value # <<0, 0>>)
    BY <1>1, <1>3, <1>6 DEF H!stall, H!stall_condition
  <2>3. QED BY <1>3, <2>1, <2>2 DEF device_stall
<1>8. /\ claim <=> asked.type = "STANDARD"
      /\ acm_claim(h) <=> SetsLineCoding(asked)
      /\ any_claim(h) <=> asked.type = "STANDARD" \/ SetsLineCoding(asked)
  BY <1>1 DEF claim, acm_claim, any_claim, SetsLineCoding
<1>9. send_zlp(h) <=> \/ claim /\ (handler \in H!register_writes \/ (handler = "CLEAR_FEATURE" /\ asked.recipient = "ENDPOINT" /\ asked.value = <<0, 0>>))
                      \/ SetsLineCoding(asked)
  BY <1>1, <1>3, <1>8 DEF send_zlp, H!send_zlp, H!stall_condition, acm_send_zlp
<1>a. handler' = IF handler = "UNHANDLED" THEN "IDLE" ELSE handler
  <2>1. H!Clock(h)
    BY <1>1, Parts DEF h
  <2>2. QED BY <1>1, <1>3, <1>5, <2>1 DEF H!Clock, H!Idle, H!HandleSimpleDataRequest, H!HandleWriteRequest, H!GetDescriptor,
                                      H!Unhandled, H!simple_data, H!register_writes
<1>b. ~any_match' => "block" \notin stall_latch'
  <2>1. ~D!B!stall(packet.value)
    BY <1>1 DEF D!B!stall, Calm
  <2>2. "block" \in stall_latch' => "block" \in stall_latch
    BY <1>1, <2>1, LatchFacts
  <2>3. any_match => any_match'
    BY <1>1, DescriptorParts, Zenon
  <2>4. QED BY <2>2, <2>3 DEF IInv, Matching
<1>c. /\ stage \in {"data_in", "status_in"} /\ wire \in {"asked", "waiting"} /\ incoming' = << >> /\ incoming' \in Seq(Nat)
      /\ UNCHANGED <<stage, requestVars, got, host_toggle, excuseVars>> /\ stage' = "status_in"
      /\ Types /\ unsettled \in BOOLEAN
  BY <1>1 DEF dataVars, Types, HostTypes
<1>d. CASE send_zlp(h)
  <2>1. ~unsettled /\ P!Result(asked) = P!Done(<< >>)
    <3>1. P!Result(asked) = P!Done(<< >>)
      <4>1. CASE SetsLineCoding(asked)
        BY <1>1, <4>1, Results
      <4>2. CASE claim /\ handler \in H!register_writes \cup {"CLEAR_FEATURE"}
        <5>1. asked.request = handler
          BY <1>2, <4>2 DEF Expected, HandlerState, H!register_writes
        <5>2. QED BY <1>1, <1>8, <4>2, <5>1, Results
      <4>3. QED BY <1>9, <1>d, <4>1, <4>2
    <3>2. QED BY <1>1, <1>2, <3>1, Results
  <2>2. ~device_stall(h)
    <3>1. CASE SetsLineCoding(asked)
      BY <1>1, <1>7, <1>8, <3>1, Results
    <3>2. CASE claim /\ (handler \in H!register_writes \/ (handler = "CLEAR_FEATURE" /\ asked.recipient = "ENDPOINT" /\ asked.value = <<0, 0>>))
      BY <1>7, <1>8, <3>2 DEF H!register_writes
    <3>3. QED BY <1>9, <1>d, <3>1, <3>2
  <2>3. wire' = "waiting"
    BY <1>1, <1>7, <2>2 DEF AfterClock, h
  <2>4. handler' = handler
    <3>1. handler # "UNHANDLED"
      <4>1. CASE SetsLineCoding(asked)
        BY <1>1, <1>2, <4>1, Results DEF Expected
      <4>2. CASE ~SetsLineCoding(asked)
        BY <1>9, <1>d, <4>2 DEF H!register_writes
      <4>3. QED BY <4>1, <4>2
    <3>2. QED BY <1>a, <3>1
  <2>5. handler # "GET_DESCRIPTOR"
    BY <1>6
  <2>6. lookup' = "IDLE" /\ gen'.state = "IDLE" /\ serializer' = "IDLE"
    <3>1. ~DescriptorInputs(b, token).start /\ ~H!serializer_start(h)
      BY <1>3, <1>6, Plain DEF h, H!serializer_start
    <3>2. lookup' = "IDLE"
      <4>1. D!B!Clock(packet.value, packet.length, start_position, DescriptorInputs(b, token).start,
                      describing /\ G!stream_ready(b.tx_ready))
        BY <1>1, DescriptorParts, Zenon
      <4>2. QED BY <1>1, <3>1, <4>1 DEF Calm, D!B!Clock, D!B!Idle, D!B!Start, D!B!LookupType, D!B!LookupDescriptor,
                                        D!B!SendDescriptor, D!B!SendZlp
    <3>3. gen'.state = "IDLE"
      BY <1>1, <3>1, GeneratorParts DEF GeneratorClock, GeneratorStarts, Calm
    <3>4. serializer' = "IDLE"
      BY <1>1, <3>1, Parts DEF S!Clock, Calm, h
    <3>5. QED BY <3>2, <3>3, <3>4
  <2>7. tx_state' = "SEND_PID" /\ is_zlp' /\ packet_pid' = 1
    <3>1. out_valid(h) /\ out_last(h) /\ ~out_first(h)
      BY <1>6, <1>d DEF out_valid, out_last, out_first, serializing, describing
    <3>2. (IF claim THEN tx_data_pid ELSE 1) = 1
      <4>1. claim => handler \notin {"IDLE", "GET_DESCRIPTOR"}
        BY <1>6, <1>8, <1>9, <1>d, <1>1, Results DEF H!register_writes
      <4>2. handler \notin {"IDLE", "GET_DESCRIPTOR"} => tx_data_pid = 1
        BY <1>1 DEF Types, DeviceTypes, Fresh
      <4>3. QED BY <4>1, <4>2
    <3>3. G!Clock(IF claim THEN tx_data_pid ELSE 1, out_first(h), out_last(h), out_valid(h), b.tx_ready)
      BY <1>1, Parts DEF h
    <3>4. G!Clock(1, out_first(h), out_last(h), out_valid(h), b.tx_ready)
      BY <3>2, <3>3
    <3>5. QED BY <1>1, <3>1, <3>4 DEF G!Clock, G!Idle, G!SendPid, G!SendPayload, G!SendCrcFirst, G!SendCrcSecond, Calm
  <2>8. StatusUnderway'
    BY <1>c, <2>6, <2>7 DEF StatusUnderway
  <2>9. Heard("IN")' /\ P!Result(asked)' = P!Done(<< >>)
    <3>1. token' = token /\ configuration' = configuration
      BY <1>1, Parts DEF H!config_changed, h
    <3>2. asked' = asked
      BY <1>c DEF requestVars
    <3>3. P!Result(asked)' = P!Result(asked)
      BY <3>1, <3>2, AskedKept
    <3>4. QED BY <1>2, <2>1, <3>1, <3>3 DEF Heard
  <2>a. Answering'
    BY <1>c, <2>8, <2>9 DEF Answering, P!Done
  <2>b. QED BY <1>1, <1>b, <1>c, <2>1, <2>3, <2>4, <2>5, <2>a, RequestAfter
<1>e. CASE ~send_zlp(h)
  <2>1. Calm'
    BY <1>1, <1>6, <1>e, CalmDevice, Zenon DEF h
  <2>2. \/ device_stall(h) /\ handler' = "IDLE" /\ P!Result(asked) = P!Stalled
        \/ ~device_stall(h) /\ unsettled /\ handler' = "IDLE"
    <3>1. ~SetsLineCoding(asked)
      BY <1>9, <1>e
    <3>2. CASE asked.type # "STANDARD"
      <4>1. handler = "IDLE"
        BY <1>2, <3>2 DEF Expected
      <4>2. QED BY <1>1, <1>7, <1>8, <1>a, <3>1, <3>2, <4>1, Results
    <3>3. CASE asked.type = "STANDARD" /\ unsettled
      BY <1>2, <1>7, <1>8, <1>a, <3>3
    <3>4. CASE asked.type = "STANDARD" /\ ~unsettled
      <4>1. handler = HandlerState(asked)
        BY <1>2, <3>4 DEF Expected
      <4>2. handler # "CLEAR_FEATURE"
        BY <1>4, <1>8, <1>9, <1>e, <3>4, <4>1 DEF HandlerState, Served
      <4>3. handler = "UNHANDLED"
        <5>1. handler # "IDLE"
          BY <4>1 DEF HandlerState, H!handled, H!register_writes, H!simple_data
        <5>2. handler \notin H!register_writes
          BY <1>8, <1>9, <1>e, <3>4
        <5>3. QED BY <1>5, <4>2, <5>1, <5>2
      <4>4. asked.request \notin H!handled
        BY <4>1, <4>3 DEF HandlerState, H!handled, H!register_writes, H!simple_data
      <4>5. QED BY <1>1, <1>7, <1>8, <1>a, <3>4, <4>3, <4>4, Results
    <3>5. QED BY <3>2, <3>3, <3>4
  <2>3. wire' = IF device_stall(h) THEN "device_stall" ELSE "waiting"
    BY <1>1, <1>7 DEF AfterClock, h
  <2>4. QED BY <1>1, <1>b, <1>c, <2>1, <2>2, <2>3, RequestAfter
<1>f. QED BY <1>d, <1>e

\* The next packet of a descriptor is as long as the host wants it or the descriptor has it.
LEMMA PacketFacts ==
  ASSUME Supported, Types, asked \in Requests, Reading, P!Exists(asked.value), ReadSoFar
  PROVE  /\ start_position \in Nat /\ start_position <= Len(got) /\ start_position < asked.length
         /\ start_position <= Len(Wanted) /\ Len(Wanted) \in Nat /\ Len(Wanted) < H!start_positions
         /\ asked.length \in Nat
         /\ Limit = Smaller(max_packet_size, asked.length - start_position)
         /\ Limit \in Nat /\ Limit > 0 /\ Limit <= max_packet_size
         /\ PacketLength(start_position) = Smaller(Limit, Len(Wanted) - start_position)
         /\ IsGenerated(asked) => start_position < Len(Wanted)
<1>1. /\ asked.length \in Nat /\ asked.length < 65536
      /\ Wanted \in Seq(Nat) /\ Len(Wanted) \in Nat /\ Len(Wanted) < H!start_positions
      /\ IsGenerated(asked) => Wanted = gen_data
  BY WantedFacts
<1>2. /\ start_position \in Nat /\ got \in Seq(Nat) /\ Len(got) \in Nat /\ max_packet_size \in Nat /\ max_packet_size > 0
  BY SizeAssumption DEF Types, DeviceTypes, HostTypes
<1>3. /\ Len(got) < asked.length /\ Len(got) <= Len(Wanted) /\ start_position <= Len(got)
      /\ \E k \in 0 .. start_position : start_position = k * max_packet_size
  <2>1. /\ Len(got) < asked.length /\ Len(got) <= Len(Wanted) /\ (Sending \/ Repeating)
        /\ \E k \in 0 .. start_position : start_position = k * max_packet_size
    BY DEF ReadSoFar
  <2>2. start_position <= Len(got)
    BY <1>2, <2>1 DEF Sending, Repeating
  <2>3. QED BY <2>1, <2>2
<1>4. (asked.length - start_position) % 65536 = asked.length - start_position
  <2>1. asked.length - start_position \in Nat /\ asked.length - start_position < 65536
    BY <1>1, <1>2, <1>3
  <2>2. QED BY <2>1, SmallRemainder
<1>5. Limit = Smaller(max_packet_size, asked.length - start_position)
  <2>1. Limit = IF asked.length - start_position <= max_packet_size THEN asked.length - start_position
                ELSE max_packet_size
    BY <1>4 DEF Limit, D!B!PacketLimit
  <2>2. QED BY <1>1, <1>2, <2>1 DEF Smaller
<1>6. Limit \in Nat /\ Limit > 0 /\ Limit <= max_packet_size
  BY <1>1, <1>2, <1>3, <1>5 DEF Smaller
<1>7. PacketLength(start_position) = Smaller(Limit, Len(Wanted) - start_position)
  BY <1>1, <1>2, <1>3, <1>5 DEF PacketLength, Whole, Smaller
<1>8. ASSUME IsGenerated(asked)
      PROVE  start_position < Len(Wanted)
  <2>1. asked.length <= Len(Wanted) \/ \A k \in 0 .. Len(Wanted) : Len(Wanted) # k * max_packet_size
    BY <1>1, <1>8 DEF Supported, Served, EndShows, gen_data
  <2>2. PICK k \in 0 .. start_position : start_position = k * max_packet_size
    BY <1>3
  <2>3. start_position # Len(Wanted)
    <3>1. SUFFICES ASSUME start_position = Len(Wanted) PROVE FALSE
      OBVIOUS
    <3>2. ~(asked.length <= Len(Wanted))
      BY <1>1, <1>2, <1>3, <3>1
    <3>3. k \in 0 .. Len(Wanted) /\ Len(Wanted) = k * max_packet_size
      BY <2>2, <3>1
    <3>4. QED BY <2>1, <3>2, <3>3, Zenon
  <2>4. QED BY <1>1, <1>2, <1>3, <2>3
<1>9. QED BY <1>1, <1>2, <1>3, <1>5, <1>6, <1>7, <1>8

\* Without a packet under way or an empty one asked for, the stream is silent.
LEMMA NothingValid ==
  ASSUME Supported, Calm, NEW b, NEW t, ~send_zlp(HandlerInputs(b, t))
  PROVE  ~out_valid(HandlerInputs(b, t))
<1> DEFINE h == HandlerInputs(b, t)
<1>1. ~D!out_valid(h.descriptor)
  <2>1. \A g \in D!R!Selected(packet.value) : generators[g].state = "IDLE"
    BY GeneratedFacts DEF Calm, gen
  <2>2. ~D!R!out_valid(packet.value)
    BY <2>1 DEF D!R!out_valid, D!R!Streaming
  <2>3. ~D!B!out_valid
    BY DEF D!B!out_valid, Calm
  <2>4. h.descriptor.value = packet.value
    BY Plain
  <2>5. QED BY <2>2, <2>3, <2>4 DEF D!out_valid
<1>2. QED BY <1>1 DEF out_valid, S!out_valid, Calm

\* A packet of a descriptor is asked for: the handlers look for it.
LEMMA DescriptorAsked ==
  ASSUME Supported, IInv, InRequest, Calm, NEW b, DeviceClock(b, token),
         handler = "GET_DESCRIPTOR", DescriptorInputs(b, token).start, packet = asked, Reading
  PROVE  /\ ~HandlerInputs(b, token).descriptor_stall
         /\ lookup' = "START" /\ bytes_sent' = 0
         /\ IF IsGenerated(asked)
            THEN stall_latch' = {} /\ gen'.bytes_sent = 0
                 /\ gen'.position_in_stream = start_position % D!R!Wide(Len(gen_data))
                 /\ gen'.state = IF Limit > 0 THEN "STREAMING" ELSE "DONE"
            ELSE stall_latch' = {"distributed"} /\ gen'.state = "IDLE"
<1> DEFINE i == DescriptorInputs(b, token)
<1>1. /\ Types /\ Matching /\ asked \in Requests
      /\ lookup = "IDLE" /\ gen.state = "IDLE" /\ i.value = packet.value
      /\ HandlerInputs(b, token).descriptor_stall = D!stall(i)
  BY Plain DEF IInv, Calm, InRequest
<1>2. i.start
  OBVIOUS
<1>3. /\ D!B!Clock(packet.value, packet.length, start_position, i.start, describing /\ G!stream_ready(b.tx_ready))
      /\ D!R!Clock(packet.value, packet.length, start_position, i.start, describing /\ G!stream_ready(b.tx_ready))
      /\ stall_latch' = (IF i.start \/ D!stall(i) THEN {} ELSE stall_latch)
                        \cup (IF D!stall(i) THEN {} ELSE D!stalling(i))
      /\ any_match' = (any_match \/ packet.value = gen_value)
  BY <1>1, DescriptorParts, Zenon
<1> HIDE DEF i
<1>4. D!R!stall(packet.value, i.start) = ~any_match'
  BY <1>2, <1>3 DEF D!R!stall, D!R!Clock
<1>5. ~D!B!stall(packet.value)
  BY <1>1 DEF D!B!stall
<1>6. ~D!stall(i)
  <2>1. "block" \in stall_latch => any_match'
    BY <1>1, <1>3 DEF Matching
  <2>2. QED BY <1>1, <1>4, <1>5, <2>1, StallFacts
<1>7. stall_latch' = IF any_match' THEN {} ELSE {"distributed"}
  <2>1. stall_latch' = D!stalling(i)
    BY <1>2, <1>3, <1>6
  <2>2. /\ "block" \notin D!stalling(i) /\ D!stalling(i) \subseteq {"block", "distributed"}
        /\ "distributed" \in D!stalling(i) <=> ~any_match'
    BY <1>1, <1>4, <1>5, StallFacts
  <2>3. QED BY <2>1, <2>2
<1>8. lookup' = "START" /\ bytes_sent' = 0
  BY <1>1, <1>2, <1>3 DEF D!B!Clock, D!B!Idle, D!B!Start, D!B!LookupType, D!B!LookupDescriptor,
                          D!B!SendDescriptor, D!B!SendZlp
<1>9. IsGenerated(asked) <=> packet.value = gen_value
  BY <1>1, WantedFacts
<1>a. any_match' <=> IsGenerated(asked)
  BY <1>1, <1>3, <1>9 DEF Matching
<1>b. /\ gen'.state = IF ~(i.start /\ packet.value = gen_value) THEN "IDLE"
                      ELSE IF D!B!PacketLimit(packet.length, start_position) > 0 THEN "STREAMING" ELSE "DONE"
      /\ gen'.position_in_stream = start_position % D!R!Wide(Len(gen_data)) /\ gen'.bytes_sent = 0
  BY <1>1, GeneratorParts DEF GeneratorClock, GeneratorStarts, i
<1>c. QED BY <1>1, <1>2, <1>6, <1>7, <1>8, <1>9, <1>a, <1>b DEF Limit

LEMMA DataAnswered ==
  ASSUME Supported, IInv, Respond, stage = "data_in"
  PROVE  IInv'
<1> DEFINE b == [Nothing EXCEPT !.ready_for_response = TRUE]
           h == HandlerInputs(b, token)
<1>1. /\ DeviceClock(b, token) /\ ~b.ack /\ ~b.new_token /\ ~b.rx.good /\ b.rx.bytes \in Nat
      /\ wire = "asked" /\ wire' = AfterClock(b, h)
      /\ UNCHANGED <<stage, requestVars, dataVars, excuseVars>>
      /\ h.data_requested = (control = "DATA_IN" /\ Heard("IN"))
      /\ h.status_requested = (control = "STATUS_IN" /\ Heard("IN"))
      /\ ~h.rx_ready_for_response /\ ~h.ack /\ h.setup = packet /\ h.received = received
      /\ C!ping_ack(ControlInputs(b, token)) = (control \in {"DATA_OUT", "STATUS_OUT"} /\ Heard("PING"))
      /\ ~R!ack(b.tx_allowed)
      /\ token \in Tokens /\ Types /\ InRequest /\ Calm /\ incoming = << >> /\ ~missed
      /\ asked \in Requests /\ packet = asked /\ ~received
  BY RespondStep, Zenon
<1> HIDE DEF b
<1>2. /\ InDataIn /\ Heard("IN") /\ ~Heard("PING") /\ control = "DATA_IN"
      /\ handler = (IF unsettled THEN "IDLE" ELSE Expected)
      /\ asked.length > 0 /\ asked.is_in_request
  <2>1. InDataIn /\ handler = (IF Over THEN "IDLE" ELSE Expected)
    BY <1>1, Zenon DEF InRequest
  <2>2. Over <=> unsettled
    BY <1>1 DEF Over
  <2>3. QED BY <1>1, <2>1, <2>2 DEF InDataIn, Heard
<1>3. h.data_requested /\ ~h.status_requested
  BY <1>1, <1>2
<1>4. Served(asked)
  BY <1>1 DEF Supported
<1>5. /\ handler \in {"IDLE", "UNHANDLED", "GET_DESCRIPTOR", "GET_CONFIGURATION"}
      /\ handler = "UNHANDLED" => asked.type = "STANDARD" /\ asked.request \notin H!handled
      /\ handler = "IDLE" => asked.type # "STANDARD" \/ unsettled
      /\ handler \in {"GET_DESCRIPTOR", "GET_CONFIGURATION"} => asked.type = "STANDARD" /\ asked.request = handler /\ ~unsettled
      /\ ~SetsLineCoding(asked)
  <2>1. asked.request \notin H!register_writes \cup {"CLEAR_FEATURE", "GET_STATUS"} /\ ~SetsLineCoding(asked)
    <3>1. /\ asked.request \in H!register_writes \cup {"CLEAR_FEATURE"} => asked.length = 0
          /\ asked.request # "GET_STATUS"
      BY <1>2, <1>4 DEF Served
    <3>2. ~SetsLineCoding(asked)
      BY <1>2, <1>4 DEF Served
    <3>3. ~(asked.length = 0)
      BY <1>2, <1>4 DEF Served
    <3>4. QED BY <3>1, <3>2, <3>3
  <2>2. HandlerState(asked) \in {"UNHANDLED", "GET_DESCRIPTOR", "GET_CONFIGURATION"}
    BY <2>1 DEF HandlerState, H!handled, H!simple_data
  <2>3. HandlerState(asked) = "UNHANDLED" => asked.request \notin H!handled
    BY DEF HandlerState, H!handled, H!simple_data, H!register_writes
  <2>4. HandlerState(asked) \in {"GET_DESCRIPTOR", "GET_CONFIGURATION"} => asked.request = HandlerState(asked)
    BY DEF HandlerState
  <2>5. QED BY <1>2, <2>1, <2>2, <2>3, <2>4 DEF Expected
<1>6. ~send_zlp(h) /\ ~out_valid(h)
  <2>1. ~send_zlp(h)
    BY <1>3 DEF send_zlp, H!send_zlp, acm_send_zlp
  <2>2. QED BY <1>1, <2>1, NothingValid, Zenon
<1>7. /\ ~device_ack(b, token, h)
      /\ claim <=> asked.type = "STANDARD"
      /\ device_stall(h) <=> \/ claim /\ (handler = "UNHANDLED" \/ (handler = "GET_DESCRIPTOR" /\ h.descriptor_stall))
                             \/ ~claim
  <2>1. ~device_ack(b, token, h)
    BY <1>1, <1>2, <1>3 DEF device_ack, H!ack, acm_ack
  <2>2. H!stall(h) <=> handler = "UNHANDLED" \/ (handler = "GET_DESCRIPTOR" /\ h.descriptor_stall)
    BY <1>3, <1>5 DEF H!stall
  <2>3. (any_claim(h) <=> claim) /\ (claim <=> asked.type = "STANDARD")
    BY <1>1, <1>5 DEF any_claim, acm_claim, claim, SetsLineCoding
  <2>4. QED BY <1>3, <2>1, <2>2, <2>3 DEF device_stall
<1>8. wire' = IF device_stall(h) THEN "device_stall" ELSE "waiting"
  BY <1>1, <1>7 DEF AfterClock
<1>9. ~any_match' => "block" \notin stall_latch'
  <2>1. ~D!B!stall(packet.value)
    BY <1>1 DEF D!B!stall, Calm
  <2>2. "block" \in stall_latch' => "block" \in stall_latch
    BY <1>1, <2>1, LatchFacts
  <2>3. any_match => any_match'
    BY <1>1, DescriptorParts, Zenon
  <2>4. QED BY <2>2, <2>3 DEF IInv, Matching
<1>a. /\ stage \in {"data_in", "status_in"} /\ wire \in {"asked", "waiting"} /\ incoming' = << >> /\ incoming' \in Seq(Nat)
      /\ UNCHANGED <<stage, requestVars, got, host_toggle, excuseVars>> /\ stage' = "data_in"
      /\ Types /\ unsettled \in BOOLEAN /\ asked' = asked
  BY <1>1 DEF requestVars, dataVars, Types, HostTypes
<1>b. H!Clock(h) /\ token' = token /\ configuration' = configuration
  <2>1. H!Clock(h) /\ token' = token /\ configuration' = IF claim /\ H!config_changed(h) THEN packet.value[2] ELSE configuration
    BY <1>1, Parts
  <2>2. QED BY <1>1, <2>1 DEF H!config_changed
<1>c. tx_state' = "IDLE"
  BY <1>1, <1>6, Parts DEF G!Clock, G!Idle, G!SendPid, G!SendPayload, G!SendCrcFirst, G!SendCrcSecond, Calm
<1>d. Heard("IN")'
  BY <1>2, <1>b DEF Heard
<1>e. CASE handler \in {"IDLE", "UNHANDLED"}
  <2>1. Calm'
    BY <1>1, <1>6, <1>e, CalmDevice, Zenon DEF H!simple_data
  <2>2. handler' = "IDLE"
    BY <1>1, <1>3, <1>b, <1>e DEF H!Clock, H!Idle, H!HandleSimpleDataRequest, H!HandleWriteRequest, H!GetDescriptor,
                                  H!Unhandled, H!simple_data, H!register_writes
  <2>3. \/ device_stall(h) /\ P!Result(asked) = P!Stalled
        \/ ~device_stall(h) /\ unsettled
    BY <1>1, <1>5, <1>7, <1>e, Results
  <2>4. QED BY <1>1, <1>8, <1>9, <1>a, <2>1, <2>2, <2>3, RequestAfter
<1>f. CASE handler = "GET_CONFIGURATION"
  <2>1. wire' = "waiting" /\ ~unsettled
    BY <1>5, <1>7, <1>8, <1>f
  <2>2. handler' = handler
    BY <1>3, <1>b, <1>f DEF H!Clock, H!Idle, H!HandleSimpleDataRequest, H!HandleWriteRequest, H!GetDescriptor,
                            H!Unhandled, H!simple_data, H!register_writes
  <2>3. serializer' = "STREAMING" /\ at' = 0 /\ serialized' = 0
    <3>1. H!serializer_start(h) /\ H!serializer_length = 1
      BY <1>3, <1>f DEF H!serializer_start, H!serializer_length, H!simple_data
    <3>2. S!Narrowed(H!serializer_length) > 0
      BY <3>1 DEF S!Narrowed
    <3>3. S!Clock(H!serializer_start(h), S!Narrowed(H!serializer_length), serializing /\ G!stream_ready(b.tx_ready))
      BY <1>1, Parts
    <3>4. QED BY <1>1, <3>1, <3>2, <3>3 DEF S!Clock, Calm
  <2>4. lookup' = "IDLE" /\ gen'.state = "IDLE"
    <3>1. ~DescriptorInputs(b, token).start
      BY <1>f, Plain
    <3>2. lookup' = "IDLE"
      <4>1. D!B!Clock(packet.value, packet.length, start_position, DescriptorInputs(b, token).start,
                      describing /\ G!stream_ready(b.tx_ready))
        BY <1>1, DescriptorParts, Zenon
      <4>2. QED BY <1>1, <3>1, <4>1 DEF Calm, D!B!Clock, D!B!Idle, D!B!Start, D!B!LookupType, D!B!LookupDescriptor,
                                        D!B!SendDescriptor, D!B!SendZlp
    <3>3. gen'.state = "IDLE"
      BY <1>1, <3>1, GeneratorParts DEF GeneratorClock, GeneratorStarts, Calm
    <3>4. QED BY <3>2, <3>3
  <2>5. ConfigurationUnderway'
    BY <1>a, <1>c, <2>3, <2>4 DEF ConfigurationUnderway
  <2>6. Answering'
    BY <1>a, <1>d, <1>f, <2>2, <2>5 DEF Answering
  <2>7. QED BY <1>1, <1>9, <1>a, <1>f, <2>1, <2>2, <2>6, RequestAfter
<1>g. CASE handler = "GET_DESCRIPTOR"
  <2>1. /\ DescriptorInputs(b, token).start /\ Reading
        /\ ReadSoFar /\ asked.type = "STANDARD" /\ ~unsettled
    <3>1. DescriptorInputs(b, token).start
      BY <1>3, <1>g, Plain
    <3>2. QED BY <1>2, <1>3, <1>5, <1>g, <3>1 DEF InDataIn, Reading
  <2>2. /\ ~h.descriptor_stall
        /\ lookup' = "START" /\ bytes_sent' = 0
        /\ IF IsGenerated(asked)
           THEN stall_latch' = {} /\ gen'.bytes_sent = 0
                /\ gen'.position_in_stream = start_position % D!R!Wide(Len(gen_data))
                /\ gen'.state = IF Limit > 0 THEN "STREAMING" ELSE "DONE"
           ELSE stall_latch' = {"distributed"} /\ gen'.state = "IDLE"
    BY <1>1, <1>g, <2>1, DescriptorAsked, Zenon
  <2>3. wire' = "waiting"
    BY <1>7, <1>8, <1>g, <2>1, <2>2
  <2>4. handler' = handler /\ UNCHANGED <<start_position, tx_data_pid>> /\ expecting_ack'
    <3>1. H!awaits_ack(h) /\ ~H!advances(h)
      BY <1>1, <1>3, <2>2 DEF H!awaits_ack, H!advances
    <3>2. QED BY <1>3, <1>b, <1>g, <2>2, <3>1 DEF H!Clock, H!Idle, H!HandleSimpleDataRequest, H!HandleWriteRequest, H!GetDescriptor,
                                                  H!Unhandled, H!simple_data, H!register_writes
  <2>5. serializer' = "IDLE"
    <3>1. ~H!serializer_start(h)
      BY <1>g DEF H!serializer_start, H!simple_data
    <3>2. QED BY <1>1, <3>1, Parts DEF S!Clock, Calm
  <2>6. Wanted' = Wanted /\ IsGenerated(asked)' = IsGenerated(asked) /\ P!Exists(asked.value)' = P!Exists(asked.value)
    BY <1>a, <1>b, AskedKept
  <2>7. CASE ~IsGenerated(asked)
    <3>1. LookedUp'
      BY <1>a, <1>c, <2>2, <2>7 DEF LookedUp
    <3>2. DescriptorUnderway'
      BY <1>c, <2>2, <2>4, <2>5, <2>6, <2>7, <3>1 DEF DescriptorUnderway
    <3>3. Answering'
      BY <1>a, <1>d, <1>g, <2>4, <3>2 DEF Answering
    <3>4. QED BY <1>1, <1>9, <1>a, <2>1, <2>3, <2>4, <3>3, RequestAfter
  <2>8. CASE IsGenerated(asked)
    <3>1. P!Exists(asked.value) /\ Wanted = gen_data
      BY <1>1, <2>1, <2>8, WantedFacts
    <3>2. /\ start_position \in Nat /\ start_position < Len(Wanted) /\ Len(Wanted) \in Nat /\ Len(Wanted) < H!start_positions
          /\ Limit \in Nat /\ Limit > 0
          /\ PacketLength(start_position) = Smaller(Limit, Len(Wanted) - start_position)
      BY <1>1, <2>1, <2>8, <3>1, PacketFacts
    <3>3. start_position % D!R!Wide(Len(gen_data)) = start_position
      <4>1. D!R!Wide(Len(gen_data)) \in Nat \ {0} /\ Len(gen_data) <= D!R!Wide(Len(gen_data))
        BY <3>1, <3>2, WideEnough DEF H!start_positions
      <4>2. QED BY <3>1, <3>2, <4>1, SmallRemainder
    <3>4. 0 < PacketLength(start_position)
      BY <3>2 DEF Smaller
    <3>5. PacketLength(start_position)' = PacketLength(start_position)
      BY <1>a, <2>4, <2>6 DEF PacketLength, Whole
    <3>6. gen'.state = "STREAMING" /\ gen'.position_in_stream = start_position /\ gen'.bytes_sent = 0 /\ stall_latch' = {}
      BY <2>2, <2>8, <3>2, <3>3
    <3>7. Carries'
      BY <1>a DEF Carries
    <3>8. Generating'
      BY <1>a, <1>c, <2>2, <2>4, <2>6, <2>8, <3>2, <3>4, <3>5, <3>6, <3>7 DEF Generating
    <3>9. DescriptorUnderway'
      BY <1>c, <2>4, <2>5, <3>8 DEF DescriptorUnderway
    <3>a. Answering'
      BY <1>a, <1>d, <1>g, <2>4, <3>9 DEF Answering
    <3>b. QED BY <1>1, <1>9, <1>a, <2>1, <2>3, <2>4, <3>a, RequestAfter
  <2>9. QED BY <2>7, <2>8
<1>h. QED BY <1>5, <1>e, <1>f, <1>g

LEMMA RespondKeeps ==
  ASSUME Supported, IInv, Respond
  PROVE  IInv'
<1>1. stage \in {"data_in", "data_out", "status_in", "status_out"}
  BY RespondStep, Zenon
<1>2. QED BY <1>1, DataAnswered, StatusAnswered, PingAnswered

LEMMA RespondToDataStep ==
  ASSUME Supported, IInv, RespondToData
  PROVE  LET b == [Nothing EXCEPT !.rx_ready_for_response = TRUE]
             h == HandlerInputs(b, token)
         IN /\ DeviceClock(b, token) /\ ~b.ack /\ ~b.new_token /\ ~b.rx.good /\ b.rx.bytes \in Nat
            /\ wire = "sent" /\ wire' = AfterClock(b, h)
            /\ UNCHANGED <<stage, requestVars, dataVars, excuseVars>>
            /\ ~h.data_requested /\ (h.status_requested <=> control = "STATUS_OUT" /\ Heard("OUT"))
            /\ (h.rx_ready_for_response <=> control = "DATA_OUT" /\ Heard("OUT"))
            /\ ~h.ack /\ h.setup = packet /\ h.received = received
            /\ ~C!ping_ack(ControlInputs(b, token)) /\ ~R!ack(b.tx_allowed)
            /\ token \in Tokens /\ Types /\ InRequest /\ Calm /\ incoming = << >>
            /\ stage \in {"data_out", "status_out"} /\ handler = IF unsettled THEN "IDLE" ELSE Expected
            /\ asked \in Requests /\ packet = asked /\ ~received
<1> DEFINE b == [Nothing EXCEPT !.rx_ready_for_response = TRUE]
           h == HandlerInputs(b, token)
<1>1. /\ DeviceClock(b, token) /\ wire = "sent" /\ wire' = AfterClock(b, h)
      /\ UNCHANGED <<stage, requestVars, dataVars, excuseVars>>
  BY Zenon DEF RespondToData, Arrives, Decided
<1>2. /\ ~b.ack /\ ~b.new_token /\ ~b.rx.good /\ b.rx.bytes \in Nat
      /\ ~b.ready_for_response /\ b.rx_ready_for_response /\ ~b.tx_allowed
  BY DEF Nothing, R!NoPacket
<1> HIDE DEF b
<1>3. /\ ~C!data_requested(ControlInputs(b, token)) /\ ~C!ping_ack(ControlInputs(b, token))
      /\ C!status_requested(ControlInputs(b, token)) <=> control = "STATUS_OUT" /\ Heard("OUT")
      /\ C!handler_rx_ready(ControlInputs(b, token)) <=> control = "DATA_OUT" /\ Heard("OUT")
  <2>1. /\ ControlInputs(b, token).pid = token.pid /\ ControlInputs(b, token).targeted = (token.endpoint = 0)
        /\ ControlInputs(b, token).ready_for_response = b.ready_for_response
        /\ ControlInputs(b, token).rx_ready_for_response = b.rx_ready_for_response
    BY DEF ControlInputs
  <2>2. QED BY <1>2, <2>1 DEF C!data_requested, C!status_requested, C!handler_rx_ready, C!ping_ack, Heard
<1>4. /\ ~h.data_requested /\ (h.status_requested <=> control = "STATUS_OUT" /\ Heard("OUT"))
      /\ (h.rx_ready_for_response <=> control = "DATA_OUT" /\ Heard("OUT"))
      /\ ~h.ack /\ h.setup = packet /\ h.received = received
  BY <1>2, <1>3, Plain
<1>5. ~R!ack(b.tx_allowed)
  BY <1>2 DEF R!ack
<1>6. /\ token \in Tokens /\ Types /\ InRequest /\ stage \in {"data_out", "status_out"}
  BY <1>1, Stages DEF WhenIdle, InSetup, IInv, Types, DeviceTypes, InRequest, InDataIn, InStatusIn
<1>7. Calm /\ incoming = << >> /\ asked \in Requests /\ packet = asked /\ ~received
  BY <1>1, <1>6 DEF InRequest
<1>8. handler = IF unsettled THEN "IDLE" ELSE Expected
  BY <1>1, <1>6 DEF InRequest, Over
<1>9. QED BY <1>1, <1>2, <1>3, <1>4, <1>5, <1>6, <1>7, <1>8 DEF b

\* The data of a request is acknowledged when it was for this device.
LEMMA DataAccepted ==
  ASSUME Supported, IInv, RespondToData, stage = "data_out"
  PROVE  IInv'
<1> DEFINE b == [Nothing EXCEPT !.rx_ready_for_response = TRUE]
           h == HandlerInputs(b, token)
<1>1. /\ DeviceClock(b, token) /\ ~b.ack /\ ~b.new_token /\ ~b.rx.good /\ b.rx.bytes \in Nat
      /\ wire = "sent" /\ wire' = AfterClock(b, h)
      /\ UNCHANGED <<stage, requestVars, dataVars, excuseVars>>
      /\ ~h.data_requested /\ (h.status_requested <=> control = "STATUS_OUT" /\ Heard("OUT"))
      /\ (h.rx_ready_for_response <=> control = "DATA_OUT" /\ Heard("OUT"))
      /\ ~h.ack /\ h.setup = packet
      /\ ~C!ping_ack(ControlInputs(b, token)) /\ ~R!ack(b.tx_allowed)
      /\ token \in Tokens /\ Types /\ InRequest /\ Calm /\ incoming = << >>
      /\ handler = (IF unsettled THEN "IDLE" ELSE Expected)
      /\ asked \in Requests /\ packet = asked
  BY RespondToDataStep, Zenon
<1> HIDE DEF b, h
<1>2. InDataOut /\ ~unsettled
  BY <1>1 DEF InRequest, InDataOut
<1>3. control = "DATA_OUT" /\ SetsLineCoding(asked) /\ (~missed => Heard("OUT"))
  BY <1>1, <1>2 DEF InDataOut
<1>4. Still(b, token) /\ ~h.status_requested
  BY <1>1, <1>3 DEF Still, h
<1>5. wire' = IF Heard("OUT") THEN "device_ack" ELSE "waiting"
  <2>1. ~claim /\ acm_claim(h) /\ any_claim(h)
    BY <1>1, <1>3 DEF claim, acm_claim, any_claim, SetsLineCoding
  <2>2. ~device_stall(h)
    BY <2>1 DEF device_stall
  <2>3. device_ack(b, token, h) <=> Heard("OUT")
    BY <1>1, <1>3, <2>1 DEF device_ack, acm_ack
  <2>4. QED BY <1>1, <2>2, <2>3 DEF AfterClock
<1>6. ~new_packet'
  BY <1>1, NothingCaptured
<1>7. missed' = missed /\ unsettled' = unsettled /\ missed' \in BOOLEAN /\ unsettled' \in BOOLEAN /\ stage' = stage
  BY <1>1 DEF excuseVars, Types, HostTypes
<1>8. Over' = Over
  BY <1>1, <1>5, <1>7 DEF Over
<1>9. ~unsettled'
  BY <1>2, <1>7
<1>a. wire' = "waiting" => missed' \/ unsettled'
  BY <1>3, <1>5, <1>7
<1>b. QED BY <1>1, <1>4, <1>5, <1>6, <1>7, <1>8, <1>9, <1>a, RequestGoesOn

\* The status stage of a request that read something.
LEMMA ReadAcknowledged ==
  ASSUME Supported, IInv, RespondToData, stage = "status_out"
  PROVE  IInv'
<1> DEFINE b == [Nothing EXCEPT !.rx_ready_for_response = TRUE]
           h == HandlerInputs(b, token)
<1>1. /\ DeviceClock(b, token) /\ ~b.ack /\ ~b.new_token /\ ~b.rx.good /\ b.rx.bytes \in Nat
      /\ wire = "sent" /\ wire' = AfterClock(b, h)
      /\ UNCHANGED <<stage, requestVars, dataVars, excuseVars>>
      /\ ~h.data_requested /\ (h.status_requested <=> control = "STATUS_OUT" /\ Heard("OUT"))
      /\ (h.rx_ready_for_response <=> control = "DATA_OUT" /\ Heard("OUT"))
      /\ ~h.ack /\ h.setup = packet /\ h.received = received
      /\ ~C!ping_ack(ControlInputs(b, token)) /\ ~R!ack(b.tx_allowed)
      /\ token \in Tokens /\ Types /\ InRequest /\ Calm /\ incoming = << >>
      /\ handler = (IF unsettled THEN "IDLE" ELSE Expected)
      /\ asked \in Requests /\ packet = asked /\ ~received
  BY RespondToDataStep, Zenon
<1> HIDE DEF b
<1>2. InStatusOut
  BY <1>1 DEF InRequest
<1>3. /\ asked.request \in {"GET_DESCRIPTOR", "GET_CONFIGURATION"}
      /\ Heard("OUT") => control = "STATUS_OUT"
      /\ ~missed => Heard("OUT")
  BY <1>1, <1>2 DEF InStatusOut
<1>4. asked.type = "STANDARD" /\ Expected = asked.request /\ claim
  <2>1. Served(asked)
    BY <1>1 DEF Supported
  <2>2. asked.type = "STANDARD"
    BY <1>3, <2>1 DEF Served, H!handled, H!simple_data
  <2>3. QED BY <1>1, <1>3, <2>2 DEF Expected, HandlerState, H!handled, H!simple_data, claim
<1>5. ~send_zlp(h)
  <2>1. handler \notin H!register_writes \cup {"CLEAR_FEATURE"}
    BY <1>1, <1>3, <1>4 DEF H!register_writes
  <2>2. ~acm_claim(h)
    BY <1>1, <1>4 DEF acm_claim
  <2>3. QED BY <2>1, <2>2 DEF send_zlp, H!send_zlp, acm_send_zlp
<1>6. Calm' /\ ~h.descriptor_stall /\ stall_latch' = stall_latch /\ any_match' = (any_match \/ packet.value = gen_value)
  BY <1>1, <1>5, CalmDevice, Zenon
<1>7. H!Clock(h)
  BY <1>1, Parts
<1>c. token' = token
  BY <1>1, Parts
<1> HIDE DEF h
<1>8. /\ ~device_stall(h)
      /\ device_ack(b, token, h) <=> h.status_requested /\ ~unsettled
  <2>1. ~H!stall(h)
    BY <1>1, <1>3, <1>4, <1>6 DEF H!stall
  <2>2. ~acm_ack(h)
    BY <1>1, <1>4 DEF acm_ack, acm_claim
  <2>3. H!ack(h) <=> h.status_requested /\ ~unsettled
    BY <1>1, <1>3, <1>4 DEF H!ack, H!simple_data
  <2>4. QED BY <1>1, <1>4, <2>1, <2>2, <2>3 DEF device_stall, device_ack, any_claim
<1>9. wire' = IF h.status_requested /\ ~unsettled THEN "device_ack" ELSE "waiting"
  BY <1>1, <1>8 DEF AfterClock, h
<1>a. ~new_packet'
  BY <1>1, NothingCaptured
<1>b. /\ missed' = missed /\ unsettled' = unsettled /\ missed' \in BOOLEAN /\ unsettled' \in BOOLEAN /\ stage' = stage
      /\ got' = got /\ incoming' = incoming /\ host_toggle' = host_toggle
      /\ got' \in Seq(Nat) /\ incoming' \in Seq(Nat) /\ host_toggle' \in {0, 1} /\ UNCHANGED <<requestVars, excuseVars>>
  BY <1>1 DEF excuseVars, dataVars, Types, HostTypes
<1>d. unsettled => ~P!Changes(asked)
  BY <1>1 DEF InRequest
<1>e. CASE ~h.status_requested
  <2>1. Still(b, token)
    BY <1>1, <1>e DEF Still, h
  <2>2. wire' = "waiting" /\ missed
    BY <1>1, <1>3, <1>9, <1>e
  <2>3. Over' = Over
    BY <1>1, <1>b, <2>2 DEF Over
  <2>4. QED BY <1>1, <1>a, <1>b, <1>d, <2>1, <2>2, <2>3, RequestGoesOn
<1>f. CASE h.status_requested
  <2>1. Heard("OUT") /\ control = "STATUS_OUT"
    BY <1>1, <1>f
  <2>2. handler' = "IDLE"
    BY <1>1, <1>3, <1>4, <1>7, <1>f DEF H!Clock, H!Idle, H!HandleSimpleDataRequest, H!HandleWriteRequest, H!GetDescriptor,
                                        H!Unhandled, H!simple_data, H!register_writes
  <2>3. ~any_match' => "block" \notin stall_latch'
    BY <1>6 DEF IInv, Matching
  <2>4. /\ Types' /\ Matching' /\ AddressAgrees'
        /\ decoder' = "IDLE" /\ ~received' /\ packet' = packet
        /\ UNCHANGED <<control, asked, log>>
        /\ P!Result(asked)' = P!Result(asked) /\ P!Changes(asked)' = P!Changes(asked)
    BY <1>1, <1>b, <2>3, RequestClocks
  <2>5. Over'
    BY <1>9, <1>b, <1>c, <1>f, <2>1 DEF Over, Heard
  <2>6. Heard("OUT")' = Heard("OUT") /\ Heard("PING")' = Heard("PING")
    BY <1>c DEF Heard
  <2>7. InStatusOut'
    BY <1>2, <1>9, <1>b, <2>1, <2>4, <2>6 DEF InStatusOut, P!Done
  <2>8. InRequest'
    BY <1>1, <1>6, <1>9, <1>a, <1>b, <1>d, <1>f, <2>2, <2>4, <2>5, <2>7 DEF InRequest
  <2>9. QED BY <1>b, <2>4, <2>8 DEF IInv
<1>g. QED BY <1>e, <1>f

LEMMA RespondToDataKeeps ==
  ASSUME Supported, IInv, RespondToData
  PROVE  IInv'
<1>1. stage \in {"data_out", "status_out"}
  BY RespondToDataStep, Zenon
<1>2. QED BY <1>1, DataAccepted, ReadAcknowledged

\* A clock in which the device is at work on its answer.
Working(b) ==
  /\ DeviceClock(b, token) /\ Quiet(b) /\ ~b.rx.good /\ b.rx.bytes \in Nat /\ ~b.new_token
  /\ b.tx_ready \in BOOLEAN /\ ~(b.tx_ready /\ tx_state = "SEND_CRC_SECOND")
  /\ InRequest /\ wire = "waiting" /\ ~missed /\ ~unsettled /\ Answering
  /\ wire' = IF claim /\ handler = "GET_DESCRIPTOR" /\ HandlerInputs(b, token).descriptor_stall
             THEN "device_stall" ELSE "waiting"
  /\ incoming' = IF G!stream_ready(b.tx_ready) /\ out_valid(HandlerInputs(b, token)) /\ Len(incoming) <= max_packet_size
                 THEN Append(incoming, out_payload(HandlerInputs(b, token))) ELSE incoming
  /\ UNCHANGED <<stage, requestVars, got, host_toggle, excuseVars>>

LEMMA WorkingStep ==
  ASSUME Supported, IInv, stage \notin {"idle", "setup"}, NEW tx_ready \in BOOLEAN, NEW tx_allowed \in BOOLEAN,
         Work(tx_ready, tx_allowed)
  PROVE  Working([Nothing EXCEPT !.tx_ready = tx_ready, !.tx_allowed = tx_allowed])
<1> DEFINE b == [Nothing EXCEPT !.tx_ready = tx_ready, !.tx_allowed = tx_allowed]
           h == HandlerInputs(b, token)
<1>1. /\ wire = "waiting" /\ ~DeviceIdle /\ DeviceClock(b, token)
      /\ Quiet(b) /\ ~b.rx.good /\ b.rx.bytes \in Nat /\ ~b.new_token
      /\ b.tx_allowed = tx_allowed /\ b.tx_ready = tx_ready
      /\ ~(tx_ready /\ tx_state = "SEND_CRC_SECOND") /\ (tx_allowed => decoder # "IDLE")
      /\ wire' = AfterClock(b, h)
      /\ incoming' = IF G!stream_ready(tx_ready) /\ out_valid(h) /\ Len(incoming) <= max_packet_size
                     THEN Append(incoming, out_payload(h)) ELSE incoming
      /\ UNCHANGED <<stage, requestVars, got, host_toggle, excuseVars>>
      /\ token \in Tokens /\ Types
  BY WorkStep, Zenon
<1> HIDE DEF b
<1>2. InRequest
  BY Stages
<1>3. decoder = "IDLE" /\ ~received /\ ~new_packet
  BY <1>1, <1>2 DEF InRequest
<1>4. ~missed /\ ~unsettled /\ Answering
  <2>1. Calm => DeviceIdle
    BY <1>3, GeneratedFacts DEF Calm, DeviceIdle, D!Idle, gen
  <2>2. QED BY <1>1, <1>2, <2>1 DEF InRequest
<1>5. wire' = IF claim /\ handler = "GET_DESCRIPTOR" /\ h.descriptor_stall THEN "device_stall" ELSE "waiting"
  <2>1. ~R!ack(b.tx_allowed)
    BY <1>1, <1>3 DEF R!ack
  <2>2. AfterClock(b, h) = IF claim /\ handler = "GET_DESCRIPTOR" /\ h.descriptor_stall THEN "device_stall"
                           ELSE IF R!ack(b.tx_allowed) THEN "device_ack" ELSE "waiting"
    BY <1>1, QuietHandshake, Zenon
  <2> HIDE DEF h
  <2>3. QED BY <1>1, <2>1, <2>2
<1>6. Working(b)
  BY <1>1, <1>2, <1>4, <1>5 DEF Working
<1>7. QED BY <1>6 DEF b

LEMMA WorkingFacts ==
  ASSUME Supported, IInv, NEW b, Working(b)
  PROVE  LET h == HandlerInputs(b, token)
             i == DescriptorInputs(b, token)
         IN /\ Types /\ Matching /\ asked \in Requests /\ packet = asked /\ Served(asked) /\ handler = Expected
            /\ token \in Tokens /\ DeviceClock(b, token) /\ ~received
            /\ handler' = IF handler = "GET_DESCRIPTOR" /\ h.descriptor_stall THEN "IDLE" ELSE handler
            /\ handler = "GET_DESCRIPTOR" =>
                 /\ claim /\ UNCHANGED <<start_position, tx_data_pid>>
                 /\ ~h.descriptor_stall /\ expecting_ack => expecting_ack'
            /\ UNCHANGED <<token, configuration, asked>> /\ stage' = stage /\ Heard("IN")'
            /\ Wanted' = Wanted /\ Reading' = Reading
            /\ P!Result(asked)' = P!Result(asked) /\ IsGenerated(asked)' = IsGenerated(asked)
            /\ P!Exists(asked.value)' = P!Exists(asked.value)
            /\ ~send_zlp(h) /\ ~i.start /\ ~H!serializer_start(h) /\ h.descriptor_stall = D!stall(i)
            /\ h.descriptor = i
<1> DEFINE h == HandlerInputs(b, token)
           i == DescriptorInputs(b, token)
<1>1. /\ Types /\ Matching /\ asked \in Requests /\ packet = asked /\ token \in Tokens /\ DeviceClock(b, token)
      /\ ~received /\ handler = Expected /\ Heard("IN")
  <2>1. Types /\ Matching /\ token \in Tokens
    BY DEF IInv, Types, DeviceTypes
  <2>2. DeviceClock(b, token) /\ InRequest /\ wire = "waiting" /\ ~unsettled /\ Answering
    BY DEF Working
  <2>3. QED BY <2>1, <2>2 DEF InRequest, Over, Answering
<1>2. /\ ~h.data_requested /\ ~h.status_requested /\ ~h.ack /\ ~i.start
      /\ h.received = received /\ h.setup = packet /\ h.descriptor_stall = D!stall(i) /\ h.descriptor = i
  BY QuietInputs, Plain, Zenon DEF Working
<1>3. H!Clock(h) /\ token' = token /\ (configuration' = IF claim /\ H!config_changed(h) THEN packet.value[2] ELSE configuration)
  BY <1>1, Parts
<1>4. ~send_zlp(h) /\ ~H!serializer_start(h)
  BY <1>2 DEF send_zlp, H!send_zlp, acm_send_zlp, H!serializer_start
<1> HIDE DEF h
<1>5. configuration' = configuration
  BY <1>2, <1>3 DEF H!config_changed
<1>6. stage' = stage /\ asked' = asked
  BY DEF Working, requestVars
<1>7. handler' = IF handler = "GET_DESCRIPTOR" /\ h.descriptor_stall THEN "IDLE" ELSE handler
  BY <1>1, <1>2, <1>3 DEF H!Clock, H!Idle, H!HandleSimpleDataRequest, H!HandleWriteRequest, H!GetDescriptor,
                          H!Unhandled, H!simple_data, H!register_writes
<1>8. ASSUME handler = "GET_DESCRIPTOR"
      PROVE  /\ claim /\ UNCHANGED <<start_position, tx_data_pid>>
             /\ ~h.descriptor_stall /\ expecting_ack => expecting_ack'
  <2>1. claim
    BY <1>1, <1>8 DEF claim, Expected
  <2>2. H!GetDescriptor(h)
    BY <1>3, <1>8 DEF H!Clock, H!Idle, H!HandleSimpleDataRequest, H!HandleWriteRequest,
                      H!Unhandled, H!simple_data, H!register_writes
  <2>3. ~H!advances(h)
    BY <1>2 DEF H!advances
  <2>4. QED BY <2>1, <2>2, <2>3 DEF H!GetDescriptor, H!awaits_ack
<1>9. /\ Wanted' = Wanted /\ Reading' = Reading /\ P!Result(asked)' = P!Result(asked)
      /\ IsGenerated(asked)' = IsGenerated(asked) /\ P!Exists(asked.value)' = P!Exists(asked.value)
  BY <1>5, <1>6, AskedKept
<1>a. Served(asked)
  BY <1>1 DEF Supported
<1>b. Heard("IN")'
  BY <1>1, <1>3 DEF Heard
<1>c. QED BY <1>1, <1>2, <1>3, <1>4, <1>5, <1>6, <1>7, <1>8, <1>9, <1>a, <1>b DEF h

\* It goes on with it.
LEMMA WorkingOn ==
  ASSUME Supported, IInv, NEW b, Working(b), ~HandlerInputs(b, token).descriptor_stall,
         D!B!stall(packet.value) => IsGenerated(asked), Answering', incoming' \in Seq(Nat)
  PROVE  IInv'
<1>1. /\ Types /\ Matching /\ asked \in Requests /\ packet = asked /\ DeviceClock(b, token)
      /\ handler' = (IF handler = "GET_DESCRIPTOR" /\ HandlerInputs(b, token).descriptor_stall THEN "IDLE" ELSE handler)
      /\ handler = "GET_DESCRIPTOR" => UNCHANGED <<start_position, tx_data_pid>>
  BY WorkingFacts, Zenon
<1>2. ~any_match' => "block" \notin stall_latch'
  <2>1. CASE ~D!B!stall(packet.value)
    <3>1. "block" \in stall_latch' => "block" \in stall_latch
      BY <1>1, <2>1, LatchFacts
    <3>2. any_match => any_match'
      BY <1>1, DescriptorParts, Zenon
    <3>3. QED BY <1>1, <3>1, <3>2 DEF Matching
  <2>2. CASE IsGenerated(asked)
    <3>1. packet.value = gen_value
      BY <1>1, <2>2, GeneratedFacts
    <3>2. any_match'
      BY <1>1, <3>1, DescriptorParts, Zenon
    <3>3. QED BY <3>2
  <2>3. QED BY <2>1, <2>2
<1>3. /\ ~b.ack /\ ~b.new_token /\ ~b.rx.good /\ b.rx.bytes \in Nat /\ wire = "waiting" /\ wire' = "waiting"
      /\ UNCHANGED <<stage, requestVars, got, host_toggle, excuseVars>>
      /\ InRequest /\ ~missed /\ ~unsettled
  BY DEF Working, Quiet
<1>4. stage \in {"data_in", "status_in"}
  BY DEF Working, Answering
<1>5. QED BY <1>1, <1>2, <1>3, <1>4, RequestAfter

\* What has nothing to look up or to send stays so.
LEMMA SourcesRest ==
  ASSUME Supported, IInv, NEW b, Working(b)
  PROVE  /\ lookup = "IDLE" => /\ lookup' = "IDLE" /\ ~D!B!stall(packet.value)
                               /\ ~HandlerInputs(b, token).descriptor_stall /\ ~D!B!out_valid
         /\ gen.state \in {"IDLE", "DONE"} => gen'.state = "IDLE" /\ ~D!R!out_valid(packet.value)
         /\ serializer \in {"IDLE", "DONE"} => serializer' = "IDLE" /\ ~S!out_valid
<1> DEFINE i == DescriptorInputs(b, token)
           h == HandlerInputs(b, token)
<1>1. /\ Types /\ DeviceClock(b, token) /\ ~i.start /\ ~H!serializer_start(h)
      /\ h.descriptor_stall = D!stall(i)
  BY WorkingFacts, Zenon
<1>2. ASSUME lookup = "IDLE"
      PROVE  /\ lookup' = "IDLE" /\ ~D!B!stall(packet.value)
             /\ ~h.descriptor_stall /\ ~D!B!out_valid
  <2>1. D!B!Clock(packet.value, packet.length, start_position, i.start, describing /\ G!stream_ready(b.tx_ready))
    BY <1>1, DescriptorParts, Zenon
  <2>2. lookup' = "IDLE"
    BY <1>1, <1>2, <2>1 DEF D!B!Clock, D!B!Idle, D!B!Start, D!B!LookupType, D!B!LookupDescriptor,
                            D!B!SendDescriptor, D!B!SendZlp
  <2>3. ~D!B!stall(packet.value) /\ ~D!B!out_valid
    BY <1>2 DEF D!B!stall, D!B!out_valid
  <2>4. ~D!stall(i)
    BY <1>1, <2>3, LatchFacts
  <2>5. QED BY <1>1, <2>2, <2>3, <2>4
<1>3. ASSUME gen.state \in {"IDLE", "DONE"}
      PROVE  gen'.state = "IDLE" /\ ~D!R!out_valid(packet.value)
  <2>1. GeneratorClock(b, token) /\ gen.state # "STREAMING"
    BY <1>1, <1>3, GeneratorParts
  <2>2. gen \in [state : {"IDLE", "STREAMING", "DONE"}, position_in_stream : Nat, bytes_sent : Nat]
    BY <1>1 DEF Types, DeviceTypes, gen
  <2>3. gen'.state = "IDLE"
    BY <1>1, <1>3, <2>1, <2>2 DEF GeneratorClock, GeneratorStarts
  <2>4. \A g \in D!R!Selected(packet.value) : generators[g].state # "STREAMING"
    BY <2>1, GeneratedFacts DEF gen
  <2>5. QED BY <2>3, <2>4 DEF D!R!out_valid, D!R!Streaming
<1>4. ASSUME serializer \in {"IDLE", "DONE"}
      PROVE  serializer' = "IDLE" /\ ~S!out_valid
  <2>1. S!Clock(H!serializer_start(h), S!Narrowed(H!serializer_length), serializing /\ G!stream_ready(b.tx_ready))
    BY <1>1, Parts
  <2> HIDE DEF h
  <2>2. QED BY <1>1, <1>4, <2>1 DEF S!Clock, S!out_valid
<1>5. QED BY <1>2, <1>3, <1>4

\* The packet generator in a clock of its own.
LEMMA PacketGoesOn ==
  ASSUME Types, NEW b, NEW t, DeviceClock(b, t), b.tx_ready \in BOOLEAN
  PROVE  LET h == HandlerInputs(b, t)
         IN /\ tx_state = "IDLE" /\ ~out_valid(h) => tx_state' = "IDLE"
            /\ tx_state = "IDLE" /\ out_valid(h) /\ (out_first(h) \/ out_last(h)) =>
                 tx_state' = "SEND_PID" /\ (is_zlp' <=> ~out_first(h))
            /\ tx_state = "IDLE" => packet_pid' = IF claim THEN tx_data_pid ELSE 1
            /\ tx_state # "IDLE" /\ ~b.tx_ready => UNCHANGED <<tx_state, packet_pid, is_zlp>>
            /\ tx_state # "IDLE" => UNCHANGED <<packet_pid, is_zlp>>
            /\ tx_state = "SEND_PID" /\ b.tx_ready =>
                 tx_state' = IF is_zlp THEN "SEND_CRC_FIRST" ELSE "SEND_PAYLOAD"
            /\ tx_state = "SEND_PAYLOAD" /\ b.tx_ready =>
                 tx_state' = IF out_last(h) \/ ~out_valid(h) THEN "SEND_CRC_FIRST" ELSE "SEND_PAYLOAD"
            /\ tx_state = "SEND_CRC_FIRST" /\ b.tx_ready => tx_state' = "SEND_CRC_SECOND"
            /\ tx_state = "SEND_CRC_SECOND" /\ b.tx_ready => tx_state' = "IDLE"
<1> DEFINE h == HandlerInputs(b, t)
           pid == IF claim THEN tx_data_pid ELSE 1
<1>1. G!Clock(pid, out_first(h), out_last(h), out_valid(h), b.tx_ready)
  BY Parts
<1> HIDE DEF pid, h
<1>2. QED BY <1>1 DEF h, pid, G!Clock, G!Idle, G!SendPid, G!SendPayload, G!SendCrcFirst, G!SendCrcSecond, G!vars

\* The empty packet of a status stage is on its way.
LEMMA StatusGoesOut ==
  ASSUME Supported, IInv, NEW b, Working(b), stage = "status_in"
  PROVE  IInv'
<1>1. StatusUnderway /\ P!Result(asked) = P!Done(<< >>) /\ incoming = << >>
  BY DEF Working, Answering, StatusUnderway
<1>2. /\ Types /\ DeviceClock(b, token) /\ stage' = stage /\ Heard("IN")' /\ P!Result(asked)' = P!Result(asked)
  BY WorkingFacts, Zenon
<1>3. /\ lookup' = "IDLE" /\ gen'.state = "IDLE" /\ serializer' = "IDLE"
      /\ ~D!B!stall(packet.value) /\ ~HandlerInputs(b, token).descriptor_stall
  BY <1>1, SourcesRest DEF StatusUnderway
<1>4. incoming' = << >>
  BY <1>1 DEF Working, G!stream_ready, StatusUnderway
<1>5. /\ tx_state' \in {"SEND_PID", "SEND_CRC_FIRST", "SEND_CRC_SECOND"} /\ packet_pid' = 1
      /\ tx_state' = "SEND_PID" => is_zlp'
  <2>1. b.tx_ready \in BOOLEAN /\ ~(b.tx_ready /\ tx_state = "SEND_CRC_SECOND")
    BY DEF Working
  <2>2. QED BY <1>1, <1>2, <2>1, PacketGoesOn DEF StatusUnderway
<1>6. Answering'
  BY <1>1, <1>2, <1>3, <1>4, <1>5 DEF Answering, StatusUnderway, P!Done
<1>7. QED BY <1>3, <1>4, <1>6, WorkingOn

\* The byte of GET_CONFIGURATION is.
LEMMA ConfigurationGoesOut ==
  ASSUME Supported, IInv, NEW b, Working(b), stage = "data_in", handler = "GET_CONFIGURATION"
  PROVE  IInv'
<1> DEFINE h == HandlerInputs(b, token)
<1>1. ConfigurationUnderway
  BY DEF Working, Answering
<1>2. /\ Types /\ DeviceClock(b, token) /\ stage' = stage /\ Heard("IN")'
      /\ handler' = handler /\ configuration' = configuration /\ handler = Expected
      /\ asked \in Requests /\ packet = asked /\ ~H!serializer_start(h) /\ h.descriptor = DescriptorInputs(b, token)
  BY WorkingFacts, Zenon
<1>3. /\ lookup' = "IDLE" /\ gen'.state = "IDLE" /\ ~D!B!out_valid /\ ~D!R!out_valid(packet.value)
      /\ ~D!B!stall(packet.value) /\ ~h.descriptor_stall
  BY <1>1, SourcesRest DEF ConfigurationUnderway
<1>4. claim /\ serializing /\ ~describing /\ ~send_zlp(h) /\ tx_data_pid = 1
  <2>1. claim
    BY <1>2 DEF Expected, claim
  <2>2. tx_data_pid = 1
    BY <1>2 DEF Types, DeviceTypes, Fresh
  <2>3. ~send_zlp(h)
    BY WorkingFacts, Zenon
  <2>4. QED BY <2>1, <2>2, <2>3 DEF serializing, describing, H!simple_data
<1>5. /\ out_valid(h) <=> S!out_valid
      /\ out_first(h) <=> S!out_first
      /\ out_last(h) <=> S!out_last(1)
      /\ out_payload(h) = configuration
  <2>1. S!Narrowed(H!serializer_length) = 1
    BY DEF S!Narrowed, H!serializer_length
  <2>2. QED BY <1>4, <2>1 DEF out_valid, out_first, out_last, out_payload, describing
<1>6. S!Clock(FALSE, 1, G!stream_ready(b.tx_ready))
  <2>1. S!Clock(H!serializer_start(h), S!Narrowed(H!serializer_length), serializing /\ G!stream_ready(b.tx_ready))
    BY <1>2, Parts
  <2>2. S!Narrowed(H!serializer_length) = 1
    BY DEF S!Narrowed, H!serializer_length
  <2> HIDE DEF h
  <2>3. QED BY <1>2, <1>4, <2>1, <2>2 DEF S!Clock, S!on_last_packet, S!vars
<1>7. incoming' = IF G!stream_ready(b.tx_ready) /\ out_valid(h) /\ Len(incoming) <= max_packet_size
                  THEN Append(incoming, configuration) ELSE incoming
  BY <1>5 DEF Working
<1>8. b.tx_ready \in BOOLEAN /\ ~(b.tx_ready /\ tx_state = "SEND_CRC_SECOND") /\ max_packet_size > 0 /\ max_packet_size \in Nat
  BY SizeAssumption DEF Working
<1>9. /\ tx_state = "IDLE" /\ out_valid(h) /\ (out_first(h) \/ out_last(h)) =>
           tx_state' = "SEND_PID" /\ (is_zlp' <=> ~out_first(h))
      /\ tx_state = "IDLE" => packet_pid' = 1
      /\ tx_state # "IDLE" /\ ~b.tx_ready => UNCHANGED <<tx_state, packet_pid, is_zlp>>
      /\ tx_state # "IDLE" => UNCHANGED <<packet_pid, is_zlp>>
      /\ tx_state = "SEND_PID" /\ b.tx_ready => tx_state' = IF is_zlp THEN "SEND_CRC_FIRST" ELSE "SEND_PAYLOAD"
      /\ tx_state = "SEND_PAYLOAD" /\ b.tx_ready =>
           tx_state' = IF out_last(h) \/ ~out_valid(h) THEN "SEND_CRC_FIRST" ELSE "SEND_PAYLOAD"
      /\ tx_state = "SEND_CRC_FIRST" /\ b.tx_ready => tx_state' = "SEND_CRC_SECOND"
  BY <1>2, <1>4, <1>8, PacketGoesOn
<1> HIDE DEF h
<1>a. ConfigurationUnderway' /\ incoming' \in Seq(Nat)
  <2>1. CASE serializer = "STREAMING"
    <3>1. /\ at = 0 /\ serialized = 0 /\ incoming = << >> /\ (tx_state # "IDLE" => packet_pid = 1 /\ ~is_zlp)
          /\ tx_state \in {"IDLE", "SEND_PID", "SEND_PAYLOAD"}
      BY <1>1, <2>1 DEF ConfigurationUnderway
    <3>2. out_valid(h) /\ out_first(h) /\ out_last(h)
      BY <1>5, <2>1, <3>1 DEF S!out_valid, S!out_first, S!out_last, S!on_last_packet
    <3>3. S!on_last_packet(1)
      BY <3>1 DEF S!on_last_packet
    <3>4. CASE tx_state = "SEND_PAYLOAD" /\ b.tx_ready
      <4>1. tx_state' = "SEND_CRC_FIRST" /\ packet_pid' = 1
        BY <1>9, <3>1, <3>2, <3>4
      <4>2. serializer' = "DONE"
        BY <1>6, <2>1, <3>3, <3>4 DEF S!Clock, G!stream_ready
      <4>3. incoming' = <<configuration>>
        BY <1>7, <1>8, <3>1, <3>2, <3>4 DEF G!stream_ready
      <4>4. configuration \in Nat
        BY <1>2 DEF Types, DeviceTypes
      <4>5. QED BY <1>2, <1>3, <4>1, <4>2, <4>3, <4>4 DEF ConfigurationUnderway
    <3>5. CASE ~(tx_state = "SEND_PAYLOAD" /\ b.tx_ready)
      <4>1. serializer' = "STREAMING" /\ at' = 0 /\ serialized' = 0
        BY <1>6, <2>1, <3>1, <3>5 DEF S!Clock, G!stream_ready, S!vars
      <4>2. incoming' = << >>
        BY <1>7, <3>1, <3>5 DEF G!stream_ready
      <4>3. tx_state' \in {"SEND_PID", "SEND_PAYLOAD"} /\ packet_pid' = 1 /\ ~is_zlp'
        BY <1>8, <1>9, <3>1, <3>2, <3>5
      <4>4. QED BY <1>3, <4>1, <4>2, <4>3 DEF ConfigurationUnderway
    <3>6. QED BY <3>4, <3>5
  <2>2. CASE serializer # "STREAMING"
    <3>1. /\ tx_state \in {"SEND_CRC_FIRST", "SEND_CRC_SECOND"} /\ incoming = <<configuration>> /\ packet_pid = 1
          /\ serializer \in {"IDLE", "DONE"} /\ (serializer = "DONE" => tx_state = "SEND_CRC_FIRST")
      BY <1>1, <1>2, <2>2 DEF ConfigurationUnderway, Types, DeviceTypes
    <3>2. serializer' = "IDLE"
      BY <3>1, SourcesRest
    <3>3. incoming' = incoming
      BY <1>7, <3>1 DEF G!stream_ready
    <3>4. tx_state' \in {"SEND_CRC_FIRST", "SEND_CRC_SECOND"} /\ packet_pid' = 1
      BY <1>8, <1>9, <3>1
    <3>5. incoming \in Seq(Nat)
      BY <1>2 DEF Types, HostTypes
    <3>6. QED BY <1>2, <1>3, <3>1, <3>2, <3>3, <3>4, <3>5 DEF ConfigurationUnderway
  <2>3. QED BY <2>1, <2>2
<1>b. Answering'
  BY <1>2, <1>a DEF Answering
<1>c. QED BY <1>3, <1>a, <1>b, WorkingOn DEF h

---------------------------------------------------------------------------
(* The packets of a descriptor *)

\* What a request for a descriptor comes to.
LEMMA DescriptorResult ==
  ASSUME Supported, asked \in Requests, Reading, asked.type = "STANDARD"
  PROVE  P!Result(asked) = IF P!Exists(asked.value) THEN P!Done(SubSeq(Wanted, 1, Whole)) ELSE P!Stalled
<1>1. P!Result(asked) = P!StandardResult(asked)
  BY DEF P!Result
<1>2. asked.request = "GET_DESCRIPTOR"
  BY DEF Reading
<1>3. CASE P!Exists(asked.value)
  <2>1. P!StandardResult(asked) = P!Done(SubSeq(P!Descriptor(asked.value), 1, P!Least(asked.length, Len(P!Descriptor(asked.value)))))
    BY <1>2, <1>3 DEF P!StandardResult
  <2>2. Whole = P!Least(asked.length, Len(P!Descriptor(asked.value)))
    BY DEF Whole, Wanted, Smaller, P!Least
  <2>3. QED BY <1>1, <1>3, <2>1, <2>2 DEF Wanted
<1>4. CASE ~P!Exists(asked.value)
  <2>1. P!StandardResult(asked) = P!Stalled
    BY <1>2, <1>4 DEF P!StandardResult
  <2>2. QED BY <1>1, <1>4, <2>1
<1>5. QED BY <1>3, <1>4

LEMMA DescriptorFacts ==
  ASSUME Supported, IInv, NEW b, Working(b), stage = "data_in", handler = "GET_DESCRIPTOR"
  PROVE  LET h == HandlerInputs(b, token)
             i == DescriptorInputs(b, token)
         IN /\ DescriptorUnderway /\ ReadSoFar /\ Reading /\ asked.type = "STANDARD"
            /\ claim /\ describing /\ expecting_ack /\ serializer' = "IDLE"
            /\ i.value = asked.value /\ i.length = asked.length /\ i.start_position = start_position
            /\ out_valid(h) <=> D!out_valid(i)
            /\ out_first(h) <=> D!out_first(i)
            /\ out_last(h) <=> D!out_last(i)
            /\ incoming' = IF G!stream_ready(b.tx_ready) /\ D!out_valid(i) /\ Len(incoming) <= max_packet_size
                           THEN Append(incoming, D!out_payload(i)) ELSE incoming
            /\ tx_state' # "IDLE" => packet_pid' = tx_data_pid'
            /\ b.tx_ready \in BOOLEAN /\ ~(b.tx_ready /\ tx_state = "SEND_CRC_SECOND")
<1> DEFINE h == HandlerInputs(b, token)
           i == DescriptorInputs(b, token)
<1>1. /\ Types /\ packet = asked /\ handler = Expected /\ DeviceClock(b, token) /\ claim
      /\ UNCHANGED <<start_position, tx_data_pid>> /\ ~send_zlp(h) /\ h.descriptor = i
  BY WorkingFacts, Zenon
<1>2. /\ DescriptorUnderway /\ InDataIn /\ b.tx_ready \in BOOLEAN /\ ~(b.tx_ready /\ tx_state = "SEND_CRC_SECOND")
      /\ incoming' = IF G!stream_ready(b.tx_ready) /\ out_valid(h) /\ Len(incoming) <= max_packet_size
                     THEN Append(incoming, out_payload(h)) ELSE incoming
  BY DEF Working, Answering, InRequest
<1>3. ReadSoFar /\ expecting_ack /\ describing /\ ~serializing /\ serializer = "IDLE"
  BY <1>2 DEF InDataIn, DescriptorUnderway, describing, serializing, H!simple_data
<1>4. Reading /\ asked.type = "STANDARD"
  BY <1>1 DEF Expected, HandlerState, Reading
<1>5. i.value = asked.value /\ i.length = asked.length /\ i.start_position = start_position
  BY <1>1, Plain
<1>6. serializer' = "IDLE"
  BY <1>3, SourcesRest
<1>7. /\ tx_state = "IDLE" => packet_pid' = IF claim THEN tx_data_pid ELSE 1
      /\ tx_state # "IDLE" => UNCHANGED <<packet_pid, is_zlp>>
  BY <1>1, <1>2, PacketGoesOn
<1> HIDE DEF h, i
<1>8. /\ out_valid(h) <=> D!out_valid(i)
      /\ out_first(h) <=> D!out_first(i)
      /\ out_last(h) <=> D!out_last(i)
      /\ out_payload(h) = D!out_payload(i)
  BY <1>1, <1>3 DEF out_valid, out_first, out_last, out_payload
<1>9. tx_state' # "IDLE" => packet_pid' = tx_data_pid'
  BY <1>1, <1>2, <1>7 DEF DescriptorUnderway
<1>a. QED BY <1>1, <1>2, <1>3, <1>4, <1>5, <1>6, <1>8, <1>9 DEF h, i

\* With its next packet under way the request goes on.
LEMMA DescriptorGoesOn ==
  ASSUME Supported, IInv, NEW b, Working(b), stage = "data_in", handler = "GET_DESCRIPTOR",
         ~HandlerInputs(b, token).descriptor_stall, D!B!stall(packet.value) => IsGenerated(asked),
         incoming' \in Seq(Nat),
         \/ /\ lookup' \in {"START", "LOOKUP_TYPE", "LOOKUP_DESCRIPTOR", "SEND_ZLP"}
            /\ LookedUp' /\ ~IsGenerated(asked)
         \/ Streamed' \/ Generating' \/ Finished'
  PROVE  IInv'
<1>1. /\ handler' = handler /\ expecting_ack' /\ stage' = stage /\ Heard("IN")'
      /\ IsGenerated(asked)' = IsGenerated(asked)
  <2>1. expecting_ack
    BY DescriptorFacts, Zenon
  <2>2. /\ handler' = (IF handler = "GET_DESCRIPTOR" /\ HandlerInputs(b, token).descriptor_stall THEN "IDLE" ELSE handler)
        /\ ~HandlerInputs(b, token).descriptor_stall /\ expecting_ack => expecting_ack'
        /\ stage' = stage /\ Heard("IN")' /\ IsGenerated(asked)' = IsGenerated(asked)
    BY WorkingFacts, Zenon
  <2>3. QED BY <2>1, <2>2
<1>2. /\ serializer' = "IDLE" /\ (tx_state' # "IDLE" => packet_pid' = tx_data_pid')
  BY DescriptorFacts, Zenon
<1>3. DescriptorUnderway'
  BY <1>1, <1>2 DEF DescriptorUnderway
<1>4. Answering'
  BY <1>1, <1>3 DEF Answering
<1>5. QED BY <1>4, WorkingOn

\* There is no such descriptor.
LEMMA LookupStalls ==
  ASSUME Supported, IInv, NEW b, Working(b), stage = "data_in", handler = "GET_DESCRIPTOR",
         LookedUp, lookup \in {"START", "LOOKUP_TYPE"}, ~IsGenerated(asked), D!B!stall(packet.value)
  PROVE  IInv'
<1> DEFINE h == HandlerInputs(b, token)
           i == DescriptorInputs(b, token)
<1>1. /\ Types /\ asked \in Requests /\ packet = asked /\ DeviceClock(b, token) /\ ~i.start
      /\ h.descriptor_stall = D!stall(i) /\ claim
      /\ handler' = IF handler = "GET_DESCRIPTOR" /\ h.descriptor_stall THEN "IDLE" ELSE handler
  BY WorkingFacts, Zenon
<1>2. /\ Reading /\ asked.type = "STANDARD" /\ i.value = asked.value /\ serializer' = "IDLE"
      /\ out_valid(h) <=> D!out_valid(i)
      /\ b.tx_ready \in BOOLEAN
  BY DescriptorFacts, Zenon
<1>3. /\ D!B!Clock(packet.value, packet.length, start_position, i.start, describing /\ G!stream_ready(b.tx_ready))
      /\ stall_latch' = (IF i.start \/ D!stall(i) THEN {} ELSE stall_latch)
                        \cup (IF D!stall(i) THEN {} ELSE D!stalling(i))
  BY <1>1, DescriptorParts, Zenon
<1>4. /\ tx_state = "IDLE" /\ incoming = << >> /\ gen.state = "IDLE" /\ stall_latch = {"distributed"}
  BY DEF LookedUp
<1>5. gen'.state = "IDLE" /\ ~D!R!out_valid(packet.value)
  BY <1>4, SourcesRest
<1> HIDE DEF i
<1>6. D!stall(i)
  BY <1>1, <1>2, <1>4, StallFacts
<1>7. stall_latch' = {}
  BY <1>3, <1>6
<1>8. ~(D!B!HasType(asked.value) /\ D!B!HasIndex(asked.value))
  BY <1>1 DEF D!B!stall, LookedUp
<1>9. P!Result(asked) = P!Stalled
  <2>1. ~P!Exists(asked.value)
    BY <1>1, <1>2, <1>8, WantedFacts
  <2>2. QED BY <1>1, <1>2, <2>1, DescriptorResult
<1>a. lookup' = "IDLE"
  BY <1>3 DEF D!B!stall, D!B!Clock, D!B!Idle, D!B!Start, D!B!LookupType, D!B!LookupDescriptor, D!B!SendDescriptor, D!B!SendZlp
<1>b. ~D!out_valid(i)
  BY <1>1, <1>2, <1>5 DEF D!out_valid, D!B!out_valid
<1>c. tx_state' = "IDLE" /\ incoming' = << >>
  <2>1. tx_state' = "IDLE"
    BY <1>1, <1>2, <1>4, <1>b, PacketGoesOn
  <2>2. QED BY <1>4, <2>1 DEF Working, G!stream_ready
<1>d. Calm' /\ handler' = "IDLE" /\ wire' = "device_stall"
  <2>1. wire' = IF claim /\ handler = "GET_DESCRIPTOR" /\ h.descriptor_stall THEN "device_stall" ELSE "waiting"
    BY DEF Working
  <2>2. QED BY <1>1, <1>2, <1>5, <1>6, <1>a, <1>c, <2>1 DEF Calm
<1>e. /\ ~b.ack /\ ~b.new_token /\ ~b.rx.good /\ b.rx.bytes \in Nat /\ wire = "waiting"
      /\ UNCHANGED <<stage, requestVars, got, host_toggle, excuseVars>> /\ InRequest
  BY DEF Working, Quiet
<1>f. incoming' \in Seq(Nat)
  BY <1>c
<1>g. QED BY <1>1, <1>7, <1>9, <1>c, <1>d, <1>e, <1>f, RequestAfter

\* The descriptor is looked up.
LEMMA LookupGoesOn ==
  ASSUME Supported, IInv, NEW b, Working(b), stage = "data_in", handler = "GET_DESCRIPTOR",
         LookedUp, lookup \in {"START", "LOOKUP_TYPE", "LOOKUP_DESCRIPTOR", "SEND_ZLP"}, ~IsGenerated(asked),
         ~D!B!stall(packet.value)
  PROVE  IInv'
<1> DEFINE h == HandlerInputs(b, token)
           i == DescriptorInputs(b, token)
<1>1. /\ Types /\ asked \in Requests /\ packet = asked /\ DeviceClock(b, token) /\ ~i.start
      /\ h.descriptor_stall = D!stall(i) /\ claim /\ UNCHANGED <<start_position, tx_data_pid>>
      /\ asked' = asked /\ Wanted' = Wanted /\ P!Exists(asked.value)' = P!Exists(asked.value)
      /\ IsGenerated(asked)' = IsGenerated(asked)
  BY WorkingFacts, Zenon
<1>2. /\ Reading /\ ReadSoFar /\ i.value = asked.value
      /\ out_valid(h) <=> D!out_valid(i)
      /\ out_first(h) <=> D!out_first(i)
      /\ out_last(h) <=> D!out_last(i)
      /\ b.tx_ready \in BOOLEAN
  BY DescriptorFacts, Zenon
<1>3. /\ D!B!Clock(packet.value, packet.length, start_position, i.start, describing /\ G!stream_ready(b.tx_ready))
  BY <1>1, DescriptorParts, Zenon
<1>4. /\ tx_state = "IDLE" /\ incoming = << >> /\ bytes_sent = 0 /\ gen.state = "IDLE"
      /\ lookup \in {"START", "LOOKUP_TYPE"} => stall_latch = {"distributed"}
      /\ lookup \in {"LOOKUP_TYPE", "LOOKUP_DESCRIPTOR"} =>
           D!B!HasType(asked.value) /\ position_in_stream = start_position /\ length = Limit
      /\ lookup \in {"LOOKUP_DESCRIPTOR", "SEND_ZLP"} => D!B!HasIndex(asked.value)
      /\ lookup = "SEND_ZLP" => D!B!HasType(asked.value) /\ start_position = Len(Wanted)
  BY DEF LookedUp
<1>5. gen'.state = "IDLE" /\ ~D!R!out_valid(packet.value)
  BY <1>4, SourcesRest
<1>6. ~h.descriptor_stall /\ stall_latch' = stall_latch
  BY <1>1, LatchFacts
<1>7. incoming' = << >> /\ incoming' \in Seq(Nat)
  BY <1>4 DEF Working, G!stream_ready
<1>8. length' = Limit /\ Limit' = Limit
  <2>1. length' = D!B!PacketLimit(packet.length, start_position)
    BY <1>1, LookupTypes
  <2>2. QED BY <1>1, <2>1 DEF Limit, D!B!PacketLimit
<1>9. D!B!HasType(asked.value)' = D!B!HasType(asked.value) /\ D!B!HasIndex(asked.value)' = D!B!HasIndex(asked.value)
  BY <1>1 DEF D!B!HasType, D!B!HasIndex, D!B!max_type_index
<1>a. ASSUME D!B!HasType(asked.value), D!B!HasIndex(asked.value)
      PROVE  /\ P!Exists(asked.value) /\ Wanted \in D!B!AllDescriptors
             /\ Wanted = descriptors[asked.value[1]][asked.value[2] + 1]
             /\ start_position \in Nat /\ start_position < asked.length /\ asked.length \in Nat
             /\ start_position <= Len(Wanted) /\ Len(Wanted) \in Nat
             /\ Limit \in Nat /\ Limit > 0
             /\ PacketLength(start_position) = Smaller(Limit, Len(Wanted) - start_position)
  <2>1. /\ P!Exists(asked.value) /\ Wanted \in D!B!AllDescriptors
        /\ Wanted = descriptors[asked.value[1]][asked.value[2] + 1]
    BY <1>1, <1>2, <1>a, WantedFacts
  <2>2. QED BY <1>1, <1>2, <2>1, PacketFacts
<1>b. lookup # "SEND_ZLP" => tx_state' = "IDLE"
  <2>1. lookup # "SEND_ZLP" => ~D!B!out_valid
    BY DEF D!B!out_valid
  <2>2. lookup # "SEND_ZLP" => ~out_valid(h)
    BY <1>1, <1>2, <1>5, <2>1 DEF D!out_valid
  <2>3. QED BY <1>1, <1>2, <1>4, <2>2, PacketGoesOn
<1>c. start_position % D!B!position_values = start_position
  <2>1. CASE P!Exists(asked.value)
    <3>1. D!B!HasType(asked.value) /\ D!B!HasIndex(asked.value)
      BY <1>1, <1>2, <2>1, WantedFacts
    <3>2. Wanted \in D!B!AllDescriptors /\ start_position \in Nat /\ start_position <= Len(Wanted) /\ Len(Wanted) \in Nat
      BY <1>a, <3>1
    <3>3. Len(Wanted) < D!B!position_values /\ D!B!position_values \in Nat
      BY <3>2, FixedFit
    <3>4. QED BY <3>2, <3>3, SmallRemainder
  <2>2. CASE ~P!Exists(asked.value)
    <3>1. start_position = 0
      BY <1>2, <2>2 DEF ReadSoFar, Sending
    <3>2. D!B!position_values \in Nat \ {0}
      BY PositionsFit
    <3>3. QED BY <3>1, <3>2, SmallRemainder
  <2>3. QED BY <2>1, <2>2
<1> HIDE DEF h, i
<1>d. CASE lookup = "START"
  <2>1. D!B!HasType(asked.value) /\ lookup' = "LOOKUP_TYPE" /\ position_in_stream' = start_position /\ bytes_sent' = 0
    BY <1>1, <1>3, <1>4, <1>c, <1>d DEF D!B!stall, D!B!Clock, D!B!Idle, D!B!Start, D!B!LookupType, D!B!LookupDescriptor,
                                        D!B!SendDescriptor, D!B!SendZlp
  <2>2. LookedUp'
    BY <1>1, <1>4, <1>5, <1>6, <1>7, <1>8, <1>9, <1>b, <1>d, <2>1 DEF LookedUp
  <2>3. QED BY <1>6, <1>7, <2>1, <2>2, DescriptorGoesOn DEF h
<1>e. CASE lookup = "LOOKUP_TYPE"
  <2>1. D!B!HasIndex(asked.value) /\ D!B!HasType(asked.value)
    BY <1>1, <1>4, <1>e DEF D!B!stall
  <2>2. length > 0 /\ length \in Nat
    BY <1>4, <1>a, <1>e, <2>1
  <2>3. lookup' = "LOOKUP_DESCRIPTOR" /\ position_in_stream' = start_position /\ bytes_sent' = 0
    BY <1>1, <1>3, <1>4, <1>e, <2>1, <2>2 DEF D!B!Clock, D!B!Idle, D!B!Start, D!B!LookupType, D!B!LookupDescriptor,
                                              D!B!SendDescriptor, D!B!SendZlp
  <2>4. LookedUp'
    BY <1>1, <1>4, <1>5, <1>6, <1>7, <1>8, <1>9, <1>b, <1>e, <2>1, <2>3 DEF LookedUp
  <2>5. QED BY <1>6, <1>7, <2>3, <2>4, DescriptorGoesOn DEF h
<1>f. CASE lookup = "LOOKUP_DESCRIPTOR"
  <2>1. /\ D!B!HasIndex(asked.value) /\ D!B!HasType(asked.value) /\ position_in_stream = start_position
    BY <1>4, <1>f
  <2>2. /\ chosen' = Wanted /\ fetched' = position_in_stream \div element_size
        /\ lookup' = IF start_position >= Len(Wanted) THEN "SEND_ZLP" ELSE "SEND_DESCRIPTOR"
        /\ position_in_stream' = start_position /\ bytes_sent' = 0
    <3>1. D!B!LookupDescriptor(packet.value)
      BY <1>3, <1>f DEF D!B!Clock, D!B!Idle, D!B!Start, D!B!LookupType, D!B!SendDescriptor, D!B!SendZlp
    <3>2. QED BY <1>1, <1>4, <1>a, <2>1, <3>1 DEF D!B!LookupDescriptor
  <2>3. CASE start_position >= Len(Wanted)
    <3>1. start_position = Len(Wanted) /\ lookup' = "SEND_ZLP"
      BY <1>a, <2>1, <2>2, <2>3
    <3>2. LookedUp'
      BY <1>1, <1>4, <1>5, <1>6, <1>7, <1>8, <1>9, <1>b, <1>f, <2>1, <2>2, <3>1 DEF LookedUp
    <3>3. QED BY <1>6, <1>7, <3>1, <3>2, DescriptorGoesOn DEF h
  <2>4. CASE ~(start_position >= Len(Wanted))
    <3>1. lookup' = "SEND_DESCRIPTOR" /\ 0 < PacketLength(start_position)
      BY <1>a, <2>1, <2>2, <2>4 DEF Smaller
    <3>2. PacketLength(start_position)' = PacketLength(start_position)
      BY <1>1 DEF PacketLength, Whole
    <3>3. start_position' \in Nat /\ start_position' + 0 = start_position'
      BY <1>1, <1>a, <2>1
    <3>4. Carries'
      BY <1>7 DEF Carries
    <3>5. tx_state' = "IDLE" /\ Len(incoming') = 0
      BY <1>7, <1>b, <1>f
    <3>6. fetched' = position_in_stream' \div element_size
      BY <2>1, <2>2
    <3>7. P!Exists(asked.value)' /\ ~IsGenerated(asked)'
      BY <1>1, <1>a, <2>1
    <3>8. position_in_stream' = start_position' + bytes_sent' /\ bytes_sent' < PacketLength(start_position)'
      BY <1>1, <2>2, <3>1, <3>2, <3>3
    <3>9. Streamed'
      BY <1>1, <1>5, <1>7, <1>8, <2>2, <3>1, <3>4, <3>5, <3>6, <3>7, <3>8 DEF Streamed
    <3>a. QED BY <1>6, <1>7, <3>9, DescriptorGoesOn DEF h
  <2>5. QED BY <2>3, <2>4
<1>g. CASE lookup = "SEND_ZLP"
  <2>1. lookup' = "IDLE"
    BY <1>3, <1>g DEF D!B!Clock, D!B!Idle, D!B!Start, D!B!LookupType, D!B!LookupDescriptor, D!B!SendDescriptor, D!B!SendZlp
  <2>2. out_valid(h) /\ out_last(h) /\ ~out_first(h)
    <3>1. D!B!out_valid /\ D!B!out_last /\ ~D!B!out_first(i.start_position)
      BY <1>g DEF D!B!out_valid, D!B!out_last, D!B!out_first
    <3>2. ~D!R!out_first(i.value, i.start_position)
      BY <1>1, <1>2, <1>5 DEF D!R!out_valid, D!R!out_first
    <3>3. QED BY <1>2, <3>1, <3>2 DEF D!out_valid, D!out_first, D!out_last
  <2>3. tx_state' = "SEND_PID" /\ is_zlp'
    BY <1>1, <1>2, <1>4, <2>2, PacketGoesOn DEF h
  <2>4. Len(incoming') = 0 /\ PacketLength(start_position) = 0
    BY <1>4, <1>7, <1>a, <1>g DEF Smaller
  <2>5. PacketLength(start_position)' = PacketLength(start_position)
    BY <1>1 DEF PacketLength, Whole
  <2>6. Carries'
    BY <1>7 DEF Carries
  <2>7. P!Exists(asked.value)'
    BY <1>1, <1>4, <1>a, <1>g
  <2>8. Finished'
    BY <1>5, <2>1, <2>3, <2>4, <2>5, <2>6, <2>7 DEF Finished
  <2>9. QED BY <1>6, <1>7, <2>8, DescriptorGoesOn DEF h
<1>h. QED BY <1>d, <1>e, <1>f, <1>g

\* A byte more of the descriptor has come through.
LEMMA CarriesOn ==
  ASSUME Carries, incoming \in Seq(Nat), Wanted' = Wanted, start_position' = start_position, start_position \in Nat,
         NEW byte, incoming' = Append(incoming, byte), byte = Wanted[start_position + Len(incoming) + 1]
  PROVE  Carries' /\ Len(incoming') = Len(incoming) + 1
<1>1. Len(incoming') = Len(incoming) + 1 /\ Len(incoming) \in Nat
  OBVIOUS
<1>2. ASSUME NEW k \in 1 .. Len(incoming')
      PROVE  incoming'[k] = Wanted[start_position + k]
  <2>1. CASE k = Len(incoming) + 1
    <3>1. incoming'[k] = byte /\ start_position + k = start_position + Len(incoming) + 1
      BY <1>1, <2>1
    <3>2. QED BY <3>1
  <2>2. CASE k # Len(incoming) + 1
    <3>1. k \in 1 .. Len(incoming) /\ incoming'[k] = incoming[k]
      BY <1>1, <2>2
    <3>2. QED BY <3>1 DEF Carries
  <2>3. QED BY <2>1, <2>2
<1>3. QED BY <1>1, <1>2 DEF Carries

\* The ROM sends it.
LEMMA StreamGoesOut ==
  ASSUME Supported, IInv, NEW b, Working(b), stage = "data_in", handler = "GET_DESCRIPTOR", Streamed
  PROVE  IInv'
<1> DEFINE h == HandlerInputs(b, token)
           i == DescriptorInputs(b, token)
           ready == describing /\ G!stream_ready(b.tx_ready)
<1>1. /\ Types /\ asked \in Requests /\ packet = asked /\ DeviceClock(b, token) /\ ~i.start
      /\ h.descriptor_stall = D!stall(i) /\ claim /\ UNCHANGED <<start_position, tx_data_pid>>
      /\ asked' = asked /\ Wanted' = Wanted /\ P!Exists(asked.value)' = P!Exists(asked.value)
      /\ IsGenerated(asked)' = IsGenerated(asked)
  BY WorkingFacts, Zenon
<1>2. /\ Reading /\ ReadSoFar /\ i.value = asked.value /\ i.start_position = start_position /\ describing
      /\ out_valid(h) <=> D!out_valid(i)
      /\ out_first(h) <=> D!out_first(i)
      /\ out_last(h) <=> D!out_last(i)
      /\ incoming' = (IF G!stream_ready(b.tx_ready) /\ D!out_valid(i) /\ Len(incoming) <= max_packet_size
                      THEN Append(incoming, D!out_payload(i)) ELSE incoming)
      /\ b.tx_ready \in BOOLEAN
  BY DescriptorFacts, Zenon
<1>3. /\ lookup = "SEND_DESCRIPTOR" /\ chosen = Wanted /\ length = Limit /\ gen.state = "IDLE"
      /\ P!Exists(asked.value) /\ ~IsGenerated(asked)
      /\ tx_state \in {"IDLE", "SEND_PID", "SEND_PAYLOAD"} /\ (tx_state # "IDLE" => ~is_zlp)
      /\ tx_state # "SEND_PAYLOAD" => incoming = << >>
      /\ bytes_sent = Len(incoming) /\ Carries
      /\ position_in_stream = start_position + bytes_sent /\ fetched = position_in_stream \div element_size
      /\ bytes_sent < PacketLength(start_position)
  BY DEF Streamed
<1>4. D!B!SendDescriptor(ready)
  <2>1. D!B!Clock(packet.value, packet.length, start_position, i.start, ready)
    BY <1>1, DescriptorParts, Zenon
  <2> HIDE DEF ready
  <2>2. QED BY <1>3, <2>1 DEF D!B!Clock, D!B!Idle, D!B!Start, D!B!LookupType, D!B!LookupDescriptor, D!B!SendZlp
<1>5. gen'.state = "IDLE" /\ ~D!R!out_valid(packet.value)
  BY <1>3, SourcesRest
<1>6. ~D!B!stall(packet.value) /\ ~h.descriptor_stall
  <2>1. ~D!B!stall(packet.value)
    BY <1>3 DEF D!B!stall
  <2>2. QED BY <1>1, <2>1, LatchFacts
<1>7. /\ start_position \in Nat /\ Len(Wanted) \in Nat /\ Limit \in Nat /\ Limit <= max_packet_size
      /\ PacketLength(start_position) = Smaller(Limit, Len(Wanted) - start_position)
      /\ Len(Wanted) < D!B!position_values /\ D!B!position_values \in Nat
      /\ incoming \in Seq(Nat) /\ bytes_sent \in Nat /\ max_packet_size \in Nat /\ Wanted \in Seq(Nat)
  <2>1. /\ start_position \in Nat /\ Len(Wanted) \in Nat /\ Limit \in Nat /\ Limit <= max_packet_size
        /\ PacketLength(start_position) = Smaller(Limit, Len(Wanted) - start_position)
        /\ IsGenerated(asked) => start_position < Len(Wanted)
    BY <1>1, <1>2, <1>3, PacketFacts
  <2>2. /\ Wanted \in Seq(Nat)
        /\ P!Exists(asked.value) <=> IsGenerated(asked) \/ (D!B!HasType(asked.value) /\ D!B!HasIndex(asked.value))
    BY <1>1, <1>2, <1>3, WantedFacts
  <2>3. incoming \in Seq(Nat) /\ bytes_sent \in Nat
    BY <1>1 DEF Types, HostTypes, DeviceTypes
  <2>4. ~IsGenerated(asked)
    BY <1>3
  <2>5. QED BY <1>1, <1>2, <1>3, <2>1, <2>2, <2>3, <2>4, WantedFacts, FixedFit, SizeAssumption
<1>8. length' = Limit /\ Limit' = Limit /\ PacketLength(start_position)' = PacketLength(start_position)
  <2>1. length' = D!B!PacketLimit(packet.length, start_position)
    BY <1>1, LookupTypes
  <2>2. QED BY <1>1, <2>1 DEF Limit, D!B!PacketLimit, PacketLength, Whole
<1>9. /\ out_valid(h)
      /\ out_first(h) <=> bytes_sent = 0
      /\ out_last(h) <=> D!B!on_last_packet
      /\ D!out_valid(i)
  <2>1. ~D!R!out_first(i.value, i.start_position) /\ ~D!R!out_last(i.value, i.length, i.start_position)
    BY <1>1, <1>2, <1>5 DEF D!R!out_valid, D!R!out_first, D!R!out_last
  <2>2. D!B!out_valid /\ (D!B!out_first(start_position) <=> bytes_sent = 0) /\ (D!B!out_last <=> D!B!on_last_packet)
    BY <1>3, <1>7 DEF D!B!out_valid, D!B!out_first, D!B!out_last
  <2>3. QED BY <1>2, <2>1, <2>2 DEF D!out_valid, D!out_first, D!out_last
<1>a. D!out_payload(i) = Wanted[start_position + Len(incoming) + 1]
  <2>1. D!out_payload(i) = D!B!out_payload
    BY <1>1, <1>2, <1>5 DEF D!out_payload
  <2>2. fetched * element_size + (position_in_stream % element_size) = position_in_stream
    BY <1>3, <1>7, WordAndByte
  <2>3. position_in_stream + 1 = start_position + Len(incoming) + 1
    BY <1>3, <1>7
  <2>4. D!B!out_payload = Wanted[position_in_stream + 1]
    BY <1>3, <2>2, Zenon DEF D!B!out_payload
  <2>5. QED BY <2>1, <2>3, <2>4
<1>b. D!B!on_last_packet <=> bytes_sent + 1 = PacketLength(start_position)
  <2>1. D!B!on_last_packet <=> position_in_stream = Len(Wanted) - 1 \/ bytes_sent + 1 >= Limit
    BY <1>3 DEF D!B!on_last_packet
  <2>2. QED BY <1>3, <1>7, <2>1 DEF Smaller
<1>c. CASE ~G!stream_ready(b.tx_ready)
  <2>1. UNCHANGED <<lookup, position_in_stream, bytes_sent, chosen>> /\ fetched' = position_in_stream \div element_size
    BY <1>3, <1>4, <1>c DEF D!B!SendDescriptor
  <2>2. incoming' = incoming
    BY <1>2, <1>c
  <2>3. /\ tx_state' \in {"SEND_PID", "SEND_PAYLOAD"} /\ ~is_zlp'
        /\ tx_state' # "SEND_PAYLOAD" => incoming' = << >>
    <3>1. CASE tx_state = "IDLE"
      <4>1. bytes_sent = 0
        BY <1>3, <3>1
      <4>2. QED BY <1>1, <1>2, <1>3, <1>9, <2>2, <3>1, <4>1, PacketGoesOn DEF h
    <3>2. CASE tx_state # "IDLE"
      BY <1>1, <1>2, <1>3, <1>c, <2>2, <3>2, PacketGoesOn DEF G!stream_ready
    <3>3. QED BY <3>1, <3>2
  <2>4. Carries'
    BY <1>1, <1>3, <2>2 DEF Carries
  <2>5. P!Exists(asked.value)' /\ ~IsGenerated(asked)'
    BY <1>1, <1>3
  <2>6. Streamed'
    BY <1>1, <1>3, <1>5, <1>8, <2>1, <2>2, <2>3, <2>4, <2>5 DEF Streamed
  <2>7. QED BY <1>6, <1>7, <2>2, <2>6, DescriptorGoesOn
<1>d. CASE G!stream_ready(b.tx_ready)
  <2>1. tx_state = "SEND_PAYLOAD" /\ b.tx_ready
    BY <1>d DEF G!stream_ready
  <2>2. incoming' = Append(incoming, D!out_payload(i)) /\ D!out_payload(i) \in Nat
    <3>1. Len(incoming) <= max_packet_size
      BY <1>3, <1>7 DEF Smaller
    <3>2. start_position + Len(incoming) + 1 \in 1 .. Len(Wanted)
      BY <1>3, <1>7 DEF Smaller
    <3> HIDE DEF i
    <3>3. Wanted[start_position + Len(incoming) + 1] \in Nat
      BY <1>7, <3>2
    <3>4. QED BY <1>2, <1>9, <1>a, <1>d, <3>1, <3>3
  <2>3. Carries' /\ Len(incoming') = Len(incoming) + 1 /\ incoming' \in Seq(Nat)
    BY <1>1, <1>3, <1>7, <1>a, <2>2, CarriesOn DEF i
  <2>4. tx_state' = (IF D!B!on_last_packet THEN "SEND_CRC_FIRST" ELSE "SEND_PAYLOAD") /\ is_zlp' = is_zlp
    BY <1>1, <1>2, <1>9, <2>1, PacketGoesOn DEF h
  <2>5. P!Exists(asked.value)' /\ ~IsGenerated(asked)'
    BY <1>1, <1>3
  <2>6. CASE D!B!on_last_packet
    <3>1. lookup' = "IDLE"
      BY <1>2, <1>4, <1>d, <2>6 DEF D!B!SendDescriptor
    <3>2. Len(incoming') = PacketLength(start_position)'
      BY <1>3, <1>8, <1>b, <2>3, <2>6
    <3>3. Finished'
      BY <1>5, <2>3, <2>4, <2>5, <2>6, <3>1, <3>2 DEF Finished
    <3>4. QED BY <1>6, <2>3, <3>3, DescriptorGoesOn
  <2>7. CASE ~D!B!on_last_packet
    <3>1. /\ position_in_stream' = (position_in_stream + 1) % D!B!position_values
          /\ bytes_sent' = bytes_sent + 1 /\ fetched' = (position_in_stream + 1) \div element_size
          /\ UNCHANGED <<lookup, chosen>>
      BY <1>2, <1>4, <1>d, <2>7 DEF D!B!SendDescriptor
    <3>2. bytes_sent + 1 < PacketLength(start_position)
      <4>1. PacketLength(start_position) \in Int
        BY <1>7 DEF Smaller
      <4>2. bytes_sent + 1 # PacketLength(start_position)
        BY <1>b, <2>7
      <4> HIDE DEF i, h, ready
      <4>3. QED BY <1>3, <1>7, <4>1, <4>2
    <3>3. position_in_stream + 1 < D!B!position_values /\ position_in_stream + 1 \in Nat
      <4>1. PacketLength(start_position) \in Int /\ PacketLength(start_position) <= Len(Wanted) - start_position
        BY <1>7 DEF Smaller
      <4>2. position_in_stream = start_position + bytes_sent
        BY <1>3
      <4>3. /\ start_position \in Nat /\ bytes_sent \in Nat /\ Len(Wanted) \in Nat
            /\ Len(Wanted) < D!B!position_values /\ D!B!position_values \in Nat
        BY <1>7
      <4> HIDE DEF i, h, ready
      <4>4. QED BY <3>2, <4>1, <4>2, <4>3
    <3>4. position_in_stream' = position_in_stream + 1
      BY <1>7, <3>1, <3>3, SmallRemainder
    <3>5. bytes_sent' < PacketLength(start_position)' /\ position_in_stream' = start_position' + bytes_sent'
      BY <1>1, <1>3, <1>7, <1>8, <3>1, <3>2, <3>4
    <3>6. fetched' = position_in_stream' \div element_size
      BY <3>1, <3>4
    <3>7. Streamed'
      BY <1>1, <1>3, <1>5, <1>8, <2>1, <2>3, <2>4, <2>5, <2>7, <3>1, <3>5, <3>6 DEF Streamed
    <3>8. QED BY <1>6, <2>3, <3>7, DescriptorGoesOn
  <2>8. QED BY <2>6, <2>7
<1>e. QED BY <1>c, <1>d

\* The stream of the generator.
LEMMA GeneratorOut ==
  ASSUME Supported, gen.state = "STREAMING", NEW l \in Nat, NEW s \in Nat
  PROVE  /\ D!R!out_valid(gen_value)
         /\ D!R!out_first(gen_value, s) <=> gen.position_in_stream = s % D!R!Wide(Len(gen_data))
         /\ D!R!out_last(gen_value, l, s) <=> \/ gen.position_in_stream >= Len(gen_data) - 1
                                              \/ gen.bytes_sent + 1 >= D!B!PacketLimit(l, s)
         /\ D!R!out_payload(gen_value) = gen_data[gen.position_in_stream + 1]
<1>1. D!R!Streaming(gen_value) = {1}
  BY GeneratedFacts DEF D!R!Streaming, gen
<1>2. D!R!Narrowed(1, s) = s % D!R!Wide(Len(gen_data)) /\ D!R!data_length(1) = Len(gen_data)
  BY DEF D!R!Narrowed, D!R!data_length, gen_data
<1>3. D!R!length_internal(l, s) = D!B!PacketLimit(l, s)
  BY LimitsAgree
<1>4. D!R!out_first(gen_value, s) <=> gen.position_in_stream = s % D!R!Wide(Len(gen_data))
  BY <1>1, <1>2 DEF D!R!out_first, gen
<1>5. D!R!out_last(gen_value, l, s) <=> \/ gen.position_in_stream >= Len(gen_data) - 1
                                        \/ gen.bytes_sent + 1 >= D!B!PacketLimit(l, s)
  BY <1>1, <1>2, <1>3 DEF D!R!out_last, D!R!on_last_packet, gen
<1>6. D!R!out_payload(gen_value) = gen_data[gen.position_in_stream + 1]
  BY <1>1 DEF D!R!out_payload, gen, gen_data
<1>7. QED BY <1>1, <1>4, <1>5, <1>6 DEF D!R!out_valid

\* The generator sends the descriptor, and the ROM stalls at most by itself.
LEMMA GeneratedGoesOut ==
  ASSUME Supported, IInv, NEW b, Working(b), stage = "data_in", handler = "GET_DESCRIPTOR", Generating
  PROVE  IInv'
<1> DEFINE h == HandlerInputs(b, token)
           i == DescriptorInputs(b, token)
           ready == describing /\ G!stream_ready(b.tx_ready)
<1>1. /\ Types /\ asked \in Requests /\ packet = asked /\ DeviceClock(b, token) /\ ~i.start
      /\ h.descriptor_stall = D!stall(i) /\ claim /\ UNCHANGED <<start_position, tx_data_pid>>
      /\ asked' = asked /\ Wanted' = Wanted /\ P!Exists(asked.value)' = P!Exists(asked.value)
      /\ IsGenerated(asked)' = IsGenerated(asked)
  BY WorkingFacts, Zenon
<1>2. /\ Reading /\ ReadSoFar /\ i.value = asked.value /\ i.length = asked.length /\ i.start_position = start_position
      /\ describing
      /\ out_valid(h) <=> D!out_valid(i)
      /\ out_first(h) <=> D!out_first(i)
      /\ out_last(h) <=> D!out_last(i)
      /\ incoming' = (IF G!stream_ready(b.tx_ready) /\ D!out_valid(i) /\ Len(incoming) <= max_packet_size
                      THEN Append(incoming, D!out_payload(i)) ELSE incoming)
      /\ b.tx_ready \in BOOLEAN
  BY DescriptorFacts, Zenon
<1>3. /\ gen.state = "STREAMING" /\ IsGenerated(asked) /\ stall_latch \in {{}, {"block"}}
      /\ lookup \in {"IDLE", "START", "LOOKUP_TYPE"}
      /\ lookup = "START" => tx_state = "IDLE"
      /\ lookup = "LOOKUP_TYPE" => tx_state = "SEND_PID" /\ D!B!HasType(asked.value)
      /\ tx_state \in {"IDLE", "SEND_PID", "SEND_PAYLOAD"} /\ (tx_state # "IDLE" => ~is_zlp)
      /\ tx_state # "SEND_PAYLOAD" => incoming = << >>
      /\ gen.bytes_sent = Len(incoming) /\ Carries
      /\ gen.position_in_stream = start_position + gen.bytes_sent
      /\ gen.bytes_sent < PacketLength(start_position)
  BY DEF Generating
<1>4. GeneratorClock(b, token) /\ packet.value = gen_value /\ asked.value = gen_value
  BY <1>1, <1>3, GeneratorParts, GeneratedFacts
<1>5. /\ P!Exists(asked.value) /\ Wanted = gen_data /\ Wanted \in Seq(Nat) /\ asked.length \in Nat
      /\ ~(D!B!HasType(asked.value) /\ D!B!HasIndex(asked.value))
  BY <1>1, <1>2, <1>3, WantedFacts
<1>6. /\ start_position \in Nat /\ Len(Wanted) \in Nat /\ Len(Wanted) < H!start_positions
      /\ Limit \in Nat /\ Limit <= max_packet_size
      /\ PacketLength(start_position) = Smaller(Limit, Len(Wanted) - start_position)
      /\ incoming \in Seq(Nat) /\ gen.bytes_sent \in Nat /\ max_packet_size \in Nat
      /\ start_position < Len(Wanted)
  BY <1>1, <1>2, <1>3, <1>5, PacketFacts, SizeAssumption DEF Types, HostTypes, DeviceTypes
<1>7. /\ D!R!Wide(Len(gen_data)) \in Nat /\ start_position % D!R!Wide(Len(gen_data)) = start_position
      /\ D!R!Wide(Len(gen_data) + 1) \in Nat /\ Len(gen_data) + 1 <= D!R!Wide(Len(gen_data) + 1)
  <2>1. D!R!Wide(Len(gen_data)) \in Nat \ {0} /\ Len(gen_data) <= D!R!Wide(Len(gen_data))
    BY <1>5, <1>6, WideEnough DEF H!start_positions
  <2>2. D!R!Wide(Len(gen_data) + 1) \in Nat \ {0} /\ Len(gen_data) + 1 <= D!R!Wide(Len(gen_data) + 1)
    BY <1>5, <1>6, WideEnough DEF H!start_positions
  <2>3. start_position < D!R!Wide(Len(gen_data))
    <3>1. start_position < Len(gen_data) /\ Len(gen_data) \in Nat
      BY <1>5, <1>6
    <3>2. QED BY <1>6, <2>1, <3>1
  <2>4. start_position % D!R!Wide(Len(gen_data)) = start_position
    BY <1>6, <2>1, <2>3, SmallRemainder
  <2>5. QED BY <2>1, <2>2, <2>4
<1>8. Limit = D!B!PacketLimit(packet.length, start_position) /\ PacketLength(start_position)' = PacketLength(start_position)
  BY <1>1 DEF Limit, PacketLength, Whole
<1>9. /\ out_valid(h) /\ D!out_valid(i)
      /\ out_first(h) <=> gen.bytes_sent = 0
      /\ out_last(h) <=> PacketEnds
      /\ D!out_payload(i) = Wanted[start_position + Len(incoming) + 1]
  <2>1. /\ D!R!out_valid(gen_value)
        /\ D!R!out_first(gen_value, start_position) <=> gen.position_in_stream = start_position % D!R!Wide(Len(gen_data))
        /\ D!R!out_last(gen_value, asked.length, start_position) <=> PacketEnds
        /\ D!R!out_payload(gen_value) = gen_data[gen.position_in_stream + 1]
    BY <1>1, <1>3, <1>5, <1>6, GeneratorOut DEF PacketEnds
  <2>2. ~D!B!out_first(i.start_position) /\ ~D!B!out_last
    BY <1>3 DEF D!B!out_first, D!B!out_last
  <2>3. gen.position_in_stream = start_position % D!R!Wide(Len(gen_data)) <=> gen.bytes_sent = 0
    BY <1>3, <1>6, <1>7
  <2>4. gen.position_in_stream + 1 = start_position + Len(incoming) + 1
    BY <1>3, <1>6
  <2> HIDE DEF i, h
  <2>5. D!out_payload(i) = gen_data[gen.position_in_stream + 1]
    BY <1>2, <1>4, <2>1 DEF D!out_payload
  <2>6. D!out_payload(i) = Wanted[start_position + Len(incoming) + 1]
    BY <1>5, <2>4, <2>5
  <2>7. QED BY <1>2, <1>4, <2>1, <2>2, <2>3, <2>6 DEF D!out_valid, D!out_first, D!out_last
<1>a. PacketEnds <=> gen.bytes_sent + 1 = PacketLength(start_position)
  <2>1. PacketEnds <=> gen.position_in_stream >= Len(Wanted) - 1 \/ gen.bytes_sent + 1 >= Limit
    BY <1>5, <1>8 DEF PacketEnds
  <2> HIDE DEF i, h, ready
  <2>2. QED BY <1>3, <1>6, <2>1 DEF Smaller
<1>b. ~h.descriptor_stall /\ stall_latch' \in {{}, {"block"}}
  <2>1. ~D!R!stall(i.value, i.start)
    BY <1>1 DEF D!R!stall
  <2>2. /\ stall_latch' \in {{}, {"block"}, {"distributed"}}
        /\ stall_latch' = (IF i.start \/ D!stall(i) THEN {} ELSE stall_latch)
                          \cup (IF D!stall(i) THEN {} ELSE D!stalling(i))
    BY <1>1, LatchFacts, DescriptorParts, Zenon
  <2> HIDE DEF i, h
  <2>3. "distributed" \notin D!stalling(i) /\ ~D!stall(i)
    BY <1>1, <1>3, <2>1, StallFacts
  <2>4. "distributed" \notin stall_latch'
    BY <1>3, <2>2, <2>3
  <2>5. QED BY <1>1, <2>2, <2>3, <2>4
<1>c. /\ lookup' \in {"IDLE", "LOOKUP_TYPE"}
      /\ lookup' = "LOOKUP_TYPE" => lookup = "START" /\ D!B!HasType(asked.value)'
  <2>1. D!B!Clock(packet.value, packet.length, start_position, i.start, ready)
    BY <1>1, DescriptorParts, Zenon
  <2>2. D!B!HasType(asked.value)' = D!B!HasType(asked.value)
    BY <1>1 DEF D!B!HasType, D!B!max_type_index
  <2> HIDE DEF ready
  <2>3. QED BY <1>1, <1>3, <1>5, <2>1, <2>2 DEF D!B!Clock, D!B!Idle, D!B!Start, D!B!LookupType, D!B!LookupDescriptor,
                                               D!B!SendDescriptor, D!B!SendZlp
<1>d. lookup' = "LOOKUP_TYPE" => tx_state' = "SEND_PID" /\ D!B!HasType(asked.value)'
  <2>1. tx_state = "IDLE" => tx_state' = "SEND_PID"
    <3>1. tx_state = "IDLE" => gen.bytes_sent = 0
      BY <1>3
    <3>2. QED BY <1>1, <1>2, <1>9, <3>1, PacketGoesOn DEF h
  <2>2. QED BY <1>3, <1>c, <2>1
<1>e. CASE ~G!stream_ready(b.tx_ready)
  <2>1. gen' = gen
    BY <1>3, <1>4, <1>e DEF GeneratorClock, GeneratorTaken
  <2>2. incoming' = incoming
    BY <1>2, <1>e
  <2>3. /\ tx_state' \in {"SEND_PID", "SEND_PAYLOAD"} /\ ~is_zlp'
        /\ tx_state' # "SEND_PAYLOAD" => incoming' = << >>
    <3>1. CASE tx_state = "IDLE"
      <4>1. gen.bytes_sent = 0
        BY <1>3, <3>1
      <4>2. QED BY <1>1, <1>2, <1>3, <1>9, <2>2, <3>1, <4>1, PacketGoesOn DEF h
    <3>2. CASE tx_state # "IDLE"
      BY <1>1, <1>2, <1>3, <1>e, <2>2, <3>2, PacketGoesOn DEF G!stream_ready
    <3>3. QED BY <3>1, <3>2
  <2>4. Carries'
    BY <1>1, <1>3, <2>2 DEF Carries
  <2>5. Generating'
    BY <1>1, <1>3, <1>8, <1>b, <1>c, <1>d, <2>1, <2>2, <2>3, <2>4 DEF Generating
  <2>6. QED BY <1>3, <1>6, <1>b, <2>2, <2>5, DescriptorGoesOn
<1>f. CASE G!stream_ready(b.tx_ready)
  <2>1. tx_state = "SEND_PAYLOAD" /\ b.tx_ready /\ GeneratorTaken(b)
    BY <1>2, <1>4, <1>f DEF G!stream_ready, GeneratorTaken
  <2>2. incoming' = Append(incoming, D!out_payload(i)) /\ D!out_payload(i) \in Nat
    <3>1. Len(incoming) <= max_packet_size
      BY <1>3, <1>6 DEF Smaller
    <3>2. start_position + Len(incoming) + 1 \in 1 .. Len(Wanted)
      BY <1>3, <1>6 DEF Smaller
    <3> HIDE DEF i
    <3>3. Wanted[start_position + Len(incoming) + 1] \in Nat
      BY <1>5, <3>2
    <3>4. QED BY <1>2, <1>9, <1>f, <3>1, <3>3
  <2>3. Carries' /\ Len(incoming') = Len(incoming) + 1 /\ incoming' \in Seq(Nat)
    BY <1>1, <1>3, <1>6, <1>9, <2>2, CarriesOn DEF i
  <2>4. tx_state' = (IF PacketEnds THEN "SEND_CRC_FIRST" ELSE "SEND_PAYLOAD") /\ is_zlp' = is_zlp
    BY <1>1, <1>2, <1>9, <2>1, PacketGoesOn DEF h
  <2>5. lookup' = "IDLE"
    BY <1>3, <1>c, <2>1
  <2>6. CASE PacketEnds
    <3>1. gen' = [gen EXCEPT !.state = "DONE"]
      BY <1>3, <1>4, <2>1, <2>6 DEF GeneratorClock
    <3>2. gen'.state = "DONE"
      <4>1. gen \in [state : {"IDLE", "STREAMING", "DONE"}, position_in_stream : Nat, bytes_sent : Nat]
        BY <1>1 DEF Types, DeviceTypes, gen
      <4>2. QED BY <3>1, <4>1
    <3>3. Len(incoming') = PacketLength(start_position)'
      BY <1>3, <1>8, <1>a, <2>3, <2>6
    <3>4. P!Exists(asked.value)'
      BY <1>1, <1>5
    <3>5. Finished'
      BY <2>3, <2>4, <2>5, <2>6, <3>2, <3>3, <3>4 DEF Finished
    <3>6. QED BY <1>3, <1>b, <2>3, <3>5, DescriptorGoesOn
  <2>7. CASE ~PacketEnds
    <3>1. /\ gen'.state = "STREAMING" /\ gen'.bytes_sent = gen.bytes_sent + 1
          /\ gen'.position_in_stream = (gen.position_in_stream + 1) % D!R!Wide(Len(gen_data) + 1)
      BY <1>3, <1>4, <2>1, <2>7 DEF GeneratorClock
    <3>2. gen.bytes_sent + 1 < PacketLength(start_position)
      <4>1. PacketLength(start_position) \in Int
        BY <1>6 DEF Smaller
      <4>2. gen.bytes_sent + 1 # PacketLength(start_position)
        BY <1>a, <2>7
      <4> HIDE DEF i, h, ready
      <4>3. QED BY <1>3, <1>6, <4>1, <4>2
    <3>3. gen.position_in_stream + 1 < D!R!Wide(Len(gen_data) + 1) /\ gen.position_in_stream + 1 \in Nat
      <4> HIDE DEF i, h, ready
      <4>1. gen.position_in_stream + 1 \in Nat /\ gen.position_in_stream + 1 < Len(Wanted)
        BY <1>3, <1>6, <3>2 DEF Smaller
      <4>2. Len(Wanted) < D!R!Wide(Len(gen_data) + 1)
        BY <1>5, <1>6, <1>7
      <4>3. QED BY <1>6, <1>7, <4>1, <4>2
    <3>4. gen'.position_in_stream = gen.position_in_stream + 1
      BY <1>7, <3>1, <3>3, SmallRemainder
    <3>5. gen'.bytes_sent < PacketLength(start_position)' /\ gen'.position_in_stream = start_position' + gen'.bytes_sent
      BY <1>1, <1>3, <1>6, <1>8, <3>1, <3>2, <3>4
    <3>6. Generating'
      BY <1>1, <1>3, <1>b, <1>d, <2>1, <2>3, <2>4, <2>5, <2>7, <3>1, <3>5 DEF Generating
    <3>7. QED BY <1>3, <1>b, <2>3, <3>6, DescriptorGoesOn
  <2>8. QED BY <2>6, <2>7
<1>g. QED BY <1>e, <1>f

\* The packet's end is on its way.
LEMMA PacketGoesOut ==
  ASSUME Supported, IInv, NEW b, Working(b), stage = "data_in", handler = "GET_DESCRIPTOR", Finished
  PROVE  IInv'
<1>1. /\ Types /\ DeviceClock(b, token) /\ UNCHANGED <<start_position, tx_data_pid>>
      /\ asked' = asked /\ Wanted' = Wanted /\ P!Exists(asked.value)' = P!Exists(asked.value)
  BY WorkingFacts, Zenon
<1>2. b.tx_ready \in BOOLEAN /\ ~(b.tx_ready /\ tx_state = "SEND_CRC_SECOND")
  BY DescriptorFacts, Zenon
<1>3. /\ lookup = "IDLE" /\ P!Exists(asked.value)
      /\ tx_state \in {"SEND_PID", "SEND_CRC_FIRST", "SEND_CRC_SECOND"} /\ (tx_state = "SEND_PID" => is_zlp)
      /\ gen.state \in {"IDLE", "DONE"}
      /\ Len(incoming) = PacketLength(start_position) /\ Carries
  <2>1. gen.state \in {"IDLE", "STREAMING", "DONE"}
    BY <1>1 DEF Types, DeviceTypes, gen
  <2>2. QED BY <2>1 DEF Finished
<1>4. /\ lookup' = "IDLE" /\ gen'.state = "IDLE" /\ ~D!B!stall(packet.value)
      /\ ~HandlerInputs(b, token).descriptor_stall
  BY <1>3, SourcesRest
<1>5. incoming' = incoming /\ incoming \in Seq(Nat)
  BY <1>1, <1>3 DEF Working, G!stream_ready, Types, HostTypes
<1>6. /\ tx_state' \in {"SEND_PID", "SEND_CRC_FIRST", "SEND_CRC_SECOND"}
      /\ tx_state' = "SEND_PID" => is_zlp'
  BY <1>1, <1>2, <1>3, PacketGoesOn
<1>7. PacketLength(start_position)' = PacketLength(start_position) /\ Carries' /\ P!Exists(asked.value)'
  BY <1>1, <1>3, <1>5 DEF PacketLength, Whole, Carries
<1>8. Finished'
  BY <1>3, <1>4, <1>5, <1>6, <1>7 DEF Finished
<1>9. QED BY <1>4, <1>5, <1>8, DescriptorGoesOn

LEMMA WorkKeeps ==
  ASSUME Supported, IInv, NEW tx_ready \in BOOLEAN, NEW tx_allowed \in BOOLEAN, Work(tx_ready, tx_allowed)
  PROVE  IInv'
<1>1. CASE stage = "setup"
  BY <1>1, SetupWorkKeeps
<1>2. CASE stage \notin {"idle", "setup"}
  <2>1. PICK b : Working(b)
    BY <1>2, WorkingStep
  <2>2. Answering
    BY <2>1 DEF Working
  <2>3. CASE stage = "status_in"
    BY <2>1, <2>3, StatusGoesOut
  <2>4. CASE stage = "data_in" /\ handler = "GET_CONFIGURATION"
    BY <2>1, <2>4, ConfigurationGoesOut
  <2>5. CASE stage = "data_in" /\ handler = "GET_DESCRIPTOR"
    <3>1. DescriptorUnderway
      BY <2>2, <2>5 DEF Answering
    <3>2. CASE Streamed
      BY <2>1, <2>5, <3>2, StreamGoesOut
    <3>3. CASE Generating
      BY <2>1, <2>5, <3>3, GeneratedGoesOut
    <3>4. CASE Finished
      BY <2>1, <2>5, <3>4, PacketGoesOut
    <3>5. CASE lookup \in {"START", "LOOKUP_TYPE", "LOOKUP_DESCRIPTOR", "SEND_ZLP"} /\ LookedUp /\ ~IsGenerated(asked)
      <4>1. CASE ~D!B!stall(packet.value)
        BY <2>1, <2>5, <3>5, <4>1, LookupGoesOn
      <4>2. CASE D!B!stall(packet.value)
        <5>1. lookup \in {"START", "LOOKUP_TYPE"}
          BY <4>2 DEF D!B!stall
        <5>2. QED BY <2>1, <2>5, <3>5, <4>2, <5>1, LookupStalls
      <4>3. QED BY <4>1, <4>2
    <3>6. QED BY <3>1, <3>2, <3>3, <3>4, <3>5 DEF DescriptorUnderway
  <2>6. QED BY <2>2, <2>3, <2>4, <2>5 DEF Answering
<1>3. CASE stage = "idle"
  BY <1>3, Stages DEF Work, WhenIdle
<1>4. QED BY <1>1, <1>2, <1>3

---------------------------------------------------------------------------
(* A packet reaches the host, or does not *)

LEMMA PacketIsOut ==
  ASSUME Supported, IInv, EndOfPacket, UNCHANGED <<requestVars, excuseVars>>,
         got' \in Seq(Nat), incoming' = << >>, host_toggle' \in {0, 1}
  PROVE  /\ Types /\ InRequest /\ wire = "waiting" /\ ~missed /\ ~unsettled /\ Answering /\ tx_state = "SEND_CRC_SECOND"
         /\ asked \in Requests /\ packet = asked /\ handler = Expected
         /\ Types' /\ Matching' /\ AddressAgrees' /\ Calm'
         /\ decoder' = "IDLE" /\ ~received' /\ packet' = packet /\ ~new_packet'
         /\ UNCHANGED <<control, token, configuration, asked, log, missed, unsettled, handler>>
         /\ handler = "GET_DESCRIPTOR" =>
              UNCHANGED <<start_position, tx_data_pid>> /\ (expecting_ack => expecting_ack')
         /\ Expected' = Expected /\ Wanted' = Wanted
         /\ P!Exists(asked.value)' = P!Exists(asked.value)
         /\ P!Result(asked)' = P!Result(asked) /\ P!Changes(asked)' = P!Changes(asked)
<1> DEFINE b == [Nothing EXCEPT !.tx_ready = TRUE]
           h == HandlerInputs(b, token)
<1>1. wire = "waiting" /\ tx_state = "SEND_CRC_SECOND" /\ DeviceClock(b, token)
  BY DEF EndOfPacket, Arrives
<1>2. Quiet(b) /\ ~b.rx.good /\ b.rx.bytes \in Nat /\ ~b.new_token /\ b.tx_ready = TRUE
  BY DEF Nothing, R!NoPacket, Quiet
<1> HIDE DEF b
<1>3. Types /\ InRequest /\ ~missed /\ ~unsettled /\ Answering
  BY <1>1, Stages DEF WhenIdle, InSetup, Calm, InRequest, IInv
<1>4. asked \in Requests /\ packet = asked /\ handler = Expected /\ ~received
  BY <1>1, <1>3 DEF InRequest, Over
<1>5. lookup = "IDLE" /\ gen.state = "IDLE" /\ serializer = "IDLE"
  <2>1. serializer \in {"IDLE", "STREAMING", "DONE"} /\ gen.state \in {"IDLE", "STREAMING", "DONE"}
    BY <1>3 DEF Types, DeviceTypes, gen
  <2>2. QED BY <1>1, <1>3, <2>1 DEF Answering, StatusUnderway, ConfigurationUnderway, DescriptorUnderway,
                                   LookedUp, Streamed, Generating, Finished
<1>6. /\ ~h.data_requested /\ ~h.status_requested /\ ~h.ack /\ ~DescriptorInputs(b, token).start
      /\ h.received = received /\ h.setup = packet /\ h.descriptor_stall = D!stall(DescriptorInputs(b, token))
  <2>1. Quiet(b)
    BY <1>2
  <2>2. /\ ~h.data_requested /\ ~h.status_requested /\ ~h.ack /\ ~DescriptorInputs(b, token).start
    BY <2>1, QuietInputs, Zenon
  <2>3. h.received = received /\ h.setup = packet /\ h.descriptor_stall = D!stall(DescriptorInputs(b, token))
    BY Plain, Zenon
  <2>4. QED BY <2>2, <2>3
<1>7. /\ ~h.descriptor_stall /\ stall_latch' = stall_latch
  <2>1. ~D!B!stall(packet.value)
    BY <1>5 DEF D!B!stall
  <2>2. QED BY <1>1, <1>3, <1>6, <2>1, LatchFacts
<1>8. lookup' = "IDLE" /\ gen'.state = "IDLE" /\ serializer' = "IDLE" /\ tx_state' = "IDLE"
  <2>1. D!B!Clock(packet.value, packet.length, start_position, DescriptorInputs(b, token).start,
                  describing /\ G!stream_ready(b.tx_ready))
    BY <1>1, DescriptorParts, Zenon
  <2>2. lookup' = "IDLE"
    BY <1>5, <1>6, <2>1 DEF D!B!Clock, D!B!Idle, D!B!Start, D!B!LookupType, D!B!LookupDescriptor,
                            D!B!SendDescriptor, D!B!SendZlp
  <2>3. gen'.state = "IDLE"
    BY <1>1, <1>3, <1>5, <1>6, GeneratorParts DEF GeneratorClock, GeneratorStarts
  <2>4. ~H!serializer_start(h)
    BY <1>6 DEF H!serializer_start
  <2>5. S!Clock(H!serializer_start(h), S!Narrowed(H!serializer_length), serializing /\ G!stream_ready(b.tx_ready))
    BY <1>1, Parts
  <2>6. serializer' = "IDLE"
    BY <1>5, <2>4, <2>5 DEF S!Clock
  <2>7. tx_state' = "IDLE"
    BY <1>1, <1>2, <1>3, PacketGoesOn
  <2>8. QED BY <2>2, <2>3, <2>6, <2>7
<1>9. H!Clock(h)
  BY <1>1, Parts
<1> HIDE DEF h
<1>a. /\ handler' = handler
      /\ handler = "GET_DESCRIPTOR" => UNCHANGED <<start_position, tx_data_pid>> /\ (expecting_ack => expecting_ack')
  <2>1. ~H!advances(h)
    BY <1>6 DEF H!advances
  <2>2. QED BY <1>4, <1>6, <1>7, <1>9, <2>1 DEF H!Clock, H!Idle, H!HandleSimpleDataRequest, H!HandleWriteRequest, H!GetDescriptor,
                                               H!Unhandled, H!simple_data, H!register_writes, H!awaits_ack
<1>b. ~any_match' => "block" \notin stall_latch'
  <2>1. any_match => any_match'
    BY <1>1, DescriptorParts, Zenon
  <2>2. QED BY <1>7, <2>1 DEF IInv, Matching
<1>c. /\ Types' /\ Matching' /\ AddressAgrees'
      /\ decoder' = "IDLE" /\ ~received' /\ packet' = packet /\ ~new_packet'
      /\ UNCHANGED <<control, token, configuration, asked, log, missed, unsettled>>
      /\ Expected' = Expected /\ Wanted' = Wanted
      /\ P!Result(asked)' = P!Result(asked) /\ P!Changes(asked)' = P!Changes(asked)
  <2>1. incoming' \in Seq(Nat) /\ ~b.ack
    BY <1>2 DEF Quiet
  <2>2. QED BY <1>1, <1>2, <1>3, <1>b, <2>1, RequestClocks
<1>d. P!Exists(asked.value)' = P!Exists(asked.value)
  BY <1>c DEF P!Exists, P!Generated, P!Fixed
<1>e. QED BY <1>1, <1>3, <1>4, <1>8, <1>a, <1>c, <1>d DEF Calm

LEMMA HostMissesKeeps ==
  ASSUME Supported, IInv, HostMisses
  PROVE  IInv'
<1>1. /\ EndOfPacket /\ wire' = "quiet" /\ incoming' = << >>
      /\ stage' = stage /\ got' = got /\ host_toggle' = host_toggle /\ UNCHANGED <<requestVars, excuseVars>>
  BY DEF HostMisses
<1>2. got \in Seq(Nat) /\ host_toggle \in {0, 1}
  BY DEF IInv, Types, HostTypes
<1>3. /\ Types /\ InRequest /\ wire = "waiting" /\ ~missed /\ ~unsettled /\ Answering /\ tx_state = "SEND_CRC_SECOND"
      /\ asked \in Requests /\ packet = asked /\ handler = Expected
      /\ Types' /\ Matching' /\ AddressAgrees' /\ Calm'
      /\ decoder' = "IDLE" /\ ~received' /\ packet' = packet /\ ~new_packet'
      /\ UNCHANGED <<control, token, configuration, asked, log, missed, unsettled, handler>>
      /\ handler = "GET_DESCRIPTOR" => UNCHANGED <<start_position, tx_data_pid>>
      /\ Expected' = Expected
      /\ P!Result(asked)' = P!Result(asked) /\ P!Changes(asked)' = P!Changes(asked)
  BY <1>1, <1>2, PacketIsOut, Zenon
<1>4. ~Over' /\ Heard("IN")' /\ stage \in {"status_in", "data_in"}
  BY <1>1, <1>3 DEF Over, Answering, Heard
<1>5. \/ stage' = "data_in" /\ InDataIn'
      \/ stage' = "status_in" /\ InStatusIn'
  <2>1. CASE stage = "data_in"
    <3>1. InDataIn
      BY <1>3, <2>1 DEF InRequest
    <3>2. handler = "GET_DESCRIPTOR" => ReadSoFar'
      <4>1. handler = "GET_DESCRIPTOR" => ReadSoFar
        BY <3>1 DEF InDataIn
      <4>2. QED BY <1>1, <1>3, <4>1, ReadKept
    <3>3. InDataIn'
      BY <1>1, <1>3, <3>1, <3>2 DEF InDataIn
    <3>4. QED BY <1>1, <2>1, <3>3
  <2>2. CASE stage = "status_in"
    <3>1. InStatusIn
      BY <1>3, <2>2 DEF InRequest
    <3>2. InStatusIn'
      BY <1>1, <1>3, <1>4, <3>1 DEF InStatusIn, Answering, SetsLineCoding
    <3>3. QED BY <1>1, <2>2, <3>2
  <2>3. QED BY <1>4, <2>1, <2>2
<1>6. InRequest'
  BY <1>1, <1>3, <1>4, <1>5 DEF InRequest
<1>7. stage' # "idle" => Len(log') < MaxRequests
  BY <1>1, <1>3 DEF IInv
<1>8. QED BY <1>3, <1>6, <1>7 DEF IInv

\* The host has the next packet of a descriptor.
LEMMA NextPacket ==
  ASSUME Supported, Types, asked \in Requests, Reading, asked.type = "STANDARD", ReadSoFar, Finished, Sending,
         got' = got \o incoming
  PROVE  /\ got' \in Seq(Nat) /\ Len(got') = start_position + Len(incoming) /\ Len(incoming) <= max_packet_size
         /\ Len(got') <= Whole /\ Whole <= Len(Wanted) /\ Whole <= asked.length
         /\ Len(incoming) < max_packet_size => Len(got') = Whole
         /\ \A k \in 1 .. Len(got') : got'[k] = Wanted[k]
         /\ Whole \in Nat /\ Len(Wanted) \in Nat
<1>1. /\ P!Exists(asked.value) /\ Len(incoming) = PacketLength(start_position) /\ Carries
      /\ start_position = Len(got) /\ Upto(got, Len(got))
  BY DEF Finished, Sending, ReadSoFar
<1>2. got \in Seq(Nat) /\ incoming \in Seq(Nat) /\ max_packet_size \in Nat /\ max_packet_size > 0
  BY SizeAssumption DEF Types, HostTypes
<1>3. /\ start_position \in Nat /\ start_position < asked.length /\ start_position <= Len(Wanted)
      /\ Len(Wanted) \in Nat /\ asked.length \in Nat
  BY <1>1, PacketFacts
<1>4. Whole \in Nat /\ Whole <= Len(Wanted) /\ Whole <= asked.length /\ start_position <= Whole
  BY <1>3 DEF Whole, Smaller
<1>5. /\ Len(incoming) \in Nat /\ Len(incoming) <= max_packet_size /\ start_position + Len(incoming) <= Whole
      /\ Len(incoming) < max_packet_size => start_position + Len(incoming) = Whole
  BY <1>1, <1>2, <1>3, <1>4 DEF PacketLength, Smaller
<1>6. got' \in Seq(Nat) /\ Len(got') = start_position + Len(incoming)
  BY <1>1, <1>2, ConcatProperties
<1>7. ASSUME NEW k \in 1 .. Len(got')
      PROVE  got'[k] = Wanted[k]
  <2>1. CASE k <= Len(got)
    <3>1. got'[k] = got[k] /\ k \in 1 .. Len(got)
      BY <1>2, <1>6, <2>1
    <3>2. QED BY <1>1, <3>1 DEF Upto
  <2>2. CASE ~(k <= Len(got))
    <3>1. /\ k - Len(got) \in 1 .. Len(incoming) /\ got'[k] = incoming[k - Len(got)]
          /\ start_position + (k - Len(got)) = k
      BY <1>1, <1>2, <1>6, <2>2
    <3>2. incoming[k - Len(got)] = Wanted[start_position + (k - Len(got))]
      BY <1>1, <3>1 DEF Carries
    <3>3. QED BY <3>1, <3>2
  <2>3. QED BY <2>1, <2>2
<1>8. QED BY <1>3, <1>4, <1>5, <1>6, <1>7

LEMMA HostReceivesKeeps ==
  ASSUME Supported, IInv, HostReceives
  PROVE  IInv'
<1>1. /\ EndOfPacket /\ wire' = "ack" /\ incoming' = << >> /\ UNCHANGED <<requestVars, excuseVars>>
      /\ stage = "data_in" \/ (stage = "status_in" /\ incoming = << >> /\ packet_pid = 1)
      /\ IF stage = "data_in" /\ packet_pid = host_toggle
         THEN /\ got' = got \o incoming /\ host_toggle' = 1 - host_toggle
              /\ stage' = IF Len(got') >= asked.length \/ Len(incoming) < max_packet_size
                          THEN "status_out" ELSE stage
         ELSE UNCHANGED <<stage, got, host_toggle>>
  BY DEF HostReceives
<1>2. got' \in Seq(Nat) /\ host_toggle' \in {0, 1} /\ stage' # "idle"
  <2>1. got \in Seq(Nat) /\ incoming \in Seq(Nat) /\ host_toggle \in {0, 1}
    BY DEF IInv, Types, HostTypes
  <2>2. CASE stage = "data_in" /\ packet_pid = host_toggle
    <3>1. got' = got \o incoming /\ host_toggle' = 1 - host_toggle /\ stage' \in {"status_out", "data_in"}
      BY <1>1, <2>2
    <3>2. got' \in Seq(Nat)
      BY <2>1, <3>1, ConcatProperties
    <3>3. QED BY <2>1, <3>1, <3>2
  <2>3. CASE ~(stage = "data_in" /\ packet_pid = host_toggle)
    BY <1>1, <2>1, <2>3
  <2>4. QED BY <2>2, <2>3
<1>3. /\ Types /\ InRequest /\ wire = "waiting" /\ ~missed /\ ~unsettled /\ Answering /\ tx_state = "SEND_CRC_SECOND"
      /\ asked \in Requests /\ packet = asked /\ handler = Expected
      /\ Types' /\ Matching' /\ AddressAgrees' /\ Calm'
      /\ decoder' = "IDLE" /\ ~received' /\ packet' = packet /\ ~new_packet'
      /\ UNCHANGED <<control, token, configuration, asked, log, missed, unsettled, handler>>
      /\ handler = "GET_DESCRIPTOR" =>
           UNCHANGED <<start_position, tx_data_pid>> /\ (expecting_ack => expecting_ack')
      /\ Expected' = Expected /\ Wanted' = Wanted
      /\ P!Exists(asked.value)' = P!Exists(asked.value)
      /\ P!Result(asked)' = P!Result(asked) /\ P!Changes(asked)' = P!Changes(asked)
  BY <1>1, <1>2, PacketIsOut, Zenon
<1>4. ~Over' /\ Heard("IN") /\ Heard("IN")' /\ ~Heard("OUT")' /\ ~Heard("PING")'
  BY <1>1, <1>3 DEF Over, Answering, Heard
<1>5. SUFFICES \/ stage' = "data_in" /\ InDataIn'
               \/ stage' = "status_in" /\ InStatusIn'
               \/ stage' = "status_out" /\ InStatusOut'
  <2>1. ASSUME \/ stage' = "data_in" /\ InDataIn'
               \/ stage' = "status_in" /\ InStatusIn'
               \/ stage' = "status_out" /\ InStatusOut'
        PROVE  IInv'
    <3>1. InRequest'
      BY <1>1, <1>3, <1>4, <2>1 DEF InRequest
    <3>2. stage' # "idle" => Len(log') < MaxRequests
      BY <1>1, <1>3 DEF IInv
    <3>3. QED BY <1>3, <3>1, <3>2 DEF IInv
  <2>2. QED BY <2>1
<1>6. CASE stage = "status_in"
  <2>1. InStatusIn /\ P!Result(asked) = P!Done(<< >>)
    BY <1>3, <1>6 DEF InRequest, Answering
  <2>2. stage' = "status_in" /\ got' = got
    BY <1>1, <1>6
  <2>3. P!Done(<< >>)' = P!Done(<< >>)
    BY DEF P!Done
  <2>4. InStatusIn'
    BY <1>1, <1>3, <1>4, <2>1, <2>2, <2>3 DEF InStatusIn, SetsLineCoding
  <2>5. QED BY <2>2, <2>4
<1>7. ASSUME stage = "data_in"
      PROVE  /\ InDataIn /\ asked.length > 0 /\ asked.is_in_request /\ control = "DATA_IN"
             /\ handler \in {"GET_CONFIGURATION", "GET_DESCRIPTOR"}
             /\ asked.type = "STANDARD" /\ asked.request = handler
  <2>1. InDataIn /\ handler \in {"GET_CONFIGURATION", "GET_DESCRIPTOR"}
    BY <1>3, <1>7 DEF InRequest, Answering
  <2>2. asked.type = "STANDARD" /\ asked.request = handler
    BY <1>3, <2>1 DEF Expected, HandlerState
  <2>3. QED BY <2>1, <2>2 DEF InDataIn
<1>8. CASE stage = "data_in" /\ handler = "GET_CONFIGURATION"
  <2>1. incoming = <<configuration>> /\ packet_pid = 1
    BY <1>3, <1>8 DEF Answering, ConfigurationUnderway
  <2>2. (got = << >> /\ host_toggle = 1) \/ (got = <<configuration>> /\ host_toggle = 0)
    BY <1>7, <1>8 DEF InDataIn
  <2>3. got' = <<configuration>> /\ host_toggle' = 0 /\ stage' \in {"data_in", "status_out"}
    <3>1. CASE got = << >> /\ host_toggle = 1
      BY <1>1, <1>8, <2>1, <3>1
    <3>2. CASE got = <<configuration>> /\ host_toggle = 0
      BY <1>1, <1>8, <2>1, <3>2
    <3>3. QED BY <2>2, <3>1, <3>2
  <2>4. CASE stage' = "data_in"
    <3>1. InDataIn'
      BY <1>1, <1>3, <1>7, <1>8, <2>3 DEF InDataIn
    <3>2. QED BY <2>4, <3>1
  <2>5. CASE stage' = "status_out"
    <3>1. P!Result(asked) = P!Done(<<configuration>>)
      BY <1>7, <1>8 DEF P!Result, P!StandardResult
    <3>2. P!Result(asked)' = P!Done(got)'
      BY <1>3, <2>3, <3>1 DEF P!Done
    <3>3. InStatusOut'
      BY <1>1, <1>3, <1>4, <1>7, <1>8, <3>2 DEF InStatusOut
    <3>4. QED BY <2>5, <3>3
  <2>6. QED BY <2>3, <2>4, <2>5
<1>9. CASE stage = "data_in" /\ handler = "GET_DESCRIPTOR"
  <2>1. /\ Finished /\ expecting_ack /\ packet_pid = tx_data_pid
    BY <1>3, <1>9 DEF Answering, DescriptorUnderway, LookedUp, Streamed, Generating
  <2>2. Reading /\ ReadSoFar
    BY <1>7, <1>9 DEF InDataIn, Reading
  <2>3. P!Exists(asked.value) /\ (Sending \/ Repeating) /\ max_packet_size \in Nat /\ max_packet_size > 0
    BY <2>1, <2>2, SizeAssumption DEF Finished, ReadSoFar
  <2>4. /\ UNCHANGED <<start_position, tx_data_pid>> /\ expecting_ack' /\ start_position \in Nat
        /\ tx_data_pid \in {0, 1} /\ host_toggle \in {0, 1} /\ Len(got) \in Nat /\ got \in Seq(Nat)
    BY <1>3, <1>9, <2>1 DEF Types, DeviceTypes, HostTypes
  <2>5. (\E k \in 0 .. start_position : start_position = k * max_packet_size)'
    <3>1. \E k \in 0 .. start_position : start_position = k * max_packet_size
      BY <2>2 DEF ReadSoFar
    <3>2. QED BY <2>4, <3>1
  <2>6. CASE Sending
    <3>1. packet_pid = host_toggle
      BY <2>1, <2>6 DEF Sending
    <3>2. /\ got' = got \o incoming /\ host_toggle' = 1 - host_toggle
          /\ stage' = IF Len(got') >= asked.length \/ Len(incoming) < max_packet_size THEN "status_out" ELSE "data_in"
      BY <1>1, <1>9, <3>1
    <3>3. /\ got' \in Seq(Nat) /\ Len(got') = start_position + Len(incoming) /\ Len(incoming) <= max_packet_size
          /\ Len(got') <= Whole /\ Whole <= Len(Wanted) /\ Whole <= asked.length
          /\ Len(incoming) < max_packet_size => Len(got') = Whole
          /\ \A k \in 1 .. Len(got') : got'[k] = Wanted[k]
          /\ Whole \in Nat /\ Len(Wanted) \in Nat
      BY <1>3, <1>7, <1>9, <2>1, <2>2, <2>6, <3>2, NextPacket
    <3>4. asked.length \in Nat /\ Len(incoming) \in Nat /\ Len(got') \in Nat
      BY <1>3, <2>2, <3>3, WantedFacts DEF Types, HostTypes
    <3>5. CASE stage' = "data_in"
      <4>1. Len(got') < asked.length /\ Len(got') <= Len(Wanted) /\ Len(got') = start_position + max_packet_size
        BY <2>3, <3>2, <3>3, <3>4, <3>5
      <4>2. Repeating'
        BY <2>4, <2>6, <3>2, <4>1 DEF Repeating, Sending
      <4>3. Upto(got, Len(got))'
        BY <1>3, <3>3 DEF Upto
      <4>4. ReadSoFar'
        BY <1>1, <1>3, <2>3, <2>4, <2>5, <4>1, <4>2, <4>3 DEF ReadSoFar
      <4>5. InDataIn'
        BY <1>1, <1>3, <1>7, <1>9, <4>4 DEF InDataIn
      <4>6. QED BY <3>5, <4>5
    <3>6. CASE stage' = "status_out"
      <4>1. Len(got') = Whole
        BY <2>3, <3>2, <3>3, <3>4, <3>6
      <4>2. SubSeq(Wanted, 1, Whole) = got'
        <5>1. Wanted \in Seq(Nat)
          BY <1>3, <2>2, <2>3, WantedFacts
        <5>2. SubSeq(Wanted, 1, Whole) \in Seq(Nat) /\ Len(SubSeq(Wanted, 1, Whole)) = Whole
          BY <3>3, <5>1, SubSeqProperties
        <5>3. \A k \in 1 .. Whole : SubSeq(Wanted, 1, Whole)[k] = Wanted[k]
          BY <3>3, <5>1
        <5>4. \A k \in 1 .. Whole : SubSeq(Wanted, 1, Whole)[k] = got'[k]
          BY <3>3, <4>1, <5>3
        <5>5. QED BY <3>3, <4>1, <5>2, <5>4, SeqEqual
      <4>3. P!Result(asked) = P!Done(got')
        BY <1>3, <1>7, <2>2, <2>3, <4>2, <1>9, DescriptorResult
      <4>4. P!Result(asked)' = P!Done(got)'
        BY <1>3, <4>3 DEF P!Done
      <4>5. InStatusOut'
        BY <1>1, <1>3, <1>4, <1>7, <1>9, <4>4 DEF InStatusOut
      <4>6. QED BY <3>6, <4>5
    <3>7. QED BY <3>2, <3>5, <3>6
  <2>7. CASE ~Sending
    <3>1. Repeating
      BY <2>3, <2>7
    <3>2. packet_pid # host_toggle
      BY <2>1, <2>4, <3>1 DEF Repeating
    <3>3. got' = got /\ host_toggle' = host_toggle /\ stage' = "data_in"
      BY <1>1, <1>9, <3>2
    <3>4. Repeating'
      BY <2>4, <3>1, <3>3 DEF Repeating
    <3>5. Len(got') < asked.length /\ Len(got') <= Len(Wanted) /\ Upto(got', Len(got'))
      BY <2>2, <2>3, <3>3 DEF ReadSoFar
    <3>6. Upto(got, Len(got))'
      BY <1>3, <3>5 DEF Upto
    <3>7. ReadSoFar'
      BY <1>1, <1>3, <2>3, <2>4, <2>5, <3>4, <3>5, <3>6 DEF ReadSoFar
    <3>8. InDataIn'
      BY <1>1, <1>3, <1>7, <1>9, <3>7 DEF InDataIn
    <3>9. QED BY <3>3, <3>8
  <2>8. QED BY <2>6, <2>7
<1>a. QED BY <1>1, <1>6, <1>7, <1>8, <1>9

---------------------------------------------------------------------------
(* The invariant *)

LEMMA InvariantAtFirst ==
  ASSUME Supported, Init
  PROVE  IInv
<1>1. /\ position = -1 /\ new_packet = FALSE /\ received = FALSE /\ decoder = "IDLE" /\ packet = NoRequest
      /\ control = "SETUP" /\ handler = "IDLE" /\ start_position = 0 /\ tx_data_pid = 1 /\ expecting_ack = FALSE
      /\ lookup = "IDLE" /\ length = 0 /\ position_in_stream = 0 /\ bytes_sent = 0 /\ fetched = 0
      /\ any_match = FALSE /\ stall_latch = {} /\ serializer = "IDLE" /\ tx_state = "IDLE" /\ is_zlp = FALSE
      /\ address = 0 /\ configuration = 0 /\ token = NoToken
  BY DEF Init, R!Init, C!Init, H!Init, D!Init, D!B!Init, D!R!Init, S!Init, G!Init
<1>2. generators = [g \in {1} |-> [state |-> "IDLE", position_in_stream |-> 0, bytes_sent |-> 0]]
  BY GeneratedFacts DEF Init, D!Init, D!R!Init
<1>3. /\ wire = "quiet" /\ stage = "idle" /\ asked = NoRequest /\ got = << >> /\ incoming = << >>
      /\ host_toggle = 1 /\ host_address = 0 /\ missed = FALSE /\ unsettled = FALSE /\ log = << >>
  BY DEF Init
<1>4. gen.state = "IDLE"
  BY <1>2 DEF gen
<1>5. Types
  <2>1. generators \in [{1} -> [state : {"IDLE", "STREAMING", "DONE"}, position_in_stream : Nat, bytes_sent : Nat]]
    BY <1>2
  <2>2. token \in Tokens
    BY <1>1 DEF NoToken, Tokens
  <2>3. DeviceTypes
    <3>1. /\ start_position \in Nat /\ length \in Nat /\ position_in_stream \in Nat /\ bytes_sent \in Nat
          /\ fetched \in Nat /\ configuration \in Nat /\ tx_data_pid \in {0, 1} /\ position \in Int /\ position >= -1
      BY <1>1
    <3>0. /\ new_packet \in BOOLEAN /\ received \in BOOLEAN /\ expecting_ack \in BOOLEAN
          /\ any_match \in BOOLEAN /\ is_zlp \in BOOLEAN
      BY <1>1, Zenon
    <3>2. /\ decoder \in {"IDLE", "READ_DATA", "INTERPACKET_DELAY"}
          /\ control \in {"SETUP", "DATA_IN", "DATA_OUT", "STATUS_IN", "STATUS_OUT"}
          /\ handler \in H!handled \cup {"IDLE", "UNHANDLED"} /\ handler = "IDLE"
          /\ stall_latch \in {{}, {"block"}, {"distributed"}}
      BY <1>1
    <3>3. /\ lookup \in {"IDLE", "START", "LOOKUP_TYPE", "LOOKUP_DESCRIPTOR", "SEND_DESCRIPTOR", "SEND_ZLP"}
          /\ serializer \in {"IDLE", "STREAMING", "DONE"}
          /\ tx_state \in {"IDLE", "SEND_PID", "SEND_PAYLOAD", "SEND_CRC_FIRST", "SEND_CRC_SECOND"}
      BY <1>1
    <3>4. QED BY <2>1, <2>2, <3>0, <3>1, <3>2, <3>3, Zenon DEF DeviceTypes
  <2>4. HostTypes
    <3>1. << >> \in Seq(Nat)
      OBVIOUS
    <3>2. << >> \in Seq([request : Requests, result : [status : {"done", "stall", "unknown"}, data : Seq(Nat)]])
      BY EmptySeq, Zenon
    <3>3. NoRequest \in Requests \cup {NoRequest} /\ 1 \in {0, 1} /\ FALSE \in BOOLEAN
      BY Zenon
    <3>4. QED BY <1>1, <1>3, <3>1, <3>2, <3>3, Zenon DEF HostTypes
  <2>5. QED BY <2>3, <2>4 DEF Types
<1>6. Matching
  BY <1>1, <1>3 DEF Matching, Reading, NoRequest
<1>7. WhenIdle
  BY <1>1, <1>3, <1>4 DEF WhenIdle, Calm
<1>8. QED BY <1>1, <1>3, <1>5, <1>6, <1>7 DEF IInv, AddressAgrees

LEMMA InvariantStutters ==
  ASSUME IInv, UNCHANGED vars
  PROVE  IInv'
<1>1. UNCHANGED deviceVars /\ UNCHANGED hostVars
  BY DEF vars
<1>2. /\ UNCHANGED <<position, new_packet, captured, decoder, packet, received, control>>
      /\ UNCHANGED <<handler, start_position, tx_data_pid, expecting_ack>>
      /\ UNCHANGED <<lookup, length, position_in_stream, bytes_sent, chosen, fetched>>
      /\ UNCHANGED <<generators, any_match, stall_latch>>
      /\ UNCHANGED <<serializer, at, serialized, tx_state, packet_pid, is_zlp>>
      /\ UNCHANGED <<address, configuration, token, halts_cleared>>
  BY <1>1 DEF deviceVars, decoderVars, handlerVars, descriptorVars, serializerVars, generatorVars
<1>3. /\ UNCHANGED <<wire, stage, asked, host_address, log, got, incoming, host_toggle, missed, unsettled>>
  BY <1>1 DEF hostVars, requestVars, dataVars, excuseVars
<1>4. /\ Wanted' = Wanted /\ Reading' = Reading /\ Expected' = Expected /\ FirstStage' = FirstStage
      /\ P!Result(asked)' = P!Result(asked) /\ P!Changes(asked)' = P!Changes(asked)
  BY <1>2, <1>3, AskedKept
<1>5. Types' /\ Matching' /\ AddressAgrees'
  BY <1>2, <1>3 DEF IInv, Types, DeviceTypes, HostTypes, Fresh, Matching, Reading, AddressAgrees, GeneratedRead
<1>6. WhenIdle => WhenIdle'
  BY <1>2, <1>3 DEF WhenIdle, Calm, gen
<1>7. InSetup => InSetup'
  BY <1>2, <1>3, <1>4 DEF InSetup, Calm, gen, Heard, Fresh, Taken
<1>8. InDataOut => InDataOut'
  BY <1>2, <1>3 DEF InDataOut, Heard
<1>9. InStatusIn => InStatusIn'
  BY <1>2, <1>3, <1>4 DEF InStatusIn, Heard, P!Done
<1>a. InStatusOut => InStatusOut'
  BY <1>2, <1>3, <1>4 DEF InStatusOut, Heard, P!Done
<1>b. InDataIn => InDataIn'
  <2>1. ReadSoFar => ReadSoFar'
    BY <1>2, <1>3, <1>4 DEF ReadSoFar, Upto, Sending, Repeating
  <2>2. QED BY <1>2, <1>3, <2>1 DEF InDataIn, Heard
<1>c. Answering => Answering'
  <2>1. PacketLength(start_position)' = PacketLength(start_position) /\ Limit' = Limit /\ (Carries => Carries')
    BY <1>2, <1>3, <1>4 DEF PacketLength, Whole, Limit, Carries, D!B!PacketLimit
  <2>2. DescriptorUnderway => DescriptorUnderway'
    BY <1>2, <1>3, <1>4, <2>1 DEF DescriptorUnderway, LookedUp, Streamed, Generating, Finished, gen
  <2>3. ConfigurationUnderway => ConfigurationUnderway'
    BY <1>2, <1>3 DEF ConfigurationUnderway, gen
  <2>4. StatusUnderway => StatusUnderway'
    BY <1>2, <1>3 DEF StatusUnderway, gen
  <2>5. QED BY <1>2, <1>3, <1>4, <2>2, <2>3, <2>4 DEF Answering, Heard, P!Done
<1>d. InRequest => InRequest'
  BY <1>2, <1>3, <1>4, <1>8, <1>9, <1>a, <1>b, <1>c DEF InRequest, Over, Calm, gen
<1>e. QED BY <1>3, <1>5, <1>6, <1>7, <1>d DEF IInv

LEMMA InvariantKept ==
  ASSUME Supported, IInv, [Next]_vars
  PROVE  IInv'
<1>1. CASE Next
  <2>1. CASE \E r \in Requests : Begin(r)
    BY <2>1, BeginKeeps
  <2>2. CASE Transaction
    BY <2>2, AskKeeps, TokenLostKeeps, DataArrivesKeeps, DataLostKeeps, RespondKeeps, RespondToDataKeeps, WorkKeeps,
       HostReceivesKeeps, HostMissesKeeps, AckArrivesKeeps, AckLostKeeps, HostSeesAckKeeps, HostSeesStallKeeps,
       HandshakeLostKeeps, TimeoutKeeps DEF Transaction
  <2>3. CASE AskElsewhere
    BY <2>3, AskElsewhereKeeps
  <2>4. CASE \E ack \in BOOLEAN : AnsweredElsewhere(ack)
    BY <2>4, AnsweredElsewhereKeeps
  <2>5. QED BY <1>1, <2>1, <2>2, <2>3, <2>4 DEF Next
<1>2. CASE UNCHANGED vars
  BY <1>2, InvariantStutters
<1>3. QED BY <1>1, <1>2

\* Host and device go through every request together: the inductive invariant of the control plane.
THEOREM Invariance ==
  ASSUME Supported
  PROVE  Spec => []IInv
<1>1. Init => IInv
  BY InvariantAtFirst
<1>2. IInv /\ [Next]_vars => IInv'
  BY InvariantKept
<1>3. QED BY <1>1, <1>2, PTL DEF Spec

---------------------------------------------------------------------------
(* The promises *)

LEMMA HandlerFollows ==
  ASSUME IInv
  PROVE  HandlerHasRequest
<1> SUFFICES ASSUME wire = "quiet", stage \notin {"idle", "setup"}, ~unsettled
             PROVE  /\ packet = asked /\ control \in StageOf(stage)
                    /\ asked.type = "STANDARD" => handler = HandlerState(asked)
  BY DEF HandlerHasRequest
<1>1. InRequest
  BY Stages
<1>2. packet = asked /\ handler = Expected
  BY <1>1 DEF InRequest, Over
<1>3. control \in StageOf(stage)
  BY <1>1 DEF InRequest, InDataIn, InDataOut, InStatusIn, InStatusOut, StageOf
<1>4. QED BY <1>2, <1>3 DEF Expected

\* In the data and status stages, each transaction that comes through whole gets an answer:
\* whatever got lost and was repeated before it, the parts of the device agree on the stage
\* and on the request.
THEOREM AnswersAlways ==
  ASSUME Supported
  PROVE  Spec => []AlwaysAnswered
<1>1. IInv => AlwaysAnswered
  BY Answers
<1>2. QED BY <1>1, Invariance, PTL

\* Once its SETUP packet is acknowledged, the decoder, the control endpoint and the request
\* handler all have the host's request, in its stage, until its status stage is.
THEOREM HandlerCorrect ==
  ASSUME Supported
  PROVE  Spec => []HandlerHasRequest
<1>1. IInv => HandlerHasRequest
  BY HandlerFollows
<1>2. QED BY <1>1, Invariance, PTL

\* The device takes its new address in the very clock in which the host begins to use it.
THEOREM AddressCorrect ==
  ASSUME Supported
  PROVE  Spec => []AddressAgrees
<1>1. IInv => AddressAgrees
  BY DEF IInv
<1>2. QED BY <1>1, Invariance, PTL

---------------------------------------------------------------------------
(* The refinement: a request is one step *)

\* The registers change with an ACK alone.
LEMMA RegistersRest ==
  ASSUME NEW b, NEW t, DeviceClock(b, t),
         ~b.ack \/ handler \notin H!register_writes \cup {"CLEAR_FEATURE"}
  PROVE  UNCHANGED <<address, configuration, halts_cleared>>
<1>1. HandlerInputs(b, t).ack = b.ack
  BY Plain
<1>2. /\ ~H!address_changed(HandlerInputs(b, t)) /\ ~H!config_changed(HandlerInputs(b, t))
      /\ ~H!clear_endpoint_halt(HandlerInputs(b, t))
  BY <1>1 DEF H!address_changed, H!config_changed, H!clear_endpoint_halt, H!register_writes
<1>3. QED BY <1>2, Parts

\* A request that is over for the device ends without another change, with the answer that
\* the request promises or with none.
LEMMA OverEnds ==
  ASSUME Supported, IInv, InRequest, Over, DeviceClock(Nothing, token),
         NEW result \in {P!Result(asked), P!Unknown}, Complete(result)
  PROVE  P!Next
<1>1. ~P!Changes(asked)
  BY OverChangesNothing
<1>2. asked \in Requests /\ Len(log) < MaxRequests
  BY DEF IInv, InRequest
<1>3. ~Nothing.ack
  BY DEF Nothing
<1>4. UNCHANGED <<address, configuration, halts_cleared>>
  BY <1>3, RegistersRest
<1>5. log' = Append(log, [request |-> asked, result |-> result])
  BY DEF Complete
<1>6. P!Perform(asked) \/ P!GiveUp(asked)
  BY <1>1, <1>4, <1>5 DEF P!Perform, P!GiveUp
<1>7. QED BY <1>2, <1>6 DEF P!Next

LEMMA AckPerforms ==
  ASSUME Supported, IInv, AckArrives
  PROVE  P!Next \/ UNCHANGED P!vars
<1> DEFINE b == [Nothing EXCEPT !.ack = TRUE]
<1>1. /\ wire = "ack" /\ DeviceClock(b, token)
      /\ IF stage = "status_in" THEN Complete(P!Done(<< >>))
         ELSE wire' = "quiet" /\ UNCHANGED <<stage, requestVars, dataVars, excuseVars>>
  BY DEF AckArrives, Arrives
<1>2. b.ack /\ ~b.ready_for_response /\ ~b.rx_ready_for_response
  BY DEF Nothing
<1> HIDE DEF b
<1>3. InRequest /\ stage \notin {"idle", "setup"} /\ Len(log) < MaxRequests /\ Types
  BY <1>1, Stages DEF WhenIdle, InSetup, IInv
<1>4. Calm /\ ~received /\ packet = asked /\ asked \in Requests /\ handler = Expected
  BY <1>1, <1>3 DEF InRequest, Over
<1>5. CASE stage = "status_in"
  <2>1. /\ asked.length = 0 \/ SetsLineCoding(asked)
        /\ P!Result(asked) = P!Done(<< >>)
    BY <1>1, <1>3, <1>5 DEF InRequest, InStatusIn
  <2>2. log' = Append(log, [request |-> asked, result |-> P!Result(asked)])
    BY <1>1, <1>5, <2>1 DEF Complete
  <2>3. /\ address' = IF claim /\ handler = "SET_ADDRESS" THEN packet.value[2] % 128 ELSE address
        /\ configuration' = IF claim /\ handler = "SET_CONFIGURATION" THEN packet.value[2]
                            ELSE configuration
        /\ halts_cleared' = IF claim /\ handler = "CLEAR_FEATURE" THEN halts_cleared + 1
                            ELSE halts_cleared
    BY <1>1, <1>2, <1>3, <1>4, AckDevice, Zenon
  <2>4. P!Result(asked) # P!Stalled
    BY <2>1 DEF P!Done, P!Stalled
  <2>5. CASE /\ asked.type = "STANDARD" /\ asked.length = 0
             /\ asked.request \in H!register_writes \cup {"CLEAR_FEATURE"} /\ Expected = asked.request
    <3>1. P!Changes(asked) /\ claim /\ handler = asked.request
      BY <1>4, <2>4, <2>5 DEF P!Changes, claim
    <3>2. P!Perform(asked)
      BY <1>4, <2>2, <2>3, <3>1 DEF P!Perform
    <3>3. QED BY <1>3, <1>4, <3>2 DEF P!Next
  <2>6. CASE asked.type # "STANDARD"
    <3>1. ~P!Changes(asked) /\ ~claim
      BY <1>4, <2>6 DEF P!Changes, claim
    <3>2. P!Perform(asked)
      BY <2>2, <2>3, <3>1 DEF P!Perform
    <3>3. QED BY <1>3, <1>4, <3>2 DEF P!Next
  <2>7. QED BY <1>4, <2>1, <2>5, <2>6, DoneWithoutData
<1>6. CASE stage # "status_in"
  <2>1. handler \in {"GET_DESCRIPTOR", "GET_CONFIGURATION"}
    <3>1. stage = "data_in" \/ stage = "status_out"
      BY <1>1, <1>3, <1>6 DEF InRequest, InDataOut
    <3>2. CASE stage = "data_in"
      BY <1>1, <1>3, <3>2 DEF InRequest, InDataIn
    <3>3. CASE stage = "status_out"
      <4>1. asked.request \in {"GET_DESCRIPTOR", "GET_CONFIGURATION"} /\ Served(asked)
        BY <1>3, <1>4, <3>3 DEF InRequest, InStatusOut, Supported
      <4>2. QED BY <1>4, <4>1 DEF Served, H!handled, H!simple_data, Expected, HandlerState
    <3>4. QED BY <3>1, <3>2, <3>3
  <2>2. handler \notin H!register_writes \cup {"CLEAR_FEATURE"}
    BY <2>1 DEF H!register_writes
  <2>3. UNCHANGED <<address, configuration, halts_cleared>>
    BY <1>1, <2>2, RegistersRest
  <2>4. log' = log
    BY <1>1, <1>6 DEF requestVars
  <2>5. QED BY <2>3, <2>4 DEF P!vars
<1>7. QED BY <1>5, <1>6

\* The steps in which no request ends.
LEMMA NothingPerformed ==
  ASSUME Supported, NEW b, NEW t, DeviceClock(b, t), ~b.ack, UNCHANGED requestVars
  PROVE  UNCHANGED P!vars
<1>1. UNCHANGED <<address, configuration, halts_cleared>>
  BY RegistersRest
<1>2. QED BY <1>1 DEF requestVars, P!vars

LEMMA TransactionPerforms ==
  ASSUME Supported, IInv, Transaction
  PROVE  P!Next \/ UNCHANGED P!vars
<1>1. ASSUME NEW pid, NEW next, Token(pid, next)
      PROVE  UNCHANGED P!vars
  <2>1. UNCHANGED requestVars
    BY <1>1, Zenon DEF Token
  <2>2. PICK b \in {[Nothing EXCEPT !.rx = R!TokenPacket],
                    [Nothing EXCEPT !.rx = R!TokenPacket, !.new_token = TRUE]} :
          \E t : DeviceClock(b, t)
    BY <1>1, Zenon DEF Token
  <2>3. ~b.ack
    BY DEF Nothing
  <2>4. QED BY <2>1, <2>2, <2>3, NothingPerformed, Zenon
<1>2. CASE AskSetup \/ AskIn \/ AskOut \/ Ping
  BY <1>1, <1>2, Zenon DEF AskSetup, AskIn, AskOut, Ping
<1>3. CASE TokenLost \/ HandshakeLost
  <2>1. DeviceClock(Nothing, token) /\ ~Nothing.ack /\ UNCHANGED requestVars
    BY <1>3 DEF TokenLost, HandshakeLost, QuietClock, Nothing
  <2>2. QED BY <2>1, NothingPerformed, Zenon
<1>4. CASE DataArrives \/ (\E damaged \in BOOLEAN : DataLost(damaged))
  <2>1. UNCHANGED requestVars /\ \E rx : DeviceClock([Nothing EXCEPT !.rx = rx], token)
    BY <1>4, Zenon DEF DataArrives, DataLost, Arrives
  <2>2. PICK rx : DeviceClock([Nothing EXCEPT !.rx = rx], token)
    BY <2>1
  <2>3. ~[Nothing EXCEPT !.rx = rx].ack
    BY DEF Nothing
  <2>4. QED BY <2>1, <2>2, <2>3, NothingPerformed, Zenon
<1>5. CASE Respond \/ RespondToData
  <2>1. UNCHANGED requestVars
        /\ \/ DeviceClock([Nothing EXCEPT !.ready_for_response = TRUE], token)
           \/ DeviceClock([Nothing EXCEPT !.rx_ready_for_response = TRUE], token)
    BY <1>5, Zenon DEF Respond, RespondToData, Arrives
  <2>2. /\ ~[Nothing EXCEPT !.ready_for_response = TRUE].ack
        /\ ~[Nothing EXCEPT !.rx_ready_for_response = TRUE].ack
    BY DEF Nothing
  <2>3. QED BY <2>1, <2>2, NothingPerformed, Zenon
<1>6. CASE \E tx_ready, tx_allowed \in BOOLEAN : Work(tx_ready, tx_allowed)
  <2>1. PICK tx_ready \in BOOLEAN, tx_allowed \in BOOLEAN : Work(tx_ready, tx_allowed)
    BY <1>6
  <2> DEFINE b == [Nothing EXCEPT !.tx_ready = tx_ready, !.tx_allowed = tx_allowed]
  <2>2. DeviceClock(b, token) /\ UNCHANGED requestVars
    BY <2>1, Zenon DEF Work, Arrives
  <2>3. ~b.ack
    BY DEF Nothing
  <2> HIDE DEF b
  <2>4. QED BY <2>2, <2>3, NothingPerformed, Zenon
<1>7. CASE HostReceives \/ HostMisses
  <2>1. DeviceClock([Nothing EXCEPT !.tx_ready = TRUE], token) /\ UNCHANGED requestVars
    BY <1>7, Zenon DEF HostReceives, HostMisses, EndOfPacket, Arrives
  <2>2. ~[Nothing EXCEPT !.tx_ready = TRUE].ack
    BY DEF Nothing
  <2>3. QED BY <2>1, <2>2, NothingPerformed, Zenon
<1>8. CASE AckArrives
  BY <1>8, AckPerforms
<1>9. CASE AckLost
  <2>1. DeviceClock(Nothing, token) /\ ~Nothing.ack /\ UNCHANGED requestVars
    BY <1>9 DEF AckLost, QuietClock, Supported, Nothing
  <2>2. QED BY <2>1, NothingPerformed, Zenon
<1>a. CASE HostSeesAck
  <2>1. DeviceClock(Nothing, token) /\ ~Nothing.ack /\ wire = "device_ack"
        /\ (UNCHANGED requestVars \/ (token.pid # "PING" /\ stage = "status_out" /\ Complete(P!Done(got))))
    BY <1>a DEF HostSeesAck, QuietClock, Nothing
  <2>2. CASE UNCHANGED requestVars
    BY <2>1, <2>2, NothingPerformed, Zenon
  <2>3. CASE token.pid # "PING" /\ stage = "status_out" /\ Complete(P!Done(got))
    <3>1. InRequest
      BY <2>3, Stages
    <3>2. Over
      BY <2>1, <2>3 DEF Over
    <3>3. P!Result(asked) = P!Done(got)
      BY <2>3, <3>1 DEF InRequest, InStatusOut
    <3>4. QED BY <2>1, <2>3, <3>1, <3>2, <3>3, OverEnds
  <2>4. QED BY <2>1, <2>2, <2>3
<1>b. CASE HostSeesStall
  <2>1. DeviceClock(Nothing, token) /\ wire = "device_stall" /\ Complete(P!Stalled)
    BY <1>b DEF HostSeesStall, QuietClock
  <2>2. InRequest /\ Over
    BY <2>1, Stages DEF WhenIdle, InSetup, Over
  <2>3. P!Result(asked) = P!Stalled
    BY <2>1, <2>2 DEF InRequest
  <2>4. QED BY <2>1, <2>2, <2>3, OverEnds
<1>c. CASE Timeout
  <2>1. DeviceClock(Nothing, token) /\ ~Nothing.ack /\ wire = "waiting" /\ DeviceIdle
        /\ (UNCHANGED requestVars \/ (~missed /\ stage # "setup" /\ Complete(P!Unknown)))
    BY <1>c DEF Timeout, QuietClock, Nothing
  <2>2. CASE UNCHANGED requestVars
    BY <2>1, <2>2, NothingPerformed, Zenon
  <2>3. CASE ~missed /\ stage # "setup" /\ Complete(P!Unknown)
    <3>1. InRequest
      BY <2>1, <2>3, Stages DEF WhenIdle
    <3>2. Over
      BY <2>1, <2>3, Answers DEF AlwaysAnswered, Over
    <3>3. QED BY <2>1, <2>3, <3>1, <3>2, OverEnds
  <2>4. QED BY <2>1, <2>2, <2>3
<1>d. QED BY <1>2, <1>3, <1>4, <1>5, <1>6, <1>7, <1>8, <1>9, <1>a, <1>b, <1>c, Zenon DEF Transaction

LEMMA StepPerforms ==
  ASSUME Supported, IInv, [Next]_vars
  PROVE  [P!Next]_(P!vars)
<1>1. CASE Transaction
  BY <1>1, TransactionPerforms
<1>2. CASE \E r \in Requests : Begin(r)
  <2>1. DeviceClock(Nothing, token) /\ ~Nothing.ack /\ UNCHANGED log
    BY <1>2 DEF Begin, QuietClock, Nothing
  <2>2. QED BY <2>1, RegistersRest DEF P!vars
<1>3. CASE AskElsewhere
  <2> DEFINE b == [Nothing EXCEPT !.rx = R!TokenPacket, !.new_token = TRUE]
  <2>1. DeviceClock(b, [pid |-> "IN", endpoint |-> 1]) /\ UNCHANGED requestVars
    BY <1>3, Zenon DEF AskElsewhere
  <2>2. ~b.ack
    BY DEF Nothing
  <2> HIDE DEF b
  <2>3. QED BY <2>1, <2>2, NothingPerformed, Zenon
<1>4. CASE \E ack \in BOOLEAN : AnsweredElsewhere(ack)
  <2>1. PICK ack \in BOOLEAN : AnsweredElsewhere(ack)
    BY <1>4
  <2> DEFINE b == [Nothing EXCEPT !.ack = ack]
  <2>2. DeviceClock(b, token) /\ ~ack /\ UNCHANGED requestVars
    BY <2>1, Zenon DEF AnsweredElsewhere, Arrives, Supported
  <2>3. ~b.ack
    BY <2>2 DEF Nothing
  <2> HIDE DEF b
  <2>4. QED BY <2>2, <2>3, NothingPerformed, Zenon
<1>5. CASE UNCHANGED vars
  BY <1>5 DEF vars, deviceVars, hostVars, requestVars, P!vars
<1>6. QED BY <1>1, <1>2, <1>3, <1>4, <1>5 DEF Next

\* Whatever gets lost and is repeated, the control plane implements requests that are one step:
\* the host has exact answers, and a register changes in the step of the request that names it.
THEOREM RequestsImplemented ==
  ASSUME Supported
  PROVE  Spec => ImplementsRequests
<1>1. Init => P!Init
  BY DEF Init, P!Init
<1>2. IInv /\ [Next]_vars => [P!Next]_(P!vars)
  BY StepPerforms
<1>3. QED BY <1>1, <1>2, Invariance, PTL DEF Spec, ImplementsRequests, P!Spec
=================================================================================
