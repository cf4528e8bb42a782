------------------------------- MODULE BulkInProofs -------------------------------
(***************************************************************************)
(* Order, repeatability and the refinement of PacketPipe by the bulk IN    *)
(* path, for every packet size and every number of bytes; and what is left *)
(* of the order when discards, cleared halts and foreign ACKs interfere.   *)
(***************************************************************************)
EXTENDS BulkIn, SequenceTheorems, TLAPS

---------------------------------------------------------------------------
(* The inductive invariant *)

\* What the theorems but the last assume: no discards, no cleared halts, and no other
\* device's ACKs.  Each of them breaks the promise; FaultsKeepOrder is what is left of it.
Undisturbed == ~Discards /\ ~SharedBus /\ MaxHalts = 0

\* The packet that is due or on its way, and the one being filled.
sent    == buffer[M!read]
filling == buffer[M!write]

Types ==
  /\ state \in {"WAIT_FOR_DATA", "WAIT_TO_SEND", "SEND_PACKET", "WAIT_FOR_ACK"}
  /\ buffer_toggle \in {0, 1} /\ data_pid \in {0, 1}
  /\ buffer \in [{0, 1} -> Seq(Nat)] /\ stream_ended \in [{0, 1} -> BOOLEAN]
  /\ Len(sent) <= max_packet_size /\ Len(filling) <= max_packet_size
  /\ send_position \in Nat /\ first \in BOOLEAN /\ read_adr \in [{0, 1} -> Nat]
  /\ tx_state \in {"IDLE", "SEND_PID", "SEND_PAYLOAD", "SEND_CRC_FIRST", "SEND_CRC_SECOND"}
  /\ packet_pid \in {0, 1} /\ is_zlp \in BOOLEAN
  /\ accepted \in Nat /\ ends \in SUBSET Nat
  /\ wire \in {"quiet", "asked", "answer", "ack", "elsewhere"}
  /\ host_toggle \in {0, 1} /\ halts_cleared = 0
  /\ incoming \in Seq(Nat) /\ delivered \in Seq(Nat) /\ cuts \in Seq(Nat)

\* The host has taken the packet in the buffer; its ACK is what is missing.
Taken == data_pid # host_toggle

\* Manager, generator and host are at the same point of the transaction.
Sending ==
  /\ state = "SEND_PACKET" /\ send_position < Len(sent) /\ Len(incoming) = send_position
  /\ \/ tx_state = "IDLE" /\ first /\ send_position = 0
     \/ /\ tx_state = "SEND_PID" /\ ~is_zlp /\ first /\ send_position = 0
        /\ read_adr[M!read] = 0 /\ packet_pid = data_pid
     \/ /\ tx_state = "SEND_PAYLOAD" /\ (first <=> send_position = 0)
        /\ read_adr[M!read] = send_position /\ packet_pid = data_pid
Closing ==
  /\ state = "WAIT_FOR_ACK" /\ Len(incoming) = Len(sent) /\ ~first /\ packet_pid = data_pid
  /\ \/ tx_state = "SEND_PID" /\ is_zlp /\ Len(sent) = 0
     \/ tx_state \in {"SEND_CRC_FIRST", "SEND_CRC_SECOND"}

InStep ==
  /\ wire = "answer" => /\ Sending \/ Closing
                        /\ \A k \in 1 .. Len(incoming) : incoming[k] = sent[k]
  /\ wire # "answer" => tx_state = "IDLE" /\ state # "SEND_PACKET" /\ ~first
  /\ wire \in {"asked", "elsewhere"} => state # "WAIT_FOR_ACK"
  /\ wire = "ack" => state = "WAIT_FOR_ACK" /\ Taken

\* Without a packet that is due, everything was taken and there is room for more.
Resting == state = "WAIT_FOR_DATA" => Len(sent) = 0 /\ Taken /\ M!in_ready

\* The bytes are either with the host or in a buffer, in order: those of the sent
\* packet begin after Base, and the others follow.
Base == IF Taken THEN Len(delivered) - Len(sent) ELSE Len(delivered)

Accounted ==
  /\ Base >= 0 /\ Base + Len(sent) + Len(filling) = accepted
  /\ \A k \in 1 .. Len(sent) : sent[k] = Base + k
  /\ \A k \in 1 .. Len(filling) : filling[k] = Base + Len(sent) + k
  /\ \A k \in 1 .. Len(delivered) : delivered[k] = k

\* Transfers end where buffers end, and the flags say so.
EndsMarked ==
  /\ \A e \in ends : e > 0 /\ e <= accepted /\ ~(Base < e /\ e < Base + Len(sent))
                     /\ ~(Base + Len(sent) < e /\ e < accepted)
  /\ stream_ended[M!write] <=> Len(filling) > 0 /\ accepted \in ends
  /\ Len(sent) > 0 => (stream_ended[M!read] <=> Base + Len(sent) \in ends)
  /\ Len(sent) \in 1 .. max_packet_size - 1 => Base + Len(sent) \in ends \/ Flushes

\* The host's packets, and whether an empty one is due.
CutsMarked ==
  /\ cuts = << >> => Len(delivered) = 0
  /\ cuts # << >> => cuts[Len(cuts)] = Len(delivered)
  /\ Taken /\ Len(sent) > 0 => cuts # << >> /\ Pipe!PacketLength(Len(cuts)) = Len(sent)
  /\ Pipe!EndUnseen <=> /\ state # "WAIT_FOR_DATA"
                        /\ IF Taken THEN Len(sent) = max_packet_size /\ stream_ended[M!read]
                           ELSE Len(sent) = 0

IInv == Types /\ InStep /\ Resting /\ Accounted
PipeInv == EndsMarked /\ CutsMarked

---------------------------------------------------------------------------
(* What one clock does to the two buffers *)

\* The filled buffer and its flag after a clock in which the buffers stay where they are.
Filled(i) == IF M!byte_accepted(i) THEN Append(filling, i.payload) ELSE filling
Ended(i)  == stream_ended[M!write] \/ (M!byte_accepted(i) /\ i.last)

\* The three things a clock can do: leave the sent packet alone, go on to the packet
\* that was filled, and free the sent packet.
Kept(i) ==
  /\ buffer_toggle' = buffer_toggle /\ data_pid' = data_pid
  /\ sent' = sent /\ filling' = Filled(i)
  /\ stream_ended'[M!write'] = Ended(i)
  /\ Len(sent) > 0 => stream_ended'[M!read'] = stream_ended[M!read]
Swapped(i) ==
  /\ buffer_toggle' = 1 - buffer_toggle /\ data_pid' = 1 - data_pid
  /\ sent' = Filled(i) /\ filling' = << >>
  /\ stream_ended'[M!read'] = Ended(i) /\ stream_ended'[M!write'] = FALSE
Freed(i) ==
  /\ buffer_toggle' = buffer_toggle
  /\ sent' = << >> /\ filling' = Filled(i)
  /\ stream_ended'[M!write'] = Ended(i)

\* The inputs that occur in an undisturbed endpoint.
Plain(i) ==
  /\ i.valid \in BOOLEAN /\ i.last \in BOOLEAN /\ i.flush \in BOOLEAN
  /\ i.last => i.valid
  /\ i.flush => Flushes
  /\ ~i.discard /\ ~i.reset_sequence /\ i.payload = accepted + 1

LEMMA InputsArePlain ==
  ASSUME Undisturbed, NEW strobe, strobe # "reset", NEW r \in BOOLEAN,
         NEW i \in InputsFor(strobe, r)
  PROVE  /\ Plain(i)
         /\ i.in_token = (strobe = "in") /\ i.new_token = (strobe = "token")
         /\ i.ack = (strobe = "ack") /\ (i.ready <=> G!stream_ready(r))
BY DEF Undisturbed, InputsFor, Plain

\* The buffer that is filled never outgrows a packet.
LEMMA FilledFits ==
  ASSUME Types, NEW i, Plain(i)
  PROVE  /\ Filled(i) \in Seq(Nat) /\ Len(Filled(i)) <= max_packet_size
         /\ Len(Filled(i)) = Len(filling) + (IF M!byte_accepted(i) THEN 1 ELSE 0)
         /\ \A k \in 1 .. Len(filling) : Filled(i)[k] = filling[k]
         /\ M!byte_accepted(i) => Filled(i)[Len(filling) + 1] = accepted + 1
<1>1. /\ filling \in Seq(Nat) /\ accepted + 1 \in Nat /\ Len(filling) \in Nat
      /\ i.payload = accepted + 1
  BY DEF Types, filling, M!write, Plain
<1>2. M!byte_accepted(i) => Len(filling) # max_packet_size
  BY DEF M!byte_accepted, M!in_ready, M!write_fill_count, filling
<1>3. Len(filling) <= max_packet_size
  BY DEF Types
<1>4. CASE M!byte_accepted(i)
  BY <1>1, <1>2, <1>3, <1>4, AppendProperties, SizeAssumption DEF Filled
<1>5. CASE ~M!byte_accepted(i)
  BY <1>1, <1>3, <1>5 DEF Filled
<1>6. QED BY <1>4, <1>5

\* The manager's two buffers and flags before FSM states free or swap them.
LEMMA BuffersFilled ==
  ASSUME Types, NEW i, Plain(i)
  PROVE  /\ M!write \in {0, 1} /\ M!read \in {0, 1} /\ M!read # M!write
         /\ M!read = 1 - buffer_toggle /\ M!write = buffer_toggle
         /\ data_pid \in {0, 1} /\ M!ToggledPid(i) = 1 - data_pid /\ M!HeldPid(i) = data_pid
         /\ M!FilledBuffers(i) \in [{0, 1} -> Seq(Nat)]
         /\ M!FilledBuffers(i)[M!write] = Filled(i) /\ M!FilledBuffers(i)[M!read] = sent
         /\ M!EndedStreams(i) \in [{0, 1} -> BOOLEAN]
         /\ M!EndedStreams(i)[M!write] = Ended(i)
         /\ M!EndedStreams(i)[M!read] = stream_ended[M!read]
<1>1. /\ buffer_toggle \in {0, 1} /\ data_pid \in {0, 1}
      /\ buffer \in [{0, 1} -> Seq(Nat)] /\ stream_ended \in [{0, 1} -> BOOLEAN]
  BY DEF Types
<1>2. M!write \in {0, 1} /\ M!read \in {0, 1} /\ M!read # M!write
  BY <1>1 DEF M!read, M!write
<1>3. M!ToggledPid(i) = 1 - data_pid /\ M!HeldPid(i) = data_pid
  BY SMTT(30), <1>1 DEF M!ToggledPid, M!HeldPid, Plain
<1>4. M!FilledBuffers(i) = [b \in {0, 1} |-> IF b = M!write THEN Filled(i) ELSE buffer[b]]
  BY <1>2 DEF M!FilledBuffers, M!Buffers, Filled, filling, Plain
<1>5. Filled(i) \in Seq(Nat)
  BY FilledFits
<1>6. M!EndedStreams(i) = [b \in {0, 1} |-> IF b = M!write THEN Ended(i) ELSE stream_ended[b]]
  BY <1>1, <1>2 DEF M!EndedStreams, M!Buffers, Ended, Plain
<1>7. Ended(i) \in BOOLEAN
  BY <1>1, <1>2 DEF Ended
<1>8. M!read = 1 - buffer_toggle /\ M!write = buffer_toggle
  BY DEF M!read, M!write
<1>9. QED BY <1>1, <1>2, <1>3, <1>4, <1>5, <1>6, <1>7, <1>8 DEF sent

\* One clock of the manager in each of its states.
LEMMA WaitForDataClock ==
  ASSUME Types, NEW i, Plain(i), M!Clock(i), state = "WAIT_FOR_DATA"
  PROVE  /\ M!packet_ready(i) => Swapped(i) /\ state' = "WAIT_TO_SEND"
         /\ ~M!packet_ready(i) => Kept(i) /\ state' = "WAIT_FOR_DATA"
         /\ send_position' = send_position /\ first' = first
<1>1. M!WaitForData(i)
  BY DEF M!Clock, M!WaitToSend, M!SendPacket, M!WaitForAck
<1>2. QED
  BY <1>1, BuffersFilled DEF M!WaitForData, M!read, M!write, Swapped, Kept, sent, filling

LEMMA WaitToSendClock ==
  ASSUME Types, NEW i, Plain(i), M!Clock(i), state = "WAIT_TO_SEND"
  PROVE  /\ Kept(i) /\ send_position' = 0
         /\ ~i.in_token => state' = "WAIT_TO_SEND" /\ first' = first
         /\ i.in_token /\ Len(sent) # 0 => state' = "SEND_PACKET" /\ first' = TRUE
         /\ i.in_token /\ Len(sent) = 0 => state' = "WAIT_FOR_ACK" /\ first' = first
<1>1. M!WaitToSend(i)
  BY DEF M!Clock, M!WaitForData, M!SendPacket, M!WaitForAck
<1>2. /\ buffer_toggle' = buffer_toggle /\ data_pid' = data_pid /\ send_position' = 0
      /\ buffer' = M!FilledBuffers(i)
  BY <1>1 DEF M!WaitToSend, Plain
<1>3. sent' = sent /\ filling' = Filled(i)
  BY <1>2, BuffersFilled DEF M!read, M!write, sent, filling
<1>4. Len(sent) \in Nat
  BY BuffersFilled DEF Types, sent
<1>5. \/ stream_ended' = M!EndedStreams(i)
      \/ Len(sent) = 0 /\ stream_ended' = [M!EndedStreams(i) EXCEPT ![M!read] = FALSE]
  BY <1>1 DEF M!WaitToSend, M!read_fill_count, sent
<1>6. /\ stream_ended'[M!write'] = Ended(i)
      /\ Len(sent) > 0 => stream_ended'[M!read'] = stream_ended[M!read]
  BY <1>2, <1>4, <1>5, BuffersFilled DEF M!read, M!write
<1>7. QED
  BY <1>1, <1>2, <1>3, <1>6 DEF M!WaitToSend, M!read_fill_count, Plain, Kept, sent

LEMMA SendPacketClock ==
  ASSUME Types, NEW i, Plain(i), M!Clock(i), state = "SEND_PACKET", send_position < Len(sent)
  PROVE  /\ Kept(i)
         /\ ~i.ready => /\ state' = "SEND_PACKET" /\ first' = first
                        /\ send_position' = send_position
         /\ i.ready => /\ state' = IF send_position + 1 = Len(sent)
                                   THEN "WAIT_FOR_ACK" ELSE "SEND_PACKET"
                       /\ first' = FALSE /\ send_position' = send_position + 1
<1>1. M!SendPacket(i)
  BY DEF M!Clock, M!WaitForData, M!WaitToSend, M!WaitForAck
<1>2. /\ send_position \in Nat /\ Len(sent) \in Nat /\ Len(sent) <= max_packet_size
  BY DEF Types, sent, M!read
<1>3. (send_position + 1) % send_positions = send_position + 1
  BY <1>2, SizeAssumption
<1>4. M!out_last(i) <=> send_position + 1 = Len(sent)
  BY DEF M!out_last, M!sends_zlp, M!read_fill_count, sent
<1>5. QED
  BY <1>1, <1>3, <1>4, BuffersFilled DEF M!SendPacket, M!read, M!write, Kept, sent, filling

LEMMA WaitForAckClock ==
  ASSUME Types, NEW i, Plain(i), M!Clock(i), state = "WAIT_FOR_ACK"
  PROVE  /\ ~i.ack => Kept(i) /\ state' = IF i.new_token THEN "WAIT_TO_SEND" ELSE state
         /\ i.ack /\ ~i.new_token /\ M!zlp_due =>
              Freed(i) /\ data_pid' = 1 - data_pid /\ state' = "WAIT_TO_SEND"
         /\ i.ack /\ ~i.new_token /\ ~M!zlp_due /\ M!next_packet_waiting(i) =>
              Swapped(i) /\ state' = "WAIT_TO_SEND"
         /\ i.ack /\ ~i.new_token /\ ~M!zlp_due /\ ~M!next_packet_waiting(i) =>
              Freed(i) /\ data_pid' = data_pid /\ state' = "WAIT_FOR_DATA"
         /\ send_position' = send_position /\ first' = first
<1>1. M!WaitForAck(i)
  BY DEF M!Clock, M!WaitForData, M!WaitToSend, M!SendPacket
<1>2. QED
  BY <1>1, BuffersFilled
     DEF M!WaitForAck, M!StateAfter, M!FreedBuffers, M!read, M!write, Plain, Swapped, Kept,
         Freed, sent, filling

---------------------------------------------------------------------------
(* The five things a step can do to the bytes *)

HostIdle == UNCHANGED <<host_toggle, delivered, cuts>>

\* Fewer bytes than a packet wait to be sent.
Keeps(i) ==
  /\ Kept(i) /\ HostIdle
  /\ state' = "WAIT_FOR_DATA" <=> state = "WAIT_FOR_DATA"
  /\ state = "WAIT_FOR_DATA" => ~M!packet_ready(i)
\* The filled packet is the next one to send: nothing was, or the host has ACKed it.
Swaps(i) ==
  /\ Swapped(i) /\ HostIdle /\ state' = "WAIT_TO_SEND" /\ Taken
  /\ \/ state = "WAIT_FOR_DATA" /\ M!packet_ready(i)
     \/ Acknowledged /\ ~M!zlp_due /\ M!next_packet_waiting(i)
\* The ACKed packet is followed by an empty one ...
Closes(i) ==
  /\ Freed(i) /\ data_pid' = 1 - data_pid /\ HostIdle /\ state' = "WAIT_TO_SEND"
  /\ Taken /\ Acknowledged /\ M!zlp_due
\* ... or by nothing for now.
Rests(i) ==
  /\ Freed(i) /\ data_pid' = data_pid /\ HostIdle /\ state' = "WAIT_FOR_DATA"
  /\ Taken /\ Acknowledged /\ ~M!zlp_due /\ ~M!next_packet_waiting(i)
\* The host takes the packet.
HostTakes(i) ==
  /\ Kept(i) /\ ~Taken /\ state = "WAIT_FOR_ACK" /\ state' = state
  /\ host_toggle' = 1 - host_toggle
  /\ delivered' = delivered \o sent /\ cuts' = Append(cuts, Len(delivered) + Len(sent))

DataStep(i) ==
  /\ Plain(i) /\ Produce(i)
  /\ Keeps(i) \/ Swaps(i) \/ Closes(i) \/ Rests(i) \/ HostTakes(i)

\* A clock without an ACK for a packet that waits for one.
LEMMA ClockWithoutAck ==
  ASSUME IInv, NEW i, Plain(i), M!Clock(i), ~i.ack \/ state # "WAIT_FOR_ACK", HostIdle
  PROVE  Keeps(i) \/ Swaps(i)
<1>1. CASE state = "WAIT_FOR_DATA"
  BY <1>1, WaitForDataClock DEF IInv, Resting, Keeps, Swaps
<1>2. CASE state = "WAIT_TO_SEND"
  <2>1. Kept(i) /\ state' # "WAIT_FOR_DATA"
    BY <1>2, WaitToSendClock, InputsArePlain DEF IInv
  <2>2. QED BY <1>2, <2>1 DEF Keeps
<1>3. CASE state = "SEND_PACKET"
  <2>1. send_position < Len(sent)
    BY <1>3 DEF IInv, InStep, Sending, Closing
  <2>2. Kept(i) /\ state' # "WAIT_FOR_DATA"
    BY <1>3, <2>1, SendPacketClock DEF IInv
  <2>3. QED BY <1>3, <2>2 DEF Keeps
<1>4. CASE state = "WAIT_FOR_ACK"
  BY <1>4, WaitForAckClock DEF Keeps, IInv
<1>5. QED BY <1>1, <1>2, <1>3, <1>4 DEF IInv, Types

\* The clock in which the ACK of the packet arrives.
LEMMA ClockWithAck ==
  ASSUME IInv, NEW i, Plain(i), M!Clock(i), i.ack, ~i.new_token, wire = "ack", wire' = "quiet",
         HostIdle
  PROVE  Swaps(i) \/ Closes(i) \/ Rests(i)
<1>1. state = "WAIT_FOR_ACK" /\ Taken
  BY DEF IInv, InStep
<1>2. Acknowledged
  BY <1>1 DEF Acknowledged
<1>3. QED
  BY <1>1, <1>2, WaitForAckClock DEF IInv, Swaps, Closes, Rests

\* The steps that disturb the endpoint are never taken.
LEMMA NothingDisturbs ==
  ASSUME Undisturbed, IInv
  PROVE  ~ForeignAck /\ ~ControlToken /\ ~ClearHalt
<1>1. ~ForeignAck
  BY DEF Undisturbed, ForeignAck
<1>2. MaxHalts = 0 /\ halts_cleared = 0 /\ wire # "control"
  BY DEF Undisturbed, IInv, Types
<1>3. ~(halts_cleared < MaxHalts)
  BY <1>2
<1>4. QED BY <1>1, <1>2, <1>3 DEF ControlToken, ClearHalt

\* Every step of the system is one of the five.
LEMMA StepsMoveData ==
  ASSUME Undisturbed, IInv, Next
  PROVE  \E i : DataStep(i)
<1>1. ASSUME NEW strobe, NEW r \in BOOLEAN, NEW i \in InputsFor(strobe, r), DeviceClock(i, r),
             HostIdle, strobe \in {"none", "token", "in"}
      PROVE  DataStep(i)
  BY <1>1, InputsArePlain, ClockWithoutAck DEF DeviceClock, DataStep
<1>2. CASE QuietClock
  BY <1>1, <1>2 DEF QuietClock, HostUnmoved, hostVars, HostIdle
<1>3. CASE AskIn
  BY <1>1, <1>3 DEF AskIn, HostUnmoved, hostVars, HostIdle
<1>4. CASE Answer
  BY <1>1, <1>4 DEF Answer, HostIdle
<1>5. CASE AskElsewhere
  BY <1>1, <1>5 DEF AskElsewhere, HostUnmoved, hostVars, HostIdle
<1>6. CASE AckElsewhere
  <2>1. PICK i \in InputsFor("ack", FALSE) : DeviceClock(i, FALSE)
    BY <1>6 DEF AckElsewhere
  <2>2. state # "WAIT_FOR_ACK"
    BY <1>6 DEF AckElsewhere, IInv, InStep
  <2>3. HostIdle
    BY <1>6 DEF AckElsewhere, HostUnmoved, hostVars, HostIdle
  <2>4. QED BY <2>1, <2>2, <2>3, InputsArePlain, ClockWithoutAck DEF DeviceClock, DataStep
<1>7. ASSUME NEW r \in BOOLEAN, Transmit(r) PROVE \E i : DataStep(i)
  BY <1>1, <1>7 DEF Transmit, HostIdle
<1>8. CASE HostReceives
  <2>1. PICK i \in InputsFor("none", TRUE) : DeviceClock(i, TRUE)
    BY <1>8 DEF HostReceives, EndOfPacket
  <2>2. CASE HostIdle
    BY <1>1, <2>1, <2>2
  <2>3. CASE ~HostIdle
    <3>1. /\ wire = "answer" /\ tx_state = "SEND_CRC_SECOND" /\ packet_pid = host_toggle
          /\ delivered' = delivered \o incoming
          /\ cuts' = Append(cuts, Len(delivered) + Len(incoming))
          /\ host_toggle' = 1 - host_toggle
      BY <1>8, <2>3 DEF HostReceives, EndOfPacket, HostIdle
    <3>2. Closing /\ \A k \in 1 .. Len(incoming) : incoming[k] = sent[k]
      BY <3>1 DEF IInv, InStep, Sending
    <3>3. incoming \in Seq(Nat) /\ sent \in Seq(Nat) /\ Len(incoming) = Len(sent)
      BY <3>2, BuffersFilled, <2>1, InputsArePlain DEF IInv, Types, sent, Closing
    <3>4. incoming = sent
      BY <3>2, <3>3, SeqEqual
    <3>5. state = "WAIT_FOR_ACK" /\ ~Taken
      BY <3>1, <3>2 DEF Closing, Taken
    <3>6. Plain(i) /\ ~i.ack /\ ~i.new_token
      BY <2>1, InputsArePlain
    <3>7. Kept(i) /\ state' = state
      BY <2>1, <3>5, <3>6, WaitForAckClock DEF DeviceClock, IInv
    <3>8. HostTakes(i)
      BY <3>1, <3>4, <3>5, <3>7 DEF HostTakes
    <3>9. QED BY <2>1, <3>6, <3>8 DEF DataStep, DeviceClock
  <2>4. QED BY <2>2, <2>3
<1>9. CASE HostMisses
  BY <1>1, <1>9 DEF HostMisses, EndOfPacket, HostIdle
<1>10. CASE AckArrives
  <2>1. PICK i \in InputsFor("ack", FALSE) : DeviceClock(i, FALSE)
    BY <1>10 DEF AckArrives
  <2>2. HostIdle /\ wire = "ack" /\ wire' = "quiet"
    BY <1>10 DEF AckArrives, HostUnmoved, hostVars, HostIdle
  <2>3. Plain(i) /\ i.ack /\ ~i.new_token
    BY <2>1, InputsArePlain
  <2>4. QED BY <2>1, <2>2, <2>3, ClockWithAck DEF DeviceClock, DataStep
<1>11. CASE AckLost
  BY <1>1, <1>11 DEF AckLost, HostUnmoved, hostVars, HostIdle
<1>12. ~ForeignAck /\ ~ControlToken /\ ~ClearHalt
  BY NothingDisturbs
<1>13. QED
  BY <1>2, <1>3, <1>4, <1>5, <1>6, <1>7, <1>8, <1>9, <1>10, <1>11, <1>12 DEF Next

---------------------------------------------------------------------------
(* No step loses, repeats or reorders a byte *)

\* The numbers the lemmas below compute with.
LEMMA Counts ==
  ASSUME Types
  PROVE  /\ sent \in Seq(Nat) /\ filling \in Seq(Nat) /\ delivered \in Seq(Nat)
         /\ Len(sent) \in Nat /\ Len(filling) \in Nat /\ Len(delivered) \in Nat
         /\ accepted \in Nat /\ Base \in Int
         /\ data_pid \in {0, 1} /\ host_toggle \in {0, 1} /\ buffer_toggle \in {0, 1}
<1>1. /\ sent \in Seq(Nat) /\ filling \in Seq(Nat) /\ delivered \in Seq(Nat)
      /\ accepted \in Nat
      /\ data_pid \in {0, 1} /\ host_toggle \in {0, 1} /\ buffer_toggle \in {0, 1}
  BY DEF Types, sent, filling, M!read, M!write
<1>2. Len(sent) \in Nat /\ Len(filling) \in Nat /\ Len(delivered) \in Nat
  BY <1>1
<1>3. QED BY <1>1, <1>2 DEF Base

\* The filled buffer continues the sent packet.
LEMMA FilledAccounted ==
  ASSUME Types, Accounted, NEW i, Plain(i), Produce(i)
  PROVE  /\ Base + Len(sent) + Len(Filled(i)) = accepted'
         /\ \A k \in 1 .. Len(Filled(i)) : Filled(i)[k] = Base + Len(sent) + k
<1>1. /\ Base + Len(sent) + Len(filling) = accepted
      /\ \A k \in 1 .. Len(filling) : filling[k] = Base + Len(sent) + k
  BY DEF Accounted
<1>2. accepted' = IF M!byte_accepted(i) THEN accepted + 1 ELSE accepted
  BY DEF Produce
<1>3. Base + Len(sent) + Len(Filled(i)) = accepted'
  BY <1>1, <1>2, Counts, FilledFits
<1>4. ASSUME NEW k \in 1 .. Len(Filled(i))
      PROVE  Filled(i)[k] = Base + Len(sent) + k
  <2>1. CASE k <= Len(filling)
    BY <1>1, <2>1, Counts, FilledFits
  <2>2. CASE k > Len(filling)
    <3>1. M!byte_accepted(i) /\ k = Len(filling) + 1
      <4>1. Len(Filled(i)) = Len(filling) + (IF M!byte_accepted(i) THEN 1 ELSE 0)
        BY FilledFits
      <4>2. k \in Nat /\ k <= Len(Filled(i)) /\ Len(filling) \in Nat
        BY <4>1, Counts
      <4>3. QED BY <2>2, <4>1, <4>2
    <3>2. Filled(i)[k] = accepted + 1
      BY <3>1, FilledFits
    <3>3. QED BY <1>1, <3>1, <3>2, Counts
  <2>3. QED BY <2>1, <2>2, Counts
<1>5. QED BY <1>3, <1>4

LEMMA KeepsAccounted ==
  ASSUME Types, Accounted, NEW i, Plain(i), Produce(i), Keeps(i)
  PROVE  Accounted'
<1>1. Base' = Base
  BY DEF Base, Taken, Keeps, Kept, HostIdle
<1>2. QED
  BY <1>1, FilledAccounted DEF Accounted, Keeps, Kept, HostIdle

LEMMA SwapsAccounted ==
  ASSUME Types, Accounted, NEW i, Plain(i), Produce(i), Swaps(i)
  PROVE  Accounted'
<1>1. ~Taken'
  BY Counts DEF Taken, Swaps, Swapped, HostIdle
<1>2. Base' = Len(delivered) /\ Len(delivered) = Base + Len(sent)
  BY <1>1, Counts DEF Base, Swaps, HostIdle
<1>3. sent' = Filled(i) /\ filling' = << >> /\ delivered' = delivered
  BY DEF Swaps, Swapped, HostIdle
<1>4. \A k \in 1 .. Len(Filled(i)) : Filled(i)[k] = Base' + k
  BY <1>2, FilledAccounted
<1>5. Base' >= 0 /\ Base' + Len(sent') + Len(filling') = accepted'
  BY <1>2, <1>3, Counts, FilledAccounted, FilledFits
<1>6. QED
  BY <1>3, <1>4, <1>5 DEF Accounted

LEMMA FreedAccounted ==
  ASSUME Types, Accounted, NEW i, Plain(i), Produce(i), Closes(i) \/ Rests(i)
  PROVE  Accounted'
<1>1. sent' = << >> /\ filling' = Filled(i) /\ delivered' = delivered /\ Taken
  BY DEF Closes, Rests, Freed, HostIdle
<1>2. Base' = Len(delivered) /\ Len(delivered) = Base + Len(sent)
  BY <1>1, Counts DEF Base
<1>3. QED
  BY SMTT(30), <1>1, <1>2, Counts, FilledAccounted, FilledFits DEF Accounted

LEMMA HostTakesAccounted ==
  ASSUME Types, Accounted, NEW i, Plain(i), Produce(i), HostTakes(i)
  PROVE  Accounted'
<1>1. /\ Len(delivered') = Len(delivered) + Len(sent)
      /\ \A k \in 1 .. Len(delivered) + Len(sent) :
           delivered'[k] = IF k <= Len(delivered) THEN delivered[k] ELSE sent[k - Len(delivered)]
  BY Counts, ConcatProperties DEF HostTakes
<1>2. Taken'
  BY Counts DEF HostTakes, Kept, Taken
<1>3. Base = Len(delivered) /\ Base' = Base
  BY <1>1, <1>2, Counts DEF Base, HostTakes, Kept
<1>4. ASSUME NEW k \in 1 .. Len(delivered') PROVE delivered'[k] = k
  <2>1. CASE k <= Len(delivered)
    <3>1. delivered'[k] = delivered[k] /\ k \in 1 .. Len(delivered)
      BY <1>1, <2>1, Counts
    <3>2. QED BY <3>1 DEF Accounted
  <2>2. CASE k > Len(delivered)
    <3>1. k - Len(delivered) \in 1 .. Len(sent) /\ delivered'[k] = sent[k - Len(delivered)]
      BY <1>1, <2>2, Counts
    <3>2. QED BY <1>3, <3>1, Counts DEF Accounted
  <2>3. QED BY <1>1, <2>1, <2>2, Counts
<1>5. QED
  BY <1>3, <1>4, FilledAccounted DEF Accounted, HostTakes, Kept

\* When nothing is due, there is room for the next byte.
LEMMA StepsRest ==
  ASSUME Types, Resting, NEW i, DataStep(i)
  PROVE  Resting'
<1>1. ASSUME M!in_ready, ~M!packet_ready(i), filling' = Filled(i),
             stream_ended'[M!write'] = Ended(i)
      PROVE  M!in_ready'
  <2>1. Len(Filled(i)) # max_packet_size
    <3>1. Len(filling) # max_packet_size
      BY <1>1 DEF M!in_ready, M!write_fill_count, filling
    <3>2. M!byte_accepted(i) => Len(filling) + 1 # max_packet_size
      BY <1>1 DEF M!packet_ready, M!byte_accepted, M!write_fill_count, filling, Plain, DataStep
    <3>3. QED BY <3>1, <3>2, Counts, FilledFits DEF DataStep
  <2>2. ~Ended(i)
    BY <1>1 DEF Ended, M!in_ready, M!packet_ready, M!byte_accepted, Plain, DataStep
  <2>3. QED BY <1>1, <2>1, <2>2 DEF M!in_ready, M!write_fill_count, filling
<1>2. CASE Keeps(i)
  BY <1>1, <1>2 DEF Resting, Keeps, Kept, HostIdle, Taken
<1>3. CASE Swaps(i) \/ Closes(i) \/ HostTakes(i)
  BY <1>3 DEF Resting, Swaps, Closes, HostTakes
<1>4. CASE Rests(i)
  <2>1. M!in_ready /\ ~M!packet_ready(i)
    BY <1>4 DEF Rests, M!next_packet_waiting
  <2>2. QED BY <1>1, <1>4, <2>1 DEF Resting, Rests, Freed, HostIdle, Taken
<1>5. QED BY <1>2, <1>3, <1>4 DEF DataStep

---------------------------------------------------------------------------
(* The registers stay in their ranges *)

LEMMA ManagerTypes ==
  ASSUME Types, NEW i, Plain(i), M!Clock(i), state = "SEND_PACKET" => send_position < Len(sent)
  PROVE  /\ state' \in {"WAIT_FOR_DATA", "WAIT_TO_SEND", "SEND_PACKET", "WAIT_FOR_ACK"}
         /\ buffer_toggle' \in {0, 1} /\ data_pid' \in {0, 1}
         /\ buffer' \in [{0, 1} -> Seq(Nat)] /\ stream_ended' \in [{0, 1} -> BOOLEAN]
         /\ send_position' \in Nat /\ first' \in BOOLEAN /\ read_adr' \in [{0, 1} -> Nat]
         /\ read_adr'[M!read] = IF state = "SEND_PACKET" /\ i.ready
                               THEN send_position + 1 ELSE send_position
<1>1. send_position \in Nat /\ first \in BOOLEAN /\ Len(sent) \in Nat
  BY Counts DEF Types
<1>2. /\ read_adr' \in [{0, 1} -> Nat]
      /\ read_adr'[M!read] = IF state = "SEND_PACKET" /\ i.ready
                            THEN send_position + 1 ELSE send_position
  <2>1. M!ReadPorts(i)
    BY DEF M!Clock
  <2>2. QED BY <1>1, <2>1, BuffersFilled DEF M!ReadPorts, M!Buffers
<1>3. M!FilledBuffers(i) \in [{0, 1} -> Seq(Nat)] /\ M!FreedBuffers(i) \in [{0, 1} -> Seq(Nat)]
  BY BuffersFilled, EmptySeq DEF M!FreedBuffers
<1>4. /\ M!EndedStreams(i) \in [{0, 1} -> BOOLEAN]
      /\ [M!EndedStreams(i) EXCEPT ![M!read] = FALSE] \in [{0, 1} -> BOOLEAN]
  BY BuffersFilled
<1>5. CASE state = "WAIT_FOR_DATA"
  <2>1. M!WaitForData(i)
    BY <1>5 DEF M!Clock, M!WaitToSend, M!SendPacket, M!WaitForAck
  <2>2. /\ buffer' = M!FilledBuffers(i) /\ send_position' = send_position /\ first' = first
        /\ data_pid' \in {M!ToggledPid(i), M!HeldPid(i)}
        /\ stream_ended' \in {M!EndedStreams(i), [M!EndedStreams(i) EXCEPT ![M!read] = FALSE]}
        /\ state' \in {"WAIT_TO_SEND", state} /\ buffer_toggle' \in {M!read, buffer_toggle}
    BY <2>1 DEF M!WaitForData
  <2>3. QED BY SMTT(30), <1>1, <1>2, <1>4, <1>5, <2>2, BuffersFilled
<1>6. CASE state = "WAIT_TO_SEND"
  <2>1. M!WaitToSend(i)
    BY <1>6 DEF M!Clock, M!WaitForData, M!SendPacket, M!WaitForAck
  <2>2. /\ stream_ended' \in [{0, 1} -> BOOLEAN] /\ buffer' \in [{0, 1} -> Seq(Nat)]
        /\ send_position' \in Nat
    BY <1>4, <2>1, BuffersFilled DEF M!WaitToSend
  <2>3. QED BY <1>1, <1>2, <1>6, <2>1, <2>2, BuffersFilled DEF M!WaitToSend, Plain
<1>7. CASE state = "SEND_PACKET"
  <2>1. M!SendPacket(i)
    BY <1>7 DEF M!Clock, M!WaitForData, M!WaitToSend, M!WaitForAck
  <2>2. /\ send_position' \in {send_position, send_position + 1}
        /\ state' \in {"SEND_PACKET", "WAIT_FOR_ACK"} /\ first' \in BOOLEAN
    BY <1>1, <1>7, SendPacketClock
  <2>3. /\ buffer' = M!FilledBuffers(i) /\ stream_ended' = M!EndedStreams(i)
        /\ data_pid' = M!HeldPid(i) /\ buffer_toggle' = buffer_toggle
    BY <2>1 DEF M!SendPacket
  <2>4. QED BY <1>1, <1>2, <1>4, <2>2, <2>3, BuffersFilled
<1>8. CASE state = "WAIT_FOR_ACK"
  <2>1. M!WaitForAck(i)
    BY <1>8 DEF M!Clock, M!WaitForData, M!WaitToSend, M!SendPacket
  <2>2. state' \in {"WAIT_FOR_DATA", "WAIT_TO_SEND", "SEND_PACKET", "WAIT_FOR_ACK"}
    BY <1>8, <2>1 DEF M!WaitForAck, M!StateAfter
  <2>3. /\ buffer' \in {M!FilledBuffers(i), M!FreedBuffers(i)}
        /\ send_position' = send_position /\ first' = first
        /\ data_pid' \in {M!ToggledPid(i), M!HeldPid(i)}
        /\ stream_ended' \in {M!EndedStreams(i), [M!EndedStreams(i) EXCEPT ![M!read] = FALSE]}
        /\ buffer_toggle' \in {M!read, buffer_toggle}
    BY <2>1 DEF M!WaitForAck
  <2>4. buffer' \in [{0, 1} -> Seq(Nat)] /\ stream_ended' \in [{0, 1} -> BOOLEAN]
    BY <1>3, <1>4, <2>3
  <2>5. data_pid' \in {0, 1} /\ buffer_toggle' \in {0, 1}
    BY <2>3, BuffersFilled
  <2>6. QED BY <1>1, <1>2, <2>2, <2>3, <2>4, <2>5
<1>9. QED BY <1>5, <1>6, <1>7, <1>8 DEF Types

LEMMA GeneratorTypes ==
  ASSUME Types, NEW l, NEW v, NEW r, G!Clock(data_pid, first, l, v, r)
  PROVE  /\ tx_state' \in {"IDLE", "SEND_PID", "SEND_PAYLOAD", "SEND_CRC_FIRST",
                           "SEND_CRC_SECOND"}
         /\ packet_pid' \in {0, 1} /\ is_zlp' \in BOOLEAN
<1>1. /\ packet_pid \in {0, 1} /\ data_pid \in {0, 1} /\ is_zlp \in BOOLEAN
      /\ tx_state \in {"IDLE", "SEND_PID", "SEND_PAYLOAD", "SEND_CRC_FIRST", "SEND_CRC_SECOND"}
  BY DEF Types
<1>2. CASE G!Idle(data_pid, first, l, v)
  BY <1>1, <1>2 DEF G!Idle
<1>3. CASE G!SendPid \/ G!SendPayload(l, v) \/ G!SendCrcFirst \/ G!SendCrcSecond
  BY <1>1, <1>3 DEF G!SendPid, G!SendPayload, G!SendCrcFirst, G!SendCrcSecond
<1>4. CASE UNCHANGED G!vars
  BY <1>1, <1>4 DEF G!vars
<1>5. QED BY <1>2, <1>3, <1>4 DEF G!Clock

\* No packet outgrows max_packet_size.
LEMMA PacketsFit ==
  ASSUME Types, NEW i, DataStep(i)
  PROVE  Len(sent') <= max_packet_size /\ Len(filling') <= max_packet_size
<1>1. Len(sent) <= max_packet_size /\ 0 <= max_packet_size
  BY SizeAssumption DEF Types
<1>2. Len(Filled(i)) <= max_packet_size
  BY FilledFits DEF DataStep
<1>3. QED
  BY <1>1, <1>2
     DEF DataStep, Keeps, Swaps, Closes, Rests, HostTakes, Kept, Swapped, Freed

LEMMA DeviceTypes ==
  ASSUME Undisturbed, IInv, NEW strobe, strobe # "reset", NEW r \in BOOLEAN,
         NEW i \in InputsFor(strobe, r), DeviceClock(i, r)
  PROVE  /\ state' \in {"WAIT_FOR_DATA", "WAIT_TO_SEND", "SEND_PACKET", "WAIT_FOR_ACK"}
         /\ buffer_toggle' \in {0, 1} /\ data_pid' \in {0, 1}
         /\ buffer' \in [{0, 1} -> Seq(Nat)] /\ stream_ended' \in [{0, 1} -> BOOLEAN]
         /\ send_position' \in Nat /\ first' \in BOOLEAN /\ read_adr' \in [{0, 1} -> Nat]
         /\ tx_state' \in {"IDLE", "SEND_PID", "SEND_PAYLOAD", "SEND_CRC_FIRST",
                           "SEND_CRC_SECOND"}
         /\ packet_pid' \in {0, 1} /\ is_zlp' \in BOOLEAN
         /\ accepted' \in Nat /\ ends' \in SUBSET Nat
<1>1. Plain(i)
  BY InputsArePlain
<1>2. state = "SEND_PACKET" => send_position < Len(sent)
  BY DEF IInv, InStep, Sending, Closing
<1>3. accepted \in Nat /\ ends \in SUBSET Nat
  BY DEF IInv, Types
<1>4. accepted' \in Nat /\ ends' \in SUBSET Nat
  BY <1>3 DEF DeviceClock, Produce
<1>5. QED BY <1>1, <1>2, <1>4, ManagerTypes, GeneratorTypes DEF DeviceClock, IInv

---------------------------------------------------------------------------
(* Manager, generator and host stay in step *)

\* A clock in which no packet is under way and none is asked for.
LEMMA CalmClock ==
  ASSUME IInv, NEW i, Plain(i), DeviceClock(i, FALSE), wire # "answer", ~i.in_token
  PROVE  /\ tx_state' = "IDLE" /\ state' # "SEND_PACKET" /\ ~first'
         /\ state' = "WAIT_FOR_ACK" => state = "WAIT_FOR_ACK" /\ ~i.new_token
         /\ state = "WAIT_FOR_ACK" /\ ~i.new_token /\ ~i.ack =>
              state' = "WAIT_FOR_ACK" /\ data_pid' = data_pid
<1>1. tx_state = "IDLE" /\ state # "SEND_PACKET" /\ ~first
  BY DEF IInv, InStep
<1>2. tx_state' = "IDLE"
  <2>1. ~M!out_valid(i)
    BY <1>1 DEF M!out_valid, M!sends_zlp
  <2>2. QED
    BY <1>1, <2>1
       DEF DeviceClock, G!Clock, G!Idle, G!SendPid, G!SendPayload, G!SendCrcFirst,
           G!SendCrcSecond, G!vars
<1>3. CASE state = "WAIT_FOR_DATA"
  BY <1>1, <1>2, <1>3, WaitForDataClock DEF IInv, DeviceClock
<1>4. CASE state = "WAIT_TO_SEND"
  BY <1>1, <1>2, <1>4, WaitToSendClock DEF IInv, DeviceClock
<1>5. CASE state = "WAIT_FOR_ACK"
  <2>1. /\ first' = first /\ state' # "SEND_PACKET"
        /\ i.new_token => state' # "WAIT_FOR_ACK"
        /\ ~i.new_token /\ ~i.ack => state' = "WAIT_FOR_ACK" /\ data_pid' = data_pid
    <3>1. M!WaitForAck(i)
      BY <1>5 DEF DeviceClock, M!Clock, M!WaitForData, M!WaitToSend, M!SendPacket
    <3>2. QED BY <1>5, <3>1 DEF M!WaitForAck, M!StateAfter, M!HeldPid, Plain
  <2>2. QED BY <1>1, <1>2, <1>5, <2>1
<1>6. QED BY <1>1, <1>3, <1>4, <1>5 DEF IInv, Types

\* The endpoint answers an IN token.
LEMMA AnswerInStep ==
  ASSUME Undisturbed, IInv, Answer
  PROVE  InStep' /\ incoming' \in Seq(Nat)
<1>1. PICK i \in InputsFor("in", FALSE) :
        DeviceClock(i, FALSE) /\ wire' = IF M!nak(i) \/ i.discard THEN "quiet" ELSE "answer"
  BY DEF Answer
<1>2. Plain(i) /\ i.in_token
  BY <1>1, InputsArePlain
<1>3. /\ tx_state = "IDLE" /\ state \in {"WAIT_FOR_DATA", "WAIT_TO_SEND"} /\ ~first
      /\ incoming' = << >> /\ Len(incoming') = 0
  BY DEF Answer, IInv, InStep, Types
<1>4. CASE state = "WAIT_FOR_DATA"
  <2>1. wire' = "quiet"
    BY <1>1, <1>2, <1>4 DEF M!nak
  <2>2. ~M!out_valid(i)
    BY <1>4 DEF M!out_valid, M!sends_zlp
  <2>3. tx_state' = "IDLE"
    BY <1>1, <1>3, <2>2
       DEF DeviceClock, G!Clock, G!Idle, G!SendPid, G!SendPayload, G!SendCrcFirst,
           G!SendCrcSecond, G!vars
  <2>4. state' # "SEND_PACKET" /\ ~first'
    BY <1>1, <1>2, <1>3, <1>4, WaitForDataClock DEF DeviceClock, IInv
  <2>5. QED BY <1>3, <2>1, <2>3, <2>4 DEF InStep
<1>5. CASE state = "WAIT_TO_SEND"
  <2>1. wire' = "answer"
    BY <1>1, <1>2, <1>5 DEF M!nak, Plain
  <2>2. Kept(i) /\ send_position' = 0 /\ data_pid' = data_pid /\ sent' = sent
    BY <1>1, <1>2, <1>5, WaitToSendClock DEF DeviceClock, IInv, Kept
  <2>3. CASE Len(sent) = 0
    <3>1. state' = "WAIT_FOR_ACK" /\ first' = first
      BY <1>1, <1>2, <1>5, <2>3, WaitToSendClock DEF DeviceClock, IInv
    <3>2. M!sends_zlp(i)
      BY <1>2, <1>5, <2>3 DEF M!sends_zlp, M!read_fill_count, Plain, sent
    <3>3. tx_state' = "SEND_PID" /\ is_zlp' = TRUE /\ packet_pid' = data_pid
      BY <1>1, <1>3, <3>2
         DEF DeviceClock, G!Clock, G!Idle, G!SendPid, G!SendPayload, G!SendCrcFirst,
             G!SendCrcSecond, G!vars, M!out_valid, M!out_last
    <3>4. Closing'
      BY <1>3, <2>2, <2>3, <3>1, <3>3 DEF Closing
    <3>5. QED BY <1>3, <2>1, <3>4 DEF InStep
  <2>4. CASE Len(sent) # 0
    <3>1. state' = "SEND_PACKET" /\ first' = TRUE
      BY <1>1, <1>2, <1>5, <2>4, WaitToSendClock DEF DeviceClock, IInv
    <3>2. ~M!out_valid(i)
      BY <1>5, <2>4 DEF M!out_valid, M!sends_zlp, M!read_fill_count, sent
    <3>3. tx_state' = "IDLE"
      BY <1>1, <1>3, <3>2
         DEF DeviceClock, G!Clock, G!Idle, G!SendPid, G!SendPayload, G!SendCrcFirst,
             G!SendCrcSecond, G!vars
    <3>4. Sending'
      BY <1>3, <2>2, <2>4, <3>1, <3>3, Counts DEF Sending, IInv
    <3>5. QED BY <1>3, <2>1, <3>4 DEF InStep
  <2>5. QED BY <2>3, <2>4
<1>6. QED BY <1>3, <1>4, <1>5

\* The transceiver takes a byte of the answer or makes it wait.
LEMMA TransmitInStep ==
  ASSUME Undisturbed, IInv, NEW r \in BOOLEAN, Transmit(r)
  PROVE  InStep' /\ incoming' \in Seq(Nat)
<1>1. PICK i \in InputsFor("none", r) :
        /\ DeviceClock(i, r)
        /\ incoming' = IF i.ready /\ M!out_valid(i) /\ Len(incoming) <= max_packet_size
                       THEN Append(incoming, M!out_payload) ELSE incoming
  BY DEF Transmit
<1>2. /\ Plain(i) /\ ~i.in_token /\ ~i.new_token /\ ~i.ack
      /\ i.ready <=> tx_state = "SEND_PAYLOAD" /\ r
  <2>1. Plain(i) /\ ~i.in_token /\ ~i.new_token /\ ~i.ack /\ (i.ready <=> G!stream_ready(r))
    BY <1>1, InputsArePlain
  <2>2. QED BY <2>1 DEF G!stream_ready
<1>3. /\ wire' = "answer" /\ (r => tx_state # "SEND_CRC_SECOND")
      /\ Sending \/ Closing
      /\ \A k \in 1 .. Len(incoming) : incoming[k] = sent[k]
      /\ incoming \in Seq(Nat) /\ Len(incoming) \in Nat
  BY DEF Transmit, IInv, InStep, Types
<1>4. /\ M!Clock(i) /\ G!Clock(data_pid, first, M!out_last(i), M!out_valid(i), r)
      /\ ~M!sends_zlp(i)
  BY <1>1, <1>2 DEF DeviceClock, M!sends_zlp
<1>5. /\ sent \in Seq(Nat) /\ Len(sent) \in Nat /\ Len(sent) <= max_packet_size
      /\ data_pid \in {0, 1} /\ send_position \in Nat
  BY Counts DEF IInv, Types
<1>6. CASE Sending
  <2>1. state = "SEND_PACKET" /\ send_position < Len(sent) /\ M!out_valid(i)
    BY <1>6 DEF Sending, M!out_valid
  <2>2. /\ Kept(i) /\ data_pid' = data_pid /\ sent' = sent /\ M!read' = M!read
        /\ read_adr'[M!read] = IF i.ready THEN send_position + 1 ELSE send_position
    BY <1>2, <1>4, <2>1, SendPacketClock, ManagerTypes DEF IInv, Kept, M!read
  <2>3. M!out_last(i) <=> send_position + 1 = Len(sent)
    BY <1>4, <2>1 DEF M!out_last, M!read_fill_count, sent
  <2>4. CASE tx_state = "SEND_PAYLOAD" /\ r
    <3>1. i.ready /\ read_adr[M!read] = send_position /\ packet_pid = data_pid
      BY <1>2, <1>6, <2>4 DEF Sending
    <3>2. M!out_payload = sent[send_position + 1] /\ M!out_payload \in Nat
      <4>1. M!out_payload = sent[send_position + 1]
        BY <2>1, <3>1 DEF M!out_payload, M!read_fill_count, sent
      <4>2. QED BY <1>5, <2>1, <4>1, ElementOfSeq
    <3>3. Len(incoming) = send_position
      BY <1>6 DEF Sending
    <3>4. incoming' = Append(incoming, sent[send_position + 1])
      BY <1>1, <1>5, <2>1, <3>1, <3>2, <3>3, SizeAssumption
    <3>5. /\ incoming' \in Seq(Nat) /\ Len(incoming') = send_position + 1
          /\ \A k \in 1 .. Len(incoming') : incoming'[k] = sent'[k]
      BY <1>3, <1>5, <2>2, <3>2, <3>3, <3>4, AppendProperties
    <3>6. /\ first' = FALSE /\ send_position' = send_position + 1
          /\ state' = IF send_position + 1 = Len(sent) THEN "WAIT_FOR_ACK" ELSE "SEND_PACKET"
      BY <1>2, <1>4, <2>1, <3>1, SendPacketClock DEF IInv
    <3>7. /\ tx_state' = IF M!out_last(i) THEN "SEND_CRC_FIRST" ELSE "SEND_PAYLOAD"
          /\ packet_pid' = packet_pid
      BY <1>4, <2>1, <2>4
         DEF G!Clock, G!Idle, G!SendPid, G!SendPayload, G!SendCrcFirst, G!SendCrcSecond, G!vars
    <3>8. Sending' \/ Closing'
      BY <1>5, <2>1, <2>2, <2>3, <3>1, <3>5, <3>6, <3>7 DEF Sending, Closing
    <3>9. QED BY <1>3, <3>5, <3>8 DEF InStep
  <2>5. CASE ~(tx_state = "SEND_PAYLOAD" /\ r)
    <3>1. ~i.ready /\ incoming' = incoming
      BY <1>1, <1>2, <2>5
    <3>2. state' = "SEND_PACKET" /\ first' = first /\ send_position' = send_position
      BY <1>2, <1>4, <2>1, <3>1, SendPacketClock DEF IInv
    <3>3. Sending'
      BY <1>4, <1>6, <2>1, <2>2, <2>5, <3>1, <3>2
         DEF Sending, G!Clock, G!Idle, G!SendPid, G!SendPayload, G!SendCrcFirst,
             G!SendCrcSecond, G!vars
    <3>4. QED BY <1>3, <2>2, <3>1, <3>3 DEF InStep
  <2>6. QED BY <2>4, <2>5
<1>7. CASE Closing
  <2>1. state = "WAIT_FOR_ACK" /\ ~M!out_valid(i) /\ tx_state # "SEND_PAYLOAD"
    BY <1>4, <1>7 DEF Closing, M!out_valid
  <2>2. /\ Kept(i) /\ sent' = sent /\ data_pid' = data_pid
        /\ state' = "WAIT_FOR_ACK" /\ first' = first
    BY <1>2, <1>4, <2>1, WaitForAckClock DEF IInv, Kept
  <2>3. incoming' = incoming
    BY <1>1, <2>1
  <2>4. Closing'
    BY <1>3, <1>4, <1>7, <2>1, <2>2, <2>3
       DEF Closing, G!Clock, G!Idle, G!SendPid, G!SendPayload, G!SendCrcFirst,
           G!SendCrcSecond, G!vars
  <2>5. QED BY <1>3, <2>2, <2>3, <2>4 DEF InStep
<1>8. QED BY <1>3, <1>6, <1>7

\* The packet's last byte is out.
LEMMA EndOfPacketInStep ==
  ASSUME Undisturbed, IInv, HostReceives \/ HostMisses
  PROVE  InStep' /\ incoming' \in Seq(Nat)
<1>1. PICK i \in InputsFor("none", TRUE) : DeviceClock(i, TRUE)
  BY DEF HostReceives, HostMisses, EndOfPacket
<1>2. Plain(i) /\ ~i.in_token /\ ~i.new_token /\ ~i.ack
  BY <1>1, InputsArePlain
<1>3. Closing /\ tx_state = "SEND_CRC_SECOND"
  BY DEF HostReceives, HostMisses, EndOfPacket, IInv, InStep, Sending
<1>4. state' = "WAIT_FOR_ACK" /\ ~first' /\ data_pid' = data_pid
  BY <1>1, <1>2, <1>3, WaitForAckClock DEF Closing, DeviceClock, IInv, Kept
<1>5. tx_state' = "IDLE"
  BY <1>1, <1>3
     DEF DeviceClock, G!Clock, G!Idle, G!SendPid, G!SendPayload, G!SendCrcFirst,
         G!SendCrcSecond, G!vars
<1>6. incoming' = << >>
  BY DEF HostReceives, HostMisses
<1>7. CASE HostReceives
  <2>1. wire' = "ack" /\ packet_pid = data_pid
    BY <1>3, <1>7 DEF HostReceives, Closing
  <2>2. Taken'
    BY <1>4, <1>7, <2>1, Counts DEF HostReceives, Taken, IInv
  <2>3. QED BY <1>4, <1>5, <1>6, <2>1, <2>2 DEF InStep
<1>8. CASE HostMisses
  <2>1. wire' = "quiet"
    BY <1>8 DEF HostMisses
  <2>2. QED BY <1>4, <1>5, <1>6, <2>1 DEF InStep
<1>9. QED BY <1>7, <1>8

\* Every step leaves the three of them in step, and the bus in one of its states.
LEMMA StepsKeepInStep ==
  ASSUME Undisturbed, IInv, Next
  PROVE  /\ InStep' /\ incoming' \in Seq(Nat) /\ halts_cleared' = 0
         /\ wire' \in {"quiet", "asked", "answer", "ack", "elsewhere"}
<1>1. /\ halts_cleared = 0 /\ incoming \in Seq(Nat)
      /\ wire \in {"quiet", "asked", "answer", "ack", "elsewhere"}
  BY DEF IInv, Types
<1>2. ASSUME NEW strobe \in {"none", "token", "ack"}, NEW i \in InputsFor(strobe, FALSE),
             DeviceClock(i, FALSE), wire # "answer", HostUnmoved,
             \/ wire' \in {"asked", "elsewhere"} /\ strobe = "token"
             \/ wire' = wire /\ strobe = "none"
             \/ wire' = "quiet"
      PROVE  /\ InStep' /\ incoming' \in Seq(Nat) /\ halts_cleared' = 0
             /\ wire' \in {"quiet", "asked", "answer", "ack", "elsewhere"}
  <2>1. Plain(i) /\ ~i.in_token /\ (i.new_token <=> strobe = "token") /\ (i.ack <=> strobe = "ack")
    BY <1>2, InputsArePlain
  <2>2. /\ tx_state' = "IDLE" /\ state' # "SEND_PACKET" /\ ~first'
        /\ state' = "WAIT_FOR_ACK" => state = "WAIT_FOR_ACK" /\ ~i.new_token
        /\ state = "WAIT_FOR_ACK" /\ ~i.new_token /\ ~i.ack =>
             state' = "WAIT_FOR_ACK" /\ data_pid' = data_pid
    BY <1>2, <2>1, CalmClock
  <2>3. wire' \in {"asked", "elsewhere"} => state' # "WAIT_FOR_ACK"
    BY <1>2, <2>1, <2>2 DEF IInv, InStep
  <2>4. wire' = "ack" => state' = "WAIT_FOR_ACK" /\ Taken'
    BY <1>2, <2>1, <2>2 DEF IInv, InStep, Taken, HostUnmoved, hostVars
  <2>5. QED BY <1>1, <1>2, <2>2, <2>3, <2>4 DEF InStep, HostUnmoved, hostVars
<1>3. CASE QuietClock
  BY <1>2, <1>3 DEF QuietClock
<1>4. CASE AskIn
  BY <1>2, <1>4 DEF AskIn
<1>5. CASE Answer
  BY <1>1, <1>5, AnswerInStep DEF Answer
<1>6. CASE AskElsewhere
  BY <1>2, <1>6 DEF AskElsewhere
<1>7. CASE AckElsewhere
  BY <1>2, <1>7 DEF AckElsewhere
<1>8. ASSUME NEW r \in BOOLEAN, Transmit(r)
      PROVE  /\ InStep' /\ incoming' \in Seq(Nat) /\ halts_cleared' = 0
             /\ wire' \in {"quiet", "asked", "answer", "ack", "elsewhere"}
  BY <1>1, <1>8, TransmitInStep DEF Transmit
<1>9. CASE HostReceives \/ HostMisses
  BY <1>1, <1>9, EndOfPacketInStep DEF HostReceives, HostMisses
<1>10. CASE AckArrives
  BY <1>2, <1>10 DEF AckArrives
<1>11. CASE AckLost
  BY <1>2, <1>11 DEF AckLost
<1>12. ~ForeignAck /\ ~ControlToken /\ ~ClearHalt
  BY NothingDisturbs
<1>13. QED
  BY <1>3, <1>4, <1>5, <1>6, <1>7, <1>8, <1>9, <1>10, <1>11, <1>12 DEF Next

\* The registers' types after any step.
LEMMA StepsKeepTypes ==
  ASSUME Undisturbed, IInv, Next
  PROVE  Types'
<1>1. PICK strobe \in {"none", "token", "in", "ack"}, r \in BOOLEAN :
        \E i \in InputsFor(strobe, r) : DeviceClock(i, r)
  BY NothingDisturbs
     DEF Next, QuietClock, AskIn, Answer, AskElsewhere, AckElsewhere, Transmit, HostReceives,
         HostMisses, EndOfPacket, AckArrives, AckLost
<1>2. PICK j : DataStep(j)
  BY StepsMoveData
<1>3. Len(sent') <= max_packet_size /\ Len(filling') <= max_packet_size
  BY <1>2, PacketsFit DEF IInv
<1>4. host_toggle' \in {0, 1} /\ delivered' \in Seq(Nat) /\ cuts' \in Seq(Nat)
  <2>1. /\ host_toggle \in {0, 1} /\ delivered \in Seq(Nat) /\ cuts \in Seq(Nat)
        /\ sent \in Seq(Nat) /\ Len(delivered) + Len(sent) \in Nat
    BY Counts DEF IInv, Types
  <2>2. \/ HostIdle
        \/ /\ host_toggle' = 1 - host_toggle /\ delivered' = delivered \o sent
           /\ cuts' = Append(cuts, Len(delivered) + Len(sent))
    BY <1>2 DEF DataStep, Keeps, Swaps, Closes, Rests, HostTakes
  <2>3. delivered \o sent \in Seq(Nat) /\ Append(cuts, Len(delivered) + Len(sent)) \in Seq(Nat)
    BY <2>1, ConcatProperties, AppendProperties
  <2>4. CASE HostIdle
    BY <2>1, <2>4 DEF HostIdle
  <2>5. CASE ~HostIdle
    <3>1. host_toggle' \in {0, 1}
      BY <2>1, <2>2, <2>5
    <3>2. QED BY <2>2, <2>3, <2>5, <3>1
  <2>6. QED BY <2>4, <2>5
<1>5. QED BY <1>1, <1>3, <1>4, DeviceTypes, StepsKeepInStep DEF Types

---------------------------------------------------------------------------
(* The theorems *)

LEMMA InvariantHolds ==
  ASSUME Undisturbed
  PROVE  Spec => []IInv
<1>1. Init => IInv
  <2>1. ASSUME Init
        PROVE  /\ sent = << >> /\ filling = << >> /\ Taken /\ M!in_ready /\ Base = 0
               /\ Types
    <3>1. sent = << >> /\ filling = << >> /\ Taken /\ stream_ended[M!write] = FALSE
      BY <2>1 DEF Init, M!Init, M!Buffers, sent, filling, M!read, M!write, Taken
    <3>2. Len(sent) = 0 /\ Len(filling) = 0 /\ 0 # max_packet_size /\ 0 <= max_packet_size
      BY <3>1, SizeAssumption
    <3>3. M!in_ready
      BY <3>1, <3>2 DEF M!in_ready, M!write_fill_count, filling
    <3>4. Base = 0
      BY <2>1, <3>1, <3>2 DEF Base, Init
    <3>5. Types
      BY <2>1, <3>2, EmptySeq DEF Init, M!Init, G!Init, M!Buffers, Types
    <3>6. QED BY <3>1, <3>3, <3>4, <3>5
  <2>2. ASSUME Init PROVE InStep
    BY <2>2 DEF Init, M!Init, G!Init, InStep
  <2>3. ASSUME Init PROVE Resting /\ Accounted
    <3>1. /\ Len(sent) = 0 /\ Len(filling) = 0 /\ Taken /\ M!in_ready /\ Base = 0
          /\ accepted = 0 /\ delivered = << >>
      BY <2>1, <2>3 DEF Init
    <3>2. QED BY <3>1 DEF Resting, Accounted
  <2>4. QED BY <2>1, <2>2, <2>3 DEF IInv
<1>2. IInv /\ [Next]_vars => IInv'
  <2>1. ASSUME IInv, Next PROVE IInv'
    <3>1. PICK i : DataStep(i)
      BY <2>1, StepsMoveData
    <3>2. Accounted'
      BY <2>1, <3>1, KeepsAccounted, SwapsAccounted, FreedAccounted, HostTakesAccounted
         DEF IInv, DataStep
    <3>3. QED BY <2>1, <3>1, <3>2, StepsRest, StepsKeepInStep, StepsKeepTypes DEF IInv
  <2>2. ASSUME IInv, UNCHANGED vars PROVE IInv'
    <3>1. /\ sent' = sent /\ filling' = filling /\ M!read' = M!read
          /\ Taken' = Taken /\ Base' = Base /\ M!in_ready' = M!in_ready
      BY <2>2
         DEF vars, managerVars, hostVars, sent, filling, M!read, M!write, Taken, Base,
             M!in_ready, M!write_fill_count
    <3>2. Types'
      BY <2>2, <3>1
         DEF vars, managerVars, generatorVars, userVars, hostVars, IInv, Types
    <3>3. InStep'
      BY <2>2, <3>1 DEF vars, managerVars, generatorVars, hostVars, IInv, InStep, Sending, Closing
    <3>4. Resting' /\ Accounted'
      BY <2>2, <3>1 DEF vars, managerVars, userVars, hostVars, IInv, Resting, Accounted
    <3>5. QED BY <3>2, <3>3, <3>4 DEF IInv
  <2>3. QED BY <2>1, <2>2
<1>3. QED BY <1>1, <1>2, PTL DEF Spec

\* The host has the bytes the endpoint took, each once and in order, whatever packets and
\* ACKs get lost and however long the packets and the stream are.
THEOREM OrderCorrect ==
  ASSUME Undisturbed
  PROVE  Spec => []InOrderExactlyOnce
<1>1. IInv => InOrderExactlyOnce
  BY Counts DEF IInv, Accounted, InOrderExactlyOnce, Base
<1>2. QED BY <1>1, InvariantHolds, PTL

\* A packet stays as it is, PID included, until its ACK has come.
THEOREM PacketsRepeatable ==
  ASSUME Undisturbed
  PROVE  Spec => UnackedPacketKept
<1>1. ASSUME IInv, NEW i, DataStep(i)
      PROVE  KeptOrFreed
  <2>1. /\ Len(sent) \in Nat /\ Len(filling) \in Nat /\ DOMAIN sent = 1 .. Len(sent)
        /\ DOMAIN filling = 1 .. Len(filling)
    BY <1>1, Counts DEF IInv
  <2>2. /\ Len(filling) <= Len(Filled(i)) /\ \A k \in DOMAIN filling : Filled(i)[k] = filling[k]
    BY <1>1, <2>1, FilledFits DEF IInv, DataStep
  <2>3. /\ M!Buffers = {M!read, M!write} /\ sent = buffer[M!read] /\ filling = buffer[M!write]
    BY <1>1, Counts DEF IInv, M!Buffers, M!read, M!write, sent, filling
  <2>4. CASE Keeps(i) \/ HostTakes(i)
    <3>1. buffer'[M!read] = sent /\ buffer'[M!write] = Filled(i) /\ data_pid' = data_pid
      BY <2>4 DEF Keeps, HostTakes, Kept, M!read, M!write, sent, filling
    <3>2. QED BY <2>1, <2>2, <2>3, <3>1 DEF KeptOrFreed
  <2>5. CASE Swaps(i)
    <3>1. buffer'[M!read] = << >> /\ buffer'[M!write] = Filled(i)
      <4>1. sent' = Filled(i) /\ filling' = << >> /\ buffer_toggle' = 1 - buffer_toggle
        BY <2>5 DEF Swaps, Swapped
      <4>2. M!read' = M!write /\ M!write' = M!read
        BY <1>1, <4>1, Counts DEF IInv, M!read, M!write
      <4>3. QED BY <4>1, <4>2 DEF sent, filling
    <3>2. Acknowledged \/ (state = "WAIT_FOR_DATA" /\ Len(sent) = 0)
      BY <1>1, <2>5 DEF Swaps, IInv, Resting
    <3>3. QED BY <2>1, <2>2, <2>3, <3>1, <3>2 DEF KeptOrFreed
  <2>6. CASE Closes(i) \/ Rests(i)
    <3>1. buffer'[M!read] = << >> /\ buffer'[M!write] = Filled(i) /\ Acknowledged
      BY <2>6 DEF Closes, Rests, Freed, M!read, M!write, sent, filling
    <3>2. QED BY <2>2, <2>3, <3>1 DEF KeptOrFreed
  <2>7. QED BY <1>1, <2>4, <2>5, <2>6 DEF DataStep
<1>2. IInv /\ [Next]_vars => [KeptOrFreed]_vars
  BY <1>1, StepsMoveData
<1>3. QED BY <1>2, InvariantHolds, PTL DEF Spec, UnackedPacketKept

---------------------------------------------------------------------------
(* The packet pipe *)

\* What a byte that is, or is not, accepted does to the ends of transfers.
LEMMA EndsAfter ==
  ASSUME IInv, EndsMarked, NEW i, Plain(i), Produce(i)
  PROVE  /\ \A e \in ends' : /\ e \in Nat /\ e > 0 /\ e <= accepted'
                             /\ ~(Base < e /\ e < Base + Len(sent))
                             /\ ~(Base + Len(sent) < e /\ e < accepted')
         /\ Ended(i) <=> Len(Filled(i)) > 0 /\ accepted' \in ends'
         /\ Len(sent) > 0 => (stream_ended[M!read] <=> Base + Len(sent) \in ends')
         /\ Len(sent) \in 1 .. max_packet_size - 1 => Base + Len(sent) \in ends' \/ Flushes
         /\ \A n \in Nat : n <= accepted => (n \in ends' <=> n \in ends)
<1>1. /\ Base \in Int /\ Len(sent) \in Nat /\ Len(filling) \in Nat /\ accepted \in Nat
      /\ Base >= 0 /\ Base + Len(sent) + Len(filling) = accepted
      /\ ends \in SUBSET Nat /\ stream_ended[M!write] \in BOOLEAN
  BY Counts DEF IInv, Accounted, Types, M!write
<1>2. \A e \in ends : /\ e \in Nat /\ e > 0 /\ e <= accepted
                      /\ ~(Base < e /\ e < Base + Len(sent))
                      /\ ~(Base + Len(sent) < e /\ e < accepted)
  BY <1>1 DEF EndsMarked
<1>3. CASE ~M!byte_accepted(i)
  <2>1. accepted' = accepted /\ ends' = ends /\ Filled(i) = filling
        /\ (Ended(i) <=> stream_ended[M!write])
    BY <1>3 DEF Produce, Filled, Ended
  <2>2. QED BY <1>1, <1>2, <2>1 DEF EndsMarked
<1>4. CASE M!byte_accepted(i)
  <2>1. /\ accepted' = accepted + 1 /\ Len(Filled(i)) = Len(filling) + 1
        /\ ends' = IF i.last THEN ends \cup {accepted + 1} ELSE ends
        /\ ~stream_ended[M!write] /\ (Ended(i) <=> i.last)
    BY <1>4, FilledFits DEF Produce, Ended, M!byte_accepted, M!in_ready, IInv
  <2>2. Base + Len(sent) < accepted => accepted \notin ends
    BY <1>1, <2>1 DEF EndsMarked
  <2>3. ASSUME NEW e \in ends'
        PROVE  /\ e \in Nat /\ e > 0 /\ e <= accepted'
               /\ ~(Base < e /\ e < Base + Len(sent))
               /\ ~(Base + Len(sent) < e /\ e < accepted')
    <3>1. e \in ends \/ e = accepted + 1
      BY <2>1
    <3>2. CASE e = accepted + 1
      BY <1>1, <2>1, <3>2
    <3>3. CASE e \in ends
      BY <1>1, <1>2, <2>1, <2>2, <3>3
    <3>4. QED BY <3>1, <3>2, <3>3
  <2>4. accepted + 1 \notin ends
    BY <1>1, <1>2
  <2>5. \A n \in Nat : n <= accepted => (n \in ends' <=> n \in ends)
    BY <1>1, <2>1
  <2>6. Base + Len(sent) \in Nat /\ Base + Len(sent) <= accepted
    BY <1>1
  <2>7. /\ Len(sent) > 0 => (stream_ended[M!read] <=> Base + Len(sent) \in ends')
        /\ Len(sent) \in 1 .. max_packet_size - 1 => Base + Len(sent) \in ends' \/ Flushes
    BY <2>5, <2>6 DEF EndsMarked
  <2>8. Ended(i) <=> Len(Filled(i)) > 0 /\ accepted' \in ends'
    BY <1>1, <2>1, <2>4
  <2>9. QED BY <2>3, <2>5, <2>7, <2>8
<1>5. QED BY <1>3, <1>4

\* A packet that is complete is not empty, and short only for a reason.
LEMMA NextPacketMarked ==
  ASSUME IInv, EndsMarked, NEW i, Plain(i), Produce(i), Swaps(i)
  PROVE  /\ Len(Filled(i)) \in 1 .. max_packet_size
         /\ Len(Filled(i)) < max_packet_size => accepted' \in ends' \/ Flushes
<1>1. /\ Len(Filled(i)) \in Nat /\ Len(filling) \in Nat /\ Len(Filled(i)) <= max_packet_size
      /\ max_packet_size \in Nat \ {0}
      /\ Len(Filled(i)) = Len(filling) + (IF M!byte_accepted(i) THEN 1 ELSE 0)
  BY FilledFits, Counts, SizeAssumption DEF IInv
<1>2. CASE M!in_ready
  <2>1. M!packet_ready(i)
    BY <1>2 DEF Swaps, M!next_packet_waiting
  <2>2. CASE i.valid /\ (i.last \/ Len(filling) + 1 = max_packet_size)
    <3>1. M!byte_accepted(i)
      BY <1>2, <2>2 DEF M!byte_accepted
    <3>2. i.last => accepted' \in ends'
      BY <3>1 DEF Produce
    <3>3. QED BY <1>1, <2>2, <3>1, <3>2
  <2>3. CASE i.flush /\ Len(filling) # 0
    BY <1>1, <2>3 DEF Plain
  <2>4. QED BY <2>1, <2>2, <2>3 DEF M!packet_ready, M!write_fill_count, filling
<1>3. CASE ~M!in_ready
  <2>1. Len(filling) = max_packet_size \/ (Ended(i) /\ stream_ended[M!write])
    BY <1>3 DEF M!in_ready, M!write_fill_count, filling, Ended
  <2>2. CASE Len(filling) = max_packet_size
    BY <1>1, <2>2
  <2>3. CASE Ended(i) /\ stream_ended[M!write]
    <3>1. Len(Filled(i)) > 0 /\ accepted' \in ends'
      BY <2>3, EndsAfter
    <3>2. QED BY <1>1, <3>1
  <2>4. QED BY <2>1, <2>2, <2>3
<1>4. QED BY <1>2, <1>3

\* The flags after the step are again those of the two buffers.
LEMMA StepsMarkEnds ==
  ASSUME IInv, EndsMarked, NEW i, DataStep(i)
  PROVE  EndsMarked'
<1>1. Plain(i) /\ Produce(i)
  BY DEF DataStep
<1>2. /\ Base \in Int /\ Len(sent) \in Nat /\ Len(filling) \in Nat /\ Len(Filled(i)) \in Nat
      /\ Base + Len(sent) + Len(Filled(i)) = accepted'
      /\ Len(delivered) \in Nat
  BY <1>1, Counts, FilledFits, FilledAccounted DEF IInv
<1>3. CASE Keeps(i) \/ HostTakes(i)
  <2>1. /\ sent' = sent /\ filling' = Filled(i)
        /\ stream_ended'[M!write'] = Ended(i)
        /\ Len(sent) > 0 => stream_ended'[M!read'] = stream_ended[M!read]
    BY <1>3 DEF Keeps, HostTakes, Kept
  <2>2. Base' = Base
    <3>1. CASE Keeps(i)
      BY <3>1 DEF Keeps, Kept, HostIdle, Base, Taken
    <3>2. CASE HostTakes(i)
      <4>1. Len(delivered') = Len(delivered) + Len(sent) /\ ~Taken /\ Taken'
        BY <3>2, Counts, ConcatProperties DEF HostTakes, Kept, Taken, IInv
      <4>2. QED BY <1>2, <3>2, <4>1 DEF Base, HostTakes, Kept
    <3>3. QED BY <1>3, <3>1, <3>2
  <2>3. QED BY <1>1, <2>1, <2>2, EndsAfter DEF EndsMarked
<1>4. CASE Swaps(i)
  <2>1. sent' = Filled(i) /\ filling' = << >> /\ Len(filling') = 0
    BY <1>4 DEF Swaps, Swapped
  <2>2. Base' = Base + Len(sent)
    BY <1>2, <1>4, Counts DEF Swaps, Swapped, HostIdle, Base, Taken, IInv
  <2>3. /\ stream_ended'[M!read'] = Ended(i) /\ stream_ended'[M!write'] = FALSE
        /\ Base' + Len(sent') = accepted'
    BY <1>2, <1>4, <2>1, <2>2 DEF Swaps, Swapped
  <2>4. \A e \in ends' : /\ e > 0 /\ e <= accepted' /\ ~(Base' < e /\ e < Base' + Len(sent'))
                         /\ ~(Base' + Len(sent') < e /\ e < accepted')
    BY <1>1, <1>2, <2>2, <2>3, EndsAfter
  <2>5. Len(sent') > 0 => (stream_ended'[M!read'] <=> Base' + Len(sent') \in ends')
    BY <1>1, <2>1, <2>3, EndsAfter
  <2>6. Len(sent') \in 1 .. max_packet_size - 1 => Base' + Len(sent') \in ends' \/ Flushes
    BY <1>1, <1>4, <2>1, <2>3, NextPacketMarked, SizeAssumption
  <2>7. QED BY <2>1, <2>3, <2>4, <2>5, <2>6 DEF EndsMarked
<1>5. CASE Closes(i) \/ Rests(i)
  <2>1. sent' = << >> /\ Len(sent') = 0 /\ filling' = Filled(i)
    BY <1>5 DEF Closes, Rests, Freed
  <2>2. Base' = Base + Len(sent)
    <3>1. Taken /\ delivered' = delivered
      BY <1>5 DEF Closes, Rests, HostIdle
    <3>2. QED BY <1>2, <2>1, <3>1 DEF Base
  <2>3. stream_ended'[M!write'] = Ended(i)
    BY <1>5 DEF Closes, Rests, Freed
  <2>4. QED BY <1>1, <1>2, <2>1, <2>2, <2>3, EndsAfter DEF EndsMarked
<1>6. QED BY <1>3, <1>4, <1>5 DEF DataStep

\* The host learns nothing: what it does not know of, it still does not.
LEMMA EndUnseenKept ==
  ASSUME IInv, EndsMarked, NEW i, Plain(i), Produce(i), HostIdle
  PROVE  Pipe!EndUnseen' <=> Pipe!EndUnseen
<1>1. Len(delivered) \in Nat /\ Len(delivered) <= accepted
  BY Counts DEF IInv, Accounted, Base
<1>2. Len(delivered) \in ends' <=> Len(delivered) \in ends
  BY <1>1, EndsAfter
<1>3. QED BY <1>2 DEF Pipe!EndUnseen, Pipe!PacketLength, HostIdle

\* The flags of the ACKed packet tell whether the host knows where its transfer ends.
LEMMA StepsMarkCuts ==
  ASSUME generate_zlps, IInv, PipeInv, NEW i, DataStep(i)
  PROVE  CutsMarked'
<1>1. /\ Plain(i) /\ Produce(i) /\ EndsMarked /\ CutsMarked
      /\ Len(sent) \in Nat /\ Len(delivered) \in Nat
  BY Counts DEF DataStep, PipeInv, IInv
<1>2. CASE Keeps(i)
  <2>1. /\ sent' = sent /\ Taken' = Taken /\ delivered' = delivered /\ cuts' = cuts
        /\ Len(sent) > 0 => stream_ended'[M!read'] = stream_ended[M!read]
        /\ state' = "WAIT_FOR_DATA" <=> state = "WAIT_FOR_DATA"
    BY <1>2 DEF Keeps, Kept, HostIdle, Taken
  <2>2. Pipe!EndUnseen' <=> Pipe!EndUnseen
    BY <1>1, <1>2, EndUnseenKept DEF Keeps
  <2>3. Len(sent) = max_packet_size => Len(sent) > 0
    BY SizeAssumption
  <2>4. QED BY <1>1, <2>1, <2>2, <2>3 DEF CutsMarked, Pipe!PacketLength
<1>3. CASE Swaps(i) \/ Closes(i) \/ Rests(i)
  <2>1. Pipe!EndUnseen' <=> Pipe!EndUnseen
    BY <1>1, <1>3, EndUnseenKept DEF Swaps, Closes, Rests
  <2>2. Taken /\ delivered' = delivered /\ cuts' = cuts
    BY <1>3 DEF Swaps, Closes, Rests, HostIdle
  <2>3. Acknowledged => (Pipe!EndUnseen <=> M!zlp_due)
    BY <1>1, <2>2 DEF CutsMarked, Acknowledged, M!zlp_due, M!read_fill_count, sent
  <2>4. CASE Swaps(i)
    <3>1. ~Pipe!EndUnseen
      BY <1>1, <2>3, <2>4 DEF Swaps, CutsMarked
    <3>2. ~Taken' /\ Len(sent') # 0
      <4>1. sent' = Filled(i) /\ data_pid' = 1 - data_pid /\ host_toggle' = host_toggle
        BY <2>4 DEF Swaps, Swapped, HostIdle
      <4>2. Len(Filled(i)) \in 1 .. max_packet_size
        BY <1>1, <2>4, NextPacketMarked
      <4>3. QED BY <2>2, <4>1, <4>2, Counts, SizeAssumption DEF Taken, IInv
    <3>3. QED BY <1>1, <2>1, <2>2, <3>1, <3>2 DEF CutsMarked
  <2>5. CASE Closes(i)
    <3>1. Pipe!EndUnseen
      BY <2>3, <2>5 DEF Closes
    <3>2. ~Taken' /\ Len(sent') = 0 /\ state' # "WAIT_FOR_DATA"
      BY <1>1, <2>5, Counts DEF Closes, Freed, HostIdle, Taken, IInv
    <3>3. QED BY <1>1, <2>1, <2>2, <3>1, <3>2 DEF CutsMarked
  <2>6. CASE Rests(i)
    <3>1. ~Pipe!EndUnseen /\ state' = "WAIT_FOR_DATA" /\ Len(sent') = 0
      BY <2>3, <2>6 DEF Rests, Freed
    <3>2. QED BY <1>1, <2>1, <2>2, <3>1 DEF CutsMarked
  <2>7. QED BY <1>3, <2>4, <2>5, <2>6
<1>4. CASE HostTakes(i)
  <2>1. /\ Base = Len(delivered) /\ Taken' /\ sent' = sent /\ state' # "WAIT_FOR_DATA"
        /\ Len(sent) > 0 => stream_ended'[M!read'] = stream_ended[M!read]
        /\ Len(delivered') = Len(delivered) + Len(sent)
        /\ cuts' = Append(cuts, Len(delivered'))
    BY <1>4, Counts, ConcatProperties DEF HostTakes, Kept, Taken, Base, IInv
  <2>2. /\ cuts \in Seq(Nat) /\ Len(cuts) \in Nat /\ Len(delivered') \in Nat
        /\ (cuts = << >> <=> Len(cuts) = 0)
    BY <1>1, <2>1, EmptySeq DEF IInv, Types
  <2>3. /\ cuts' # << >> /\ Len(cuts') = Len(cuts) + 1 /\ cuts'[Len(cuts')] = Len(delivered')
        /\ Len(cuts) > 0 => cuts'[Len(cuts)] = cuts[Len(cuts)]
    BY <2>1, <2>2, AppendProperties
  <2>4. Pipe!PacketLength(Len(cuts))' = Len(sent)
    BY <1>1, <2>1, <2>2, <2>3 DEF Pipe!PacketLength, CutsMarked
  <2>5. Pipe!EndUnseen' <=> Len(sent) = max_packet_size /\ Len(delivered') \in ends'
    BY <2>3, <2>4 DEF Pipe!EndUnseen
  <2>6. Len(sent) > 0 => (stream_ended'[M!read'] <=> Len(delivered') \in ends')
    BY <1>1, <2>1, EndsAfter
  <2>7. max_packet_size > 0
    BY SizeAssumption
  <2>8. QED BY <2>1, <2>3, <2>4, <2>5, <2>6, <2>7 DEF CutsMarked
<1>5. QED BY <1>2, <1>3, <1>4 DEF DataStep

LEMMA PipeInvariantHolds ==
  ASSUME Undisturbed, generate_zlps
  PROVE  Spec => [](IInv /\ PipeInv)
<1>1. Init => PipeInv
  <2>1. ASSUME Init PROVE EndsMarked
    <3>1. /\ ends = {} /\ accepted = 0 /\ sent = << >> /\ filling = << >>
          /\ stream_ended[M!write] = FALSE
      BY <2>1 DEF Init, M!Init, M!Buffers, sent, filling, M!read, M!write
    <3>2. Len(sent) = 0 /\ Len(filling) = 0
      BY <3>1
    <3>3. QED BY <3>1, <3>2 DEF EndsMarked
  <2>2. ASSUME Init PROVE CutsMarked
    <3>1. cuts = << >> /\ delivered = << >> /\ sent = << >> /\ state = "WAIT_FOR_DATA"
      BY <2>2 DEF Init, M!Init, M!Buffers, sent, M!read
    <3>2. QED BY <3>1 DEF CutsMarked, Pipe!EndUnseen
  <2>3. QED BY <2>1, <2>2 DEF PipeInv
<1>2. IInv /\ PipeInv /\ [Next]_vars => PipeInv'
  <2>1. ASSUME IInv, PipeInv, Next PROVE PipeInv'
    BY <2>1, StepsMoveData, StepsMarkEnds, StepsMarkCuts DEF PipeInv
  <2>2. ASSUME PipeInv, UNCHANGED vars PROVE PipeInv'
    BY <2>2
       DEF vars, managerVars, userVars, hostVars, PipeInv, EndsMarked, CutsMarked, Base, Taken,
           sent, filling, M!read, M!write, Pipe!EndUnseen, Pipe!PacketLength
  <2>3. QED BY <2>1, <2>2
<1>3. QED BY <1>1, <1>2, InvariantHolds, PTL DEF Spec

\* The endpoint on its lossy bus implements the packet pipe: every packet the host takes
\* is the pipe's next one, an empty one exactly when an end would otherwise go unseen.
THEOREM PipeImplemented ==
  ASSUME Undisturbed, generate_zlps
  PROVE  Spec => ImplementsPipe
<1>1. Init => Pipe!Init
  BY DEF Init, Pipe!Init
<1>2. ASSUME IInv, PipeInv, Next PROVE Pipe!Next
  <2>1. PICK i : DataStep(i)
    BY <1>2, StepsMoveData
  <2>2. (\E last \in BOOLEAN : Pipe!Accept(last)) \/ UNCHANGED <<accepted, ends>>
    <3>1. CASE M!byte_accepted(i)
      BY <2>1, <3>1 DEF DataStep, Plain, Produce, Pipe!Accept
    <3>2. CASE ~M!byte_accepted(i)
      BY <2>1, <3>2 DEF DataStep, Produce
    <3>3. QED BY <3>1, <3>2
  <2>3. CASE HostTakes(i)
    <3>1. /\ Len(sent) \in 0 .. max_packet_size /\ Base = Len(delivered) /\ sent \in Seq(Nat)
          /\ Base + Len(sent) <= accepted /\ Base \in Nat
      BY <1>2, <2>3, Counts, SizeAssumption DEF HostTakes, Base, IInv, Types, Accounted
    <3>2. sent = [j \in 1 .. Len(sent) |-> Len(delivered) + j]
      BY <1>2, <3>1 DEF IInv, Accounted
    <3>3. (Len(sent) = 0) <=> Pipe!EndUnseen
      BY <1>2, <2>3 DEF PipeInv, CutsMarked, HostTakes
    <3>4. /\ \A e \in ends : ~(Len(delivered) < e /\ e < Len(delivered) + Len(sent))
          /\ Len(sent) < max_packet_size /\ Len(sent) # 0
               => Len(delivered) + Len(sent) \in ends \/ Flushes
      BY <1>2, <3>1, SizeAssumption DEF PipeInv, EndsMarked
    <3>5. Len(sent) = 0 => Len(delivered) + Len(sent) \in ends
      BY <3>1, <3>3 DEF Pipe!EndUnseen
    <3>6. Pipe!Deliver(Len(sent))
      BY <2>3, <3>1, <3>2, <3>3, <3>4, <3>5 DEF HostTakes, Pipe!Deliver
    <3>7. QED BY <2>2, <3>1, <3>6 DEF Pipe!Next
  <2>4. CASE ~HostTakes(i)
    BY <2>1, <2>2, <2>4 DEF DataStep, Keeps, Swaps, Closes, Rests, HostIdle, Pipe!Next
  <2>5. QED BY <2>3, <2>4
<1>3. UNCHANGED vars => UNCHANGED Pipe!pipeVars
  BY DEF vars, userVars, hostVars, Pipe!pipeVars
<1>4. QED
  BY <1>1, <1>2, <1>3, PipeInvariantHolds, PTL DEF Spec, ImplementsPipe, Pipe!Spec

---------------------------------------------------------------------------
(* With faults: discards, cleared halts and other devices' ACKs at any time *)

FaultTypes ==
  /\ state \in {"WAIT_FOR_DATA", "WAIT_TO_SEND", "SEND_PACKET", "WAIT_FOR_ACK"}
  /\ buffer_toggle \in {0, 1} /\ data_pid \in 0 .. 3
  /\ buffer \in [{0, 1} -> Seq(Nat)]
  /\ Len(sent) <= max_packet_size /\ Len(filling) <= max_packet_size
  /\ send_position \in Nat /\ first \in BOOLEAN /\ read_adr \in [{0, 1} -> Nat]
  /\ tx_state \in {"IDLE", "SEND_PID", "SEND_PAYLOAD", "SEND_CRC_FIRST", "SEND_CRC_SECOND"}
  /\ is_zlp \in BOOLEAN
  /\ accepted \in Nat /\ dropped \in BOOLEAN /\ halts_cleared \in Nat
  /\ wire \in {"quiet", "asked", "answer", "ack", "elsewhere", "control"}
  /\ host_toggle \in {0, 1}
  /\ incoming \in Seq(Nat) /\ delivered \in Seq(Nat)

\* A packet that is discarded while it is sent goes on for ever (transfer.py:209).
Endless ==
  /\ state = "SEND_PACKET" /\ sent = << >>
  /\ tx_state \in {"IDLE", "SEND_PID", "SEND_PAYLOAD"}
  /\ tx_state = "IDLE" => first
  /\ tx_state = "SEND_PID" => ~is_zlp

\* What has been sent of the packet in the buffer is the beginning of it.
Underway == Sending /\ \A k \in 1 .. Len(incoming) : incoming[k] = sent[k]

\* The packet is out but for its CRC, and may have been discarded since.
Ending ==
  /\ state # "SEND_PACKET" /\ ~first
  /\ \/ tx_state = "SEND_PID" /\ is_zlp /\ incoming = << >>
     \/ tx_state \in {"SEND_CRC_FIRST", "SEND_CRC_SECOND"}
  /\ state = "WAIT_FOR_ACK" => packet_pid = data_pid /\ (sent = << >> \/ incoming = sent)

FaultInStep ==
  /\ wire = "answer" => Endless \/ Underway \/ Ending
  /\ wire # "answer" => tx_state = "IDLE" /\ state # "SEND_PACKET" /\ ~first
  /\ wire \in {"asked", "elsewhere", "control"} => state # "WAIT_FOR_ACK"
  /\ state = "WAIT_FOR_DATA" => sent = << >>

\* Bytes are numbered from 1 as they come, so "each once and in order" is "rising".
Rising(s)   == /\ \A k \in 1 .. Len(s) : 0 < s[k]
               /\ \A j, k \in 1 .. Len(s) : j < k => s[j] < s[k]
Below(s, t) == \A j \in 1 .. Len(s), k \in 1 .. Len(t) : s[j] < t[k]
UpTo(s, n)  == \A k \in 1 .. Len(s) : s[k] <= n

\* What is sent is behind what the host has, unless it has it; what is filled is behind
\* both; and what is on the wire is behind what the host has if the host will take it.
OnTheWire ==
  /\ Rising(incoming) /\ UpTo(incoming, accepted) /\ Below(incoming, filling)
  /\ tx_state # "IDLE" /\ packet_pid = host_toggle => Below(delivered, incoming)
  /\ state \in {"WAIT_FOR_DATA", "WAIT_TO_SEND"} => Below(delivered, sent) /\ Below(incoming, sent)
Ordered ==
  /\ data_pid \in {0, 1}
  /\ Rising(delivered) /\ Rising(sent) /\ Rising(filling)
  /\ UpTo(delivered, accepted) /\ UpTo(sent, accepted) /\ UpTo(filling, accepted)
  /\ Below(sent, filling) /\ Below(delivered, filling)
  /\ ~Taken => Below(delivered, sent)
  /\ wire = "answer" /\ ~Endless => OnTheWire
NoRepeats == halts_cleared = 0 => Ordered

\* The bytes in the buffers are the last ones accepted; the host has all before them, and
\* the packet too if its toggle says so.  A PID above 1 comes from a cleared halt.
Reached == IF delivered = << >> THEN 0 ELSE delivered[Len(delivered)]
Start   == accepted - Len(filling) - Len(sent)
Heard   == data_pid \in {0, 1} /\ Taken
Gapless ==
  /\ Start >= 0
  /\ \A k \in 1 .. Len(sent) : sent[k] = Start + k
  /\ \A k \in 1 .. Len(filling) : filling[k] = Start + Len(sent) + k
  /\ \A k \in 1 .. Len(delivered) : delivered[k] <= (IF k = 1 THEN 0 ELSE delivered[k - 1]) + 1
  /\ Reached \in {Start, Start + Len(sent)}
  /\ Heard => Reached = Start + Len(sent)
  /\ state = "WAIT_FOR_DATA" => Heard \/ data_pid \in {2, 3}
  /\ state = "SEND_PACKET" => sent # << >>
  /\ wire = "answer" => state \in {"SEND_PACKET", "WAIT_FOR_ACK"}
  /\ wire = "answer" /\ state = "WAIT_FOR_ACK" => incoming = sent
  /\ wire = "ack" => state = "WAIT_FOR_ACK" /\ Heard
NoGaps == ~dropped => Gapless

FaultInv == FaultTypes /\ FaultInStep /\ NoRepeats /\ NoGaps

---------------------------------------------------------------------------
(* One clock of the manager, whatever its inputs *)

Offered(i) ==
  /\ i.valid \in BOOLEAN /\ i.last \in BOOLEAN /\ i.flush \in BOOLEAN /\ i.discard \in BOOLEAN
  /\ i.reset_sequence \in BOOLEAN /\ i.in_token \in BOOLEAN /\ i.ready \in BOOLEAN
  /\ i.payload = accepted + 1

\* The buffers after the byte and the discard of this clock: a byte overrides a discard.
After(i) == IF M!byte_accepted(i) THEN Append(filling, i.payload)
            ELSE IF i.discard THEN << >> ELSE filling
Left(i)  == IF i.discard THEN << >> ELSE sent

Stays(i)     == sent' = Left(i) /\ filling' = After(i)
Empties(i)   == sent' = << >> /\ filling' = After(i)
TurnsOver(i) == sent' = After(i) /\ filling' = << >>

LEMMA InputsAreOffered ==
  ASSUME NEW strobe, NEW r \in BOOLEAN, NEW i \in InputsFor(strobe, r)
  PROVE  /\ Offered(i)
         /\ i.in_token = (strobe = "in") /\ i.new_token = (strobe = "token")
         /\ i.ack = (strobe = "ack") /\ i.reset_sequence = (strobe = "reset")
         /\ i.ready <=> G!stream_ready(r)
BY DEF InputsFor, Offered, G!stream_ready

LEMMA AfterFits ==
  ASSUME FaultTypes, NEW i, Offered(i)
  PROVE  /\ sent \in Seq(Nat) /\ filling \in Seq(Nat) /\ Left(i) \in Seq(Nat)
         /\ Len(sent) \in Nat /\ Len(filling) \in Nat
         /\ After(i) \in Seq(Nat) /\ Len(After(i)) <= max_packet_size
         /\ Len(Left(i)) <= max_packet_size
         /\ M!byte_accepted(i) => /\ Len(After(i)) = Len(filling) + 1
                                  /\ After(i)[Len(filling) + 1] = accepted + 1
                                  /\ \A k \in 1 .. Len(filling) : After(i)[k] = filling[k]
         /\ ~M!byte_accepted(i) => After(i) = filling \/ (i.discard /\ After(i) = << >>)
<1>1. /\ filling \in Seq(Nat) /\ sent \in Seq(Nat) /\ accepted + 1 \in Nat
      /\ Len(filling) \in Nat /\ Len(sent) \in Nat /\ i.payload = accepted + 1
      /\ Len(sent) <= max_packet_size /\ Len(filling) <= max_packet_size
  BY DEF FaultTypes, filling, sent, M!write, M!read, Offered
<1>2. M!byte_accepted(i) => Len(filling) # max_packet_size
  BY DEF M!byte_accepted, M!in_ready, M!write_fill_count, filling
<1>3. << >> \in Seq(Nat) /\ Len(<< >>) = 0
  OBVIOUS
<1>4. Left(i) \in Seq(Nat) /\ Len(Left(i)) <= max_packet_size
  BY <1>1, <1>3, SizeAssumption DEF Left
<1>5. CASE M!byte_accepted(i)
  BY <1>1, <1>2, <1>4, <1>5, AppendProperties, SizeAssumption DEF After
<1>6. CASE ~M!byte_accepted(i)
  BY <1>1, <1>3, <1>4, <1>6, SizeAssumption DEF After
<1>7. QED BY <1>5, <1>6

LEMMA FaultBuffers ==
  ASSUME FaultTypes, NEW i, Offered(i)
  PROVE  /\ M!write \in {0, 1} /\ M!read \in {0, 1} /\ M!read # M!write
         /\ M!FilledBuffers(i) \in [{0, 1} -> Seq(Nat)]
         /\ M!FilledBuffers(i)[M!write] = After(i) /\ M!FilledBuffers(i)[M!read] = Left(i)
         /\ M!ToggledPid(i) \in 0 .. 3 /\ M!HeldPid(i) \in 0 .. 3
         /\ ~i.reset_sequence => M!HeldPid(i) = data_pid
         /\ ~i.reset_sequence /\ data_pid \in {0, 1} => M!ToggledPid(i) = 1 - data_pid
         /\ i.reset_sequence \/ data_pid \in {2, 3} =>
              M!ToggledPid(i) \in {2, 3} /\ M!HeldPid(i) \in {2, 3}
<1>1. buffer_toggle \in {0, 1} /\ data_pid \in 0 .. 3 /\ buffer \in [{0, 1} -> Seq(Nat)]
  BY DEF FaultTypes
<1>2. M!write \in {0, 1} /\ M!read \in {0, 1} /\ M!read # M!write
  BY <1>1 DEF M!read, M!write
<1>3. M!FilledBuffers(i) = [b \in {0, 1} |-> IF b = M!write THEN After(i) ELSE Left(i)]
  BY <1>1, <1>2 DEF M!FilledBuffers, M!Buffers, After, Left, filling, sent, M!read, M!write
<1>4. After(i) \in Seq(Nat) /\ Left(i) \in Seq(Nat)
  BY AfterFits
<1>5. /\ M!HeldPid(i) \in 0 .. 3
      /\ ~i.reset_sequence => M!HeldPid(i) = data_pid
      /\ i.reset_sequence \/ data_pid \in {2, 3} => M!HeldPid(i) \in {2, 3}
  BY <1>1, TiedAssumption DEF M!HeldPid
<1>6. data_pid % 2 \in {0, 1} /\ (data_pid \in {0, 1} => data_pid % 2 = data_pid)
  BY <1>1
<1>7. /\ M!HeldPid(i) \in {0, 1} => M!HeldPid(i) \div 2 = 0
      /\ M!HeldPid(i) \in {2, 3} => M!HeldPid(i) \div 2 = 1
  OBVIOUS
<1>8. /\ M!ToggledPid(i) \in 0 .. 3
      /\ ~i.reset_sequence /\ data_pid \in {0, 1} => M!ToggledPid(i) = 1 - data_pid
      /\ i.reset_sequence \/ data_pid \in {2, 3} => M!ToggledPid(i) \in {2, 3}
  BY <1>1, <1>5, <1>6, <1>7 DEF M!ToggledPid
<1>9. QED BY <1>2, <1>3, <1>4, <1>5, <1>8

\* The manager in each of its states.
LEMMA FaultWaitForData ==
  ASSUME FaultTypes, NEW i, Offered(i), M!Clock(i), state = "WAIT_FOR_DATA", sent = << >>
  PROVE  /\ send_position' = send_position /\ first' = first /\ buffer_toggle' \in {0, 1}
         /\ buffer' \in [{0, 1} -> Seq(Nat)]
         /\ \/ TurnsOver(i) /\ data_pid' = M!ToggledPid(i) /\ state' = "WAIT_TO_SEND" /\ ~i.discard
            \/ Stays(i) /\ data_pid' = M!HeldPid(i) /\ state' = "WAIT_FOR_DATA"
<1>1. M!WaitForData(i)
  BY DEF M!Clock, M!WaitToSend, M!SendPacket, M!WaitForAck
<1>2. Left(i) = << >> /\ buffer_toggle \in {0, 1}
  BY DEF Left, FaultTypes
<1>3. QED
  BY <1>1, <1>2, FaultBuffers
     DEF M!WaitForData, M!packet_ready, M!read, M!write, TurnsOver, Stays, sent, filling

LEMMA FaultWaitToSend ==
  ASSUME FaultTypes, NEW i, Offered(i), M!Clock(i), state = "WAIT_TO_SEND"
  PROVE  /\ send_position' = 0 /\ buffer_toggle' \in {0, 1}
         /\ buffer' \in [{0, 1} -> Seq(Nat)]
         /\ Stays(i)
         /\ i.discard => /\ data_pid' = M!ToggledPid(i) /\ state' = "WAIT_FOR_DATA"
                         /\ first' = first
         /\ ~i.discard /\ i.reset_sequence =>
              data_pid' = start_with_data1 /\ state' = state /\ first' = first
         /\ ~i.discard /\ ~i.reset_sequence =>
              /\ data_pid' = data_pid
              /\ ~i.in_token => state' = state /\ first' = first
              /\ i.in_token /\ Len(sent) = 0 => state' = "WAIT_FOR_ACK" /\ first' = first
              /\ i.in_token /\ Len(sent) # 0 => state' = "SEND_PACKET" /\ first' = TRUE
<1>1. M!WaitToSend(i)
  BY DEF M!Clock, M!WaitForData, M!SendPacket, M!WaitForAck
<1>2. buffer_toggle' = buffer_toggle /\ buffer' = M!FilledBuffers(i) /\ buffer_toggle \in {0, 1}
  BY <1>1 DEF M!WaitToSend, FaultTypes
<1>3. Stays(i) /\ buffer' \in [{0, 1} -> Seq(Nat)]
  BY <1>2, FaultBuffers DEF M!read, M!write, Stays, sent, filling
<1>4. QED
  BY <1>1, <1>2, <1>3 DEF M!WaitToSend, M!read_fill_count, sent

LEMMA FaultSendPacket ==
  ASSUME FaultTypes, NEW i, Offered(i), M!Clock(i), state = "SEND_PACKET"
  PROVE  /\ buffer_toggle' \in {0, 1} /\ buffer' \in [{0, 1} -> Seq(Nat)]
         /\ Stays(i) /\ data_pid' = M!HeldPid(i)
         /\ ~i.ready => /\ state' = "SEND_PACKET" /\ first' = first
                        /\ send_position' = send_position
         /\ i.ready => /\ state' = IF send_position + 1 = Len(sent)
                                   THEN "WAIT_FOR_ACK" ELSE "SEND_PACKET"
                       /\ first' = FALSE /\ send_position' \in Nat
                       /\ send_position < Len(sent) => send_position' = send_position + 1
<1>1. M!SendPacket(i)
  BY DEF M!Clock, M!WaitForData, M!WaitToSend, M!WaitForAck
<1>2. /\ send_position \in Nat /\ Len(sent) \in Nat /\ Len(sent) <= max_packet_size
  BY AfterFits DEF FaultTypes
<1>3. /\ send_position < Len(sent) => (send_position + 1) % send_positions = send_position + 1
      /\ (send_position + 1) % send_positions \in Nat
  BY <1>2, SizeAssumption
<1>4. M!out_last(i) <=> send_position + 1 = Len(sent)
  BY DEF M!out_last, M!sends_zlp, M!read_fill_count, sent
<1>5. buffer_toggle' = buffer_toggle /\ buffer' = M!FilledBuffers(i) /\ buffer_toggle \in {0, 1}
  BY <1>1 DEF M!SendPacket, FaultTypes
<1>6. Stays(i) /\ buffer' \in [{0, 1} -> Seq(Nat)]
  BY <1>5, FaultBuffers DEF M!read, M!write, Stays, sent, filling
<1>7. QED
  BY <1>1, <1>3, <1>4, <1>5, <1>6 DEF M!SendPacket

LEMMA FaultWaitForAck ==
  ASSUME FaultTypes, NEW i, Offered(i), M!Clock(i), state = "WAIT_FOR_ACK"
  PROVE  /\ buffer_toggle' \in {0, 1} /\ buffer' \in [{0, 1} -> Seq(Nat)]
         /\ send_position' = send_position /\ first' = first
         /\ state' \in {"WAIT_FOR_DATA", "WAIT_TO_SEND", "WAIT_FOR_ACK"}
         /\ i.discard => state' = "WAIT_FOR_DATA" /\ sent' = << >>
         /\ ~i.discard /\ i.new_token => state' = "WAIT_TO_SEND"
         /\ ~i.ack => /\ Stays(i) /\ data_pid' = M!HeldPid(i)
                      /\ ~i.discard /\ ~i.new_token => state' = state
         /\ i.ack =>
              \/ Empties(i) /\ data_pid' = M!ToggledPid(i)
                 /\ (~i.discard => state' = "WAIT_TO_SEND")
              \/ TurnsOver(i) /\ data_pid' = M!ToggledPid(i)
                 /\ (~i.discard => state' = "WAIT_TO_SEND")
              \/ Empties(i) /\ data_pid' = M!HeldPid(i)
                 /\ (~i.discard /\ ~i.new_token => state' = "WAIT_FOR_DATA")
<1>1. M!WaitForAck(i)
  BY DEF M!Clock, M!WaitForData, M!WaitToSend, M!SendPacket
<1>2. buffer_toggle \in {0, 1} /\ << >> \in Seq(Nat)
  BY DEF FaultTypes
<1>3. /\ state' = M!StateAfter(i) /\ send_position' = send_position /\ first' = first
  BY <1>1 DEF M!WaitForAck
<1>4. /\ i.discard => state' = "WAIT_FOR_DATA"
      /\ ~i.discard /\ i.new_token => state' = "WAIT_TO_SEND"
      /\ ~i.discard /\ ~i.new_token /\ ~i.ack => state' = state
      /\ ~i.discard /\ ~i.new_token /\ i.ack =>
           state' = IF M!zlp_due \/ M!next_packet_waiting(i) THEN "WAIT_TO_SEND"
                    ELSE "WAIT_FOR_DATA"
  BY <1>3 DEF M!StateAfter
<1>5. CASE ~i.ack
  <2>1. /\ buffer' = M!FilledBuffers(i) /\ data_pid' = M!HeldPid(i)
        /\ buffer_toggle' = buffer_toggle
    BY <1>1, <1>5 DEF M!WaitForAck
  <2>2. Stays(i) /\ buffer' \in [{0, 1} -> Seq(Nat)]
    BY <2>1, FaultBuffers DEF M!read, M!write, Stays, sent, filling
  <2>3. i.discard => sent' = << >>
    BY <2>2 DEF Stays, Left
  <2>4. QED BY <1>2, <1>3, <1>4, <1>5, <2>1, <2>2, <2>3
<1>6. CASE i.ack
  <2>1. buffer' = M!FreedBuffers(i) /\ buffer' \in [{0, 1} -> Seq(Nat)]
        /\ buffer'[M!read] = << >> /\ buffer'[M!write] = After(i)
    <3>1. buffer' = [M!FilledBuffers(i) EXCEPT ![M!read] = << >>]
      BY <1>1, <1>6 DEF M!WaitForAck, M!FreedBuffers
    <3>2. QED BY <1>2, <3>1, FaultBuffers DEF M!FreedBuffers
  <2>2. CASE M!zlp_due
    <3>1. data_pid' = M!ToggledPid(i) /\ buffer_toggle' = buffer_toggle
      BY <1>1, <1>6, <2>2 DEF M!WaitForAck
    <3>2. Empties(i)
      BY <2>1, <3>1 DEF Empties, sent, filling, M!read, M!write
    <3>3. QED BY <1>2, <1>3, <1>4, <1>6, <2>1, <2>2, <3>1, <3>2 DEF Empties
  <2>3. CASE ~M!zlp_due /\ M!next_packet_waiting(i)
    <3>1. data_pid' = M!ToggledPid(i) /\ buffer_toggle' = 1 - buffer_toggle
      BY <1>1, <1>6, <2>3 DEF M!WaitForAck, M!read
    <3>2. TurnsOver(i) /\ buffer_toggle' \in {0, 1}
      BY <1>2, <2>1, <3>1 DEF TurnsOver, sent, filling, M!read, M!write
    <3>3. i.discard => sent' = << >>
      BY <2>3, <3>2 DEF M!next_packet_waiting, M!packet_ready, M!byte_accepted, After, TurnsOver
    <3>4. QED BY <1>3, <1>4, <1>6, <2>1, <2>3, <3>1, <3>2, <3>3
  <2>4. CASE ~M!zlp_due /\ ~M!next_packet_waiting(i)
    <3>1. data_pid' = M!HeldPid(i) /\ buffer_toggle' = buffer_toggle
      BY <1>1, <1>6, <2>4 DEF M!WaitForAck
    <3>2. Empties(i)
      BY <2>1, <3>1 DEF Empties, sent, filling, M!read, M!write
    <3>3. QED BY <1>2, <1>3, <1>4, <1>6, <2>1, <2>4, <3>1, <3>2 DEF Empties
  <2>5. QED BY <2>2, <2>3, <2>4
<1>7. QED BY <1>5, <1>6

\* What a clock may do to the bytes and the PID.
Moves(i) ==
  \/ Stays(i) /\ (i.discard \/ data_pid' = data_pid)
  \/ Empties(i)
  \/ TurnsOver(i)

LEMMA ManagerMoves ==
  ASSUME FaultTypes, state = "WAIT_FOR_DATA" => sent = << >>,
         NEW i, Offered(i), M!Clock(i)
  PROVE  /\ state' \in {"WAIT_FOR_DATA", "WAIT_TO_SEND", "SEND_PACKET", "WAIT_FOR_ACK"}
         /\ buffer_toggle' \in {0, 1} /\ data_pid' \in 0 .. 3
         /\ buffer' \in [{0, 1} -> Seq(Nat)]
         /\ Stays(i) \/ Empties(i) \/ TurnsOver(i)
         /\ Len(sent') <= max_packet_size /\ Len(filling') <= max_packet_size
         /\ send_position' \in Nat /\ first' \in BOOLEAN /\ read_adr' \in [{0, 1} -> Nat]
         /\ state' = "WAIT_FOR_DATA" => sent' = << >>
         /\ ~i.reset_sequence => Moves(i)
         /\ ~i.reset_sequence /\ data_pid \in {0, 1} => data_pid' \in {0, 1}
<1>1. Len(After(i)) <= max_packet_size /\ Len(Left(i)) <= max_packet_size /\ Len(<< >>) = 0
  BY AfterFits
<1>2. send_position \in Nat /\ first \in BOOLEAN /\ data_pid \in 0 .. 3 /\ start_with_data1 \in 0 .. 3
  BY TiedAssumption DEF FaultTypes
<1>3. read_adr' \in [{0, 1} -> Nat]
  BY <1>2 DEF M!Clock, M!ReadPorts, M!Buffers
<1>4. CASE state = "WAIT_FOR_DATA"
  <2>1. sent = << >> /\ Left(i) = << >>
    BY <1>4 DEF Left
  <2>2. QED BY <1>1, <1>2, <1>3, <1>4, <2>1, FaultWaitForData, FaultBuffers, SizeAssumption
               DEF Stays, TurnsOver, Moves
<1>5. CASE state = "WAIT_TO_SEND"
  <2>1. Stays(i) /\ send_position' = 0
    BY <1>5, FaultWaitToSend
  <2>2. CASE i.discard
    <3>1. /\ data_pid' = M!ToggledPid(i) /\ state' = "WAIT_FOR_DATA" /\ first' = first
          /\ buffer_toggle' \in {0, 1} /\ buffer' \in [{0, 1} -> Seq(Nat)]
      BY <1>5, <2>2, FaultWaitToSend
    <3>2. sent' = << >> /\ filling' = After(i)
      BY <2>1, <2>2 DEF Stays, Left
    <3>3. /\ data_pid' \in 0 .. 3
          /\ ~i.reset_sequence /\ data_pid \in {0, 1} => data_pid' \in {0, 1}
      BY <1>2, <3>1, FaultBuffers
    <3>4. Len(sent') <= max_packet_size /\ Len(filling') <= max_packet_size
      BY <1>1, <3>2, SizeAssumption
    <3>5. QED BY <1>2, <1>3, <2>1, <2>2, <3>1, <3>2, <3>3, <3>4 DEF Moves
  <2>3. CASE ~i.discard /\ i.reset_sequence
    BY <1>1, <1>2, <1>3, <1>5, <2>1, <2>3, FaultWaitToSend, SizeAssumption DEF Stays
  <2>4. CASE ~i.discard /\ ~i.reset_sequence
    <3>1. Len(sent) = 0 \/ Len(sent) # 0
      OBVIOUS
    <3>2. /\ data_pid' = data_pid /\ first' \in BOOLEAN
          /\ state' \in {"WAIT_TO_SEND", "WAIT_FOR_ACK", "SEND_PACKET"}
      BY <1>2, <1>5, <2>4, <3>1, FaultWaitToSend DEF Offered
    <3>3. QED BY <1>1, <1>2, <1>3, <1>5, <2>1, <2>4, <3>2, FaultWaitToSend, SizeAssumption
                 DEF Stays, Moves
  <2>5. QED BY <2>2, <2>3, <2>4 DEF Offered
<1>6. CASE state = "SEND_PACKET"
  BY <1>1, <1>2, <1>3, <1>6, FaultSendPacket, FaultBuffers, SizeAssumption
     DEF Stays, Moves
<1>7. CASE state = "WAIT_FOR_ACK"
  <2>1. i.ack \/ ~i.ack
    OBVIOUS
  <2>2. state' = "WAIT_FOR_DATA" => sent' = << >>
    BY <1>7, FaultWaitForAck DEF Empties, Offered
  <2>3. Stays(i) \/ Empties(i) \/ TurnsOver(i)
    BY <1>7, <2>1, FaultWaitForAck
  <2>4. data_pid' \in {M!ToggledPid(i), M!HeldPid(i)}
    BY <1>7, <2>1, FaultWaitForAck
  <2>5. ~i.reset_sequence => Moves(i)
    BY <1>7, <2>1, FaultWaitForAck, FaultBuffers DEF Moves
  <2>6. Len(sent') <= max_packet_size /\ Len(filling') <= max_packet_size
    BY <1>1, <2>3, SizeAssumption DEF Stays, Empties, TurnsOver
  <2>7. QED BY <1>2, <1>3, <1>7, <2>2, <2>3, <2>4, <2>5, <2>6, FaultWaitForAck, FaultBuffers
<1>8. QED BY <1>4, <1>5, <1>6, <1>7 DEF FaultTypes

\* Every step is a clock of the device, and most leave the host alone.
Quiet == host_toggle' = host_toggle /\ delivered' = delivered
Takes ==
  /\ wire = "answer" /\ tx_state = "SEND_CRC_SECOND" /\ wire' = "ack"
  /\ packet_pid = host_toggle /\ host_toggle' = 1 - host_toggle
  /\ delivered' = delivered \o incoming

LEMMA StepIsClock ==
  ASSUME Next
  PROVE  \E strobe \in {"none", "token", "in", "ack", "reset"}, r \in BOOLEAN :
           \E i \in InputsFor(strobe, r) :
             /\ DeviceClock(i, r)
             /\ halts_cleared' = IF strobe = "reset" THEN halts_cleared + 1 ELSE halts_cleared
             /\ strobe # "reset" => Quiet \/ Takes
             /\ strobe = "reset" => host_toggle' = 0 /\ delivered' = delivered /\ wire = "control"
<1>1. CASE QuietClock
  BY <1>1 DEF QuietClock, HostUnmoved, hostVars, Quiet
<1>2. CASE AskIn
  BY <1>2 DEF AskIn, HostUnmoved, hostVars, Quiet
<1>3. CASE Answer
  BY <1>3 DEF Answer, Quiet
<1>4. CASE AskElsewhere
  BY <1>4 DEF AskElsewhere, HostUnmoved, hostVars, Quiet
<1>5. CASE AckElsewhere
  BY <1>5 DEF AckElsewhere, HostUnmoved, hostVars, Quiet
<1>6. ASSUME NEW r \in BOOLEAN, Transmit(r)
      PROVE  \E i \in InputsFor("none", r) :
               DeviceClock(i, r) /\ halts_cleared' = halts_cleared /\ Quiet
  BY <1>6 DEF Transmit, Quiet
<1>7. CASE HostReceives
  BY <1>7 DEF HostReceives, EndOfPacket, Quiet, Takes
<1>8. CASE HostMisses
  BY <1>8 DEF HostMisses, EndOfPacket, Quiet
<1>9. CASE AckArrives
  BY <1>9 DEF AckArrives, HostUnmoved, hostVars, Quiet
<1>10. CASE AckLost
  BY <1>10 DEF AckLost, HostUnmoved, hostVars, Quiet
<1>11. CASE ControlToken
  BY <1>11 DEF ControlToken, HostUnmoved, hostVars, Quiet
<1>12. CASE ClearHalt
  BY <1>12 DEF ClearHalt
<1>13. CASE ForeignAck
  BY <1>13 DEF ForeignAck, HostUnmoved, hostVars, Quiet
<1>14. QED
  BY <1>1, <1>2, <1>3, <1>4, <1>5, <1>6, <1>7, <1>8, <1>9, <1>10, <1>11, <1>12, <1>13 DEF Next

\* What the endpoint drives is a byte, the one due if there is one.
LEMMA PayloadIsByte ==
  ASSUME FaultTypes
  PROVE  /\ M!out_payload \in Nat
         /\ read_adr[M!read] < Len(sent) => M!out_payload = sent[read_adr[M!read] + 1]
<1>1. sent \in Seq(Nat) /\ read_adr[M!read] \in Nat
  BY DEF FaultTypes, sent, M!read
<1>2. CASE read_adr[M!read] < Len(sent)
  BY <1>1, <1>2 DEF M!out_payload, M!read_fill_count, sent
<1>3. CASE ~(read_adr[M!read] < Len(sent))
  <2>1. M!out_payload = CHOOSE p \in 1 .. MaxBytes + 1 : TRUE
    BY <1>3 DEF M!out_payload, M!read_fill_count, sent
  <2>2. 1 \in 1 .. MaxBytes + 1
    BY BoundAssumption
  <2>3. M!out_payload \in 1 .. MaxBytes + 1
    BY <2>1, <2>2
  <2>4. QED BY <1>3, <2>3
<1>4. QED BY <1>2, <1>3

LEMMA WireTypes ==
  ASSUME FaultTypes, Next
  PROVE  /\ wire' \in {"quiet", "asked", "answer", "ack", "elsewhere", "control"}
         /\ incoming' \in Seq(Nat)
<1>1. wire' \in {"quiet", "asked", "answer", "ack", "elsewhere", "control"}
  BY DEF FaultTypes, Next, QuietClock, AskIn, Answer, AskElsewhere, AckElsewhere, Transmit,
         HostReceives, HostMisses, AckArrives, AckLost, ControlToken, ClearHalt, ForeignAck
<1>2. incoming' \in {incoming, << >>, Append(incoming, M!out_payload)}
  BY DEF Next, QuietClock, AskIn, Answer, AskElsewhere, AckElsewhere, Transmit, HostReceives,
         HostMisses, AckArrives, AckLost, ControlToken, ClearHalt, ForeignAck, HostUnmoved, hostVars
<1>3. incoming \in Seq(Nat) /\ M!out_payload \in Nat
  BY PayloadIsByte DEF FaultTypes
<1>4. Append(incoming, M!out_payload) \in Seq(Nat) /\ << >> \in Seq(Nat)
  BY <1>3, AppendProperties
<1>5. QED BY <1>1, <1>2, <1>3, <1>4

LEMMA FaultTypesKept ==
  ASSUME FaultTypes, FaultInStep, Next
  PROVE  FaultTypes'
<1>1. PICK strobe \in {"none", "token", "in", "ack", "reset"}, r \in BOOLEAN :
        \E i \in InputsFor(strobe, r) :
          /\ DeviceClock(i, r)
          /\ halts_cleared' = IF strobe = "reset" THEN halts_cleared + 1 ELSE halts_cleared
          /\ strobe # "reset" => Quiet \/ Takes
          /\ strobe = "reset" => host_toggle' = 0 /\ delivered' = delivered /\ wire = "control"
  BY StepIsClock
<1>2. PICK i \in InputsFor(strobe, r) : DeviceClock(i, r)
  BY <1>1
<1>3. Offered(i)
  BY <1>2, InputsAreOffered
<1>4. /\ state' \in {"WAIT_FOR_DATA", "WAIT_TO_SEND", "SEND_PACKET", "WAIT_FOR_ACK"}
      /\ buffer_toggle' \in {0, 1} /\ data_pid' \in 0 .. 3
      /\ buffer' \in [{0, 1} -> Seq(Nat)]
      /\ Len(sent') <= max_packet_size /\ Len(filling') <= max_packet_size
      /\ send_position' \in Nat /\ first' \in BOOLEAN /\ read_adr' \in [{0, 1} -> Nat]
  BY <1>2, <1>3, ManagerMoves DEF DeviceClock, FaultInStep
<1>5. /\ tx_state' \in {"IDLE", "SEND_PID", "SEND_PAYLOAD", "SEND_CRC_FIRST", "SEND_CRC_SECOND"}
      /\ is_zlp' \in BOOLEAN
  BY <1>2 DEF FaultTypes, DeviceClock, G!Clock, G!Idle, G!SendPid, G!SendPayload,
              G!SendCrcFirst, G!SendCrcSecond, G!vars
<1>6. accepted' \in Nat /\ dropped' \in BOOLEAN
  BY <1>2 DEF FaultTypes, DeviceClock, Produce
<1>7. halts_cleared' \in Nat
  BY <1>1 DEF FaultTypes
<1>8. delivered \in Seq(Nat) /\ incoming \in Seq(Nat) /\ host_toggle \in {0, 1}
  BY DEF FaultTypes
<1>9. delivered' \in Seq(Nat) /\ host_toggle' \in {0, 1}
  <2>1. CASE strobe = "reset"
    BY <1>1, <1>8, <2>1
  <2>2. CASE Quiet
    BY <1>8, <2>2 DEF Quiet
  <2>3. CASE Takes
    BY <1>8, <2>3, ConcatProperties DEF Takes
  <2>4. QED BY <1>1, <2>1, <2>2, <2>3
<1>10. QED BY <1>4, <1>5, <1>6, <1>7, <1>9, WireTypes DEF FaultTypes

\* A clock in which no packet is under way and none is asked for.
LEMMA IdleClock ==
  ASSUME FaultTypes, FaultInStep, NEW i, Offered(i), DeviceClock(i, FALSE), wire # "answer",
         ~i.in_token
  PROVE  /\ tx_state' = "IDLE" /\ state' # "SEND_PACKET" /\ ~first'
         /\ state' = "WAIT_FOR_ACK" => state = "WAIT_FOR_ACK" /\ ~i.new_token
         /\ state' = "WAIT_FOR_DATA" => sent' = << >>
<1>1. tx_state = "IDLE" /\ state # "SEND_PACKET" /\ ~first
  BY DEF FaultInStep
<1>2. tx_state' = "IDLE"
  <2>1. ~M!out_valid(i)
    BY <1>1 DEF M!out_valid, M!sends_zlp
  <2>2. QED
    BY <1>1, <2>1
       DEF DeviceClock, G!Clock, G!Idle, G!SendPid, G!SendPayload, G!SendCrcFirst,
           G!SendCrcSecond, G!vars
<1>3. state' = "WAIT_FOR_DATA" => sent' = << >>
  BY ManagerMoves DEF FaultInStep, DeviceClock
<1>4. CASE state = "WAIT_FOR_DATA"
  BY <1>1, <1>2, <1>3, <1>4, FaultWaitForData DEF FaultInStep, DeviceClock
<1>5. CASE state = "WAIT_TO_SEND"
  BY <1>1, <1>2, <1>3, <1>5, FaultWaitToSend DEF DeviceClock, Offered
<1>6. CASE state = "WAIT_FOR_ACK"
  BY <1>1, <1>2, <1>3, <1>6, FaultWaitForAck DEF DeviceClock, Offered
<1>7. QED BY <1>1, <1>4, <1>5, <1>6 DEF FaultTypes

\* The IN token starts a packet, or is answered by a NAK, or the packet is just discarded.
LEMMA AnswerStarts ==
  ASSUME FaultTypes, FaultInStep, NEW i \in InputsFor("in", FALSE), DeviceClock(i, FALSE),
         wire = "asked", wire' = IF M!nak(i) \/ i.discard THEN "quiet" ELSE "answer",
         incoming' = << >>
  PROVE  /\ FaultInStep'
         /\ wire' = "quiet" => state' \in {"WAIT_FOR_DATA", "WAIT_TO_SEND"}
         /\ wire' = "answer" => /\ ~Endless' /\ state = "WAIT_TO_SEND" /\ ~i.discard
                                /\ state' \in {"SEND_PACKET", "WAIT_FOR_ACK"}
                                /\ state' = "SEND_PACKET" => sent' # << >>
                                /\ state' = "WAIT_FOR_ACK" => sent' = << >>
<1>1. Offered(i) /\ i.in_token /\ ~i.reset_sequence /\ ~i.new_token /\ ~i.ack
  BY InputsAreOffered
<1>2. /\ tx_state = "IDLE" /\ state \in {"WAIT_FOR_DATA", "WAIT_TO_SEND"} /\ ~first
      /\ M!Clock(i) /\ Len(incoming') = 0 /\ incoming' = << >>
  BY DEF FaultInStep, FaultTypes, DeviceClock
<1>3. state' = "WAIT_FOR_DATA" => sent' = << >>
  BY <1>1, ManagerMoves DEF FaultInStep, DeviceClock
<1>4. /\ sent \in Seq(Nat) /\ Len(sent) \in Nat
      /\ (Len(sent) = 0 <=> sent = << >>)
  BY <1>1, AfterFits
<1>5. CASE state = "WAIT_FOR_DATA" \/ i.discard
  <2>1. wire' = "quiet"
    BY <1>1, <1>2, <1>5 DEF M!nak
  <2>2. ~M!out_valid(i)
    BY <1>2, <1>5 DEF M!out_valid, M!sends_zlp
  <2>3. tx_state' = "IDLE"
    BY <1>2, <2>2
       DEF DeviceClock, G!Clock, G!Idle, G!SendPid, G!SendPayload, G!SendCrcFirst,
           G!SendCrcSecond, G!vars
  <2>4. state' \in {"WAIT_FOR_DATA", "WAIT_TO_SEND"} /\ ~first'
    BY <1>1, <1>2, <1>5, FaultWaitForData, FaultWaitToSend DEF FaultInStep
  <2>5. QED BY <1>3, <2>1, <2>3, <2>4 DEF FaultInStep
<1>6. CASE state = "WAIT_TO_SEND" /\ ~i.discard
  <2>1. wire' = "answer"
    BY <1>6 DEF M!nak
  <2>2. Stays(i) /\ send_position' = 0 /\ data_pid' = data_pid /\ sent' = sent
    BY <1>1, <1>2, <1>6, FaultWaitToSend DEF Stays, Left
  <2>3. CASE Len(sent) = 0
    <3>1. state' = "WAIT_FOR_ACK" /\ ~first'
      BY <1>1, <1>2, <1>6, <2>3, FaultWaitToSend
    <3>2. M!sends_zlp(i)
      BY <1>1, <1>6, <2>3 DEF M!sends_zlp, M!read_fill_count, sent
    <3>3. tx_state' = "SEND_PID" /\ is_zlp' = TRUE /\ packet_pid' = data_pid
      BY <1>2, <3>2
         DEF DeviceClock, G!Clock, G!Idle, G!SendPid, G!SendPayload, G!SendCrcFirst,
             G!SendCrcSecond, G!vars, M!out_valid, M!out_last
    <3>4. Ending' /\ sent' = << >>
      BY <1>2, <1>4, <2>2, <2>3, <3>1, <3>3 DEF Ending
    <3>5. ~Endless'
      BY <3>1 DEF Endless
    <3>6. QED BY <1>6, <2>1, <3>1, <3>4, <3>5 DEF FaultInStep
  <2>4. CASE Len(sent) # 0
    <3>1. state' = "SEND_PACKET" /\ first' = TRUE
      BY <1>1, <1>2, <1>6, <2>4, FaultWaitToSend
    <3>2. ~M!out_valid(i)
      BY <1>6, <2>4 DEF M!out_valid, M!sends_zlp, M!read_fill_count, sent
    <3>3. tx_state' = "IDLE"
      BY <1>2, <3>2
         DEF DeviceClock, G!Clock, G!Idle, G!SendPid, G!SendPayload, G!SendCrcFirst,
             G!SendCrcSecond, G!vars
    <3>4. Underway' /\ sent' # << >>
      BY <1>2, <1>4, <2>2, <2>4, <3>1, <3>3 DEF Sending, Underway
    <3>5. ~Endless'
      BY <3>4 DEF Endless
    <3>6. QED BY <1>6, <2>1, <3>1, <3>4, <3>5 DEF FaultInStep
  <2>5. QED BY <2>3, <2>4
<1>7. QED BY <1>2, <1>5, <1>6

\* A clock of a packet under way: bytes of the buffer go out, one after the other.
LEMMA BytesGoOut ==
  ASSUME FaultTypes, FaultInStep, NEW r \in BOOLEAN, NEW i \in InputsFor("none", r),
         DeviceClock(i, r), wire = "answer", ~(r /\ tx_state = "SEND_CRC_SECOND"),
         incoming' = IF i.ready /\ M!out_valid(i) /\ Len(incoming) <= max_packet_size
                     THEN Append(incoming, M!out_payload) ELSE incoming,
         Underway
  PROVE  /\ Endless' \/ Underway' \/ Ending'
         /\ Stays(i) /\ data_pid' = data_pid /\ packet_pid' = data_pid
         /\ state' \in {"SEND_PACKET", "WAIT_FOR_ACK"}
         /\ Len(incoming') <= Len(sent) /\ incoming' \in Seq(Nat)
         /\ \A k \in 1 .. Len(incoming') : incoming'[k] = sent[k]
         /\ state' = "WAIT_FOR_ACK" => incoming' = sent
<1>1. /\ Offered(i) /\ ~i.in_token /\ ~i.new_token /\ ~i.ack /\ ~i.reset_sequence
      /\ i.ready <=> tx_state = "SEND_PAYLOAD" /\ r
  <2>1. /\ Offered(i) /\ ~i.in_token /\ ~i.new_token /\ ~i.ack /\ ~i.reset_sequence
        /\ (i.ready <=> G!stream_ready(r))
    BY InputsAreOffered
  <2>2. QED BY <2>1 DEF G!stream_ready
<1>2. /\ M!Clock(i) /\ G!Clock(data_pid, first, M!out_last(i), M!out_valid(i), r)
      /\ state = "SEND_PACKET" /\ M!out_valid(i) /\ send_position < Len(sent)
      /\ Len(incoming) = send_position
      /\ \A k \in 1 .. Len(incoming) : incoming[k] = sent[k]
  BY DEF DeviceClock, Underway, Sending, M!out_valid
<1>3. /\ sent \in Seq(Nat) /\ Len(sent) \in Nat /\ Len(sent) <= max_packet_size
      /\ data_pid \in 0 .. 3 /\ send_position \in Nat /\ incoming \in Seq(Nat)
      /\ max_packet_size \in Nat
  BY <1>1, AfterFits, SizeAssumption DEF FaultTypes
<1>4. Stays(i) /\ data_pid' = data_pid
  BY ZenonT(40), <1>1, <1>2, FaultSendPacket, FaultBuffers
<1>5. M!out_last(i) <=> send_position + 1 = Len(sent)
  BY <1>1, <1>2 DEF M!out_last, M!sends_zlp, M!read_fill_count, sent
<1>6. i.discard => sent' = << >>
  BY <1>4 DEF Stays, Left
<1>7. ~i.discard => sent' = sent
  BY <1>4 DEF Stays, Left
<1>8. M!read' = M!read
  <2>1. M!SendPacket(i)
    BY <1>2 DEF M!Clock, M!WaitForData, M!WaitToSend, M!WaitForAck
  <2>2. QED BY <2>1 DEF M!SendPacket, M!read
<1>9. read_adr'[M!read'] = IF i.ready THEN send_position + 1 ELSE send_position
  BY <1>1, <1>2, <1>8, FaultBuffers DEF M!Clock, M!ReadPorts, M!Buffers
<1>10. i.discard \/ ~i.discard
  OBVIOUS
<1>11. CASE tx_state = "SEND_PAYLOAD" /\ r
  <2>1. i.ready /\ read_adr[M!read] = send_position /\ packet_pid = data_pid
    BY <1>1, <1>11 DEF Sending, Underway
  <2>2. M!out_payload = sent[send_position + 1] /\ M!out_payload \in Nat
    BY <1>2, <2>1, PayloadIsByte
  <2>3. incoming' = Append(incoming, sent[send_position + 1])
    BY <1>2, <1>3, <2>1, <2>2
  <2>4. /\ incoming' \in Seq(Nat) /\ Len(incoming') = send_position + 1
        /\ \A k \in 1 .. Len(incoming') : incoming'[k] = sent[k]
    BY <1>2, <1>3, <2>2, <2>3, AppendProperties
  <2>5. /\ first' = FALSE /\ send_position' = send_position + 1
        /\ state' = IF send_position + 1 = Len(sent) THEN "WAIT_FOR_ACK" ELSE "SEND_PACKET"
    BY <1>1, <1>2, <2>1, FaultSendPacket
  <2>6. /\ tx_state' = IF M!out_last(i) THEN "SEND_CRC_FIRST" ELSE "SEND_PAYLOAD"
        /\ packet_pid' = packet_pid
    BY <1>2, <1>11
       DEF G!Clock, G!Idle, G!SendPid, G!SendPayload, G!SendCrcFirst, G!SendCrcSecond, G!vars
  <2>7. CASE send_position + 1 = Len(sent)
    <3>1. incoming' = sent
      BY <1>3, <2>4, <2>7, SeqEqual
    <3>2. Ending'
      BY <1>4, <1>5, <1>6, <1>7, <1>10, <2>1, <2>5, <2>6, <2>7, <3>1 DEF Ending
    <3>3. QED BY <1>3, <1>4, <2>1, <2>4, <2>5, <2>6, <2>7, <3>1, <3>2
  <2>8. CASE send_position + 1 # Len(sent)
    <3>1. /\ state' = "SEND_PACKET" /\ tx_state' = "SEND_PAYLOAD"
      BY <1>5, <2>5, <2>6, <2>8
    <3>2. i.discard => Endless'
      BY <1>6, <3>1 DEF Endless
    <3>3. ~i.discard => Underway'
      BY <1>2, <1>3, <1>4, <1>7, <1>9, <2>1, <2>4, <2>5, <2>6, <2>8, <3>1 DEF Underway, Sending
    <3>4. QED BY <1>3, <1>4, <1>10, <2>1, <2>4, <2>6, <2>8, <3>1, <3>2, <3>3, <1>2
  <2>9. QED BY <2>7, <2>8
<1>12. CASE ~(tx_state = "SEND_PAYLOAD" /\ r)
  <2>1. ~i.ready /\ incoming' = incoming
    BY <1>1, <1>12
  <2>2. state' = "SEND_PACKET" /\ first' = first /\ send_position' = send_position
    BY <1>1, <1>2, <2>1, FaultSendPacket
  <2>3. /\ tx_state \in {"IDLE", "SEND_PID", "SEND_PAYLOAD"} /\ (tx_state = "IDLE" => first)
        /\ (tx_state = "SEND_PID" => ~is_zlp) /\ (tx_state # "IDLE" => packet_pid = data_pid)
    BY DEF Underway, Sending
  <2>4. /\ packet_pid' = data_pid
        /\ tx_state = "IDLE" => tx_state' = "SEND_PID" /\ is_zlp' = FALSE
        /\ tx_state = "SEND_PID" => tx_state' \in {"SEND_PID", "SEND_PAYLOAD"} /\ is_zlp' = is_zlp
        /\ tx_state = "SEND_PAYLOAD" => tx_state' = "SEND_PAYLOAD" /\ is_zlp' = is_zlp
    BY <1>2, <1>12, <2>3
       DEF G!Clock, G!Idle, G!SendPid, G!SendPayload, G!SendCrcFirst, G!SendCrcSecond, G!vars
  <2>5. i.discard => Endless'
    BY <1>6, <2>2, <2>3, <2>4 DEF Endless
  <2>6. ~i.discard => Underway'
    BY <1>2, <1>4, <1>7, <1>9, <2>1, <2>2, <2>3, <2>4 DEF Underway, Sending
  <2>7. QED BY <1>2, <1>3, <1>4, <1>10, <2>1, <2>2, <2>4, <2>5, <2>6
<1>13. QED BY <1>11, <1>12

\* A packet without an end has none after any clock.
LEMMA NoEnd ==
  ASSUME FaultTypes, NEW r \in BOOLEAN, NEW i \in InputsFor("none", r), DeviceClock(i, r), Endless
  PROVE  Endless'
<1>1. Offered(i) /\ (i.ready <=> tx_state = "SEND_PAYLOAD" /\ r) /\ ~i.reset_sequence
  <2>1. Offered(i) /\ (i.ready <=> G!stream_ready(r)) /\ ~i.reset_sequence
    BY InputsAreOffered
  <2>2. QED BY <2>1 DEF G!stream_ready
<1>2. /\ M!Clock(i) /\ G!Clock(data_pid, first, M!out_last(i), M!out_valid(i), r)
      /\ state = "SEND_PACKET" /\ M!out_valid(i) /\ sent = << >> /\ Len(sent) = 0
      /\ send_position \in Nat
  BY DEF DeviceClock, Endless, M!out_valid, FaultTypes
<1>3. ~M!out_last(i)
  BY <1>2 DEF M!out_last, M!sends_zlp, M!read_fill_count, sent
<1>4. sent' = << >>
  BY <1>1, <1>2, FaultSendPacket DEF Stays, Left
<1>5. state' = "SEND_PACKET" /\ (~i.ready => first' = first)
  <2>1. send_position + 1 # Len(sent)
    BY <1>2
  <2>2. CASE i.ready
    BY <1>1, <1>2, <2>1, <2>2, FaultSendPacket
  <2>3. CASE ~i.ready
    BY <1>1, <1>2, <2>3, FaultSendPacket
  <2>4. QED BY <2>2, <2>3
<1>6. /\ tx_state = "IDLE" => tx_state' = "SEND_PID" /\ is_zlp' = FALSE
      /\ tx_state = "SEND_PID" => tx_state' \in {"SEND_PID", "SEND_PAYLOAD"} /\ is_zlp' = is_zlp
      /\ tx_state = "SEND_PAYLOAD" => tx_state' = "SEND_PAYLOAD" /\ is_zlp' = is_zlp
  BY <1>2, <1>3
     DEF Endless, G!Clock, G!Idle, G!SendPid, G!SendPayload, G!SendCrcFirst, G!SendCrcSecond, G!vars
<1>7. QED BY <1>4, <1>5, <1>6 DEF Endless

\* A clock of a packet whose bytes are out.
LEMMA EndingClock ==
  ASSUME FaultTypes, FaultInStep, NEW r \in BOOLEAN, NEW i \in InputsFor("none", r),
         DeviceClock(i, r), wire = "answer", Ending
  PROVE  /\ Offered(i) /\ ~i.in_token /\ ~i.new_token /\ ~i.ack /\ ~i.reset_sequence
         /\ state' # "SEND_PACKET" /\ ~first' /\ ~M!out_valid(i) /\ packet_pid' = packet_pid
         /\ state = "WAIT_FOR_ACK" =>
              /\ Stays(i) /\ data_pid' = data_pid
              /\ ~i.discard => state' = "WAIT_FOR_ACK" /\ sent' = sent
         /\ state' = "WAIT_FOR_ACK" => state = "WAIT_FOR_ACK" /\ ~i.discard
         /\ state # "WAIT_FOR_ACK" => state' \in {"WAIT_FOR_DATA", "WAIT_TO_SEND"}
         /\ r /\ tx_state = "SEND_CRC_SECOND" => tx_state' = "IDLE"
         /\ ~(r /\ tx_state = "SEND_CRC_SECOND") =>
              \/ tx_state = "SEND_PID" /\ is_zlp /\ tx_state' = "SEND_PID" /\ is_zlp'
              \/ tx_state' \in {"SEND_CRC_FIRST", "SEND_CRC_SECOND"}
<1>1. Offered(i) /\ ~i.in_token /\ ~i.new_token /\ ~i.ack /\ ~i.reset_sequence
  BY InputsAreOffered
<1>2. /\ M!Clock(i) /\ G!Clock(data_pid, first, M!out_last(i), M!out_valid(i), r)
      /\ state # "SEND_PACKET" /\ ~first /\ tx_state # "IDLE" /\ tx_state # "SEND_PAYLOAD"
      /\ (tx_state = "SEND_PID" => is_zlp)
  BY DEF DeviceClock, Ending
<1>3. ~M!out_valid(i)
  BY <1>1, <1>2 DEF M!out_valid, M!sends_zlp
<1>4. /\ packet_pid' = packet_pid
      /\ r /\ tx_state = "SEND_CRC_SECOND" => tx_state' = "IDLE"
      /\ ~(r /\ tx_state = "SEND_CRC_SECOND") =>
           \/ tx_state = "SEND_PID" /\ is_zlp /\ tx_state' = "SEND_PID" /\ is_zlp'
           \/ tx_state' \in {"SEND_CRC_FIRST", "SEND_CRC_SECOND"}
  BY <1>2
     DEF FaultTypes, G!Clock, G!Idle, G!SendPid, G!SendPayload, G!SendCrcFirst, G!SendCrcSecond, G!vars
<1>5. CASE state = "WAIT_FOR_DATA"
  BY <1>1, <1>2, <1>3, <1>4, <1>5, FaultWaitForData DEF FaultInStep
<1>6. CASE state = "WAIT_TO_SEND"
  <2>1. i.discard \/ ~i.discard
    OBVIOUS
  <2>2. state' \in {"WAIT_FOR_DATA", "WAIT_TO_SEND"} /\ first' = first
    BY <1>1, <1>2, <1>6, <2>1, FaultWaitToSend
  <2>3. QED BY <1>1, <1>2, <1>3, <1>4, <1>6, <2>2
<1>7. CASE state = "WAIT_FOR_ACK"
  <2>1. /\ Stays(i) /\ data_pid' = data_pid /\ first' = first
        /\ state' \in {"WAIT_FOR_DATA", "WAIT_TO_SEND", "WAIT_FOR_ACK"}
        /\ i.discard => state' = "WAIT_FOR_DATA"
        /\ ~i.discard => state' = state
    BY <1>1, <1>2, <1>7, FaultWaitForAck, FaultBuffers
  <2>2. ~i.discard => sent' = sent
    BY <2>1 DEF Stays, Left
  <2>3. QED BY <1>1, <1>2, <1>3, <1>4, <1>7, <2>1, <2>2
<1>8. QED BY <1>2, <1>5, <1>6, <1>7 DEF FaultTypes

LEMMA TransmitFault ==
  ASSUME FaultTypes, FaultInStep, NEW r \in BOOLEAN, Transmit(r)
  PROVE  FaultInStep'
<1>1. PICK i \in InputsFor("none", r) :
        /\ DeviceClock(i, r)
        /\ incoming' = IF i.ready /\ M!out_valid(i) /\ Len(incoming) <= max_packet_size
                       THEN Append(incoming, M!out_payload) ELSE incoming
  BY DEF Transmit
<1>2. wire = "answer" /\ wire' = "answer" /\ ~(r /\ tx_state = "SEND_CRC_SECOND")
  BY DEF Transmit
<1>3. state' = "WAIT_FOR_DATA" => sent' = << >>
  BY <1>1, ManagerMoves, InputsAreOffered DEF FaultInStep, DeviceClock
<1>4. CASE Endless
  BY <1>1, <1>2, <1>3, <1>4, NoEnd DEF FaultInStep
<1>5. CASE Underway
  BY <1>1, <1>2, <1>3, <1>5, BytesGoOut DEF FaultInStep
<1>6. CASE Ending
  <2>1. /\ state' # "SEND_PACKET" /\ ~first' /\ ~M!out_valid(i) /\ packet_pid' = packet_pid
        /\ state' = "WAIT_FOR_ACK" =>
             state = "WAIT_FOR_ACK" /\ data_pid' = data_pid /\ sent' = sent
        /\ \/ tx_state = "SEND_PID" /\ is_zlp /\ tx_state' = "SEND_PID" /\ is_zlp'
           \/ tx_state' \in {"SEND_CRC_FIRST", "SEND_CRC_SECOND"}
    BY <1>1, <1>2, <1>6, EndingClock
  <2>2. incoming' = incoming
    BY <1>1, <2>1
  <2>3. Ending'
    BY <1>6, <2>1, <2>2 DEF Ending
  <2>4. QED BY <1>2, <1>3, <2>3 DEF FaultInStep
<1>7. QED BY <1>2, <1>4, <1>5, <1>6 DEF FaultInStep

LEMMA EndOfPacketFault ==
  ASSUME FaultTypes, FaultInStep, HostReceives \/ HostMisses
  PROVE  FaultInStep'
<1>1. PICK i \in InputsFor("none", TRUE) : DeviceClock(i, TRUE)
  BY DEF HostReceives, HostMisses, EndOfPacket
<1>2. wire = "answer" /\ tx_state = "SEND_CRC_SECOND" /\ wire' \in {"ack", "quiet"}
  BY DEF HostReceives, HostMisses, EndOfPacket
<1>3. Ending
  BY <1>2 DEF FaultInStep, Endless, Underway, Sending
<1>4. state' # "SEND_PACKET" /\ ~first' /\ tx_state' = "IDLE"
  BY <1>1, <1>2, <1>3, EndingClock
<1>5. state' = "WAIT_FOR_DATA" => sent' = << >>
  BY <1>1, ManagerMoves, InputsAreOffered DEF FaultInStep, DeviceClock
<1>6. QED BY <1>2, <1>4, <1>5 DEF FaultInStep

LEMMA FaultInStepKept ==
  ASSUME FaultTypes, FaultInStep, Next
  PROVE  FaultInStep'
<1>1. ASSUME NEW strobe \in {"none", "token", "ack", "reset"}, NEW i \in InputsFor(strobe, FALSE),
             DeviceClock(i, FALSE), wire # "answer",
             \/ wire' \in {"asked", "elsewhere", "control"} /\ strobe = "token"
             \/ wire' = wire /\ strobe \in {"none", "ack"}
             \/ wire' = "quiet"
      PROVE  FaultInStep'
  <2>1. Offered(i) /\ ~i.in_token /\ (i.new_token <=> strobe = "token")
    BY <1>1, InputsAreOffered
  <2>2. /\ tx_state' = "IDLE" /\ state' # "SEND_PACKET" /\ ~first'
        /\ state' = "WAIT_FOR_ACK" => state = "WAIT_FOR_ACK" /\ ~i.new_token
        /\ state' = "WAIT_FOR_DATA" => sent' = << >>
    BY <1>1, <2>1, IdleClock
  <2>3. QED BY <1>1, <2>1, <2>2 DEF FaultInStep
<1>2. CASE QuietClock
  BY <1>1, <1>2 DEF QuietClock
<1>3. CASE AskIn
  BY <1>1, <1>3 DEF AskIn
<1>4. CASE Answer
  BY <1>4, AnswerStarts DEF Answer
<1>5. CASE AskElsewhere
  BY <1>1, <1>5 DEF AskElsewhere
<1>6. CASE AckElsewhere
  BY <1>1, <1>6 DEF AckElsewhere
<1>7. ASSUME NEW r \in BOOLEAN, Transmit(r) PROVE FaultInStep'
  BY <1>7, TransmitFault
<1>8. CASE HostReceives \/ HostMisses
  BY <1>8, EndOfPacketFault
<1>9. CASE AckArrives
  BY <1>1, <1>9 DEF AckArrives
<1>10. CASE AckLost
  BY <1>1, <1>10 DEF AckLost
<1>11. CASE ControlToken
  BY <1>1, <1>11 DEF ControlToken
<1>12. CASE ClearHalt
  BY <1>1, <1>12 DEF ClearHalt
<1>13. CASE ForeignAck
  BY <1>1, <1>13 DEF ForeignAck
<1>14. QED
  BY <1>2, <1>3, <1>4, <1>5, <1>6, <1>7, <1>8, <1>9, <1>10, <1>11, <1>12, <1>13 DEF Next

---------------------------------------------------------------------------
(* No byte reaches the host twice *)

LEMMA NothingInEmpty ==
  ASSUME NEW s, NEW n
  PROVE  Rising(<< >>) /\ UpTo(<< >>, n) /\ Below(s, << >>) /\ Below(<< >>, s)
BY DEF Rising, UpTo, Below

\* A byte that is accepted now is behind all that came before it.
LEMMA AfterOrdered ==
  ASSUME FaultTypes, NEW i, Offered(i), Produce(i), Rising(filling), UpTo(filling, accepted)
  PROVE  /\ accepted' \in Nat /\ accepted <= accepted'
         /\ Rising(After(i)) /\ UpTo(After(i), accepted')
         /\ \A s \in Seq(Nat) : UpTo(s, accepted) /\ Below(s, filling) => Below(s, After(i))
<1>1. /\ accepted \in Nat /\ filling \in Seq(Nat) /\ Len(filling) \in Nat
      /\ \A k \in 1 .. Len(filling) : filling[k] \in Nat /\ filling[k] <= accepted
  BY AfterFits, ElementOfSeq DEF FaultTypes, UpTo
<1>2. accepted' = IF M!byte_accepted(i) THEN accepted + 1 ELSE accepted
  BY DEF Produce
<1>3. CASE M!byte_accepted(i)
  <2>1. /\ Len(After(i)) = Len(filling) + 1 /\ After(i)[Len(filling) + 1] = accepted + 1
        /\ \A k \in 1 .. Len(filling) : After(i)[k] = filling[k]
    BY <1>3, AfterFits
  <2>2. \A k \in 1 .. Len(After(i)) : k \in 1 .. Len(filling) \/ k = Len(filling) + 1
    BY <1>1, <2>1
  <2>3. UpTo(After(i), accepted + 1)
    BY <1>1, <2>1, <2>2 DEF UpTo
  <2>4. Rising(After(i))
    <3>0. \A k \in 1 .. Len(After(i)) : 0 < After(i)[k]
      BY SMTT(30), <1>1, <2>1, <2>2 DEF Rising
    <3>1. SUFFICES ASSUME NEW j \in 1 .. Len(After(i)), NEW k \in 1 .. Len(After(i)), j < k
                   PROVE  After(i)[j] < After(i)[k]
      BY <3>0 DEF Rising
    <3>2. j \in 1 .. Len(filling)
      BY <1>1, <2>1, <3>1
    <3>3. CASE k \in 1 .. Len(filling)
      BY <2>1, <3>1, <3>2, <3>3 DEF Rising
    <3>4. CASE k = Len(filling) + 1
      BY SMTT(30), <1>1, <2>1, <3>2, <3>4
    <3>5. QED BY <2>2, <3>3, <3>4
  <2>5. ASSUME NEW s \in Seq(Nat), UpTo(s, accepted), Below(s, filling)
        PROVE  Below(s, After(i))
    <3>1. SUFFICES ASSUME NEW j \in 1 .. Len(s), NEW k \in 1 .. Len(After(i))
                   PROVE  s[j] < After(i)[k]
      BY DEF Below
    <3>2. CASE k \in 1 .. Len(filling)
      BY <2>1, <2>5, <3>2 DEF Below
    <3>3. CASE k = Len(filling) + 1
      <4>1. s[j] <= accepted /\ s[j] \in Nat
        BY <2>5, ElementOfSeq DEF UpTo
      <4>2. QED BY <1>1, <2>1, <3>3, <4>1
    <3>4. QED BY <2>2, <3>2, <3>3
  <2>6. QED BY <1>1, <1>2, <1>3, <2>3, <2>4, <2>5
<1>4. CASE ~M!byte_accepted(i)
  <2>1. After(i) = filling \/ After(i) = << >>
    BY <1>4, AfterFits
  <2>2. accepted' = accepted
    BY <1>2, <1>4
  <2>3. QED BY <1>1, <2>1, <2>2, NothingInEmpty
<1>5. QED BY <1>3, <1>4

\* What the buffers hold stays in order and behind all that was before them.
BuffersOrdered ==
  /\ Rising(sent) /\ Rising(filling) /\ UpTo(sent, accepted) /\ UpTo(filling, accepted)
  /\ Below(sent, filling)

LEMMA MovesKeepOrder ==
  ASSUME FaultTypes, BuffersOrdered, NEW i, Offered(i), Produce(i),
         Stays(i) \/ Empties(i) \/ TurnsOver(i)
  PROVE  /\ BuffersOrdered'
         /\ \A s \in Seq(Nat) : UpTo(s, accepted) /\ Below(s, filling) =>
              /\ UpTo(s, accepted') /\ Below(s, filling')
              /\ Below(s, sent) => Below(s, sent')
              /\ TurnsOver(i) \/ Empties(i) => Below(s, sent')
<1>1. /\ accepted \in Nat /\ accepted' \in Nat /\ accepted <= accepted'
      /\ Rising(After(i)) /\ UpTo(After(i), accepted')
      /\ \A s \in Seq(Nat) : UpTo(s, accepted) /\ Below(s, filling) => Below(s, After(i))
  BY AfterOrdered DEF BuffersOrdered, FaultTypes
<1>2. \A s \in Seq(Nat) : UpTo(s, accepted) => UpTo(s, accepted')
  <2>1. SUFFICES ASSUME NEW s \in Seq(Nat), UpTo(s, accepted), NEW k \in 1 .. Len(s)
                 PROVE  s[k] <= accepted'
    BY DEF UpTo
  <2>2. s[k] \in Nat /\ s[k] <= accepted
    BY <2>1, ElementOfSeq DEF UpTo
  <2>3. QED BY <1>1, <2>2
<1>3. /\ sent \in Seq(Nat) /\ UpTo(sent, accepted) /\ Rising(sent)
      /\ Below(sent, filling) /\ Below(sent, After(i))
  BY <1>1, AfterFits DEF BuffersOrdered
<1>4. CASE Stays(i)
  <2>1. filling' = After(i) /\ (sent' = sent \/ sent' = << >>)
    BY <1>4 DEF Stays, Left
  <2>2. BuffersOrdered'
    BY <1>1, <1>2, <1>3, <2>1, NothingInEmpty DEF BuffersOrdered
  <2>3. ASSUME NEW s \in Seq(Nat), UpTo(s, accepted), Below(s, filling)
        PROVE  /\ UpTo(s, accepted') /\ Below(s, filling')
               /\ Below(s, sent) => Below(s, sent')
               /\ TurnsOver(i) \/ Empties(i) => Below(s, sent')
    BY <1>1, <1>2, <2>1, <2>3, NothingInEmpty DEF TurnsOver, Empties
  <2>4. QED BY <2>2, <2>3
<1>5. CASE Empties(i)
  <2>1. filling' = After(i) /\ sent' = << >>
    BY <1>5 DEF Empties
  <2>2. QED BY <1>1, <1>2, <2>1, NothingInEmpty DEF BuffersOrdered
<1>6. CASE TurnsOver(i)
  <2>1. sent' = After(i) /\ filling' = << >>
    BY <1>6 DEF TurnsOver
  <2>2. QED BY <1>1, <1>2, <2>1, NothingInEmpty DEF BuffersOrdered
<1>7. QED BY <1>4, <1>5, <1>6

\* What the host has and what is on the wire, joined.
LEMMA JoinedOrder ==
  ASSUME NEW s \in Seq(Nat), NEW t \in Seq(Nat), NEW n \in Nat
  PROVE  /\ s \o t \in Seq(Nat)
         /\ Rising(s) /\ Rising(t) /\ Below(s, t) => Rising(s \o t)
         /\ UpTo(s, n) /\ UpTo(t, n) => UpTo(s \o t, n)
         /\ \A u : Below(s, u) /\ Below(t, u) => Below(s \o t, u)
<1>1. /\ s \o t \in Seq(Nat) /\ Len(s \o t) = Len(s) + Len(t)
      /\ \A k \in 1 .. Len(s) + Len(t) : (s \o t)[k] = IF k <= Len(s) THEN s[k] ELSE t[k - Len(s)]
  BY ConcatProperties
<1>2. Len(s) \in Nat /\ Len(t) \in Nat
  OBVIOUS
<1>3. DEFINE w == s \o t
<1>4. \A k \in 1 .. Len(w) : \/ k \in 1 .. Len(s) /\ w[k] = s[k]
                             \/ k - Len(s) \in 1 .. Len(t) /\ w[k] = t[k - Len(s)] /\ Len(s) < k
  BY <1>1, <1>2
<1>5. w \in Seq(Nat)
  BY <1>1
<1>6. HIDE DEF w
<1>7. Rising(s) /\ Rising(t) /\ Below(s, t) => Rising(w)
  <2>0. Rising(s) /\ Rising(t) => \A k \in 1 .. Len(w) : 0 < w[k]
    BY <1>4 DEF Rising
  <2>1. SUFFICES ASSUME Rising(s), Rising(t), Below(s, t),
                        NEW j \in 1 .. Len(w), NEW k \in 1 .. Len(w), j < k
                 PROVE  w[j] < w[k]
    BY <2>0 DEF Rising
  <2>2. CASE k \in 1 .. Len(s) /\ w[k] = s[k]
    <3>1. j \in 1 .. Len(s) /\ w[j] = s[j]
      BY <1>2, <1>4, <2>1, <2>2
    <3>2. QED BY <2>1, <2>2, <3>1 DEF Rising
  <2>3. CASE k - Len(s) \in 1 .. Len(t) /\ w[k] = t[k - Len(s)] /\ Len(s) < k
    <3>1. CASE j \in 1 .. Len(s) /\ w[j] = s[j]
      BY <2>1, <2>3, <3>1 DEF Below
    <3>2. CASE j - Len(s) \in 1 .. Len(t) /\ w[j] = t[j - Len(s)]
      <4>1. j - Len(s) < k - Len(s)
        BY <1>2, <2>1
      <4>2. QED BY <2>1, <2>3, <3>2, <4>1 DEF Rising
    <3>3. QED BY <1>4, <3>1, <3>2
  <2>4. QED BY <1>4, <2>2, <2>3
<1>8. UpTo(s, n) /\ UpTo(t, n) => UpTo(w, n)
  BY <1>4 DEF UpTo
<1>9. ASSUME NEW u, Below(s, u), Below(t, u) PROVE Below(w, u)
  BY <1>4, <1>9 DEF Below
<1>10. QED BY <1>5, <1>7, <1>8, <1>9 DEF w

\* A clock leaves the order of what host and buffers hold, unless the host takes a packet.
HeldOrdered ==
  /\ data_pid \in {0, 1} /\ BuffersOrdered
  /\ Rising(delivered) /\ UpTo(delivered, accepted) /\ Below(delivered, filling)
  /\ ~Taken => Below(delivered, sent)

LEMMA QuietKeepsOrder ==
  ASSUME FaultTypes, FaultInStep, HeldOrdered, NEW i, Offered(i), M!Clock(i), Produce(i),
         ~i.reset_sequence, Quiet
  PROVE  HeldOrdered'
<1>1. /\ Moves(i) /\ data_pid' \in {0, 1}
      /\ Stays(i) \/ Empties(i) \/ TurnsOver(i)
  BY ManagerMoves DEF FaultInStep, HeldOrdered
<1>2. delivered \in Seq(Nat) /\ delivered' = delivered /\ host_toggle' = host_toggle
  BY DEF Quiet, FaultTypes
<1>3. /\ BuffersOrdered'
      /\ UpTo(delivered, accepted') /\ Below(delivered, filling')
      /\ Below(delivered, sent) => Below(delivered, sent')
      /\ TurnsOver(i) \/ Empties(i) => Below(delivered, sent')
  BY <1>1, <1>2, MovesKeepOrder DEF HeldOrdered
<1>4. ~Taken' => Below(delivered, sent')
  <2>1. CASE Stays(i) /\ i.discard
    <3>1. sent' = << >>
      BY <2>1 DEF Stays, Left
    <3>2. QED BY <3>1, NothingInEmpty
  <2>2. CASE data_pid' = data_pid
    BY <1>2, <1>3, <2>2 DEF Taken, HeldOrdered
  <2>3. QED BY <1>1, <1>3, <2>1, <2>2 DEF Moves
<1>5. QED BY <1>1, <1>2, <1>3, <1>4 DEF HeldOrdered

\* The host takes a packet: it is on the wire, behind what the host has.
LEMMA TakingKeepsOrder ==
  ASSUME FaultTypes, FaultInStep, HeldOrdered, OnTheWire, Takes,
         NEW i \in InputsFor("none", TRUE), DeviceClock(i, TRUE)
  PROVE  HeldOrdered'
<1>1. /\ Ending /\ wire = "answer" /\ tx_state # "IDLE" /\ packet_pid = host_toggle
      /\ delivered' = delivered \o incoming /\ host_toggle' = 1 - host_toggle
      /\ host_toggle \in {0, 1}
  BY DEF Takes, FaultInStep, Endless, Underway, Sending, FaultTypes
<1>2. /\ Offered(i) /\ ~i.reset_sequence
      /\ state = "WAIT_FOR_ACK" => data_pid' = data_pid
  BY <1>1, EndingClock
<1>3. /\ Moves(i) /\ data_pid' \in {0, 1} /\ Produce(i)
      /\ Stays(i) \/ Empties(i) \/ TurnsOver(i)
  BY <1>2, ManagerMoves DEF FaultInStep, HeldOrdered, DeviceClock
<1>4. /\ delivered \in Seq(Nat) /\ incoming \in Seq(Nat) /\ accepted' \in Nat
  BY <1>2, <1>3, AfterOrdered DEF FaultTypes, HeldOrdered, BuffersOrdered
<1>5. /\ Rising(incoming) /\ UpTo(incoming, accepted) /\ Below(incoming, filling)
      /\ Below(delivered, incoming)
  BY <1>1 DEF OnTheWire
<1>6. /\ BuffersOrdered'
      /\ UpTo(delivered, accepted') /\ Below(delivered, filling')
      /\ Below(delivered, sent) => Below(delivered, sent')
      /\ UpTo(incoming, accepted') /\ Below(incoming, filling')
      /\ Below(incoming, sent) => Below(incoming, sent')
  BY <1>2, <1>3, <1>4, <1>5, MovesKeepOrder DEF HeldOrdered
<1>7. /\ Rising(delivered') /\ UpTo(delivered', accepted') /\ Below(delivered', filling')
      /\ Below(delivered, sent') /\ Below(incoming, sent') => Below(delivered', sent')
  BY <1>1, <1>4, <1>5, <1>6, JoinedOrder DEF HeldOrdered
<1>8. ~Taken' => Below(delivered', sent')
  <2>1. CASE state = "WAIT_FOR_ACK"
    <3>1. packet_pid = data_pid
      BY <1>1, <2>1 DEF Ending
    <3>2. Taken'
      BY <1>1, <1>2, <2>1, <3>1 DEF Taken
    <3>3. QED BY <3>2
  <2>2. CASE state \in {"WAIT_FOR_DATA", "WAIT_TO_SEND"}
    <3>1. Below(delivered, sent) /\ Below(incoming, sent)
      BY <2>2 DEF OnTheWire
    <3>2. QED BY <1>6, <1>7, <3>1
  <2>3. QED BY <1>1, <2>1, <2>2 DEF Ending, FaultTypes
<1>9. QED BY <1>3, <1>6, <1>7, <1>8 DEF HeldOrdered

\* A byte that goes out comes from the buffer, so the wire is in order as well.
LEMMA WireInOrder ==
  ASSUME FaultTypes, FaultInStep, HeldOrdered, wire = "answer" /\ ~Endless => OnTheWire,
         NEW r \in BOOLEAN, Transmit(r), ~Endless'
  PROVE  OnTheWire'
<1>1. PICK i \in InputsFor("none", r) :
        /\ DeviceClock(i, r)
        /\ incoming' = IF i.ready /\ M!out_valid(i) /\ Len(incoming) <= max_packet_size
                       THEN Append(incoming, M!out_payload) ELSE incoming
  BY DEF Transmit
<1>2. /\ wire = "answer" /\ ~(r /\ tx_state = "SEND_CRC_SECOND")
      /\ host_toggle' = host_toggle /\ delivered' = delivered
      /\ delivered \in Seq(Nat) /\ incoming \in Seq(Nat)
  BY DEF Transmit, FaultTypes
<1>3. Offered(i) /\ ~i.reset_sequence /\ M!Clock(i) /\ Produce(i)
  BY <1>1, InputsAreOffered DEF DeviceClock
<1>4. Stays(i) \/ Empties(i) \/ TurnsOver(i)
  BY <1>3, ManagerMoves DEF FaultInStep
<1>5. \A s \in Seq(Nat) : UpTo(s, accepted) /\ Below(s, filling) =>
        /\ UpTo(s, accepted') /\ Below(s, filling')
        /\ Below(s, sent) => Below(s, sent')
  BY <1>3, <1>4, MovesKeepOrder DEF HeldOrdered
<1>6. CASE Underway
  <2>1. /\ packet_pid' = data_pid /\ state' \in {"SEND_PACKET", "WAIT_FOR_ACK"}
        /\ Len(incoming') <= Len(sent) /\ incoming' \in Seq(Nat)
        /\ \A k \in 1 .. Len(incoming') : incoming'[k] = sent[k]
    BY <1>1, <1>2, <1>6, BytesGoOut
  <2>2. sent \in Seq(Nat) /\ Len(sent) \in Nat
    BY <1>3, AfterFits
  <2>3. \A k \in 1 .. Len(incoming') : k \in 1 .. Len(sent) /\ incoming'[k] = sent[k]
    BY <2>1, <2>2
  <2>4. Rising(incoming') /\ UpTo(incoming', accepted) /\ Below(incoming', filling)
    BY <2>3 DEF Rising, UpTo, Below, HeldOrdered, BuffersOrdered
  <2>5. UpTo(incoming', accepted') /\ Below(incoming', filling')
    BY <1>5, <2>1, <2>4
  <2>6. ASSUME packet_pid' = host_toggle' PROVE Below(delivered', incoming')
    <3>1. Below(delivered, sent)
      BY <1>2, <2>1, <2>6 DEF Taken, HeldOrdered
    <3>2. QED BY <1>2, <2>3, <3>1 DEF Below
  <2>7. QED BY <2>1, <2>4, <2>5, <2>6 DEF OnTheWire
<1>7. CASE Ending
  <2>1. /\ ~M!out_valid(i) /\ packet_pid' = packet_pid
        /\ state = "WAIT_FOR_ACK" => Stays(i) /\ (~i.discard => state' = "WAIT_FOR_ACK")
    BY <1>1, <1>2, <1>7, EndingClock
  <2>2. incoming' = incoming /\ tx_state # "IDLE"
    BY <1>1, <1>7, <2>1 DEF Ending
  <2>3. OnTheWire
    BY <1>2, <1>7 DEF Ending, Endless
  <2>4. /\ Rising(incoming') /\ UpTo(incoming', accepted') /\ Below(incoming', filling')
        /\ packet_pid' = host_toggle' => Below(delivered', incoming')
    BY <1>2, <1>5, <2>1, <2>2, <2>3 DEF OnTheWire
  <2>5. ASSUME state' \in {"WAIT_FOR_DATA", "WAIT_TO_SEND"}
        PROVE  Below(delivered', sent') /\ Below(incoming', sent')
    <3>1. CASE state = "WAIT_FOR_ACK"
      <4>1. sent' = << >>
        BY <2>1, <2>5, <3>1 DEF Stays, Left
      <4>2. QED BY <4>1, NothingInEmpty
    <3>2. CASE state \in {"WAIT_FOR_DATA", "WAIT_TO_SEND"}
      <4>1. Below(delivered, sent) /\ Below(incoming, sent)
        BY <2>3, <3>2 DEF OnTheWire
      <4>2. QED BY <1>2, <1>5, <2>2, <2>3, <4>1 DEF HeldOrdered, OnTheWire
    <3>3. QED BY <1>7, <3>1, <3>2 DEF Ending, FaultTypes
  <2>6. QED BY <2>4, <2>5 DEF OnTheWire
<1>8. CASE Endless
  BY <1>1, <1>8, NoEnd
<1>9. QED BY <1>2, <1>6, <1>7, <1>8 DEF FaultInStep

LEMMA NoRepeatsKept ==
  ASSUME FaultTypes, FaultInStep, NoRepeats, Next
  PROVE  NoRepeats'
<1>1. SUFFICES ASSUME halts_cleared' = 0 PROVE Ordered'
  BY DEF NoRepeats
<1>2. PICK strobe \in {"none", "token", "in", "ack", "reset"}, r \in BOOLEAN :
        \E i \in InputsFor(strobe, r) :
          /\ DeviceClock(i, r)
          /\ halts_cleared' = IF strobe = "reset" THEN halts_cleared + 1 ELSE halts_cleared
          /\ strobe # "reset" => Quiet \/ Takes
          /\ strobe = "reset" => host_toggle' = 0 /\ delivered' = delivered /\ wire = "control"
  BY StepIsClock
<1>3. strobe # "reset" /\ halts_cleared = 0
  BY <1>1, <1>2 DEF FaultTypes
<1>4. HeldOrdered /\ (wire = "answer" /\ ~Endless => OnTheWire)
  BY <1>3 DEF NoRepeats, Ordered, HeldOrdered, BuffersOrdered
<1>5. PICK i \in InputsFor(strobe, r) : DeviceClock(i, r)
  BY <1>2
<1>6. Offered(i) /\ ~i.reset_sequence /\ M!Clock(i) /\ Produce(i)
  BY <1>3, <1>5, InputsAreOffered DEF DeviceClock
<1>7. HeldOrdered'
  <2>1. CASE Quiet
    BY <1>4, <1>6, <2>1, QuietKeepsOrder
  <2>2. CASE Takes /\ ~Quiet
    <3>1. HostReceives
      BY <2>2 DEF Next, QuietClock, AskIn, Answer, AskElsewhere, AckElsewhere, Transmit, HostMisses,
                  AckArrives, AckLost, ControlToken, ClearHalt, ForeignAck, Takes
    <3>2. PICK j \in InputsFor("none", TRUE) : DeviceClock(j, TRUE)
      BY <3>1 DEF HostReceives, EndOfPacket
    <3>3. OnTheWire
      BY <1>4, <2>2 DEF Takes, Endless
    <3>4. QED BY <1>4, <2>2, <3>2, <3>3, TakingKeepsOrder
  <2>3. QED BY <1>2, <1>3, <2>1, <2>2
<1>8. ASSUME wire' = "answer", ~Endless' PROVE OnTheWire'
  <2>1. CASE Answer
    <3>1. PICK j \in InputsFor("in", FALSE) :
            DeviceClock(j, FALSE) /\ wire' = IF M!nak(j) \/ j.discard THEN "quiet" ELSE "answer"
      BY <2>1 DEF Answer
    <3>2. wire = "asked" /\ incoming' = << >>
      BY <2>1 DEF Answer
    <3>3. state' \in {"SEND_PACKET", "WAIT_FOR_ACK"}
      BY <1>8, <3>1, <3>2, AnswerStarts
    <3>4. QED BY <3>2, <3>3, NothingInEmpty DEF OnTheWire
  <2>2. ASSUME NEW q \in BOOLEAN, Transmit(q) PROVE OnTheWire'
    BY <1>4, <1>8, <2>2, WireInOrder
  <2>3. QED
    BY <1>8, <2>1, <2>2
       DEF Next, QuietClock, AskIn, AskElsewhere, AckElsewhere, HostReceives, HostMisses,
           AckArrives, AckLost, ControlToken, ClearHalt, ForeignAck
<1>9. QED BY <1>7, <1>8 DEF Ordered, HeldOrdered, BuffersOrdered

---------------------------------------------------------------------------
(* No byte is left out *)

Contiguous ==
  /\ Start >= 0
  /\ \A k \in 1 .. Len(sent) : sent[k] = Start + k
  /\ \A k \in 1 .. Len(filling) : filling[k] = Start + Len(sent) + k
NoStepUp(s) == \A k \in 1 .. Len(s) : s[k] <= (IF k = 1 THEN 0 ELSE s[k - 1]) + 1

LEMMA FaultCounts ==
  ASSUME FaultTypes
  PROVE  /\ sent \in Seq(Nat) /\ filling \in Seq(Nat) /\ delivered \in Seq(Nat)
         /\ Len(sent) \in Nat /\ Len(filling) \in Nat /\ Len(delivered) \in Nat
         /\ accepted \in Nat /\ Start \in Int /\ Reached \in Nat
         /\ data_pid \in 0 .. 3 /\ host_toggle \in {0, 1}
         /\ Len(sent) = 0 <=> sent = << >>
<1>1. /\ sent \in Seq(Nat) /\ filling \in Seq(Nat) /\ delivered \in Seq(Nat)
      /\ accepted \in Nat /\ data_pid \in 0 .. 3 /\ host_toggle \in {0, 1}
  BY DEF FaultTypes, sent, filling, M!read, M!write
<1>2. Len(sent) \in Nat /\ Len(filling) \in Nat /\ Len(delivered) \in Nat
  BY <1>1
<1>3. Reached \in Nat
  <2>1. CASE delivered = << >>
    BY <2>1 DEF Reached
  <2>2. CASE delivered # << >>
    <3>1. Len(delivered) \in 1 .. Len(delivered)
      BY <1>1, <2>2, EmptySeq
    <3>2. QED BY <1>1, <2>2, <3>1, ElementOfSeq DEF Reached
  <2>3. QED BY <2>1, <2>2
<1>4. Len(sent) = 0 <=> sent = << >>
  BY <1>1
<1>5. QED BY <1>1, <1>2, <1>3, <1>4 DEF Start

\* Without a discard the bytes stay contiguous; the sent packet is left behind or not.
LEMMA ContiguousKept ==
  ASSUME FaultTypes, Contiguous, NEW i, Offered(i), Produce(i), ~i.discard,
         Stays(i) \/ Empties(i) \/ TurnsOver(i)
  PROVE  /\ Contiguous'
         /\ Stays(i) => Start' = Start /\ sent' = sent
         /\ Empties(i) \/ TurnsOver(i) => Start' = Start + Len(sent)
<1>1. /\ accepted \in Nat /\ Len(sent) \in Nat /\ Len(filling) \in Nat /\ Start \in Int
      /\ Start = accepted - Len(filling) - Len(sent) /\ Start >= 0
  BY FaultCounts DEF Start, Contiguous
<1>2. /\ After(i) \in Seq(Nat) /\ Len(After(i)) \in Nat
      /\ accepted' - Len(After(i)) = accepted - Len(filling) /\ accepted' \in Nat
      /\ \A k \in 1 .. Len(After(i)) : After(i)[k] = Start + Len(sent) + k
  <2>1. CASE M!byte_accepted(i)
    <3>1. /\ After(i) \in Seq(Nat) /\ Len(After(i)) = Len(filling) + 1
          /\ After(i)[Len(filling) + 1] = accepted + 1 /\ accepted' = accepted + 1
          /\ \A k \in 1 .. Len(filling) : After(i)[k] = filling[k]
      BY <2>1, AfterFits DEF Produce
    <3>2. ASSUME NEW k \in 1 .. Len(After(i)) PROVE After(i)[k] = Start + Len(sent) + k
      <4>1. k \in 1 .. Len(filling) \/ k = Len(filling) + 1
        BY <1>1, <3>1
      <4>2. CASE k \in 1 .. Len(filling)
        BY <3>1, <4>2 DEF Contiguous
      <4>3. CASE k = Len(filling) + 1
        BY <1>1, <3>1, <4>3
      <4>4. QED BY <4>1, <4>2, <4>3
    <3>3. QED BY <1>1, <3>1, <3>2
  <2>2. CASE ~M!byte_accepted(i)
    <3>1. After(i) = filling /\ filling \in Seq(Nat) /\ accepted' = accepted
      BY <2>2, AfterFits DEF Produce
    <3>2. QED BY <1>1, <3>1 DEF Contiguous
  <2>3. QED BY <2>1, <2>2
<1>3. CASE Stays(i)
  <2>1. sent' = sent /\ filling' = After(i)
    BY <1>3 DEF Stays, Left
  <2>2. Start' = Start
    BY <1>1, <1>2, <2>1 DEF Start
  <2>3. Contiguous'
    BY <1>1, <1>2, <2>1, <2>2 DEF Contiguous
  <2>4. Empties(i) \/ TurnsOver(i) => Start' = Start + Len(sent)
    <3>1. Empties(i) => sent = << >>
      BY <2>1 DEF Empties
    <3>2. ASSUME TurnsOver(i) PROVE Len(sent) = 0
      <4>1. sent = After(i) /\ After(i) = << >>
        BY <2>1, <3>2 DEF TurnsOver
      <4>2. QED BY <4>1, FaultCounts
    <3>3. QED BY <1>1, <2>2, <3>1, <3>2, FaultCounts
  <2>5. QED BY <2>1, <2>2, <2>3, <2>4
<1>4. CASE ~Stays(i) /\ Empties(i)
  <2>1. sent' = << >> /\ filling' = After(i) /\ Len(sent') = 0
    BY <1>4 DEF Empties
  <2>2. Start' = Start + Len(sent)
    BY <1>1, <1>2, <2>1 DEF Start
  <2>3. Contiguous'
    BY <1>1, <1>2, <2>1, <2>2 DEF Contiguous
  <2>4. QED BY <1>4, <2>2, <2>3
<1>5. CASE ~Stays(i) /\ TurnsOver(i)
  <2>1. sent' = After(i) /\ filling' = << >> /\ Len(filling') = 0
    BY <1>5 DEF TurnsOver
  <2>2. Start' = Start + Len(sent)
    BY <1>1, <1>2, <2>1 DEF Start
  <2>3. Contiguous'
    BY <1>1, <1>2, <2>1, <2>2 DEF Contiguous
  <2>4. QED BY <1>5, <2>2, <2>3
<1>6. QED BY <1>3, <1>4, <1>5

\* What the host has reached, and what the PID tells about it.
GapCore ==
  /\ Contiguous /\ NoStepUp(delivered)
  /\ Reached \in {Start, Start + Len(sent)}
  /\ Heard => Reached = Start + Len(sent)
  /\ state = "WAIT_FOR_DATA" => Heard \/ data_pid \in {2, 3}
  /\ state = "SEND_PACKET" => sent # << >>

\* A clock without an ACK for the packet and without news for the host.
LEMMA PlainClockGap ==
  ASSUME FaultTypes, FaultInStep, GapCore, NEW i, Offered(i), M!Clock(i), Produce(i),
         ~i.discard, ~i.reset_sequence, ~i.ack \/ state # "WAIT_FOR_ACK", Quiet
  PROVE  GapCore' /\ (state # "WAIT_FOR_DATA" => data_pid' = data_pid /\ sent' = sent)
<1>1. Stays(i) \/ Empties(i) \/ TurnsOver(i)
  BY ManagerMoves DEF FaultInStep
<1>2. /\ Contiguous'
      /\ Stays(i) => Start' = Start /\ sent' = sent
      /\ Empties(i) \/ TurnsOver(i) => Start' = Start + Len(sent)
  BY <1>1, ContiguousKept DEF GapCore
<1>3. Reached' = Reached /\ NoStepUp(delivered') /\ host_toggle' = host_toggle
  BY DEF Quiet, Reached, GapCore
<1>4. CASE state = "WAIT_FOR_DATA"
  <2>1. sent = << >> /\ Len(sent) = 0 /\ Start \in Int /\ Reached = Start /\ Len(sent') \in Nat
    BY <1>1, <1>4, FaultCounts, AfterFits DEF FaultInStep, GapCore, Stays, Empties, TurnsOver
  <2>2. \/ TurnsOver(i) /\ data_pid' = M!ToggledPid(i) /\ state' = "WAIT_TO_SEND"
        \/ Stays(i) /\ data_pid' = data_pid /\ state' = "WAIT_FOR_DATA"
    BY <1>4, <2>1, FaultWaitForData, FaultBuffers
  <2>3. CASE TurnsOver(i) /\ data_pid' = M!ToggledPid(i) /\ state' = "WAIT_TO_SEND"
    <3>1. ~Heard'
      <4>1. CASE Heard
        <5>1. data_pid' = 1 - data_pid /\ data_pid \in {0, 1} /\ host_toggle \in {0, 1}
              /\ data_pid # host_toggle
          BY <2>3, <4>1, FaultBuffers, FaultCounts DEF Heard, Taken
        <5>2. QED BY <1>3, <5>1 DEF Heard, Taken
      <4>2. CASE data_pid \in {2, 3}
        <5>1. data_pid' \in {2, 3}
          BY <2>3, <4>2, FaultBuffers
        <5>2. QED BY <5>1 DEF Heard
      <4>3. QED BY <1>4, <4>1, <4>2 DEF GapCore
    <3>2. Start' = Start
      BY <1>2, <2>1, <2>3
    <3>3. QED BY <1>2, <1>3, <1>4, <2>1, <2>3, <3>1, <3>2 DEF GapCore
  <2>4. CASE Stays(i) /\ data_pid' = data_pid /\ state' = "WAIT_FOR_DATA"
    BY <1>2, <1>3, <1>4, <2>4 DEF GapCore, Heard, Taken
  <2>5. QED BY <2>2, <2>3, <2>4
<1>5. CASE state # "WAIT_FOR_DATA"
  <2>1. /\ Stays(i) /\ data_pid' = data_pid /\ state' # "WAIT_FOR_DATA"
        /\ state' = "SEND_PACKET" => sent # << >>
    <3>1. CASE state = "WAIT_TO_SEND"
      <4>1. Len(sent) = 0 \/ Len(sent) # 0
        OBVIOUS
      <4>2. QED BY <3>1, <4>1, FaultWaitToSend, FaultCounts DEF Offered
    <3>2. CASE state = "SEND_PACKET"
      BY <3>2, FaultSendPacket, FaultBuffers DEF GapCore, Offered
    <3>3. CASE state = "WAIT_FOR_ACK"
      BY <3>3, FaultWaitForAck, FaultBuffers DEF Offered
    <3>4. QED BY <1>5, <3>1, <3>2, <3>3 DEF FaultTypes
  <2>2. QED BY <1>2, <1>3, <1>5, <2>1 DEF GapCore, Heard, Taken
<1>6. QED BY <1>4, <1>5

\* The ACK comes for a packet that the host has.
LEMMA AckGap ==
  ASSUME FaultTypes, FaultInStep, GapCore, NEW i, Offered(i), M!Clock(i), Produce(i),
         ~i.discard, ~i.reset_sequence, i.ack, ~i.new_token, state = "WAIT_FOR_ACK", Heard, Quiet
  PROVE  GapCore'
<1>1. \/ Empties(i) /\ data_pid' = M!ToggledPid(i) /\ state' = "WAIT_TO_SEND"
      \/ TurnsOver(i) /\ data_pid' = M!ToggledPid(i) /\ state' = "WAIT_TO_SEND"
      \/ Empties(i) /\ data_pid' = M!HeldPid(i) /\ state' = "WAIT_FOR_DATA"
  BY FaultWaitForAck
<1>2. Contiguous' /\ Start' = Start + Len(sent)
  BY <1>1, ContiguousKept DEF GapCore
<1>3. Reached' = Reached /\ NoStepUp(delivered') /\ host_toggle' = host_toggle
  BY DEF Quiet, Reached, GapCore
<1>4. Reached' = Start'
  BY <1>2, <1>3 DEF GapCore
<1>5. data_pid \in {0, 1} /\ host_toggle \in {0, 1} /\ data_pid # host_toggle /\ Start \in Int
      /\ Len(sent) \in Nat
  BY FaultCounts DEF Heard, Taken
<1>6. CASE data_pid' = M!ToggledPid(i) /\ state' = "WAIT_TO_SEND"
  <2>1. data_pid' = 1 - data_pid
    BY <1>5, <1>6, FaultBuffers
  <2>2. ~Heard'
    BY <1>3, <1>5, <2>1 DEF Heard, Taken
  <2>3. QED BY <1>2, <1>3, <1>4, <1>6, <2>2 DEF GapCore
<1>7. CASE Empties(i) /\ data_pid' = M!HeldPid(i) /\ state' = "WAIT_FOR_DATA"
  <2>1. data_pid' = data_pid /\ sent' = << >> /\ Len(sent') = 0
    BY <1>7, FaultBuffers DEF Empties
  <2>2. Heard' /\ Start' \in Int
    BY <1>2, <1>3, <1>5, <2>1 DEF Heard, Taken
  <2>3. QED BY <1>2, <1>3, <1>4, <1>7, <2>1, <2>2 DEF GapCore
<1>8. QED BY <1>1, <1>6, <1>7

\* CLEAR_FEATURE(ENDPOINT_HALT): either both toggles start over, or no PID fits any more.
LEMMA ClearedGap ==
  ASSUME FaultTypes, FaultInStep, GapCore, start_with_data1 = 0, NEW i, Offered(i), M!Clock(i),
         Produce(i), ~i.discard, i.reset_sequence, ~i.in_token, wire = "control",
         host_toggle' = 0, delivered' = delivered
  PROVE  GapCore'
<1>1. state \in {"WAIT_FOR_DATA", "WAIT_TO_SEND"}
  BY DEF FaultInStep, FaultTypes
<1>2. Reached' = Reached /\ NoStepUp(delivered')
  BY DEF Reached, GapCore
<1>3. Start \in Int /\ Len(sent) \in Nat
  BY FaultCounts
<1>4. CASE state = "WAIT_FOR_DATA"
  <2>1. sent = << >> /\ Len(sent) = 0
    BY <1>4 DEF FaultInStep
  <2>2. /\ \/ TurnsOver(i) /\ state' = "WAIT_TO_SEND"
           \/ Stays(i) /\ state' = "WAIT_FOR_DATA"
        /\ data_pid' \in {M!ToggledPid(i), M!HeldPid(i)}
    BY <1>4, <2>1, FaultWaitForData
  <2>3. data_pid' \in {2, 3} /\ ~Heard'
    BY <2>2, FaultBuffers DEF Heard
  <2>4. Contiguous' /\ Start' = Start
    BY <1>3, <2>1, <2>2, ContiguousKept DEF GapCore
  <2>5. Reached' = Start'
    BY <1>2, <1>3, <2>1, <2>4 DEF GapCore
  <2>6. QED BY <1>2, <2>2, <2>3, <2>4, <2>5 DEF GapCore
<1>5. CASE state = "WAIT_TO_SEND"
  <2>1. Stays(i) /\ data_pid' = 0 /\ state' = state
    BY <1>5, FaultWaitToSend
  <2>2. Contiguous' /\ Start' = Start /\ sent' = sent
    BY <2>1, ContiguousKept DEF GapCore
  <2>3. ~Heard'
    BY <2>1 DEF Heard, Taken
  <2>4. QED BY <1>2, <1>5, <2>1, <2>2, <2>3 DEF GapCore
<1>6. QED BY <1>1, <1>4, <1>5

\* The host takes the packet that was sent.
LEMMA TakenGap ==
  ASSUME FaultTypes, FaultInStep, GapCore, incoming = sent, state = "WAIT_FOR_ACK", Takes,
         NEW i \in InputsFor("none", TRUE), DeviceClock(i, TRUE), ~i.discard
  PROVE  GapCore' /\ state' = "WAIT_FOR_ACK" /\ Heard'
<1>1. /\ Ending /\ wire = "answer" /\ packet_pid = host_toggle
      /\ delivered' = delivered \o sent /\ host_toggle' = 1 - host_toggle
  BY DEF Takes, FaultInStep, Endless, Underway, Sending
<1>2. /\ Offered(i) /\ Stays(i) /\ data_pid' = data_pid /\ state' = "WAIT_FOR_ACK"
      /\ Produce(i) /\ packet_pid = data_pid
  BY <1>1, EndingClock DEF DeviceClock, Ending
<1>3. Contiguous' /\ Start' = Start /\ sent' = sent
  BY <1>2, ContiguousKept DEF GapCore
<1>4. /\ sent \in Seq(Nat) /\ delivered \in Seq(Nat) /\ Len(sent) \in Nat /\ Len(delivered) \in Nat
      /\ Start \in Int /\ Start >= 0 /\ host_toggle \in {0, 1} /\ Reached \in Nat
      /\ (Len(sent) = 0 <=> sent = << >>)
  BY FaultCounts DEF GapCore, Contiguous
<1>5. Heard'
  BY <1>1, <1>2, <1>4 DEF Heard, Taken
<1>6. /\ delivered' \in Seq(Nat) /\ Len(delivered') = Len(delivered) + Len(sent)
      /\ \A k \in 1 .. Len(delivered) + Len(sent) :
           delivered'[k] = IF k <= Len(delivered) THEN delivered[k] ELSE sent[k - Len(delivered)]
  BY <1>1, <1>4, ConcatProperties
<1>7. \A k \in 1 .. Len(sent) : sent[k] = Start + k
  BY DEF GapCore, Contiguous
<1>8. Start <= Reached /\ (Len(sent) = 0 => Reached = Start)
  BY <1>4 DEF GapCore
<1>9. Reached = IF Len(delivered) = 0 THEN 0 ELSE delivered[Len(delivered)]
  BY <1>4, EmptySeq DEF Reached
<1>10. NoStepUp(delivered')
  <2>1. /\ Len(sent) \in Nat /\ Len(delivered) \in Nat /\ Start \in Int /\ Start <= Reached
        /\ Reached \in Nat /\ Len(delivered') = Len(delivered) + Len(sent)
    BY <1>4, <1>6, <1>8
  <2>2. \A k \in 1 .. Len(delivered) : delivered'[k] = delivered[k]
    BY <1>6, <2>1
  <2>3. \A k \in 1 .. Len(sent) : delivered'[Len(delivered) + k] = Start + k
    <3>1. SUFFICES ASSUME NEW k \in 1 .. Len(sent)
                   PROVE  delivered'[Len(delivered) + k] = Start + k
      OBVIOUS
    <3>2. /\ Len(delivered) + k \in 1 .. Len(delivered) + Len(sent)
          /\ ~(Len(delivered) + k <= Len(delivered)) /\ Len(delivered) + k - Len(delivered) = k
      BY <2>1
    <3>3. QED BY SMTT(30), <1>6, <1>7, <3>2
  <2>4. SUFFICES ASSUME NEW k \in 1 .. Len(delivered')
                 PROVE  delivered'[k] <= (IF k = 1 THEN 0 ELSE delivered'[k - 1]) + 1
    BY DEF NoStepUp
  <2>5. CASE k <= Len(delivered)
    <3>1. k \in 1 .. Len(delivered) /\ (k # 1 => k - 1 \in 1 .. Len(delivered))
      BY <2>1, <2>5
    <3>2. QED BY <2>2, <3>1 DEF GapCore, NoStepUp
  <2>6. CASE k = Len(delivered) + 1
    <3>1. delivered'[k] = Start + 1
      <4>1. 1 \in 1 .. Len(sent)
        BY <2>1, <2>6
      <4>2. QED BY <2>3, <2>6, <4>1
    <3>2. CASE k = 1
      <4>1. Reached = 0
        BY <1>9, <2>1, <2>6, <3>2
      <4>2. QED BY <2>1, <3>1, <3>2, <4>1
    <3>3. CASE k # 1
      <4>1. k - 1 = Len(delivered) /\ k - 1 \in 1 .. Len(delivered) /\ Len(delivered) # 0
        BY <2>1, <2>6, <3>3
      <4>2. delivered'[k - 1] = Reached
        BY <1>9, <2>2, <4>1
      <4>3. QED BY <2>1, <3>1, <3>3, <4>2
    <3>4. QED BY <3>2, <3>3
  <2>7. CASE k > Len(delivered) + 1
    <3>1. /\ k - Len(delivered) \in 1 .. Len(sent) /\ k - 1 - Len(delivered) \in 1 .. Len(sent)
          /\ Len(delivered) + (k - Len(delivered)) = k /\ k # 1
          /\ Len(delivered) + (k - 1 - Len(delivered)) = k - 1
      BY <2>1, <2>7
    <3>2. /\ delivered'[k] = Start + (k - Len(delivered))
          /\ delivered'[k - 1] = Start + (k - 1 - Len(delivered))
      BY <2>3, <3>1
    <3>3. QED BY <2>1, <3>1, <3>2
  <2>8. QED BY <2>1, <2>5, <2>6, <2>7
<1>11. Reached' = Start + Len(sent)
  <2>1. CASE Len(sent) = 0
    <3>1. delivered' = delivered
      BY <1>1, <1>4, <2>1, ConcatEmptySeq
    <3>2. Reached' = Reached
      BY <3>1 DEF Reached
    <3>3. QED BY <1>4, <1>8, <2>1, <3>2
  <2>2. CASE Len(sent) # 0
    <3>1. /\ delivered' # << >> /\ Len(delivered') \in 1 .. Len(delivered) + Len(sent)
          /\ Len(sent) \in 1 .. Len(sent) /\ ~(Len(delivered') <= Len(delivered))
          /\ Len(delivered') - Len(delivered) = Len(sent)
      BY <1>4, <1>6, <2>2, EmptySeq
    <3>2. delivered'[Len(delivered')] = sent[Len(sent)]
      BY <1>6, <3>1
    <3>3. QED BY <1>7, <3>1, <3>2 DEF Reached
  <2>3. QED BY <2>1, <2>2
<1>12. QED BY <1>2, <1>3, <1>5, <1>10, <1>11 DEF GapCore

\* The bus and the manager while nothing has been dropped.
GapWire ==
  /\ wire = "answer" => state \in {"SEND_PACKET", "WAIT_FOR_ACK"}
  /\ wire = "answer" /\ state = "WAIT_FOR_ACK" => incoming = sent
  /\ wire = "ack" => state = "WAIT_FOR_ACK" /\ Heard

LEMMA GaplessParts == Gapless <=> GapCore /\ GapWire
BY DEF Gapless, GapCore, GapWire, Contiguous, NoStepUp

LEMMA TransmitGap ==
  ASSUME FaultTypes, FaultInStep, GapCore, GapWire, NEW r \in BOOLEAN, Transmit(r), ~dropped'
  PROVE  GapCore' /\ GapWire'
<1>1. PICK i \in InputsFor("none", r) :
        /\ DeviceClock(i, r)
        /\ incoming' = IF i.ready /\ M!out_valid(i) /\ Len(incoming) <= max_packet_size
                       THEN Append(incoming, M!out_payload) ELSE incoming
  BY DEF Transmit
<1>2. /\ wire = "answer" /\ wire' = "answer" /\ ~(r /\ tx_state = "SEND_CRC_SECOND") /\ Quiet
  BY DEF Transmit, Quiet
<1>3. /\ Offered(i) /\ M!Clock(i) /\ Produce(i) /\ ~i.reset_sequence /\ ~i.ack /\ ~i.discard
  BY <1>1, InputsAreOffered DEF DeviceClock, Produce
<1>4. GapCore' /\ (state # "WAIT_FOR_DATA" => sent' = sent)
  BY <1>2, <1>3, PlainClockGap
<1>5. CASE Endless
  BY <1>5 DEF Endless, GapCore
<1>6. CASE Underway
  <2>1. state' \in {"SEND_PACKET", "WAIT_FOR_ACK"} /\ (state' = "WAIT_FOR_ACK" => incoming' = sent)
    BY <1>1, <1>2, <1>6, BytesGoOut
  <2>2. state = "SEND_PACKET"
    BY <1>6 DEF Underway, Sending
  <2>3. QED BY <1>2, <1>4, <2>1, <2>2 DEF GapWire
<1>7. CASE Ending
  <2>1. state = "WAIT_FOR_ACK" /\ incoming = sent
    BY <1>2, <1>7 DEF GapWire, Ending
  <2>2. state' = "WAIT_FOR_ACK" /\ ~M!out_valid(i)
    BY <1>1, <1>2, <1>3, <1>7, <2>1, EndingClock
  <2>3. incoming' = incoming
    BY <1>1, <2>2
  <2>4. QED BY <1>2, <1>4, <2>1, <2>2, <2>3 DEF GapWire
<1>8. QED BY <1>2, <1>5, <1>6, <1>7 DEF FaultInStep

LEMMA EndOfPacketGap ==
  ASSUME FaultTypes, FaultInStep, GapCore, GapWire, HostReceives \/ HostMisses, ~dropped'
  PROVE  GapCore' /\ GapWire'
<1>1. PICK i \in InputsFor("none", TRUE) : DeviceClock(i, TRUE)
  BY DEF HostReceives, HostMisses, EndOfPacket
<1>2. wire = "answer" /\ tx_state = "SEND_CRC_SECOND"
  BY DEF HostReceives, HostMisses, EndOfPacket
<1>3. Offered(i) /\ M!Clock(i) /\ Produce(i) /\ ~i.reset_sequence /\ ~i.ack /\ ~i.discard
  BY <1>1, InputsAreOffered DEF DeviceClock, Produce
<1>4. Ending /\ state = "WAIT_FOR_ACK" /\ incoming = sent /\ packet_pid = data_pid
  BY <1>2 DEF FaultInStep, Endless, Underway, Sending, Ending, GapWire
<1>5. state' = "WAIT_FOR_ACK" /\ data_pid' = data_pid
  BY <1>1, <1>2, <1>3, <1>4, EndingClock
<1>6. CASE HostReceives /\ packet_pid = host_toggle
  <2>1. Takes /\ wire' = "ack"
    BY <1>2, <1>6 DEF HostReceives, Takes
  <2>2. QED BY <1>1, <1>3, <1>4, <2>1, TakenGap DEF GapWire
<1>7. CASE HostReceives /\ packet_pid # host_toggle
  <2>1. /\ Quiet /\ wire' = "ack" /\ packet_pid \in {0, 1}
    BY <1>7 DEF HostReceives, Quiet
  <2>2. GapCore'
    BY <1>3, <2>1, PlainClockGap
  <2>3. Heard'
    BY <1>4, <1>5, <1>7, <2>1 DEF Heard, Taken, Quiet
  <2>4. QED BY <1>5, <2>1, <2>2, <2>3 DEF GapWire
<1>8. CASE HostMisses
  <2>1. Quiet /\ wire' = "quiet"
    BY <1>8 DEF HostMisses, Quiet
  <2>2. QED BY <1>3, <2>1, PlainClockGap DEF GapWire
<1>9. QED BY <1>6, <1>7, <1>8
LEMMA NoGapsKept ==
  ASSUME FaultTypes, FaultInStep, NoGaps, Next, start_with_data1 = 0
  PROVE  NoGaps'
<1>1. Gapless' <=> GapCore' /\ GapWire'
  BY DEF Gapless, GapCore, GapWire, Contiguous, NoStepUp
<1>2. SUFFICES ASSUME ~dropped' PROVE GapCore' /\ GapWire'
  BY <1>1 DEF NoGaps
<1>3. ~dropped
  BY <1>2, StepIsClock DEF DeviceClock, Produce
<1>4. GapCore /\ GapWire
  BY <1>3, GaplessParts DEF NoGaps
<1>5. ASSUME NEW strobe \in {"none", "token", "ack"}, NEW i \in InputsFor(strobe, FALSE),
             DeviceClock(i, FALSE), Quiet, wire' # "answer",
             strobe = "ack" => state # "WAIT_FOR_ACK",
             wire' = "ack" => wire = "ack" /\ strobe = "none"
      PROVE  GapCore' /\ GapWire'
  <2>1. /\ Offered(i) /\ M!Clock(i) /\ Produce(i) /\ ~i.discard /\ ~i.reset_sequence
        /\ i.ack = (strobe = "ack") /\ i.new_token = (strobe = "token")
    BY <1>2, <1>5, InputsAreOffered DEF DeviceClock, Produce
  <2>2. GapCore' /\ (state # "WAIT_FOR_DATA" => data_pid' = data_pid)
    BY <1>4, <1>5, <2>1, PlainClockGap
  <2>3. CASE wire' = "ack"
    <3>1. wire = "ack" /\ ~i.ack /\ ~i.new_token
      BY <1>5, <2>1, <2>3
    <3>2. state = "WAIT_FOR_ACK" /\ Heard
      BY <1>4, <3>1 DEF GapWire
    <3>3. state' = "WAIT_FOR_ACK"
      BY <2>1, <3>1, <3>2, FaultWaitForAck
    <3>4. Heard'
      BY <1>5, <2>2, <3>2 DEF Heard, Taken, Quiet
    <3>5. QED BY <2>2, <2>3, <3>3, <3>4 DEF GapWire
  <2>4. CASE wire' # "ack"
    BY <1>5, <2>2, <2>4 DEF GapWire
  <2>5. QED BY <2>3, <2>4
<1>6. CASE QuietClock
  BY <1>5, <1>6 DEF QuietClock, HostUnmoved, hostVars, Quiet
<1>7. CASE AskIn
  BY <1>5, <1>7 DEF AskIn, HostUnmoved, hostVars, Quiet
<1>8. CASE Answer
  <2>1. PICK i \in InputsFor("in", FALSE) :
          DeviceClock(i, FALSE) /\ wire' = IF M!nak(i) \/ i.discard THEN "quiet" ELSE "answer"
    BY <1>8 DEF Answer
  <2>2. wire = "asked" /\ incoming' = << >> /\ Quiet
    BY <1>8 DEF Answer, Quiet
  <2>3. /\ Offered(i) /\ M!Clock(i) /\ Produce(i) /\ ~i.discard /\ ~i.reset_sequence /\ ~i.ack
    BY <1>2, <2>1, InputsAreOffered DEF DeviceClock, Produce
  <2>4. GapCore'
    BY <1>4, <2>2, <2>3, PlainClockGap
  <2>5. wire' = "answer" => /\ state' \in {"SEND_PACKET", "WAIT_FOR_ACK"}
                            /\ state' = "WAIT_FOR_ACK" => sent' = << >>
    BY <2>1, <2>2, AnswerStarts
  <2>6. QED BY <2>1, <2>2, <2>4, <2>5 DEF GapWire
<1>9. CASE AskElsewhere
  BY <1>5, <1>9 DEF AskElsewhere, HostUnmoved, hostVars, Quiet
<1>10. CASE AckElsewhere
  BY <1>5, <1>10 DEF AckElsewhere, HostUnmoved, hostVars, Quiet, FaultInStep
<1>11. ASSUME NEW r \in BOOLEAN, Transmit(r) PROVE GapCore' /\ GapWire'
  BY <1>2, <1>4, <1>11, TransmitGap
<1>12. CASE HostReceives \/ HostMisses
  BY <1>2, <1>4, <1>12, EndOfPacketGap
<1>13. CASE AckArrives
  <2>1. PICK i \in InputsFor("ack", FALSE) : DeviceClock(i, FALSE)
    BY <1>13 DEF AckArrives
  <2>2. wire' = "quiet" /\ Quiet /\ state = "WAIT_FOR_ACK" /\ Heard
    BY <1>4, <1>13 DEF AckArrives, HostUnmoved, hostVars, Quiet, GapWire
  <2>3. /\ Offered(i) /\ M!Clock(i) /\ Produce(i) /\ ~i.discard /\ ~i.reset_sequence
        /\ i.ack /\ ~i.new_token
    BY <1>2, <2>1, InputsAreOffered DEF DeviceClock, Produce
  <2>4. GapCore'
    BY <1>4, <2>2, <2>3, AckGap
  <2>5. QED BY <2>2, <2>4 DEF GapWire
<1>14. CASE AckLost
  BY <1>5, <1>14 DEF AckLost, HostUnmoved, hostVars, Quiet
<1>15. CASE ControlToken
  BY <1>5, <1>15 DEF ControlToken, HostUnmoved, hostVars, Quiet
<1>16. CASE ClearHalt
  <2>1. PICK i \in InputsFor("reset", FALSE) : DeviceClock(i, FALSE)
    BY <1>16 DEF ClearHalt
  <2>2. wire = "control" /\ wire' = "quiet" /\ host_toggle' = 0 /\ delivered' = delivered
    BY <1>16 DEF ClearHalt
  <2>3. /\ Offered(i) /\ M!Clock(i) /\ Produce(i) /\ ~i.discard /\ i.reset_sequence /\ ~i.in_token
    BY <1>2, <2>1, InputsAreOffered DEF DeviceClock, Produce
  <2>4. GapCore'
    BY <1>4, <2>2, <2>3, ClearedGap
  <2>5. QED BY <2>2, <2>4 DEF GapWire
<1>17. CASE ForeignAck
  <2>1. PICK i \in InputsFor("ack", FALSE) : DeviceClock(i, FALSE)
    BY <1>17 DEF ForeignAck
  <2>2. wire = "quiet" /\ i.ack
    BY <1>17, <2>1, InputsAreOffered DEF ForeignAck
  <2>3. QED BY <1>2, <2>1, <2>2 DEF DeviceClock, Produce
<1>18. QED
  BY <1>6, <1>7, <1>8, <1>9, <1>10, <1>11, <1>12, <1>13, <1>14, <1>15, <1>16, <1>17 DEF Next

LEMMA FaultInvariantHolds ==
  ASSUME start_with_data1 = 0
  PROVE  Spec => []FaultInv
<1>1. Init => FaultInv
  <2>1. SUFFICES ASSUME Init PROVE FaultInv
    OBVIOUS
  <2>2. /\ state = "WAIT_FOR_DATA" /\ buffer_toggle = 0 /\ data_pid = 1
        /\ buffer = [b \in {0, 1} |-> << >>] /\ send_position = 0 /\ first = FALSE
        /\ read_adr = [b \in {0, 1} |-> 0]
        /\ tx_state = "IDLE" /\ is_zlp = FALSE
        /\ accepted = 0 /\ dropped = FALSE /\ halts_cleared = 0
        /\ wire = "quiet" /\ host_toggle = 0 /\ incoming = << >> /\ delivered = << >>
    BY <2>1 DEF Init, M!Init, G!Init, M!Buffers
  <2>3. sent = << >> /\ filling = << >>
    BY <2>2 DEF sent, filling, M!read, M!write
  <2>4. FaultTypes
    <3>1. << >> \in Seq(Nat) /\ Len(<< >>) = 0
      OBVIOUS
    <3>2. buffer \in [{0, 1} -> Seq(Nat)] /\ read_adr \in [{0, 1} -> Nat]
      BY <2>2, <3>1
    <3>3. Len(sent) <= max_packet_size /\ Len(filling) <= max_packet_size
      BY <2>3, <3>1, SizeAssumption
    <3>4. /\ state \in {"WAIT_FOR_DATA", "WAIT_TO_SEND", "SEND_PACKET", "WAIT_FOR_ACK"}
          /\ buffer_toggle \in {0, 1} /\ data_pid \in 0 .. 3
          /\ send_position \in Nat /\ first \in BOOLEAN
      BY <2>2
    <3>5. /\ tx_state \in {"IDLE", "SEND_PID", "SEND_PAYLOAD", "SEND_CRC_FIRST", "SEND_CRC_SECOND"}
          /\ is_zlp \in BOOLEAN
          /\ accepted \in Nat /\ dropped \in BOOLEAN /\ halts_cleared \in Nat
      BY <2>2
    <3>6. /\ wire \in {"quiet", "asked", "answer", "ack", "elsewhere", "control"}
          /\ host_toggle \in {0, 1}
      BY <2>2
    <3>7. incoming \in Seq(Nat) /\ delivered \in Seq(Nat)
      BY <2>2, <3>1
    <3>8. QED BY <3>2, <3>3, <3>4, <3>5, <3>6, <3>7, Zenon DEF FaultTypes
  <2>5. FaultInStep
    BY <2>2, <2>3 DEF FaultInStep
  <2>6. NoRepeats
    BY <2>2, <2>3, NothingInEmpty DEF NoRepeats, Ordered
  <2>7. NoGaps
    <3>1. Len(sent) = 0 /\ Len(filling) = 0 /\ Len(delivered) = 0
      BY <2>2, <2>3
    <3>2. Start = 0 /\ Reached = 0 /\ Heard
      BY <2>2, <3>1 DEF Start, Reached, Heard, Taken
    <3>3. QED BY <2>2, <3>1, <3>2 DEF NoGaps, Gapless
  <2>8. QED BY <2>4, <2>5, <2>6, <2>7 DEF FaultInv
<1>2. FaultInv /\ [Next]_vars => FaultInv'
  <2>1. CASE FaultInv /\ Next
    BY <2>1, FaultTypesKept, FaultInStepKept, NoRepeatsKept, NoGapsKept DEF FaultInv
  <2>2. CASE FaultInv /\ UNCHANGED vars
    <3>1. FaultTypes' /\ FaultInStep'
      BY <2>2 DEF FaultInv, FaultTypes, FaultInStep, Endless, Underway, Sending, Ending, sent, filling,
                  M!read, M!write, vars, managerVars, generatorVars, userVars, hostVars
    <3>2. NoRepeats'
      BY <2>2 DEF FaultInv, NoRepeats, Ordered, OnTheWire, Taken, Endless, sent, filling, M!read,
                  M!write, vars, managerVars, generatorVars, userVars, hostVars
    <3>3. NoGaps'
      BY <2>2 DEF FaultInv, NoGaps, Gapless, Start, Reached, Heard, Taken, sent, filling, M!read,
                  M!write, vars, managerVars, generatorVars, userVars, hostVars
    <3>4. QED BY <3>1, <3>2, <3>3 DEF FaultInv
  <2>3. QED BY <2>1, <2>2
<1>3. QED BY <1>1, <1>2, PTL DEF Spec

\* Discards, other devices' ACKs and cleared halts, whenever they come, spare half of the
\* promise each: without a cleared halt no byte reaches the host twice or out of order, and
\* without a discard or a foreign ACK none is left out before one that arrives.  As in
\* USBStreamInEndpoint, whose manager is made with start_with_data1 at its default, the PID
\* after a cleared halt is DATA0, which is what the host expects.
THEOREM FaultsKeepOrder ==
  ASSUME start_with_data1 = 0
  PROVE  Spec => []OrderSurvivesFaults
<1>1. FaultInv => OrderSurvivesFaults
  <2>1. SUFFICES ASSUME FaultInv, NEW k \in 1 .. Len(delivered)
                 PROVE  LET before == IF k = 1 THEN 0 ELSE delivered[k - 1]
                        IN  /\ halts_cleared = 0 => before < delivered[k]
                            /\ ~dropped => delivered[k] <= before + 1
    BY DEF OrderSurvivesFaults
  <2>2. ASSUME ~dropped PROVE delivered[k] <= (IF k = 1 THEN 0 ELSE delivered[k - 1]) + 1
    BY <2>1, <2>2 DEF FaultInv, NoGaps, Gapless
  <2>3. ASSUME halts_cleared = 0
        PROVE  (IF k = 1 THEN 0 ELSE delivered[k - 1]) < delivered[k]
    <3>1. Rising(delivered)
      BY <2>1, <2>3 DEF FaultInv, NoRepeats, Ordered
    <3>2. CASE k = 1
      BY <2>1, <3>1, <3>2 DEF Rising
    <3>3. CASE k # 1
      <4>1. k - 1 \in 1 .. Len(delivered) /\ k - 1 < k
        BY <2>1, <3>3, FaultCounts DEF FaultInv
      <4>2. QED BY <2>1, <3>1, <3>3, <4>1 DEF Rising
    <3>4. QED BY <3>2, <3>3
  <2>4. QED BY <2>2, <2>3
<1>2. QED BY <1>1, FaultInvariantHolds, PTL
===================================================================================
