------------------------------ MODULE TokenDetector ------------------------------
(***************************************************************************)
(* USBTokenDetector, src/liteusb/gateware/usb/usb2/packet.py: reads the    *)
(* tokens off the bus and reports those for this device, and the frames.   *)
(***************************************************************************)
EXTENDS Integers, Sequences, PacketCRC

VARIABLES
  tok_state,     \* of the FSM
  token_data,    \* its 11 bits, as far as they are read
  current_pid,
  tokenizer      \* the interface: [pid, address, endpoint, frame, new_token, new_frame]

vars == <<tok_state, token_data, current_pid, tokenizer>>

Zeros(n) == [k \in 1 .. n |-> 0]

\* What UTMI shows in one clock: [active, valid : BOOLEAN, data : a byte].

\* A PID is the first half of its byte; the second half is the first one inverted.
Pid(byte) == SubSeq(byte, 1, 4)
PidIntact(byte) == Pid(byte) = Not(SubSeq(byte, 5, 8))

OUT_PID   == <<1, 0, 0, 0>>
IN_PID    == <<1, 0, 0, 1>>
SOF_PID   == <<1, 0, 1, 0>>
SETUP_PID == <<1, 0, 1, 1>>
PING_PID  == <<0, 0, 1, 0>>
NO_PID    == <<0, 0, 0, 0>>

is_token(byte) == SubSeq(byte, 1, 2) = <<1, 0>> \/ Pid(byte) = PING_PID

token_applicable(address) == SubSeq(token_data, 1, 7) = address

\* The end of a token; the inter-packet timer starts with one that is for us.
Ends(u) == tok_state = "TOKEN_COMPLETE" /\ ~u.active
timer_start(u, address) == Ends(u) /\ current_pid # SOF_PID /\ token_applicable(address)

NoStrobe == [tokenizer EXCEPT !.new_token = FALSE, !.new_frame = FALSE]

Idle(u) ==
  /\ tok_state = "IDLE"
  /\ tok_state' = IF u.active THEN "READ_PID" ELSE "IDLE"
  /\ UNCHANGED <<token_data, current_pid>>

ReadPid(u) ==
  /\ tok_state = "READ_PID"
  /\ CASE ~u.active              -> tok_state' = "IDLE" /\ UNCHANGED current_pid
       [] u.active /\ ~u.valid   -> UNCHANGED <<tok_state, current_pid>>
       [] u.active /\ u.valid    -> IF PidIntact(u.data) /\ is_token(u.data)
                                    THEN tok_state' = "READ_TOKEN_0" /\ current_pid' = Pid(u.data)
                                    ELSE tok_state' = "IRRELEVANT" /\ UNCHANGED current_pid
  /\ UNCHANGED token_data

ReadToken0(u) ==
  /\ tok_state = "READ_TOKEN_0"
  /\ CASE ~u.active            -> tok_state' = "IDLE" /\ UNCHANGED token_data
       [] u.active /\ ~u.valid -> UNCHANGED <<tok_state, token_data>>
       [] u.active /\ u.valid  -> tok_state' = "READ_TOKEN_1" /\ token_data' = u.data \o Zeros(3)
  /\ UNCHANGED current_pid

\* The five bits of the second byte that are not the token's are its checksum.
\* Mutant: the checksum is not looked at.
crc_unchecked(token, u) == TRUE
crc_matches(token, u) == SubSeq(u.data, 4, 8) = generate_crc_for_token(token)

ReadToken1(u) ==
  LET token == SubSeq(token_data, 1, 8) \o SubSeq(u.data, 1, 3)
  IN  /\ tok_state = "READ_TOKEN_1"
      /\ CASE ~u.active            -> tok_state' = "IDLE" /\ UNCHANGED token_data
           [] u.active /\ ~u.valid -> UNCHANGED <<tok_state, token_data>>
           [] u.active /\ u.valid  -> IF crc_matches(token, u)
                                      THEN tok_state' = "TOKEN_COMPLETE" /\ token_data' = token
                                      ELSE tok_state' = "IRRELEVANT" /\ UNCHANGED token_data
      /\ UNCHANGED current_pid

TokenComplete(u) ==
  /\ tok_state = "TOKEN_COMPLETE"
  /\ tok_state' = IF ~u.active THEN "IDLE" ELSE IF u.valid THEN "IRRELEVANT" ELSE tok_state
  /\ UNCHANGED <<token_data, current_pid>>

Irrelevant(u) ==
  /\ tok_state = "IRRELEVANT"
  /\ tok_state' = IF u.active THEN tok_state ELSE "IDLE"
  /\ UNCHANGED <<token_data, current_pid>>

\* Mutant: a token for another device leaves the PID of the one before it.
ForeignKept == NoStrobe
Foreign == [NoStrobe EXCEPT !.pid = NO_PID]

Reported(u, address) ==
  CASE ~Ends(u) -> NoStrobe
    [] Ends(u) /\ current_pid = SOF_PID ->
         [NoStrobe EXCEPT !.frame = token_data, !.new_frame = TRUE]
    [] timer_start(u, address) ->
         [NoStrobe EXCEPT !.pid = current_pid, !.new_token = TRUE,
                          !.address = SubSeq(token_data, 1, 7), !.endpoint = SubSeq(token_data, 8, 11)]
    [] Ends(u) /\ current_pid # SOF_PID /\ ~token_applicable(address) -> Foreign

Clock(u, address) ==
  /\ Idle(u) \/ ReadPid(u) \/ ReadToken0(u) \/ ReadToken1(u) \/ TokenComplete(u) \/ Irrelevant(u)
  /\ tokenizer' = Reported(u, address)

Init ==
  /\ tok_state = "IDLE" /\ token_data = Zeros(11) /\ current_pid = NO_PID
  /\ tokenizer = [pid |-> NO_PID, address |-> Zeros(7), endpoint |-> Zeros(4), frame |-> Zeros(11),
                  new_token |-> FALSE, new_frame |-> FALSE]

TypeOK ==
  /\ tok_state \in {"IDLE", "READ_PID", "READ_TOKEN_0", "READ_TOKEN_1", "TOKEN_COMPLETE", "IRRELEVANT"}
  /\ Len(token_data) = 11 /\ Len(current_pid) = 4
  /\ tokenizer.new_token => tokenizer.pid # NO_PID
=================================================================================
