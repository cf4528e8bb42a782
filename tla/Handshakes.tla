--------------------------------- MODULE Handshakes ---------------------------------
(***************************************************************************)
(* USBHandshakeDetector and USBHandshakeGenerator, in                      *)
(* src/liteusb/gateware/usb/usb2/packet.py.  The detector strobes for a    *)
(* packet that is one intact PID and nothing else; the generator sends one *)
(* byte on request, and keeps no request that comes while it sends.        *)
(***************************************************************************)
EXTENDS Integers, Sequences, PacketCRC

VARIABLES
  hd_state,     \* of the detector's FSM
  hd_pid,       \* active_pid
  detected,     \* the strobe that is up: "ack", "nak", "stall", "nyet" or "none"
  hg_state,     \* of the generator's FSM
  hg_data       \* tx.data

---------------------------------------------------------------------------
(* The detector *)

HandshakePids == [ack |-> <<0, 1, 0, 0>>, nak |-> <<0, 1, 0, 1>>,
                  stall |-> <<0, 1, 1, 1>>, nyet |-> <<0, 1, 1, 0>>]

Pid(byte) == SubSeq(byte, 1, 4)
PidIntact(byte) == Pid(byte) = Not(SubSeq(byte, 5, 8))

HandshakeOf(pid) ==
  IF \E h \in DOMAIN HandshakePids : HandshakePids[h] = pid
  THEN CHOOSE h \in DOMAIN HandshakePids : HandshakePids[h] = pid
  ELSE "none"

Detect(u) ==
  /\ hd_state = "IDLE"
  /\ hd_state' = IF u.active THEN "READ_PID" ELSE "IDLE"
  /\ detected' = "none" /\ UNCHANGED hd_pid

ReadPid(u) ==
  /\ hd_state = "READ_PID"
  /\ CASE ~u.active            -> hd_state' = "IDLE" /\ UNCHANGED hd_pid
       [] u.active /\ ~u.valid -> UNCHANGED <<hd_state, hd_pid>>
       [] u.active /\ u.valid  -> IF PidIntact(u.data)
                                  THEN hd_state' = "AWAIT_COMPLETION" /\ hd_pid' = Pid(u.data)
                                  ELSE hd_state' = "IRRELEVANT" /\ UNCHANGED hd_pid
  /\ detected' = "none"

AfterPid(u) == IF u.valid THEN "IRRELEVANT" ELSE hd_state

AwaitCompletion(u) ==
  /\ hd_state = "AWAIT_COMPLETION"
  /\ IF u.active
     THEN hd_state' = AfterPid(u) /\ detected' = "none"
     ELSE hd_state' = "IDLE" /\ detected' = HandshakeOf(hd_pid)
  /\ UNCHANGED hd_pid

Irrelevant(u) ==
  /\ hd_state = "IRRELEVANT"
  /\ hd_state' = IF u.active THEN hd_state ELSE "IDLE"
  /\ detected' = "none" /\ UNCHANGED hd_pid

DetectorClock(u) == Detect(u) \/ ReadPid(u) \/ AwaitCompletion(u) \/ Irrelevant(u)

DetectorInit == hd_state = "IDLE" /\ hd_pid = <<0, 0, 0, 0>> /\ detected = "none"

---------------------------------------------------------------------------
(* The generator *)

PACKET_ACK   == Byte(210)   \* 0b11010010
PACKET_NAK   == Byte(90)    \* 0b01011010
PACKET_STALL == Byte(30)    \* 0b00011110

tx_valid == hg_state = "TRANSMIT"

\* issue: the requests that are up, a subset of {"ack", "nak", "stall"}.
Request(issue) ==
  /\ hg_state = "IDLE"
  /\ hg_state' = IF issue # {} THEN "TRANSMIT" ELSE "IDLE"
  /\ hg_data' = CASE "stall" \in issue                      -> PACKET_STALL
                  [] "nak" \in issue /\ "stall" \notin issue -> PACKET_NAK
                  [] issue = {"ack"}                         -> PACKET_ACK
                  [] issue = {}                              -> hg_data

Transmit(tx_ready) ==
  /\ hg_state = "TRANSMIT"
  /\ hg_state' = IF tx_ready THEN "IDLE" ELSE hg_state
  /\ UNCHANGED hg_data

GeneratorClock(issue, tx_ready) == Request(issue) \/ Transmit(tx_ready)

GeneratorInit == hg_state = "IDLE" /\ hg_data = Byte(0)
====================================================================================
