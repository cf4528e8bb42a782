--------------------------- MODULE ULPIPacketTranslators ---------------------------
(***************************************************************************)
(* ULPIRxEventDecoder and ULPITransmitTranslator, in                       *)
(* src/liteusb/gateware/interface/ulpi.py.  The decoder, with the receive  *)
(* half of UTMITranslator that uses its strobes, makes receive commands    *)
(* and bytes from a PHY that has the bus into UTMI's rx signals; the       *)
(* translator turns a packet in UTMI form into a ULPI transmit command,    *)
(* its bytes and a stop.                                                   *)
(***************************************************************************)
EXTENDS Integers

VARIABLES
  direction_delayed, \* dir a clock ago; past_dir of the UTMITranslator is the same
  last_rx_command,   \* [active : BOOLEAN, line]: RxActive and what else it tells
  rx_start, rx_stop, \* strobes: a command has changed RxActive
  rx_active, rx_valid, rx_data,
  translator_state,
  out_req           \* ulpi_out_req: drive the bus; set and cleared a clock late

---------------------------------------------------------------------------
(* Receiving *)

\* The bus in one clock: [dir, nxt : BOOLEAN, data]; data is a byte, or a receive
\* command while dir is high and nxt is low.

\* A receive command is on the bus, and no register operation is in progress.
is_command(u, register_operation_in_progress) ==
  direction_delayed /\ u.dir /\ ~u.nxt /\ ~register_operation_in_progress

dir_based_start(u) == ~direction_delayed /\ u.dir /\ u.nxt

ReceiveInit(idle) ==
  /\ direction_delayed = FALSE /\ last_rx_command = [active |-> FALSE, line |-> idle]
  /\ rx_start = FALSE /\ rx_stop = FALSE
  /\ rx_active = FALSE /\ rx_valid = FALSE /\ rx_data = 0

\* Mutant: RxActive is left up when the PHY gives the bus back without a command.
NextActiveKept(u)  == ~rx_stop /\ (rx_active \/ dir_based_start(u) \/ rx_start)
NextActive(u) == u.dir /\ ~rx_stop /\ (rx_active \/ dir_based_start(u) \/ rx_start)

NextValid(u) == u.nxt /\ rx_active

ReceiveClock(u, register_operation_in_progress) ==
  LET sampled == is_command(u, register_operation_in_progress)
  IN  /\ direction_delayed' = u.dir
      /\ last_rx_command' = IF sampled THEN u.data ELSE last_rx_command
      /\ rx_start' = (sampled /\ u.data.active /\ ~last_rx_command.active)
      /\ rx_stop'  = (sampled /\ ~u.data.active /\ last_rx_command.active)
      /\ rx_active' = NextActive(u)
      /\ rx_valid' = NextValid(u)
      /\ rx_data' = IF u.nxt THEN u.data ELSE 0     \* only looked at with rx_valid

---------------------------------------------------------------------------
(* Transmitting *)

\* The inputs of a clock: [tx_valid, raw, bus_idle, nxt : BOOLEAN, tx_data]; raw is
\* bit_stuffing_disabled, op_mode being 2: the command then carries no PID, 0 here.

busy        == translator_state # "IDLE"
starting(i) == translator_state = "IDLE" /\ i.tx_valid /\ i.bus_idle

data_out(i) ==
  CASE starting(i)                                   -> <<"transmit", IF i.raw THEN 0 ELSE i.tx_data>>
    [] translator_state = "IDLE" /\ ~starting(i)     -> <<"noop", "none">>
    [] translator_state = "TRANSMIT" /\ i.tx_valid   -> <<"byte", i.tx_data>>
    [] translator_state = "TRANSMIT" /\ ~i.tx_valid  -> <<"byte", IF i.raw THEN "error" ELSE "none">>

stp(i)      == translator_state = "TRANSMIT" /\ ~i.tx_valid

tx_ready(i) == i.nxt /\ (translator_state = "TRANSMIT" \/ (starting(i) /\ ~i.raw))

TransmitInit == translator_state = "IDLE" /\ out_req = FALSE

\* Mutant: the bus is let go of a clock early, at the last byte.
NextRequestDropped(i) == (starting(i) \/ out_req) /\ ~(translator_state = "TRANSMIT" /\ i.nxt)
NextRequest(i) == (starting(i) \/ out_req) /\ ~(translator_state = "TRANSMIT" /\ ~i.tx_valid)

TransmitClock(i) ==
  /\ out_req' = NextRequest(i)
  /\ translator_state' = IF starting(i) /\ i.nxt THEN "TRANSMIT"
                         ELSE IF stp(i) THEN "IDLE" ELSE translator_state
====================================================================================
