--------------------------- MODULE UTMITranslatorProofs ---------------------------
(***************************************************************************)
(* The ULPI translator's copy of the PHY's registers is right whenever it  *)
(* rests, and packets cross it whole in both directions: for every set of  *)
(* modes, any number of changes, packets and interruptions by the PHY, and *)
(* packets of any length.                                                  *)
(***************************************************************************)
EXTENDS UTMITranslator, SequenceTheorems, FiniteSetTheorems, TLAPS

\* The device changes its modes between writes only, and the bus is not registered.
\* Without either, the copy can differ from the register.
Orderly == Calm /\ ~RegisterOutputs

---------------------------------------------------------------------------
(* The inductive invariant *)

Names == {"function", "otg"}
Value == Modes \cup {OtgValue, OtgReset, "zero"}

\* The register that is served: the first of those that ask.
Due == C!address(signals)

\* A write is under way, or was completed in this clock.
Writing == window_state # "IDLE" \/ window_done

Types ==
  /\ window_state \in {"IDLE", "START_WRITE", "SEND_WRITE_ADDRESS", "HOLD_WRITE", "STOPPING"}
  /\ window_stop \in BOOLEAN /\ window_done \in BOOLEAN /\ control_busy \in BOOLEAN
  /\ translator_state \in {"IDLE", "TRANSMIT"} /\ out_req \in BOOLEAN
  /\ signals \in [Names -> Value] /\ current \in [Names -> Value]
  /\ write_value \in [Names -> Value] /\ phy_register \in [Names -> Value]
  /\ tx_length \in Nat
  /\ phy = [state |-> phy.state, address |-> phy.address, value |-> phy.value, packet |-> phy.packet]

\* A write is under way only for a register that asks, and for the value that its
\* signals compose to.
WindowInStep ==
  /\ control_busy <=> Writing
  /\ window_done => window_state = "IDLE"
  /\ window_stop <=> window_state = "STOPPING"
  /\ Writing => Due \in Pending /\ \A r \in Pending : write_value[r] = signals[r]

\* Writes and transmissions keep off each other: a transmission that waits for the bus
\* has at most the present write before it, and none follows.
Turns ==
  /\ translator_state = "TRANSMIT" => out_req
  /\ out_req => ~Writing
  /\ out_req /\ translator_state = "IDLE" => tx_valid /\ Pending = {}
  /\ tx_valid /\ translator_state = "IDLE" => Pending \subseteq {Due} /\ (Pending = {} \/ Writing)

\* What the window shows the PHY.
Shown ==
  /\ window_state \in {"IDLE", "STOPPING"} => window_data = W!Noop
  /\ window_state = "START_WRITE" /\ phy.state \notin {"rx", "rx_begins"} => window_data = W!Noop
  /\ window_state = "SEND_WRITE_ADDRESS" => window_data = <<"write", Due>>
  /\ window_state = "HOLD_WRITE" => window_data = <<"byte", signals[Due]>>

\* The PHY has come as far with a write as the window.
PhyInStep ==
  /\ phy.state = "write_data" <=> window_state = "HOLD_WRITE"
  /\ phy.state = "write_stop" <=> window_state = "STOPPING"
  /\ phy.state \in {"write_data", "write_stop"} => phy.address = Due
  /\ phy.state = "write_stop" => phy.value = signals[Due]
  /\ phy.state \in {"rx", "rx_begins"} => window_state \in {"IDLE", "START_WRITE"}
  /\ phy.state = "tx_data" => translator_state = "TRANSMIT"

\* Only the register that is being written may differ from its copy, and it has the
\* new value when the write is complete.
Shadow ==
  /\ \A r \in Names : phy_register[r] = current[r] \/ (Writing /\ r = Due)
  /\ window_done => phy_register[Due] = signals[Due]

IInv == Types /\ WindowInStep /\ Turns /\ Shown /\ PhyInStep /\ Shadow

---------------------------------------------------------------------------
(* The register that is served *)

LEMMA NamesAre == C!Names = Names
  BY DEF C!Names, C!ToSet, Names, Registers

\* One of the registers that ask is served, the function control first.
LEMMA ServedIs ==
  /\ Pending \subseteq Names
  /\ Pending = {} => C!Served(signals) = {}
  /\ Pending # {} => Due \in Pending /\ C!Served(signals) = {Due}
<1> DEFINE Asks(r) == current[r] # signals[r]
<1>1. Pending = {r \in Names : Asks(r)}
  BY NamesAre DEF Pending, C!write_requested
<1>2. C!Served(signals) = {Registers[k] : k \in {n \in 1 .. 2 :
         Asks(Registers[n]) /\ \A m \in 1 .. n - 1 : ~Asks(Registers[m])}}
  <2>1. Len(Registers) = 2  BY DEF Registers
  <2> QED  BY <2>1 DEF C!Served, C!write_requested
<1>3. Registers[1] = "function" /\ Registers[2] = "otg"  BY DEF Registers
<1> HIDE DEF Asks
<1>4. CASE Asks("function")
  <2>1. {n \in 1 .. 2 : Asks(Registers[n]) /\ \A m \in 1 .. n - 1 : ~Asks(Registers[m])} = {1}
    BY <1>3, <1>4
  <2>2. C!Served(signals) = {"function"}  BY <1>2, <2>1, <1>3
  <2> QED  BY <1>1, <1>4, <2>2 DEF Due, C!address, Names
<1>5. CASE ~Asks("function") /\ Asks("otg")
  <2>1. {n \in 1 .. 2 : Asks(Registers[n]) /\ \A m \in 1 .. n - 1 : ~Asks(Registers[m])} = {2}
    BY <1>3, <1>5
  <2>2. C!Served(signals) = {"otg"}  BY <1>2, <2>1, <1>3
  <2> QED  BY <1>1, <1>5, <2>2 DEF Due, C!address, Names
<1>6. CASE ~Asks("function") /\ ~Asks("otg")
  <2>1. {n \in 1 .. 2 : Asks(Registers[n]) /\ \A m \in 1 .. n - 1 : ~Asks(Registers[m])} = {}
    BY <1>3, <1>6
  <2>2. C!Served(signals) = {}  BY <1>2, <2>1
  <2> QED  BY <1>1, <1>6, <2>2 DEF Names
<1> QED  BY <1>4, <1>5, <1>6

\* The same for the state after a step.
LEMMA ServedIsNext ==
  /\ Pending' \subseteq Names
  /\ Pending' # {} => Due' \in Pending'
<1>1. (Pending \subseteq Names)' /\ (Pending # {} => Due \in Pending)'  BY ServedIs, PTL
<1> QED  BY <1>1

LEMMA Steady ==
  ASSUME signals' = signals, current' = current
  PROVE  Due' = Due /\ Pending' = Pending
<1>1. C!Served(signals)' = C!Served(signals)
  BY DEF C!Served, C!write_requested, Registers
<1> QED  BY <1>1 DEF Due, C!address, Pending, C!write_requested, C!Names, Registers

---------------------------------------------------------------------------
(* What one clock does to the link *)

\* The link's inputs from the bus.
Bus(u) == u.dir \in BOOLEAN /\ u.nxt \in BOOLEAN

\* The control translator asks the window for a write.
Asking == Pending # {} /\ ~window_done /\ translator_state = "IDLE" /\ phy_ready

LEMMA AskingIs == C!write_request(signals, control_bus_idle, window_done) <=> Asking
<1>1. C!Served(signals) # {} <=> Pending # {}  BY ServedIs
<1> QED  BY <1>1 DEF C!write_request, control_bus_idle, X!busy, Asking

\* The transmit translator has the bus and begins.
Starting(u) == translator_state = "IDLE" /\ tx_valid /\ ~control_busy /\ ~u.dir /\ phy_ready

LEMMA WindowMoves ==
  ASSUME NEW u, Bus(u), Types, W!Clock(WindowInputs(u))
  PROVE  /\ window_state = "IDLE" =>
              /\ window_state' = IF Asking THEN "START_WRITE" ELSE "IDLE"
              /\ window_data' = W!Noop /\ ~window_stop' /\ ~window_done'
         /\ window_state # "IDLE" /\ u.dir =>
              window_state' = "START_WRITE" /\ ~window_stop' /\ ~window_done'
         /\ window_state = "START_WRITE" /\ ~u.dir =>
              /\ window_state' = "SEND_WRITE_ADDRESS" /\ window_data' = <<"write", Due>>
              /\ ~window_stop' /\ ~window_done'
         /\ window_state = "SEND_WRITE_ADDRESS" /\ ~u.dir /\ ~u.nxt =>
              window_state' = window_state /\ window_data' = window_data /\ ~window_stop' /\ ~window_done'
         /\ window_state = "SEND_WRITE_ADDRESS" /\ ~u.dir /\ u.nxt =>
              /\ window_state' = "HOLD_WRITE" /\ window_data' = <<"byte", C!write_data(signals)>>
              /\ ~window_stop' /\ ~window_done'
         /\ window_state = "HOLD_WRITE" /\ ~u.dir /\ ~u.nxt =>
              window_state' = window_state /\ window_data' = window_data /\ ~window_stop' /\ ~window_done'
         /\ window_state = "HOLD_WRITE" /\ ~u.dir /\ u.nxt =>
              window_state' = "STOPPING" /\ window_data' = W!Noop /\ window_stop' /\ ~window_done'
         /\ window_state = "STOPPING" /\ ~u.dir =>
              window_state' = "IDLE" /\ window_data' = window_data /\ ~window_stop' /\ window_done'
         /\ window_state' \in {"IDLE", "START_WRITE", "SEND_WRITE_ADDRESS", "HOLD_WRITE", "STOPPING"}
         /\ window_stop' \in BOOLEAN /\ window_done' \in BOOLEAN
<1> DEFINE i == WindowInputs(u)
<1>1. /\ i.dir = u.dir /\ i.nxt = u.nxt /\ i.address = Due /\ i.write_data = C!write_data(signals)
      /\ i.write_request <=> Asking
  BY AskingIs DEF WindowInputs, Due
<1> HIDE DEF i
<1>2. W!Idle(i) \/ W!Interrupted(i) \/ W!StartWrite(i) \/ W!SendWriteAddress(i) \/ W!HoldWrite(i) \/ W!Stopping(i)
  BY DEF W!Clock, i
<1>3. CASE W!Idle(i)
  BY <1>1, <1>3 DEF W!Idle, W!NoStrobe, Types
<1>4. CASE W!Interrupted(i)
  BY <1>1, <1>4 DEF W!Interrupted, W!InterruptedState, W!NoStrobe, Types
<1>5. CASE W!StartWrite(i)
  BY <1>1, <1>5 DEF W!StartWrite, W!NoStrobe, Types
<1>6. CASE W!SendWriteAddress(i)
  BY <1>1, <1>6 DEF W!SendWriteAddress, W!NoStrobe, Types, Bus
<1>7. CASE W!HoldWrite(i)
  BY <1>1, <1>7 DEF W!HoldWrite, Types, Bus
<1>8. CASE W!Stopping(i)
  BY <1>1, <1>8 DEF W!Stopping, Types
<1> QED  BY <1>2, <1>3, <1>4, <1>5, <1>6, <1>7, <1>8

LEMMA ControlMoves ==
  ASSUME Types, WindowInStep, C!Clock(signals, control_bus_idle, W!busy, window_done)
  PROVE  /\ control_busy' <=> Asking \/ window_state # "IDLE"
         /\ control_busy' \in BOOLEAN
         /\ \A r \in Names : current'[r] = IF window_done /\ r = Due THEN signals[r] ELSE current[r]
         /\ \A r \in Names : r \in Pending => write_value'[r] = signals[r]
         /\ current' \in [Names -> Value] /\ write_value' \in [Names -> Value]
         /\ ~window_done => current' = current
<1>1. /\ current' = [r \in Names |-> IF r \in C!Served(signals) /\ window_done THEN write_value[r] ELSE current[r]]
      /\ write_value' = [r \in Names |-> IF current[r] # signals[r] THEN signals[r] ELSE write_value[r]]
      /\ control_busy' = (C!write_request(signals, control_bus_idle, window_done) \/ W!busy)
  BY NamesAre DEF C!Clock, C!Written, C!write_requested
<1>2. control_busy' \in BOOLEAN  BY <1>1 DEF C!write_request
<1>3. control_busy' <=> Asking \/ window_state # "IDLE"
  BY <1>1, <1>2, AskingIs DEF W!busy
<1>4. window_done => /\ \A r \in Names : r \in C!Served(signals) <=> r = Due
                     /\ write_value[Due] = signals[Due]
  BY ServedIs DEF WindowInStep, Writing
<1>5. \A r \in Names : current'[r] = IF window_done /\ r = Due THEN signals[r] ELSE current[r]
  BY <1>1, <1>4
<1>6. \A r \in Names : r \in Pending => write_value'[r] = signals[r]
  BY <1>1 DEF Pending, C!write_requested
<1>7. current' \in [Names -> Value] /\ write_value' \in [Names -> Value]
  BY <1>1 DEF Types
<1>8. ~window_done => current' = current
  BY <1>1 DEF Types
<1> QED  BY <1>2, <1>3, <1>5, <1>6, <1>7, <1>8

LEMMA StartingIs ==
  ASSUME NEW u
  PROVE  X!starting(TransmitInputs(u)) <=> Starting(u)
  BY DEF X!starting, TransmitInputs, transmit_bus_idle, Starting

LEMMA TransmitMoves ==
  ASSUME NEW u, Bus(u), Types, X!TransmitClock(TransmitInputs(u))
  PROVE  /\ out_req' <=> (Starting(u) \/ out_req) /\ ~(translator_state = "TRANSMIT" /\ ~tx_valid)
         /\ translator_state' = IF Starting(u) /\ u.nxt THEN "TRANSMIT"
                                ELSE IF translator_state = "TRANSMIT" /\ ~tx_valid THEN "IDLE"
                                ELSE translator_state
         /\ out_req' \in BOOLEAN
<1>1. TransmitInputs(u).tx_valid = tx_valid /\ TransmitInputs(u).nxt = u.nxt
  BY DEF TransmitInputs
<1>2. out_req' = X!NextRequest(TransmitInputs(u))  BY DEF X!TransmitClock
<1>3. out_req' \in BOOLEAN  BY <1>2 DEF X!NextRequest
<1> QED  BY <1>1, <1>2, <1>3, StartingIs DEF X!TransmitClock, X!NextRequest, X!stp

\* A set with at most one element.
LEMMA AtMostOne ==
  ASSUME NEW S, S \subseteq Names, Cardinality(S) <= 1, NEW a \in S
  PROVE  S \subseteq {a}
<1> SUFFICES ASSUME NEW b \in S, b # a PROVE FALSE  OBVIOUS
<1>1. IsFiniteSet(Names) /\ IsFiniteSet({a, b})
  <2>1. \A x, y : IsFiniteSet({x} \cup {y})  BY FS_Singleton, FS_Union
  <2>2. Names = {"function"} \cup {"otg"} /\ {a, b} = {a} \cup {b}  BY DEF Names
  <2> QED  BY <2>1, <2>2
<1>2. IsFiniteSet(S)  BY <1>1, FS_Subset
<1>3. Cardinality({a, b}) = 2
  <2>1. Cardinality({a}) = 1 /\ IsFiniteSet({a})  BY FS_Singleton
  <2>2. {a, b} = {a} \cup {b} /\ b \notin {a}  OBVIOUS
  <2> QED  BY <2>1, <2>2, FS_AddElement
<1>4. Cardinality({a, b}) <= Cardinality(S)  BY <1>2, FS_Subset
<1>5. Cardinality(S) \in Nat  BY <1>2, FS_CardinalityType
<1> QED  BY <1>3, <1>4, <1>5

\* Signals change at rest only, and a transmission begins when at most one register is
\* to be written; it ends in the translator's hands.
LEMMA DeviceMoves ==
  ASSUME NEW u, Bus(u), Types, WindowInStep, Calm, Clock(u)
  PROVE  /\ signals' = signals \/ (~Writing /\ Pending = {} /\ (tx_valid => translator_state = "TRANSMIT"))
         /\ signals' \in [Names -> Value] /\ tx_length' \in Nat
         /\ \/ tx_length' = tx_length
            \/ /\ ~tx_valid /\ translator_state = "IDLE" /\ phy_ready /\ signals' = signals
               /\ Pending \subseteq {Due}
            \/ tx_length' = 0 /\ (translator_state = "TRANSMIT" \/ (Starting(u) /\ u.nxt))
<1>1. CASE StartTransmission
  <2>1. signals' = signals /\ ~tx_valid /\ ~X!busy /\ phy_ready /\ Cardinality(Pending) <= 1
    BY <1>1 DEF StartTransmission
  <2>2. tx_length' \in Nat  BY <1>1, TranslatorAssumption DEF StartTransmission
  <2>3. Pending \subseteq {Due}
    BY <2>1, ServedIs, AtMostOne
  <2>4. translator_state = "IDLE"  BY <2>1 DEF X!busy
  <2> QED  BY <2>1, <2>2, <2>3, <2>4 DEF Types
<1>2. ASSUME TransmitOn(u)
      PROVE  /\ tx_length' \in Nat
             /\ \/ tx_length' = tx_length
                \/ tx_length' = 0 /\ (translator_state = "TRANSMIT" \/ (Starting(u) /\ u.nxt))
  <2>1. X!tx_ready(TransmitInputs(u)) => u.nxt /\ (translator_state = "TRANSMIT" \/ Starting(u))
    BY StartingIs DEF X!tx_ready, TransmitInputs
  <2>2. X!busy <=> translator_state = "TRANSMIT"  BY DEF X!busy, Types
  <2>3. CASE tx_valid /\ X!tx_ready(TransmitInputs(u)) /\ tx_length' \in {0, tx_length}
    BY <2>1, <2>3 DEF Types
  <2>4. CASE tx_valid /\ raw /\ X!busy /\ tx_length' = 0
    BY <2>2, <2>4
  <2>5. CASE tx_length' = tx_length
    BY <2>5 DEF Types
  <2> QED  BY <1>2, <2>3, <2>4, <2>5 DEF TransmitOn
<1>3. CASE TransmitOn(u) /\ ChangeSignals
  <2>1. AtRest /\ (tx_valid => X!busy)  BY <1>3 DEF ChangeSignals
  <2>2. ~Writing /\ (tx_valid => translator_state = "TRANSMIT")
    BY <2>1 DEF AtRest, W!busy, Writing, X!busy, Types
  <2>3. Pending = {}  BY <2>1 DEF AtRest, Settled, Pending
  <2>4. signals' \in [Names -> Value]
    <3>1. PICK m \in Modes : signals' = [signals EXCEPT !["function"] = m]
      BY <1>3 DEF ChangeSignals
    <3> QED  BY <3>1 DEF Types, Value
  <2> QED  BY <1>2, <1>3, <2>2, <2>3, <2>4
<1>4. CASE TransmitOn(u) /\ UNCHANGED <<signals, wanted, changes, packets>>
  BY <1>2, <1>4 DEF Types
<1> QED  BY <1>1, <1>3, <1>4 DEF Clock

LEMMA PendingIs == Pending = {r \in Names : current[r] # signals[r]}
  BY NamesAre DEF Pending, C!write_requested

LEMMA PendingIsNext == Pending' = {r \in Names : current'[r] # signals'[r]}
<1>1. (Pending = {r \in Names : current[r] # signals[r]})'  BY PendingIs, PTL
<1> QED  BY <1>1

\* A write that is complete leaves nothing of what it was made for.
LEMMA NothingLeft ==
  ASSUME Types, WindowInStep, C!Clock(signals, control_bus_idle, W!busy, window_done),
         signals' = signals, window_done
  PROVE  Pending' = Pending \ {Due}
<1>1. \A r \in Names : current'[r] = IF r = Due THEN signals[r] ELSE current[r]
  BY ControlMoves
<1> QED  BY <1>1, PendingIs, PendingIsNext

\* What the signals and registers do while the window works, and what the window does.
LEMMA LinkMoves ==
  ASSUME NEW u, Bus(u), Types, WindowInStep, Calm, Clock(u)
  PROVE  /\ Writing \/ Asking => signals' = signals
         /\ ~window_done => current' = current
         /\ ~window_done /\ signals' = signals => Due' = Due /\ Pending' = Pending
         /\ Writing' <=> Asking \/ window_state # "IDLE"
<1>1. DeviceClock(u)  BY DEF Clock
<1>2. signals' = signals \/ (~Writing /\ Pending = {})  BY DeviceMoves
<1>3. Writing \/ Asking => signals' = signals  BY <1>2 DEF Asking
<1>4. ~window_done => current' = current  BY <1>1, ControlMoves DEF DeviceClock
<1>5. Writing' <=> Asking \/ window_state # "IDLE"
  BY <1>1, WindowMoves DEF DeviceClock, Writing, Bus, Types
<1> QED  BY <1>3, <1>4, <1>5, Steady

LEMMA WindowInStepStep ==
  ASSUME NEW u, Bus(u), Types, WindowInStep, Calm, Clock(u)
  PROVE  WindowInStep'
<1>1. DeviceClock(u)  BY DEF Clock
<1>2. control_busy' <=> Asking \/ window_state # "IDLE"
  BY <1>1, ControlMoves DEF DeviceClock
<1>3. (window_done' => window_state' = "IDLE") /\ (window_stop' <=> window_state' = "STOPPING")
  BY <1>1, WindowMoves DEF DeviceClock, Bus, Types
<1>4. ASSUME Writing'
      PROVE  Due' \in Pending' /\ \A r \in Pending' : write_value'[r] = signals'[r]
  <2>1. Asking \/ window_state # "IDLE"  BY <1>4, LinkMoves
  <2>2. ~window_done  BY <2>1 DEF Asking, WindowInStep
  <2>3. signals' = signals  BY <2>1, LinkMoves DEF Writing
  <2>4. Due' = Due /\ Pending' = Pending  BY <2>2, <2>3, LinkMoves
  <2>5. Due \in Pending  BY <2>1, ServedIs DEF Asking, WindowInStep, Writing
  <2>6. \A r \in Pending : write_value'[r] = signals[r]
    BY <1>1, ControlMoves, ServedIs DEF DeviceClock
  <2> QED  BY <2>3, <2>4, <2>5, <2>6
<1> QED  BY <1>2, <1>3, <1>4, LinkMoves DEF WindowInStep

LEMMA TurnsStep ==
  ASSUME NEW u, Bus(u), Types, WindowInStep, Turns, Calm, Clock(u)
  PROVE  Turns'
<1>1. DeviceClock(u)  BY DEF Clock
<1>2. /\ out_req' <=> (Starting(u) \/ out_req) /\ ~(translator_state = "TRANSMIT" /\ ~tx_valid)
      /\ translator_state' = IF Starting(u) /\ u.nxt THEN "TRANSMIT"
                             ELSE IF translator_state = "TRANSMIT" /\ ~tx_valid THEN "IDLE"
                             ELSE translator_state
  BY <1>1, TransmitMoves DEF DeviceClock
<1>3. Starting(u) => ~Writing /\ Pending = {} /\ tx_valid /\ translator_state = "IDLE"
  BY DEF Starting, WindowInStep, Turns
<1>4. translator_state' = "TRANSMIT" => out_req'
  BY <1>2, <1>3 DEF Turns, Types
<1>5. out_req' => ~Writing'
  <2>1. out_req' => ~Writing /\ (Pending = {} \/ translator_state = "TRANSMIT")
    BY <1>2, <1>3 DEF Turns, Types
  <2>2. translator_state = "TRANSMIT" \/ Pending = {} => ~Asking
    BY DEF Asking
  <2> QED  BY <2>1, <2>2, LinkMoves DEF Writing
<1>6. ASSUME out_req', translator_state' = "IDLE"
      PROVE  tx_valid' /\ Pending' = {}
  <2>1. translator_state = "IDLE" /\ tx_valid /\ ~Writing /\ Pending = {} /\ ~(Starting(u) /\ u.nxt)
    BY <1>2, <1>3, <1>6 DEF Turns, Types
  <2>2. signals' = signals /\ tx_length' = tx_length
    BY <2>1, DeviceMoves
  <2>3. Pending' = {}  BY <2>1, <2>2, LinkMoves DEF Writing
  <2> QED  BY <2>1, <2>2, <2>3 DEF tx_valid
<1>7. ASSUME tx_valid', translator_state' = "IDLE"
      PROVE  Pending' \subseteq {Due'} /\ (Pending' = {} \/ Writing')
  <2>1. tx_length' # 0  BY <1>7 DEF tx_valid
  <2>2. /\ signals' = signals /\ Pending \subseteq {Due} /\ translator_state = "IDLE"
        /\ Pending = {} \/ Writing \/ phy_ready
    <3>1. CASE tx_length' = tx_length /\ translator_state = "IDLE"
      <4>1. tx_valid  BY <1>7, <3>1 DEF tx_valid
      <4> QED  BY <4>1, <3>1, DeviceMoves DEF Turns
    <3>2. CASE tx_length' = tx_length /\ translator_state # "IDLE"
      <4>1. tx_valid  BY <1>7, <3>2 DEF tx_valid
      <4> QED  BY <1>2, <1>3, <1>7, <4>1, <3>2 DEF Types
    <3>3. CASE tx_length' # tx_length
      BY <2>1, <3>3, DeviceMoves
    <3> QED  BY <3>1, <3>2, <3>3
  <2>3. CASE window_done
    <3>1. Pending' = {}  BY <1>1, <2>2, <2>3, NothingLeft DEF DeviceClock
    <3> QED  BY <3>1
  <2>4. CASE ~window_done
    <3>1. Due' = Due /\ Pending' = Pending  BY <2>2, <2>4, LinkMoves
    <3>2. Pending = {} \/ Asking \/ window_state # "IDLE"
      BY <2>2, <2>4 DEF Asking, Writing
    <3> QED  BY <2>2, <3>1, <3>2, LinkMoves
  <2> QED  BY <2>3, <2>4
<1> QED  BY <1>4, <1>5, <1>6, <1>7 DEF Turns

---------------------------------------------------------------------------
(* The copy and the register *)

\* The PHY's registers change at the stop of a write only, and then to what it was for.
Settles(u) ==
  \/ phy_register' = phy_register /\ ~(window_state = "STOPPING" /\ ~u.dir)
  \/ window_state = "STOPPING" /\ phy_register' = [phy_register EXCEPT ![Due] = signals[Due]]

LEMMA ShadowStep ==
  ASSUME NEW u, Bus(u), Types, WindowInStep, Calm, Clock(u), Shadow, Settles(u)
  PROVE  Shadow' /\ phy_register' \in [Names -> Value]
<1>1. DeviceClock(u)  BY DEF Clock
<1>2. phy_register' \in [Names -> Value]
  BY DEF Settles, Types
<1>3. Writing => Due \in Names  BY ServedIs DEF WindowInStep
<1>4. CASE window_done
  <2>1. phy_register' = phy_register /\ signals' = signals
    BY <1>4, LinkMoves DEF Settles, WindowInStep, Writing
  <2>2. \A r \in Names : current'[r] = IF r = Due THEN signals[r] ELSE current[r]
    BY <1>1, <1>4, ControlMoves DEF DeviceClock
  <2>3. \A r \in Names : phy_register'[r] = current'[r]
    BY <1>3, <1>4, <2>1, <2>2 DEF Shadow, Writing
  <2>4. ~window_done'
    BY <1>1, <1>4, WindowMoves DEF DeviceClock, WindowInStep
  <2> QED  BY <1>2, <2>3, <2>4 DEF Shadow
<1>5. CASE ~window_done /\ window_state = "IDLE"
  <2>1. phy_register' = phy_register /\ current' = current
    BY <1>5, LinkMoves DEF Settles
  <2>2. ~window_done'
    BY <1>1, <1>5, WindowMoves DEF DeviceClock
  <2> QED  BY <1>2, <1>5, <2>1, <2>2 DEF Shadow, Writing
<1>6. CASE ~window_done /\ window_state # "IDLE"
  <2>1. signals' = signals /\ current' = current /\ Due' = Due /\ Writing' /\ Due \in Names
    BY <1>3, <1>6, LinkMoves DEF Writing
  <2>2. window_done' => window_state = "STOPPING" /\ ~u.dir
    BY <1>1, <1>6, WindowMoves DEF DeviceClock, Types, Bus
  <2>3. \A r \in Names : r # Due => phy_register'[r] = phy_register[r]
    BY DEF Settles, Types
  <2>4. window_done' => phy_register'[Due] = signals[Due]
    BY <2>1, <2>2 DEF Settles, Types
  <2> QED  BY <1>2, <2>1, <2>3, <2>4 DEF Shadow
<1> QED  BY <1>4, <1>5, <1>6

---------------------------------------------------------------------------
(* What the PHY sees *)

LEMMA SeenIs ==
  ASSUME NEW u, Types, WindowInStep, Turns, ~RegisterOutputs
  PROVE  /\ ~out_req => Seen(u).data = window_data /\ Seen(u).stp = window_stop
         /\ out_req => /\ Seen(u).data[1] # "write"
                       /\ Seen(u).data[1] = "transmit" => Starting(u)
                       /\ Seen(u).stp <=> translator_state = "TRANSMIT" /\ ~tx_valid
<1> DEFINE i == TransmitInputs(u)
<1>1. ~out_req => Seen(u).data = window_data /\ Seen(u).stp = window_stop
  BY DEF Seen, Out
<1>2. out_req => Seen(u).data = X!data_out(i) /\ Seen(u).stp = X!stp(i)
  BY DEF Seen, Out
<1>3. X!stp(i) <=> translator_state = "TRANSMIT" /\ ~tx_valid
  BY DEF X!stp, TransmitInputs
<1>4. X!starting(i) <=> Starting(u)  BY StartingIs
<1>5. i.tx_valid <=> tx_valid  BY DEF TransmitInputs
<1>6. Starting(u) => translator_state = "IDLE"  BY DEF Starting
<1> HIDE DEF i
<1>7. CASE Starting(u)
  <2>1. X!data_out(i) = <<"transmit", IF i.raw THEN 0 ELSE i.tx_data>>
    BY <1>4, <1>6, <1>7, Zenon DEF X!data_out
  <2> QED  BY <1>1, <1>2, <1>3, <1>7, <2>1
<1>8. CASE ~Starting(u) /\ translator_state = "IDLE"
  <2>1. X!data_out(i) = <<"noop", "none">>
    BY <1>4, <1>8, Zenon DEF X!data_out
  <2> QED  BY <1>1, <1>2, <1>3, <1>8, <2>1
<1>9. CASE translator_state = "TRANSMIT" /\ i.tx_valid
  <2>1. X!data_out(i) = <<"byte", i.tx_data>>
    BY <1>4, <1>6, <1>9, Zenon DEF X!data_out
  <2> QED  BY <1>1, <1>2, <1>3, <1>9, <2>1
<1>10. CASE translator_state = "TRANSMIT" /\ ~i.tx_valid
  <2>1. X!data_out(i) = <<"byte", IF i.raw THEN "error" ELSE "none">>
    BY <1>4, <1>6, <1>10, Zenon DEF X!data_out
  <2> QED  BY <1>1, <1>2, <1>3, <1>10, <2>1
<1> QED  BY <1>7, <1>8, <1>9, <1>10 DEF Types

---------------------------------------------------------------------------
(* The window and the PHY *)

LEMMA ShownStep ==
  ASSUME NEW u, Bus(u), Types, WindowInStep, Calm, Clock(u), Shown,
         u.dir => phy'.state \in {"rx", "rx_begins"},
         phy.state \in {"rx", "rx_begins"} => window_state \in {"IDLE", "START_WRITE"}
  PROVE  Shown'
<1>1. W!Clock(WindowInputs(u))  BY DEF Clock, DeviceClock
<1>2. window_state # "IDLE" => signals' = signals /\ Due' = Due
  BY LinkMoves DEF Writing, WindowInStep
<1>3. window_state # "IDLE" => C!write_data(signals) = signals[Due]
  <2>1. window_state # "IDLE" => Due \in Pending /\ write_value[Due] = signals[Due]
    BY DEF WindowInStep, Writing
  <2> QED  BY <2>1, ServedIs DEF C!write_data, Due
<1>4. W!Noop' = W!Noop  BY DEF W!Noop
<1>5. window_state' \in {"IDLE", "STOPPING"} => window_data' = W!Noop
  BY <1>1, WindowMoves DEF Shown, Types, Bus
<1>6. window_state' = "START_WRITE" /\ phy'.state \notin {"rx", "rx_begins"} => window_data' = W!Noop
  BY <1>1, WindowMoves DEF Types, Bus
<1>7. window_state' = "SEND_WRITE_ADDRESS" => window_data' = <<"write", Due'>>
  BY <1>1, <1>2, WindowMoves DEF Shown, Types, Bus
<1>8. window_state' = "HOLD_WRITE" => window_data' = <<"byte", signals'[Due']>>
  BY <1>1, <1>2, <1>3, WindowMoves DEF Shown, Types, Bus
<1> QED  BY <1>4, <1>5, <1>6, <1>7, <1>8 DEF Shown

\* phy is a record of its four fields.
Shape == phy = [state |-> phy.state, address |-> phy.address, value |-> phy.value, packet |-> phy.packet]

\* What a step of the PHY in a clock u keeps to.
InStep(u) ==
  /\ Bus(u) /\ Clock(u) /\ Settles(u) /\ Shape'
  /\ u.dir => phy'.state \in {"rx", "rx_begins"}
  /\ PhyInStep'

\* In a clock of a write the register served stays.
LEMMA Held ==
  ASSUME NEW u, Bus(u), Types, WindowInStep, Calm, Clock(u), window_state # "IDLE"
  PROVE  signals' = signals /\ Due' = Due /\ ~window_done /\ Writing /\ Writing'
  BY LinkMoves DEF Writing, WindowInStep

LEMMA PhyQuiet ==
  ASSUME Orderly, IInv, Wait \/ SeeCommand \/ Release
  PROVE  \E u : InStep(u)
<1> USE DEF Orderly, IInv
<1>1. Bus(Quiet) /\ Clock(Quiet) /\ ~Quiet.dir /\ ~Quiet.nxt /\ phy_register' = phy_register
  BY DEF Quiet, Bus, Wait, SeeCommand, Release, phyVars
<1>2. W!Clock(WindowInputs(Quiet)) /\ X!TransmitClock(TransmitInputs(Quiet))
  BY <1>1 DEF Clock, DeviceClock
<1>3. phy.state # "write_stop"
  <2>1. SUFFICES ASSUME phy.state = "write_stop" PROVE FALSE  OBVIOUS
  <2>2. Wait /\ ~Seen(Quiet).stp  BY <2>1 DEF Wait, SeeCommand, Release
  <2>3. window_state = "STOPPING"  BY <2>1 DEF PhyInStep
  <2>4. ~out_req /\ window_stop  BY <2>3 DEF Turns, WindowInStep, Writing
  <2> QED  BY <2>2, <2>4, SeenIs
<1>4. window_state # "STOPPING"  BY <1>3 DEF PhyInStep
<1>5. Settles(Quiet)  BY <1>1, <1>4 DEF Settles
<1>6. /\ window_state' = "HOLD_WRITE" <=> window_state = "HOLD_WRITE"
      /\ window_state' # "STOPPING"
  BY <1>1, <1>2, <1>4, WindowMoves DEF Types
<1>7. window_state = "HOLD_WRITE" => Due' = Due
  BY <1>1, Held
<1>8. CASE Wait
  <2>1. phy' = phy /\ phy.state \in {"idle", "write_data", "tx_data"}
    BY <1>3, <1>8 DEF Wait, phyVars
  <2>2. phy.state = "tx_data" => translator_state' = "TRANSMIT"
    <3>1. SUFFICES ASSUME phy.state = "tx_data" PROVE translator_state' = "TRANSMIT"  OBVIOUS
    <3>2. translator_state = "TRANSMIT" /\ out_req  BY <3>1 DEF PhyInStep, Turns
    <3>3. ~Seen(Quiet).stp  BY <1>8, <3>1 DEF Wait
    <3>4. tx_valid  BY <3>2, <3>3, SeenIs
    <3> QED  BY <1>1, <1>2, <3>2, <3>4, TransmitMoves
  <2>3. PhyInStep'  BY <1>6, <1>7, <2>1, <2>2 DEF PhyInStep
  <2>4. Shape'  BY <2>1 DEF Shape, Types
  <2> QED  BY <1>1, <1>5, <2>3, <2>4 DEF InStep
<1>9. CASE SeeCommand
  <2>1. phy.state = "idle" /\ phy' = [phy EXCEPT !.state = "command"]  BY <1>9 DEF SeeCommand
  <2>2. phy' = [state |-> "command", address |-> phy.address, value |-> phy.value, packet |-> phy.packet]
    BY <2>1 DEF Types
  <2>3. PhyInStep'  BY <1>6, <2>1, <2>2 DEF PhyInStep
  <2>4. Shape'  BY <2>2 DEF Shape
  <2> QED  BY <1>1, <1>5, <2>3, <2>4 DEF InStep
<1>10. CASE Release
  <2>1. phy.state = "rx" /\ phy' = Empty  BY <1>10 DEF Release
  <2>2. PhyInStep'  BY <1>6, <2>1 DEF PhyInStep, Empty
  <2>3. Shape'  BY <2>1 DEF Shape, Empty
  <2> QED  BY <1>1, <1>5, <2>2, <2>3 DEF InStep
<1> QED  BY <1>8, <1>9, <1>10

LEMMA PhyAccepts ==
  ASSUME Orderly, IInv, AcceptWrite \/ AcceptTransmit \/ TakeByte
  PROVE  \E u : InStep(u)
<1> USE DEF Orderly, IInv
<1>1. Bus(Nxt) /\ Clock(Nxt) /\ ~Nxt.dir /\ Nxt.nxt /\ phy_register' = phy_register
  BY DEF Nxt, Bus, AcceptWrite, AcceptTransmit, TakeByte
<1>2. W!Clock(WindowInputs(Nxt)) /\ X!TransmitClock(TransmitInputs(Nxt))
  BY <1>1 DEF Clock, DeviceClock
<1>3. phy.state \in {"command", "tx_data"}  BY DEF AcceptWrite, AcceptTransmit, TakeByte
<1>4. window_state \notin {"HOLD_WRITE", "STOPPING"}  BY <1>3 DEF PhyInStep
<1>5. Settles(Nxt)  BY <1>1, <1>4 DEF Settles
<1>6. /\ window_state' = "HOLD_WRITE" <=> window_state = "SEND_WRITE_ADDRESS"
      /\ window_state' # "STOPPING"
  BY <1>1, <1>2, <1>4, WindowMoves DEF Types
<1>7. CASE AcceptWrite
  <2>1. /\ phy.state = "command" /\ Seen(Nxt).data[1] = "write"
        /\ phy' = [phy EXCEPT !.state = "write_data", !.address = Seen(Nxt).data[2]]
    BY <1>7 DEF AcceptWrite
  <2>2. window_data[1] = "write" /\ Seen(Nxt).data = window_data  BY <2>1, SeenIs
  <2>3. window_state = "SEND_WRITE_ADDRESS"
    BY <1>4, <2>1, <2>2 DEF Shown, Types, W!Noop
  <2>4. window_data[2] = Due  BY <2>3 DEF Shown
  <2>5. Due' = Due  BY <1>1, <2>3, Held
  <2>6. phy' = [state |-> "write_data", address |-> Due, value |-> phy.value, packet |-> phy.packet]
    BY <2>1, <2>2, <2>4 DEF Types
  <2>7. PhyInStep'  BY <1>6, <2>3, <2>5, <2>6 DEF PhyInStep
  <2>8. Shape'  BY <2>6 DEF Shape
  <2> QED  BY <1>1, <1>5, <2>7, <2>8 DEF InStep
<1>8. CASE AcceptTransmit
  <2>1. /\ phy.state = "command" /\ Seen(Nxt).data[1] = "transmit"
        /\ phy' = [phy EXCEPT !.state = "tx_data",
                              !.packet = IF Seen(Nxt).data[2] = 0 THEN << >> ELSE <<Seen(Nxt).data[2]>>]
    BY <1>8 DEF AcceptTransmit
  <2>2. out_req
    <3>1. SUFFICES ASSUME ~out_req PROVE FALSE  OBVIOUS
    <3>2. window_data[1] = "transmit"  BY <2>1, <3>1, SeenIs
    <3> QED  BY <1>4, <2>1, <3>2 DEF Shown, Types, W!Noop
  <2>3. Starting(Nxt) /\ window_state = "IDLE"
    BY <2>1, <2>2, SeenIs DEF Turns, Writing
  <2>4. translator_state' = "TRANSMIT"  BY <1>1, <1>2, <2>3, TransmitMoves
  <2>5. Shape' /\ phy'.state = "tx_data"
    <3> DEFINE p == IF Seen(Nxt).data[2] = 0 THEN << >> ELSE <<Seen(Nxt).data[2]>>
    <3>1. phy' = [phy EXCEPT !.state = "tx_data", !.packet = p]  BY <2>1
    <3> HIDE DEF p
    <3>2. phy' = [state |-> "tx_data", address |-> phy.address, value |-> phy.value, packet |-> p]
      BY <3>1 DEF Types
    <3> QED  BY <3>2 DEF Shape
  <2>6. PhyInStep'  BY <1>6, <2>3, <2>4, <2>5 DEF PhyInStep
  <2> QED  BY <1>1, <1>5, <2>5, <2>6 DEF InStep
<1>9. CASE TakeByte
  <2>1. phy.state = "tx_data" /\ ~Seen(Nxt).stp  BY <1>9 DEF TakeByte
  <2>2. translator_state = "TRANSMIT" /\ out_req /\ window_state = "IDLE"
    BY <2>1 DEF PhyInStep, Turns, Writing
  <2>3. tx_valid  BY <2>1, <2>2, SeenIs
  <2>4. translator_state' = "TRANSMIT"  BY <1>1, <1>2, <2>2, <2>3, TransmitMoves
  <2>5. Shape' /\ phy'.state = "tx_data"
    <3> DEFINE p == IF Len(phy.packet) > MaxLength THEN phy.packet ELSE Append(phy.packet, Seen(Nxt).data[2])
    <3>1. phy' = [phy EXCEPT !.packet = p]  BY <1>9 DEF TakeByte
    <3> HIDE DEF p
    <3>2. phy' = [state |-> "tx_data", address |-> phy.address, value |-> phy.value, packet |-> p]
      BY <2>1, <3>1 DEF Types
    <3> QED  BY <3>2 DEF Shape
  <2>6. PhyInStep'  BY <1>6, <2>2, <2>4, <2>5 DEF PhyInStep
  <2> QED  BY <1>1, <1>5, <2>5, <2>6 DEF InStep
<1> QED  BY <1>7, <1>8, <1>9

LEMMA PhyTakesData ==
  ASSUME Orderly, IInv, TakeRegisterData
  PROVE  \E u : InStep(u)
<1> USE DEF Orderly, IInv
<1>1. Bus(Nxt) /\ Clock(Nxt) /\ ~Nxt.dir /\ Nxt.nxt /\ phy_register' = phy_register
  BY DEF Nxt, Bus, TakeRegisterData
<1>2. W!Clock(WindowInputs(Nxt))  BY <1>1 DEF Clock, DeviceClock
<1>3. phy.state = "write_data" /\ window_state = "HOLD_WRITE" /\ phy.address = Due
  BY DEF TakeRegisterData, PhyInStep
<1>4. Settles(Nxt)  BY <1>1, <1>3 DEF Settles
<1>5. window_state' = "STOPPING"  BY <1>1, <1>2, <1>3, WindowMoves
<1>6. signals' = signals /\ Due' = Due  BY <1>1, <1>3, Held
<1>7. Seen(Nxt).data[2] = signals[Due]
  BY <1>3, SeenIs DEF Turns, Writing, Shown
<1>8. phy' = [phy EXCEPT !.state = "write_stop", !.value = Seen(Nxt).data[2]]
  BY DEF TakeRegisterData
<1>9. phy' = [state |-> "write_stop", address |-> Due, value |-> signals[Due], packet |-> phy.packet]
  BY <1>3, <1>7, <1>8 DEF Types
<1>10. PhyInStep'  BY <1>5, <1>6, <1>9 DEF PhyInStep
<1>11. Shape'  BY <1>9 DEF Shape
<1> QED  BY <1>1, <1>4, <1>10, <1>11 DEF InStep

LEMMA PhyFinishes ==
  ASSUME Orderly, IInv, FinishWrite \/ FinishPacket
  PROVE  \E u : InStep(u)
<1> USE DEF Orderly, IInv
<1>1. Bus(Quiet) /\ Clock(Quiet) /\ ~Quiet.dir /\ ~Quiet.nxt /\ phy' = Empty
  BY DEF Quiet, Bus, FinishWrite, FinishPacket
<1>2. W!Clock(WindowInputs(Quiet))  BY <1>1 DEF Clock, DeviceClock
<1>3. Shape'  BY <1>1 DEF Shape, Empty
<1>4. CASE FinishWrite
  <2>1. phy.state = "write_stop" /\ phy_register' = Stored  BY <1>4 DEF FinishWrite
  <2>2. window_state = "STOPPING" /\ phy.address = Due /\ phy.value = signals[Due]
    BY <2>1 DEF PhyInStep
  <2>3. Settles(Quiet)  BY <2>1, <2>2 DEF Settles, Stored
  <2>4. window_state' = "IDLE"  BY <1>1, <1>2, <2>2, WindowMoves
  <2>5. PhyInStep'  BY <1>1, <2>4 DEF PhyInStep, Empty
  <2> QED  BY <1>1, <1>3, <2>3, <2>5 DEF InStep
<1>5. CASE FinishPacket
  <2>1. phy.state = "tx_data" /\ phy_register' = phy_register  BY <1>5 DEF FinishPacket
  <2>2. window_state = "IDLE"
    BY <2>1 DEF PhyInStep, Turns, Writing
  <2>3. Settles(Quiet)  BY <2>1, <2>2 DEF Settles
  <2>4. window_state' \in {"IDLE", "START_WRITE"}  BY <1>1, <1>2, <2>2, WindowMoves
  <2>5. PhyInStep'  BY <1>1, <2>4 DEF PhyInStep, Empty
  <2> QED  BY <1>1, <1>3, <2>3, <2>5 DEF InStep
<1> QED  BY <1>4, <1>5

\* While the PHY has the bus the window waits at the start of its write.
LEMMA BusTaken ==
  ASSUME NEW u, Types, W!Clock(WindowInputs(u)), Bus(u), u.dir
  PROVE  window_state' \in {"IDLE", "START_WRITE"}
  BY WindowMoves DEF Types

LEMMA PhyTakesBus ==
  ASSUME Orderly, IInv, NEW begins \in BOOLEAN, TakeBus(begins)
  PROVE  \E u : InStep(u)
<1> USE DEF Orderly, IInv
<1> DEFINE u == [dir |-> TRUE, nxt |-> begins, data |-> 0]
<1>1. Bus(u) /\ Clock(u) /\ u.dir
  BY DEF Bus, TakeBus
<1>2. phy.state \in {"idle", "write_data", "write_stop"} /\ phy' = [Empty EXCEPT !.state = "rx", !.value = IF begins THEN "packet" ELSE "zero"]
  BY DEF TakeBus
<1>3. phy_register' = phy_register \/ (phy.state = "write_stop" /\ phy_register' = Stored)
  BY DEF TakeBus
<1> HIDE DEF u
<1>4. phy'.state = "rx" /\ Shape'  BY <1>2 DEF Shape, Empty
<1>5. window_state' \in {"IDLE", "START_WRITE"}
  BY <1>1, BusTaken DEF Clock, DeviceClock
<1>6. Settles(u)
  BY <1>1, <1>3 DEF Settles, Stored, PhyInStep
<1>7. PhyInStep'  BY <1>4, <1>5 DEF PhyInStep
<1> QED  BY <1>1, <1>4, <1>6, <1>7 DEF InStep

LEMMA PhyReports ==
  ASSUME Orderly, IInv, Command \/ Byte
  PROVE  \E u : InStep(u)
<1> USE DEF Orderly, IInv
<1>1. /\ phy.state \in {"rx", "rx_begins"} /\ phy_register' = phy_register
      /\ \E u : Bus(u) /\ Clock(u) /\ u.dir
  <2>1. CASE Command
    <3>1. PICK active \in BOOLEAN, line \in Lines :
            Clock([dir |-> TRUE, nxt |-> FALSE, data |-> [active |-> active, line |-> line]])
      BY <2>1 DEF Command
    <3> DEFINE v == [dir |-> TRUE, nxt |-> FALSE, data |-> [active |-> active, line |-> line]]
    <3>2. Bus(v) /\ v.dir  BY DEF Bus
    <3>3. Clock(v)  BY <3>1
    <3>4. phy.state \in {"rx", "rx_begins"} /\ phy_register' = phy_register
      BY <2>1 DEF Command
    <3> HIDE DEF v
    <3> QED  BY <3>2, <3>3, <3>4
  <2>2. CASE Byte
    <3>1. Clock([dir |-> TRUE, nxt |-> TRUE, data |-> Len(air) + 1])  BY <2>2 DEF Byte
    <3> DEFINE v == [dir |-> TRUE, nxt |-> TRUE, data |-> Len(air) + 1]
    <3>2. Bus(v) /\ v.dir  BY DEF Bus
    <3>3. Clock(v)  BY <3>1
    <3>4. phy.state = "rx" /\ phy_register' = phy_register  BY <2>2 DEF Byte
    <3> HIDE DEF v
    <3> QED  BY <3>2, <3>3, <3>4
  <2> QED  BY <2>1, <2>2
<1>2. phy'.state \in {"rx", "rx_begins"} /\ Shape'
  <2>1. CASE Command
    <3>1. PICK active \in BOOLEAN, line \in Lines :
            phy' = IF active /\ ~aired THEN [phy EXCEPT !.state = "rx_begins", !.value = "packet"]
                   ELSE [phy EXCEPT !.state = "rx"]
      BY <2>1 DEF Command
    <3>2. phy' \in {[state |-> "rx_begins", address |-> phy.address, value |-> "packet", packet |-> phy.packet],
                    [state |-> "rx", address |-> phy.address, value |-> phy.value, packet |-> phy.packet]}
      BY <3>1 DEF Types
    <3> QED  BY <3>2 DEF Shape
  <2>2. CASE Byte
    BY <2>2, <1>1 DEF Byte, Shape, Types
  <2> QED  BY <2>1, <2>2
<1>3. PICK u : Bus(u) /\ Clock(u) /\ u.dir  BY <1>1
<1>4. window_state' \in {"IDLE", "START_WRITE"}
  BY <1>3, BusTaken DEF Clock, DeviceClock
<1>5. Settles(u)  BY <1>1, <1>3 DEF Settles
<1>6. PhyInStep'  BY <1>2, <1>4 DEF PhyInStep
<1> QED  BY <1>2, <1>3, <1>5, <1>6 DEF InStep

LEMMA StepInStep ==
  ASSUME Orderly, IInv, Next
  PROVE  \E u : InStep(u)
  BY PhyQuiet, PhyAccepts, PhyTakesData, PhyFinishes, PhyTakesBus, PhyReports DEF Next

---------------------------------------------------------------------------
(* The copy is right *)

LEMMA TypesStep ==
  ASSUME NEW u, Bus(u), Types, WindowInStep, Calm, Clock(u), Shape', phy_register' \in [Names -> Value]
  PROVE  Types'
<1>1. DeviceClock(u)  BY DEF Clock
<1>2. /\ window_state' \in {"IDLE", "START_WRITE", "SEND_WRITE_ADDRESS", "HOLD_WRITE", "STOPPING"}
      /\ window_stop' \in BOOLEAN /\ window_done' \in BOOLEAN
  BY <1>1, WindowMoves DEF DeviceClock
<1>3. control_busy' \in BOOLEAN /\ current' \in [Names -> Value] /\ write_value' \in [Names -> Value]
  BY <1>1, ControlMoves DEF DeviceClock
<1>4. translator_state' \in {"IDLE", "TRANSMIT"} /\ out_req' \in BOOLEAN
  BY <1>1, TransmitMoves DEF DeviceClock, Types
<1>5. signals' \in [Names -> Value] /\ tx_length' \in Nat  BY DeviceMoves
<1> QED  BY <1>2, <1>3, <1>4, <1>5 DEF Types, Shape

LEMMA Starts ==
  ASSUME Init
  PROVE  IInv
<1>1. current = ResetValue /\ phy_register = ResetValue /\ write_value = [r \in Names |-> "zero"]
  BY NamesAre DEF Init, C!Init
<1>2. ResetValue \in [Names -> Value] /\ [r \in Names |-> "zero"] \in [Names -> Value]
  BY TranslatorAssumption DEF ResetValue, Names, Value
<1>3. signals \in [Names -> Value]
  <2>1. PICK m \in Modes : signals = [r \in Names |-> IF r = "otg" THEN OtgValue ELSE m]
    BY NamesAre DEF Init
  <2> QED  BY <2>1 DEF Value
<1>4. window_state = "IDLE" /\ ~window_stop /\ ~window_done /\ window_data = W!Noop
      /\ window_stop \in BOOLEAN /\ window_done \in BOOLEAN
  BY DEF Init, W!Init
<1>5. control_busy = FALSE /\ translator_state = "IDLE" /\ out_req = FALSE /\ tx_length = 0 /\ phy = Empty
  BY DEF Init, C!Init, X!TransmitInit
<1>6. ~Writing /\ ~tx_valid  BY <1>4, <1>5 DEF Writing, tx_valid
<1>7. Types  BY <1>1, <1>2, <1>3, <1>4, <1>5 DEF Types, Empty
<1>8. WindowInStep  BY <1>4, <1>5, <1>6 DEF WindowInStep
<1>9. Turns  BY <1>5, <1>6 DEF Turns
<1>10. Shown  BY <1>4 DEF Shown
<1>11. PhyInStep  BY <1>4, <1>5 DEF PhyInStep, Empty
<1>12. Shadow  BY <1>1, <1>4 DEF Shadow
<1> QED  BY <1>7, <1>8, <1>9, <1>10, <1>11, <1>12 DEF IInv

LEMMA Invariant ==
  ASSUME Orderly, IInv, [Next]_vars
  PROVE  IInv'
<1> USE DEF IInv
<1>1. CASE Next
  <2>1. PICK u : InStep(u)  BY <1>1, StepInStep
  <2>2. Bus(u) /\ Clock(u) /\ Settles(u) /\ Calm /\ Shape'  BY <2>1 DEF InStep, Orderly
  <2>3. Shadow' /\ phy_register' \in [Names -> Value]  BY <2>2, ShadowStep
  <2>4. Types'  BY <2>2, <2>3, TypesStep
  <2>5. WindowInStep'  BY <2>2, WindowInStepStep
  <2>6. Turns'  BY <2>2, TurnsStep
  <2>7. Shown'
    BY <2>1, <2>2, ShownStep DEF InStep, PhyInStep
  <2> QED  BY <2>1, <2>3, <2>4, <2>5, <2>6, <2>7 DEF InStep
<1>2. CASE UNCHANGED vars
  <2>1. signals' = signals /\ current' = current  BY <1>2 DEF vars, controlVars
  <2>2. Due' = Due /\ Pending' = Pending  BY <2>1, Steady
  <2> QED
    BY <1>2, <2>1, <2>2
    DEF vars, windowVars, controlVars, phyVars, Types, WindowInStep, Turns, Shown, PhyInStep, Shadow,
        Writing, tx_valid, W!Noop
<1> QED  BY <1>1, <1>2

\* For any modes, values after a reset, number of changes, packets and interruptions:
\* whenever the translator rests, its copy of the registers (ulpi.py:408) and the PHY's
\* own agree, although a write can be cut off by the PHY in any clock, after its stop even.
THEOREM ShadowCorrect ==
  ASSUME Orderly
  PROVE  Spec => []ShadowIsTrue
<1>1. Init => IInv  BY Starts
<1>2. IInv /\ [Next]_vars => IInv'  BY Invariant
<1>3. IInv => ShadowIsTrue
  <2>1. SUFFICES ASSUME IInv, AtRest PROVE phy_register = current  BY DEF ShadowIsTrue
  <2>2. ~Writing  BY <2>1 DEF AtRest, W!busy, Writing
  <2>3. \A r \in Names : phy_register[r] = current[r]  BY <2>1, <2>2 DEF IInv, Shadow
  <2> QED  BY <2>1, <2>3 DEF IInv, Types
<1> QED  BY <1>1, <1>2, <1>3, PTL DEF Spec

---------------------------------------------------------------------------
(* Packets: the inductive invariant *)

PacketTypes ==
  /\ tx_data \in Nat /\ wanted \in 0 .. MaxLength
  /\ direction_delayed \in BOOLEAN /\ aired \in BOOLEAN /\ deaf \in BOOLEAN
  /\ rx_start \in BOOLEAN /\ rx_stop \in BOOLEAN /\ rx_active \in BOOLEAN /\ rx_valid \in BOOLEAN
  /\ last_rx_command.active \in BOOLEAN /\ phy_command.active \in BOOLEAN

\* What the PHY has of a packet that is being transmitted.  A chirp may end at any byte.
SoFar ==
  /\ Len(phy.packet) \in Nat /\ InOrder(phy.packet)
  /\ tx_valid => Len(phy.packet) = tx_data - 1
  /\ ~tx_valid /\ ~raw => Len(phy.packet) = wanted

Sending ==
  /\ tx_valid => tx_length = wanted /\ tx_data \in 1 .. wanted
  /\ tx_valid /\ translator_state = "IDLE" => tx_data = 1
  /\ phy.state = "tx_data" => SoFar
  /\ sent # "broken"

TheirBus == phy.state \in {"rx", "rx_begins"}

\* The decoder follows the PHY: it is told of a packet by the time the first byte
\* comes, and by nothing else.
Receiving ==
  /\ direction_delayed <=> TheirBus
  /\ rx_active \/ aired => TheirBus /\ phy.value = "packet"
  /\ rx_start => aired
  /\ rx_stop => TheirBus
  /\ aired => ~rx_stop
  /\ phy.state = "rx_begins" => aired /\ air = << >> /\ ~rx_active /\ (deaf \/ rx_start)
  /\ phy.state # "rx_begins" /\ ~deaf => heard = air /\ (aired => rx_active)

PacketInv == PacketTypes /\ Sending /\ Receiving

---------------------------------------------------------------------------
(* Packets: transmission *)

\* The link takes a byte from the device in this clock.
Taken(u) == u.nxt /\ (translator_state = "TRANSMIT" \/ (Starting(u) /\ ~raw))

LEMMA TakenIs ==
  ASSUME NEW u, Bus(u), Types
  PROVE  X!tx_ready(TransmitInputs(u)) <=> Taken(u)
  BY StartingIs DEF X!tx_ready, TransmitInputs, Taken, Bus

LEMMA TransmissionMoves ==
  ASSUME NEW u, Bus(u), Types, PacketTypes, Clock(u)
  PROVE  /\ tx_valid \/ translator_state = "TRANSMIT" => (raw' <=> raw) /\ wanted' = wanted
         /\ ~tx_valid =>
              \/ UNCHANGED <<tx_length, tx_data, wanted>>
              \/ /\ tx_length' = wanted' /\ wanted' \in 1 .. MaxLength /\ tx_data' = 1
                 /\ translator_state = "IDLE"
         /\ tx_valid =>
              \/ Taken(u) /\ tx_data = tx_length /\ tx_length' = 0 /\ tx_data' = 0
              \/ Taken(u) /\ tx_data # tx_length /\ tx_length' = tx_length /\ tx_data' = tx_data + 1
              \/ raw /\ translator_state = "TRANSMIT" /\ tx_length' = 0 /\ tx_data' = 0
              \/ ~Taken(u) /\ UNCHANGED <<tx_length, tx_data>>
<1>1. X!busy <=> translator_state = "TRANSMIT"  BY DEF X!busy, Types
<1>2. ASSUME TransmitOn(u)
      PROVE  /\ ~tx_valid => UNCHANGED <<tx_length, tx_data>>
             /\ tx_valid =>
                  \/ Taken(u) /\ tx_data = tx_length /\ tx_length' = 0 /\ tx_data' = 0
                  \/ Taken(u) /\ tx_data # tx_length /\ tx_length' = tx_length /\ tx_data' = tx_data + 1
                  \/ raw /\ translator_state = "TRANSMIT" /\ tx_length' = 0 /\ tx_data' = 0
                  \/ ~Taken(u) /\ UNCHANGED <<tx_length, tx_data>>
  BY <1>1, <1>2, TakenIs DEF TransmitOn
<1>3. CASE StartTransmission
  <2>1. ~tx_valid /\ translator_state = "IDLE" /\ signals' = signals
    BY <1>1, <1>3 DEF StartTransmission, Types
  <2>2. PICK n \in 1 .. MaxLength : tx_length' = n /\ wanted' = n
    BY <1>3 DEF StartTransmission
  <2>3. tx_data' = 1  BY <1>3 DEF StartTransmission
  <2> QED  BY <2>1, <2>2, <2>3
<1>4. CASE TransmitOn(u) /\ ChangeSignals
  <2>1. PICK m \in Modes : /\ tx_valid \/ X!busy => (m = "chirp") = raw
                           /\ signals' = [signals EXCEPT !["function"] = m]
    BY <1>4 DEF ChangeSignals
  <2>2. raw' <=> m = "chirp"  BY <2>1 DEF raw, Types, Names
  <2>3. wanted' = wanted  BY <1>4 DEF ChangeSignals
  <2> QED  BY <1>1, <1>2, <1>4, <2>1, <2>2, <2>3
<1>5. CASE TransmitOn(u) /\ UNCHANGED <<signals, wanted, changes, packets>>
  <2>1. raw' <=> raw  BY <1>5 DEF raw
  <2> QED  BY <1>2, <1>5, <2>1
<1> QED  BY <1>3, <1>4, <1>5 DEF Clock

\* The bytes that are still due.
LEMMA DueStep ==
  ASSUME NEW u, Bus(u), Types, PacketTypes, Sending, Clock(u)
  PROVE  /\ tx_data' \in Nat /\ wanted' \in 0 .. MaxLength
         /\ tx_valid' => tx_length' = wanted' /\ tx_data' \in 1 .. wanted'
         /\ tx_valid' /\ translator_state' = "IDLE" => tx_data' = 1
<1>1. X!TransmitClock(TransmitInputs(u))  BY DEF Clock, DeviceClock
<1>2. MaxLength \in Nat  BY TranslatorAssumption
<1>3. tx_valid <=> tx_length > 0  BY DEF tx_valid
<1>4. tx_valid' <=> tx_length' > 0  BY DEF tx_valid
<1>5. CASE ~tx_valid
  <2>1. CASE UNCHANGED <<tx_length, tx_data, wanted>>
    BY <1>3, <1>4, <1>5, <2>1 DEF PacketTypes
  <2>2. CASE tx_length' = wanted' /\ wanted' \in 1 .. MaxLength /\ tx_data' = 1
    BY <1>2, <2>2
  <2> QED  BY <1>5, <2>1, <2>2, TransmissionMoves
<1>6. CASE tx_valid
  <2>1. wanted' = wanted /\ tx_length = wanted /\ tx_data \in 1 .. wanted
    BY <1>6, TransmissionMoves DEF Sending
  <2>2. Starting(u) /\ u.nxt => translator_state' = "TRANSMIT"
    BY <1>1, TransmitMoves
  <2>3. translator_state' = "IDLE" => translator_state = "IDLE"
    BY <1>1, <1>6, TransmitMoves DEF Types
  <2>4. CASE Taken(u) /\ tx_data = tx_length /\ tx_length' = 0 /\ tx_data' = 0
    BY <1>2, <1>4, <2>1, <2>4 DEF PacketTypes
  <2>5. CASE Taken(u) /\ tx_data # tx_length /\ tx_length' = tx_length /\ tx_data' = tx_data + 1
    <3>1. translator_state' # "IDLE"  BY <2>2, <2>3, <2>5 DEF Taken
    <3> QED  BY <1>2, <2>1, <2>5, <3>1 DEF PacketTypes
  <2>6. CASE tx_length' = 0 /\ tx_data' = 0
    BY <1>2, <1>4, <2>1, <2>6 DEF PacketTypes
  <2>7. CASE UNCHANGED <<tx_length, tx_data>>
    BY <1>6, <2>1, <2>3, <2>7 DEF PacketTypes, Sending
  <2> QED  BY <1>6, <2>4, <2>5, <2>6, <2>7, TransmissionMoves
<1> QED  BY <1>5, <1>6

\* The byte that the link shows while it transmits.
LEMMA ByteShown ==
  ASSUME NEW u, Types, out_req, ~RegisterOutputs
  PROVE  /\ translator_state = "TRANSMIT" /\ tx_valid => Seen(u).data[2] = tx_data
         /\ translator_state = "TRANSMIT" /\ ~tx_valid => Seen(u).data[2] = IF raw THEN "error" ELSE "none"
         /\ Starting(u) => Seen(u).data[2] = IF raw THEN 0 ELSE tx_data
<1> DEFINE i == TransmitInputs(u)
<1>1. Seen(u).data = X!data_out(i)  BY DEF Seen, Out
<1>2. i.tx_valid = tx_valid /\ i.tx_data = tx_data /\ i.raw = raw  BY DEF TransmitInputs
<1>3. X!starting(i) <=> Starting(u)  BY StartingIs
<1>4. Starting(u) => translator_state = "IDLE"  BY DEF Starting
<1> HIDE DEF i
<1>5. CASE translator_state = "TRANSMIT" /\ i.tx_valid
  <2>1. X!data_out(i) = <<"byte", i.tx_data>>
    BY <1>3, <1>4, <1>5, Zenon DEF X!data_out
  <2> QED  BY <1>1, <1>2, <1>4, <1>5, <2>1
<1>6. CASE translator_state = "TRANSMIT" /\ ~i.tx_valid
  <2>1. X!data_out(i) = <<"byte", IF i.raw THEN "error" ELSE "none">>
    BY <1>3, <1>4, <1>6, Zenon DEF X!data_out
  <2> QED  BY <1>1, <1>2, <1>4, <1>6, <2>1
<1>7. CASE Starting(u)
  <2>1. X!data_out(i) = <<"transmit", IF i.raw THEN 0 ELSE i.tx_data>>
    BY <1>3, <1>4, <1>7, Zenon DEF X!data_out
  <2> QED  BY <1>1, <1>2, <1>4, <1>7, <2>1
<1> QED  BY <1>2, <1>5, <1>6, <1>7

\* One more byte in order.
LEMMA Longer ==
  ASSUME NEW p, InOrder(p), Len(p) \in Nat
  PROVE  LET q == Append(p, Len(p) + 1) IN InOrder(q) /\ Len(q) = Len(p) + 1
<1> DEFINE n == Len(p)
           q == Append(p, n + 1)
<1>1. p = [k \in 1 .. n |-> k]  BY DEF InOrder
<1> HIDE DEF n
<1>2. n \in Nat  BY DEF n
<1>3. p \in Seq(Nat) /\ Len(p) = n
  <2>1. p \in Seq(Nat)  BY <1>1, <1>2, IsASeq
  <2> QED  BY <2>1 DEF n
<1>4. q \in Seq(Nat) /\ Len(q) = n + 1 /\ \A k \in 1 .. n + 1 : q[k] = IF k = n + 1 THEN n + 1 ELSE p[k]
  BY <1>2, <1>3, AppendProperties
<1>5. \A k \in 1 .. n + 1 : q[k] = k
  BY <1>1, <1>2, <1>4
<1>6. q = [k \in 1 .. n + 1 |-> q[k]]
  BY <1>4, LenProperties
<1>7. q = [k \in 1 .. n + 1 |-> k]  BY <1>5, <1>6
<1> QED  BY <1>4, <1>7 DEF InOrder, n

LEMMA SoFarStep ==
  ASSUME Orderly, IInv, PacketTypes, Sending, Next, phy'.state = "tx_data"
  PROVE  SoFar'
<1> USE DEF Orderly, IInv
<1>1. ASSUME NEW u, Bus(u), Clock(u), translator_state = "TRANSMIT" \/ tx_valid
      PROVE  /\ (raw' <=> raw) /\ wanted' = wanted
             /\ tx_valid => tx_length = wanted /\ tx_data \in 1 .. wanted /\ wanted \in 0 .. MaxLength
             /\ tx_valid <=> tx_length > 0
             /\ tx_valid' <=> tx_length' > 0
  BY <1>1, TransmissionMoves DEF Sending, PacketTypes, tx_valid
<1>2. MaxLength \in Nat  BY TranslatorAssumption
<1>3. CASE Wait /\ phy.state = "tx_data"
  <2>1. Bus(Quiet) /\ Clock(Quiet) /\ ~Quiet.nxt /\ phy' = phy /\ ~Seen(Quiet).stp
    BY <1>3 DEF Wait, Quiet, Bus, phyVars
  <2>2. translator_state = "TRANSMIT" /\ out_req /\ SoFar
    BY <1>3 DEF PhyInStep, Turns, Sending
  <2>3. tx_valid  BY <2>1, <2>2, SeenIs
  <2>4. \/ tx_length' = 0 /\ raw
        \/ tx_length' = tx_length /\ tx_data' = tx_data
    BY <2>1, <2>3, TransmissionMoves DEF Taken
  <2>5. Len(phy'.packet) \in Nat /\ InOrder(phy'.packet) /\ Len(phy'.packet) = tx_data - 1
    BY <2>1, <2>2, <2>3 DEF SoFar
  <2>6. InOrder(phy.packet)'  BY <2>5 DEF InOrder
  <2> QED  BY <1>1, <2>1, <2>2, <2>3, <2>4, <2>5, <2>6 DEF SoFar
<1>4. CASE AcceptTransmit
  <2>1. /\ Bus(Nxt) /\ Clock(Nxt) /\ Nxt.nxt /\ Seen(Nxt).data[1] = "transmit"
    BY <1>4 DEF AcceptTransmit, Nxt, Bus
  <2>2. out_req
    <3>1. SUFFICES ASSUME ~out_req PROVE FALSE  OBVIOUS
    <3>2. window_data[1] = "transmit"  BY <2>1, <3>1, SeenIs
    <3>3. window_state \notin {"HOLD_WRITE", "STOPPING"} /\ phy.state \notin {"rx", "rx_begins"}
      BY <1>4 DEF AcceptTransmit, PhyInStep
    <3> QED  BY <3>2, <3>3 DEF Shown, Types, W!Noop
  <2>3. Starting(Nxt) /\ tx_valid /\ translator_state = "IDLE" /\ tx_data = 1
    BY <2>1, <2>2, SeenIs DEF Starting, Sending
  <2>4. Seen(Nxt).data[2] = IF raw THEN 0 ELSE 1
    BY <2>2, <2>3, ByteShown
  <2>5. phy' = [phy EXCEPT !.state = "tx_data", !.packet = IF Seen(Nxt).data[2] = 0 THEN << >> ELSE <<Seen(Nxt).data[2]>>]
    BY <1>4 DEF AcceptTransmit
  <2>6. phy'.packet = IF raw THEN << >> ELSE <<1>>
    <3> DEFINE p == IF raw THEN << >> ELSE <<1>>
           d == Seen(Nxt).data[2]
    <3>3. phy' = [phy EXCEPT !.state = "tx_data", !.packet = IF d = 0 THEN << >> ELSE <<d>>]
      BY <2>5
    <3>4. d = IF raw THEN 0 ELSE 1  BY <2>4
    <3> HIDE DEF d
    <3>5. (IF d = 0 THEN << >> ELSE <<d>>) = p  BY <3>4
    <3>1. phy' = [phy EXCEPT !.state = "tx_data", !.packet = p]  BY <3>3, <3>5
    <3> HIDE DEF p
    <3>2. phy' = [state |-> "tx_data", address |-> phy.address, value |-> phy.value, packet |-> p]
      BY <3>1 DEF Types
    <3> QED  BY <3>2 DEF p
  <2>7. \/ ~raw /\ tx_length' = 0 /\ tx_length = 1
        \/ ~raw /\ tx_length' = tx_length /\ tx_data' = 2
        \/ raw /\ tx_length' = tx_length /\ tx_data' = 1
    BY <2>1, <2>3, TransmissionMoves DEF Taken
  <2>8. InOrder(<< >>) /\ InOrder(<<1>>) /\ Len(<< >>) = 0 /\ Len(<<1>>) = 1
    BY DEF InOrder
  <2>9. InOrder(phy.packet)'  BY <2>6, <2>8 DEF InOrder
  <2> QED  BY <1>1, <2>1, <2>3, <2>6, <2>7, <2>8, <2>9 DEF SoFar
<1>5. CASE TakeByte
  <2>1. /\ Bus(Nxt) /\ Clock(Nxt) /\ Nxt.nxt /\ ~Seen(Nxt).stp /\ phy.state = "tx_data"
        /\ phy' = [phy EXCEPT !.packet = IF Len(@) > MaxLength THEN @ ELSE Append(@, Seen(Nxt).data[2])]
    BY <1>5 DEF TakeByte, Nxt, Bus
  <2>2. translator_state = "TRANSMIT" /\ out_req /\ SoFar
    BY <2>1 DEF PhyInStep, Turns, Sending
  <2>3. tx_valid  BY <2>1, <2>2, SeenIs
  <2>4. Seen(Nxt).data[2] = tx_data  BY <2>2, <2>3, ByteShown
  <2>5. tx_length = wanted /\ tx_data \in 1 .. wanted /\ wanted \in 0 .. MaxLength
    BY <1>1, <2>1, <2>3
  <2>6. Len(phy.packet) \in Nat /\ InOrder(phy.packet) /\ Len(phy.packet) = tx_data - 1
    BY <2>2, <2>3 DEF SoFar
  <2>7. phy'.packet = Append(phy.packet, Len(phy.packet) + 1)
    <3>1. ~(Len(phy.packet) > MaxLength) /\ tx_data = Len(phy.packet) + 1  BY <1>2, <2>5, <2>6
    <3> DEFINE p == Append(phy.packet, Len(phy.packet) + 1)
    <3>2. phy' = [phy EXCEPT !.packet = p]  BY <2>1, <2>4, <3>1
    <3> HIDE DEF p
    <3>3. phy' = [state |-> phy.state, address |-> phy.address, value |-> phy.value, packet |-> p]
      BY <3>2 DEF Types
    <3> QED  BY <3>3 DEF p
  <2>8. InOrder(phy'.packet) /\ Len(phy'.packet) = tx_data /\ Len(phy'.packet) \in Nat
    BY <2>5, <2>6, <2>7, Longer
  <2>9. \/ tx_length' = 0 /\ (raw \/ tx_data = wanted)
        \/ tx_length' = tx_length /\ tx_data' = tx_data + 1
    BY <2>1, <2>2, <2>3, <2>5, TransmissionMoves DEF Taken
  <2>10. InOrder(phy.packet)'  BY <2>8 DEF InOrder
  <2> QED  BY <1>1, <2>1, <2>2, <2>3, <2>5, <2>8, <2>9, <2>10 DEF SoFar
<1>6. (Wait /\ phy.state = "tx_data") \/ AcceptTransmit \/ TakeByte
  <2>1. phy = [state |-> phy.state, address |-> phy.address, value |-> phy.value, packet |-> phy.packet]
    BY DEF Types
  <2>2. ~SeeCommand
    <3>1. SeeCommand => phy' = [phy EXCEPT !.state = "command"]  BY DEF SeeCommand
    <3>2. [phy EXCEPT !.state = "command"].state = "command"  BY <2>1
    <3> QED  BY <3>1, <3>2
  <2>3. ~AcceptWrite
    <3> DEFINE a == Seen(Nxt).data[2]
    <3>1. AcceptWrite => phy' = [phy EXCEPT !.state = "write_data", !.address = a]  BY DEF AcceptWrite
    <3> HIDE DEF a
    <3>2. [phy EXCEPT !.state = "write_data", !.address = a].state = "write_data"  BY <2>1
    <3> QED  BY <3>1, <3>2
  <2>4. ~TakeRegisterData
    <3> DEFINE a == Seen(Nxt).data[2]
    <3>1. TakeRegisterData => phy' = [phy EXCEPT !.state = "write_stop", !.value = a]  BY DEF TakeRegisterData
    <3> HIDE DEF a
    <3>2. [phy EXCEPT !.state = "write_stop", !.value = a].state = "write_stop"  BY <2>1
    <3> QED  BY <3>1, <3>2
  <2>5. ~FinishWrite /\ ~FinishPacket /\ ~Release  BY DEF FinishWrite, FinishPacket, Release, Empty
  <2>6. \A begins \in BOOLEAN : ~TakeBus(begins)
    <3>1. \A x : [Empty EXCEPT !.state = "rx", !.value = x].state = "rx"  BY DEF Empty
    <3> QED  BY <3>1 DEF TakeBus
  <2>7. ~Byte  BY DEF Byte
  <2>8. ~Command
    <3>1. [phy EXCEPT !.state = "rx_begins", !.value = "packet"].state = "rx_begins"
          /\ [phy EXCEPT !.state = "rx"].state = "rx"  BY <2>1
    <3> QED  BY <3>1 DEF Command
  <2>9. Wait => phy.state = "tx_data"  BY DEF Wait, phyVars
  <2> QED  BY <2>2, <2>3, <2>4, <2>5, <2>6, <2>7, <2>8, <2>9 DEF Next
<1> QED  BY <1>3, <1>4, <1>5, <1>6

\* What leaves the PHY is the packet, and a chirp ends with the error that is forced.
LEMMA SentStep ==
  ASSUME Orderly, IInv, PacketTypes, Sending, Next
  PROVE  sent' # "broken"
<1> USE DEF Orderly, IInv
<1>1. CASE FinishPacket
  <2>1. phy.state = "tx_data" /\ Seen(Quiet).stp /\ SoFar
    BY <1>1 DEF FinishPacket, Sending
  <2>2. translator_state = "TRANSMIT" /\ out_req  BY <2>1 DEF PhyInStep, Turns
  <2>3. ~tx_valid  BY <2>1, <2>2, SeenIs
  <2>4. Seen(Quiet).data[2] = IF raw THEN "error" ELSE "none"  BY <2>2, <2>3, ByteShown
  <2>5. InOrder(phy.packet) /\ (~raw => phy.packet = [k \in 1 .. wanted |-> k])
    BY <2>1, <2>3 DEF SoFar, InOrder
  <2> QED  BY <1>1, <2>4, <2>5 DEF FinishPacket
<1>2. CASE AcceptTransmit
  BY <1>2 DEF AcceptTransmit
<1>3. CASE ~FinishPacket /\ ~AcceptTransmit
  <2>1. sent' = sent
    BY <1>3 DEF Next, Wait, SeeCommand, AcceptWrite, TakeRegisterData, FinishWrite, TakeByte, TakeBus,
                Command, Byte, Release, phyVars
  <2> QED  BY <2>1 DEF Sending
<1> QED  BY <1>1, <1>2, <1>3

---------------------------------------------------------------------------
(* Packets: reception *)

\* The decoder samples a command in this clock.
Sampled(u) == direction_delayed /\ u.dir /\ ~u.nxt /\ window_state = "IDLE"

\* What the decoder and its user do in a clock.
LEMMA ReceptionMoves ==
  ASSUME NEW u, Bus(u), Clock(u), PacketTypes, Types,
         Sampled(u) => u.data.active \in BOOLEAN
  PROVE  /\ direction_delayed' = u.dir
         /\ last_rx_command' = IF Sampled(u) THEN u.data ELSE last_rx_command
         /\ rx_start' <=> Sampled(u) /\ u.data.active /\ ~last_rx_command.active
         /\ rx_stop' <=> Sampled(u) /\ ~u.data.active /\ last_rx_command.active
         /\ rx_active' <=> u.dir /\ ~rx_stop /\ (rx_active \/ (~direction_delayed /\ u.nxt) \/ rx_start)
         /\ heard' = IF rx_active' /\ ~rx_active THEN << >>
                     ELSE IF rx_active' /\ u.nxt /\ rx_active THEN Append(heard, u.data) ELSE heard
         /\ direction_delayed' \in BOOLEAN /\ rx_start' \in BOOLEAN /\ rx_stop' \in BOOLEAN
         /\ rx_active' \in BOOLEAN /\ rx_valid' \in BOOLEAN /\ last_rx_command'.active \in BOOLEAN
<1>1. X!is_command(u, W!busy) <=> Sampled(u)
  BY DEF X!is_command, W!busy, Sampled, Types
<1>2. X!ReceiveClock(u, W!busy)  BY DEF Clock, DeviceClock
<1>3. direction_delayed' = u.dir  BY <1>2 DEF X!ReceiveClock
<1>4. last_rx_command' = IF Sampled(u) THEN u.data ELSE last_rx_command
  BY <1>1, <1>2 DEF X!ReceiveClock
<1>5. rx_start' = (X!is_command(u, W!busy) /\ u.data.active /\ ~last_rx_command.active)
  BY <1>2 DEF X!ReceiveClock
<1>6. rx_stop' = (X!is_command(u, W!busy) /\ ~u.data.active /\ last_rx_command.active)
  BY <1>2 DEF X!ReceiveClock
<1>7. rx_active' = (u.dir /\ ~rx_stop /\ (rx_active \/ (~direction_delayed /\ u.dir /\ u.nxt) \/ rx_start))
  BY <1>2 DEF X!ReceiveClock, X!NextActive, X!dir_based_start
<1>8. rx_valid' = (u.nxt /\ rx_active) /\ rx_data' = IF u.nxt THEN u.data ELSE 0
  BY <1>2 DEF X!ReceiveClock, X!NextValid
<1>9. heard' = IF rx_active' /\ ~rx_active THEN << >>
               ELSE IF rx_active' /\ rx_valid' THEN Append(heard, rx_data') ELSE heard
  BY DEF Clock, DeviceClock
<1>10. /\ rx_start' \in BOOLEAN /\ rx_stop' \in BOOLEAN /\ rx_active' \in BOOLEAN /\ rx_valid' \in BOOLEAN
  BY <1>5, <1>6, <1>7, <1>8
<1>11. direction_delayed' \in BOOLEAN /\ last_rx_command'.active \in BOOLEAN
  BY <1>3, <1>4 DEF Bus, PacketTypes
<1>12. rx_start' <=> Sampled(u) /\ u.data.active /\ ~last_rx_command.active
  BY <1>1, <1>5
<1>13. rx_stop' <=> Sampled(u) /\ ~u.data.active /\ last_rx_command.active
  BY <1>1, <1>6
<1>14. rx_active' <=> u.dir /\ ~rx_stop /\ (rx_active \/ (~direction_delayed /\ u.nxt) \/ rx_start)
  BY <1>7
<1>15. heard' = IF rx_active' /\ ~rx_active THEN << >>
                ELSE IF rx_active' /\ u.nxt /\ rx_active THEN Append(heard, u.data) ELSE heard
  BY <1>8, <1>9
<1> QED  BY <1>3, <1>4, <1>10, <1>11, <1>12, <1>13, <1>14, <1>15

ReceptionTypes ==
  /\ direction_delayed \in BOOLEAN /\ aired \in BOOLEAN /\ deaf \in BOOLEAN
  /\ rx_start \in BOOLEAN /\ rx_stop \in BOOLEAN /\ rx_active \in BOOLEAN /\ rx_valid \in BOOLEAN
  /\ last_rx_command.active \in BOOLEAN /\ phy_command.active \in BOOLEAN

\* The link has the bus, before and after: nothing is received.
LEMMA LinkHasBus ==
  ASSUME NEW u, Bus(u), Clock(u), ~u.dir, PacketTypes, Types, Receiving,
         phy'.state \notin {"rx", "rx_begins"}, phy.state # "rx_begins",
         UNCHANGED <<phy_command, air, deaf>>, aired' = FALSE
  PROVE  ReceptionTypes' /\ Receiving'
<1>1. ~Sampled(u)  BY DEF Sampled
<1>2. ~direction_delayed' /\ ~rx_start' /\ ~rx_stop' /\ ~rx_active' /\ heard' = heard
      /\ rx_start' \in BOOLEAN /\ rx_stop' \in BOOLEAN /\ rx_active' \in BOOLEAN /\ rx_valid' \in BOOLEAN
      /\ last_rx_command'.active \in BOOLEAN /\ direction_delayed' \in BOOLEAN
  BY <1>1, ReceptionMoves
<1>3. ReceptionTypes'  BY <1>2 DEF PacketTypes, ReceptionTypes
<1>4. Receiving'  BY <1>2 DEF Receiving, TheirBus
<1> QED  BY <1>3, <1>4

LEMMA LinkSteps ==
  ASSUME Types, PacketTypes, Receiving,
         Wait \/ SeeCommand \/ AcceptWrite \/ AcceptTransmit \/ TakeRegisterData \/ FinishWrite
           \/ TakeByte \/ FinishPacket \/ Release
  PROVE  ReceptionTypes' /\ Receiving'
<1>1. \A s, x : /\ [phy EXCEPT !.state = s].state = s /\ [phy EXCEPT !.packet = x].state = phy.state
                /\ [phy EXCEPT !.state = s, !.address = x].state = s
                /\ [phy EXCEPT !.state = s, !.value = x].state = s
                /\ [phy EXCEPT !.state = s, !.packet = x].state = s
  BY DEF Types
<1>2. phy.state # "rx_begins" /\ phy'.state \notin {"rx", "rx_begins"}
  <2>1. CASE Wait
    BY <2>1 DEF Wait, phyVars
  <2>2. CASE SeeCommand
    BY <1>1, <2>2 DEF SeeCommand
  <2>3. CASE AcceptWrite
    <3> DEFINE x == Seen(Nxt).data[2]
    <3>1. phy.state = "command" /\ phy' = [phy EXCEPT !.state = "write_data", !.address = x]
      BY <2>3 DEF AcceptWrite
    <3> HIDE DEF x
    <3> QED  BY <1>1, <3>1
  <2>4. CASE AcceptTransmit
    <3> DEFINE x == IF Seen(Nxt).data[2] = 0 THEN << >> ELSE <<Seen(Nxt).data[2]>>
    <3>1. phy.state = "command" /\ phy' = [phy EXCEPT !.state = "tx_data", !.packet = x]
      BY <2>4 DEF AcceptTransmit
    <3> HIDE DEF x
    <3> QED  BY <1>1, <3>1
  <2>5. CASE TakeRegisterData
    <3> DEFINE x == Seen(Nxt).data[2]
    <3>1. phy.state = "write_data" /\ phy' = [phy EXCEPT !.state = "write_stop", !.value = x]
      BY <2>5 DEF TakeRegisterData
    <3> HIDE DEF x
    <3> QED  BY <1>1, <3>1
  <2>6. CASE TakeByte
    <3> DEFINE x == IF Len(phy.packet) > MaxLength THEN phy.packet ELSE Append(phy.packet, Seen(Nxt).data[2])
    <3>1. phy.state = "tx_data" /\ phy' = [phy EXCEPT !.packet = x]
      BY <2>6 DEF TakeByte
    <3> HIDE DEF x
    <3> QED  BY <1>1, <3>1
  <2>7. CASE FinishWrite \/ FinishPacket \/ Release
    BY <2>7 DEF FinishWrite, FinishPacket, Release, Empty
  <2> QED  BY <2>1, <2>2, <2>3, <2>4, <2>5, <2>6, <2>7
<1>3. \E u : Bus(u) /\ Clock(u) /\ ~u.dir
  <2>1. Clock(Quiet) \/ Clock(Nxt)
    BY DEF Wait, SeeCommand, AcceptWrite, AcceptTransmit, TakeRegisterData, FinishWrite, TakeByte,
           FinishPacket, Release
  <2>2. Bus(Quiet) /\ ~Quiet.dir /\ Bus(Nxt) /\ ~Nxt.dir  BY DEF Bus, Quiet, Nxt
  <2> QED  BY <2>1, <2>2
<1>4. UNCHANGED <<phy_command, air, deaf>>
  BY DEF Wait, SeeCommand, AcceptWrite, AcceptTransmit, TakeRegisterData, FinishWrite, TakeByte,
         FinishPacket, Release, phyVars
<1>5. aired' = FALSE
  <2>1. CASE Release
    BY <2>1 DEF Release
  <2>2. CASE ~Release
    <3>1. phy.state \notin {"rx", "rx_begins"}
      BY <2>2 DEF Wait, SeeCommand, AcceptWrite, AcceptTransmit, TakeRegisterData, FinishWrite, TakeByte, FinishPacket
    <3>2. aired' = aired
      BY <2>2 DEF Wait, SeeCommand, AcceptWrite, AcceptTransmit, TakeRegisterData, FinishWrite, TakeByte,
                  FinishPacket, phyVars
    <3> QED  BY <3>1, <3>2 DEF Receiving, TheirBus, PacketTypes
  <2> QED  BY <2>1, <2>2
<1> QED  BY <1>2, <1>3, <1>4, <1>5, LinkHasBus

LEMMA TakeBusStep ==
  ASSUME Types, PacketTypes, Receiving, NEW begins \in BOOLEAN, TakeBus(begins)
  PROVE  ReceptionTypes' /\ Receiving'
<1> DEFINE u == [dir |-> TRUE, nxt |-> begins, data |-> 0]
<1>1. Bus(u) /\ Clock(u) /\ u.dir /\ u.nxt = begins  BY DEF Bus, TakeBus
<1>2. /\ phy.state \in {"idle", "write_data", "write_stop"}
      /\ phy' = [Empty EXCEPT !.state = "rx", !.value = IF begins THEN "packet" ELSE "zero"]
      /\ aired' = begins /\ air' = (IF begins THEN << >> ELSE air) /\ deaf' = (deaf /\ ~begins)
      /\ phy_command' = phy_command
  BY DEF TakeBus
<1> HIDE DEF u
<1>3. phy'.state = "rx" /\ (begins => phy'.value = "packet")
  BY <1>2 DEF Empty
<1>4. ~direction_delayed /\ ~rx_active /\ ~rx_start /\ ~rx_stop /\ ~aired /\ (~deaf => heard = air)
  BY <1>2 DEF Receiving, TheirBus
<1>5. ~Sampled(u)  BY <1>4 DEF Sampled
<1>6. /\ direction_delayed' = TRUE /\ ~rx_start' /\ ~rx_stop' /\ (rx_active' <=> begins)
      /\ heard' = IF begins THEN << >> ELSE heard
      /\ rx_start' \in BOOLEAN /\ rx_stop' \in BOOLEAN /\ rx_active' \in BOOLEAN /\ rx_valid' \in BOOLEAN
      /\ last_rx_command'.active \in BOOLEAN
  BY <1>1, <1>4, <1>5, ReceptionMoves
<1>7. deaf' \in BOOLEAN /\ (deaf' <=> deaf /\ ~begins)  BY <1>2 DEF PacketTypes
<1>8. ReceptionTypes'  BY <1>2, <1>6, <1>7 DEF PacketTypes, ReceptionTypes
<1>9. Receiving'
  <2>1. CASE begins
    BY <1>2, <1>3, <1>6, <1>7, <2>1 DEF Receiving, TheirBus
  <2>2. CASE ~begins
    BY <1>2, <1>3, <1>4, <1>6, <1>7, <2>2 DEF Receiving, TheirBus
  <2> QED  BY <2>1, <2>2
<1> QED  BY <1>8, <1>9

LEMMA ByteStep ==
  ASSUME Types, PacketTypes, Receiving, Byte
  PROVE  ReceptionTypes' /\ Receiving'
<1> DEFINE byte == Len(air) + 1
           u == [dir |-> TRUE, nxt |-> TRUE, data |-> byte]
<1>1. Bus(u) /\ Clock(u) /\ u.dir /\ u.nxt /\ u.data = byte  BY DEF Bus, Byte
<1>2. /\ phy.state = "rx" /\ aired /\ air' = Append(air, byte)
      /\ UNCHANGED <<phy, phy_command, aired, deaf>>
  BY DEF Byte
<1> HIDE DEF u, byte
<1>3. direction_delayed /\ ~rx_stop /\ (~deaf => rx_active /\ heard = air) /\ phy.value = "packet"
  BY <1>2 DEF Receiving, TheirBus
<1>4. ~Sampled(u)  BY <1>1 DEF Sampled
<1>5. /\ direction_delayed' = TRUE /\ ~rx_start' /\ ~rx_stop'
      /\ rx_active => rx_active' /\ heard' = Append(heard, byte)
      /\ rx_start' \in BOOLEAN /\ rx_stop' \in BOOLEAN /\ rx_active' \in BOOLEAN /\ rx_valid' \in BOOLEAN
      /\ last_rx_command'.active \in BOOLEAN
  BY <1>1, <1>3, <1>4, ReceptionMoves DEF PacketTypes
<1>6. ReceptionTypes'  BY <1>2, <1>5 DEF PacketTypes, ReceptionTypes
<1>7. Receiving'  BY <1>2, <1>3, <1>5 DEF Receiving, TheirBus
<1> QED  BY <1>6, <1>7

LEMMA CommandStep ==
  ASSUME Types, PacketTypes, Receiving, Command
  PROVE  ReceptionTypes' /\ Receiving'
<1>1. PICK active \in BOOLEAN, line \in Lines :
        LET command == [active |-> active, line |-> line]
            begins  == active /\ ~aired
        IN  /\ phy.state \in {"rx", "rx_begins"}
            /\ phy.state = "rx_begins" => command = phy_command
            /\ begins => phy.value # "packet" /\ ~phy_command.active /\ ~tx_valid /\ ~X!busy
            /\ Clock([dir |-> TRUE, nxt |-> FALSE, data |-> command]) /\ (begins => tx_length' = 0)
            /\ phy' = IF begins THEN [phy EXCEPT !.state = "rx_begins", !.value = "packet"]
                      ELSE [phy EXCEPT !.state = "rx"]
            /\ phy_command' = command
            /\ aired' = active /\ air' = (IF begins THEN << >> ELSE air)
            /\ deaf' = IF begins THEN W!busy \/ last_rx_command # phy_command ELSE deaf
            /\ UNCHANGED <<phy_register, sent, grabs>>
  BY DEF Command, BeginningShows
<1> DEFINE command == [active |-> active, line |-> line]
           begins == active /\ ~aired
           u == [dir |-> TRUE, nxt |-> FALSE, data |-> command]
<1>2. Bus(u) /\ Clock(u) /\ u.dir /\ ~u.nxt /\ u.data.active = active /\ command.active = active
  BY <1>1 DEF Bus
<1>3. /\ phy.state \in {"rx", "rx_begins"} /\ (begins => phy.value # "packet" /\ ~phy_command.active)
      /\ phy.state = "rx_begins" => command = phy_command
      /\ phy_command' = command /\ aired' = active /\ air' = (IF begins THEN << >> ELSE air)
      /\ deaf' = IF begins THEN W!busy \/ last_rx_command # phy_command ELSE deaf
  BY <1>1
<1>4. IF begins THEN phy'.state = "rx_begins" /\ phy'.value = "packet"
      ELSE phy'.state = "rx" /\ phy'.value = phy.value
  <2>1. /\ [phy EXCEPT !.state = "rx_begins", !.value = "packet"].state = "rx_begins"
        /\ [phy EXCEPT !.state = "rx_begins", !.value = "packet"].value = "packet"
        /\ [phy EXCEPT !.state = "rx"].state = "rx" /\ [phy EXCEPT !.state = "rx"].value = phy.value
    BY DEF Types
  <2> QED  BY <1>1, <2>1
<1>5. deaf' \in BOOLEAN  BY <1>3 DEF PacketTypes, W!busy
<1> HIDE DEF u, command
<1>6. direction_delayed  BY <1>3 DEF Receiving, TheirBus
<1>7. Sampled(u) <=> window_state = "IDLE"  BY <1>2, <1>6 DEF Sampled
<1>8. /\ direction_delayed' = TRUE
      /\ rx_start' <=> window_state = "IDLE" /\ active /\ ~last_rx_command.active
      /\ rx_stop' <=> window_state = "IDLE" /\ ~active /\ last_rx_command.active
      /\ rx_active' <=> ~rx_stop /\ (rx_active \/ rx_start)
      /\ heard' = IF rx_active' /\ ~rx_active THEN << >> ELSE heard
      /\ rx_start' \in BOOLEAN /\ rx_stop' \in BOOLEAN /\ rx_active' \in BOOLEAN /\ rx_valid' \in BOOLEAN
      /\ last_rx_command'.active \in BOOLEAN
  BY <1>2, <1>6, <1>7, ReceptionMoves
<1>9. ReceptionTypes'  BY <1>2, <1>3, <1>5, <1>8 DEF PacketTypes, ReceptionTypes
<1>10. CASE begins
  <2>1. ~rx_active /\ ~rx_start /\ ~aired /\ ~rx_active'
    BY <1>3, <1>8, <1>10 DEF Receiving
  <2>2. ~deaf' => rx_start'
    <3>1. SUFFICES ASSUME ~deaf' PROVE rx_start'  OBVIOUS
    <3>2. window_state = "IDLE" /\ last_rx_command = phy_command
      BY <1>3, <1>10, <3>1 DEF W!busy
    <3> QED  BY <1>3, <1>8, <1>10, <3>2
  <2>3. aired' /\ air' = << >> /\ ~rx_stop'  BY <1>3, <1>8, <1>10
  <2>4. phy'.state = "rx_begins" /\ phy'.value = "packet"  BY <1>4, <1>10
  <2>5. direction_delayed' = TRUE  BY <1>8
  <2> QED  BY <1>9, <2>1, <2>2, <2>3, <2>4, <2>5 DEF Receiving, TheirBus
<1>11. CASE ~begins /\ phy.state = "rx_begins"
  <2>1. aired /\ air = << >> /\ ~rx_active /\ (deaf \/ rx_start) /\ ~rx_stop /\ phy.value = "packet"
    BY <1>11 DEF Receiving
  <2>2. phy'.state = "rx" /\ phy'.value = "packet" /\ air' = << >> /\ deaf' = deaf
    BY <1>3, <1>4, <1>11, <2>1
  <2>3. ~deaf => rx_active' /\ heard' = << >>
    BY <1>8, <2>1 DEF PacketTypes
  <2>4. aired' => ~rx_stop'  BY <1>3, <1>8
  <2>5. rx_start' => aired'  BY <1>3, <1>8
  <2>6. direction_delayed' = TRUE  BY <1>8
  <2>7. ~deaf' => heard' = air' /\ rx_active'  BY <2>2, <2>3
  <2> QED  BY <1>9, <2>2, <2>4, <2>5, <2>6, <2>7 DEF Receiving, TheirBus
<1>12. CASE ~begins /\ phy.state = "rx"
  <2>1. phy'.state = "rx" /\ phy'.value = phy.value /\ air' = air /\ deaf' = deaf /\ aired' = active
    BY <1>3, <1>4, <1>12
  <2>2. active => aired  BY <1>12
  <2>3. rx_active \/ rx_start \/ aired => phy.value = "packet"  BY DEF Receiving
  <2>4. aired => ~rx_stop  BY DEF Receiving
  <2>5. ~deaf => heard = air /\ (aired => rx_active)  BY <1>12 DEF Receiving
  <2>6. rx_start' => phy.value = "packet"  BY <1>8, <2>2, <2>3
  <2>7. rx_active' => phy.value = "packet"  BY <1>8, <2>3
  <2>8. ~deaf => heard' = air
    <3>1. SUFFICES ASSUME ~deaf PROVE ~(rx_active' /\ ~rx_active)  BY <1>8, <2>5
    <3>2. rx_start => rx_active
      BY <3>1, <1>12 DEF Receiving
    <3> QED  BY <1>8, <3>2
  <2>9. active /\ ~deaf => rx_active'  BY <1>8, <2>2, <2>4, <2>5
  <2>10. aired' => ~rx_stop'  BY <1>8, <2>1
  <2>11. rx_start' => aired'  BY <1>8, <2>1
  <2>12. direction_delayed' = TRUE  BY <1>8
  <2>13. rx_active' \/ aired' => phy'.value = "packet"  BY <2>1, <2>2, <2>3, <2>7
  <2>14. ~deaf' => heard' = air' /\ (aired' => rx_active')  BY <2>1, <2>8, <2>9
  <2> QED  BY <1>9, <2>1, <2>10, <2>11, <2>12, <2>13, <2>14 DEF Receiving, TheirBus
<1> QED  BY <1>3, <1>9, <1>10, <1>11, <1>12

LEMMA PacketsStart ==
  ASSUME Init
  PROVE  PacketInv
<1>1. /\ direction_delayed = FALSE /\ rx_start = FALSE /\ rx_stop = FALSE /\ rx_active = FALSE /\ rx_valid = FALSE
      /\ last_rx_command = [active |-> FALSE, line |-> "idle"] /\ phy_command = [active |-> FALSE, line |-> "idle"]
  BY DEF Init, X!ReceiveInit
<1>2. /\ tx_length = 0 /\ tx_data = 0 /\ wanted = 0 /\ phy = Empty
      /\ air = << >> /\ aired = FALSE /\ deaf = FALSE /\ heard = << >> /\ sent = "none"
  BY DEF Init
<1>3. 0 \in 0 .. MaxLength  BY TranslatorAssumption
<1>4. phy.state = "idle"  BY <1>2 DEF Empty
<1>5. PacketTypes  BY <1>1, <1>2, <1>3 DEF PacketTypes
<1>6. Sending  BY <1>2, <1>4 DEF Sending, tx_valid
<1>7. Receiving  BY <1>1, <1>2, <1>4 DEF Receiving, TheirBus
<1> QED  BY <1>5, <1>6, <1>7 DEF PacketInv

LEMMA PacketsKept ==
  ASSUME Orderly, IInv, PacketInv, [Next]_vars
  PROVE  PacketInv'
<1> USE DEF PacketInv
<1>1. CASE Next
  <2>1. PICK u : Bus(u) /\ Clock(u)  BY <1>1, StepInStep DEF InStep
  <2>2. Types  BY DEF IInv
  <2>3. /\ tx_data' \in Nat /\ wanted' \in 0 .. MaxLength
        /\ tx_valid' => tx_length' = wanted' /\ tx_data' \in 1 .. wanted'
        /\ tx_valid' /\ translator_state' = "IDLE" => tx_data' = 1
    BY <2>1, <2>2, DueStep
  <2>4. sent' # "broken"  BY <1>1, SentStep
  <2>5. phy'.state = "tx_data" => SoFar'  BY <1>1, SoFarStep
  <2>6. Sending'  BY <2>3, <2>4, <2>5 DEF Sending
  <2>7. ReceptionTypes' /\ Receiving'
    BY <1>1, <2>2, LinkSteps, TakeBusStep, CommandStep, ByteStep DEF Next
  <2>8. PacketTypes'  BY <2>3, <2>7 DEF PacketTypes, ReceptionTypes
  <2> QED  BY <2>6, <2>7, <2>8
<1>2. CASE UNCHANGED vars
  BY <1>2 DEF vars, windowVars, controlVars, rxVars, phyVars, PacketTypes, Sending, SoFar, Receiving, TheirBus,
              InOrder, tx_valid, raw
<1> QED  BY <1>1, <1>2

\* For packets of any length: what the device transmits leaves the PHY byte for byte, and
\* what the PHY receives reaches UTMI in one piece, whichever way it begins and ends it
\* (ulpi.py:890-910), unless the command that begins it comes in a register write.
THEOREM PacketsCorrect ==
  ASSUME Orderly
  PROVE  Spec => []PacketsIntact
<1>1. Init => IInv /\ PacketInv  BY Starts, PacketsStart
<1>2. IInv /\ PacketInv /\ [Next]_vars => (IInv /\ PacketInv)'
  BY Invariant, PacketsKept
<1>3. IInv /\ PacketInv => PacketsIntact
  BY DEF PacketInv, Sending, Receiving, PacketsIntact
<1> QED  BY <1>1, <1>2, <1>3, PTL DEF Spec
===================================================================================
