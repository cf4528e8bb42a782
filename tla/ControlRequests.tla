----------------------------- MODULE ControlRequests -----------------------------
(***************************************************************************)
(* What the control endpoint promises the host: each request is one step.  *)
(* It changes nothing but what it names and its answer is exact, however   *)
(* many packets and repetitions it took.  When the device's last answer is *)
(* lost the host may have to give a request up without learning of it.     *)
(***************************************************************************)
EXTENDS Integers, Sequences

CONSTANTS
  Requests,
  descriptors,   \* the fixed ones of each type, in order of their index
  generated,     \* the others: records [value, data]
  MaxRequests

VARIABLES
  log,             \* the requests made and the answers the host had
  address,
  configuration,
  halts_cleared    \* how often ENDPOINT_HALT was cleared

vars == <<log, address, configuration, halts_cleared>>

Least(m, n) == IF m <= n THEN m ELSE n

Generated(value) == {generated[g].data : g \in {k \in DOMAIN generated : generated[k].value = value}}
Fixed(value) == IF value[1] \in DOMAIN descriptors /\ value[2] < Len(descriptors[value[1]])
                THEN {descriptors[value[1]][value[2] + 1]} ELSE {}
Exists(value) == Generated(value) \cup Fixed(value) # {}
Descriptor(value) == CHOOSE d \in Generated(value) \cup Fixed(value) : TRUE

Done(data) == [status |-> "done", data |-> data]
Stalled    == [status |-> "stall", data |-> << >>]
Unknown    == [status |-> "unknown", data |-> << >>]

StandardResult(r) ==
  CASE r.request = "GET_DESCRIPTOR" /\ Exists(r.value) ->
         Done(SubSeq(Descriptor(r.value), 1, Least(r.length, Len(Descriptor(r.value)))))
    [] r.request = "GET_CONFIGURATION" -> Done(<<configuration>>)
    [] r.request = "GET_STATUS" -> Done(<<0, 0>>)
    [] r.request \in {"SET_ADDRESS", "SET_CONFIGURATION"} -> Done(<< >>)
    [] r.request = "CLEAR_FEATURE" /\ r.recipient = "ENDPOINT" /\ r.value = <<0, 0>> -> Done(<< >>)
    [] OTHER -> Stalled
Result(r) ==
  IF r.type = "STANDARD" THEN StandardResult(r)
  ELSE IF r.type = "CLASS" /\ r.request = "SET_LINE_CODING" THEN Done(<< >>) ELSE Stalled

Changes(r) == r.type = "STANDARD" /\ r.length = 0 /\ Result(r) # Stalled

Init == log = << >> /\ address = 0 /\ configuration = 0 /\ halts_cleared = 0

Perform(r) ==
  /\ log' = Append(log, [request |-> r, result |-> Result(r)])
  /\ address' = IF Changes(r) /\ r.request = "SET_ADDRESS" THEN r.value[2] % 128 ELSE address
  /\ configuration' = IF Changes(r) /\ r.request = "SET_CONFIGURATION" THEN r.value[2]
                      ELSE configuration
  /\ halts_cleared' = IF Changes(r) /\ r.request = "CLEAR_FEATURE" THEN halts_cleared + 1
                      ELSE halts_cleared

GiveUp(r) ==
  /\ ~Changes(r)
  /\ log' = Append(log, [request |-> r, result |-> Unknown])
  /\ UNCHANGED <<address, configuration, halts_cleared>>

Next == Len(log) < MaxRequests /\ \E r \in Requests : Perform(r) \/ GiveUp(r)

Spec == Init /\ [][Next]_vars
==================================================================================
