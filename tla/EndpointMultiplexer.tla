--------------------------- MODULE EndpointMultiplexer ---------------------------
(***************************************************************************)
(* USBEndpointMultiplexer, src/liteusb/gateware/usb/usb2/endpoint.py: the  *)
(* endpoints' outputs ORed together on their way to the transmitter.  It   *)
(* does not arbitrate.  What goes to the endpoints goes to all of them.    *)
(***************************************************************************)
EXTENDS Integers, FiniteSets

CONSTANT Nobody   \* a payload: no endpoint is valid, or several are

VARIABLE past_valid   \* the interfaces that were valid in the clock before

\* tx: the interfaces in the order they were added, each with its
\* [valid, first, last : BOOLEAN, payload, pid].

valid(tx) == \E k \in DOMAIN tx : tx[k].valid
first(tx) == \E k \in DOMAIN tx : tx[k].first
last(tx)  == \E k \in DOMAIN tx : tx[k].last

payload(tx) ==
  LET speaking == {k \in DOMAIN tx : tx[k].valid}
  IN  IF Cardinality(speaking) = 1 THEN tx[CHOOSE k \in speaking : TRUE].payload ELSE Nobody

\* The PID comes from the first of the interfaces that are or just were valid.
\* Mutant: only those that just were are looked at.
selected_past(tx) == past_valid
selected(tx) == {k \in DOMAIN tx : tx[k].valid} \cup past_valid
tx_pid_toggle(tx) ==
  IF selected(tx) = {} THEN 0
  ELSE tx[CHOOSE k \in selected(tx) : \A j \in selected(tx) : k <= j].pid

Clock(tx) == past_valid' = {k \in DOMAIN tx : tx[k].valid}

Init == past_valid = {}
==================================================================================
