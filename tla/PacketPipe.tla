------------------------------- MODULE PacketPipe -------------------------------
(***************************************************************************)
(* What a bulk or interrupt IN endpoint promises: the bytes given to it    *)
(* reach the host once each, in order, cut into packets that let the host  *)
(* see where every transfer ends.  No buffers, no toggles, no losses.      *)
(* Bytes are numbered as they are given: the n-th byte is n.               *)
(***************************************************************************)
EXTENDS Integers, Sequences

CONSTANTS
  max_packet_size,
  Flushes          \* whether the user may ask for partial packets

VARIABLES
  accepted,   \* how many bytes the endpoint took
  ends,       \* those of them that were the last of a transfer
  delivered,  \* the bytes the host has, in order
  cuts        \* Len(delivered) after each packet

pipeVars == <<accepted, ends, delivered, cuts>>

\* Length of the k-th packet.
PacketLength(k) == cuts[k] - (IF k = 1 THEN 0 ELSE cuts[k - 1])

\* The last packet was full and ended a transfer: the host cannot know that yet.
EndUnseen ==
  /\ cuts # << >>
  /\ PacketLength(Len(cuts)) = max_packet_size
  /\ Len(delivered) \in ends

Init == accepted = 0 /\ ends = {} /\ delivered = << >> /\ cuts = << >>

Accept(last) ==
  /\ accepted' = accepted + 1
  /\ ends' = IF last THEN ends \cup {accepted + 1} ELSE ends

\* Hand over the next k bytes as one packet.
Deliver(k) ==
  LET n == Len(delivered)
  IN  /\ n + k <= accepted
      /\ (k = 0) <=> EndUnseen
      /\ \A e \in ends : ~(n < e /\ e < n + k)
      /\ k < max_packet_size => n + k \in ends \/ Flushes
      /\ delivered' = delivered \o [j \in 1 .. k |-> n + j]
      /\ cuts' = Append(cuts, n + k)

Next ==
  /\ (\E last \in BOOLEAN : Accept(last)) \/ UNCHANGED <<accepted, ends>>
  /\ (\E k \in 0 .. max_packet_size : Deliver(k)) \/ UNCHANGED <<delivered, cuts>>

Spec == Init /\ [][Next]_pipeVars
=================================================================================
