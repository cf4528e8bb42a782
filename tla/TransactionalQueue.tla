---------------------------- MODULE TransactionalQueue ----------------------------
(***************************************************************************)
(* What TransactionalizedFIFO (src/liteusb/gateware/memory/__init__.py)    *)
(* promises its users: a bounded first-in-first-out queue whose reads and  *)
(* writes can be undone until they are committed.  No pointers, no memory: *)
(* three values only.                                                      *)
(***************************************************************************)
EXTENDS Integers, Sequences

CONSTANTS depth,  \* how many entries the queue holds
          Data    \* what an entry can be

VARIABLES
  committed,  \* entries whose write is final and whose read is not, oldest first
  taken,      \* how many of them have been read without a read_commit
  pending     \* entries written since the last write_commit or write_discard

queueVars == <<committed, taken, pending>>

\* An uncommitted read does not free its entry, an uncommitted write uses one.
Room == depth - Len(committed) - Len(pending)

Drop(s, n) == SubSeq(s, n + 1, Len(s))

Init == committed = << >> /\ taken = 0 /\ pending = << >>

(***************************************************************************)
(* One clock, as seen from outside.  A commit takes in what was read or    *)
(* written before this clock; a discard takes this clock's request too.    *)
(* The caller never commits and discards on the same side at once.         *)
(***************************************************************************)
Clock(w, d, r) ==
  LET written == IF w.en /\ Room > 0 THEN <<d>> ELSE << >>
      kept    == IF w.commit THEN << >> ELSE pending
      read    == IF r.en /\ taken < Len(committed) THEN 1 ELSE 0
      freed   == IF r.commit THEN taken ELSE 0
  IN  /\ pending' = IF w.discard THEN << >> ELSE kept \o written
      /\ committed' = Drop(committed, freed) \o (IF w.commit THEN pending ELSE << >>)
      /\ taken' = IF r.discard THEN 0 ELSE taken + read - freed

Requests == {q \in [en : BOOLEAN, commit : BOOLEAN, discard : BOOLEAN] :
               ~(q.commit /\ q.discard)}

Next == \E w, r \in Requests, d \in Data : Clock(w, d, r)

Spec == Init /\ [][Next]_queueVars
===================================================================================
