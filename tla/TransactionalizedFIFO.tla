-------------------------- MODULE TransactionalizedFIFO --------------------------
(***************************************************************************)
(* TransactionalizedFIFO, src/liteusb/gateware/memory/__init__.py: a ring  *)
(* of depth + 1 memory words and four pointers into it.  One step is one   *)
(* clock of the FIFO's domain; the write port and the read port act in it  *)
(* together, each on the values the registers had before the clock.        *)
(***************************************************************************)
EXTENDS Integers, Sequences

CONSTANTS
  depth,   \* entries the FIFO may hold
  Data     \* contents of an entry

ASSUME DepthAssumption == depth \in Nat \ {0}
ASSUME DataAssumption == 0 \in Data

VARIABLES
  mem,                      \* the backing store
  committed_write_pointer,
  current_write_pointer,
  committed_read_pointer,
  current_read_pointer,
  read_adr                  \* address register of the read port

writeVars == <<mem, committed_write_pointer, current_write_pointer>>
readVars  == <<committed_read_pointer, current_read_pointer, read_adr>>
vars      == <<writeVars, readVars>>

Slots == 0 .. depth

---------------------------------------------------------------------------
(* Combinational logic *)

NextSlot(p) == IF p = depth THEN 0 ELSE p + 1

full  == NextSlot(current_write_pointer) = committed_read_pointer
empty == current_read_pointer = committed_write_pointer

\* Mutant: the wrapped-around case counts the slot that is always left free.
space_available_wrapped ==
  IF full THEN 0
  ELSE IF committed_read_pointer <= current_write_pointer
       THEN depth - (current_write_pointer - committed_read_pointer)
       ELSE committed_read_pointer - current_write_pointer
space_available ==
  IF full THEN 0
  ELSE IF committed_read_pointer <= current_write_pointer
       THEN depth - (current_write_pointer - committed_read_pointer)
       ELSE committed_read_pointer - current_write_pointer - 1

\* The read port registers its address and shows that word in the next clock;
\* a word written meanwhile shows through.
read_data == mem[read_adr]

---------------------------------------------------------------------------
(* The two ports.  A request is the port's three input signals. *)

\* A port is not told to commit and to discard in the same clock.
Requests == {q \in [en : BOOLEAN, commit : BOOLEAN, discard : BOOLEAN] :
               ~(q.commit /\ q.discard)}

\* Mutant: the memory is addressed by the other write pointer.
WritePortAtCommitted(w, d) ==
  /\ mem' = IF w.en /\ ~full THEN [mem EXCEPT ![committed_write_pointer] = d] ELSE mem
  /\ committed_write_pointer' =
       IF w.commit THEN current_write_pointer ELSE committed_write_pointer
  /\ current_write_pointer' =
       IF w.discard THEN committed_write_pointer
       ELSE IF w.en /\ ~full THEN NextSlot(current_write_pointer)
       ELSE current_write_pointer
WritePort(w, d) ==
  /\ mem' = IF w.en /\ ~full THEN [mem EXCEPT ![current_write_pointer] = d] ELSE mem
  /\ committed_write_pointer' =
       IF w.commit THEN current_write_pointer ELSE committed_write_pointer
  /\ current_write_pointer' =
       IF w.discard THEN committed_write_pointer
       ELSE IF w.en /\ ~full THEN NextSlot(current_write_pointer)
       ELSE current_write_pointer

\* Mutants: a commit takes in the read of its own clock; the port is not addressed ahead
\* of a read.
ReadPortCommitsNow(r) ==
  LET following == IF r.en /\ ~empty THEN NextSlot(current_read_pointer)
                                     ELSE current_read_pointer
  IN  /\ read_adr' = following
      /\ committed_read_pointer' = IF r.commit THEN following ELSE committed_read_pointer
      /\ current_read_pointer' = IF r.discard THEN committed_read_pointer ELSE following
ReadPortBehind(r) ==
  LET following == IF r.en /\ ~empty THEN NextSlot(current_read_pointer)
                                     ELSE current_read_pointer
  IN  /\ read_adr' = current_read_pointer
      /\ committed_read_pointer' =
           IF r.commit THEN current_read_pointer ELSE committed_read_pointer
      /\ current_read_pointer' = IF r.discard THEN committed_read_pointer ELSE following
ReadPort(r) ==
  LET following == IF r.en /\ ~empty THEN NextSlot(current_read_pointer)
                                     ELSE current_read_pointer
  IN  /\ read_adr' = following
      /\ committed_read_pointer' =
           IF r.commit THEN current_read_pointer ELSE committed_read_pointer
      /\ current_read_pointer' = IF r.discard THEN committed_read_pointer ELSE following

Clock(w, d, r) == WritePort(w, d) /\ ReadPort(r)

Init ==
  /\ mem = [s \in Slots |-> 0]
  /\ committed_write_pointer = 0 /\ current_write_pointer = 0
  /\ committed_read_pointer = 0  /\ current_read_pointer = 0
  /\ read_adr = 0

Next == \E w \in Requests, r \in Requests, d \in Data : Clock(w, d, r)

Spec == Init /\ [][Next]_vars

---------------------------------------------------------------------------
(* Properties *)

\* Every register keeps a value of its width: the pointers stay inside the ring.
TypeOK ==
  /\ mem \in [Slots -> Data]
  /\ committed_write_pointer \in Slots /\ current_write_pointer \in Slots
  /\ committed_read_pointer \in Slots  /\ current_read_pointer \in Slots
  /\ read_adr \in Slots

\* Steps forward from one pointer to another around the ring.
Distance(p, q) == IF p <= q THEN q - p ELSE q - p + depth + 1

\* Going around from the committed read pointer one meets the current read,
\* the committed write and the current write pointer in that order, and no
\* pointer laps another: reads never pass the commit, writes never reach an
\* entry whose read can still be undone.
PointersInOrder ==
  Distance(committed_read_pointer, current_read_pointer)
    + Distance(current_read_pointer, committed_write_pointer)
    + Distance(committed_write_pointer, current_write_pointer)
  = Distance(committed_read_pointer, current_write_pointer)

\* The published space is exactly what is left, wrapped around or not, and
\* "full" is exactly "no space": USBStreamOutEndpoint answers PINGs from it.
SpaceIsExact ==
  /\ space_available = depth - Distance(committed_read_pointer, current_write_pointer)
  /\ full <=> space_available = 0

\* No clock overwrites an entry that was committed and whose read is not final,
\* nor one that is written and waits for its commit.
HeldEntriesKept ==
  [][\A s \in Slots :
        Distance(committed_read_pointer, s)
          < Distance(committed_read_pointer, current_write_pointer)
        => mem'[s] = mem[s]]_vars

---------------------------------------------------------------------------
(* The FIFO implements the abstract transactional queue. *)

\* The slot k steps forward from p, and what memory m holds from slot p up to q.
Forward(p, k) == IF p + k <= depth THEN p + k ELSE p + k - depth - 1
Segment(m, p, q) == [i \in 1 .. Distance(p, q) |-> m[Forward(p, i - 1)]]

Queue == INSTANCE TransactionalQueue WITH
           committed <- Segment(mem, committed_read_pointer, committed_write_pointer),
           taken     <- Distance(committed_read_pointer, current_read_pointer),
           pending   <- Segment(mem, committed_write_pointer, current_write_pointer)

\* Seen through its pointers, every clock of the FIFO is a clock of the queue.
ImplementsQueue == Queue!Spec

\* "Contains the next byte in the FIFO. Valid only when empty is false.": the one-
\* clock memory shows the queue's next entry, also one that was written this very
\* clock; only the clock after a read_discard still shows the abandoned position.
NextEntry ==
  Segment(mem, committed_read_pointer, committed_write_pointer)
    [Distance(committed_read_pointer, current_read_pointer) + 1]
ReadDataIsNext ==
  [][\A w \in Requests, r \in Requests, d \in Data :
        Clock(w, d, r) /\ ~r.discard /\ ~empty' => read_data' = NextEntry']_vars
===================================================================================
