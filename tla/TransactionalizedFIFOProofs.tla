----------------------- MODULE TransactionalizedFIFOProofs -----------------------
(***************************************************************************)
(* The FIFO's invariants for every depth and every set of entries, and its *)
(* implementation of the transactional queue.                              *)
(***************************************************************************)
EXTENDS TransactionalizedFIFO, SequenceTheorems, TLAPS

---------------------------------------------------------------------------
(* Walking around the ring *)

\* A step forward stays in the ring and is one step long.
LEMMA NextSlotInRing ==
  ASSUME NEW p \in Slots
  PROVE  NextSlot(p) \in Slots /\ NextSlot(p) = Forward(p, 1)
BY DepthAssumption DEF NextSlot, Slots, Forward

\* Distances are natural numbers of at most depth.
LEMMA DistanceRange ==
  ASSUME NEW p \in Slots, NEW q \in Slots
  PROVE  Distance(p, q) \in 0 .. depth
BY DepthAssumption DEF Distance, Slots

\* Moving the far pointer on by one slot lengthens the distance by one, unless
\* the far pointer arrives at the near one.
LEMMA DistanceGrows ==
  ASSUME NEW p \in Slots, NEW q \in Slots, NextSlot(q) # p
  PROVE  Distance(p, NextSlot(q)) = Distance(p, q) + 1
BY DepthAssumption DEF Distance, NextSlot, Slots

\* Moving the near pointer on by one slot shortens it by one, unless both are equal.
LEMMA DistanceShrinks ==
  ASSUME NEW p \in Slots, NEW q \in Slots, p # q
  PROVE  Distance(NextSlot(p), q) = Distance(p, q) - 1
BY DepthAssumption DEF Distance, NextSlot, Slots

\* Only a pointer itself is at distance zero from it.
LEMMA DistanceZero ==
  ASSUME NEW p \in Slots, NEW q \in Slots
  PROVE  (Distance(p, q) = 0) <=> (p = q)
BY DepthAssumption DEF Distance, Slots

---------------------------------------------------------------------------
(* The pointers *)

\* TypeOK is an invariant: no request makes a pointer leave the ring.
THEOREM TypeCorrect == Spec => []TypeOK
<1>1. Init => TypeOK
  BY DepthAssumption, DataAssumption DEF Init, TypeOK, Slots
<1>2. TypeOK /\ [Next]_vars => TypeOK'
  <2>1. ASSUME TypeOK, NEW w \in Requests, NEW r \in Requests, NEW d \in Data,
               Clock(w, d, r)
        PROVE  TypeOK'
    <3>1. /\ NextSlot(current_write_pointer) \in Slots
          /\ NextSlot(current_read_pointer) \in Slots
      BY <2>1, NextSlotInRing DEF TypeOK
    <3>2. mem' \in [Slots -> Data]
      BY <2>1 DEF Clock, WritePort, TypeOK
    <3>3. committed_write_pointer' \in Slots /\ current_write_pointer' \in Slots
      BY <2>1, <3>1 DEF Clock, WritePort, TypeOK
    <3>4. /\ committed_read_pointer' \in Slots /\ current_read_pointer' \in Slots
          /\ read_adr' \in Slots
      BY <2>1, <3>1 DEF Clock, ReadPort, TypeOK
    <3>5. QED BY <3>2, <3>3, <3>4 DEF TypeOK
  <2>2. ASSUME TypeOK, UNCHANGED vars PROVE TypeOK'
    BY <2>2 DEF TypeOK, vars, writeVars, readVars
  <2>3. QED BY <2>1, <2>2 DEF Next
<1>3. QED BY <1>1, <1>2, PTL DEF Spec

\* What one clock may do to the four pointers, whatever the two requests are.
LEMMA ClockKeepsOrder ==
  ASSUME TypeOK, PointersInOrder,
         NEW w \in Requests, NEW r \in Requests, NEW d \in Data, Clock(w, d, r)
  PROVE  PointersInOrder'
<1> DEFINE cr == committed_read_pointer  rp == current_read_pointer
           cw == committed_write_pointer wp == current_write_pointer
<1>1. cr \in Slots /\ rp \in Slots /\ cw \in Slots /\ wp \in Slots
  BY DEF TypeOK
<1>2. ~(w.commit /\ w.discard) /\ ~(r.commit /\ r.discard)
  BY DEF Requests
<1>3. (cw' = cw \/ cw' = wp) /\ (cw' = cw \/ ~w.discard)
  BY <1>2 DEF Clock, WritePort
<1>4. \/ wp' = cw /\ cw' = cw
      \/ wp' = wp
      \/ wp' = NextSlot(wp) /\ NextSlot(wp) # cr
  BY <1>2 DEF Clock, WritePort, full
<1>5. \/ rp' = cr /\ cr' = cr
      \/ rp' = rp
      \/ rp' = NextSlot(rp) /\ rp # cw
  BY <1>2 DEF Clock, ReadPort, empty
<1>6. cr' = cr \/ cr' = rp
  BY DEF Clock, ReadPort
<1>7. QED
  BY <1>1, <1>3, <1>4, <1>5, <1>6, DepthAssumption
     DEF PointersInOrder, Distance, NextSlot, Slots

\* The pointers stay in order: the inductive invariant is this and TypeOK.
THEOREM OrderCorrect == Spec => []PointersInOrder
<1>1. Init => PointersInOrder
  BY DEF Init, PointersInOrder, Distance
<1>2. TypeOK /\ PointersInOrder /\ [Next]_vars => PointersInOrder'
  <2>1. ASSUME TypeOK, PointersInOrder, Next PROVE PointersInOrder'
    BY <2>1, ClockKeepsOrder DEF Next
  <2>2. ASSUME PointersInOrder, UNCHANGED vars PROVE PointersInOrder'
    BY <2>2 DEF PointersInOrder, Distance, vars, writeVars, readVars
  <2>3. QED BY <2>1, <2>2
<1>3. QED BY <1>1, <1>2, TypeCorrect, PTL DEF Spec

\* The published space is exact in every reachable state.
THEOREM SpaceCorrect == Spec => []SpaceIsExact
<1>1. TypeOK => SpaceIsExact
  BY DepthAssumption
     DEF TypeOK, SpaceIsExact, space_available, full, Distance, NextSlot, Slots
<1>2. QED BY <1>1, TypeCorrect, PTL

\* No clock overwrites an entry that somebody may still read or commit.
THEOREM HeldEntriesCorrect == Spec => HeldEntriesKept
<1>1. ASSUME TypeOK, [Next]_vars
      PROVE  [\A s \in Slots :
                 Distance(committed_read_pointer, s)
                   < Distance(committed_read_pointer, current_write_pointer)
                 => mem'[s] = mem[s]]_vars
  <2>1. ASSUME NEW w \in Requests, NEW r \in Requests, NEW d \in Data,
               Clock(w, d, r), NEW s \in Slots, s # current_write_pointer
        PROVE  mem'[s] = mem[s]
    BY <1>1, <2>1 DEF Clock, WritePort, TypeOK
  <2>2. Distance(committed_read_pointer, current_write_pointer) \in Int
    BY <1>1, DistanceRange DEF TypeOK
  <2>3. QED BY <1>1, <2>1, <2>2 DEF Next
<1>2. QED BY <1>1, TypeCorrect, PTL DEF Spec, HeldEntriesKept

---------------------------------------------------------------------------
(* Segments of the ring are sequences *)

\* The segment between two pointers is a sequence as long as their distance.
LEMMA SegmentIsSeq ==
  ASSUME NEW m \in [Slots -> Data], NEW p \in Slots, NEW q \in Slots
  PROVE  Segment(m, p, q) \in Seq(Data) /\ Len(Segment(m, p, q)) = Distance(p, q)
<1>1. Distance(p, q) \in 0 .. depth
  BY DistanceRange
<1>2. \A i \in 1 .. Distance(p, q) : Forward(p, i - 1) \in Slots
  BY <1>1, DepthAssumption DEF Forward, Slots
<1>3. \A i \in 1 .. Distance(p, q) : m[Forward(p, i - 1)] \in Data
  BY <1>2
<1>4. QED BY <1>1, <1>3, DepthAssumption DEF Segment

\* The entry at a position of a segment.
LEMMA SegmentEntry ==
  ASSUME NEW m, NEW p \in Slots, NEW q \in Slots, NEW i \in 1 .. Distance(p, q)
  PROVE  Segment(m, p, q)[i] = m[Forward(p, i - 1)]
BY DEF Segment

\* Two adjacent segments make one.
LEMMA SegmentsJoin ==
  ASSUME NEW m \in [Slots -> Data], NEW p \in Slots, NEW q \in Slots, NEW t \in Slots,
         Distance(p, q) + Distance(q, t) = Distance(p, t)
  PROVE  Segment(m, p, q) \o Segment(m, q, t) = Segment(m, p, t)
<1>1. /\ Segment(m, p, q) \in Seq(Data) /\ Len(Segment(m, p, q)) = Distance(p, q)
      /\ Segment(m, q, t) \in Seq(Data) /\ Len(Segment(m, q, t)) = Distance(q, t)
      /\ Segment(m, p, t) \in Seq(Data) /\ Len(Segment(m, p, t)) = Distance(p, t)
  BY SegmentIsSeq
<1>2. /\ Distance(p, q) \in 0 .. depth /\ Distance(q, t) \in 0 .. depth
      /\ Distance(p, t) \in 0 .. depth
  BY DistanceRange
<1>3. PICK j : j = Segment(m, p, q) \o Segment(m, q, t)
  OBVIOUS
<1>4. /\ j \in Seq(Data) /\ Len(j) = Distance(p, t)
      /\ \A i \in 1 .. Distance(p, t) :
            j[i] = IF i <= Distance(p, q) THEN Segment(m, p, q)[i]
                                          ELSE Segment(m, q, t)[i - Distance(p, q)]
  <2>1. /\ j \in Seq(Data)
        /\ Len(j) = Len(Segment(m, p, q)) + Len(Segment(m, q, t))
        /\ \A i \in 1 .. Len(Segment(m, p, q)) + Len(Segment(m, q, t)) :
              j[i] = IF i <= Len(Segment(m, p, q)) THEN Segment(m, p, q)[i]
                                                ELSE Segment(m, q, t)[i - Len(Segment(m, p, q))]
    BY <1>1, <1>3, ConcatProperties
  <2>2. QED BY <1>1, <2>1
<1>5. ASSUME NEW i \in 1 .. Distance(p, t) PROVE j[i] = Segment(m, p, t)[i]
  <2>1. CASE i <= Distance(p, q)
    <3>1. i \in 1 .. Distance(p, q) BY <1>2, <1>5, <2>1
    <3>2. j[i] = Segment(m, p, q)[i] BY <1>4, <1>5, <2>1
    <3>3. QED BY <1>5, <3>1, <3>2, SegmentEntry
  <2>2. CASE i > Distance(p, q)
    <3>1. i - Distance(p, q) \in 1 .. Distance(q, t) BY <1>2, <1>5, <2>2
    <3>2. j[i] = Segment(m, q, t)[i - Distance(p, q)] BY <1>2, <1>4, <1>5, <2>2
    <3>3. Segment(m, q, t)[i - Distance(p, q)] = m[Forward(q, i - Distance(p, q) - 1)]
      BY <3>1, SegmentEntry
    <3>4. Forward(q, i - Distance(p, q) - 1) = Forward(p, i - 1)
      BY <1>5, <2>2, DepthAssumption DEF Forward, Distance, Slots
    <3>5. QED BY <1>5, <3>2, <3>3, <3>4, SegmentEntry
  <2>3. QED BY <1>2, <1>5, <2>1, <2>2
<1>6. j = Segment(m, p, t)
  BY <1>1, <1>4, <1>5, SeqEqual
<1>7. QED BY <1>3, <1>6

\* Reads that become final leave the rest of the segment.
LEMMA SegmentDrop ==
  ASSUME NEW m \in [Slots -> Data], NEW p \in Slots, NEW q \in Slots, NEW t \in Slots,
         Distance(p, q) + Distance(q, t) = Distance(p, t)
  PROVE  Queue!Drop(Segment(m, p, t), Distance(p, q)) = Segment(m, q, t)
<1>1. /\ Segment(m, q, t) \in Seq(Data) /\ Len(Segment(m, q, t)) = Distance(q, t)
      /\ Segment(m, p, t) \in Seq(Data) /\ Len(Segment(m, p, t)) = Distance(p, t)
  BY SegmentIsSeq
<1>2. /\ Distance(p, q) \in 0 .. depth /\ Distance(q, t) \in 0 .. depth
      /\ Distance(p, t) \in 0 .. depth
  BY DistanceRange
<1>3. PICK k : k = Queue!Drop(Segment(m, p, t), Distance(p, q))
  OBVIOUS
<1>4. \A i \in Distance(p, q) + 1 .. Distance(p, t) : Segment(m, p, t)[i] \in Data
  BY <1>1, <1>2, ElementOfSeq
<1>5. /\ k \in Seq(Data) /\ Len(k) = Distance(q, t)
      /\ \A i \in 1 .. Distance(q, t) : k[i] = Segment(m, p, t)[Distance(p, q) + i]
  <2>1. k = SubSeq(Segment(m, p, t), Distance(p, q) + 1, Distance(p, t))
    BY <1>1, <1>3 DEF Queue!Drop
  <2>2. Distance(p, q) + 1 \in Int /\ Distance(p, t) \in Int
    BY <1>2
  <2>3. /\ k \in Seq(Data)
        /\ Len(k) = IF Distance(p, q) + 1 <= Distance(p, t)
                    THEN Distance(p, t) - (Distance(p, q) + 1) + 1 ELSE 0
        /\ \A i \in 1 .. Distance(p, t) - (Distance(p, q) + 1) + 1 :
              k[i] = Segment(m, p, t)[Distance(p, q) + 1 + i - 1]
    BY <1>4, <2>1, <2>2, SubSeqProperties
  <2>4. Distance(p, t) - (Distance(p, q) + 1) + 1 = Distance(q, t)
    BY <1>2
  <2>5. Len(k) = Distance(q, t)
    BY <1>2, <2>3
  <2>6. ASSUME NEW i \in 1 .. Distance(q, t)
        PROVE  k[i] = Segment(m, p, t)[Distance(p, q) + i]
    <3>1. Distance(p, q) + 1 + i - 1 = Distance(p, q) + i BY <1>2
    <3>2. k[i] = Segment(m, p, t)[Distance(p, q) + 1 + i - 1] BY <2>3, <2>4
    <3>3. QED BY <3>1, <3>2
  <2>7. QED BY <2>3, <2>5, <2>6
<1>6. ASSUME NEW i \in 1 .. Distance(q, t) PROVE k[i] = Segment(m, q, t)[i]
  <2>1. Distance(p, q) + i \in 1 .. Distance(p, t) BY <1>2, <1>6
  <2>2. k[i] = m[Forward(p, (Distance(p, q) + i) - 1)]
    <3>1. k[i] = Segment(m, p, t)[Distance(p, q) + i] BY <1>5, <1>6
    <3>2. Segment(m, p, t)[Distance(p, q) + i] = m[Forward(p, (Distance(p, q) + i) - 1)]
      BY <2>1, SegmentEntry
    <3>3. QED BY <3>1, <3>2
  <2>3. Forward(p, (Distance(p, q) + i) - 1) = Forward(q, i - 1)
    BY <1>6, DepthAssumption DEF Forward, Distance, Slots
  <2>4. QED BY <1>6, <2>2, <2>3, SegmentEntry
<1>7. QED BY <1>1, <1>3, <1>5, <1>6, SeqEqual
\* A segment that ends before slot x does not see a write to x.
LEMMA SegmentKept ==
  ASSUME NEW m, NEW n, NEW p \in Slots, NEW q \in Slots, NEW x \in Slots,
         Distance(p, q) <= Distance(p, x),
         \A s \in Slots : s # x => n[s] = m[s]
  PROVE  Segment(n, p, q) = Segment(m, p, q)
<1>1. Distance(p, q) \in 0 .. depth
  BY DistanceRange
<1>2. \A i \in 1 .. Distance(p, q) : Forward(p, i - 1) \in Slots
  BY <1>1, DepthAssumption DEF Forward, Slots
<1>3. \A i \in 1 .. Distance(p, q) : Forward(p, i - 1) # x
  BY <1>1, DepthAssumption DEF Forward, Slots, Distance
<1>4. \A i \in 1 .. Distance(p, q) : n[Forward(p, i - 1)] = m[Forward(p, i - 1)]
  BY <1>2, <1>3
<1>5. QED BY <1>4 DEF Segment

\* Segments of length zero and one.
LEMMA SegmentShort ==
  ASSUME NEW m, NEW p \in Slots
  PROVE  Segment(m, p, p) = << >> /\ Segment(m, p, NextSlot(p)) = <<m[p]>>
<1>1. Distance(p, p) = 0 /\ Distance(p, NextSlot(p)) = 1
  BY DepthAssumption DEF Distance, NextSlot, Slots
<1>2. Forward(p, 0) = p
  BY DepthAssumption DEF Forward, Slots
<1>3. Segment(m, p, p) = << >>
  BY <1>1 DEF Segment
<1>4. Segment(m, p, NextSlot(p)) = [i \in 1 .. 1 |-> m[p]]
  BY <1>1, <1>2 DEF Segment
<1>5. QED BY <1>3, <1>4
---------------------------------------------------------------------------
(* The implementation *)

\* What PointersInOrder says about the distances the queue is made of.
LEMMA OrderedDistances ==
  ASSUME TypeOK, PointersInOrder
  PROVE  /\ Distance(committed_read_pointer, current_read_pointer)
              + Distance(current_read_pointer, committed_write_pointer)
            = Distance(committed_read_pointer, committed_write_pointer)
         /\ Distance(committed_read_pointer, committed_write_pointer)
              + Distance(committed_write_pointer, current_write_pointer)
            = Distance(committed_read_pointer, current_write_pointer)
         /\ Distance(current_read_pointer, committed_write_pointer)
              + Distance(committed_write_pointer, current_write_pointer)
            = Distance(current_read_pointer, current_write_pointer)
BY DepthAssumption DEF TypeOK, PointersInOrder, Distance, Slots

\* The queue has room exactly when the FIFO is not full, and something to read
\* exactly when the FIFO is not empty.
LEMMA StatusAgrees ==
  ASSUME TypeOK, PointersInOrder
  PROVE  /\ Queue!Room > 0 <=> ~full
         /\ Distance(committed_read_pointer, current_read_pointer)
              < Len(Segment(mem, committed_read_pointer, committed_write_pointer)) <=> ~empty
<1> DEFINE cr == committed_read_pointer  rp == current_read_pointer
           cw == committed_write_pointer wp == current_write_pointer
<1>1. cr \in Slots /\ rp \in Slots /\ cw \in Slots /\ wp \in Slots /\ mem \in [Slots -> Data]
  BY DEF TypeOK
<1>2. Len(Segment(mem, cr, cw)) = Distance(cr, cw) /\ Len(Segment(mem, cw, wp)) = Distance(cw, wp)
  BY <1>1, SegmentIsSeq
<1>3. Queue!Room = depth - Distance(cr, cw) - Distance(cw, wp)
  BY <1>2 DEF Queue!Room
<1>4. Queue!Room = depth - Distance(cr, wp)
  BY <1>1, <1>3, OrderedDistances, DistanceRange, DepthAssumption
<1>5. Distance(cr, wp) = depth <=> full
  BY <1>1, DepthAssumption DEF full, NextSlot, Distance, Slots
<1>6. Distance(cr, wp) \in 0 .. depth
  BY <1>1, DistanceRange
<1>7. Queue!Room > 0 <=> ~full
  BY <1>4, <1>5, <1>6, DepthAssumption
<1>8. Distance(rp, cw) = 0 <=> empty
  BY <1>1, DistanceZero DEF empty
<1>9. Distance(cr, rp) \in 0 .. depth /\ Distance(rp, cw) \in 0 .. depth
  BY <1>1, DistanceRange
<1>10. Distance(cr, rp) < Distance(cr, cw) <=> ~empty
  BY <1>8, <1>9, OrderedDistances
<1>11. QED BY <1>2, <1>7, <1>10
\* One clock of the FIFO is one clock of the queue, for the same two requests.
LEMMA ClockImplements ==
  ASSUME TypeOK, PointersInOrder,
         NEW w \in Requests, NEW r \in Requests, NEW d \in Data, Clock(w, d, r)
  PROVE  Queue!Clock(w, d, r)
<1> DEFINE cr == committed_read_pointer  rp == current_read_pointer
           cw == committed_write_pointer wp == current_write_pointer
<1>1. /\ cr \in Slots /\ rp \in Slots /\ cw \in Slots /\ wp \in Slots
      /\ mem \in [Slots -> Data] /\ mem' \in [Slots -> Data]
      /\ NextSlot(wp) \in Slots
  <2>1. mem' \in [Slots -> Data] BY DEF TypeOK, Clock, WritePort
  <2>2. QED BY <2>1, NextSlotInRing DEF TypeOK
<1>2. ~(w.commit /\ w.discard) /\ ~(r.commit /\ r.discard)
  BY DEF Requests
<1>3. /\ Distance(cr, cw) <= Distance(cr, wp) /\ Distance(rp, cw) <= Distance(rp, wp)
      /\ Distance(cw, wp) \in 0 .. depth
  BY <1>1, DistanceRange, OrderedDistances
<1>4. \A s \in Slots : s # wp => mem'[s] = mem[s]
  BY <1>1 DEF Clock, WritePort
<1>5. w.en /\ Queue!Room > 0 <=> w.en /\ ~full
  BY StatusAgrees
<1>6. Segment(mem, cw, wp)' = IF w.discard THEN << >>
        ELSE (IF w.commit THEN << >> ELSE Segment(mem, cw, wp))
               \o (IF w.en /\ ~full THEN <<d>> ELSE << >>)
  <2>1. CASE w.discard
    BY <1>1, <1>2, <2>1, SegmentShort DEF Clock, WritePort
  <2>2. CASE ~w.discard /\ w.en /\ ~full
    <3>1. wp' = NextSlot(wp) /\ mem'[wp] = d
      BY <1>1, <2>2 DEF Clock, WritePort
    <3>2. Segment(mem', wp, NextSlot(wp)) = <<d>>
      BY <1>1, <3>1, SegmentShort
    <3>3. CASE w.commit
      BY <1>1, <2>2, <3>1, <3>2, <3>3 DEF Clock, WritePort
    <3>4. CASE ~w.commit
      <4>1. NextSlot(wp) # cw
        BY <1>1, <2>2, <1>3, OrderedDistances, DepthAssumption
           DEF full, NextSlot, Distance, Slots
      <4>2. Distance(wp, NextSlot(wp)) = 1
        BY <1>1, DepthAssumption DEF Distance, NextSlot, Slots
      <4>3. Distance(cw, wp) + Distance(wp, NextSlot(wp)) = Distance(cw, NextSlot(wp))
        BY <1>1, <4>1, <4>2, DistanceGrows
      <4>4. Segment(mem', cw, wp) \o <<d>> = Segment(mem', cw, NextSlot(wp))
        <5>1. Segment(mem', cw, wp) \o Segment(mem', wp, NextSlot(wp))
                = Segment(mem', cw, NextSlot(wp))
          BY <1>1, <4>3, SegmentsJoin
        <5>2. QED BY <3>2, <5>1
      <4>5. Segment(mem', cw, wp) = Segment(mem, cw, wp)
        BY <1>1, <1>3, <1>4, SegmentKept
      <4>6. cw' = cw BY <3>4 DEF Clock, WritePort
      <4>7. QED BY <2>2, <3>1, <3>4, <4>4, <4>5, <4>6
    <3>5. QED BY <3>3, <3>4
  <2>3. CASE ~w.discard /\ ~(w.en /\ ~full)
    <3>1. wp' = wp /\ mem' = mem /\ cw' = IF w.commit THEN wp ELSE cw
      BY <2>3 DEF Clock, WritePort
    <3>2. Segment(mem, cw, wp) \o << >> = Segment(mem, cw, wp)
      BY <1>1, SegmentIsSeq, ConcatEmptySeq
    <3>3. << >> \o << >> = << >>
      OBVIOUS
    <3>4. QED BY <1>1, <2>3, <3>1, <3>2, <3>3, SegmentShort
  <2>4. QED BY <2>1, <2>2, <2>3
<1>7. Segment(mem, cr, cw)' =
        Queue!Drop(Segment(mem, cr, cw), IF r.commit THEN Distance(cr, rp) ELSE 0)
          \o (IF w.commit THEN Segment(mem, cw, wp) ELSE << >>)
  <2> DEFINE near == IF r.commit THEN rp ELSE cr
  <2>1. cr' = near /\ near \in Slots /\ cw' = IF w.commit THEN wp ELSE cw
    BY <1>1 DEF Clock, WritePort, ReadPort
  <2>2. Queue!Drop(Segment(mem, cr, cw), IF r.commit THEN Distance(cr, rp) ELSE 0)
          = Segment(mem, near, cw)
    <3>1. Distance(cr, cr) = 0 BY <1>1, DistanceZero
    <3>2. Distance(cr, cw) \in 0 .. depth BY <1>1, DistanceRange
    <3>3. Distance(cr, cr) + Distance(cr, cw) = Distance(cr, cw) BY <3>1, <3>2
    <3>4. Queue!Drop(Segment(mem, cr, cw), 0) = Segment(mem, cr, cw)
      BY <1>1, <3>1, <3>3, SegmentDrop
    <3>5. Queue!Drop(Segment(mem, cr, cw), Distance(cr, rp)) = Segment(mem, rp, cw)
      BY <1>1, OrderedDistances, SegmentDrop
    <3>6. QED BY <3>4, <3>5
  <2>3. Segment(mem, near, cw) \o Segment(mem, cw, wp) = Segment(mem, near, wp)
    BY <1>1, OrderedDistances, SegmentsJoin
  <2>4. Segment(mem, near, cw) \o << >> = Segment(mem, near, cw)
    BY <1>1, SegmentIsSeq, ConcatEmptySeq
  <2>5. Segment(mem', near, wp) = Segment(mem, near, wp)
    <3>1. near \in Slots BY <2>1
    <3>2. Distance(near, wp) <= Distance(near, wp) BY <1>1, <3>1, DistanceRange
    <3>3. QED BY <1>1, <1>4, <3>1, <3>2, SegmentKept
  <2>6. Segment(mem', near, cw) = Segment(mem, near, cw)
    BY <1>1, <1>3, <1>4, <2>1, SegmentKept
  <2>7. QED BY <2>1, <2>2, <2>3, <2>4, <2>5, <2>6
<1>8. Distance(cr, rp)' = IF r.discard THEN 0 ELSE Distance(cr, rp)
         + (IF r.en /\ ~empty THEN 1 ELSE 0) - (IF r.commit THEN Distance(cr, rp) ELSE 0)
  <2>1. cr' = IF r.commit THEN rp ELSE cr
    BY DEF Clock, ReadPort
  <2>2. rp' = IF r.discard THEN cr ELSE IF r.en /\ ~empty THEN NextSlot(rp) ELSE rp
    BY DEF Clock, ReadPort
  <2>3. Distance(cr, cr) = 0 /\ Distance(rp, rp) = 0 /\ Distance(rp, NextSlot(rp)) = 1
    BY <1>1, DepthAssumption DEF Distance, NextSlot, Slots
  <2>4. ~empty => Distance(cr, NextSlot(rp)) = Distance(cr, rp) + 1
    BY <1>1, OrderedDistances, DepthAssumption, PointersInOrder
       DEF empty, Distance, NextSlot, Slots, PointersInOrder
  <2>5. Distance(cr, rp) \in Int
    BY <1>1, DistanceRange
  <2>6. QED BY <1>2, <2>1, <2>2, <2>3, <2>4, <2>5
<1>9. r.en /\ Distance(cr, rp) < Len(Segment(mem, cr, cw)) <=> r.en /\ ~empty
  BY StatusAgrees
<1>10. QED BY <1>5, <1>6, <1>7, <1>8, <1>9 DEF Queue!Clock
\* The FIFO implements the transactional queue, whatever its depth.
THEOREM QueueImplemented == Spec => ImplementsQueue
<1>1. Init => Queue!Init
  <2>1. ASSUME Init
        PROVE  /\ committed_read_pointer = 0 /\ current_read_pointer = 0
               /\ committed_write_pointer = 0 /\ current_write_pointer = 0
               /\ 0 \in Slots
    BY <2>1, DepthAssumption DEF Init, Slots
  <2>2. 0 \in Slots => Segment(mem, 0, 0) = << >> /\ Distance(0, 0) = 0
    BY SegmentShort, DistanceZero
  <2>3. QED BY <2>1, <2>2 DEF Queue!Init
<1>2. TypeOK /\ PointersInOrder /\ [Next]_vars => [Queue!Next]_(Queue!queueVars)
  <2>1. ASSUME TypeOK, PointersInOrder,
               NEW w \in Requests, NEW r \in Requests, NEW d \in Data, Clock(w, d, r)
        PROVE  Queue!Next
    <3>1. Queue!Clock(w, d, r) BY <2>1, ClockImplements
    <3>2. w \in Queue!Requests /\ r \in Queue!Requests
      BY DEF Queue!Requests, Requests
    <3>3. QED BY <3>1, <3>2 DEF Queue!Next
  <2>2. ASSUME UNCHANGED vars PROVE UNCHANGED Queue!queueVars
    BY <2>2 DEF vars, writeVars, readVars, Queue!queueVars, Segment, Distance, Forward
  <2>3. QED BY <2>1, <2>2 DEF Next
<1>3. QED
  BY <1>1, <1>2, TypeCorrect, OrderCorrect, PTL DEF Spec, ImplementsQueue, Queue!Spec

\* The slot as far from p as q is, is q.
LEMMA ForwardDistance ==
  ASSUME NEW p \in Slots, NEW q \in Slots
  PROVE  Forward(p, Distance(p, q)) = q
BY DepthAssumption DEF Forward, Distance, Slots

\* Where the FIFO is not empty, the queue's next entry is the word at the read pointer.
LEMMA NextEntryInMemory ==
  ASSUME TypeOK, PointersInOrder, ~empty
  PROVE  NextEntry = mem[current_read_pointer]
<1> DEFINE n == Distance(committed_read_pointer, current_read_pointer)
<1>1. n + 1 \in 1 .. Distance(committed_read_pointer, committed_write_pointer)
  <2>1. n < Len(Segment(mem, committed_read_pointer, committed_write_pointer))
    BY StatusAgrees
  <2>2. Len(Segment(mem, committed_read_pointer, committed_write_pointer))
          = Distance(committed_read_pointer, committed_write_pointer)
    BY SegmentIsSeq DEF TypeOK
  <2>3. n \in 0 .. depth /\ Distance(committed_read_pointer, committed_write_pointer) \in 0 .. depth
    BY DistanceRange DEF TypeOK
  <2>4. QED BY <2>1, <2>2, <2>3
<1>2. NextEntry = mem[Forward(committed_read_pointer, (n + 1) - 1)]
  BY <1>1, SegmentEntry DEF NextEntry, TypeOK
<1>3. n \in Int
  BY DistanceRange DEF TypeOK
<1>4. (n + 1) - 1 = n
  BY <1>3
<1>5. Forward(committed_read_pointer, n) = current_read_pointer
  BY ForwardDistance DEF TypeOK
<1>6. QED BY <1>2, <1>4, <1>5

\* After every clock without a read_discard the read port shows the queue's next entry.
THEOREM ReadDataCorrect == Spec => ReadDataIsNext
<1> DEFINE Shown == TypeOK /\ PointersInOrder /\ ~empty => NextEntry = mem[current_read_pointer]
<1>1. Shown
  BY NextEntryInMemory
<1>2. Shown'
  BY <1>1, PTL
<1>3. ASSUME TypeOK', PointersInOrder', [Next]_vars
      PROVE  [\A w \in Requests, r \in Requests, d \in Data :
                 Clock(w, d, r) /\ ~r.discard /\ ~empty' => read_data' = NextEntry']_vars
  <2>1. ASSUME NEW w \in Requests, NEW r \in Requests, NEW d \in Data,
               Clock(w, d, r), ~r.discard, ~empty'
        PROVE  read_data' = NextEntry'
    <3>1. read_adr' = current_read_pointer'
      BY <2>1 DEF Clock, ReadPort
    <3>2. NextEntry' = mem'[current_read_pointer']
      BY <1>2, <1>3, <2>1
    <3>3. QED BY <3>1, <3>2 DEF read_data
  <2>2. QED BY <2>1
<1>4. QED BY <1>3, TypeCorrect, OrderCorrect, PTL DEF Spec, ReadDataIsNext
===================================================================================
