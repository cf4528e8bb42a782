---------------------------- MODULE PacketLayerProofs ----------------------------
(***************************************************************************)
(* The packet layer for any payloads, damage, pauses and number of packets:*)
(* each packet is reported once and as what it is, each answer is whole    *)
(* and in time, another device's data is ignored, and the frame number is  *)
(* the host's.  What a checksum is of these packets comes from the         *)
(* assumptions of PacketLayer; what a bit, a byte and a packet is, and     *)
(* what the registers make of it, is proved.                               *)
(***************************************************************************)
EXTENDS PacketLayer, SequenceTheorems, FiniteSetTheorems, TLAPS

Word(n) == C!Words(n)

---------------------------------------------------------------------------
(* Words of bits *)

LEMMA WordIsSequence ==
  ASSUME NEW n \in Nat, NEW w \in Word(n)
  PROVE  w \in Seq({0, 1}) /\ Len(w) = n /\ DOMAIN w = 1 .. n
BY DEF Word, C!Words

LEMMA SequenceIsWord ==
  ASSUME NEW w \in Seq({0, 1})
  PROVE  w \in Word(Len(w))
BY DEF Word, C!Words

LEMMA SameWords ==
  ASSUME NEW n \in Nat, NEW v \in Word(n), NEW w \in Word(n), \A k \in 1 .. n : v[k] = w[k]
  PROVE  v = w
BY DEF Word, C!Words

LEMMA Joined ==
  ASSUME NEW S, NEW s \in Seq(S), NEW t \in Seq(S), NEW m, NEW n, Len(s) = m, Len(t) = n
  PROVE  /\ s \o t \in Seq(S) /\ Len(s \o t) = m + n
         /\ \A k \in 1 .. m : (s \o t)[k] = s[k]
         /\ \A k \in 1 .. n : (s \o t)[m + k] = t[k]
OBVIOUS

LEMMA PartOfWord ==
  ASSUME NEW n \in Nat, NEW w \in Word(n), NEW a \in 1 .. n, NEW b \in a .. n
  PROVE  SubSeq(w, a, b) \in Word(b - a + 1) /\ \A k \in 1 .. b - a + 1 : SubSeq(w, a, b)[k] = w[a + k - 1]
<1>1. w \in Seq({0, 1}) /\ Len(w) = n
  BY WordIsSequence
<1>2. SubSeq(w, a, b) \in Seq({0, 1}) /\ Len(SubSeq(w, a, b)) = b - a + 1
  BY <1>1, SubSeqProperties
<1>3. \A k \in 1 .. b - a + 1 : SubSeq(w, a, b)[k] = w[a + k - 1]
  BY <1>1, SubSeqProperties
<1> QED
  BY <1>2, <1>3, SequenceIsWord

LEMMA JoinedWords ==
  ASSUME NEW m \in Nat, NEW n \in Nat, NEW v \in Word(m), NEW w \in Word(n)
  PROVE  /\ v \o w \in Word(m + n)
         /\ \A k \in 1 .. m : (v \o w)[k] = v[k]
         /\ \A k \in 1 .. n : (v \o w)[m + k] = w[k]
<1>1. v \in Seq({0, 1}) /\ Len(v) = m /\ w \in Seq({0, 1}) /\ Len(w) = n
  BY WordIsSequence
<1>2. v \o w \in Seq({0, 1}) /\ Len(v \o w) = m + n
  BY <1>1, Joined
<1>3. (\A k \in 1 .. m : (v \o w)[k] = v[k]) /\ \A k \in 1 .. n : (v \o w)[m + k] = w[k]
  BY <1>1, Joined
<1> QED
  BY <1>2, <1>3, SequenceIsWord

LEMMA NotWord ==
  ASSUME NEW n \in Nat, NEW w \in Word(n)
  PROVE  C!Not(w) \in Word(n) /\ \A k \in 1 .. n : C!Not(w)[k] = 1 - w[k]
BY DEF Word, C!Words, C!Not

LEMMA ReverseWord ==
  ASSUME NEW n \in Nat, NEW w \in Word(n)
  PROVE  Reverse(w) \in Word(n) /\ \A k \in 1 .. n : Reverse(w)[k] = w[n - k + 1]
<1>1. Len(w) = n
  BY WordIsSequence
<1> QED
  BY <1>1 DEF Word, C!Words, Reverse

\* What is made for a register that holds the reverse complement of a word is the word.
LEMMA OutputOfRegister ==
  ASSUME NEW w \in Word(16)
  PROVE  C!output_crc(Reverse(C!Not(w))) = w
<1> DEFINE n == C!Not(w)
           r == Reverse(n)
           b == Reverse(r)
<1>1. n \in Word(16) /\ \A k \in 1 .. 16 : n[k] = 1 - w[k]
  BY NotWord
<1>2. r \in Word(16) /\ \A k \in 1 .. 16 : r[k] = n[16 - k + 1]
  BY <1>1, ReverseWord
<1>3. b \in Word(16) /\ \A k \in 1 .. 16 : b[k] = r[16 - k + 1]
  BY <1>2, ReverseWord
<1>4. C!Not(b) \in Word(16) /\ \A k \in 1 .. 16 : C!Not(b)[k] = 1 - b[k]
  BY <1>3, NotWord
<1> HIDE DEF n, r, b
<1>5. ASSUME NEW k \in 1 .. 16 PROVE C!Not(b)[k] = w[k]
  <2>1. w[k] \in {0, 1}
    BY DEF Word, C!Words
  <2>2. 16 - k + 1 \in 1 .. 16 /\ 16 - (16 - k + 1) + 1 = k
    OBVIOUS
  <2> QED
    BY <1>1, <1>2, <1>3, <1>4, <2>1, <2>2
<1>6. C!Not(b) = w
  BY <1>4, <1>5 DEF Word, C!Words
<1> QED
  BY <1>6 DEF C!output_crc, C!Reverse, Reverse, b, r, n

LEMMA BitsAreWord ==
  ASSUME NEW n \in Nat, NEW width \in 0 .. 11
  PROVE  C!Bits(n, width) \in Word(width)
<1>1. ASSUME NEW k \in 1 .. width PROVE (n \div C!PowersOfTwo[k]) % 2 \in {0, 1}
  <2>1. C!PowersOfTwo[k] \in Nat \ {0}
    BY DEF C!PowersOfTwo
  <2> QED
    BY <2>1
<1> QED
  BY <1>1 DEF Word, C!Words, C!Bits

LEMMA IntervalIsFinite == \A a, b \in Nat : IsFiniteSet(a .. b)
BY FS_Interval

LEMMA CountIsCardinality ==
  ASSUME NEW S, IsFiniteSet(S)
  PROVE  C!Cardinality(S) \in Nat
<1>1. C!Cardinality(S) = Cardinality(S)
  BY DEF C!Cardinality, Cardinality
<1> QED
  BY <1>1, FS_CardinalityType

LEMMA XorIsBit ==
  ASSUME NEW v, NEW indices, IsFiniteSet(indices)
  PROVE  C!XorOf(v, indices) \in {0, 1}
<1> DEFINE ones == {i \in indices : v[i + 1] = 1}
<1>1. IsFiniteSet(ones)
  BY FS_Subset
<1>2. C!Cardinality(ones) \in Nat
  BY <1>1, CountIsCardinality
<1>3. \A n \in Nat : n % 2 \in {0, 1}
  OBVIOUS
<1> QED
  BY <1>2, <1>3 DEF C!XorOf

LEMMA NextCrcIsWord ==
  ASSUME NEW v \in Word(16), NEW data
  PROVE  C!generate_next_crc(v, data) \in Word(16)
<1>1. ASSUME NEW d, NEW c, IsFiniteSet(d), IsFiniteSet(c)
      PROVE  (C!XorOf(data, d) + C!XorOf(v, c)) % 2 \in {0, 1}
  <2>1. C!XorOf(data, d) \in {0, 1} /\ C!XorOf(v, c) \in {0, 1}
    BY <1>1, XorIsBit
  <2> QED
    BY <2>1
<1>2. \A a, b \in Nat : IsFiniteSet(a .. b)
  BY IntervalIsFinite
<1>3. IsFiniteSet({0}) /\ IsFiniteSet({1, 15}) /\ IsFiniteSet({0, 14, 15})
  <2>1. {0} \subseteq 0 .. 15 /\ {0, 14, 15} \subseteq 0 .. 15 /\ {1, 15} \subseteq 0 .. 15
    OBVIOUS
  <2>2. IsFiniteSet(0 .. 15)
    BY <1>2
  <2> QED
    BY <2>1, <2>2, FS_Subset
<1>4. \A k \in 1 .. 16 : v[k] \in {0, 1}
  BY DEF Word, C!Words
<1> DEFINE both(d, c) == (C!XorOf(data, d) + C!XorOf(v, c)) % 2
<1>5. /\ both(0 .. 7, 8 .. 15) \in {0, 1} /\ both(0 .. 6, 9 .. 15) \in {0, 1} /\ both(6 .. 7, 8 .. 9) \in {0, 1}
      /\ both(5 .. 6, 9 .. 10) \in {0, 1} /\ both(4 .. 5, 10 .. 11) \in {0, 1} /\ both(3 .. 4, 11 .. 12) \in {0, 1}
      /\ both(2 .. 3, 12 .. 13) \in {0, 1} /\ both(1 .. 2, 13 .. 14) \in {0, 1}
      /\ both(0 .. 1, {0, 14, 15}) \in {0, 1} /\ both({0}, {1, 15}) \in {0, 1} /\ both(0 .. 7, 7 .. 15) \in {0, 1}
  BY <1>1, <1>2, <1>3
<1> HIDE DEF both
<1> DEFINE w == <<both(0 .. 7, 8 .. 15), both(0 .. 6, 9 .. 15), both(6 .. 7, 8 .. 9), both(5 .. 6, 9 .. 10),
        both(4 .. 5, 10 .. 11), both(3 .. 4, 11 .. 12), both(2 .. 3, 12 .. 13),
        both(1 .. 2, 13 .. 14), both(0 .. 1, {0, 14, 15}), both({0}, {1, 15}),
        v[3], v[4], v[5], v[6], v[7], both(0 .. 7, 7 .. 15)>>
<1>6. w \in Seq({0, 1}) /\ Len(w) = 16
  BY <1>4, <1>5
<1>7. w \in Word(16)
  BY <1>6, SequenceIsWord
<1> QED
  BY <1>7 DEF C!generate_next_crc, both

LEMMA TokenCrcIsWord ==
  ASSUME NEW word \in Word(11)
  PROVE  C!Crc5(word) \in Word(5)
<1> DEFINE xor_bits(indices) == C!XorOf(word, {10 - i : i \in indices})
<1>1. ASSUME NEW S \in SUBSET (0 .. 10) PROVE xor_bits(S) \in {0, 1} /\ 1 - xor_bits(S) \in {0, 1}
  <2> DEFINE T == {10 - i : i \in S}
  <2>1. T \subseteq 0 .. 10
    <3>1. ASSUME NEW i \in S PROVE 10 - i \in 0 .. 10
      <4>1. i \in 0 .. 10
        OBVIOUS
      <4> QED
        BY <4>1
    <3> QED
      BY <3>1
  <2>2. IsFiniteSet(0 .. 10)
    BY IntervalIsFinite
  <2>3. IsFiniteSet(T)
    BY <2>1, <2>2, FS_Subset
  <2>4. C!XorOf(word, T) \in {0, 1}
    BY <2>3, XorIsBit
  <2> QED
    BY <2>4
<1>2. /\ xor_bits({10, 9, 8, 5, 4, 2}) \in {0, 1} /\ 1 - xor_bits({10, 9, 8, 7, 4, 3, 1}) \in {0, 1}
      /\ xor_bits({10, 9, 8, 7, 6, 3, 2, 0}) \in {0, 1} /\ xor_bits({10, 7, 6, 4, 1}) \in {0, 1}
      /\ xor_bits({10, 9, 6, 5, 3, 0}) \in {0, 1}
  <2> HIDE DEF xor_bits
  <2> QED
    BY <1>1
<1> HIDE DEF xor_bits
<1> DEFINE w == <<xor_bits({10, 9, 8, 5, 4, 2}), 1 - xor_bits({10, 9, 8, 7, 4, 3, 1}),
        xor_bits({10, 9, 8, 7, 6, 3, 2, 0}), xor_bits({10, 7, 6, 4, 1}), xor_bits({10, 9, 6, 5, 3, 0})>>
<1>3. w \in Seq({0, 1}) /\ Len(w) = 5
  BY <1>2
<1>4. w \in Word(5)
  BY <1>3, SequenceIsWord
<1>5. C!generate_crc_for_token(word) \in Word(5)
  BY <1>4 DEF C!generate_crc_for_token, xor_bits
<1> QED
  BY <1>5, TokenCrcAgrees DEF Word

---------------------------------------------------------------------------
(* Packets are sequences of bytes *)

Bytes == Word(8)

LEMMA PidsAreWords ==
  /\ D!OUT_PID \in Word(4) /\ D!IN_PID \in Word(4) /\ D!SOF_PID \in Word(4) /\ D!SETUP_PID \in Word(4)
  /\ D!PING_PID \in Word(4) /\ D!NO_PID \in Word(4)
  /\ \A k \in 1 .. 4 : DataPids[k] \in Word(4)
  /\ \A h \in DOMAIN H!HandshakePids : H!HandshakePids[h] \in Word(4)
<1>1. \A a, b, c, d \in {0, 1} : <<a, b, c, d>> \in Word(4)
  <2>1. ASSUME NEW a \in {0, 1}, NEW b \in {0, 1}, NEW c \in {0, 1}, NEW d \in {0, 1} PROVE <<a, b, c, d>> \in Word(4)
    <3>1. <<a, b, c, d>> \in Seq({0, 1}) /\ Len(<<a, b, c, d>>) = 4
      OBVIOUS
    <3> QED
      BY <3>1, SequenceIsWord
  <2> QED
    BY <2>1
<1>2. /\ D!OUT_PID \in Word(4) /\ D!IN_PID \in Word(4) /\ D!SOF_PID \in Word(4) /\ D!SETUP_PID \in Word(4)
      /\ D!PING_PID \in Word(4) /\ D!NO_PID \in Word(4)
  BY <1>1 DEF D!OUT_PID, D!IN_PID, D!SOF_PID, D!SETUP_PID, D!PING_PID, D!NO_PID
<1>3. DataPids[1] \in Word(4) /\ DataPids[2] \in Word(4) /\ DataPids[3] \in Word(4) /\ DataPids[4] \in Word(4)
  BY <1>1 DEF DataPids
<1>4. /\ H!HandshakePids["ack"] \in Word(4) /\ H!HandshakePids["nak"] \in Word(4)
      /\ H!HandshakePids["stall"] \in Word(4) /\ H!HandshakePids["nyet"] \in Word(4)
      /\ DOMAIN H!HandshakePids = {"ack", "nak", "stall", "nyet"}
  BY <1>1 DEF H!HandshakePids
<1> QED
  BY <1>2, <1>3, <1>4

LEMMA PidByteIsByte ==
  ASSUME NEW pid \in Word(4)
  PROVE  PidByte(pid) \in Bytes
<1>1. C!Not(pid) \in Word(4)
  BY NotWord
<1>2. pid \o C!Not(pid) \in Word(4 + 4)
  BY <1>1, JoinedWords
<1> QED
  BY <1>2 DEF PidByte, Bytes

LEMMA TokenIsBytes ==
  ASSUME NEW pid \in Word(4), NEW word \in Word(11)
  PROVE  /\ Token(pid, word) \in Seq(Bytes) /\ Len(Token(pid, word)) = 3
         /\ Token(pid, word)[1] = PidByte(pid)
         /\ TokenWord(Token(pid, word)) = word
         /\ SubSeq(Token(pid, word)[3], 4, 8) = C!Crc5(word)
<1> DEFINE sum == C!Crc5(word)
           checked == word \o sum
           low == SubSeq(checked, 1, 8)
           high == SubSeq(checked, 9, 16)
<1>1. sum \in Word(5)
  BY TokenCrcIsWord
<1> HIDE DEF sum
<1>2. /\ checked \in Word(11 + 5)
      /\ \A k \in 1 .. 11 : checked[k] = word[k]
      /\ \A k \in 1 .. 5 : checked[11 + k] = sum[k]
  <2>1. 11 \in Nat /\ 5 \in Nat
    OBVIOUS
  <2> QED
    BY <2>1, <1>1, JoinedWords, Zenon
<1> HIDE DEF checked
<1>3. low \in Word(8) /\ \A k \in 1 .. 8 : low[k] = checked[k]
  BY <1>2, PartOfWord
<1>4. high \in Word(8) /\ \A k \in 1 .. 8 : high[k] = checked[8 + k]
  BY <1>2, PartOfWord
<1> HIDE DEF low, high
<1>5. Token(pid, word) = <<PidByte(pid), low, high>>
  BY DEF Token, low, high, checked, sum
<1>6. SubSeq(high, 1, 3) \in Word(3) /\ \A k \in 1 .. 3 : SubSeq(high, 1, 3)[k] = high[k]
  BY <1>4, PartOfWord
<1>7. SubSeq(high, 4, 8) \in Word(5) /\ \A k \in 1 .. 5 : SubSeq(high, 4, 8)[k] = high[3 + k]
  BY <1>4, PartOfWord
<1>8. SubSeq(high, 4, 8) = sum
  <2>1. \A k \in 1 .. 5 : SubSeq(high, 4, 8)[k] = sum[k]
    BY <1>7, <1>4, <1>2
  <2> QED
    BY <2>1, <1>7, <1>1 DEF Word, C!Words
<1>9. low \o SubSeq(high, 1, 3) = word
  <2> DEFINE three == SubSeq(high, 1, 3)
  <2>1. low \in Word(8) /\ three \in Word(3)
    BY <1>3, <1>6
  <2> HIDE DEF three
  <2>2. low \o three \in Word(8 + 3) /\ (\A k \in 1 .. 8 : (low \o three)[k] = low[k])
        /\ \A k \in 1 .. 3 : (low \o three)[8 + k] = three[k]
    <3>1. 8 \in Nat /\ 3 \in Nat
      OBVIOUS
    <3> QED
      BY <3>1, <2>1, JoinedWords, Zenon
  <2> DEFINE joined == low \o three
  <2> HIDE DEF joined
  <2>a. joined \in Word(8 + 3) /\ (\A k \in 1 .. 8 : joined[k] = low[k])
        /\ \A k \in 1 .. 3 : joined[8 + k] = three[k]
    BY <2>2 DEF joined
  <2>3. \A k \in 1 .. 11 : joined[k] = word[k]
    <3>1. ASSUME NEW k \in 1 .. 8 PROVE joined[k] = word[k]
      BY <2>a, <1>2, <1>3
    <3>2. ASSUME NEW k \in 1 .. 3 PROVE joined[8 + k] = word[8 + k]
      <4>1. joined[8 + k] = high[k] /\ high[k] = checked[8 + k]
        BY <2>a, <1>4, <1>6 DEF three
      <4>2. 8 + k \in 1 .. 11
        OBVIOUS
      <4> QED
        BY <4>1, <4>2, <1>2
    <3>3. ASSUME NEW k \in 9 .. 11 PROVE joined[k] = word[k]
      <4>1. k - 8 \in 1 .. 3 /\ 8 + (k - 8) = k
        OBVIOUS
      <4> QED
        BY <4>1, <3>2
    <3> QED
      BY <3>1, <3>3
  <2>4. joined \in Word(11) /\ 11 \in Nat
    <3>1. 8 + 3 = 11
      OBVIOUS
    <3> QED
      BY <2>a, <3>1
  <2> QED
    BY <2>3, <2>4, SameWords DEF joined, three
<1>10. PidByte(pid) \in Bytes
  BY PidByteIsByte
<1> QED
  <2>1. low \in Bytes /\ high \in Bytes
    BY <1>3, <1>4 DEF Bytes
  <2> DEFINE packet == Token(pid, word)
  <2>2. packet = <<PidByte(pid), low, high>>
    BY <1>5
  <2> HIDE DEF packet
  <2>3. packet \in Seq(Bytes) /\ Len(packet) = 3 /\ packet[1] = PidByte(pid) /\ packet[2] = low /\ packet[3] = high
    BY <1>10, <2>1, <2>2
  <2>4. TokenWord(packet) = word
    BY <2>3, <1>9 DEF TokenWord
  <2> QED
    BY <2>3, <2>4, <1>8 DEF packet, sum

LEMMA AddressWord ==
  /\ Bits(OwnAddress, 7) \in Word(7) /\ Bits(OtherAddress, 7) \in Word(7) /\ Bits(Endpoint, 4) \in Word(4)
  /\ Bits(OwnAddress, 7) \o Bits(Endpoint, 4) \in Word(11)
  /\ Bits(OtherAddress, 7) \o Bits(Endpoint, 4) \in Word(11)
<1>1. Bits(OwnAddress, 7) \in Word(7) /\ Bits(OtherAddress, 7) \in Word(7) /\ Bits(Endpoint, 4) \in Word(4)
  BY PacketAssumption, BitsAreWord DEF Bits
<1>2. Bits(OwnAddress, 7) \o Bits(Endpoint, 4) \in Word(7 + 4) /\ Bits(OtherAddress, 7) \o Bits(Endpoint, 4) \in Word(7 + 4)
  BY <1>1, JoinedWords
<1> QED
  BY <1>1, <1>2

LEMMA PayloadSum ==
  ASSUME NEW payload \in Payloads
  PROVE  C!Crc16(FlattenSeq(payload)) \in Word(16) /\ payload \in Seq(Bytes)
<1>1. payload \in Seq(Bytes)
  BY PacketAssumption DEF Bytes, Word
<1>2. SubSeq(payload, 1, Len(payload)) = payload
  BY <1>1, SubSeqFull
<1>3. \A n \in 0 .. Len(payload) : C!Crc16(C!FlattenSeq(SubSeq(payload, 1, n))) \in Word(16)
  BY DataCrcAgrees DEF C!FollowsPolynomial, Word
<1>4. Len(payload) \in 0 .. Len(payload)
  BY <1>1
<1>5. C!FlattenSeq(payload) = FlattenSeq(payload)
  BY DEF C!FlattenSeq, FlattenSeq
<1> QED
  BY <1>1, <1>2, <1>3, <1>4, <1>5

LEMMA DataIsBytes ==
  ASSUME NEW pid \in 0 .. 3, NEW payload \in Payloads
  PROVE  LET sum == C!Crc16(FlattenSeq(payload))
             n == Len(payload)
         IN  /\ Data(pid, payload) \in Seq(Bytes) /\ Len(Data(pid, payload)) = n + 3
             /\ Data(pid, payload)[1] = PidByte(DataPids[pid + 1])
             /\ \A k \in 1 .. n : Data(pid, payload)[k + 1] = payload[k]
             /\ Data(pid, payload)[n + 2] = SubSeq(sum, 1, 8)
             /\ Data(pid, payload)[n + 3] = SubSeq(sum, 9, 16)
<1> DEFINE sum == C!Crc16(FlattenSeq(payload))
           n == Len(payload)
           low == SubSeq(sum, 1, 8)
           high == SubSeq(sum, 9, 16)
           head == <<PidByte(DataPids[pid + 1])>>
           tail == <<low, high>>
<1>1. sum \in Word(16) /\ payload \in Seq(Bytes) /\ n \in Nat
  BY PayloadSum
<1>2. low \in Bytes /\ high \in Bytes
  BY <1>1, PartOfWord DEF Bytes
<1>3. PidByte(DataPids[pid + 1]) \in Bytes
  BY PidsAreWords, PidByteIsByte
<1>4. Data(pid, payload) = head \o payload \o tail
  BY DEF Data
<1> HIDE DEF sum, low, high
<1>5. head \in Seq(Bytes) /\ Len(head) = 1 /\ head[1] = PidByte(DataPids[pid + 1])
  BY <1>3
<1>6. tail \in Seq(Bytes) /\ Len(tail) = 2 /\ tail[1] = low /\ tail[2] = high
  BY <1>2
<1> HIDE DEF head, tail
<1> DEFINE front == head \o payload
<1>7. /\ front \in Seq(Bytes) /\ Len(front) = Len(head) + n
      /\ \A k \in 1 .. Len(head) : front[k] = head[k]
      /\ \A k \in 1 .. n : front[Len(head) + k] = payload[k]
  <2>1. head \in Seq(Bytes)
    BY <1>5
  <2> QED
    BY <1>1, <2>1, Joined
<1> HIDE DEF front
<1>8. /\ front \o tail \in Seq(Bytes) /\ Len(front \o tail) = Len(front) + Len(tail)
      /\ \A k \in 1 .. Len(front) : (front \o tail)[k] = front[k]
      /\ \A k \in 1 .. Len(tail) : (front \o tail)[Len(front) + k] = tail[k]
  <2>1. front \in Seq(Bytes) /\ tail \in Seq(Bytes)
    BY <1>6, <1>7
  <2> QED
    BY <2>1, Joined
<1> HIDE DEF n
<1>9. Len(front) = n + 1 /\ front[1] = head[1] /\ \A k \in 1 .. n : front[k + 1] = payload[k]
  BY <1>1, <1>5, <1>7
<1>10. Len(front \o tail) = n + 3 /\ (front \o tail)[1] = head[1]
       /\ (\A k \in 1 .. n : (front \o tail)[k + 1] = payload[k])
       /\ (front \o tail)[n + 2] = tail[1] /\ (front \o tail)[n + 3] = tail[2]
  <2>1. \A k \in 1 .. n + 1 : (front \o tail)[k] = front[k]
    BY <1>8, <1>9
  <2>2. (front \o tail)[(n + 1) + 1] = tail[1] /\ (front \o tail)[(n + 1) + 2] = tail[2]
    BY <1>8, <1>9, <1>6
  <2>3. 1 \in 1 .. n + 1 /\ \A k \in 1 .. n : k + 1 \in 1 .. n + 1
    BY <1>1
  <2> QED
    BY <2>1, <2>2, <2>3, <1>8, <1>9, <1>6, <1>1
<1> QED
  BY <1>4, <1>5, <1>6, <1>8, <1>10 DEF sum, low, high, n, front

LEMMA HandshakeIsBytes ==
  ASSUME NEW h \in {"ack", "nak", "stall", "nyet"}
  PROVE  /\ Handshake(h) \in Seq(Bytes) /\ Len(Handshake(h)) = 1
         /\ Handshake(h)[1] = PidByte(H!HandshakePids[h])
<1>1. h \in DOMAIN H!HandshakePids
  BY DEF H!HandshakePids
<1>2. PidByte(H!HandshakePids[h]) \in Bytes
  BY <1>1, PidsAreWords, PidByteIsByte
<1> QED
  BY <1>2 DEF Handshake

LEMMA TokenOf ==
  ASSUME NEW t \in Tokens
  PROVE  /\ t.pid \in {D!OUT_PID, D!IN_PID, D!SETUP_PID, D!PING_PID} /\ t.ours \in BOOLEAN
         /\ \E word \in Word(11) :
              /\ TokenPackets[t] = Token(t.pid, word)
              /\ word = Bits(IF t.ours THEN OwnAddress ELSE OtherAddress, 7) \o Bits(Endpoint, 4)
<1>1. t.pid \in {D!OUT_PID, D!IN_PID, D!SETUP_PID, D!PING_PID} /\ t.ours \in BOOLEAN
  <2> DEFINE kinds == {D!OUT_PID, D!IN_PID, D!SETUP_PID, D!PING_PID}
  <2>1. D!OUT_PID \in kinds
    OBVIOUS
  <2> HIDE DEF kinds
  <2>2. t \in [pid : kinds, ours : {TRUE}] \cup {[pid |-> D!OUT_PID, ours |-> FALSE]}
    BY DEF Tokens, kinds
  <2>3. CASE t \in [pid : kinds, ours : {TRUE}]
    BY <2>3 DEF kinds
  <2>4. CASE t = [pid |-> D!OUT_PID, ours |-> FALSE]
    BY <2>1, <2>4 DEF kinds
  <2> QED
    BY <2>2, <2>3, <2>4
<1>2. TokenPackets[t] = Token(t.pid, Bits(IF t.ours THEN OwnAddress ELSE OtherAddress, 7) \o Bits(Endpoint, 4))
  BY DEF TokenPackets, TokenTo
<1>3. Bits(IF t.ours THEN OwnAddress ELSE OtherAddress, 7) \o Bits(Endpoint, 4) \in Word(11)
  <2>1. CASE t.ours
    BY <2>1, AddressWord
  <2>2. CASE ~t.ours
    BY <2>2, AddressWord
  <2> QED
    BY <2>1, <2>2
<1> QED
  BY <1>1, <1>2, <1>3

LEMMA FrameWord ==
  ASSUME NEW frame \in 0 .. MaxFrame
  PROVE  Bits(frame, 11) \in Word(11)
BY PacketAssumption, BitsAreWord DEF Bits

Packets == SofPackets \cup OtherPackets \cup {TokenPackets[t] : t \in Tokens}

LEMMA PacketsAreVaried == DOMAIN Variants = Packets /\ \A packet \in Packets : Variants[packet] = Damaged(packet)
BY DEF Variants, Packets

LEMMA SentIsBytes ==
  ASSUME NEW packet \in Packets
  PROVE  packet \in Seq(Bytes) /\ Len(packet) >= 1
<1>1. CASE packet \in SofPackets
  <2>1. PICK frame \in 1 .. MaxFrame : packet = Token(D!SOF_PID, Bits(frame, 11))
    BY <1>1 DEF SofPackets, Sof
  <2>2. Bits(frame, 11) \in Word(11)
    BY FrameWord, PacketAssumption
  <2> QED
    BY <2>1, <2>2, PidsAreWords, TokenIsBytes
<1>2. CASE \E t \in Tokens : packet = TokenPackets[t]
  <2>1. PICK t \in Tokens : packet = TokenPackets[t]
    BY <1>2
  <2>2. PICK word \in Word(11) : packet = Token(t.pid, word)
    BY <2>1, TokenOf
  <2>3. t.pid \in Word(4)
    BY TokenOf, PidsAreWords
  <2> QED
    BY <2>2, <2>3, TokenIsBytes
<1>3. CASE packet \in {Handshake("ack"), Handshake("nyet")}
  BY <1>3, HandshakeIsBytes
<1>4. CASE \E p \in Payloads : packet = Data(Len(p) % 2, p)
  <2>1. PICK p \in Payloads : packet = Data(Len(p) % 2, p)
    BY <1>4
  <2>2. p \in Seq(Bytes) /\ Len(p) % 2 \in 0 .. 3
    BY PayloadSum
  <2>3. \A pid \in 0 .. 3 : Data(pid, p) \in Seq(Bytes) /\ Len(Data(pid, p)) = Len(p) + 3
    BY DataIsBytes
  <2>4. Len(p) + 3 >= 1
    BY <2>2
  <2>5. packet \in Seq(Bytes) /\ Len(packet) = Len(p) + 3
    BY <2>1, <2>2, <2>3
  <2> QED
    BY <2>4, <2>5
<1> QED
  BY <1>1, <1>2, <1>3, <1>4 DEF Packets, OtherPackets

LEMMA DamagedIsBytes ==
  ASSUME NEW packet \in Seq(Bytes), Len(packet) >= 1, NEW arriving \in Damaged(packet)
  PROVE  arriving \in Seq(Bytes)
<1>1. CASE arriving \in {SubSeq(packet, 1, n) : n \in {0, 1, Len(packet) - 1} \ {Len(packet)}}
  <2>1. PICK n \in 0 .. Len(packet) : arriving = SubSeq(packet, 1, n)
    BY <1>1
  <2> QED
    BY <2>1, SubSeqProperties
<1>2. CASE arriving = Append(packet, C!Byte(0))
  <2>1. C!Byte(0) \in Bytes
    BY BitsAreWord DEF Bytes, C!Byte
  <2> QED
    BY <1>2, <2>1, AppendProperties
<1>3. CASE \E k \in 0 .. 8 * Len(packet) - 1 : arriving = [packet EXCEPT ![(k \div 8) + 1][(k % 8) + 1] = 1 - @]
  <2>1. PICK k \in 0 .. 8 * Len(packet) - 1 : arriving = [packet EXCEPT ![(k \div 8) + 1][(k % 8) + 1] = 1 - @]
    BY <1>3
  <2> DEFINE i == (k \div 8) + 1
             j == (k % 8) + 1
  <2>2. i \in 1 .. Len(packet) /\ j \in 1 .. 8
    OBVIOUS
  <2> HIDE DEF i, j
  <2>3. packet[i] \in [1 .. 8 -> {0, 1}]
    BY <2>2 DEF Bytes, Word, C!Words
  <2>4. [packet[i] EXCEPT ![j] = 1 - @] \in Bytes
    <3> DEFINE byte == packet[i]
    <3>1. byte \in [1 .. 8 -> {0, 1}]
      BY <2>3
    <3> HIDE DEF byte
    <3>2. 1 - byte[j] \in {0, 1}
      BY <2>2, <3>1
    <3>3. [byte EXCEPT ![j] = 1 - @] \in [1 .. 8 -> {0, 1}]
      BY <2>2, <3>1, <3>2
    <3> QED
      BY <3>3 DEF byte, Bytes, Word, C!Words
  <2>5. arriving = [packet EXCEPT ![i] = [packet[i] EXCEPT ![j] = 1 - @]]
    BY <2>1 DEF i, j
  <2> QED
    BY <2>2, <2>4, <2>5, ExceptSeq
<1> QED
  BY <1>1, <1>2, <1>3 DEF Damaged

LEMMA ArrivingIsBytes ==
  ASSUME NEW packet \in Packets, NEW arriving \in {packet} \cup Variants[packet]
  PROVE  arriving \in Seq(Bytes)
BY SentIsBytes, DamagedIsBytes, PacketsAreVaried

---------------------------------------------------------------------------
(* One clock, and the types of the bus and of the timers *)

Clock(issue, tx_ready) ==
  /\ EndpointClock(issue, tx_ready)
  /\ DeviceClock(issue, tx_ready)
  /\ HostClock
  /\ sending' = IF tx_valid /\ tx_ready THEN Append(sending, tx_data)
                ELSE IF ~tx_valid THEN << >> ELSE sending

Issues == {{}, {"ack"}, {"nak"}, {"stall"}}

LEMMA NextIsClock ==
  ASSUME Next
  PROVE  \E issue \in Issues, tx_ready \in BOOLEAN : (tx_ready => tx_valid) /\ Clock(issue, tx_ready)
<1>1. PICK issue \in Issues, tx_ready \in (IF tx_valid THEN BOOLEAN ELSE {FALSE}) : Clock(issue, tx_ready)
  BY DEF Next, Clock, Issues
<1>2. tx_ready \in BOOLEAN /\ (tx_ready => tx_valid)
  OBVIOUS
<1> QED
  BY <1>1, <1>2

delay == rx_to_tx_delay

TimerType ==
  /\ speed \in Speeds /\ delay = RxToTx[speed][1]
  /\ counter \in Nat /\ token_counter \in Nat /\ since \in Nat /\ lag \in 0 .. Latency
BusType ==
  /\ utmi \in [active : BOOLEAN, valid : BOOLEAN, data : Bytes]
  /\ host \in [packet : Seq(Bytes), left : Seq(Bytes), stalls : Nat]
SofType ==
  /\ sof \in [frame : 0 .. MaxFrame, micro : 0 .. 8, lost : BOOLEAN]
  /\ IF sof.frame = 0 THEN sof.micro = MicroFrames ELSE sof.micro < MicroFrames
SentType == sent \in [packets : Nat, damaged : 0 .. MaxDamaged]

LEMMA DelayFits ==
  ASSUME TimerType
  PROVE  /\ delay \in Nat /\ delay >= 1 /\ MaxSince \in Nat /\ delay + 3 <= MaxSince /\ counter_max = delay + 1
         /\ Latency \in Nat /\ lag \in Nat /\ lag <= Latency /\ delay + 3 + lag <= MaxSince
         /\ speed = "hs60" => delay = 1
<1>1. speed \in {"hs60", "fs12", "fs60", "ls60"}
  BY PacketAssumption DEF TimerType, RxToTx
<1>2. Latency \in Nat /\ lag \in Nat /\ lag <= Latency
  BY PacketAssumption DEF TimerType
<1>3. /\ delay \in Nat /\ delay >= 1 /\ latest \in Nat /\ delay + 3 <= latest /\ counter_max = delay + 1
      /\ speed = "hs60" => delay = 1
  BY <1>1 DEF TimerType, RxToTx, latest, counter_max, delay
<1> HIDE DEF latest, delay
<1> QED
  BY <1>2, <1>3 DEF MaxSince

LEMMA ArrivalTypes ==
  ASSUME BusType, SentType, NEW packet \in Packets, NEW intact \in BOOLEAN, Arrives(packet, intact)
  PROVE  /\ utmi' = [utmi EXCEPT !.active = TRUE]
         /\ \E arriving \in Seq(Bytes) :
              /\ arriving \in IF intact THEN {packet} ELSE Damaged(packet)
              /\ host' = [packet |-> arriving, left |-> arriving, stalls |-> 0]
         /\ SentType' /\ sent'.damaged = sent.damaged + (IF intact THEN 0 ELSE 1)
<1>1. PICK arriving \in IF intact THEN {packet} ELSE IF sent.damaged < MaxDamaged THEN Variants[packet] ELSE {} :
        host' = [packet |-> arriving, left |-> arriving, stalls |-> 0]
  BY DEF Arrives
<1>2. arriving \in {packet} \cup Variants[packet] /\ (intact => arriving = packet)
      /\ (~intact => arriving \in Variants[packet] /\ sent.damaged < MaxDamaged)
  BY <1>1
<1>3. arriving \in Seq(Bytes)
  BY <1>2, ArrivingIsBytes
<1>4. arriving \in IF intact THEN {packet} ELSE Damaged(packet)
  BY <1>2, PacketsAreVaried
<1>5. utmi' = [utmi EXCEPT !.active = TRUE]
      /\ sent' = [packets |-> sent.packets + 1, damaged |-> sent.damaged + IF intact THEN 0 ELSE 1]
  BY DEF Arrives
<1>6. SentType' /\ sent'.damaged = sent.damaged + (IF intact THEN 0 ELSE 1)
  BY <1>2, <1>5, PacketAssumption DEF SentType
<1> QED
  BY <1>1, <1>3, <1>4, <1>5, <1>6

LEMMA NextSofType ==
  ASSUME SofType
  PROVE  NextSof \in [frame : 1 .. MaxFrame, micro : 0 .. 8, lost : BOOLEAN] /\ NextSof.micro < MicroFrames
<1> DEFINE last == IF speed = "hs60" THEN MicroFrames ELSE 1
<1>1. last \in 1 .. MicroFrames /\ MicroFrames \in 1 .. 8 /\ MaxFrame \in Nat /\ MaxFrame >= 1
  BY PacketAssumption
<1>2. CASE sof.micro + 1 < last
  <2>1. NextSof = [sof EXCEPT !.micro = @ + 1]
    BY <1>2 DEF NextSof
  <2> QED
    BY <1>1, <1>2, <2>1 DEF SofType
<1>3. CASE ~(sof.micro + 1 < last)
  <2>1. NextSof = [frame |-> (sof.frame % MaxFrame) + 1, micro |-> 0, lost |-> FALSE]
    BY <1>3 DEF NextSof
  <2>2. (sof.frame % MaxFrame) + 1 \in 1 .. MaxFrame
    BY <1>1 DEF SofType
  <2> QED
    BY <1>1, <2>1, <2>2
<1> QED
  BY <1>2, <1>3

\* What the host can do in a clock.
ShowsByte ==
  /\ utmi.active /\ host.left # << >>
  /\ utmi' = [active |-> TRUE, valid |-> TRUE, data |-> Head(host.left)]
  /\ host' = [host EXCEPT !.left = Tail(@)]
  /\ UNCHANGED <<sent, sof, bus_token>>
Pauses ==
  /\ utmi.active
  /\ utmi' = [utmi EXCEPT !.valid = FALSE] /\ host' = [host EXCEPT !.stalls = @ + 1]
  /\ UNCHANGED <<sent, sof, bus_token>>
Ends ==
  /\ utmi.active /\ host.left = << >>
  /\ utmi' = [active |-> FALSE, valid |-> FALSE, data |-> C!Byte(0)]
  /\ UNCHANGED <<host, sent, sof, bus_token>>
Starts ==
  MaySend /\ (SendToken \/ SendOther \/ SendSof)
Waits ==
  /\ ~utmi.active
  /\ host' = [host EXCEPT !.packet = IF since = 0 THEN @ ELSE << >>]
  /\ UNCHANGED <<utmi, sent, sof, bus_token>>

LEMMA HostCases ==
  ASSUME HostClock
  PROVE  ShowsByte \/ Pauses \/ Ends \/ Starts \/ Waits
BY DEF HostClock, SendByte, ShowsByte, Pauses, Ends, Starts, Waits

LEMMA StartCases ==
  ASSUME BusType, SentType, SofType, Starts
  PROVE  /\ MaySend /\ utmi' = [utmi EXCEPT !.active = TRUE] /\ SentType'
         /\ \E packet \in Packets, intact \in BOOLEAN :
              /\ \E arriving \in Seq(Bytes) :
                   /\ arriving \in IF intact THEN {packet} ELSE Damaged(packet)
                   /\ host' = [packet |-> arriving, left |-> arriving, stalls |-> 0]
              /\ sent'.damaged = sent.damaged + (IF intact THEN 0 ELSE 1)
              /\ \/ \E t \in Tokens : /\ packet = TokenPackets[t]
                                      /\ bus_token' = [pid |-> t.pid, ours |-> t.ours, intact |-> intact]
                                      /\ UNCHANGED sof
                 \/ packet \in OtherPackets /\ UNCHANGED <<sof, bus_token>>
                 \/ /\ packet = Sof(NextSof.frame) /\ sof' = [NextSof EXCEPT !.lost = @ \/ ~intact]
                    /\ UNCHANGED bus_token
<1>1. CASE SendToken
  <2>1. PICK t \in Tokens, intact \in BOOLEAN :
          /\ Arrives(TokenPackets[t], intact) /\ bus_token' = [pid |-> t.pid, ours |-> t.ours, intact |-> intact]
          /\ UNCHANGED sof
    BY <1>1 DEF SendToken
  <2>2. TokenPackets[t] \in Packets
    BY DEF Packets
  <2> QED
    BY <2>1, <2>2, ArrivalTypes DEF Starts
<1>2. CASE SendOther
  <2>1. PICK packet \in OtherPackets, intact \in BOOLEAN : Arrives(packet, intact) /\ UNCHANGED <<sof, bus_token>>
    BY <1>2 DEF SendOther
  <2>2. packet \in Packets
    BY DEF Packets
  <2> QED
    BY <2>1, <2>2, ArrivalTypes DEF Starts
<1>3. CASE SendSof
  <2>1. PICK intact \in BOOLEAN :
          /\ Arrives(Sof(NextSof.frame), intact) /\ sof' = [NextSof EXCEPT !.lost = @ \/ ~intact]
          /\ UNCHANGED bus_token
    BY <1>3 DEF SendSof
  <2>2. Sof(NextSof.frame) \in Packets
    <3>1. NextSof.frame \in 1 .. MaxFrame
      BY NextSofType
    <3> QED
      BY <3>1 DEF Packets, SofPackets
  <2> QED
    BY <2>1, <2>2, ArrivalTypes DEF Starts
<1> QED
  BY <1>1, <1>2, <1>3 DEF Starts

LEMMA BusTypeStep ==
  ASSUME BusType, SentType, SofType, HostClock
  PROVE  BusType' /\ SentType' /\ SofType'
<1>1. CASE ShowsByte
  <2>1. Head(host.left) \in Bytes /\ Tail(host.left) \in Seq(Bytes)
    BY <1>1 DEF ShowsByte, BusType
  <2> QED
    BY <1>1, <2>1 DEF ShowsByte, BusType, SentType, SofType
<1>2. CASE Pauses
  <2>1. utmi' \in [active : BOOLEAN, valid : BOOLEAN, data : Bytes]
    BY <1>2 DEF Pauses, BusType
  <2>2. host' \in [packet : Seq(Bytes), left : Seq(Bytes), stalls : Nat]
    BY <1>2 DEF Pauses, BusType
  <2> QED
    BY <1>2, <2>1, <2>2 DEF Pauses, BusType, SentType, SofType
<1>3. CASE Ends
  <2>1. C!Byte(0) \in Bytes
    BY BitsAreWord DEF Bytes, C!Byte
  <2> QED
    BY <1>3, <2>1 DEF Ends, BusType, SentType, SofType
<1>4. CASE Starts
  <2>1. MaySend /\ utmi' = [utmi EXCEPT !.active = TRUE] /\ SentType'
    BY <1>4, StartCases
  <2>2. \E arriving \in Seq(Bytes) : host' = [packet |-> arriving, left |-> arriving, stalls |-> 0]
    BY <1>4, StartCases
  <2>3. BusType'
    <3>1. utmi' \in [active : BOOLEAN, valid : BOOLEAN, data : Bytes]
      BY <2>1 DEF BusType
    <3>2. host' \in [packet : Seq(Bytes), left : Seq(Bytes), stalls : Nat]
      BY <2>2
    <3> QED
      BY <3>1, <3>2 DEF BusType
  <2>4. SofType'
    <3>1. CASE UNCHANGED sof
      BY <3>1 DEF SofType
    <3>2. CASE \E intact \in BOOLEAN : sof' = [NextSof EXCEPT !.lost = @ \/ ~intact]
      <4>1. PICK intact \in BOOLEAN : sof' = [NextSof EXCEPT !.lost = @ \/ ~intact]
        BY <3>2
      <4>2. NextSof \in [frame : 1 .. MaxFrame, micro : 0 .. 8, lost : BOOLEAN] /\ NextSof.micro < MicroFrames
        BY NextSofType
      <4> HIDE DEF NextSof
      <4>3. /\ sof' \in [frame : 1 .. MaxFrame, micro : 0 .. 8, lost : BOOLEAN] /\ sof'.micro = NextSof.micro
        BY <4>1, <4>2
      <4> QED
        BY <4>2, <4>3, PacketAssumption DEF SofType
    <3> QED
      BY <1>4, <3>1, <3>2, StartCases
  <2> QED
    BY <2>1, <2>3, <2>4
<1>5. CASE Waits
  <2>1. << >> \in Seq(Bytes)
    OBVIOUS
  <2> QED
    BY <1>5, <2>1 DEF Waits, BusType, SentType, SofType
<1> QED
  BY <1>1, <1>2, <1>3, <1>4, <1>5, HostCases

LEMMA TimerTypeStep ==
  ASSUME TimerType, NEW issue, NEW tx_ready, Clock(issue, tx_ready)
  PROVE  TimerType' /\ UNCHANGED delay
<1>1. UNCHANGED <<rx_to_tx_delay, speed>>
      /\ \E again \in BOOLEAN : counter' = TimerClock(counter, R!timer_start(RxInput) \/ again)
      /\ token_counter' = TimerClock(token_counter, D!timer_start(utmi, address))
  BY DEF Clock, DeviceClock
<1>2. since' \in Nat
  BY DEF Clock, HostClock, TimerType
<1>3. counter' \in Nat /\ token_counter' \in Nat
  BY <1>1 DEF TimerClock, TimerType
<1>4. lag' \in 0 .. Latency
  <2>1. lag' \in {0, lag} \/ (lag < Latency /\ lag' = lag + 1)
    BY DEF Clock, EndpointClock, SendZlp, SendStream, Shake, LookUp
  <2> QED
    BY <2>1, PacketAssumption DEF TimerType
<1> QED
  BY <1>1, <1>2, <1>3, <1>4 DEF TimerType, delay

TokenType ==
  /\ token_data \in Word(11) /\ current_pid \in Word(4)
  /\ tokenizer \in [pid : Word(4), address : Word(7), endpoint : Word(4), frame : Word(11),
                    new_token : BOOLEAN, new_frame : BOOLEAN]

LEMMA TokenTypeStep ==
  ASSUME TokenType, BusType, D!Clock(utmi, address)
  PROVE  TokenType'
<1>1. utmi.data \in Bytes
  BY DEF BusType
<1>2. D!Pid(utmi.data) \in Word(4)
  <2>1. SubSeq(utmi.data, 1, 4) \in Word(4 - 1 + 1)
    BY <1>1, PartOfWord DEF Bytes
  <2> QED
    BY <2>1 DEF D!Pid
<1>3. utmi.data \o D!Zeros(3) \in Word(11)
  <2>1. D!Zeros(3) \in Word(3)
    BY DEF D!Zeros, Word, C!Words
  <2>2. utmi.data \o D!Zeros(3) \in Word(8 + 3)
    BY <1>1, <2>1, JoinedWords DEF Bytes
  <2> QED
    BY <2>2
<1>4. SubSeq(token_data, 1, 8) \o SubSeq(utmi.data, 1, 3) \in Word(11)
  <2>1. SubSeq(token_data, 1, 8) \in Word(8 - 1 + 1) /\ SubSeq(utmi.data, 1, 3) \in Word(3 - 1 + 1)
    BY <1>1, PartOfWord DEF Bytes, TokenType
  <2>2. SubSeq(token_data, 1, 8) \o SubSeq(utmi.data, 1, 3) \in Word(8 + 3)
    BY <2>1, JoinedWords
  <2> QED
    BY <2>2
<1>5. SubSeq(token_data, 1, 7) \in Word(7) /\ SubSeq(token_data, 8, 11) \in Word(4)
  <2>1. SubSeq(token_data, 1, 7) \in Word(7 - 1 + 1) /\ SubSeq(token_data, 8, 11) \in Word(11 - 8 + 1)
    BY PartOfWord DEF TokenType
  <2> QED
    BY <2>1
<1>6. current_pid' \in Word(4) /\ token_data' \in Word(11)
  <2>1. CASE D!Idle(utmi)
    BY <2>1 DEF D!Idle, TokenType
  <2>2. CASE D!ReadPid(utmi)
    BY <2>2, <1>2 DEF D!ReadPid, TokenType, BusType
  <2>3. CASE D!ReadToken0(utmi)
    BY <2>3, <1>3 DEF D!ReadToken0, TokenType, BusType
  <2>4. CASE D!ReadToken1(utmi)
    BY <2>4, <1>4 DEF D!ReadToken1, TokenType, BusType
  <2>5. CASE D!TokenComplete(utmi)
    BY <2>5 DEF D!TokenComplete, TokenType
  <2>6. CASE D!Irrelevant(utmi)
    BY <2>6 DEF D!Irrelevant, TokenType
  <2> QED
    BY <2>1, <2>2, <2>3, <2>4, <2>5, <2>6 DEF D!Clock
<1>7. tokenizer' \in [pid : Word(4), address : Word(7), endpoint : Word(4), frame : Word(11),
                     new_token : BOOLEAN, new_frame : BOOLEAN]
  <2>1. D!NoStrobe \in [pid : Word(4), address : Word(7), endpoint : Word(4), frame : Word(11),
                       new_token : BOOLEAN, new_frame : BOOLEAN]
    BY DEF D!NoStrobe, TokenType
  <2>2. tokenizer' = D!Reported(utmi, address)
    BY DEF D!Clock
  <2>3. D!NO_PID \in Word(4)
    BY PidsAreWords
  <2> QED
    BY <1>5, <2>1, <2>2, <2>3 DEF D!Reported, D!Foreign, D!timer_start, TokenType
<1> QED
  BY <1>6, <1>7 DEF TokenType

---------------------------------------------------------------------------
(* The timers: an answer is due in one clock only, and nobody disturbs it *)

StreamType == stream \in [left : Seq(Bytes), first : BOOLEAN, zlp : BOOLEAN, pid : {0, 1}]

\* The readers are idle a clock after the packet's end, before any answer.
ReadersTimed ==
  /\ ~utmi.active => ~utmi.valid
  /\ utmi.active \/ tok_state # "IDLE" \/ hd_state # "IDLE" \/ rx_state \notin {"IDLE", "INTERPACKET_DELAY"} => since = 0
  /\ tx_valid \/ asked # << >> => since >= delay + 1

StreamEmpty == stream.left = << >> /\ ~stream.zlp
Quiet == tx_state = "IDLE" /\ hg_state = "IDLE" /\ StreamEmpty
Starting ==
  /\ tx_state = "IDLE" /\ hg_state = "IDLE" /\ sending = << >> /\ since = delay + 2 + lag
  /\ stream.first = (stream.left # << >>) /\ stream.zlp = (stream.left = << >>)
Shaking ==
  tx_state = "IDLE" /\ hg_state = "TRANSMIT" /\ StreamEmpty /\ since \in delay + 1 .. delay + 3 + lag
Streaming ==
  /\ hg_state = "IDLE" /\ since \in delay + 2 .. delay + 3 + lag /\ ~stream.zlp
  /\ \/ tx_state = "SEND_PID" /\ (is_zlp <=> stream.left = << >>)
     \/ tx_state = "SEND_PAYLOAD" /\ stream.left # << >>
     \/ tx_state \in {"SEND_CRC_FIRST", "SEND_CRC_SECOND"} /\ stream.left = << >>
Done == Quiet /\ sending # << >>

\* An endpoint that looks its answer up has been asked lag clocks ago.
Answering ==
  IF asked = << >> THEN Quiet /\ sending = << >> /\ (lag > 0 => ~utmi.active /\ since = delay + 1 + lag)
  ELSE ~utmi.active /\ (Starting \/ Shaking \/ Streaming \/ Done)

\* A timer that runs since a packet tells how long ago its end was; the one for data packets may
\* have been started again a clock later, and at high speed a SETUP packet is answered before it ends.
TokenTimed ==
  tokenizer.pid # D!NO_PID =>
    token_counter > delay \/ (~utmi.active /\ since = token_counter + 1 /\ asked = << >>)
DataTimed ==
  rx_state = "INTERPACKET_DELAY" =>
    /\ ~utmi.active /\ counter <= delay
    /\ IF asked = << >> THEN since \in counter + 1 .. counter + 2
       ELSE counter + 1 >= delay /\ (counter < delay => Shaking)
CompleteTimed ==
  packet_complete =>
    /\ ~utmi.active /\ since = 1 /\ counter = 0
    /\ tokenizer.new_token \/ tokenizer.pid = D!NO_PID \/ token_counter > delay

Timed == ReadersTimed /\ TokenTimed /\ DataTimed /\ CompleteTimed /\ Answering

Due == MayAnswerIn \/ MayAnswerPing \/ MayAnswerOut \/ MayAnswerSetup

LEMMA DueOnce ==
  ASSUME Timed, TimerType, Due
  PROVE  /\ free /\ Quiet /\ sending = << >> /\ ~tx_valid /\ ~utmi.active
         /\ since \in delay .. delay + 2 + lag /\ (MayAnswerIn => since = delay + 1 + lag)
         /\ ~MayAnswerSetup => since > delay
         /\ ~MaySend
<1>1. free
  BY DEF Due, MayAnswerIn, MayAnswerPing, MayAnswerOut, MayAnswerSetup
<1>2. Quiet /\ sending = << >> /\ (lag > 0 => ~utmi.active /\ since = delay + 1 + lag)
  BY <1>1 DEF free, Timed, Answering
<1>3. ~tx_valid
  BY <1>2 DEF Quiet, StreamEmpty, tx_valid, generator_valid, H!tx_valid
<1>4. delay \in Nat /\ lag \in Nat /\ lag <= Latency /\ (speed = "hs60" => delay = 1)
  BY DelayFits
<1>5. /\ ~utmi.active /\ since \in delay .. delay + 2 + lag /\ (MayAnswerIn => since = delay + 1 + lag)
      /\ ~MayAnswerSetup => since > delay
  <2>1. ASSUME token_tx_allowed, tokenizer.pid \in {D!IN_PID, D!PING_PID}
        PROVE  ~utmi.active /\ since = delay + 1 /\ lag = 0
    <3>1. token_counter = delay /\ tokenizer.pid # D!NO_PID
      BY <2>1 DEF token_tx_allowed, delay, D!IN_PID, D!PING_PID, D!NO_PID
    <3>2. ~utmi.active /\ since = delay + 1
      BY <3>1, <1>4 DEF Timed, TokenTimed, TimerType
    <3> QED
      BY <3>2, <1>2, <1>4
  <2>2. CASE MayAnswerOut
    <3>1. ~utmi.active /\ since \in delay + 1 .. delay + 2
      BY <2>2, <1>4 DEF MayAnswerOut, R!ready_for_response, tx_allowed, Timed, DataTimed, delay, TimerType, free
    <3>2. MayAnswerIn => since = delay + 1 + lag
      BY <2>1, <1>2, <1>4 DEF MayAnswerIn
    <3>3. since > delay /\ since >= delay /\ since <= delay + 2
      BY <3>1, <1>4
    <3>4. since \in Nat /\ since <= delay + 2 + lag
      BY <3>1, <3>3, <1>4
    <3>5. since \in delay .. delay + 2 + lag
      BY <3>3, <3>4, <1>4
    <3> QED
      BY <3>1, <3>2, <3>3, <3>5
  <2>3. CASE MayAnswerIn
    BY <2>1, <2>3, <1>2, <1>4 DEF MayAnswerIn
  <2>4. CASE MayAnswerPing
    BY <2>1, <2>4, <1>4 DEF MayAnswerPing
  <2>5. CASE MayAnswerSetup
    <3>1. ~utmi.active /\ since = 1 /\ delay = 1
      BY <2>5, <1>4 DEF MayAnswerSetup, Timed, CompleteTimed
    <3>2. MayAnswerIn => since = delay + 1 + lag
      BY <2>1, <1>2, <1>4 DEF MayAnswerIn
    <3>3. since = delay
      BY <3>1
    <3>4. since \in delay .. delay + 2 + lag
      BY <3>3, <1>4
    <3> QED
      BY <2>5, <3>1, <3>2, <3>4
  <2> QED
    BY <2>2, <2>3, <2>4, <2>5 DEF Due
<1>6. ~MaySend
  BY <1>4, <1>5, PacketAssumption DEF MaySend, delay
<1> QED
  BY <1>1, <1>2, <1>3, <1>5, <1>6

\* What the endpoints and the stream do in a clock.
Streams(issue) == MayAnswerIn /\ SendStream(issue)
Shakes(issue) == Due /\ \E name \in {"ack", "nak", "stall"} :
                         issue = {name} /\ asked' = Handshake(name) /\ UNCHANGED <<stream, lag>>
LooksUp(issue) == MayAnswerIn /\ LookUp(issue)
Continues(issue, tx_ready) ==
  /\ issue = {} /\ StreamClock(tx_ready)
  /\ asked' = IF sending # << >> /\ ~tx_valid THEN << >> ELSE asked
  /\ lag' = IF asked' = << >> THEN 0 ELSE lag

LEMMA EndpointCases ==
  ASSUME NEW issue, NEW tx_ready, EndpointClock(issue, tx_ready)
  PROVE  \/ SendZlp(issue)
         \/ GeneratorClock(tx_ready) /\ (Streams(issue) \/ Shakes(issue) \/ LooksUp(issue) \/ Continues(issue, tx_ready))
BY DEF EndpointClock, Streams, Shakes, LooksUp, Continues, Due, Shake

LEMMA NotDueContinues ==
  ASSUME NEW issue, NEW tx_ready, EndpointClock(issue, tx_ready), ~Due
  PROVE  GeneratorClock(tx_ready) /\ Continues(issue, tx_ready)
BY EndpointCases DEF SendZlp, Streams, Shakes, LooksUp, Due

LEMMA StreamTypeStep ==
  ASSUME StreamType, NEW issue, NEW tx_ready, EndpointClock(issue, tx_ready)
  PROVE  StreamType'
<1>0. CASE SendZlp(issue) \/ LooksUp(issue)
  BY <1>0 DEF SendZlp, LooksUp, LookUp, StreamType
<1>1. CASE Streams(issue)
  <2>1. PICK pid \in {0, 1}, payload \in Payloads :
          stream' = [left |-> payload, first |-> payload # << >>, zlp |-> payload = << >>, pid |-> pid]
    BY <1>1 DEF Streams, SendStream
  <2>2. payload \in Seq(Bytes)
    BY PayloadSum
  <2> QED
    BY <2>1, <2>2 DEF StreamType
<1>2. CASE Shakes(issue)
  BY <1>2 DEF Shakes, StreamType
<1>3. CASE Continues(issue, tx_ready)
  <2>1. stream' = [stream EXCEPT !.zlp = FALSE] \/ stream' = stream
        \/ (stream.left # << >> /\ stream' = [stream EXCEPT !.left = Tail(@), !.first = FALSE])
    BY <1>3 DEF Continues, StreamClock
  <2>2. stream.left # << >> => Tail(stream.left) \in Seq(Bytes)
    BY DEF StreamType
  <2> QED
    BY <2>1, <2>2 DEF StreamType
<1> QED
  BY <1>0, <1>1, <1>2, <1>3, EndpointCases

LEMMA SinceStep ==
  ASSUME BusType, BusType', HostClock
  PROVE  /\ utmi'.active => since' = 0
         /\ ~utmi'.active /\ (utmi.active \/ tx_valid \/ since > MaxSince) => since' = since
         /\ ~utmi'.active /\ ~utmi.active /\ ~tx_valid /\ ~(since > MaxSince) => since' = since + 1
         /\ utmi'.active /\ ~utmi.active => MaySend
<1>1. utmi'.active /\ ~utmi.active => MaySend
  BY HostCases DEF ShowsByte, Pauses, Ends, Starts, Waits
<1> QED
  BY <1>1 DEF HostClock, BusType

\* No packet starts while an answer is due or on its way.
LEMMA BusStaysFree ==
  ASSUME BusType, BusType', HostClock, ~utmi.active, ~MaySend
  PROVE  ~utmi'.active /\ utmi' = utmi
BY HostCases, SinceStep DEF ShowsByte, Pauses, Ends, Starts, Waits

LEMMA GeneratorRests ==
  ASSUME NEW tx_ready, tx_state = "IDLE", StreamEmpty,
         G!Clock(stream.pid, stream.first, stream_last, stream_valid, tx_ready)
  PROVE  tx_state' = "IDLE"
<1>1. ~stream_valid
  BY DEF StreamEmpty, stream_valid
<1> QED
  BY <1>1 DEF G!Clock, G!Idle, G!SendPid, G!SendPayload, G!SendCrcFirst, G!SendCrcSecond

LEMMA AnsweringStep ==
  ASSUME TimerType, BusType, BusType', StreamType, Timed, NEW issue, NEW tx_ready \in BOOLEAN, tx_ready => tx_valid,
         Clock(issue, tx_ready)
  PROVE  Answering'
<1>0. /\ EndpointClock(issue, tx_ready) /\ HostClock
      /\ H!GeneratorClock(issue, tx_ready)
      /\ sending' = IF tx_valid /\ tx_ready THEN Append(sending, tx_data) ELSE IF ~tx_valid THEN << >> ELSE sending
      /\ UNCHANGED rx_to_tx_delay
  BY DEF Clock, DeviceClock
<1>1. /\ delay \in Nat /\ MaxSince \in Nat /\ delay + 3 + lag <= MaxSince /\ delay' = delay /\ lag \in Nat /\ since \in Nat
      /\ delay >= 1
  BY <1>0, DelayFits DEF delay, TimerType
<1>2. CASE Due
  <2>1. /\ free /\ Quiet /\ sending = << >> /\ ~tx_valid /\ ~utmi.active /\ ~MaySend
        /\ since \in delay .. delay + 2 + lag /\ (MayAnswerIn => since = delay + 1 + lag)
    BY <1>2, DueOnce
  <2>2. ~utmi'.active /\ since' = since + 1
    BY <2>1, <1>0, <1>1, BusStaysFree, SinceStep
  <2>s. sending' = << >>
    BY <2>1, <1>0
  <2>3. GeneratorClock(tx_ready) => tx_state' = "IDLE"
    BY <2>1, GeneratorRests DEF Quiet, GeneratorClock
  <2>z. CASE SendZlp(issue)
    <3>1. PICK pid \in {0, 1} : G!Clock(pid, FALSE, TRUE, TRUE, FALSE) /\ asked' = Data(pid, << >>)
      BY <2>z DEF SendZlp
    <3>2. MayAnswerIn /\ issue = {} /\ << >> \in Payloads /\ UNCHANGED <<stream, lag>>
      BY <2>z DEF SendZlp
    <3>3. asked' # << >>
      <4>1. PICK payload \in Payloads : payload = << >>
        BY <3>2
      <4>2. payload \in Seq(Bytes) /\ pid \in 0 .. 3
        BY PayloadSum
      <4>3. Len(Data(pid, payload)) = Len(payload) + 3
        BY <4>2, DataIsBytes
      <4> QED
        BY <3>1, <4>1, <4>2, <4>3
    <3>4. tx_state' = "SEND_PID" /\ is_zlp'
      BY <2>1, <3>1 DEF Quiet, G!Clock, G!Idle, G!SendPid, G!SendPayload, G!SendCrcFirst, G!SendCrcSecond
    <3>5. hg_state' = "IDLE"
      BY <2>1, <3>2, <1>0 DEF Quiet, H!GeneratorClock, H!Request, H!Transmit
    <3>6. since' \in delay' + 2 .. delay' + 3 + lag'
      BY <2>1, <2>2, <3>2, <1>1
    <3> QED
      BY <2>1, <2>2, <3>2, <3>3, <3>4, <3>5, <3>6 DEF Answering, Streaming, Quiet, StreamEmpty
  <2>4. CASE GeneratorClock(tx_ready) /\ Streams(issue)
    <3>1. PICK pid \in {0, 1}, payload \in Payloads :
            /\ stream' = [left |-> payload, first |-> payload # << >>, zlp |-> payload = << >>, pid |-> pid]
            /\ asked' = Data(pid, payload)
      BY <2>4 DEF Streams, SendStream
    <3>2. asked' # << >>
      <4>1. payload \in Seq(Bytes) /\ pid \in 0 .. 3
        BY PayloadSum
      <4>2. Len(Data(pid, payload)) = Len(payload) + 3
        BY <4>1, DataIsBytes
      <4> QED
        BY <3>1, <4>1, <4>2
    <3>3. hg_state' = "IDLE"
      BY <2>1, <2>4, <1>0 DEF Streams, SendStream, Quiet, H!GeneratorClock, H!Request, H!Transmit
    <3>4. lag' = lag /\ since' = delay' + 2 + lag'
      BY <2>1, <2>2, <2>4, <1>1 DEF Streams, SendStream
    <3> QED
      BY <2>2, <2>s, <2>3, <2>4, <3>1, <3>2, <3>3, <3>4 DEF Answering, Starting
  <2>5. CASE GeneratorClock(tx_ready) /\ Shakes(issue)
    <3>1. PICK name \in {"ack", "nak", "stall"} :
            issue = {name} /\ asked' = Handshake(name) /\ UNCHANGED <<stream, lag>>
      BY <2>5 DEF Shakes
    <3>2. asked' # << >>
      BY <3>1, HandshakeIsBytes
    <3>3. hg_state' = "TRANSMIT"
      BY <2>1, <3>1, <1>0 DEF Quiet, H!GeneratorClock, H!Request, H!Transmit
    <3>4. since' \in delay' + 1 .. delay' + 3 + lag'
      BY <2>1, <2>2, <3>1, <1>1
    <3> QED
      BY <2>1, <2>2, <2>3, <2>5, <3>1, <3>2, <3>3, <3>4 DEF Answering, Shaking, StreamEmpty, Quiet
  <2>6. CASE GeneratorClock(tx_ready) /\ Continues(issue, tx_ready)
    <3>1. stream' = stream /\ hg_state' = "IDLE" /\ asked' = << >> /\ lag' = 0
      BY <2>1, <2>6, <1>0 DEF Continues, StreamClock, Quiet, StreamEmpty, free, G!stream_ready,
           H!GeneratorClock, H!Request, H!Transmit
    <3> QED
      BY <2>1, <2>s, <2>3, <2>6, <3>1 DEF Answering, Quiet, StreamEmpty
  <2>7. CASE GeneratorClock(tx_ready) /\ LooksUp(issue)
    <3>1. stream' = stream /\ asked' = << >> /\ lag' = lag + 1 /\ issue = {} /\ MayAnswerIn
      BY <2>1, <2>7 DEF LooksUp, LookUp, free
    <3>2. hg_state' = "IDLE"
      BY <2>1, <3>1, <1>0 DEF Quiet, H!GeneratorClock, H!Request, H!Transmit
    <3>3. since' = delay' + 1 + lag'
      BY <2>1, <2>2, <3>1, <1>1
    <3> QED
      BY <2>1, <2>2, <2>s, <2>3, <2>7, <3>1, <3>2, <3>3 DEF Answering, Quiet, StreamEmpty
  <2> QED
    BY <2>z, <2>4, <2>5, <2>6, <2>7, <1>0, EndpointCases
<1>3. CASE ~Due
  <2>0. GeneratorClock(tx_ready) /\ Continues(issue, tx_ready)
    BY <1>3, <1>0, NotDueContinues
  <2>g. G!Clock(stream.pid, stream.first, stream_last, stream_valid, tx_ready /\ tx_valid)
    BY <2>0 DEF GeneratorClock
  <2>1. issue = {} /\ (hg_state = "IDLE" => hg_state' = "IDLE")
    BY <2>0, <1>0 DEF Continues, H!GeneratorClock, H!Request, H!Transmit
  <2>2. CASE asked = << >>
    <3>1. Quiet /\ sending = << >> /\ ~tx_valid
      BY <2>2 DEF Timed, Answering, Quiet, StreamEmpty, tx_valid, generator_valid, H!tx_valid
    <3>2. tx_state' = "IDLE" /\ sending' = << >>
      BY <3>1, <1>0, <2>g, GeneratorRests DEF Quiet
    <3>3. stream' = stream /\ asked' = << >> /\ lag' = 0
      BY <3>1, <2>0, <2>2 DEF Continues, StreamClock, Quiet, StreamEmpty, G!stream_ready
    <3> QED
      BY <3>1, <3>2, <3>3, <2>1 DEF Answering, Quiet, StreamEmpty
  <2>3. CASE asked # << >>
    <3>0. /\ ~utmi.active /\ ~utmi'.active
          /\ ~tx_valid /\ ~(since > MaxSince) => since' = since + 1
          /\ tx_valid => since' = since
      <4>1. ~utmi.active /\ ~MaySend
        BY <2>3 DEF Timed, Answering, MaySend
      <4> QED
        BY <4>1, <1>0, BusStaysFree, SinceStep
    <3>1. CASE Starting
      <4>1. ~tx_valid
        BY <3>1 DEF Starting, tx_valid, generator_valid, H!tx_valid
      <4>2. tx_state' = "SEND_PID" /\ is_zlp' = (stream.left = << >>)
        <5>1. stream_valid /\ stream.first = (stream.left # << >>) /\ (stream.left = << >> => stream_last)
          BY <3>1 DEF Starting, stream_valid, stream_last
        <5> QED
          BY <3>1, <5>1, <2>g DEF Starting, G!Clock, G!Idle, G!SendPid, G!SendPayload, G!SendCrcFirst, G!SendCrcSecond
      <4>3. stream'.left = stream.left /\ stream'.zlp = FALSE
        BY <3>1, <2>0 DEF Starting, Continues, StreamClock, StreamType, G!stream_ready
      <4>4. since' = delay + 3 + lag /\ asked' = asked /\ lag' = lag
        BY <2>3, <3>0, <3>1, <4>1, <2>0, <1>1 DEF Starting, Continues
      <4>5. since' \in delay' + 2 .. delay' + 3 + lag'
        BY <4>4, <1>1
      <4> QED
        BY <2>1, <2>3, <3>0, <3>1, <4>2, <4>3, <4>4, <4>5 DEF Answering, Starting, Streaming
    <3>2. CASE Shaking
      <4>1. tx_valid
        BY <3>2 DEF Shaking, tx_valid, H!tx_valid
      <4>2. tx_state' = "IDLE"
        BY <3>2, <2>g, GeneratorRests DEF Shaking
      <4>3. stream' = stream /\ asked' = asked /\ since' = since /\ lag' = lag
        BY <2>3, <3>0, <3>2, <4>1, <2>0 DEF Shaking, Continues, StreamClock, StreamEmpty, G!stream_ready
      <4>4. CASE tx_ready
        <5>1. hg_state' = "IDLE" /\ sending' = Append(sending, tx_data)
          BY <3>2, <4>1, <4>4, <1>0 DEF Shaking, H!GeneratorClock, H!Request, H!Transmit
        <5>2. sending' # << >>
          BY <5>1
        <5> QED
          BY <2>3, <3>0, <3>2, <4>2, <4>3, <5>1, <5>2 DEF Answering, Shaking, Done, Quiet, StreamEmpty
      <4>5. CASE ~tx_ready
        <5>1. hg_state' = hg_state
          BY <3>2, <4>5, <1>0 DEF Shaking, H!GeneratorClock, H!Request, H!Transmit
        <5> QED
          BY <2>3, <3>0, <3>2, <4>2, <4>3, <5>1, <1>1 DEF Answering, Shaking, StreamEmpty
      <4> QED
        BY <4>4, <4>5
    <3>3. CASE Streaming
      <4>1. tx_valid
        BY <3>3 DEF Streaming, tx_valid, generator_valid, stream_valid
      <4>2. asked' = asked /\ since' = since /\ hg_state' = "IDLE" /\ lag' = lag
        BY <2>3, <3>0, <3>3, <4>1, <2>0, <2>1 DEF Streaming, Continues
      <4>3. CASE ~tx_ready
        <5>1. UNCHANGED <<tx_state, is_zlp>>
          BY <3>3, <4>3, <2>g DEF Streaming, G!Clock, G!Idle, G!vars
        <5>2. stream' = stream
          BY <3>3, <4>3, <2>0 DEF Streaming, Continues, StreamClock, G!stream_ready
        <5> QED
          BY <2>3, <3>0, <3>3, <4>2, <5>1, <5>2, <1>1 DEF Answering, Streaming
      <4>4. CASE tx_ready
        <5>0. sending' # << >>
          BY <4>1, <4>4, <1>0
        <5>1. CASE tx_state = "SEND_PID"
          <6>1. tx_state' = (IF is_zlp THEN "SEND_CRC_FIRST" ELSE "SEND_PAYLOAD")
            BY <5>1, <4>4, <4>1, <2>g DEF G!Clock, G!Idle, G!SendPid, G!SendPayload, G!SendCrcFirst, G!SendCrcSecond
          <6>2. stream' = stream
            BY <5>1, <3>3, <2>0 DEF Streaming, Continues, StreamClock, G!stream_ready
          <6> QED
            BY <2>3, <3>0, <3>3, <4>2, <5>1, <6>1, <6>2, <1>1 DEF Answering, Streaming
        <5>2. CASE tx_state = "SEND_PAYLOAD"
          <6>1. tx_state' = IF stream_last \/ ~stream_valid THEN "SEND_CRC_FIRST" ELSE tx_state
            BY <5>2, <4>4, <4>1, <2>g DEF G!Clock, G!Idle, G!SendPid, G!SendPayload, G!SendCrcFirst, G!SendCrcSecond
          <6>2. stream.left # << >> /\ ~stream.zlp
            BY <5>2, <3>3 DEF Streaming
          <6>3. stream'.left = Tail(stream.left) /\ stream'.zlp = FALSE
            BY <5>2, <6>2, <4>4, <4>1, <2>0 DEF Continues, StreamClock, G!stream_ready, StreamType
          <6>4. stream.left \in Seq(Bytes)
            BY DEF StreamType
          <6>5. stream_last <=> Tail(stream.left) = << >>
            <7>1. Tail(stream.left) \in Seq(Bytes) /\ Len(Tail(stream.left)) = Len(stream.left) - 1 /\ Len(stream.left) \in Nat
              BY <6>2, <6>4
            <7> QED
              <8> DEFINE t == Tail(stream.left)
              <8> HIDE DEF t
              <8>1. t \in Seq(Bytes) /\ Len(t) = Len(stream.left) - 1 /\ Len(stream.left) \in Nat
                BY <7>1 DEF t
              <8>2. t = << >> <=> Len(t) = 0
                BY <8>1, EmptySeq
              <8>3. stream_last <=> Len(stream.left) = 1
                BY <6>2 DEF stream_last
              <8> QED
                BY <8>1, <8>2, <8>3 DEF t
          <6>6. stream_valid
            BY <6>2 DEF stream_valid
          <6>7. tx_state' = IF Tail(stream.left) = << >> THEN "SEND_CRC_FIRST" ELSE "SEND_PAYLOAD"
            BY <5>2, <6>1, <6>5, <6>6
          <6> QED
            BY <2>3, <3>0, <3>3, <4>2, <6>3, <6>7, <1>1 DEF Answering, Streaming
        <5>3. CASE tx_state \in {"SEND_CRC_FIRST", "SEND_CRC_SECOND"}
          <6>1. tx_state' = IF tx_state = "SEND_CRC_FIRST" THEN "SEND_CRC_SECOND" ELSE "IDLE"
            BY <5>3, <4>4, <4>1, <2>g DEF G!Clock, G!Idle, G!SendPid, G!SendPayload, G!SendCrcFirst, G!SendCrcSecond
          <6>2. stream' = stream /\ StreamEmpty
            BY <5>3, <3>3, <2>0 DEF Streaming, Continues, StreamClock, G!stream_ready, StreamEmpty
          <6> QED
            BY <2>3, <3>0, <3>3, <4>2, <5>0, <5>3, <6>1, <6>2, <1>1 DEF Answering, Streaming, Done, Quiet, StreamEmpty
        <5> QED
          BY <3>3, <5>1, <5>2, <5>3 DEF Streaming
      <4> QED
        BY <4>3, <4>4
    <3>4. CASE Done
      <4>1. ~tx_valid
        BY <3>4 DEF Done, Quiet, StreamEmpty, tx_valid, generator_valid, H!tx_valid
      <4>2. tx_state' = "IDLE" /\ sending' = << >>
        BY <3>4, <4>1, <1>0, <2>g, GeneratorRests DEF Done, Quiet
      <4>3. stream' = stream /\ asked' = << >> /\ lag' = 0
        BY <3>4, <4>1, <2>0 DEF Done, Quiet, Continues, StreamClock, StreamEmpty, G!stream_ready
      <4> QED
        BY <2>1, <3>4, <4>2, <4>3 DEF Answering, Done, Quiet, StreamEmpty
    <3> QED
      BY <2>3, <3>1, <3>2, <3>3, <3>4 DEF Timed, Answering
  <2> QED
    BY <2>2, <2>3
<1> QED
  BY <1>2, <1>3

LEMMA ReadersTimedStep ==
  ASSUME TimerType, BusType, BusType', Timed, Answering', NEW issue, NEW tx_ready \in BOOLEAN,
         Clock(issue, tx_ready)
  PROVE  ReadersTimed'
<1>0. /\ EndpointClock(issue, tx_ready) /\ HostClock /\ UNCHANGED rx_to_tx_delay
      /\ D!Clock(utmi, address) /\ H!DetectorClock(utmi) /\ R!Clock(RxInput, tx_allowed)
  BY DEF Clock, DeviceClock
<1>1. /\ delay \in Nat /\ MaxSince \in Nat /\ delay + 3 + lag <= MaxSince /\ delay' = delay /\ since \in Nat /\ lag \in Nat
      /\ delay >= 1
  BY <1>0, DelayFits DEF delay, TimerType
<1>2. ~utmi'.active => ~utmi'.valid
  BY <1>0, HostCases DEF ShowsByte, Pauses, Ends, Starts, Waits, StartCases, BusType, Timed, ReadersTimed, Arrives,
     SendToken, SendOther, SendSof
<1>3. utmi'.active => since' = 0
  BY <1>0, SinceStep
<1>4. ASSUME ~utmi'.active, ~utmi.active
      PROVE  tok_state' = "IDLE" /\ hd_state' = "IDLE" /\ rx_state' \in {"IDLE", "INTERPACKET_DELAY"}
  <2>1. ~utmi.valid
    BY <1>4 DEF Timed, ReadersTimed
  <2>2. tok_state' = "IDLE"
    BY <1>4, <1>0 DEF D!Clock, D!Idle, D!ReadPid, D!ReadToken0, D!ReadToken1, D!TokenComplete, D!Irrelevant
  <2>3. hd_state' = "IDLE"
    BY <1>4, <1>0 DEF H!DetectorClock, H!Detect, H!ReadPid, H!AwaitCompletion, H!Irrelevant
  <2>4. rx_state' \in {"IDLE", "INTERPACKET_DELAY"}
    <3>1. RxInput.active = utmi.active /\ RxInput.valid = utmi.valid
      BY DEF RxInput
    <3> QED
      BY <1>4, <1>0, <2>1, <3>1 DEF R!Clock, R!Idle, R!ReadPid, R!ReceiveFirstByte, R!ReceiveSecondByte,
         R!ReceiveAndEmit, R!InterpacketDelay, R!Irrelevant
  <2> QED
    BY <2>2, <2>3, <2>4
<1>5. ~utmi'.active /\ utmi.active => since' = 0
  BY <1>0, SinceStep DEF Timed, ReadersTimed
<1>6. ASSUME tx_valid' \/ asked' # << >> PROVE since' >= delay + 1
  <2>1. asked' # << >>
    BY <1>6 DEF Answering, Quiet, StreamEmpty, tx_valid, generator_valid, H!tx_valid
  <2>2. CASE Due
    <3>1. ~utmi.active /\ ~MaySend /\ since \in delay .. delay + 2 + lag /\ ~tx_valid
      BY <2>2, DueOnce
    <3>2. since' = since + 1
      BY <3>1, <1>0, <1>1, BusStaysFree, SinceStep
    <3> QED
      BY <3>1, <3>2, <1>1
  <2>3. CASE ~Due
    <3>1. asked # << >>
      BY <2>1, <2>3, <1>0, NotDueContinues DEF Continues
    <3>2. ~utmi.active /\ ~MaySend
      BY <3>1 DEF Timed, Answering, MaySend
    <3>3. since' = since \/ since' = since + 1
      BY <3>2, <1>0, <1>1, BusStaysFree, SinceStep
    <3>4. since >= delay + 1
      BY <3>1 DEF Timed, ReadersTimed
    <3>5. since \in Nat
      BY DEF TimerType
    <3> QED
      BY <3>3, <3>4, <3>5, <1>1
  <2> QED
    BY <2>2, <2>3
<1>7. utmi.active \in BOOLEAN /\ utmi'.active \in BOOLEAN
  BY DEF BusType
<1> QED
  BY <1>1, <1>2, <1>3, <1>4, <1>5, <1>6, <1>7 DEF ReadersTimed

LEMMA TimersTimedStep ==
  ASSUME TimerType, TimerType', BusType, BusType', TokenType, Timed, Answering', NEW issue, NEW tx_ready \in BOOLEAN,
         Clock(issue, tx_ready)
  PROVE  TokenTimed' /\ DataTimed' /\ CompleteTimed'
<1>0. /\ EndpointClock(issue, tx_ready) /\ HostClock /\ UNCHANGED rx_to_tx_delay
      /\ D!Clock(utmi, address) /\ R!Clock(RxInput, tx_allowed)
      /\ token_counter' = TimerClock(token_counter, D!timer_start(utmi, address))
      /\ sending' = IF tx_valid /\ tx_ready THEN Append(sending, tx_data) ELSE IF ~tx_valid THEN << >> ELSE sending
  BY DEF Clock, DeviceClock
<1>r. PICK again \in BOOLEAN : counter' = TimerClock(counter, R!timer_start(RxInput) \/ again) /\ (again => packet_complete)
  BY DEF Clock, DeviceClock
<1>1. /\ delay \in Nat /\ delay >= 1 /\ MaxSince \in Nat /\ delay + 3 <= MaxSince /\ delay' = delay /\ since \in Nat
      /\ counter_max = delay + 1 /\ counter \in Nat /\ token_counter \in Nat /\ lag \in Nat
  BY <1>0, DelayFits DEF delay, TimerType
\* Before an answer, while a timer runs.
<1>3. ASSUME ~utmi.active, asked = << >>, since <= delay + 2 PROVE ~utmi'.active /\ since' = since + 1
  <2>1. ~MaySend
    BY <1>3, <1>1, PacketAssumption DEF MaySend, delay
  <2>2. ~tx_valid
    BY <1>3 DEF Timed, Answering, Quiet, StreamEmpty, tx_valid, generator_valid, H!tx_valid
  <2> QED
    BY <1>3, <2>1, <2>2, <1>0, <1>1, BusStaysFree, SinceStep
<1>4. ASSUME asked = << >>, asked' # << >> PROVE Due
  <2>1. sending = << >>
    BY <1>4 DEF Timed, Answering
  <2> QED
    BY <1>4, <2>1, <1>0, NotDueContinues DEF Continues
\* The clock after a packet's end.
<1>2. ASSUME since = 0, ~utmi.active PROVE ~utmi'.active /\ since' = 1 /\ asked' = << >>
  <2>1. asked = << >>
    BY <1>2, <1>1 DEF Timed, ReadersTimed
  <2>2. ~Due
    BY <1>1, <1>2, DueOnce
  <2> QED
    BY <1>1, <1>2, <1>3, <1>4, <2>1, <2>2
<1>5. /\ D!timer_start(utmi, address) => token_counter' = 0 /\ tokenizer'.new_token
      /\ ~D!timer_start(utmi, address) =>
           /\ tokenizer'.pid \in {tokenizer.pid, D!NO_PID}
           /\ token_counter' = IF token_counter < delay + 2 THEN token_counter + 1 ELSE token_counter
  <2>1. tokenizer' = D!Reported(utmi, address)
    BY <1>0 DEF D!Clock
  <2>2. CASE D!timer_start(utmi, address)
    <3>1. tokenizer' = [D!NoStrobe EXCEPT !.pid = current_pid, !.new_token = TRUE,
                          !.address = SubSeq(token_data, 1, 7), !.endpoint = SubSeq(token_data, 8, 11)]
      BY <2>1, <2>2 DEF D!Reported, D!timer_start
    <3> QED
      BY <2>2, <3>1, <1>0 DEF TimerClock, TokenType, D!NoStrobe
  <2>3. CASE ~D!timer_start(utmi, address)
    <3>1. D!Reported(utmi, address) \in {D!NoStrobe, [D!NoStrobe EXCEPT !.frame = token_data, !.new_frame = TRUE], D!Foreign}
      BY <2>3 DEF D!Reported, D!timer_start
    <3>2. D!NoStrobe.pid = tokenizer.pid /\ D!NoStrobe \in [pid : Word(4), address : Word(7), endpoint : Word(4),
             frame : Word(11), new_token : BOOLEAN, new_frame : BOOLEAN]
      BY DEF D!NoStrobe, TokenType
    <3>3. tokenizer'.pid \in {tokenizer.pid, D!NO_PID}
      BY <2>1, <3>1, <3>2 DEF D!Foreign
    <3>4. token_counter' = IF token_counter < delay + 2 THEN token_counter + 1 ELSE token_counter
      BY <2>3, <1>0, <1>1 DEF TimerClock
    <3> QED
      BY <2>3, <3>3, <3>4
  <2> QED
    BY <2>2, <2>3
<1>6. TokenTimed'
  <2>1. CASE D!timer_start(utmi, address)
    <3>1. since = 0 /\ ~utmi.active
      BY <2>1 DEF D!timer_start, D!Ends, Timed, ReadersTimed
    <3> QED
      BY <2>1, <3>1, <1>2, <1>5 DEF TokenTimed
  <2>2. CASE ~D!timer_start(utmi, address)
    <3>3. CASE token_counter > delay
      BY <2>2, <3>3, <1>1, <1>5 DEF TokenTimed
    <3>4. CASE tokenizer.pid # D!NO_PID /\ ~(token_counter > delay)
      <4>1. ~utmi.active /\ since = token_counter + 1 /\ asked = << >>
        BY <3>4 DEF Timed, TokenTimed
      <4>2. ~utmi'.active /\ since' = since + 1 /\ token_counter' = token_counter + 1
        BY <2>2, <3>4, <4>1, <1>1, <1>3, <1>5
      <4>3. ASSUME token_counter < delay PROVE asked' = << >>
        <5>1. ~MayAnswerSetup
          BY <3>4 DEF MayAnswerSetup, Timed, CompleteTimed, D!SETUP_PID, D!NO_PID
        <5>2. ~Due
          BY <5>1, <4>1, <4>3, <1>1, DueOnce
        <5> QED
          BY <5>2, <4>1, <1>4
      <4> QED
        BY <4>1, <4>2, <4>3, <1>1, <3>4 DEF TokenTimed
    <3> QED
      BY <2>2, <3>3, <3>4, <1>5 DEF TokenTimed
  <2> QED
    BY <2>1, <2>2
<1>7. RxInput.active = utmi.active
  BY DEF RxInput
\* The end of a data packet.
<1>8. ASSUME rx_state = "RECEIVE_AND_EMIT", ~RxInput.active, RxInput.crc_matches
      PROVE  since = 0 /\ ~utmi'.active /\ since' = 1 /\ asked' = << >> /\ counter' = 0
  <2>1. counter' = 0
    BY <1>8, <1>r DEF TimerClock, R!timer_start, R!stream_valid
  <2>2. since = 0 /\ ~utmi.active
    BY <1>7, <1>8 DEF Timed, ReadersTimed
  <2> QED
    BY <2>1, <2>2, <1>2
<1>9. DataTimed'
  <2>0. SUFFICES ASSUME rx_state' = "INTERPACKET_DELAY"
                 PROVE  /\ ~utmi'.active /\ counter' <= delay
                        /\ IF asked' = << >> THEN since' \in counter' + 1 .. counter' + 2
                           ELSE counter' + 1 >= delay /\ (counter' < delay => Shaking')
    BY <1>1 DEF DataTimed
  <2>1. CASE rx_state = "RECEIVE_AND_EMIT"
    <3>1. ~RxInput.active /\ RxInput.crc_matches
      BY <2>0, <2>1, <1>0 DEF R!Clock, R!Idle, R!ReadPid, R!ReceiveFirstByte, R!ReceiveSecondByte,
         R!ReceiveAndEmit, R!InterpacketDelay, R!Irrelevant
    <3> QED
      BY <2>1, <3>1, <1>1, <1>8
  <2>2. CASE rx_state # "RECEIVE_AND_EMIT"
    <3>1. rx_state = "INTERPACKET_DELAY" /\ ~tx_allowed
      BY <2>0, <2>2, <1>0 DEF R!Clock, R!Idle, R!ReadPid, R!ReceiveFirstByte, R!ReceiveSecondByte,
         R!ReceiveAndEmit, R!InterpacketDelay, R!Irrelevant
    <3>2. ~utmi.active /\ counter < delay
      BY <3>1, <1>1 DEF Timed, DataTimed, tx_allowed, delay
    <3>3. counter' = (IF again THEN 0 ELSE counter + 1)
      BY <3>1, <3>2, <1>r, <1>1 DEF TimerClock, R!timer_start, R!stream_valid
    <3>4. CASE asked = << >>
      <4>1. since \in counter + 1 .. counter + 2
        BY <3>1, <3>4 DEF Timed, DataTimed
      <4>2. ~utmi'.active /\ since' = since + 1
        BY <3>2, <3>4, <4>1, <1>1, <1>3
      <4>3. CASE packet_complete
        <5>1. since = 1 /\ counter = 0
          BY <4>3 DEF Timed, CompleteTimed
        <5>2. ASSUME asked' # << >> PROVE delay = 1 /\ Shaking'
          <6>1. Due
            BY <3>4, <5>2, <1>4
          <6>2. delay = 1
            BY <5>1, <6>1, <1>1, DueOnce
          <6>3. ~tx_valid
            BY <6>1, DueOnce
          <6>4. sending' = << >>
            BY <6>3, <1>0
          <6>5. since' = delay' + 1 /\ delay' \in Nat /\ lag' \in Nat
            BY <4>2, <5>1, <6>2, <1>1, PacketAssumption DEF TimerType
          <6>6. ~(since' = delay' + 2 + lag') /\ ~(since' \in delay' + 2 .. delay' + 3 + lag')
            <7>1. \A d, l \in Nat : ~(d + 1 = d + 2 + l) /\ ~(d + 1 \in d + 2 .. d + 3 + l)
              OBVIOUS
            <7> QED
              BY <6>5, <7>1, Zenon
          <6>7. ~Starting'
            BY <6>6, Zenon DEF Starting
          <6>8. ~Streaming'
            BY <6>6, Zenon DEF Streaming
          <6>9. ~Done'
            BY <6>4 DEF Done
          <6> QED
            BY <5>2, <6>2, <6>7, <6>8, <6>9 DEF Answering
        <5> QED
          BY <3>2, <3>3, <4>2, <5>1, <5>2, <1>1
      <4>4. CASE ~packet_complete
        <5>1. counter' = counter + 1
          BY <3>3, <4>4, <1>r
        <5>2. ASSUME asked' # << >> PROVE counter' = delay
          <6>1. Due /\ ~MayAnswerSetup
            BY <3>4, <4>4, <5>2, <1>4 DEF MayAnswerSetup
          <6>2. since > delay
            BY <6>1, DueOnce
          <6> QED
            BY <3>2, <4>1, <5>1, <6>2, <1>1
        <5> QED
          BY <3>2, <4>1, <4>2, <5>1, <5>2, <1>1
      <4> QED
        BY <4>3, <4>4
    <3>5. CASE asked # << >>
      <4>1. counter + 1 = delay /\ Shaking /\ ~packet_complete
        <5>1. counter + 1 >= delay /\ Shaking /\ since >= delay + 1
          BY <3>1, <3>2, <3>5 DEF Timed, DataTimed, ReadersTimed
        <5> QED
          BY <5>1, <3>2, <1>1 DEF Timed, CompleteTimed
      <4>2. counter' = delay
        BY <3>3, <4>1, <1>r
      <4>3. ~utmi'.active
        <5>1. ~MaySend
          BY <3>5 DEF MaySend
        <5> QED
          BY <3>2, <5>1, <1>0, BusStaysFree
      <4>4. asked' = asked
        <5>1. tx_valid /\ ~Due
          BY <3>5, <4>1 DEF Shaking, tx_valid, H!tx_valid, Due, MayAnswerIn, MayAnswerPing, MayAnswerOut, MayAnswerSetup, free
        <5> QED
          BY <5>1, <1>0, NotDueContinues DEF Continues
      <4> QED
        BY <3>5, <4>2, <4>3, <4>4, <1>1
    <3> QED
      BY <3>4, <3>5
  <2> QED
    BY <2>1, <2>2
<1>10. CompleteTimed'
  <2>0. SUFFICES ASSUME packet_complete'
                 PROVE  /\ ~utmi'.active /\ since' = 1 /\ counter' = 0
                        /\ tokenizer'.new_token \/ tokenizer'.pid = D!NO_PID \/ token_counter' > delay
    BY <1>1 DEF CompleteTimed
  <2>1. rx_state = "RECEIVE_AND_EMIT" /\ ~RxInput.active /\ RxInput.crc_matches
    BY <2>0, <1>0 DEF R!Clock, R!Idle, R!ReadPid, R!ReceiveFirstByte, R!ReceiveSecondByte,
       R!ReceiveAndEmit, R!InterpacketDelay, R!Irrelevant, R!NoStrobe
  <2>2. since = 0
    BY <2>1, <1>8
  <2>3. tokenizer.pid = D!NO_PID \/ token_counter > delay
    BY <2>2, <1>1 DEF Timed, TokenTimed
  <2> QED
    BY <2>1, <2>3, <1>1, <1>5, <1>8
<1> QED
  BY <1>6, <1>9, <1>10

Types == TimerType /\ BusType /\ SofType /\ SentType /\ TokenType /\ StreamType
TimedInv == Types /\ Timed

LEMMA TimedInit ==
  ASSUME Init
  PROVE  TimedInv
<1>1. C!Byte(0) \in Bytes /\ << >> \in Seq(Bytes)
  BY BitsAreWord DEF Bytes, C!Byte
<1>2. TimerType
  <2>1. MaxSince \in Nat /\ Latency \in Nat
    BY PacketAssumption DEF Init, MaxSince, latest, RxToTx
  <2> QED
    BY <2>1 DEF Init, TimerType, delay
<1>3. BusType
  BY <1>1 DEF Init, BusType
<1>4. SofType /\ SentType
  BY PacketAssumption DEF Init, SofType, SentType
<1>5. TokenType
  <2>1. D!Zeros(11) \in Word(11) /\ D!Zeros(7) \in Word(7) /\ D!Zeros(4) \in Word(4)
    BY DEF D!Zeros, Word, C!Words
  <2> QED
    BY <2>1, PidsAreWords DEF Init, D!Init, TokenType
<1>6. StreamType
  BY <1>1 DEF Init, StreamType
<1>7. Quiet /\ sending = << >> /\ asked = << >> /\ ~tx_valid /\ ~utmi.active /\ ~utmi.valid
  BY DEF Init, Quiet, StreamEmpty, G!Init, H!GeneratorInit, tx_valid, generator_valid, stream_valid, H!tx_valid
<1>8. Timed
  BY <1>7 DEF Init, Timed, ReadersTimed, TokenTimed, DataTimed, CompleteTimed, Answering, D!Init, H!DetectorInit, R!Init
<1> QED
  BY <1>2, <1>3, <1>4, <1>5, <1>6, <1>8 DEF TimedInv, Types

LEMMA TimedStep ==
  ASSUME TimedInv, NEW issue, NEW tx_ready \in BOOLEAN, tx_ready => tx_valid, Clock(issue, tx_ready)
  PROVE  TimedInv'
<1>1. TimerType' /\ BusType' /\ SofType' /\ SentType' /\ TokenType' /\ StreamType'
  BY BusTypeStep, TimerTypeStep, TokenTypeStep, StreamTypeStep DEF TimedInv, Types, Clock, DeviceClock
<1>2. Answering'
  BY <1>1, AnsweringStep DEF TimedInv, Types
<1>3. ReadersTimed'
  BY <1>1, <1>2, ReadersTimedStep DEF TimedInv, Types
<1>4. TokenTimed' /\ DataTimed' /\ CompleteTimed'
  BY <1>1, <1>2, TimersTimedStep DEF TimedInv, Types
<1> QED
  BY <1>1, <1>2, <1>3, <1>4 DEF TimedInv, Types, Timed

LEMMA TimedStutter ==
  ASSUME TimedInv, UNCHANGED vars
  PROVE  TimedInv'
<1>1. UNCHANGED <<tok_state, token_data, current_pid, tokenizer, hd_state, rx_state, tx_state, is_zlp, hg_state, counter,
                  token_counter, rx_to_tx_delay, speed, utmi, host, sent, sof, since, stream, lag, asked, sending,
                  packet_complete>>
  BY DEF vars, tokVars, hdVars, rxVars, txVars, hostVars
<1>2. Types'
  BY <1>1 DEF TimedInv, Types, TimerType, BusType, SofType, SentType, TokenType, StreamType, delay
<1>3. Answering'
  BY <1>1 DEF TimedInv, Timed, Answering, Quiet, StreamEmpty, Starting, Shaking, Streaming, Done, delay
<1>4. ReadersTimed'
  BY <1>1 DEF TimedInv, Timed, ReadersTimed, delay, tx_valid, generator_valid, stream_valid, H!tx_valid
<1>5. TokenTimed' /\ DataTimed' /\ CompleteTimed'
  BY <1>1 DEF TimedInv, Timed, TokenTimed, DataTimed, CompleteTimed, Shaking, StreamEmpty, delay
<1> QED
  BY <1>2, <1>3, <1>4, <1>5 DEF TimedInv, Timed

LEMMA TimedAlways == Spec => []TimedInv
<1>1. Init => TimedInv
  BY TimedInit
<1>2. TimedInv /\ [Next]_vars => TimedInv'
  <2>1. ASSUME TimedInv, Next PROVE TimedInv'
    <3>1. PICK issue \in Issues, tx_ready \in BOOLEAN : (tx_ready => tx_valid) /\ Clock(issue, tx_ready)
      BY <2>1, NextIsClock
    <3> QED
      BY <2>1, <3>1, TimedStep
  <2> QED
    BY <2>1, TimedStutter
<1> QED
  BY <1>1, <1>2, PTL DEF Spec

\* Every answer of the device, of whatever endpoint and to whatever packet, starts within
\* the times of its speed, as long as the endpoint itself takes no more of them than detectors, timers
\* and generators leave: none of these lets anyone answer earlier, or takes longer.
THEOREM AlwaysAnswersInTime == Spec => []AnswersInTime
<1>1. TimedInv => AnswersInTime
  <2> SUFFICES ASSUME TimedInv, tx_valid PROVE since >= earliest /\ (lag <= Spare => since <= latest)
    BY DEF AnswersInTime
  <2>1. speed \in {"hs60", "fs12", "fs60", "ls60"}
    BY PacketAssumption DEF TimedInv, Types, TimerType, RxToTx
  <2>2. earliest \in Nat /\ latest \in Nat
    BY <2>1 DEF earliest, latest, RxToTx
  <2>3. delay = earliest /\ since \in Nat /\ lag \in Nat
    BY PacketAssumption DEF TimedInv, Types, TimerType, earliest
  <2>4. asked # << >> /\ ~Starting /\ ~Done
    BY DEF TimedInv, Timed, Answering, Quiet, StreamEmpty, Starting, Done, tx_valid, generator_valid, H!tx_valid
  <2>5. since \in delay + 1 .. delay + 3 + lag
    <3>1. CASE Shaking
      BY <3>1 DEF Shaking
    <3>2. CASE Streaming
      <4>1. since \in delay + 2 .. delay + 3 + lag
        BY <3>2 DEF Streaming
      <4> QED
        BY <4>1, <2>2, <2>3
    <3> QED
      BY <2>4, <3>1, <3>2 DEF TimedInv, Timed, Answering
  <2> HIDE DEF earliest, latest
  <2> QED
    BY <2>2, <2>3, <2>5 DEF Spare
<1> QED
  BY <1>1, TimedAlways, PTL

---------------------------------------------------------------------------
(* The bytes of an answer, and its checksum *)

Sum(bytes, n) == C!Crc16(FlattenSeq(SubSeq(bytes, 1, n)))
Register(bytes, n) == Reverse(C!Not(Sum(bytes, n)))

LEMMA RegisterFollows ==
  ASSUME NEW bytes, C!FollowsPolynomial(bytes)
  PROVE  /\ Register(bytes, 0) = C!initial_value
         /\ \A n \in 0 .. Len(bytes) : Sum(bytes, n) \in Word(16) /\ C!output_crc(Register(bytes, n)) = Sum(bytes, n)
         /\ \A n \in 1 .. Len(bytes) : Register(bytes, n) = C!generate_next_crc(Register(bytes, n - 1), bytes[n])
<1>1. \A s : C!FlattenSeq(s) = FlattenSeq(s) /\ C!Reverse(s) = Reverse(s)
  BY DEF C!FlattenSeq, FlattenSeq, C!Reverse, Reverse
<1>2. /\ Register(bytes, 0) = C!initial_value
      /\ \A n \in 0 .. Len(bytes) : Sum(bytes, n) \in Word(16)
      /\ \A n \in 1 .. Len(bytes) : Register(bytes, n) = C!generate_next_crc(Register(bytes, n - 1), bytes[n])
  BY <1>1 DEF C!FollowsPolynomial, Register, Sum, Word
<1>3. \A n \in 0 .. Len(bytes) : C!output_crc(Register(bytes, n)) = Sum(bytes, n)
  BY <1>2, OutputOfRegister DEF Register
<1> QED
  BY <1>2, <1>3

LEMMA MultiplexedByte ==
  ASSUME NEW b \in Bytes
  PROVE  [k \in 1 .. 8 |-> IF \E c \in {b} : c[k] = 1 THEN 1 ELSE 0] = b
<1>1. b \in [1 .. 8 -> {0, 1}]
  BY DEF Bytes, Word, C!Words
<1> QED
  BY <1>1

LEMMA HandshakeBytes ==
  /\ H!PACKET_ACK = PidByte(H!HandshakePids["ack"]) /\ H!PACKET_NAK = PidByte(H!HandshakePids["nak"])
  /\ H!PACKET_STALL = PidByte(H!HandshakePids["stall"])
<1>1. ASSUME NEW n \in Nat, NEW pid \in Word(4),
             \A k \in 1 .. 4 : (n \div C!PowersOfTwo[k]) % 2 = pid[k] /\ (n \div C!PowersOfTwo[4 + k]) % 2 = 1 - pid[k]
      PROVE  C!Bits(n, 8) = PidByte(pid)
  <2> DEFINE byte == pid \o C!Not(pid)
  <2>1. C!Not(pid) \in Word(4) /\ \A k \in 1 .. 4 : C!Not(pid)[k] = 1 - pid[k]
    BY NotWord
  <2>2. byte \in Word(4 + 4) /\ (\A k \in 1 .. 4 : byte[k] = pid[k]) /\ \A k \in 1 .. 4 : byte[4 + k] = C!Not(pid)[k]
    <3>1. 4 \in Nat
      OBVIOUS
    <3> QED
      BY <3>1, <2>1, JoinedWords, Zenon
  <2> HIDE DEF byte
  <2>3. C!Bits(n, 8) \in Word(8)
    BY BitsAreWord
  <2>4. ASSUME NEW k \in 1 .. 8 PROVE C!Bits(n, 8)[k] = byte[k]
    <3>1. C!Bits(n, 8)[k] = (n \div C!PowersOfTwo[k]) % 2
      BY DEF C!Bits
    <3>2. CASE k \in 1 .. 4
      BY <1>1, <2>2, <3>1, <3>2
    <3>3. CASE k \in 5 .. 8
      <4>1. k - 4 \in 1 .. 4 /\ 4 + (k - 4) = k
        BY <3>3
      <4> QED
        BY <1>1, <2>1, <2>2, <3>1, <4>1
    <3> QED
      BY <3>2, <3>3
  <2>5. byte \in Word(8) /\ 8 \in Nat
    <3>1. 4 + 4 = 8
      OBVIOUS
    <3> QED
      BY <2>2, <3>1
  <2> QED
    BY <2>3, <2>4, <2>5, SameWords DEF PidByte, byte
<1>2. \A n : H!Bits(n, 8) = C!Bits(n, 8)
  BY DEF H!Bits, C!Bits, H!PowersOfTwo, C!PowersOfTwo
<1>3. /\ C!PowersOfTwo[1] = 1 /\ C!PowersOfTwo[2] = 2 /\ C!PowersOfTwo[3] = 4 /\ C!PowersOfTwo[4] = 8
      /\ C!PowersOfTwo[5] = 16 /\ C!PowersOfTwo[6] = 32 /\ C!PowersOfTwo[7] = 64 /\ C!PowersOfTwo[8] = 128
  BY DEF C!PowersOfTwo
<1>4. H!PACKET_ACK = PidByte(H!HandshakePids["ack"])
  <2> DEFINE pid == <<0, 1, 0, 0>>
  <2>1. pid = H!HandshakePids["ack"] /\ pid \in Word(4)
    BY PidsAreWords DEF H!HandshakePids
  <2>2. \A k \in 1 .. 4 : (210 \div C!PowersOfTwo[k]) % 2 = pid[k] /\ (210 \div C!PowersOfTwo[4 + k]) % 2 = 1 - pid[k]
    BY <1>3
  <2>3. C!Bits(210, 8) = PidByte(pid)
    BY <1>1, <2>1, <2>2
  <2> QED
    BY <1>2, <2>1, <2>3 DEF H!PACKET_ACK, H!Byte
<1>5. H!PACKET_NAK = PidByte(H!HandshakePids["nak"])
  <2> DEFINE pid == <<0, 1, 0, 1>>
  <2>1. pid = H!HandshakePids["nak"] /\ pid \in Word(4)
    BY PidsAreWords DEF H!HandshakePids
  <2>2. \A k \in 1 .. 4 : (90 \div C!PowersOfTwo[k]) % 2 = pid[k] /\ (90 \div C!PowersOfTwo[4 + k]) % 2 = 1 - pid[k]
    BY <1>3
  <2>3. C!Bits(90, 8) = PidByte(pid)
    BY <1>1, <2>1, <2>2
  <2> QED
    BY <1>2, <2>1, <2>3 DEF H!PACKET_NAK, H!Byte
<1>6. H!PACKET_STALL = PidByte(H!HandshakePids["stall"])
  <2> DEFINE pid == <<0, 1, 1, 1>>
  <2>1. pid = H!HandshakePids["stall"] /\ pid \in Word(4)
    BY PidsAreWords DEF H!HandshakePids
  <2>2. \A k \in 1 .. 4 : (30 \div C!PowersOfTwo[k]) % 2 = pid[k] /\ (30 \div C!PowersOfTwo[4 + k]) % 2 = 1 - pid[k]
    BY <1>3
  <2>3. C!Bits(30, 8) = PidByte(pid)
    BY <1>1, <2>1, <2>2
  <2> QED
    BY <1>2, <2>1, <2>3 DEF H!PACKET_STALL, H!Byte
<1> QED
  BY <1>4, <1>5, <1>6

\* How far the packet of an endpoint's stream has gone.
DataSent(pid, payload) ==
  LET n == Len(payload)
      k == n - Len(stream.left)
  IN  /\ hg_state = "IDLE" /\ k \in Nat /\ stream.left = SubSeq(payload, k + 1, n)
      /\ tx_state = "IDLE" => k = 0 /\ sending = << >> /\ stream.pid = pid
      /\ tx_state = "SEND_PID" => k = 0 /\ sending = << >> /\ packet_pid = pid
      /\ tx_state = "SEND_PAYLOAD" => Len(sending) = k + 1 /\ crc = Register(payload, k)
      /\ tx_state = "SEND_CRC_FIRST" => Len(sending) = n + 1 /\ crc = Register(payload, n)
      /\ tx_state = "SEND_CRC_SECOND" => Len(sending) = n + 2 /\ remaining_crc = SubSeq(Sum(payload, n), 9, 16)
HandshakeSent(name) == hg_state = "TRANSMIT" /\ hg_data = asked[1] /\ sending = << >>
PrefixSent == Len(sending) <= Len(asked) /\ \A j \in 1 .. Len(sending) : sending[j] = asked[j]

AnswerIntact ==
  /\ sending \in Seq(Bytes) /\ asked \in Seq(Bytes)
  /\ PrefixSent
  /\ asked # << >> =>
       \/ Done /\ Len(sending) = Len(asked)
       \/ \E pid \in {0, 1}, payload \in Payloads : asked = Data(pid, payload) /\ DataSent(pid, payload)
       \/ \E name \in {"ack", "nak", "stall"} : asked = Handshake(name) /\ HandshakeSent(name)

LEMMA PrefixGrows ==
  ASSUME AnswerIntact, NEW b, Len(sending) < Len(asked), b = asked[Len(sending) + 1],
         sending' = Append(sending, b), asked' = asked
  PROVE  sending' \in Seq(Bytes) /\ Len(sending') = Len(sending) + 1 /\ PrefixSent'
<1>1. b \in Bytes /\ Len(sending) \in Nat /\ Len(asked) \in Nat
  BY DEF AnswerIntact
<1>2. /\ sending' \in Seq(Bytes) /\ Len(sending') = Len(sending) + 1
      /\ \A j \in 1 .. Len(sending) : sending'[j] = sending[j]
      /\ sending'[Len(sending) + 1] = b
  BY <1>1, AppendProperties DEF AnswerIntact
<1>3. ASSUME NEW j \in 1 .. Len(sending') PROVE sending'[j] = asked'[j]
  <2>1. j \in 1 .. Len(sending) \/ j = Len(sending) + 1
    BY <1>1, <1>2
  <2> QED
    BY <1>2, <2>1 DEF AnswerIntact, PrefixSent
<1> QED
  BY <1>1, <1>2, <1>3 DEF PrefixSent

\* While an answer is on its way the register serves the generator alone.
LEMMA RegisterServesAnswer ==
  ASSUME TimedInv, asked # << >>, NEW issue, NEW tx_ready, Clock(issue, tx_ready)
  PROVE  crc' = IF tx_state = "SEND_PID" THEN C!initial_value
                ELSE IF tx_valid /\ tx_ready THEN C!generate_next_crc(crc, tx_data) ELSE crc
<1>1. crc' = NextCrc(tx_ready)
  BY DEF Clock, DeviceClock
<1>2. since # 0 /\ ~utmi.active
  BY DelayFits DEF TimedInv, Types, TimerType, Timed, ReadersTimed, Answering
<1>3. rx_state # "READ_PID" /\ ~utmi.valid
  BY <1>2 DEF TimedInv, Timed, ReadersTimed
<1> QED
  BY <1>1, <1>3 DEF NextCrc, crc_clear

LEMMA PayloadOnTheWay ==
  ASSUME NEW pid \in {0, 1}, NEW payload \in Payloads, asked = Data(pid, payload), DataSent(pid, payload), StreamType,
         stream.left # << >>
  PROVE  LET n == Len(payload)
             k == n - Len(stream.left)
         IN  /\ k \in 0 .. n - 1 /\ n \in Nat /\ Head(stream.left) = payload[k + 1] /\ asked[k + 2] = payload[k + 1]
             /\ Tail(stream.left) = SubSeq(payload, k + 2, n) /\ Len(Tail(stream.left)) = n - (k + 1)
<1> DEFINE n == Len(payload)
           k == n - Len(stream.left)
<1>1. payload \in Seq(Bytes) /\ n \in Nat
  BY PayloadSum
<1>2. stream.left \in Seq(Bytes) /\ Len(stream.left) \in Nat /\ Len(stream.left) # 0
  <2>1. stream.left \in Seq(Bytes)
    BY DEF StreamType
  <2> QED
    BY <2>1, EmptySeq
<1>3. k \in 0 .. n - 1
  BY <1>1, <1>2 DEF DataSent
<1>4. stream.left = SubSeq(payload, k + 1, n)
  BY DEF DataSent
<1> HIDE DEF k
<1>5. Head(SubSeq(payload, k + 1, n)) = payload[k + 1] /\ Tail(SubSeq(payload, k + 1, n)) = SubSeq(payload, (k + 1) + 1, n)
  <2>1. k + 1 \in 1 .. n /\ n \in k + 1 .. n
    BY <1>1, <1>3
  <2> HIDE DEF n
  <2> QED
    BY <1>1, <2>1, HeadTailOfSubSeq DEF n
<1>6. (k + 1) + 1 = k + 2 /\ Len(stream.left) - 1 = n - (k + 1)
  BY <1>1, <1>2, <1>3 DEF k
<1>7. asked[(k + 1) + 1] = payload[k + 1]
  <2>1. \A j \in 1 .. n : asked[j + 1] = payload[j]
    <3>1. pid \in 0 .. 3
      OBVIOUS
    <3> QED
      BY <3>1, DataIsBytes
  <2>2. k + 1 \in 1 .. n
    BY <1>1, <1>3
  <2> HIDE DEF n
  <2> QED
    BY <2>1, <2>2
<1>8. Len(Tail(stream.left)) = Len(stream.left) - 1
  BY <1>2
<1>9. Tail(stream.left) = SubSeq(payload, k + 2, n) /\ Head(stream.left) = payload[k + 1]
  BY <1>4, <1>5, <1>6
<1>10. asked[k + 2] = payload[k + 1] /\ Len(Tail(stream.left)) = n - (k + 1)
  BY <1>6, <1>7, <1>8
<1> HIDE DEF n
<1> QED
  BY <1>1, <1>3, <1>9, <1>10 DEF k, n

\* The byte the generator shows is the next one of what was asked for.
LEMMA GeneratorShows ==
  ASSUME TimedInv, AnswerIntact, NEW pid \in {0, 1}, NEW payload \in Payloads, asked = Data(pid, payload),
         DataSent(pid, payload), Streaming
  PROVE  tx_valid /\ Len(sending) < Len(asked) /\ tx_data = asked[Len(sending) + 1]
<1> DEFINE n == Len(payload)
           k == n - Len(stream.left)
           sum == Sum(payload, n)
<1>1. payload \in Seq(Bytes) /\ n \in Nat /\ stream.left \in Seq(Bytes) /\ StreamType
  BY PayloadSum DEF TimedInv, Types, StreamType
<1>2. SubSeq(payload, 1, n) = payload
  BY <1>1, SubSeqFull
<1>3. /\ asked \in Seq(Bytes) /\ Len(asked) = n + 3 /\ asked[1] = PidByte(DataPids[pid + 1])
      /\ asked[n + 2] = SubSeq(sum, 1, 8) /\ asked[n + 3] = SubSeq(sum, 9, 16)
  <2>1. sum = C!Crc16(FlattenSeq(payload))
    BY <1>2 DEF Sum
  <2> HIDE DEF sum
  <2>2. pid \in 0 .. 3
    OBVIOUS
  <2> QED
    BY <2>1, <2>2, DataIsBytes
<1>4. n \in 0 .. n /\ C!output_crc(Register(payload, n)) = sum
  BY <1>1, DataCrcAgrees, RegisterFollows
<1>5. generator_valid /\ ~H!tx_valid
  BY DEF Streaming, generator_valid, stream_valid, H!tx_valid
<1> HIDE DEF sum
<1>6. Len(sending) < Len(asked) /\ GeneratorByte = asked[Len(sending) + 1]
  <2>1. CASE tx_state = "SEND_PID"
    <3>1. sending = << >> /\ Len(sending) = 0 /\ packet_pid = pid
      BY <2>1 DEF DataSent
    <3> QED
      BY <1>1, <1>3, <2>1, <3>1 DEF GeneratorByte
  <2>2. CASE tx_state = "SEND_PAYLOAD"
    <3>1. stream.left # << >>
      BY <2>2 DEF Streaming
    <3>2. k \in 0 .. n - 1 /\ Head(stream.left) = payload[k + 1] /\ asked[k + 2] = payload[k + 1]
      BY <1>1, <3>1, PayloadOnTheWay
    <3>3. Len(sending) = k + 1
      BY <2>2 DEF DataSent
    <3>4. GeneratorByte = Head(stream.left)
      BY <2>2, <3>1 DEF GeneratorByte
    <3> HIDE DEF k
    <3>5. (k + 1) + 1 = k + 2 /\ k + 1 < n + 3
      BY <1>1, <3>2
    <3> QED
      BY <1>3, <3>2, <3>3, <3>4, <3>5
  <2>3. CASE tx_state = "SEND_CRC_FIRST"
    <3>1. Len(sending) = n + 1 /\ crc = Register(payload, n)
      BY <2>3 DEF DataSent
    <3>2. GeneratorByte = SubSeq(sum, 1, 8)
      BY <2>3, <1>4, <3>1 DEF GeneratorByte, output_crc
    <3>3. (n + 1) + 1 = n + 2 /\ n + 1 < n + 3
      BY <1>1
    <3> QED
      BY <1>3, <3>1, <3>2, <3>3
  <2>4. CASE tx_state = "SEND_CRC_SECOND"
    <3>1. Len(sending) = n + 2 /\ remaining_crc = SubSeq(sum, 9, 16)
      BY <2>4 DEF DataSent, sum
    <3>2. GeneratorByte = remaining_crc
      BY <2>4 DEF GeneratorByte
    <3>3. (n + 2) + 1 = n + 3 /\ n + 2 < n + 3
      BY <1>1
    <3> QED
      BY <1>3, <3>1, <3>2, <3>3
  <2> QED
    BY <2>1, <2>2, <2>3, <2>4 DEF Streaming
<1>7. GeneratorByte \in Bytes
  <2>1. Len(sending) \in Nat /\ Len(asked) \in Nat
    BY DEF AnswerIntact
  <2>2. Len(sending) + 1 \in 1 .. Len(asked)
    BY <1>6, <2>1
  <2>3. asked[Len(sending) + 1] \in Bytes
    BY <2>2, ElementOfSeq DEF AnswerIntact
  <2> QED
    BY <1>6, <2>3
<1>8. tx_data = GeneratorByte
  <2>1. (IF generator_valid THEN {GeneratorByte} ELSE {}) \cup (IF H!tx_valid THEN {hg_data} ELSE {}) = {GeneratorByte}
    BY <1>5
  <2> HIDE DEF GeneratorByte
  <2> QED
    BY <1>7, <2>1, MultiplexedByte DEF tx_data
<1> QED
  BY <1>5, <1>6, <1>8 DEF tx_valid

LEMMA AnswerIntactStep ==
  ASSUME TimedInv, AnswerIntact, NEW issue, NEW tx_ready \in BOOLEAN, tx_ready => tx_valid, Clock(issue, tx_ready)
  PROVE  AnswerIntact'
<1>0. /\ EndpointClock(issue, tx_ready)
      /\ H!GeneratorClock(issue, tx_ready)
      /\ remaining_crc' = IF tx_state = "SEND_CRC_FIRST" THEN SubSeq(output_crc, 9, 16) ELSE remaining_crc
      /\ sending' = IF tx_valid /\ tx_ready THEN Append(sending, tx_data) ELSE IF ~tx_valid THEN << >> ELSE sending
  BY DEF Clock, DeviceClock
<1>e. << >> \in Seq(Bytes) /\ Len(<< >>) = 0
  OBVIOUS
<1>1. CASE Due
  <2>1. free /\ Quiet /\ sending = << >> /\ ~tx_valid
    BY <1>1, DueOnce DEF TimedInv, Types
  <2>2. sending' = << >> /\ (GeneratorClock(tx_ready) => tx_state' = "IDLE")
    BY <2>1, <1>0, GeneratorRests DEF Quiet, GeneratorClock
  <2>z. CASE SendZlp(issue)
    <3>1. PICK pid \in {0, 1} : G!Clock(pid, FALSE, TRUE, TRUE, FALSE) /\ asked' = Data(pid, << >>)
      BY <2>z DEF SendZlp
    <3>2. << >> \in Payloads /\ stream' = stream /\ stream.left = << >>
      BY <2>z, <2>1 DEF SendZlp, Quiet, StreamEmpty
    <3>3. tx_state' = "SEND_PID" /\ packet_pid' = pid
      BY <2>1, <3>1 DEF Quiet, G!Clock, G!Idle, G!SendPid, G!SendPayload, G!SendCrcFirst, G!SendCrcSecond
    <3>4. hg_state' = "IDLE"
      BY <2>1, <2>z, <1>0 DEF SendZlp, Quiet, H!GeneratorClock, H!Request, H!Transmit
    <3>5. asked' \in Seq(Bytes)
      <4>1. pid \in 0 .. 3
        OBVIOUS
      <4> QED
        BY <3>1, <3>2, <4>1, PayloadSum, DataIsBytes
    <3>6. DataSent(pid, << >>)'
      <4>1. stream'.left = << >> /\ Len(stream'.left) = 0 /\ 0 - 0 = 0 /\ SubSeq(<< >>, 0 + 1, 0) = << >>
        BY <3>2
      <4> QED
        BY <2>2, <3>3, <3>4, <4>1, <1>e DEF DataSent
    <3>7. PrefixSent'
      BY <2>2, <3>5, <1>e DEF PrefixSent
    <3> QED
      BY <2>2, <3>1, <3>2, <3>5, <3>6, <3>7, <1>e DEF AnswerIntact
  <2>3. CASE GeneratorClock(tx_ready) /\ Streams(issue)
    <3>1. PICK pid \in {0, 1}, payload \in Payloads :
            /\ stream' = [left |-> payload, first |-> payload # << >>, zlp |-> payload = << >>, pid |-> pid]
            /\ asked' = Data(pid, payload)
      BY <2>3 DEF Streams, SendStream
    <3>2. hg_state' = "IDLE"
      BY <2>1, <2>3, <1>0 DEF Streams, SendStream, Quiet, H!GeneratorClock, H!Request, H!Transmit
    <3>3. payload \in Seq(Bytes) /\ SubSeq(payload, 1, Len(payload)) = payload /\ asked' \in Seq(Bytes)
      <4>1. payload \in Seq(Bytes)
        BY PayloadSum
      <4>2. pid \in 0 .. 3
        OBVIOUS
      <4>3. Data(pid, payload) \in Seq(Bytes)
        BY <4>1, <4>2, DataIsBytes
      <4>4. SubSeq(payload, 1, Len(payload)) = payload
        BY <4>1, SubSeqFull
      <4> QED
        BY <3>1, <4>1, <4>3, <4>4
    <3>4. DataSent(pid, payload)'
      <4>1. stream'.left = payload /\ stream'.pid = pid /\ Len(payload) - Len(payload) = 0 /\ 0 + 1 = 1
        BY <3>1, <3>3
      <4> QED
        BY <2>2, <2>3, <3>2, <3>3, <4>1 DEF DataSent
    <3>5. PrefixSent'
      BY <2>2, <3>3, <1>e DEF PrefixSent
    <3> QED
      BY <2>2, <3>1, <3>3, <3>4, <3>5, <1>e DEF AnswerIntact
  <2>4. CASE GeneratorClock(tx_ready) /\ Shakes(issue)
    <3>1. PICK name \in {"ack", "nak", "stall"} : issue = {name} /\ asked' = Handshake(name)
      BY <2>4 DEF Shakes
    <3>2. hg_state' = "TRANSMIT" /\ hg_data' = (IF name = "ack" THEN H!PACKET_ACK ELSE IF name = "nak" THEN H!PACKET_NAK ELSE H!PACKET_STALL)
      <4>1. H!Request(issue) /\ issue # {}
        BY <2>1, <3>1, <1>0 DEF Quiet, H!GeneratorClock, H!Transmit
      <4>2. CASE name = "ack"
        BY <3>1, <4>1, <4>2 DEF H!Request
      <4>3. CASE name = "nak"
        BY <3>1, <4>1, <4>3 DEF H!Request
      <4>4. CASE name = "stall"
        BY <3>1, <4>1, <4>4 DEF H!Request
      <4> QED
        BY <4>2, <4>3, <4>4
    <3>3. asked' \in Seq(Bytes) /\ asked'[1] = hg_data'
      BY <3>1, <3>2, HandshakeIsBytes, HandshakeBytes
    <3>5. PrefixSent'
      BY <2>2, <3>3, <1>e DEF PrefixSent
    <3> QED
      BY <2>2, <3>1, <3>2, <3>3, <3>5, <1>e DEF AnswerIntact, HandshakeSent
  <2>5. CASE LooksUp(issue) \/ Continues(issue, tx_ready)
    <3>1. asked' = << >>
      BY <2>1, <2>5 DEF LooksUp, LookUp, Continues, free
    <3> QED
      BY <2>2, <3>1, <1>e DEF AnswerIntact, PrefixSent
  <2> QED
    BY <2>z, <2>3, <2>4, <2>5, <1>0, EndpointCases
<1>2. CASE ~Due
  <2>0. /\ Continues(issue, tx_ready)
        /\ G!Clock(stream.pid, stream.first, stream_last, stream_valid, tx_ready /\ tx_valid)
    BY <1>2, <1>0, NotDueContinues DEF GeneratorClock
  <2>1. CASE asked = << >>
    <3>1. sending = << >> /\ ~tx_valid
      BY <2>1 DEF TimedInv, Timed, Answering, Quiet, StreamEmpty, tx_valid, generator_valid, H!tx_valid
    <3>2. asked' = << >> /\ sending' = << >>
      BY <2>0, <2>1, <3>1, <1>0 DEF Continues
    <3> QED
      BY <3>2, <1>e DEF AnswerIntact, PrefixSent
  <2>2. CASE asked # << >> /\ Done
    <3>1. ~tx_valid /\ sending # << >>
      BY <2>2 DEF Done, Quiet, StreamEmpty, tx_valid, generator_valid, H!tx_valid
    <3>2. asked' = << >> /\ sending' = << >>
      BY <2>0, <3>1, <1>0 DEF Continues
    <3> QED
      BY <3>2, <1>e DEF AnswerIntact, PrefixSent
  <2>3. CASE asked # << >> /\ ~Done
    <3>0. Starting \/ Shaking \/ Streaming
      BY <2>3 DEF TimedInv, Timed, Answering
    <3>1. CASE \E name \in {"ack", "nak", "stall"} : asked = Handshake(name) /\ HandshakeSent(name)
      <4>1. PICK name \in {"ack", "nak", "stall"} : asked = Handshake(name) /\ HandshakeSent(name)
        BY <3>1
      <4>2. Shaking
        BY <3>0, <4>1 DEF HandshakeSent, Starting, Streaming
      <4>3. tx_valid /\ asked' = asked
        BY <2>0, <4>2 DEF Shaking, tx_valid, H!tx_valid, Continues
      <4>4. tx_state' = "IDLE"
        BY <4>2, <1>0, <2>0, GeneratorRests DEF Shaking
      <4>5. CASE ~tx_ready
        <5>1. UNCHANGED <<hg_state, hg_data, sending>>
          BY <4>2, <4>3, <4>5, <1>0 DEF Shaking, H!GeneratorClock, H!Request, H!Transmit
        <5> QED
          BY <4>1, <4>3, <5>1 DEF AnswerIntact, PrefixSent, HandshakeSent
      <4>6. CASE tx_ready
        <5>1. hg_state' = "IDLE" /\ sending' = Append(sending, tx_data)
          BY <4>2, <4>3, <4>6, <1>0 DEF Shaking, H!GeneratorClock, H!Request, H!Transmit
        <5>2. Len(asked) = 1 /\ Len(sending) = 0 /\ hg_data = asked[1] /\ asked[1] \in Bytes
          <6>1. asked \in Seq(Bytes) /\ Len(asked) = 1
            BY <4>1, HandshakeIsBytes
          <6>2. 1 \in 1 .. Len(asked)
            BY <6>1
          <6>3. asked[1] \in Bytes
            BY <6>1, <6>2, ElementOfSeq
          <6>4. hg_data = asked[1] /\ sending = << >>
            BY <4>1 DEF HandshakeSent
          <6>5. Len(sending) = 0
            BY <6>4, <1>e
          <6> QED
            BY <6>1, <6>3, <6>4, <6>5
        <5>3. tx_data = hg_data
          <6>1. (IF generator_valid THEN {GeneratorByte} ELSE {}) \cup (IF H!tx_valid THEN {hg_data} ELSE {}) = {hg_data}
            BY <4>2 DEF Shaking, StreamEmpty, generator_valid, stream_valid, H!tx_valid
          <6>2. hg_data \in Bytes
            BY <5>2
          <6> HIDE DEF GeneratorByte
          <6> QED
            BY <6>1, <6>2, MultiplexedByte DEF tx_data
        <5>4. sending' \in Seq(Bytes) /\ Len(sending') = Len(sending) + 1 /\ PrefixSent'
          <6>1. Len(sending) < Len(asked) /\ tx_data = asked[Len(sending) + 1]
            BY <5>2, <5>3
          <6> QED
            BY <4>3, <5>1, <6>1, PrefixGrows
        <5>5. Len(sending') = Len(asked') /\ sending' # << >>
          BY <4>3, <5>2, <5>4, <1>e
        <5>6. Done'
          <6>1. stream' = stream
            BY <4>2, <2>0 DEF Shaking, Continues, StreamClock, StreamEmpty, G!stream_ready
          <6> QED
            BY <4>2, <4>4, <5>1, <5>5, <6>1 DEF Done, Quiet, Shaking, StreamEmpty
        <5> QED
          BY <4>3, <5>4, <5>5, <5>6 DEF AnswerIntact
      <4> QED
        BY <4>5, <4>6
    <3>2. CASE \E pid \in {0, 1}, payload \in Payloads : asked = Data(pid, payload) /\ DataSent(pid, payload)
      <4>1. PICK pid \in {0, 1}, payload \in Payloads : asked = Data(pid, payload) /\ DataSent(pid, payload)
        BY <3>2
      <4>2. Starting \/ Streaming
        BY <3>0, <4>1 DEF Shaking, DataSent
      <4> DEFINE n == Len(payload)
                 k == n - Len(stream.left)
      <4>3. payload \in Seq(Bytes) /\ n \in Nat /\ k \in Nat /\ stream.left = SubSeq(payload, k + 1, n) /\ hg_state = "IDLE"
        <5>1. payload \in Seq(Bytes) /\ n \in Nat
          BY PayloadSum
        <5> QED
          BY <4>1, <5>1 DEF DataSent
      <4>4. hg_state' = "IDLE"
        BY <2>0, <4>3, <1>0 DEF Continues, H!GeneratorClock, H!Request, H!Transmit
      <4>5. /\ Register(payload, 0) = C!initial_value
            /\ C!output_crc(Register(payload, n)) = Sum(payload, n)
            /\ \A j \in 1 .. n : Register(payload, j) = C!generate_next_crc(Register(payload, j - 1), payload[j])
        <5>1. n \in 0 .. n /\ C!FollowsPolynomial(payload)
          BY <4>3, DataCrcAgrees
        <5> QED
          BY <5>1, RegisterFollows
      <4>6. CASE Starting
        <5>1. ~tx_valid /\ asked' = asked /\ sending' = << >> /\ sending = << >> /\ tx_state = "IDLE"
          BY <4>6, <2>0, <1>0 DEF Starting, tx_valid, generator_valid, H!tx_valid, Continues
        <5>2. tx_state' = "SEND_PID" /\ packet_pid' = stream.pid
          <6>1. stream_valid /\ stream.first = (stream.left # << >>) /\ (stream.left = << >> => stream_last)
            BY <4>6 DEF Starting, stream_valid, stream_last
          <6> QED
            BY <4>6, <6>1, <1>0, <2>0 DEF Starting, G!Clock, G!Idle, G!SendPid, G!SendPayload, G!SendCrcFirst, G!SendCrcSecond
        <5>3. stream'.left = stream.left
          BY <4>6, <2>0 DEF Starting, Continues, StreamClock, TimedInv, Types, StreamType, G!stream_ready
        <5>4. DataSent(pid, payload)'
          BY <4>1, <4>4, <5>1, <5>2, <5>3 DEF DataSent
        <5> QED
          BY <4>1, <5>1, <5>4, <1>e DEF AnswerIntact, PrefixSent
      <4>7. CASE Streaming
        <5>1. tx_valid /\ Len(sending) < Len(asked) /\ tx_data = asked[Len(sending) + 1]
          BY <4>1, <4>7, GeneratorShows
        <5>2. asked' = asked
          BY <2>0, <5>1 DEF Continues
        <5>3. crc' = IF tx_state = "SEND_PID" THEN C!initial_value
                     ELSE IF tx_ready THEN C!generate_next_crc(crc, tx_data) ELSE crc
          BY <2>3, <5>1, RegisterServesAnswer
        <5>4. CASE ~tx_ready
          <6>1. UNCHANGED <<tx_state, packet_pid>> /\ sending' = sending
            BY <4>7, <5>1, <5>4, <1>0, <2>0 DEF Streaming, G!Clock, G!Idle, G!vars
          <6>2. stream' = stream
            BY <4>7, <5>4, <2>0 DEF Streaming, Continues, StreamClock, G!stream_ready
          <6>3. tx_state # "SEND_PID" => crc' = crc
            BY <5>3, <5>4
          <6>4. DataSent(pid, payload)'
            BY <4>1, <4>4, <6>1, <6>2, <6>3, <1>0 DEF DataSent
          <6> QED
            BY <4>1, <5>2, <6>1, <6>4 DEF AnswerIntact, PrefixSent
        <5>5. CASE tx_ready
          <6>1. sending' = Append(sending, tx_data)
            BY <5>1, <5>5, <1>0
          <6>2. sending' \in Seq(Bytes) /\ Len(sending') = Len(sending) + 1 /\ PrefixSent'
            BY <5>1, <5>2, <6>1, PrefixGrows
          <6>3. CASE tx_state = "SEND_PID"
            <7>1. tx_state' = (IF is_zlp THEN "SEND_CRC_FIRST" ELSE "SEND_PAYLOAD") /\ (is_zlp <=> stream.left = << >>)
              BY <4>7, <6>3, <5>5, <5>1, <1>0, <2>0 DEF Streaming, G!Clock, G!Idle, G!SendPid, G!SendPayload, G!SendCrcFirst, G!SendCrcSecond
            <7>2. stream' = stream
              BY <6>3, <4>7, <2>0 DEF Streaming, Continues, StreamClock, G!stream_ready
            <7>3. k = 0 /\ Len(sending) = 0 /\ crc' = Register(payload, 0)
              BY <4>1, <4>5, <5>3, <6>3, <1>e DEF DataSent
            <7>4. is_zlp => n = 0
              BY <4>3, <7>1, <7>3, <1>e
            <7>5. Len(sending') = 1
              BY <6>2, <7>3
            <7>6. DataSent(pid, payload)'
              <8>1. n - Len(stream'.left) = k /\ stream'.left = SubSeq(payload, k + 1, n) /\ k \in Nat
                BY <4>3, <7>2
              <8>2. tx_state' = "SEND_PAYLOAD" => Len(sending') = k + 1 /\ crc' = Register(payload, k)
                <9>1. 0 + 1 = 1
                  OBVIOUS
                <9> HIDE DEF k
                <9> QED
                  BY <7>3, <7>5, <9>1
              <8>3. tx_state' = "SEND_CRC_FIRST" => Len(sending') = n + 1 /\ crc' = Register(payload, n)
                <9>1. tx_state' = "SEND_CRC_FIRST" => n = 0 /\ n + 1 = 1
                  BY <7>1, <7>4
                <9> HIDE DEF n, k
                <9> QED
                  BY <7>3, <7>5, <9>1
              <8> HIDE DEF k
              <8> QED
                BY <4>4, <7>1, <8>1, <8>2, <8>3 DEF DataSent
            <7> QED
              BY <4>1, <5>2, <6>2, <7>6 DEF AnswerIntact
          <6>4. CASE tx_state = "SEND_PAYLOAD"
            <7>1. stream.left # << >> /\ ~stream.zlp /\ stream_valid /\ StreamType
              BY <4>7, <6>4 DEF Streaming, stream_valid, TimedInv, Types
            <7>2. tx_state' \in {"SEND_PAYLOAD", "SEND_CRC_FIRST"} /\ (tx_state' = "SEND_CRC_FIRST" => stream_last)
              BY <6>4, <7>1, <5>5, <5>1, <1>0, <2>0 DEF G!Clock, G!Idle, G!SendPid, G!SendPayload, G!SendCrcFirst, G!SendCrcSecond
            <7>3. stream'.left = Tail(stream.left)
              BY <6>4, <7>1, <5>5, <5>1, <2>0 DEF Continues, StreamClock, G!stream_ready, StreamType
            <7>4. /\ k \in 0 .. n - 1 /\ asked[k + 2] = payload[k + 1]
                  /\ stream'.left = SubSeq(payload, k + 2, n) /\ Len(stream'.left) = n - (k + 1)
              BY <4>1, <7>1, <7>3, PayloadOnTheWay
            <7>5. Len(sending) = k + 1 /\ crc = Register(payload, k)
              BY <4>1, <6>4 DEF DataSent
            <7>6. stream_last => n = k + 1
              BY <4>3, <7>1, <7>4 DEF stream_last
            <7> DEFINE j == k + 1
            <7>7. j \in 1 .. n /\ j - 1 = k /\ j + 1 = k + 2 /\ n - (n - j) = j
              BY <4>3, <7>4
            <7>8. crc' = Register(payload, j)
              <8>1. crc' = C!generate_next_crc(crc, tx_data) /\ tx_data = payload[j]
                BY <5>1, <5>3, <5>5, <6>4, <7>4, <7>5, <7>7
              <8> HIDE DEF k, j
              <8> QED
                BY <4>5, <7>5, <7>7, <8>1
            <7>11. j \in Nat /\ n \in Nat
              BY <4>3, <7>7
            <7>12. tx_state' = "SEND_CRC_FIRST" => j = n
              BY <7>2, <7>6
            <7> HIDE DEF k, j, n
            <7>9. Len(sending') = j + 1 /\ stream'.left = SubSeq(payload, j + 1, n) /\ Len(stream'.left) = n - j
              BY <6>2, <7>4, <7>5, <7>7 DEF j
            <7>10. DataSent(pid, payload)'
              <8>1. n - Len(stream'.left) = j /\ j \in Nat /\ (tx_state' = "SEND_CRC_FIRST" => j = n)
                BY <7>7, <7>9, <7>11, <7>12
              <8> QED
                BY <4>4, <7>2, <7>8, <7>9, <8>1 DEF DataSent, n
            <7> QED
              BY <4>1, <5>2, <6>2, <7>10 DEF AnswerIntact
          <6>5. CASE tx_state = "SEND_CRC_FIRST"
            <7>1. tx_state' = "SEND_CRC_SECOND"
              BY <6>5, <5>5, <5>1, <1>0, <2>0 DEF G!Clock, G!Idle, G!SendPid, G!SendPayload, G!SendCrcFirst, G!SendCrcSecond
            <7>2. stream' = stream
              BY <6>5, <4>7, <2>0 DEF Streaming, Continues, StreamClock, G!stream_ready
            <7>3. Len(sending) = n + 1 /\ crc = Register(payload, n)
              BY <4>1, <6>5 DEF DataSent
            <7>4. remaining_crc' = SubSeq(Sum(payload, n), 9, 16)
              BY <4>5, <6>5, <7>3, <1>0 DEF output_crc
            <7>5. Len(sending') = n + 2
              BY <4>3, <6>2, <7>3
            <7>6. DataSent(pid, payload)'
              BY <4>3, <4>4, <7>1, <7>2, <7>4, <7>5 DEF DataSent
            <7> QED
              BY <4>1, <5>2, <6>2, <7>6 DEF AnswerIntact
          <6>6. CASE tx_state = "SEND_CRC_SECOND"
            <7>1. tx_state' = "IDLE"
              BY <6>6, <5>5, <5>1, <1>0, <2>0 DEF G!Clock, G!Idle, G!SendPid, G!SendPayload, G!SendCrcFirst, G!SendCrcSecond
            <7>2. stream' = stream /\ StreamEmpty
              BY <6>6, <4>7, <2>0 DEF Streaming, Continues, StreamClock, G!stream_ready, StreamEmpty
            <7>3. Len(sending) = n + 2 /\ Len(asked) = n + 3
              <8>1. Len(sending) = n + 2
                BY <4>1, <6>6 DEF DataSent
              <8>2. pid \in 0 .. 3
                OBVIOUS
              <8>3. Len(Data(pid, payload)) = n + 3
                BY <8>2, DataIsBytes
              <8> QED
                BY <4>1, <8>1, <8>3
            <7>4. Len(sending') = Len(asked')
              BY <4>3, <5>2, <6>2, <7>3
            <7>5. Done'
              <8>1. sending' # << >>
                BY <6>1
              <8> QED
                BY <4>4, <7>1, <7>2, <8>1 DEF Done, Quiet, StreamEmpty
            <7> QED
              BY <5>2, <6>2, <7>4, <7>5 DEF AnswerIntact
          <6> QED
            BY <4>7, <6>3, <6>4, <6>5, <6>6 DEF Streaming
        <5> QED
          BY <5>4, <5>5
      <4> QED
        BY <4>2, <4>6, <4>7
    <3> QED
      BY <2>3, <3>1, <3>2 DEF AnswerIntact
  <2> QED
    BY <2>1, <2>2, <2>3
<1> QED
  BY <1>1, <1>2

LEMMA AnswerIntactInit ==
  ASSUME Init
  PROVE  AnswerIntact
<1>1. << >> \in Seq(Bytes) /\ Len(<< >>) = 0
  OBVIOUS
<1> QED
  BY <1>1 DEF Init, AnswerIntact, PrefixSent

LEMMA AnswerIntactStutter ==
  ASSUME AnswerIntact, UNCHANGED vars
  PROVE  AnswerIntact'
<1>1. UNCHANGED <<sending, asked, tx_state, packet_pid, remaining_crc, hg_state, hg_data, crc, stream>>
  BY DEF vars, txVars
<1>2. ASSUME NEW pid, NEW payload, DataSent(pid, payload)
      PROVE  DataSent(pid, payload)'
  BY <1>1, <1>2 DEF DataSent
<1>3. ASSUME NEW name, HandshakeSent(name)
      PROVE  HandshakeSent(name)'
  BY <1>1, <1>3 DEF HandshakeSent
<1>4. Done => Done'
  BY <1>1 DEF Done, Quiet, StreamEmpty
<1>5. PrefixSent => PrefixSent'
  BY <1>1 DEF PrefixSent
<1> QED
  BY <1>1, <1>2, <1>3, <1>4, <1>5 DEF AnswerIntact

LEMMA AnswerIntactAlways == Spec => [](TimedInv /\ AnswerIntact)
<1>1. Init => TimedInv /\ AnswerIntact
  BY TimedInit, AnswerIntactInit
<1>2. TimedInv /\ AnswerIntact /\ [Next]_vars => (TimedInv /\ AnswerIntact)'
  <2>1. ASSUME TimedInv, AnswerIntact, Next PROVE TimedInv' /\ AnswerIntact'
    <3>1. PICK issue \in Issues, tx_ready \in BOOLEAN : (tx_ready => tx_valid) /\ Clock(issue, tx_ready)
      BY <2>1, NextIsClock
    <3> QED
      BY <2>1, <3>1, TimedStep, AnswerIntactStep
  <2> QED
    BY <2>1, TimedStutter, AnswerIntactStutter
<1> QED
  BY <1>1, <1>2, PTL DEF Spec

\* What the device sends is byte for byte what its endpoint asked for, checksum included, and
\* when the generators fall silent it is all of it: the register that checks what is received
\* makes the checksum of what is sent, for every payload.
THEOREM AlwaysWellFormed == Spec => []AnswersWellFormed
<1>1. TimedInv /\ AnswerIntact => AnswersWellFormed
  <2> SUFFICES ASSUME TimedInv, AnswerIntact PROVE AnswersWellFormed
    OBVIOUS
  <2>1. sending \in Seq(Bytes) /\ asked \in Seq(Bytes) /\ Len(sending) \in 0 .. Len(asked)
        /\ \A j \in 1 .. Len(sending) : sending[j] = asked[j]
    BY DEF AnswerIntact, PrefixSent
  <2>2. CASE tx_valid
    <3>1. SubSeq(sending, 1, Len(sending)) = sending
      BY <2>1, SubSeqFull
    <3>2. SubSeq(asked, 1, Len(sending)) = sending
      <4>1. CASE sending = << >>
        BY <2>1, <4>1, EmptySeq, SubSeqEmpty
      <4>2. CASE sending # << >>
        <5>1. Len(sending) \in 1 .. Len(asked)
          BY <2>1, <4>2, EmptySeq
        <5> DEFINE part == SubSeq(asked, 1, Len(sending))
        <5>2. /\ part \in Seq(Bytes) /\ Len(part) = Len(sending)
              /\ \A j \in 1 .. Len(sending) : part[j] = asked[j]
          BY <2>1, <5>1
        <5> HIDE DEF part
        <5>3. part = sending
          BY <2>1, <5>2, SeqEqual
        <5> QED
          BY <5>3 DEF part
      <4> QED
        BY <4>1, <4>2
    <3> QED
      BY <2>1, <2>2, <3>1, <3>2 DEF AnswersWellFormed, IsPrefix
  <2>3. CASE ~tx_valid
    <3> SUFFICES ASSUME sending # << >> PROVE sending = asked
      BY <2>3 DEF AnswersWellFormed
    <3>1. asked # << >>
      BY DEF TimedInv, Timed, Answering
    <3>2. ~Shaking /\ ~Streaming /\ ~Starting
      BY <2>3 DEF Shaking, Streaming, Starting, tx_valid, generator_valid, stream_valid, H!tx_valid
    <3>3. Done
      BY <3>1, <3>2 DEF TimedInv, Timed, Answering
    <3>4. Len(sending) = Len(asked)
      <4>1. ASSUME NEW pid \in {0, 1}, NEW payload \in Payloads, asked = Data(pid, payload), DataSent(pid, payload)
            PROVE  FALSE
        BY <3>3, <4>1 DEF DataSent, Done, Quiet
      <4>2. ASSUME NEW name, HandshakeSent(name) PROVE FALSE
        BY <3>3, <4>2 DEF HandshakeSent, Done, Quiet
      <4> QED
        BY <3>1, <4>1, <4>2 DEF AnswerIntact
    <3> QED
      BY <2>1, <3>4, SeqEqual
  <2> QED
    BY <2>2, <2>3
<1> QED
  BY <1>1, AnswerIntactAlways, PTL

---------------------------------------------------------------------------
(* The three readers of the bus, a packet byte by byte *)

LEMMA OneTokenCrc ==
  ASSUME NEW word
  PROVE  D!generate_crc_for_token(word) = C!generate_crc_for_token(word)
BY DEF D!generate_crc_for_token, C!generate_crc_for_token, D!XorOf, C!XorOf, D!Cardinality, C!Cardinality

LEMMA OnePid ==
  ASSUME NEW byte
  PROVE  /\ H!Pid(byte) = D!Pid(byte) /\ H!PidIntact(byte) = D!PidIntact(byte)
BY DEF H!Pid, D!Pid, H!PidIntact, D!PidIntact, H!Not, D!Not

IsToken(byte) == D!PidIntact(byte) /\ D!is_token(byte)
IsData(byte) == D!PidIntact(byte) /\ SubSeq(byte, 1, 2) = <<1, 1>>

\* Where each reader is when it has read n bytes of packet p.
TokenReader(p, n) ==
  IF n = 0 THEN tok_state = "READ_PID"
  ELSE IF ~IsToken(p[1]) THEN tok_state = "IRRELEVANT"
  ELSE /\ current_pid = D!Pid(p[1])
       /\ n = 1 => tok_state = "READ_TOKEN_0"
       /\ n = 2 => tok_state = "READ_TOKEN_1" /\ token_data = p[2] \o D!Zeros(3)
       /\ n = 3 => IF C!Crc5(TokenWord(p)) = SubSeq(p[3], 4, 8)
                   THEN tok_state = "TOKEN_COMPLETE" /\ token_data = TokenWord(p)
                   ELSE tok_state = "IRRELEVANT"
       /\ n > 3 => tok_state = "IRRELEVANT"
HandshakeReader(p, n) ==
  IF n = 0 THEN hd_state = "READ_PID"
  ELSE IF D!PidIntact(p[1]) /\ n = 1 THEN hd_state = "AWAIT_COMPLETION" /\ hd_pid = D!Pid(p[1])
  ELSE hd_state = "IRRELEVANT"

LEMMA TokenWordOf ==
  ASSUME NEW low \in Bytes, NEW high \in Bytes
  PROVE  /\ SubSeq(low \o D!Zeros(3), 1, 8) = low
         /\ low \o SubSeq(high, 1, 3) \in Word(11)
<1> DEFINE zeros == D!Zeros(3)
           three == SubSeq(high, 1, 3)
<1>1. zeros \in Word(3)
  BY DEF D!Zeros, Word, C!Words
<1>2. three \in Word(3)
  BY PartOfWord DEF Bytes
<1> HIDE DEF zeros, three
<1>3. 8 \in Nat /\ 3 \in Nat /\ low \in Word(8)
  BY DEF Bytes
<1>4. low \o three \in Word(8 + 3)
  BY <1>2, <1>3, JoinedWords, Zenon
<1>5. low \o zeros \in Word(8 + 3) /\ \A k \in 1 .. 8 : (low \o zeros)[k] = low[k]
  BY <1>1, <1>3, JoinedWords, Zenon
<1> DEFINE joined == low \o zeros
           part == SubSeq(joined, 1, 8)
<1>6. joined \in Word(11) /\ \A k \in 1 .. 8 : joined[k] = low[k]
  <2>1. 8 + 3 = 11
    OBVIOUS
  <2> QED
    BY <1>5, <2>1
<1> HIDE DEF joined
<1>7. part \in Word(8) /\ \A k \in 1 .. 8 : part[k] = joined[k]
  BY <1>6, PartOfWord
<1> HIDE DEF part
<1>8. part = low
  BY <1>3, <1>6, <1>7, SameWords
<1>9. 8 + 3 = 11
  OBVIOUS
<1> QED
  BY <1>4, <1>8, <1>9 DEF part, joined, zeros, three

LEMMA ReportedAtEnd ==
  /\ ~D!Ends(utmi) => D!Reported(utmi, address) = D!NoStrobe
  /\ D!Ends(utmi) /\ current_pid = D!SOF_PID =>
       D!Reported(utmi, address) = [D!NoStrobe EXCEPT !.frame = token_data, !.new_frame = TRUE]
  /\ D!Ends(utmi) /\ current_pid # D!SOF_PID /\ D!token_applicable(address) =>
       D!Reported(utmi, address) = [D!NoStrobe EXCEPT !.pid = current_pid, !.new_token = TRUE,
                          !.address = SubSeq(token_data, 1, 7), !.endpoint = SubSeq(token_data, 8, 11)]
  /\ D!Ends(utmi) /\ current_pid # D!SOF_PID /\ ~D!token_applicable(address) =>
       D!Reported(utmi, address) = D!Foreign
<1>1. ASSUME ~D!Ends(utmi) PROVE D!Reported(utmi, address) = D!NoStrobe
  BY <1>1 DEF D!Reported, D!timer_start
<1>2. ASSUME D!Ends(utmi), current_pid = D!SOF_PID
      PROVE D!Reported(utmi, address) = [D!NoStrobe EXCEPT !.frame = token_data, !.new_frame = TRUE]
  BY <1>2 DEF D!Reported, D!timer_start
<1>3. ASSUME D!Ends(utmi), current_pid # D!SOF_PID, D!token_applicable(address)
      PROVE D!Reported(utmi, address) = [D!NoStrobe EXCEPT !.pid = current_pid, !.new_token = TRUE,
                          !.address = SubSeq(token_data, 1, 7), !.endpoint = SubSeq(token_data, 8, 11)]
  BY <1>3 DEF D!Reported, D!timer_start
<1>4. ASSUME D!Ends(utmi), current_pid # D!SOF_PID, ~D!token_applicable(address)
      PROVE D!Reported(utmi, address) = D!Foreign
  BY <1>4 DEF D!Reported, D!timer_start
<1> QED
  BY <1>1, <1>2, <1>3, <1>4

LEMMA TokenReads ==
  ASSUME NEW p \in Seq(Bytes), NEW n \in 0 .. Len(p), TokenReader(p, n), utmi.active, D!Clock(utmi, address)
  PROVE  /\ tokenizer' = D!NoStrobe
         /\ ~utmi.valid => TokenReader(p, n)'
         /\ utmi.valid /\ n < Len(p) /\ utmi.data = p[n + 1] => TokenReader(p, n + 1)'
<1>1. tokenizer' = D!NoStrobe
  <2>1. ~D!Ends(utmi)
    BY DEF D!Ends
  <2> QED
    BY <2>1, ReportedAtEnd DEF D!Clock
<1>2. CASE n = 0
  <2>1. tok_state = "READ_PID" /\ D!ReadPid(utmi)
    BY <1>2 DEF TokenReader, D!Clock, D!Idle, D!ReadToken0, D!ReadToken1, D!TokenComplete, D!Irrelevant
  <2>2. ~utmi.valid => TokenReader(p, n)'
    BY <1>2, <2>1 DEF D!ReadPid, TokenReader
  <2>3. utmi.valid /\ utmi.data = p[1] => TokenReader(p, 1)'
    BY <2>1 DEF D!ReadPid, TokenReader, IsToken
  <2> QED
    BY <1>1, <1>2, <2>2, <2>3
<1>3. CASE n # 0 /\ ~IsToken(p[1])
  <2>1. D!Irrelevant(utmi)
    BY <1>3 DEF TokenReader, D!Clock, D!Idle, D!ReadPid, D!ReadToken0, D!ReadToken1, D!TokenComplete
  <2>2. n + 1 # 0
    OBVIOUS
  <2> QED
    BY <1>1, <1>3, <2>1, <2>2 DEF D!Irrelevant, TokenReader
<1>4. CASE n # 0 /\ IsToken(p[1])
  <2>0. current_pid = D!Pid(p[1])
    BY <1>4 DEF TokenReader
  <2>1. CASE n = 1
    <3>1. D!ReadToken0(utmi)
      BY <1>4, <2>1 DEF TokenReader, D!Clock, D!Idle, D!ReadPid, D!ReadToken1, D!TokenComplete, D!Irrelevant
    <3>2. ~utmi.valid => TokenReader(p, 1)'
      BY <1>4, <2>0, <2>1, <3>1 DEF D!ReadToken0, TokenReader
    <3>3. ASSUME utmi.valid, utmi.data = p[2] PROVE TokenReader(p, 2)'
      <4>1. tok_state' = "READ_TOKEN_1" /\ token_data' = p[2] \o D!Zeros(3) /\ current_pid' = current_pid
        BY <3>1, <3>3 DEF D!ReadToken0
      <4> QED
        BY <1>4, <2>0, <4>1 DEF TokenReader
    <3> QED
      BY <1>1, <2>1, <3>2, <3>3
  <2>2. CASE n = 2
    <3>1. D!ReadToken1(utmi) /\ token_data = p[2] \o D!Zeros(3)
      BY <1>4, <2>2 DEF TokenReader, D!Clock, D!Idle, D!ReadPid, D!ReadToken0, D!TokenComplete, D!Irrelevant
    <3>2. ~utmi.valid => TokenReader(p, n)'
      BY <1>4, <2>0, <2>2, <3>1 DEF D!ReadToken1, TokenReader
    <3>3. ASSUME utmi.valid, 2 < Len(p), utmi.data = p[3] PROVE TokenReader(p, 3)'
      <4>1. p[2] \in Bytes /\ p[3] \in Bytes
        BY <2>2, <3>3
      <4>2. SubSeq(token_data, 1, 8) \o SubSeq(utmi.data, 1, 3) = TokenWord(p) /\ TokenWord(p) \in Word(11)
        BY <3>1, <3>3, <4>1, TokenWordOf DEF TokenWord
      <4>3. D!generate_crc_for_token(TokenWord(p)) = C!Crc5(TokenWord(p))
        BY <4>2, OneTokenCrc, TokenCrcAgrees DEF Word
      <4>4. current_pid' = current_pid
        BY <3>1 DEF D!ReadToken1
      <4> DEFINE right == C!Crc5(TokenWord(p)) = SubSeq(p[3], 4, 8)
      <4>5. IF right THEN tok_state' = "TOKEN_COMPLETE" /\ token_data' = TokenWord(p)
                     ELSE tok_state' = "IRRELEVANT"
        <5>1. D!crc_matches(TokenWord(p), utmi) <=> right
          BY <3>3, <4>3 DEF D!crc_matches
        <5> HIDE DEF right
        <5> QED
          BY <3>1, <3>3, <4>2, <5>1 DEF D!ReadToken1
      <4> QED
        BY <1>4, <2>0, <4>4, <4>5 DEF TokenReader
    <3> QED
      BY <1>1, <2>2, <3>2, <3>3
  <2>3. CASE n = 3
    <3> DEFINE right == C!Crc5(TokenWord(p)) = SubSeq(p[3], 4, 8)
    <3>0. IF right THEN tok_state = "TOKEN_COMPLETE" /\ token_data = TokenWord(p) ELSE tok_state = "IRRELEVANT"
      BY <1>4, <2>3 DEF TokenReader
    <3>1. (D!TokenComplete(utmi) /\ right) \/ (D!Irrelevant(utmi) /\ ~right)
      <4> HIDE DEF right
      <4> QED
        BY <3>0 DEF D!Clock, D!Idle, D!ReadPid, D!ReadToken0, D!ReadToken1, D!TokenComplete, D!Irrelevant
    <3>2. current_pid' = current_pid /\ token_data' = token_data
          /\ (~utmi.valid => tok_state' = tok_state) /\ (utmi.valid => tok_state' = "IRRELEVANT")
      BY <3>1 DEF D!TokenComplete, D!Irrelevant
    <3>3. ~utmi.valid => TokenReader(p, 3)'
      BY <1>4, <2>0, <3>0, <3>2 DEF TokenReader
    <3>4. utmi.valid => TokenReader(p, 4)'
      BY <1>4, <2>0, <3>2 DEF TokenReader
    <3> QED
      BY <1>1, <2>3, <3>3, <3>4
  <2>4. CASE n > 3
    <3>1. D!Irrelevant(utmi)
      BY <1>4, <2>4 DEF TokenReader, D!Clock, D!Idle, D!ReadPid, D!ReadToken0, D!ReadToken1, D!TokenComplete
    <3>2. tok_state' = "IRRELEVANT" /\ current_pid' = current_pid
      BY <3>1 DEF D!Irrelevant
    <3>3. n + 1 > 3
      BY <2>4
    <3> QED
      BY <1>1, <1>4, <2>0, <2>4, <3>2, <3>3 DEF TokenReader
  <2> QED
    BY <1>4, <2>1, <2>2, <2>3, <2>4
<1> QED
  BY <1>2, <1>3, <1>4

\* At the end of a packet: a token for us, a frame, a token for someone else, or nothing.
LEMMA TokenEnds ==
  ASSUME NEW p \in Seq(Bytes), TokenReader(p, Len(p)), ~utmi.active, D!Clock(utmi, address)
  PROVE  /\ tok_state' = "IDLE"
         /\ IF p = << >> \/ ~IsToken(p[1]) \/ ~TokenIsWhole(p) THEN tokenizer' = D!NoStrobe
            ELSE IF D!Pid(p[1]) = D!SOF_PID
                 THEN tokenizer' = [D!NoStrobe EXCEPT !.frame = TokenWord(p), !.new_frame = TRUE]
            ELSE IF SubSeq(TokenWord(p), 1, 7) = address
                 THEN tokenizer' = [D!NoStrobe EXCEPT !.pid = D!Pid(p[1]), !.new_token = TRUE,
                                                      !.address = SubSeq(TokenWord(p), 1, 7),
                                                      !.endpoint = SubSeq(TokenWord(p), 8, 11)]
            ELSE tokenizer' = D!Foreign
<1> DEFINE n == Len(p)
<1>1. tokenizer' = D!Reported(utmi, address)
  BY DEF D!Clock
<1>2. n \in Nat /\ (n = 0 <=> p = << >>)
  BY EmptySeq
<1>3. n = 0 \/ n = 1 \/ n = 2 \/ n = 3 \/ n > 3
  <2> HIDE DEF n
  <2> QED
    BY <1>2
<1>4. CASE tok_state # "TOKEN_COMPLETE"
  <2>1. tok_state' = "IDLE"
    <3>1. tok_state \in {"READ_PID", "IRRELEVANT", "READ_TOKEN_0", "READ_TOKEN_1"}
      <4>1. n = 0 \/ n = 1 \/ n = 2 \/ n = 3 \/ n > 3
        BY <1>3
      <4> QED
        BY <1>4, <4>1 DEF TokenReader
    <3> QED
      BY <3>1 DEF D!Clock, D!Idle, D!ReadPid, D!ReadToken0, D!ReadToken1, D!TokenComplete, D!Irrelevant
  <2>2. tokenizer' = D!NoStrobe
    <3>1. ~D!Ends(utmi)
      BY <1>4 DEF D!Ends
    <3> QED
      BY <1>1, <3>1, ReportedAtEnd
  <2>3. p = << >> \/ ~IsToken(p[1]) \/ ~TokenIsWhole(p)
    BY <1>2, <1>4 DEF TokenReader, TokenIsWhole
  <2> QED
    BY <2>1, <2>2, <2>3
<1>5. CASE tok_state = "TOKEN_COMPLETE"
  <2>1. D!TokenComplete(utmi)
    BY <1>5 DEF D!Clock, D!Idle, D!ReadPid, D!ReadToken0, D!ReadToken1, D!Irrelevant
  <2>2. p # << >> /\ IsToken(p[1]) /\ TokenIsWhole(p) /\ current_pid = D!Pid(p[1]) /\ token_data = TokenWord(p)
    <3>1. n = 0 \/ n = 1 \/ n = 2 \/ n = 3 \/ n > 3
      BY <1>3
    <3>2. n = 3 /\ IsToken(p[1])
      BY <1>5, <3>1 DEF TokenReader
    <3> QED
      BY <1>2, <1>5, <3>2 DEF TokenReader, TokenIsWhole
  <2>3. tok_state' = "IDLE"
    BY <2>1 DEF D!TokenComplete
  <2>4. tokenizer' = IF D!Pid(p[1]) = D!SOF_PID
                     THEN [D!NoStrobe EXCEPT !.frame = TokenWord(p), !.new_frame = TRUE]
                     ELSE IF SubSeq(TokenWord(p), 1, 7) = address
                     THEN [D!NoStrobe EXCEPT !.pid = D!Pid(p[1]), !.new_token = TRUE,
                                             !.address = SubSeq(TokenWord(p), 1, 7),
                                             !.endpoint = SubSeq(TokenWord(p), 8, 11)]
                     ELSE D!Foreign
    <3>1. D!Ends(utmi)
      BY <1>5 DEF D!Ends
    <3> QED
      BY <1>1, <2>2, <3>1, ReportedAtEnd DEF D!token_applicable
  <2> QED
    BY <2>2, <2>3, <2>4
<1> QED
  BY <1>4, <1>5

LEMMA HandshakeReads ==
  ASSUME NEW p \in Seq(Bytes), NEW n \in 0 .. Len(p), HandshakeReader(p, n), utmi.active, H!DetectorClock(utmi)
  PROVE  /\ detected' = "none"
         /\ ~utmi.valid => HandshakeReader(p, n)'
         /\ utmi.valid /\ n < Len(p) /\ utmi.data = p[n + 1] => HandshakeReader(p, n + 1)'
<1>1. CASE n = 0
  <2>1. hd_state = "READ_PID" /\ H!ReadPid(utmi)
    BY <1>1 DEF HandshakeReader, H!DetectorClock, H!Detect, H!AwaitCompletion, H!Irrelevant
  <2>2. detected' = "none" /\ (~utmi.valid => HandshakeReader(p, n)')
    BY <1>1, <2>1 DEF H!ReadPid, HandshakeReader
  <2>3. ASSUME utmi.valid, utmi.data = p[1] PROVE HandshakeReader(p, 1)'
    BY <2>1, <2>3, OnePid DEF H!ReadPid, HandshakeReader
  <2> QED
    BY <1>1, <2>2, <2>3
<1>2. CASE n = 1 /\ D!PidIntact(p[1])
  <2>1. hd_state = "AWAIT_COMPLETION" /\ hd_pid = D!Pid(p[1])
    BY <1>2 DEF HandshakeReader
  <2>2. H!AwaitCompletion(utmi)
    BY <2>1 DEF H!DetectorClock, H!Detect, H!ReadPid, H!Irrelevant
  <2> QED
    BY <1>2, <2>1, <2>2 DEF H!AwaitCompletion, H!AfterPid, HandshakeReader
<1>3. CASE n # 0 /\ ~(n = 1 /\ D!PidIntact(p[1]))
  <2>1. hd_state = "IRRELEVANT"
    BY <1>3 DEF HandshakeReader
  <2>2. H!Irrelevant(utmi)
    BY <2>1 DEF H!DetectorClock, H!Detect, H!ReadPid, H!AwaitCompletion
  <2>3. n + 1 # 0 /\ ~(n + 1 = 1)
    BY <1>3
  <2> QED
    BY <1>3, <2>1, <2>2, <2>3 DEF H!Irrelevant, HandshakeReader
<1> QED
  BY <1>1, <1>2, <1>3

LEMMA HandshakeEnds ==
  ASSUME NEW p \in Seq(Bytes), HandshakeReader(p, Len(p)), ~utmi.active, H!DetectorClock(utmi)
  PROVE  /\ hd_state' = "IDLE"
         /\ detected' = IF Len(p) = 1 /\ D!PidIntact(p[1]) THEN H!HandshakeOf(D!Pid(p[1])) ELSE "none"
<1> DEFINE n == Len(p)
<1> HIDE DEF n
<1>1. CASE n = 0
  <2>1. hd_state = "READ_PID" /\ n # 1
    BY <1>1 DEF HandshakeReader, n
  <2>2. H!ReadPid(utmi)
    BY <2>1 DEF H!DetectorClock, H!Detect, H!AwaitCompletion, H!Irrelevant
  <2>3. hd_state' = "IDLE" /\ detected' = "none"
    BY <2>2 DEF H!ReadPid
  <2> QED
    BY <2>1, <2>3 DEF n
<1>2. CASE n # 0 /\ n = 1 /\ D!PidIntact(p[1])
  <2>1. hd_state = "AWAIT_COMPLETION" /\ hd_pid = D!Pid(p[1])
    BY <1>2 DEF HandshakeReader, n
  <2>2. H!AwaitCompletion(utmi)
    BY <2>1 DEF H!DetectorClock, H!Detect, H!ReadPid, H!Irrelevant
  <2> QED
    BY <1>2, <2>1, <2>2 DEF H!AwaitCompletion, n
<1>3. CASE n # 0 /\ ~(n = 1 /\ D!PidIntact(p[1]))
  <2>1. hd_state = "IRRELEVANT"
    BY <1>3 DEF HandshakeReader, n
  <2>2. H!Irrelevant(utmi)
    BY <2>1 DEF H!DetectorClock, H!Detect, H!ReadPid, H!AwaitCompletion
  <2> QED
    BY <1>3, <2>1, <2>2 DEF H!Irrelevant, n
<1> QED
  BY <1>1, <1>2, <1>3

Rest(p) == SubSeq(p, 2, Len(p))

DataReader(p, n) ==
  IF n = 0 THEN rx_state = "READ_PID" /\ collected = << >>
  ELSE IF ~IsData(p[1]) THEN rx_state = "IRRELEVANT" /\ collected = << >>
  ELSE /\ active_pid = p[1][4] /\ crc = Register(Rest(p), n - 1) /\ collected = SubSeq(p, 2, n - 2)
       /\ n = 1 => rx_state = "RECEIVE_FIRST_BYTE"
       /\ n = 2 => rx_state = "RECEIVE_SECOND_BYTE" /\ data_pipeline[2] = p[2] /\ last_byte_crc = Sum(Rest(p), 0)
       /\ n > 2 => /\ rx_state = "RECEIVE_AND_EMIT" /\ data_pipeline = <<p[n - 1], p[n]>>
                   /\ last_byte_crc = Sum(Rest(p), n - 2) /\ last_word_crc = Sum(Rest(p), n - 3)

LEMMA RestOf ==
  ASSUME NEW p \in Seq(Bytes), Len(p) >= 1
  PROVE  /\ Rest(p) \in Seq(Bytes) /\ Len(Rest(p)) = Len(p) - 1
         /\ \A k \in 1 .. Len(p) - 1 : Rest(p)[k] = p[k + 1]
         /\ \A k \in 0 .. Len(p) - 1 : SubSeq(Rest(p), 1, k) = SubSeq(p, 2, k + 1)
<1>1. CASE Len(p) = 1
  <2>1. Rest(p) = << >>
    BY <1>1, SubSeqEmpty DEF Rest
  <2>2. SubSeq(Rest(p), 1, 0) = << >> /\ SubSeq(p, 2, 0 + 1) = << >>
    BY SubSeqEmpty
  <2>3. Rest(p) \in Seq(Bytes) /\ Len(Rest(p)) = 0
    BY <2>1, EmptySeq
  <2>4. Len(p) - 1 = 0
    BY <1>1
  <2>5. \A k \in 0 .. 0 : k = 0
    OBVIOUS
  <2>6. \A k \in 1 .. 0 : FALSE
    OBVIOUS
  <2> QED
    BY <2>2, <2>3, <2>4, <2>5, <2>6
<1>2. CASE Len(p) >= 2
  <2>1. /\ Rest(p) \in Seq(Bytes) /\ Len(Rest(p)) = Len(p) - 1
        /\ \A k \in 1 .. Len(p) - 1 : Rest(p)[k] = p[k + 1]
    <3>1. 2 \in 1 .. Len(p) /\ Len(p) \in 2 .. Len(p)
      BY <1>2
    <3> QED
      BY <3>1, SubSeqProperties DEF Rest
  <2>2. ASSUME NEW k \in 1 .. Len(p) - 1 PROVE SubSeq(Rest(p), 1, k) = SubSeq(p, 2, k + 1)
    <3> DEFINE r == Rest(p)
               a == SubSeq(r, 1, k)
               b == SubSeq(p, 2, k + 1)
    <3>1. r \in Seq(Bytes) /\ Len(r) = Len(p) - 1 /\ \A j \in 1 .. Len(p) - 1 : r[j] = p[j + 1]
      BY <2>1
    <3> HIDE DEF r
    <3>2. a \in Seq(Bytes) /\ Len(a) = k /\ \A j \in 1 .. k : a[j] = r[j]
      BY <3>1
    <3>3. b \in Seq(Bytes) /\ Len(b) = k /\ \A j \in 1 .. k : b[j] = p[j + 1]
      <4>1. 2 \in 1 .. Len(p) /\ k + 1 \in 2 .. Len(p) /\ (k + 1) - 2 + 1 = k
        BY <1>2
      <4>2. \A j \in 1 .. k : 2 + j - 1 = j + 1
        OBVIOUS
      <4> QED
        BY <4>1, <4>2, SubSeqProperties
    <3> HIDE DEF a, b
    <3>4. ASSUME NEW j \in 1 .. k PROVE a[j] = b[j]
      <4>1. j \in 1 .. Len(p) - 1
        OBVIOUS
      <4>2. r[j] = p[j + 1]
        BY <3>1, <4>1
      <4>3. a[j] = r[j]
        BY <3>2
      <4>4. b[j] = p[j + 1]
        BY <3>3
      <4> QED
        BY <4>2, <4>3, <4>4
    <3>5. a = b
      BY <3>2, <3>3, <3>4, SeqEqual
    <3> QED
      BY <3>5 DEF a, b, r
  <2>3. SubSeq(Rest(p), 1, 0) = SubSeq(p, 2, 0 + 1)
    BY SubSeqEmpty
  <2> QED
    BY <2>1, <2>2, <2>3
<1>3. Len(p) = 1 \/ Len(p) >= 2
  <2> DEFINE n == Len(p)
  <2>1. n \in Nat /\ n >= 1
    OBVIOUS
  <2> HIDE DEF n
  <2>2. n = 1 \/ n >= 2
    BY <2>1
  <2> QED
    BY <2>2 DEF n
<1> QED
  BY <1>1, <1>2, <1>3

LEMMA OneMore ==
  ASSUME NEW p \in Seq(Bytes), NEW n \in 3 .. Len(p)
  PROVE  Append(SubSeq(p, 2, n - 2), p[n - 1]) = SubSeq(p, 2, n - 1)
<1> DEFINE a == SubSeq(p, 2, n - 2)
           b == SubSeq(p, 2, n - 1)
<1>1. a \in Seq(Bytes) /\ Len(a) = n - 3 /\ \A j \in 1 .. n - 3 : a[j] = p[j + 1]
  <2>1. CASE n = 3
    BY <2>1, SubSeqEmpty
  <2>2. CASE n > 3
    BY <2>2
  <2> QED
    BY <2>1, <2>2
<1>2. b \in Seq(Bytes) /\ Len(b) = n - 2 /\ \A j \in 1 .. n - 2 : b[j] = p[j + 1]
  OBVIOUS
<1> HIDE DEF a, b
<1>3. p[n - 1] \in Bytes
  OBVIOUS
<1> DEFINE c == Append(a, p[n - 1])
<1>4. c \in Seq(Bytes) /\ Len(c) = n - 2 /\ (\A j \in 1 .. n - 3 : c[j] = a[j]) /\ c[(n - 3) + 1] = p[n - 1]
  BY <1>1, <1>3, AppendProperties
<1> HIDE DEF c
<1>5. ASSUME NEW j \in 1 .. n - 2 PROVE c[j] = b[j]
  <2>1. CASE j \in 1 .. n - 3
    BY <1>1, <1>2, <1>4, <2>1
  <2>2. CASE j = n - 2
    <3>1. (n - 3) + 1 = j /\ j + 1 = n - 1
      BY <2>2
    <3> QED
      BY <1>2, <1>4, <3>1
  <2> QED
    BY <2>1, <2>2
<1> QED
  BY <1>2, <1>4, <1>5, SeqEqual DEF a, b, c

\* While a packet comes in the register serves the receiver alone.
LEMMA RegisterServesReception ==
  ASSUME TimedInv, since = 0, NEW issue, NEW tx_ready, Clock(issue, tx_ready)
  PROVE  crc' = IF rx_state = "READ_PID" THEN C!initial_value
                ELSE IF utmi.valid THEN C!generate_next_crc(crc, utmi.data) ELSE crc
<1>1. crc' = NextCrc(tx_ready)
  BY DEF Clock, DeviceClock
<1>2. ~tx_valid
  BY DelayFits DEF TimedInv, Types, TimerType, Timed, ReadersTimed
<1>3. tx_state # "SEND_PID"
  BY <1>2 DEF tx_valid, generator_valid
<1> QED
  BY <1>1, <1>2, <1>3 DEF NextCrc, crc_clear

\* What the receiver does in a clock of the bus.
Receives(u) ==
  /\ R!Clock(RxInput, tx_allowed) /\ KeepCrc
  /\ crc' = IF rx_state = "READ_PID" THEN C!initial_value
            ELSE IF u.valid THEN C!generate_next_crc(crc, u.data) ELSE crc
  /\ collected' = IF R!stream_next(RxInput) THEN Append(collected, R!stream_payload) ELSE collected

LEMMA DataReads ==
  ASSUME NEW p \in Seq(Bytes), NEW n \in 0 .. Len(p), DataReader(p, n), C!FollowsPolynomial(Rest(p)), utmi.active, Receives(utmi)
  PROVE  /\ ~packet_complete' /\ ~crc_mismatch'
         /\ ~utmi.valid => DataReader(p, n)'
         /\ utmi.valid /\ n < Len(p) /\ utmi.data = p[n + 1] => DataReader(p, n + 1)'
<1> DEFINE rest == Rest(p)
<1>0. /\ RxInput.active = utmi.active /\ RxInput.valid = utmi.valid /\ RxInput.byte = utmi.data
      /\ (RxInput.kind = "data" <=> IsData(utmi.data)) /\ RxInput.toggle = utmi.data[4]
  BY DEF RxInput, IsData
<1>1. /\ Register(rest, 0) = C!initial_value
      /\ \A k \in 0 .. Len(rest) : C!output_crc(Register(rest, k)) = Sum(rest, k)
      /\ \A k \in 1 .. Len(rest) : Register(rest, k) = C!generate_next_crc(Register(rest, k - 1), rest[k])
  BY RegisterFollows
<1>2. n > 0 => /\ Len(rest) = Len(p) - 1
               /\ \A k \in 1 .. Len(p) - 1 : rest[k] = p[k + 1]
  BY RestOf
<1> HIDE DEF rest
<1>3. CASE n = 0
  <2>1. rx_state = "READ_PID" /\ collected = << >>
    BY <1>3 DEF DataReader
  <2>2. R!ReadPid(RxInput)
    BY <2>1 DEF Receives, R!Clock, R!Idle, R!ReceiveFirstByte, R!ReceiveSecondByte, R!ReceiveAndEmit, R!InterpacketDelay, R!Irrelevant
  <2>3. ~packet_complete' /\ ~crc_mismatch' /\ collected' = << >> /\ crc' = C!initial_value
    BY <2>1, <2>2 DEF R!ReadPid, R!NoStrobe, Receives, R!stream_next, R!stream_valid
  <2>4. ~utmi.valid => DataReader(p, n)'
    BY <1>0, <1>3, <2>1, <2>2, <2>3 DEF R!ReadPid, DataReader
  <2>5. ASSUME utmi.valid, utmi.data = p[1] PROVE DataReader(p, 1)'
    <3>1. CASE ~IsData(p[1])
      BY <1>0, <2>2, <2>3, <2>5, <3>1 DEF R!ReadPid, DataReader
    <3>2. CASE IsData(p[1])
      <4>1. rx_state' = "RECEIVE_FIRST_BYTE" /\ active_pid' = p[1][4]
        BY <1>0, <2>2, <2>5, <3>2 DEF R!ReadPid
      <4>2. SubSeq(p, 2, 1 - 2) = << >> /\ 1 - 1 = 0
        BY SubSeqEmpty
      <4> QED
        BY <1>1, <2>3, <3>2, <4>1, <4>2 DEF DataReader, rest
    <3> QED
      BY <3>1, <3>2
  <2> QED
    BY <1>3, <2>3, <2>4, <2>5
<1>4. CASE n # 0 /\ ~IsData(p[1])
  <2>1. rx_state = "IRRELEVANT" /\ collected = << >>
    BY <1>4 DEF DataReader
  <2>2. R!Irrelevant(RxInput)
    BY <2>1 DEF Receives, R!Clock, R!Idle, R!ReadPid, R!ReceiveFirstByte, R!ReceiveSecondByte, R!ReceiveAndEmit, R!InterpacketDelay
  <2>3. ~packet_complete' /\ ~crc_mismatch' /\ collected' = << >> /\ rx_state' = "IRRELEVANT"
    BY <1>0, <2>1, <2>2 DEF R!Irrelevant, R!NoStrobe, Receives, R!stream_next, R!stream_valid
  <2>4. n + 1 # 0
    OBVIOUS
  <2> QED
    BY <1>4, <2>3, <2>4 DEF DataReader
<1>5. CASE n # 0 /\ IsData(p[1])
  <2>0. active_pid = p[1][4] /\ crc = Register(rest, n - 1) /\ collected = SubSeq(p, 2, n - 2)
    BY <1>5 DEF DataReader, rest
  <2>1. rx_state = IF n = 1 THEN "RECEIVE_FIRST_BYTE" ELSE IF n = 2 THEN "RECEIVE_SECOND_BYTE" ELSE "RECEIVE_AND_EMIT"
    BY <1>5 DEF DataReader
  <2>2. /\ ~packet_complete' /\ ~crc_mismatch' /\ active_pid' = active_pid /\ R!Shift(RxInput)
        /\ rx_state' = IF ~utmi.valid THEN rx_state
                       ELSE IF n = 1 THEN "RECEIVE_SECOND_BYTE" ELSE "RECEIVE_AND_EMIT"
    <3>1. R!ReceiveFirstByte(RxInput) \/ R!ReceiveSecondByte(RxInput) \/ R!ReceiveAndEmit(RxInput)
      BY <2>1 DEF Receives, R!Clock, R!Idle, R!ReadPid, R!InterpacketDelay, R!Irrelevant
    <3> QED
      BY <1>0, <1>5, <2>1, <3>1 DEF R!ReceiveFirstByte, R!ReceiveSecondByte, R!ReceiveAndEmit, R!NoStrobe
  <2>3. crc' = IF utmi.valid THEN C!generate_next_crc(crc, utmi.data) ELSE crc
    BY <2>1 DEF Receives
  <2>4. CASE ~utmi.valid
    <3>1. UNCHANGED <<rx_state, active_pid, crc, collected, last_byte_crc, last_word_crc, data_pipeline>>
      BY <1>0, <2>2, <2>3, <2>4 DEF Receives, KeepCrc, R!Shift, R!stream_next
    <3> QED
      BY <1>5, <2>2, <2>4, <3>1 DEF DataReader
  <2>5. CASE utmi.valid /\ n < Len(p) /\ utmi.data = p[n + 1]
    <3>1. crc' = Register(rest, n)
      <4>1. n \in 1 .. Len(rest) /\ rest[n] = p[n + 1]
        BY <1>2, <1>5, <2>5
      <4> QED
        BY <1>1, <2>0, <2>3, <2>5, <4>1
    <3>2. /\ data_pipeline' = <<data_pipeline[2], p[n + 1]>>
          /\ last_byte_crc' = Sum(rest, n - 1)
          /\ n # 1 => last_word_crc' = last_byte_crc
      <4>1. n - 1 \in 0 .. Len(rest)
        BY <1>2, <1>5, <2>5
      <4>2. C!output_crc(crc) = Sum(rest, n - 1)
        BY <1>1, <2>0, <4>1
      <4>3. data_pipeline' = <<data_pipeline[2], p[n + 1]>>
        BY <1>0, <2>2, <2>5 DEF R!Shift
      <4>4. last_byte_crc' = output_crc /\ (rx_state # "RECEIVE_FIRST_BYTE" => last_word_crc' = last_byte_crc)
        BY <2>1, <2>5 DEF Receives, KeepCrc
      <4> QED
        BY <2>1, <4>2, <4>3, <4>4 DEF output_crc
    <3>3. CASE n = 1
      <4>1. collected' = collected
        BY <2>1, <3>3 DEF Receives, R!stream_next, R!stream_valid
      <4>2. SubSeq(p, 2, 1 - 2) = << >> /\ SubSeq(p, 2, 2 - 2) = << >> /\ 2 - 1 = 1 /\ 1 - 1 = 0 /\ 1 + 1 = 2
        BY SubSeqEmpty
      <4>3. rx_state' = "RECEIVE_SECOND_BYTE"
        BY <2>2, <2>5, <3>3
      <4>4. data_pipeline'[2] = p[2]
        BY <3>2, <3>3
      <4>5. DataReader(p, 2)'
        BY <1>5, <2>0, <2>2, <3>1, <3>2, <3>3, <4>1, <4>2, <4>3, <4>4 DEF DataReader, rest
      <4> QED
        BY <2>2, <2>5, <3>3, <4>5
    <3>4. CASE n > 1
      <4> DEFINE m == n + 1
      <4>1. m > 2 /\ m # 0 /\ m # 1 /\ m # 2 /\ m - 1 = n /\ m - 2 = n - 1 /\ m - 3 = n - 2
        BY <3>4
      <4>2. rx_state' = "RECEIVE_AND_EMIT"
        BY <2>2, <2>5, <3>4
      <4>3. data_pipeline[2] = p[n] /\ last_byte_crc = Sum(rest, n - 2)
        <5>1. CASE n = 2
          <6>1. 2 - 2 = 0
            OBVIOUS
          <6> QED
            BY <1>5, <5>1, <6>1 DEF DataReader, rest
        <5>2. CASE n > 2
          BY <1>5, <5>2 DEF DataReader, rest
        <5> QED
          BY <3>4, <5>1, <5>2
      <4>4. collected' = SubSeq(p, 2, n - 1)
        <5>1. CASE n = 2
          <6>1. SubSeq(p, 2, 2 - 2) = << >> /\ SubSeq(p, 2, 2 - 1) = << >>
            BY SubSeqEmpty
          <6>2. collected' = collected
            BY <2>1, <5>1 DEF Receives, R!stream_next, R!stream_valid
          <6> QED
            BY <2>0, <5>1, <6>1, <6>2
        <5>2. CASE n > 2
          <6>1. data_pipeline = <<p[n - 1], p[n]>> /\ rx_state = "RECEIVE_AND_EMIT"
            BY <1>5, <5>2 DEF DataReader
          <6>2. collected' = Append(collected, data_pipeline[1])
            BY <1>0, <2>5, <6>1 DEF Receives, R!stream_next, R!stream_valid, R!stream_payload
          <6>3. data_pipeline[1] = p[n - 1]
            BY <6>1
          <6>4. n \in 3 .. Len(p)
            BY <5>2
          <6> QED
            BY <2>0, <6>2, <6>3, <6>4, OneMore
        <5> QED
          BY <3>4, <5>1, <5>2
      <4> HIDE DEF m
      <4>5. DataReader(p, m)'
        <5>1. /\ active_pid' = p[1][4] /\ crc' = Register(Rest(p), m - 1) /\ collected' = SubSeq(p, 2, m - 2)
              /\ data_pipeline' = <<p[m - 1], p[m]>>
              /\ last_byte_crc' = Sum(Rest(p), m - 2) /\ last_word_crc' = Sum(Rest(p), m - 3)
          BY <2>0, <2>2, <3>1, <3>2, <3>4, <4>1, <4>3, <4>4 DEF rest, m
        <5> QED
          BY <1>5, <4>1, <4>2, <5>1 DEF DataReader
      <4> QED
        BY <2>2, <2>5, <4>5 DEF m
    <3> QED
      BY <1>5, <3>3, <3>4
  <2> QED
    BY <2>2, <2>4, <2>5
<1> QED
  BY <1>3, <1>4, <1>5

LEMMA DataEnds ==
  ASSUME NEW p \in Seq(Bytes), DataReader(p, Len(p)), ~utmi.active, ~utmi.valid, Receives(utmi)
  PROVE  IF p # << >> /\ IsData(p[1]) /\ Len(p) >= 3
         THEN /\ active_pid' = p[1][4] /\ collected' = Payload(p)
              /\ packet_complete' = DataIsWhole(p) /\ crc_mismatch' = ~DataIsWhole(p)
              /\ rx_state' \in {"IDLE", "INTERPACKET_DELAY"}
         ELSE ~packet_complete' /\ ~crc_mismatch' /\ rx_state' = "IDLE"
<1> DEFINE n == Len(p)
<1>0. ~RxInput.active /\ ~RxInput.valid
  BY DEF RxInput
<1>1. n \in Nat /\ (n = 0 <=> p = << >>)
  BY EmptySeq
<1> HIDE DEF n
<1>2. n = 0 \/ n = 1 \/ n = 2 \/ n > 2
  BY <1>1
<1>3. CASE p # << >> /\ IsData(p[1]) /\ n > 2
  <2>1. /\ rx_state = "RECEIVE_AND_EMIT" /\ active_pid = p[1][4] /\ collected = SubSeq(p, 2, n - 2)
        /\ data_pipeline = <<p[n - 1], p[n]>> /\ last_word_crc = Sum(Rest(p), n - 3)
    BY <1>1, <1>3 DEF DataReader, n
  <2>2. R!ReceiveAndEmit(RxInput)
    BY <2>1 DEF Receives, R!Clock, R!Idle, R!ReadPid, R!ReceiveFirstByte, R!ReceiveSecondByte, R!InterpacketDelay, R!Irrelevant
  <2>3. collected' = collected /\ active_pid' = active_pid
    BY <1>0, <2>2 DEF Receives, R!stream_next, R!ReceiveAndEmit
  <2>4. SubSeq(Rest(p), 1, n - 3) = SubSeq(p, 2, n - 2)
    <3>1. n - 3 \in 0 .. n - 1 /\ (n - 3) + 1 = n - 2 /\ n >= 1
      BY <1>1, <1>3
    <3> QED
      BY <3>1, RestOf DEF n
  <2>5. RxInput.crc_matches = DataIsWhole(p)
    <3>1. last_word_crc = C!Crc16(FlattenSeq(Payload(p)))
      BY <2>1, <2>4 DEF Sum, Payload, n
    <3>2. data_pipeline[1] = p[n - 1] /\ data_pipeline[2] = p[n]
      BY <2>1
    <3>3. RxInput.crc_matches = (last_word_crc = data_pipeline[1] \o data_pipeline[2])
      BY DEF RxInput
    <3> QED
      BY <3>1, <3>2, <3>3 DEF DataIsWhole, n
  <2>6. /\ packet_complete' = RxInput.crc_matches /\ crc_mismatch' = ~RxInput.crc_matches
        /\ rx_state' \in {"IDLE", "INTERPACKET_DELAY"}
    <3>1. RxInput.crc_matches \in BOOLEAN
      BY DEF RxInput
    <3> QED
      BY <1>0, <2>2, <3>1 DEF R!ReceiveAndEmit
  <2>7. n >= 3
    BY <1>1, <1>3
  <2> QED
    BY <1>3, <2>1, <2>3, <2>5, <2>6, <2>7 DEF Payload, n
<1>4. CASE ~(p # << >> /\ IsData(p[1]) /\ n > 2)
  <2>1. rx_state \in {"READ_PID", "IRRELEVANT", "RECEIVE_FIRST_BYTE", "RECEIVE_SECOND_BYTE"}
    BY <1>1, <1>2, <1>4 DEF DataReader, n
  <2>2. ~packet_complete' /\ ~crc_mismatch' /\ rx_state' = "IDLE"
    BY <1>0, <2>1 DEF Receives, R!Clock, R!Idle, R!ReadPid, R!ReceiveFirstByte, R!ReceiveSecondByte, R!ReceiveAndEmit,
                      R!InterpacketDelay, R!Irrelevant, R!NoStrobe
  <2>3. ~(p # << >> /\ IsData(p[1]) /\ n >= 3)
    BY <1>1, <1>4
  <2> QED
    BY <2>2, <2>3 DEF n
<1> QED
  BY <1>3, <1>4

TokenPids == {D!SOF_PID, D!OUT_PID, D!IN_PID, D!SETUP_PID, D!PING_PID}
IsHandshake(pid) == \E h \in DOMAIN H!HandshakePids : H!HandshakePids[h] = pid
IsDataPid(pid) == \E k \in 1 .. 4 : DataPids[k] = pid

LEMMA TupleOfWord ==
  /\ \A w \in Word(4) : w = <<w[1], w[2], w[3], w[4]>> /\ w[1] \in {0, 1} /\ w[2] \in {0, 1} /\ w[3] \in {0, 1} /\ w[4] \in {0, 1}
  /\ \A w \in Word(2) : w = <<w[1], w[2]>> /\ w[1] \in {0, 1} /\ w[2] \in {0, 1}
BY DEF Word, C!Words

LEMMA ClassOfPid ==
  ASSUME NEW pid \in Word(4)
  PROVE  /\ pid \in TokenPids <=> (pid[1] = 1 /\ pid[2] = 0) \/ pid = D!PING_PID
         /\ IsDataPid(pid) <=> pid[1] = 1 /\ pid[2] = 1
         /\ IsHandshake(pid) <=> pid[1] = 0 /\ pid[2] = 1
         /\ D!PING_PID[1] = 0 /\ D!PING_PID[2] = 0
<1> DEFINE a == pid[1]
           b == pid[2]
           c == pid[3]
           d == pid[4]
<1>1. pid = <<a, b, c, d>> /\ a \in {0, 1} /\ b \in {0, 1} /\ c \in {0, 1} /\ d \in {0, 1}
  BY TupleOfWord
<1>2. pid \in TokenPids <=> (a = 1 /\ b = 0) \/ pid = D!PING_PID
  BY <1>1 DEF TokenPids, D!SOF_PID, D!OUT_PID, D!IN_PID, D!SETUP_PID, D!PING_PID
<1>3. IsDataPid(pid) <=> a = 1 /\ b = 1
  <2>1. IsDataPid(pid) <=> pid \in {<<1, 1, 0, 0>>, <<1, 1, 0, 1>>, <<1, 1, 1, 0>>, <<1, 1, 1, 1>>}
    <3>1. DataPids[1] = <<1, 1, 0, 0>> /\ DataPids[2] = <<1, 1, 0, 1>> /\ DataPids[3] = <<1, 1, 1, 0>> /\ DataPids[4] = <<1, 1, 1, 1>>
      BY DEF DataPids
    <3>2. 1 .. 4 = {1, 2, 3, 4}
      OBVIOUS
    <3> QED
      BY <3>1, <3>2 DEF IsDataPid
  <2> QED
    BY <1>1, <2>1
<1>4. IsHandshake(pid) <=> a = 0 /\ b = 1
  <2>1. IsHandshake(pid) <=> pid \in {<<0, 1, 0, 0>>, <<0, 1, 0, 1>>, <<0, 1, 1, 1>>, <<0, 1, 1, 0>>}
    BY DEF IsHandshake, H!HandshakePids
  <2> QED
    BY <1>1, <2>1
<1> QED
  BY <1>2, <1>3, <1>4 DEF D!PING_PID

LEMMA ClassOfByte ==
  ASSUME NEW byte \in Bytes
  PROVE  /\ D!Pid(byte) \in Word(4) /\ D!Pid(byte)[4] = byte[4]
         /\ D!is_token(byte) <=> D!Pid(byte) \in TokenPids
         /\ SubSeq(byte, 1, 2) = <<1, 1>> <=> IsDataPid(D!Pid(byte))
<1> DEFINE pid == D!Pid(byte)
           two == SubSeq(byte, 1, 2)
<1>1. pid \in Word(4) /\ \A k \in 1 .. 4 : pid[k] = byte[k]
  BY PartOfWord DEF Bytes, D!Pid
<1>2. two \in Word(2) /\ \A k \in 1 .. 2 : two[k] = byte[k]
  BY PartOfWord DEF Bytes
<1>3. D!is_token(byte) <=> two = <<1, 0>> \/ pid = D!PING_PID
  BY DEF D!is_token
<1> HIDE DEF pid, two
<1>4. two = <<two[1], two[2]>>
  BY <1>2, TupleOfWord
<1>5. pid[1] = byte[1] /\ pid[2] = byte[2] /\ pid[4] = byte[4] /\ two[1] = byte[1] /\ two[2] = byte[2]
  BY <1>1, <1>2
<1>6. (two = <<1, 0>> <=> byte[1] = 1 /\ byte[2] = 0) /\ (two = <<1, 1>> <=> byte[1] = 1 /\ byte[2] = 1)
  BY <1>4, <1>5
<1> QED
  BY <1>1, <1>3, <1>5, <1>6, ClassOfPid DEF pid, two

LEMMA HandshakeNamed ==
  ASSUME NEW pid
  PROVE  /\ IsHandshake(pid) => H!HandshakeOf(pid) # "none"
         /\ ~IsHandshake(pid) => H!HandshakeOf(pid) = "none"
<1>1. ASSUME IsHandshake(pid) PROVE H!HandshakeOf(pid) \in DOMAIN H!HandshakePids
  BY <1>1 DEF H!HandshakeOf, IsHandshake
<1>2. "none" \notin DOMAIN H!HandshakePids
  BY DEF H!HandshakePids
<1> QED
  BY <1>1, <1>2 DEF H!HandshakeOf, IsHandshake

TokenEvent(p) == [kind |-> "token", pid |-> D!Pid(p[1]), endpoint |-> SubSeq(TokenWord(p), 8, 11)]
FrameEvent(p) == [kind |-> "sof", frame |-> TokenWord(p)]
HandshakeEvent(p) == [kind |-> "handshake", name |-> H!HandshakeOf(D!Pid(p[1]))]
DataEvent(p) == [kind |-> "data", toggle |-> D!Pid(p[1])[4], payload |-> Payload(p)]

LEMMA MeaningOf ==
  ASSUME NEW p \in Seq(Bytes)
  PROVE  /\ p = << >> \/ ~D!PidIntact(p[1]) => Meaning(p) = {}
         /\ p # << >> /\ D!PidIntact(p[1]) =>
              LET pid == D!Pid(p[1]) IN
              /\ pid = D!SOF_PID => Meaning(p) = IF TokenIsWhole(p) THEN {FrameEvent(p)} ELSE {}
              /\ pid \in TokenPids \ {D!SOF_PID} =>
                   Meaning(p) = IF TokenIsWhole(p) /\ SubSeq(TokenWord(p), 1, 7) = address THEN {TokenEvent(p)} ELSE {}
              /\ IsHandshake(pid) => Meaning(p) = IF Len(p) = 1 THEN {HandshakeEvent(p)} ELSE {}
              /\ IsDataPid(pid) =>
                   Meaning(p) = IF Len(p) < 3 THEN {} ELSE IF DataIsWhole(p) THEN {DataEvent(p)} ELSE {[kind |-> "invalid"]}
              /\ pid \notin TokenPids /\ ~IsHandshake(pid) /\ ~IsDataPid(pid) => Meaning(p) = {}
<1>1. p = << >> \/ ~D!PidIntact(p[1]) => Meaning(p) = {}
  BY DEF Meaning
<1>2. ASSUME p # << >>, D!PidIntact(p[1])
      PROVE  LET pid == D!Pid(p[1]) IN
              /\ pid = D!SOF_PID => Meaning(p) = IF TokenIsWhole(p) THEN {FrameEvent(p)} ELSE {}
              /\ pid \in TokenPids \ {D!SOF_PID} =>
                   Meaning(p) = IF TokenIsWhole(p) /\ SubSeq(TokenWord(p), 1, 7) = address THEN {TokenEvent(p)} ELSE {}
              /\ IsHandshake(pid) => Meaning(p) = IF Len(p) = 1 THEN {HandshakeEvent(p)} ELSE {}
              /\ IsDataPid(pid) =>
                   Meaning(p) = IF Len(p) < 3 THEN {} ELSE IF DataIsWhole(p) THEN {DataEvent(p)} ELSE {[kind |-> "invalid"]}
              /\ pid \notin TokenPids /\ ~IsHandshake(pid) /\ ~IsDataPid(pid) => Meaning(p) = {}
  <2> DEFINE pid == D!Pid(p[1])
             token == pid \in {D!OUT_PID, D!IN_PID, D!SETUP_PID, D!PING_PID}
             sofs == IF TokenIsWhole(p) THEN {FrameEvent(p)} ELSE {}
             tokens == IF TokenIsWhole(p) /\ SubSeq(TokenWord(p), 1, 7) = address THEN {TokenEvent(p)} ELSE {}
             shakes == IF Len(p) = 1 THEN {HandshakeEvent(p)} ELSE {}
             datas == IF Len(p) < 3 THEN {} ELSE IF DataIsWhole(p) THEN {DataEvent(p)} ELSE {[kind |-> "invalid"]}
  <2>1. Meaning(p) = CASE pid = D!SOF_PID -> sofs
                       [] token -> tokens
                       [] IsHandshake(pid) -> shakes
                       [] IsDataPid(pid) -> datas
                       [] OTHER -> {}
    BY <1>2, Zenon DEF Meaning, address, IsHandshake, IsDataPid, FrameEvent, TokenEvent, HandshakeEvent, DataEvent
  <2>2. p[1] \in Bytes
    BY <1>2, EmptySeq
  <2>3. pid \in Word(4)
    BY <2>2, ClassOfByte
  <2>4. /\ pid = D!SOF_PID => pid \in TokenPids /\ ~token
        /\ token <=> pid \in TokenPids \ {D!SOF_PID}
    BY DEF TokenPids, D!SOF_PID, D!OUT_PID, D!IN_PID, D!SETUP_PID, D!PING_PID
  <2>5. /\ pid \in TokenPids => ~IsHandshake(pid) /\ ~IsDataPid(pid)
        /\ IsHandshake(pid) => ~IsDataPid(pid)
    BY <2>3, ClassOfPid
  <2> HIDE DEF pid, token, sofs, tokens, shakes, datas
  <2>6. /\ pid = D!SOF_PID => Meaning(p) = sofs
        /\ pid \in TokenPids \ {D!SOF_PID} => Meaning(p) = tokens
        /\ IsHandshake(pid) => Meaning(p) = shakes
        /\ IsDataPid(pid) => Meaning(p) = datas
        /\ pid \notin TokenPids /\ ~IsHandshake(pid) /\ ~IsDataPid(pid) => Meaning(p) = {}
    BY <2>1, <2>4, <2>5
  <2> QED
    BY <2>6 DEF pid, sofs, tokens, shakes, datas
<1> QED
  BY <1>1, <1>2

\* A clock after the end of a packet the three readers report just what it means.
LEMMA PacketReported ==
  ASSUME NEW p \in Seq(Bytes), TokenType, TokenReader(p, Len(p)), HandshakeReader(p, Len(p)), DataReader(p, Len(p)),
         ~utmi.active, ~utmi.valid, D!Clock(utmi, address), H!DetectorClock(utmi), Receives(utmi)
  PROVE  Reports' = Meaning(p)
<1> DEFINE pid == D!Pid(p[1])
<1>1. tokenizer \in [pid : Word(4), address : Word(7), endpoint : Word(4), frame : Word(11), new_token : BOOLEAN, new_frame : BOOLEAN]
  BY DEF TokenType
<1>2. /\ ~D!NoStrobe.new_token /\ ~D!NoStrobe.new_frame
      /\ ~D!Foreign.new_token /\ ~D!Foreign.new_frame
  BY <1>1 DEF D!NoStrobe, D!Foreign
<1>3. detected' = IF Len(p) = 1 /\ D!PidIntact(p[1]) THEN H!HandshakeOf(pid) ELSE "none"
  BY HandshakeEnds
<1>4. IF p # << >> /\ IsData(p[1]) /\ Len(p) >= 3
      THEN /\ active_pid' = p[1][4] /\ collected' = Payload(p)
           /\ packet_complete' = DataIsWhole(p) /\ crc_mismatch' = ~DataIsWhole(p)
      ELSE ~packet_complete' /\ ~crc_mismatch'
  BY DataEnds
<1>5. IF p = << >> \/ ~IsToken(p[1]) \/ ~TokenIsWhole(p) THEN tokenizer' = D!NoStrobe
      ELSE IF pid = D!SOF_PID
           THEN tokenizer' = [D!NoStrobe EXCEPT !.frame = TokenWord(p), !.new_frame = TRUE]
      ELSE IF SubSeq(TokenWord(p), 1, 7) = address
           THEN tokenizer' = [D!NoStrobe EXCEPT !.pid = pid, !.new_token = TRUE,
                                                !.address = SubSeq(TokenWord(p), 1, 7),
                                                !.endpoint = SubSeq(TokenWord(p), 8, 11)]
      ELSE tokenizer' = D!Foreign
  BY TokenEnds
<1>6. Reports' = (IF tokenizer'.new_token
                  THEN {[kind |-> "token", pid |-> tokenizer'.pid, endpoint |-> tokenizer'.endpoint]} ELSE {})
                 \cup (IF tokenizer'.new_frame THEN {[kind |-> "sof", frame |-> tokenizer'.frame]} ELSE {})
                 \cup (IF detected' # "none" THEN {[kind |-> "handshake", name |-> detected']} ELSE {})
                 \cup (IF packet_complete' THEN {[kind |-> "data", toggle |-> active_pid', payload |-> collected']} ELSE {})
                 \cup (IF crc_mismatch' THEN {[kind |-> "invalid"]} ELSE {})
  BY DEF Reports
<1>e. Len(<< >>) = 0
  OBVIOUS
<1>7. CASE p = << >> \/ ~D!PidIntact(p[1])
  <2>1. tokenizer' = D!NoStrobe /\ detected' = "none" /\ ~packet_complete' /\ ~crc_mismatch'
    BY <1>3, <1>4, <1>5, <1>7, <1>e DEF IsToken, IsData
  <2>2. Reports' = {}
    BY <1>2, <1>6, <2>1
  <2> QED
    BY <1>7, <2>2, MeaningOf
<1>8. CASE p # << >> /\ D!PidIntact(p[1])
  <2>1. p[1] \in Bytes
    BY <1>8, EmptySeq
  <2>2. /\ pid \in Word(4) /\ pid[4] = p[1][4]
        /\ IsToken(p[1]) <=> pid \in TokenPids
        /\ IsData(p[1]) <=> IsDataPid(pid)
    BY <1>8, <2>1, ClassOfByte DEF IsToken, IsData
  <2>3. /\ pid \in TokenPids => ~IsHandshake(pid) /\ ~IsDataPid(pid)
        /\ IsHandshake(pid) => ~IsDataPid(pid)
    BY <2>2, ClassOfPid
  <2>4. D!SOF_PID \in TokenPids
    BY DEF TokenPids
  <2> HIDE DEF pid
  <2>5. IsHandshake(pid) <=> H!HandshakeOf(pid) # "none"
    BY HandshakeNamed
  <2>6. CASE pid \in TokenPids
    <3>1. detected' = "none" /\ ~packet_complete' /\ ~crc_mismatch'
      BY <1>3, <1>4, <2>2, <2>3, <2>5, <2>6
    <3>2. Reports' = (IF tokenizer'.new_token
                      THEN {[kind |-> "token", pid |-> tokenizer'.pid, endpoint |-> tokenizer'.endpoint]} ELSE {})
                     \cup (IF tokenizer'.new_frame THEN {[kind |-> "sof", frame |-> tokenizer'.frame]} ELSE {})
      BY <1>6, <3>1
    <3>3. CASE ~TokenIsWhole(p)
      <4>1. Reports' = {}
        BY <1>2, <1>5, <3>2, <3>3
      <4>2. Meaning(p) = {}
        BY <1>8, <2>6, <3>3, MeaningOf DEF pid
      <4> QED
        BY <4>1, <4>2
    <3>4. CASE TokenIsWhole(p) /\ pid = D!SOF_PID
      <4>1. tokenizer' = [D!NoStrobe EXCEPT !.frame = TokenWord(p), !.new_frame = TRUE]
        BY <1>5, <1>8, <2>2, <2>6, <3>4
      <4>2. ~tokenizer'.new_token /\ tokenizer'.new_frame /\ tokenizer'.frame = TokenWord(p)
        BY <1>1, <4>1 DEF D!NoStrobe
      <4>3. Reports' = {FrameEvent(p)}
        BY <3>2, <4>2 DEF FrameEvent
      <4>4. Meaning(p) = {FrameEvent(p)}
        BY <1>8, <3>4, MeaningOf DEF pid
      <4> QED
        BY <4>3, <4>4
    <3>5. CASE TokenIsWhole(p) /\ pid # D!SOF_PID /\ SubSeq(TokenWord(p), 1, 7) = address
      <4>1. tokenizer' = [D!NoStrobe EXCEPT !.pid = pid, !.new_token = TRUE,
                                            !.address = SubSeq(TokenWord(p), 1, 7),
                                            !.endpoint = SubSeq(TokenWord(p), 8, 11)]
        BY <1>5, <1>8, <2>2, <2>6, <3>5
      <4>2. /\ tokenizer'.new_token /\ ~tokenizer'.new_frame /\ tokenizer'.pid = pid
            /\ tokenizer'.endpoint = SubSeq(TokenWord(p), 8, 11)
        BY <1>1, <4>1 DEF D!NoStrobe
      <4>3. Reports' = {TokenEvent(p)}
        BY <3>2, <4>2 DEF TokenEvent, pid
      <4>4. Meaning(p) = {TokenEvent(p)}
        BY <1>8, <2>6, <3>5, MeaningOf DEF pid
      <4> QED
        BY <4>3, <4>4
    <3>6. CASE TokenIsWhole(p) /\ pid # D!SOF_PID /\ SubSeq(TokenWord(p), 1, 7) # address
      <4>1. tokenizer' = D!Foreign
        BY <1>5, <1>8, <2>2, <2>6, <3>6
      <4>2. Reports' = {}
        BY <1>2, <3>2, <4>1
      <4>3. Meaning(p) = {}
        BY <1>8, <2>6, <3>6, MeaningOf DEF pid
      <4> QED
        BY <4>2, <4>3
    <3> QED
      BY <3>3, <3>4, <3>5, <3>6
  <2>7. CASE pid \notin TokenPids
    <3>1. tokenizer' = D!NoStrobe
      BY <1>5, <2>2, <2>7
    <3>2. ~tokenizer'.new_token /\ ~tokenizer'.new_frame
      BY <1>2, <3>1
    <3>3. CASE IsHandshake(pid)
      <4>1. ~packet_complete' /\ ~crc_mismatch'
        BY <1>4, <2>2, <2>3, <3>3
      <4>2. Reports' = IF detected' # "none" THEN {[kind |-> "handshake", name |-> detected']} ELSE {}
        BY <1>6, <3>2, <4>1
      <4>3. Reports' = IF Len(p) = 1 THEN {HandshakeEvent(p)} ELSE {}
        BY <1>3, <1>8, <2>5, <3>3, <4>2 DEF HandshakeEvent, pid
      <4> QED
        BY <1>8, <3>3, <4>3, MeaningOf DEF pid
    <3>4. CASE IsDataPid(pid)
      <4>1. detected' = "none"
        BY <1>3, <2>3, <2>5, <3>4
      <4>2. Reports' = (IF packet_complete' THEN {[kind |-> "data", toggle |-> active_pid', payload |-> collected']} ELSE {})
                       \cup (IF crc_mismatch' THEN {[kind |-> "invalid"]} ELSE {})
        BY <1>6, <3>2, <4>1
      <4>3. Meaning(p) = IF Len(p) < 3 THEN {} ELSE IF DataIsWhole(p) THEN {DataEvent(p)} ELSE {[kind |-> "invalid"]}
        BY <1>8, <3>4, MeaningOf DEF pid
      <4> DEFINE n == Len(p)
      <4>4. n \in Nat
        OBVIOUS
      <4> HIDE DEF n
      <4>5. CASE n < 3
        <5>1. ~packet_complete' /\ ~crc_mismatch'
          BY <1>4, <4>4, <4>5 DEF n
        <5> QED
          BY <4>2, <4>3, <4>5, <5>1 DEF n
      <4>6. CASE ~(n < 3)
        <5>1. n >= 3
          BY <4>4, <4>6
        <5>2. /\ active_pid' = pid[4] /\ collected' = Payload(p)
              /\ packet_complete' = DataIsWhole(p) /\ crc_mismatch' = ~DataIsWhole(p)
          BY <1>4, <1>8, <2>2, <3>4, <5>1 DEF n
        <5>3. CASE DataIsWhole(p)
          BY <4>2, <4>3, <4>6, <5>2, <5>3 DEF n, DataEvent, pid
        <5>4. CASE ~DataIsWhole(p)
          BY <4>2, <4>3, <4>6, <5>2, <5>4 DEF n
        <5> QED
          BY <5>3, <5>4
      <4> QED
        BY <4>5, <4>6
    <3>5. CASE ~IsHandshake(pid) /\ ~IsDataPid(pid)
      <4>1. detected' = "none" /\ ~packet_complete' /\ ~crc_mismatch'
        BY <1>3, <1>4, <2>2, <2>5, <3>5
      <4>2. Reports' = {}
        BY <1>6, <3>2, <4>1
      <4> QED
        BY <1>8, <2>7, <3>5, <4>2, MeaningOf DEF pid
    <3> QED
      BY <3>3, <3>4, <3>5
  <2> QED
    BY <2>6, <2>7
<1> QED
  BY <1>7, <1>8

Arriving == UNION {{packet} \cup Variants[packet] : packet \in Packets}

LEMMA ArrivingFollows ==
  ASSUME NEW p \in Arriving
  PROVE  p \in Seq(Bytes) /\ C!FollowsPolynomial(Rest(p))
<1>1. PICK packet \in Packets : p \in {packet} \cup Variants[packet]
  BY DEF Arriving
<1>2. p \in Seq(Bytes)
  BY <1>1, ArrivingIsBytes
<1>3. packet \in DOMAIN Variants
  BY PacketsAreVaried
<1> QED
  BY <1>1, <1>2, <1>3, DataCrcAgrees DEF Rest

\* What is still to come when n bytes of p have been read: one more is shown if there is one.
OnBus(p, n) ==
  LET m == IF utmi.valid THEN n + 1 ELSE n
  IN  /\ m <= Len(p) /\ host.packet = p /\ host.left = SubSeq(p, m + 1, Len(p))
      /\ utmi.valid => utmi.data = p[m]
      /\ ~utmi.active => n = Len(p) /\ ~utmi.valid
Idle == tok_state = "IDLE" /\ hd_state = "IDLE" /\ rx_state = "IDLE"
Fresh(p) == utmi.active /\ ~utmi.valid /\ OnBus(p, 0) /\ Idle /\ collected = << >>
Reading(p, n) == OnBus(p, n) /\ TokenReader(p, n) /\ HandshakeReader(p, n) /\ DataReader(p, n)

Tracked == since = 0 => \E p \in Arriving : Fresh(p) \/ \E n \in 0 .. Len(p) : Reading(p, n)

LEMMA OnBusStep ==
  ASSUME NEW p \in Seq(Bytes), NEW n \in 0 .. Len(p), OnBus(p, n), BusType, utmi.active, HostClock
  PROVE  \E m \in 0 .. Len(p) : m = (IF utmi.valid THEN n + 1 ELSE n) /\ OnBus(p, m)'
<1> DEFINE l == Len(p)
<1>0. PICK m \in 0 .. l : m = IF utmi.valid THEN n + 1 ELSE n
  BY DEF OnBus
<1>1. l \in Nat /\ host.packet = p /\ host.left = SubSeq(p, m + 1, l)
  BY <1>0 DEF OnBus
<1> SUFFICES OnBus(p, m)'
  BY <1>0
<1>2. host \in [packet : Seq(Bytes), left : Seq(Bytes), stalls : Nat] /\ utmi \in [active : BOOLEAN, valid : BOOLEAN, data : Bytes]
  BY DEF BusType
<1>3. CASE ShowsByte
  <2>1. m + 1 <= l
    <3>1. CASE m + 1 > l
      BY <1>1, <1>3, <3>1, SubSeqEmpty DEF ShowsByte
    <3> QED
      BY <1>1, <3>1
  <2>2. Head(host.left) = p[m + 1] /\ Tail(host.left) = SubSeq(p, (m + 1) + 1, l)
    <3>1. m + 1 \in 1 .. l /\ l \in (m + 1) .. l
      BY <1>1, <2>1
    <3> HIDE DEF l
    <3> QED
      BY <1>1, <3>1, HeadTailOfSubSeq DEF l
  <2>3. utmi'.active /\ utmi'.valid /\ utmi'.data = p[m + 1] /\ host'.left = SubSeq(p, (m + 1) + 1, l) /\ host'.packet = p
    BY <1>1, <1>2, <1>3, <2>2 DEF ShowsByte
  <2> QED
    BY <1>1, <2>1, <2>3 DEF OnBus
<1>4. CASE Pauses
  <2>1. utmi'.active /\ ~utmi'.valid /\ host'.left = host.left /\ host'.packet = host.packet
    BY <1>2, <1>4 DEF Pauses
  <2>2. host'.packet = p /\ host'.left = SubSeq(p, m + 1, l)
    BY <1>1, <2>1
  <2>3. m <= l
    BY <1>0, <1>1
  <2> QED
    BY <2>1, <2>2, <2>3 DEF OnBus
<1>5. CASE Ends
  <2>1. ~utmi'.active /\ ~utmi'.valid /\ host' = host /\ host.left = << >>
    BY <1>5 DEF Ends
  <2>2. m = l
    <3>1. CASE m < l
      <4>1. m + 1 \in 1 .. l
        BY <1>1, <3>1
      <4>2. Len(SubSeq(p, m + 1, l)) = l - (m + 1) + 1
        BY <1>1, <4>1
      <4>3. Len(<< >>) = 0
        OBVIOUS
      <4>4. l - (m + 1) + 1 # 0
        BY <1>1, <3>1
      <4> QED
        BY <1>1, <2>1, <4>2, <4>3, <4>4
    <3> QED
      BY <1>1, <3>1
  <2> QED
    BY <1>1, <2>1, <2>2 DEF OnBus
<1>6. ~Starts /\ ~Waits
  BY DEF Starts, Waits, MaySend
<1> QED
  BY <1>3, <1>4, <1>5, <1>6, HostCases

\* A clock of the readers, while a packet comes in.
LEMMA ReadersClock ==
  ASSUME TimedInv, since = 0, NEW issue, NEW tx_ready, Clock(issue, tx_ready), utmi.active \/ ~utmi'.active
  PROVE  D!Clock(utmi, address) /\ H!DetectorClock(utmi) /\ Receives(utmi)
<1>1. crc' = IF rx_state = "READ_PID" THEN C!initial_value
             ELSE IF utmi.valid THEN C!generate_next_crc(crc, utmi.data) ELSE crc
  BY RegisterServesReception
<1>2. collected' = IF R!stream_next(RxInput) THEN Append(collected, R!stream_payload) ELSE collected
  BY DEF Clock, HostClock
<1> QED
  BY <1>1, <1>2 DEF Clock, DeviceClock, Receives

\* While nothing comes in the readers are idle, and report nothing more.
LEMMA IdleReaders ==
  ASSUME TimedInv, Idle \/ (~utmi.active /\ since # 0), NEW issue, NEW tx_ready, Clock(issue, tx_ready)
  PROVE  /\ Reports' = {} /\ tokenizer' = D!NoStrobe
         /\ tok_state' = (IF utmi.active THEN "READ_PID" ELSE "IDLE") /\ hd_state' = (IF utmi.active THEN "READ_PID" ELSE "IDLE")
         /\ ~R!stream_next(RxInput)
         /\ Idle => rx_state' = (IF utmi.active THEN "READ_PID" ELSE "IDLE")
<1>1. tok_state = "IDLE" /\ hd_state = "IDLE" /\ rx_state \in {"IDLE", "INTERPACKET_DELAY"}
  BY DEF Idle, TimedInv, Timed, ReadersTimed
<1>2. D!Idle(utmi) /\ H!Detect(utmi) /\ (R!Idle(RxInput) \/ R!InterpacketDelay(tx_allowed))
  BY <1>1 DEF Clock, DeviceClock, D!Clock, D!ReadPid, D!ReadToken0, D!ReadToken1, D!TokenComplete, D!Irrelevant,
              H!DetectorClock, H!ReadPid, H!AwaitCompletion, H!Irrelevant,
              R!Clock, R!ReadPid, R!ReceiveFirstByte, R!ReceiveSecondByte, R!ReceiveAndEmit, R!Irrelevant
<1>3. tokenizer' = D!NoStrobe
  <2>1. ~D!Ends(utmi)
    BY <1>1 DEF D!Ends
  <2> QED
    BY <2>1, ReportedAtEnd DEF Clock, DeviceClock, D!Clock
<1>4. ~tokenizer'.new_token /\ ~tokenizer'.new_frame
  BY <1>3 DEF TimedInv, Types, TokenType, D!NoStrobe
<1>5. detected' = "none" /\ ~packet_complete' /\ ~crc_mismatch'
  BY <1>2 DEF H!Detect, R!Idle, R!InterpacketDelay, R!NoStrobe
<1>6. Reports' = {}
  BY <1>4, <1>5 DEF Reports
<1>7. Idle => rx_state' = (IF utmi.active THEN "READ_PID" ELSE "IDLE")
  BY <1>2 DEF Idle, R!Idle, R!InterpacketDelay, RxInput
<1> QED
  BY <1>1, <1>2, <1>3, <1>6, <1>7 DEF D!Idle, H!Detect, R!stream_next, R!stream_valid

LEMMA TrackedStep ==
  ASSUME TimedInv, TimedInv', Tracked, NEW issue, NEW tx_ready, Clock(issue, tx_ready)
  PROVE  Tracked' /\ ReportedAsSent'
<1>0. /\ BusType /\ BusType' /\ HostClock /\ TokenType /\ TokenType' /\ since \in Nat
      /\ (utmi.active => since = 0) /\ (utmi'.active => since' = 0)
      /\ (~utmi.active => ~utmi.valid)
  BY DEF TimedInv, Types, TimerType, Timed, ReadersTimed, Clock
<1>t. delay \in Nat /\ delay >= 1 /\ MaxSince \in Nat /\ delay + 3 <= MaxSince
  BY DelayFits DEF TimedInv, Types
<1>1. CASE since = 0 /\ utmi.active
  <2>1. since' = 0
    BY <1>0, <1>1, SinceStep
  <2>2. PICK p \in Arriving : Fresh(p) \/ \E n \in 0 .. Len(p) : Reading(p, n)
    BY <1>1 DEF Tracked
  <2>3. p \in Seq(Bytes) /\ C!FollowsPolynomial(Rest(p)) /\ Len(p) \in Nat
    BY ArrivingFollows
  <2>4. D!Clock(utmi, address) /\ H!DetectorClock(utmi) /\ Receives(utmi)
    BY <1>1, ReadersClock
  <2>5. CASE Fresh(p)
    <3>1. 0 \in 0 .. Len(p) /\ OnBus(p, 0)
      BY <2>3, <2>5 DEF Fresh
    <3>2. OnBus(p, 0)'
      <4>1. ~utmi.valid
        BY <2>5 DEF Fresh
      <4>2. \E m \in 0 .. Len(p) : m = (IF utmi.valid THEN 0 + 1 ELSE 0) /\ OnBus(p, m)'
        BY <1>0, <1>1, <2>3, <3>1, OnBusStep
      <4> QED
        BY <4>1, <4>2
    <3>3. /\ Reports' = {} /\ tok_state' = "READ_PID" /\ hd_state' = "READ_PID" /\ rx_state' = "READ_PID"
          /\ ~R!stream_next(RxInput)
      <4>1. Idle
        BY <2>5 DEF Fresh
      <4> QED
        BY <1>1, <4>1, IdleReaders
    <3>4. collected' = << >>
      BY <2>4, <2>5, <3>3 DEF Receives, Fresh
    <3>5. Reading(p, 0)'
      BY <3>2, <3>3, <3>4 DEF Reading, TokenReader, HandshakeReader, DataReader
    <3> QED
      BY <2>1, <3>1, <3>3, <3>5 DEF Tracked, ReportedAsSent
  <2>6. CASE \E n \in 0 .. Len(p) : Reading(p, n)
    <3>1. PICK n \in 0 .. Len(p) : Reading(p, n)
      BY <2>6
    <3>2. OnBus(p, n) /\ TokenReader(p, n) /\ HandshakeReader(p, n) /\ DataReader(p, n)
      BY <3>1 DEF Reading
    <3>3. PICK m \in 0 .. Len(p) : m = (IF utmi.valid THEN n + 1 ELSE n) /\ OnBus(p, m)'
      BY <1>0, <1>1, <2>3, <3>2, OnBusStep
    <3>4. utmi.valid => n < Len(p) /\ utmi.data = p[n + 1]
      BY <2>3, <3>2, <3>3 DEF OnBus
    <3>5. tokenizer' = D!NoStrobe /\ TokenReader(p, m)'
      <4>1. /\ tokenizer' = D!NoStrobe
            /\ ~utmi.valid => TokenReader(p, n)'
            /\ utmi.valid /\ n < Len(p) /\ utmi.data = p[n + 1] => TokenReader(p, n + 1)'
        BY <1>1, <2>3, <2>4, <3>2, TokenReads
      <4>2. CASE utmi.valid
        BY <3>3, <3>4, <4>1, <4>2
      <4>3. CASE ~utmi.valid
        BY <3>3, <4>1, <4>3
      <4> QED
        BY <4>2, <4>3
    <3>6. detected' = "none" /\ HandshakeReader(p, m)'
      <4>1. /\ detected' = "none"
            /\ ~utmi.valid => HandshakeReader(p, n)'
            /\ utmi.valid /\ n < Len(p) /\ utmi.data = p[n + 1] => HandshakeReader(p, n + 1)'
        BY <1>1, <2>3, <2>4, <3>2, HandshakeReads
      <4>2. CASE utmi.valid
        BY <3>3, <3>4, <4>1, <4>2
      <4>3. CASE ~utmi.valid
        BY <3>3, <4>1, <4>3
      <4> QED
        BY <4>2, <4>3
    <3>7. ~packet_complete' /\ ~crc_mismatch' /\ DataReader(p, m)'
      <4>1. /\ ~packet_complete' /\ ~crc_mismatch'
            /\ ~utmi.valid => DataReader(p, n)'
            /\ utmi.valid /\ n < Len(p) /\ utmi.data = p[n + 1] => DataReader(p, n + 1)'
        BY <1>1, <2>3, <2>4, <3>2, DataReads
      <4>2. CASE utmi.valid
        BY <3>3, <3>4, <4>1, <4>2
      <4>3. CASE ~utmi.valid
        BY <3>3, <4>1, <4>3
      <4> QED
        BY <4>2, <4>3
    <3>8. Reading(p, m)'
      BY <3>3, <3>5, <3>6, <3>7 DEF Reading
    <3>9. Reports' = {}
      BY <1>0, <3>5, <3>6, <3>7 DEF Reports, TokenType, D!NoStrobe
    <3> QED
      BY <2>1, <3>3, <3>8, <3>9 DEF Tracked, ReportedAsSent
  <2> QED
    BY <2>2, <2>5, <2>6
<1>2. CASE since = 0 /\ ~utmi.active
  <2>1. Waits
    <3>1. ~MaySend
      BY <1>2, <1>t, PacketAssumption DEF MaySend, delay
    <3> QED
      BY <1>0, <1>2, <3>1, HostCases DEF ShowsByte, Pauses, Ends, Starts
  <2>2. utmi' = utmi /\ host'.packet = host.packet
    BY <1>0, <1>2, <2>1 DEF Waits, BusType
  <2>3. since' = 1
    <3>1. ~tx_valid /\ ~(since > MaxSince)
      BY <1>2, <1>t DEF TimedInv, Timed, ReadersTimed
    <3> QED
      BY <1>0, <1>2, <2>2, <3>1, SinceStep
  <2>4. PICK p \in Arriving : Fresh(p) \/ \E n \in 0 .. Len(p) : Reading(p, n)
    BY <1>2 DEF Tracked
  <2>5. p \in Seq(Bytes)
    BY ArrivingFollows
  <2>6. Reading(p, Len(p)) /\ host.packet = p
    BY <1>2, <2>4 DEF Fresh, Reading, OnBus
  <2>7. D!Clock(utmi, address) /\ H!DetectorClock(utmi) /\ Receives(utmi)
    BY <1>2, <2>2, ReadersClock
  <2>8. Reports' = Meaning(p)
    BY <1>0, <1>2, <2>5, <2>6, <2>7, PacketReported DEF Reading
  <2> QED
    BY <1>2, <2>2, <2>3, <2>6, <2>8 DEF Tracked, ReportedAsSent
<1>3. CASE since # 0
  <2>1. ~utmi.active
    BY <1>0, <1>3
  <2>2. Reports' = {} /\ tok_state' = "IDLE" /\ hd_state' = "IDLE" /\ (Idle => rx_state' = "IDLE")
    BY <1>3, <2>1, IdleReaders
  <2>3. CASE ~utmi'.active
    <3>1. since' # 0 /\ since' # 1
      <4>1. tx_valid => since > 1
        BY <1>0, <1>t DEF TimedInv, Timed, ReadersTimed
      <4>2. since' = since \/ since' = since + 1
        BY <1>0, <2>1, <2>3, SinceStep
      <4>3. since' = since => since > 1
        BY <1>0, <1>t, <2>1, <2>3, <4>1, SinceStep
      <4> QED
        BY <1>0, <1>3, <4>2, <4>3
    <3> QED
      BY <2>2, <3>1 DEF Tracked, ReportedAsSent
  <2>4. CASE utmi'.active
    <3>1. MaySend
      BY <1>0, <2>1, <2>4, SinceStep
    <3>2. Starts
      BY <1>0, <2>1, <2>4, HostCases DEF ShowsByte, Pauses, Ends, Waits
    <3>3. PICK packet \in Packets, intact \in BOOLEAN, p \in Seq(Bytes) :
            /\ p \in IF intact THEN {packet} ELSE Damaged(packet)
            /\ host' = [packet |-> p, left |-> p, stalls |-> 0]
      BY <3>2, StartCases DEF TimedInv, Types
    <3>4. utmi' = [utmi EXCEPT !.active = TRUE]
      BY <3>2, StartCases DEF TimedInv, Types
    <3>5. p \in Arriving
      BY <3>3, PacketsAreVaried DEF Arriving
    <3>6. Idle
      <4>1. since >= delay + 3
        <5>1. since >= delay + Slack
          BY <3>1 DEF MaySend, delay
        <5>2. Slack \in Nat /\ Slack >= 3
          BY PacketAssumption
        <5> QED
          BY <1>0, <1>t, <5>1, <5>2
      <4>2. rx_state # "INTERPACKET_DELAY"
        <5> SUFFICES ASSUME rx_state = "INTERPACKET_DELAY" PROVE FALSE
          OBVIOUS
        <5>1. counter <= delay /\ since \in counter + 1 .. counter + 2
          BY <3>1 DEF MaySend, TimedInv, Timed, DataTimed
        <5>2. counter \in Nat
          BY DEF TimedInv, Types, TimerType
        <5> QED
          BY <1>t, <4>1, <5>1, <5>2
      <4> QED
        BY <1>3, <2>1, <4>2 DEF Idle, TimedInv, Timed, ReadersTimed
    <3>7. collected' = << >>
      BY <1>0, <2>1, <2>4 DEF HostClock
    <3>8. OnBus(p, 0)'
      <4>1. ~utmi'.valid
        BY <1>0, <2>1, <3>4 DEF BusType
      <4>2. SubSeq(p, 1, Len(p)) = p /\ 0 + 1 = 1 /\ 0 <= Len(p)
        BY SubSeqFull
      <4>3. host'.packet = p /\ host'.left = p
        BY <3>3
      <4> QED
        BY <2>4, <4>1, <4>2, <4>3 DEF OnBus
    <3>9. Fresh(p)'
      <4>1. ~utmi'.valid
        BY <1>0, <2>1, <3>4 DEF BusType
      <4> QED
        BY <2>2, <2>4, <3>6, <3>7, <3>8, <4>1 DEF Fresh, Idle
    <3> QED
      BY <2>2, <2>4, <3>5, <3>9 DEF Tracked, ReportedAsSent
  <2> QED
    BY <2>3, <2>4
<1> QED
  BY <1>1, <1>2, <1>3

LEMMA TrackedInit ==
  ASSUME Init
  PROVE  Tracked /\ ReportedAsSent
<1>1. since # 0 /\ since # 1
  <2>1. MaxSince \in Nat /\ MaxSince >= 3
    BY PacketAssumption DEF Init, MaxSince, latest, RxToTx
  <2> QED
    BY <2>1 DEF Init
<1>2. Reports = {}
  BY DEF Init, D!Init, H!DetectorInit, R!Init, Reports
<1> QED
  BY <1>1, <1>2 DEF Tracked, ReportedAsSent

LEMMA TrackedStutter ==
  ASSUME Tracked, ReportedAsSent, UNCHANGED vars
  PROVE  Tracked' /\ ReportedAsSent'
<1>1. UNCHANGED <<tok_state, token_data, current_pid, tokenizer, hd_state, hd_pid, detected, rx_state, active_pid, data_pipeline,
                  packet_complete, crc_mismatch, last_byte_crc, last_word_crc, crc, utmi, host, since, collected>>
  BY DEF vars, tokVars, hdVars, rxVars, hostVars
<1>2. ASSUME NEW p, NEW n PROVE OnBus(p, n) => OnBus(p, n)'
  BY <1>1 DEF OnBus
<1>3. ASSUME NEW p PROVE Fresh(p) => Fresh(p)'
  BY <1>1, <1>2 DEF Fresh, Idle
<1>4. ASSUME NEW p, NEW n, Reading(p, n) PROVE Reading(p, n)'
  <2>1. TokenReader(p, n)'
    BY <1>1, <1>4 DEF Reading, TokenReader
  <2>2. HandshakeReader(p, n)'
    BY <1>1, <1>4 DEF Reading, HandshakeReader
  <2>3. DataReader(p, n)'
    BY <1>1, <1>4 DEF Reading, DataReader
  <2> QED
    BY <1>2, <1>4, <2>1, <2>2, <2>3 DEF Reading
<1>5. Tracked'
  BY <1>1, <1>3, <1>4 DEF Tracked
<1>6. ReportedAsSent'
  BY <1>1 DEF ReportedAsSent, Reports
<1> QED
  BY <1>5, <1>6

BusInv == TimedInv /\ Tracked /\ ReportedAsSent

LEMMA BusStep ==
  ASSUME BusInv, Next
  PROVE  \E issue \in Issues, tx_ready \in BOOLEAN : Clock(issue, tx_ready) /\ BusInv'
<1>1. PICK issue \in Issues, tx_ready \in BOOLEAN : (tx_ready => tx_valid) /\ Clock(issue, tx_ready)
  BY NextIsClock
<1>2. TimedInv'
  BY <1>1, TimedStep DEF BusInv
<1>3. Tracked' /\ ReportedAsSent'
  BY <1>1, <1>2, TrackedStep DEF BusInv
<1> QED
  BY <1>1, <1>2, <1>3 DEF BusInv

LEMMA BusAlways == Spec => []BusInv
<1>1. Init => BusInv
  BY TimedInit, TrackedInit DEF BusInv
<1>2. BusInv /\ [Next]_vars => BusInv'
  BY BusStep, TimedStutter, TrackedStutter DEF BusInv
<1> QED
  BY <1>1, <1>2, PTL DEF Spec

\* Every packet on the bus, whole or cut off, too long or with a wrong bit, is reported once, in
\* the clock after its end, by one of the three readers and as what it is, or by none.
THEOREM AlwaysReported == Spec => []ReportedAsSent
<1>1. BusInv => ReportedAsSent
  BY DEF BusInv
<1> QED
  BY <1>1, BusAlways, PTL

---------------------------------------------------------------------------
(* What damage can make of a packet: its PID stays or shows *)

LEMMA PidOfByte ==
  ASSUME NEW pid \in Word(4)
  PROVE  D!Pid(PidByte(pid)) = pid /\ D!PidIntact(PidByte(pid))
         /\ \A k \in 1 .. 4 : PidByte(pid)[k] = pid[k] /\ PidByte(pid)[4 + k] = 1 - pid[k]
<1> DEFINE byte == PidByte(pid)
           high == SubSeq(byte, 5, 8)
<1>1. C!Not(pid) \in Word(4) /\ \A k \in 1 .. 4 : C!Not(pid)[k] = 1 - pid[k]
  BY NotWord
<1>2. byte \in Word(4 + 4) /\ (\A k \in 1 .. 4 : byte[k] = pid[k]) /\ \A k \in 1 .. 4 : byte[4 + k] = C!Not(pid)[k]
  <2>1. 4 \in Nat
    OBVIOUS
  <2> QED
    BY <1>1, <2>1, JoinedWords, Zenon DEF PidByte
<1>3. byte \in Word(8)
  <2>1. 4 + 4 = 8
    OBVIOUS
  <2> QED
    BY <1>2, <2>1
<1> HIDE DEF byte
<1>4. D!Pid(byte) \in Word(4) /\ \A k \in 1 .. 4 : D!Pid(byte)[k] = byte[k]
  BY <1>3, PartOfWord DEF D!Pid
<1>5. high \in Word(4) /\ \A k \in 1 .. 4 : high[k] = byte[4 + k]
  BY <1>3, PartOfWord
<1>6. D!Pid(byte) = pid
  BY <1>2, <1>4, SameWords
<1>7. D!Not(high) = pid
  <2>1. D!Not(high) = C!Not(high)
    BY DEF D!Not, C!Not
  <2>2. C!Not(high) \in Word(4) /\ \A k \in 1 .. 4 : C!Not(high)[k] = 1 - high[k]
    BY <1>5, NotWord
  <2>3. ASSUME NEW k \in 1 .. 4 PROVE C!Not(high)[k] = pid[k]
    <3>1. pid[k] \in {0, 1}
      BY DEF Word, C!Words
    <3> QED
      BY <1>1, <1>2, <1>5, <2>2, <3>1
  <2> QED
    BY <2>1, <2>2, <2>3, SameWords
<1>8. D!PidIntact(byte)
  BY <1>6, <1>7 DEF D!PidIntact
<1> QED
  BY <1>1, <1>2, <1>6, <1>8 DEF byte

\* A PID with a wrong bit shows that it has one.
LEMMA WrongPidShows ==
  ASSUME NEW pid \in Word(4), NEW j \in 1 .. 8
  PROVE  ~D!PidIntact([PidByte(pid) EXCEPT ![j] = 1 - @])
<1> DEFINE byte == PidByte(pid)
           wrong == [byte EXCEPT ![j] = 1 - @]
           high == SubSeq(wrong, 5, 8)
<1>1. byte \in Word(8) /\ \A k \in 1 .. 4 : byte[k] = pid[k] /\ byte[4 + k] = 1 - pid[k]
  BY PidOfByte, PidByteIsByte DEF Bytes
<1>p. \A k \in 1 .. 4 : pid[k] \in {0, 1}
  BY DEF Word, C!Words
<1> HIDE DEF byte
<1>2. /\ wrong \in Word(8) /\ wrong[j] = 1 - byte[j] /\ \A k \in 1 .. 8 : k # j => wrong[k] = byte[k]
  BY <1>1 DEF Word, C!Words
<1> HIDE DEF wrong
<1>3. D!Pid(wrong) \in Word(4) /\ \A k \in 1 .. 4 : D!Pid(wrong)[k] = wrong[k]
  BY <1>2, PartOfWord DEF D!Pid
<1>4. high \in Word(4) /\ \A k \in 1 .. 4 : high[k] = wrong[4 + k]
  BY <1>2, PartOfWord
<1> HIDE DEF high
<1>5. C!Not(high) \in Word(4) /\ \A k \in 1 .. 4 : C!Not(high)[k] = 1 - high[k]
  BY <1>4, NotWord
<1>6. \E k \in 1 .. 4 : D!Pid(wrong)[k] # C!Not(high)[k]
  <2>1. CASE j <= 4
    <3>1. j \in 1 .. 4 /\ 4 + j # j /\ 4 + j \in 1 .. 8
      BY <2>1
    <3>2. D!Pid(wrong)[j] = 1 - pid[j] /\ C!Not(high)[j] = 1 - (1 - pid[j])
      BY <1>1, <1>2, <1>3, <1>4, <1>5, <3>1
    <3> QED
      BY <1>p, <3>1, <3>2
  <2>2. CASE j > 4
    <3> DEFINE k == j - 4
    <3>1. k \in 1 .. 4 /\ 4 + k = j /\ k # j /\ k \in 1 .. 8
      BY <2>2
    <3> HIDE DEF k
    <3>2. D!Pid(wrong)[k] = pid[k] /\ C!Not(high)[k] = 1 - (1 - (1 - pid[k]))
      BY <1>1, <1>2, <1>3, <1>4, <1>5, <3>1
    <3> QED
      BY <1>p, <3>1, <3>2
  <2> QED
    BY <2>1, <2>2
<1>7. D!Not(high) = C!Not(high)
  BY DEF D!Not, C!Not
<1> QED
  BY <1>6, <1>7 DEF D!PidIntact, high, wrong, byte

\* The ways a packet can be damaged.
LEMMA DamageCases ==
  ASSUME NEW packet \in Seq(Bytes), Len(packet) >= 1, NEW p \in Damaged(packet)
  PROVE  \/ p = << >>
         \/ p \in Seq(Bytes) /\ Len(p) # Len(packet) /\ p[1] = packet[1] /\ Len(p) >= 1
         \/ \E i \in 1 .. Len(packet), j \in 1 .. 8 : p = [packet EXCEPT ![i] = [packet[i] EXCEPT ![j] = 1 - @]]
<1> DEFINE l == Len(packet)
<1>l. l \in Nat /\ l >= 1
  OBVIOUS
<1>1. CASE p \in {SubSeq(packet, 1, n) : n \in {0, 1, Len(packet) - 1} \ {Len(packet)}}
  <2>1. PICK n \in {0, 1, l - 1} \ {l} : p = SubSeq(packet, 1, n)
    BY <1>1
  <2> HIDE DEF l
  <2>2. n \in 0 .. l - 1
    BY <1>l, <2>1
  <2>3. CASE n = 0
    BY <2>1, <2>3, SubSeqEmpty
  <2>4. CASE n # 0
    <3>1. n \in 1 .. l - 1 /\ l = Len(packet)
      BY <1>l, <2>2, <2>4 DEF l
    <3>2. p \in Seq(Bytes) /\ Len(p) = n /\ p[1] = packet[1]
      BY <2>1, <3>1
    <3> QED
      BY <1>l, <3>1, <3>2
  <2> QED
    BY <2>3, <2>4
<1>2. CASE p = Append(packet, C!Byte(0))
  <2>1. C!Byte(0) \in Bytes
    BY BitsAreWord DEF Bytes, C!Byte
  <2>2. p \in Seq(Bytes) /\ Len(p) = l + 1 /\ p[1] = packet[1]
    BY <1>l, <1>2, <2>1, AppendProperties
  <2> HIDE DEF l
  <2>3. l + 1 # l /\ l + 1 >= 1
    BY <1>l
  <2> QED
    BY <2>2, <2>3 DEF l
<1>3. CASE \E k \in 0 .. 8 * Len(packet) - 1 : p = [packet EXCEPT ![(k \div 8) + 1][(k % 8) + 1] = 1 - @]
  <2>1. PICK k \in 0 .. 8 * Len(packet) - 1 : p = [packet EXCEPT ![(k \div 8) + 1][(k % 8) + 1] = 1 - @]
    BY <1>3
  <2> DEFINE i == (k \div 8) + 1
             j == (k % 8) + 1
  <2>2. i \in 1 .. Len(packet) /\ j \in 1 .. 8
    OBVIOUS
  <2> HIDE DEF i, j
  <2>3. p = [packet EXCEPT ![i] = [packet[i] EXCEPT ![j] = 1 - @]]
    BY <2>1 DEF i, j
  <2> QED
    BY <2>2, <2>3
<1> QED
  BY <1>1, <1>2, <1>3 DEF Damaged

LEMMA DamagedPid ==
  ASSUME NEW packet \in Seq(Bytes), Len(packet) >= 1, NEW pid \in Word(4), packet[1] = PidByte(pid),
         NEW p \in {packet} \cup Damaged(packet)
  PROVE  p = << >> \/ ~D!PidIntact(p[1]) \/ (D!PidIntact(p[1]) /\ D!Pid(p[1]) = pid)
<1>1. ASSUME p # << >>, p[1] = packet[1] PROVE D!PidIntact(p[1]) /\ D!Pid(p[1]) = pid
  BY <1>1, PidOfByte
<1>2. CASE p = packet
  BY <1>1, <1>2
<1>3. CASE \E i \in 1 .. Len(packet), j \in 1 .. 8 : p = [packet EXCEPT ![i] = [packet[i] EXCEPT ![j] = 1 - @]]
  <2>1. PICK i \in 1 .. Len(packet), j \in 1 .. 8 : p = [packet EXCEPT ![i] = [packet[i] EXCEPT ![j] = 1 - @]]
    BY <1>3
  <2>2. CASE i = 1
    <3>1. p[1] = [packet[1] EXCEPT ![j] = 1 - @]
      BY <2>1, <2>2
    <3>2. p[1] = [PidByte(pid) EXCEPT ![j] = 1 - @]
      BY <3>1
    <3>3. ~D!PidIntact([PidByte(pid) EXCEPT ![j] = 1 - @])
      BY WrongPidShows
    <3> QED
      BY <3>2, <3>3
  <2>3. CASE i # 1
    <3>1. p[1] = packet[1]
      BY <2>1, <2>3
    <3> QED
      BY <1>1, <3>1
  <2> QED
    BY <2>2, <2>3
<1> QED
  BY <1>1, <1>2, <1>3, DamageCases

---------------------------------------------------------------------------
(* The bus in four phases: a packet starts, comes in, has ended, is long over *)

\* What the token detector makes of a packet once it has ended.
TokenRead(p) ==
  IF p = << >> \/ ~IsToken(p[1]) \/ ~TokenIsWhole(p) THEN tokenizer' = D!NoStrobe
  ELSE IF D!Pid(p[1]) = D!SOF_PID
       THEN tokenizer' = [D!NoStrobe EXCEPT !.frame = TokenWord(p), !.new_frame = TRUE]
  ELSE IF SubSeq(TokenWord(p), 1, 7) = address
       THEN tokenizer' = [D!NoStrobe EXCEPT !.pid = D!Pid(p[1]), !.new_token = TRUE,
                                            !.address = SubSeq(TokenWord(p), 1, 7),
                                            !.endpoint = SubSeq(TokenWord(p), 8, 11)]
  ELSE tokenizer' = D!Foreign

Unsent == UNCHANGED <<sof, sent, bus_token>>
PacketStarts == since # 0 /\ Starts /\ since' = 0 /\ tokenizer' = D!NoStrobe
PacketComesIn == since = 0 /\ since' = 0 /\ host'.packet = host.packet /\ tokenizer' = D!NoStrobe /\ Unsent
PacketIsOver == since = 0 /\ since' = 1 /\ host'.packet = host.packet /\ TokenRead(host.packet) /\ Unsent
NoPacket == since # 0 /\ since' \notin {0, 1} /\ tokenizer' = D!NoStrobe /\ Unsent

LEMMA Phases ==
  ASSUME BusInv, BusInv', NEW issue, NEW tx_ready, Clock(issue, tx_ready)
  PROVE  PacketStarts \/ PacketComesIn \/ PacketIsOver \/ NoPacket
<1>0. /\ BusType /\ BusType' /\ HostClock /\ since \in Nat
      /\ (utmi.active => since = 0) /\ (utmi'.active => since' = 0)
      /\ TimedInv /\ Tracked
  BY DEF BusInv, TimedInv, Types, TimerType, Timed, ReadersTimed, Clock
<1>t. delay \in Nat /\ delay >= 1 /\ MaxSince \in Nat /\ delay + 3 <= MaxSince
  BY <1>0, DelayFits DEF TimedInv, Types
<1>1. CASE since = 0 /\ utmi.active
  <2>1. since' = 0
    BY <1>0, <1>1, SinceStep
  <2>2. ~Starts /\ ~Waits
    BY <1>1 DEF Starts, MaySend, Waits
  <2>3. host'.packet = host.packet /\ Unsent
    BY <1>0, <2>2, HostCases DEF ShowsByte, Pauses, Ends, Unsent, BusType
  <2>4. PICK p \in Arriving : Fresh(p) \/ \E n \in 0 .. Len(p) : Reading(p, n)
    BY <1>0, <1>1 DEF Tracked
  <2>5. CASE Fresh(p)
    <3>1. Idle
      BY <2>5 DEF Fresh
    <3>2. tokenizer' = D!NoStrobe
      BY <1>0, <3>1, IdleReaders
    <3> QED
      BY <1>1, <2>1, <2>3, <3>2 DEF PacketComesIn
  <2>6. CASE \E n \in 0 .. Len(p) : Reading(p, n)
    <3>1. PICK n \in 0 .. Len(p) : Reading(p, n)
      BY <2>6
    <3>2. p \in Seq(Bytes) /\ TokenReader(p, n)
      BY <3>1, ArrivingFollows DEF Reading
    <3>3. D!Clock(utmi, address)
      BY <1>0, <1>1, ReadersClock
    <3>4. tokenizer' = D!NoStrobe
      BY <1>1, <3>2, <3>3, TokenReads
    <3> QED
      BY <1>1, <2>1, <2>3, <3>4 DEF PacketComesIn
  <2> QED
    BY <2>4, <2>5, <2>6
<1>2. CASE since = 0 /\ ~utmi.active
  <2>1. Waits
    <3>1. ~MaySend
      BY <1>2, <1>t, PacketAssumption DEF MaySend, delay
    <3> QED
      BY <1>0, <1>2, <3>1, HostCases DEF ShowsByte, Pauses, Ends, Starts
  <2>2. utmi' = utmi /\ host'.packet = host.packet /\ Unsent
    BY <1>0, <1>2, <2>1 DEF Waits, BusType, Unsent
  <2>3. since' = 1
    <3>1. ~tx_valid /\ ~(since > MaxSince)
      BY <1>0, <1>2, <1>t DEF TimedInv, Timed, ReadersTimed
    <3> QED
      BY <1>0, <1>2, <2>2, <3>1, SinceStep
  <2>4. PICK p \in Arriving : Fresh(p) \/ \E n \in 0 .. Len(p) : Reading(p, n)
    BY <1>0, <1>2 DEF Tracked
  <2>5. p \in Seq(Bytes)
    BY ArrivingFollows
  <2>6. TokenReader(p, Len(p)) /\ host.packet = p
    BY <1>2, <2>4 DEF Fresh, Reading, OnBus
  <2>7. D!Clock(utmi, address)
    BY <1>0, <1>2, <2>2, ReadersClock
  <2>8. TokenRead(p)
    BY <1>2, <2>5, <2>6, <2>7, TokenEnds DEF TokenRead
  <2> QED
    BY <1>2, <2>2, <2>3, <2>6, <2>8 DEF PacketIsOver
<1>3. CASE since # 0
  <2>1. ~utmi.active
    BY <1>0, <1>3
  <2>2. tokenizer' = D!NoStrobe
    BY <1>0, <1>3, <2>1, IdleReaders
  <2>3. CASE ~utmi'.active
    <3>1. since' \notin {0, 1}
      <4>1. tx_valid => since > 1
        BY <1>0, <1>t DEF TimedInv, Timed, ReadersTimed
      <4>2. since' = since \/ since' = since + 1
        BY <1>0, <2>1, <2>3, SinceStep
      <4>3. since' = since => since > 1
        BY <1>0, <1>t, <2>1, <2>3, <4>1, SinceStep
      <4> QED
        BY <1>0, <1>3, <4>2, <4>3
    <3>2. ~Starts
      <4>1. ASSUME Starts PROVE FALSE
        <5>1. utmi' = [utmi EXCEPT !.active = TRUE]
          BY <1>0, <4>1, StartCases DEF TimedInv, Types
        <5> QED
          BY <1>0, <2>3, <5>1 DEF BusType
      <4> QED
        BY <4>1
    <3>3. Unsent
      BY <1>0, <3>2, HostCases DEF ShowsByte, Pauses, Ends, Waits, Unsent
    <3> QED
      BY <1>3, <2>2, <3>1, <3>3 DEF NoPacket
  <2>4. CASE utmi'.active
    <3>1. Starts
      BY <1>0, <2>1, <2>4, HostCases DEF ShowsByte, Pauses, Ends, Waits
    <3> QED
      BY <1>0, <1>3, <2>2, <2>4, <3>1 DEF PacketStarts
  <2> QED
    BY <2>3, <2>4
<1> QED
  BY <1>0, <1>1, <1>2, <1>3

---------------------------------------------------------------------------
(* Tokens for others *)

TokenFree(p) == p # << >> /\ IsToken(p[1]) => D!Pid(p[1]) = D!SOF_PID
ForeignWhole(p) ==
  /\ p # << >> /\ IsToken(p[1]) /\ TokenIsWhole(p)
  /\ D!Pid(p[1]) # D!SOF_PID /\ SubSeq(TokenWord(p), 1, 7) # address

ForeignSeen ==
  bus_token.intact /\ ~bus_token.ours =>
    \/ tokenizer.pid = D!NO_PID /\ (since = 0 => TokenFree(host.packet))
    \/ since = 0 /\ ForeignWhole(host.packet)

\* The PID a packet is made with.
LEMMA PidOfPacket ==
  /\ \A packet \in OtherPackets : \E pid \in Word(4) : packet[1] = PidByte(pid) /\ pid \notin TokenPids
  /\ \A packet \in SofPackets : packet[1] = PidByte(D!SOF_PID)
<1>1. ASSUME NEW packet \in OtherPackets
      PROVE  \E pid \in Word(4) : packet[1] = PidByte(pid) /\ pid \notin TokenPids
  <2>1. CASE packet \in {Handshake("ack"), Handshake("nyet")}
    <3>1. PICK h \in {"ack", "nyet"} : packet = Handshake(h)
      BY <2>1
    <3>2. packet[1] = PidByte(H!HandshakePids[h])
      BY <3>1, HandshakeIsBytes
    <3>3. h \in DOMAIN H!HandshakePids
      BY DEF H!HandshakePids
    <3>4. H!HandshakePids[h] \in Word(4) /\ IsHandshake(H!HandshakePids[h])
      BY <3>3, PidsAreWords DEF IsHandshake
    <3> QED
      BY <3>2, <3>4, ClassOfPid
  <2>2. CASE packet \in {Data(Len(p) % 2, p) : p \in Payloads}
    <3>1. PICK p \in Payloads : packet = Data(Len(p) % 2, p)
      BY <2>2
    <3>2. Len(p) \in Nat
      BY PayloadSum
    <3> DEFINE b == Len(p) % 2
    <3>3. b \in 0 .. 3 /\ b + 1 \in 1 .. 4
      BY <3>2
    <3> HIDE DEF b
    <3>4. packet[1] = PidByte(DataPids[b + 1])
      BY <3>1, <3>3, DataIsBytes DEF b
    <3>5. DataPids[b + 1] \in Word(4) /\ IsDataPid(DataPids[b + 1])
      BY <3>3, PidsAreWords DEF IsDataPid
    <3> QED
      BY <3>4, <3>5, ClassOfPid
  <2> QED
    BY <2>1, <2>2 DEF OtherPackets
<1>2. ASSUME NEW packet \in SofPackets PROVE packet[1] = PidByte(D!SOF_PID)
  <2>1. PICK frame \in 1 .. MaxFrame : packet = Sof(frame)
    BY DEF SofPackets
  <2>2. frame \in 0 .. MaxFrame
    BY PacketAssumption
  <2> QED
    BY <2>1, <2>2, FrameWord, PidsAreWords, TokenIsBytes DEF Sof
<1> QED
  BY <1>1, <1>2

LEMMA OthersAreTokenFree ==
  ASSUME NEW packet \in SofPackets \cup OtherPackets, NEW p \in {packet} \cup Damaged(packet)
  PROVE  TokenFree(p)
<1>1. packet \in Seq(Bytes) /\ Len(packet) >= 1
  BY SentIsBytes DEF Packets
<1>2. PICK pid \in Word(4) : packet[1] = PidByte(pid) /\ (pid \notin TokenPids \/ pid = D!SOF_PID)
  BY PidOfPacket, PidsAreWords
<1>3. p = << >> \/ ~D!PidIntact(p[1]) \/ (D!PidIntact(p[1]) /\ D!Pid(p[1]) = pid)
  BY <1>1, <1>2, DamagedPid
<1>4. p \in Seq(Bytes)
  BY <1>1, DamagedIsBytes
<1>5. CASE p # << >> /\ D!Pid(p[1]) = pid
  <2>1. p[1] \in Bytes
    BY <1>4, <1>5, EmptySeq
  <2> QED
    BY <1>2, <1>5, <2>1, ClassOfByte DEF TokenFree, IsToken
<1> QED
  BY <1>3, <1>5 DEF TokenFree, IsToken

LEMMA HalfOf ==
  ASSUME NEW n \in Nat
  PROVE  n % 2 = n - 2 * (n \div 2)
OBVIOUS

LEMMA SumOfHalves ==
  ASSUME NEW h0 \in Nat, NEW h1 \in Nat, NEW h2 \in Nat, NEW h3 \in Nat, NEW h4 \in Nat, NEW h5 \in Nat, NEW h6 \in Nat, NEW h7 \in Nat, NEW h8 \in Nat, NEW h9 \in Nat, NEW h10 \in Nat
  PROVE  (h0 - 2 * h1) + 2 * (h1 - 2 * h2) + 4 * (h2 - 2 * h3) + 8 * (h3 - 2 * h4) + 16 * (h4 - 2 * h5) + 32 * (h5 - 2 * h6) + 64 * (h6 - 2 * h7) + 128 * (h7 - 2 * h8) + 256 * (h8 - 2 * h9) + 512 * (h9 - 2 * h10) + 1024 * h10 = h0
OBVIOUS

Numbers(width) == IF width = 7 THEN 0 .. 127 ELSE 0 .. 2047

\* A number below 2048 is the sum of its bits, each with its weight.
Value(w) == w[1] + 2 * w[2] + 4 * w[3] + 8 * w[4] + 16 * w[5] + 32 * w[6] + 64 * w[7] + 128 * w[8] + 256 * w[9] + 512 * w[10] + 1024 * w[11]
LEMMA ValueOfBits ==
  ASSUME NEW n \in Numbers(11)
  PROVE  n = Value(Bits(n, 11))
<1>n. n \in 0 .. 2047
  BY DEF Numbers
<1>1. (n \div 1) % 2 = (n \div 1) - 2 * (n \div 2)
  <2>1. n \div 1 \in Nat /\ n \div 2 = (n \div 1) \div 2
    BY <1>n, SMTT(20)
  <2> QED
    BY <2>1, HalfOf
<1>2. (n \div 2) % 2 = (n \div 2) - 2 * (n \div 4)
  <2>1. n \div 2 \in Nat /\ n \div 4 = (n \div 2) \div 2
    BY <1>n, SMTT(20)
  <2> QED
    BY <2>1, HalfOf
<1>3. (n \div 4) % 2 = (n \div 4) - 2 * (n \div 8)
  <2>1. n \div 4 \in Nat /\ n \div 8 = (n \div 4) \div 2
    BY <1>n, SMTT(20)
  <2> QED
    BY <2>1, HalfOf
<1>4. (n \div 8) % 2 = (n \div 8) - 2 * (n \div 16)
  <2>1. n \div 8 \in Nat /\ n \div 16 = (n \div 8) \div 2
    BY <1>n, SMTT(20)
  <2> QED
    BY <2>1, HalfOf
<1>5. (n \div 16) % 2 = (n \div 16) - 2 * (n \div 32)
  <2>1. n \div 16 \in Nat /\ n \div 32 = (n \div 16) \div 2
    BY <1>n, SMTT(20)
  <2> QED
    BY <2>1, HalfOf
<1>6. (n \div 32) % 2 = (n \div 32) - 2 * (n \div 64)
  <2>1. n \div 32 \in Nat /\ n \div 64 = (n \div 32) \div 2
    BY <1>n, SMTT(20)
  <2> QED
    BY <2>1, HalfOf
<1>7. (n \div 64) % 2 = (n \div 64) - 2 * (n \div 128)
  <2>1. n \div 64 \in Nat /\ n \div 128 = (n \div 64) \div 2
    BY <1>n, SMTT(20)
  <2> QED
    BY <2>1, HalfOf
<1>8. (n \div 128) % 2 = (n \div 128) - 2 * (n \div 256)
  <2>1. n \div 128 \in Nat /\ n \div 256 = (n \div 128) \div 2
    BY <1>n, SMTT(20)
  <2> QED
    BY <2>1, HalfOf
<1>9. (n \div 256) % 2 = (n \div 256) - 2 * (n \div 512)
  <2>1. n \div 256 \in Nat /\ n \div 512 = (n \div 256) \div 2
    BY <1>n, SMTT(20)
  <2> QED
    BY <2>1, HalfOf
<1>10. (n \div 512) % 2 = (n \div 512) - 2 * (n \div 1024)
  <2>1. n \div 512 \in Nat /\ n \div 1024 = (n \div 512) \div 2
    BY <1>n, SMTT(20)
  <2> QED
    BY <2>1, HalfOf
<1>11. (n \div 1024) % 2 = n \div 1024
  BY <1>n, SMTT(20)
<1> DEFINE bits == Bits(n, 11)
<1>12. \A k \in 1 .. 11 : bits[k] = (n \div C!PowersOfTwo[k]) % 2
  BY DEF Bits, C!Bits
<1> HIDE DEF bits
<1> DEFINE h0 == n \div 1
           h1 == n \div 2
           h2 == n \div 4
           h3 == n \div 8
           h4 == n \div 16
           h5 == n \div 32
           h6 == n \div 64
           h7 == n \div 128
           h8 == n \div 256
           h9 == n \div 512
           h10 == n \div 1024
<1>13. h0 \in Nat /\ h1 \in Nat /\ h2 \in Nat /\ h3 \in Nat /\ h4 \in Nat /\ h5 \in Nat /\ h6 \in Nat /\ h7 \in Nat /\ h8 \in Nat /\ h9 \in Nat /\ h10 \in Nat
  BY <1>n
<1>14. h0 = n
  BY <1>n
<1>15. bits[1] = h0 - 2 * h1 /\ bits[2] = h1 - 2 * h2 /\ bits[3] = h2 - 2 * h3 /\ bits[4] = h3 - 2 * h4 /\ bits[5] = h4 - 2 * h5 /\ bits[6] = h5 - 2 * h6
      /\ bits[7] = h6 - 2 * h7 /\ bits[8] = h7 - 2 * h8 /\ bits[9] = h8 - 2 * h9 /\ bits[10] = h9 - 2 * h10 /\ bits[11] = h10
  <2>1. /\ C!PowersOfTwo[1] = 1 /\ C!PowersOfTwo[2] = 2 /\ C!PowersOfTwo[3] = 4 /\ C!PowersOfTwo[4] = 8 /\ C!PowersOfTwo[5] = 16 /\ C!PowersOfTwo[6] = 32
        /\ C!PowersOfTwo[7] = 64 /\ C!PowersOfTwo[8] = 128 /\ C!PowersOfTwo[9] = 256 /\ C!PowersOfTwo[10] = 512 /\ C!PowersOfTwo[11] = 1024
    BY DEF C!PowersOfTwo
  <2>2. 1 \in 1 .. 11 /\ 2 \in 1 .. 11 /\ 3 \in 1 .. 11 /\ 4 \in 1 .. 11 /\ 5 \in 1 .. 11 /\ 6 \in 1 .. 11 /\ 7 \in 1 .. 11 /\ 8 \in 1 .. 11 /\ 9 \in 1 .. 11 /\ 10 \in 1 .. 11 /\ 11 \in 1 .. 11
    BY <1>n
  <2>3. bits[1] = h0 - 2 * h1
    BY <1>1, <1>12, <2>1, <2>2
  <2>4. bits[2] = h1 - 2 * h2
    BY <1>2, <1>12, <2>1, <2>2
  <2>5. bits[3] = h2 - 2 * h3
    BY <1>3, <1>12, <2>1, <2>2
  <2>6. bits[4] = h3 - 2 * h4
    BY <1>4, <1>12, <2>1, <2>2
  <2>7. bits[5] = h4 - 2 * h5
    BY <1>5, <1>12, <2>1, <2>2
  <2>8. bits[6] = h5 - 2 * h6
    BY <1>6, <1>12, <2>1, <2>2
  <2>9. bits[7] = h6 - 2 * h7
    BY <1>7, <1>12, <2>1, <2>2
  <2>10. bits[8] = h7 - 2 * h8
    BY <1>8, <1>12, <2>1, <2>2
  <2>11. bits[9] = h8 - 2 * h9
    BY <1>9, <1>12, <2>1, <2>2
  <2>12. bits[10] = h9 - 2 * h10
    BY <1>10, <1>12, <2>1, <2>2
  <2>13. bits[11] = h10
    BY <1>11, <1>12, <2>1, <2>2
  <2> QED
    BY <2>3, <2>4, <2>5, <2>6, <2>7, <2>8, <2>9, <2>10, <2>11, <2>12, <2>13
<1> HIDE DEF h0, h1, h2, h3, h4, h5, h6, h7, h8, h9, h10
<1>16. Value(bits) = (h0 - 2 * h1) + 2 * (h1 - 2 * h2) + 4 * (h2 - 2 * h3) + 8 * (h3 - 2 * h4) + 16 * (h4 - 2 * h5) + 32 * (h5 - 2 * h6) + 64 * (h6 - 2 * h7) + 128 * (h7 - 2 * h8) + 256 * (h8 - 2 * h9) + 512 * (h9 - 2 * h10) + 1024 * h10
  BY <1>15 DEF Value
<1>17. Value(bits) = h0
  BY <1>13, <1>16, SumOfHalves
<1> QED
  BY <1>14, <1>17 DEF bits

\* Different numbers have different bits.
BitsDiffer(width) == \A m, n \in Numbers(width) : Bits(m, width) = Bits(n, width) => m = n
LEMMA DifferentBits == BitsDiffer(7) /\ BitsDiffer(11)
<1>1. BitsDiffer(11)
  <2>1. ASSUME NEW n \in Numbers(11) PROVE n = Value(Bits(n, 11))
    BY ValueOfBits
  <2> DEFINE w == 11
  <2>2. \A n \in Numbers(w) : n = Value(Bits(n, w))
    BY <2>1
  <2> HIDE DEF w
  <2>3. BitsDiffer(w)
    BY <2>2 DEF BitsDiffer
  <2> QED
    BY <2>3 DEF w
<1>2. BitsDiffer(7)
  <2>1. ASSUME NEW m \in Numbers(7), NEW n \in Numbers(7), Bits(m, 7) = Bits(n, 7) PROVE Bits(m, 11) = Bits(n, 11)
    <3>1. ASSUME NEW k \in 1 .. 11 PROVE Bits(m, 11)[k] = Bits(n, 11)[k]
      <4>1. CASE k <= 7
        <5>1. k \in 1 .. 7
          BY <4>1
        <5>2. Bits(m, 7)[k] = Bits(n, 7)[k]
          BY <2>1
        <5>3. Bits(m, 7)[k] = Bits(m, 11)[k] /\ Bits(n, 7)[k] = Bits(n, 11)[k]
          BY <5>1 DEF Bits, C!Bits
        <5> QED
          BY <5>2, <5>3
      <4>2. CASE k > 7
        <5>1. k = 8 \/ k = 9 \/ k = 10 \/ k = 11
          BY <4>2
        <5>2. ASSUME NEW x \in Numbers(7) PROVE Bits(x, 11)[k] = 0
          <6>1. C!PowersOfTwo[8] = 128 /\ C!PowersOfTwo[9] = 256 /\ C!PowersOfTwo[10] = 512 /\ C!PowersOfTwo[11] = 1024
            BY DEF C!PowersOfTwo
          <6>2. x \div 128 = 0 /\ x \div 256 = 0 /\ x \div 512 = 0 /\ x \div 1024 = 0
            BY DEF Numbers
          <6>3. Bits(x, 11)[k] = (x \div C!PowersOfTwo[k]) % 2
            BY DEF Bits, C!Bits
          <6>4. x \div C!PowersOfTwo[k] = 0
            BY <5>1, <6>1, <6>2
          <6> QED
            BY <6>3, <6>4
        <5>3. Bits(m, 11)[k] = 0
          BY <5>2
        <5>4. Bits(n, 11)[k] = 0
          BY <5>2
        <5> QED
          BY <5>3, <5>4
      <4> QED
        BY <4>1, <4>2
    <3>2. m \in Nat /\ n \in Nat /\ 11 \in 0 .. 11
      BY DEF Numbers
    <3>3. Bits(m, 11) \in Word(11) /\ Bits(n, 11) \in Word(11)
      BY <3>2, BitsAreWord DEF Bits
    <3> QED
      BY <3>1, <3>3, SameWords
  <2>2. \A n \in Numbers(7) : n \in Numbers(11)
    BY DEF Numbers
  <2>3. ASSUME NEW m \in Numbers(7), NEW n \in Numbers(7), Bits(m, 7) = Bits(n, 7) PROVE m = n
    <3>1. Bits(m, 11) = Bits(n, 11)
      BY <2>1, <2>3
    <3> QED
      BY <1>1, <2>2, <3>1 DEF BitsDiffer
  <2> QED
    BY <2>3 DEF BitsDiffer
<1> QED
  BY <1>1, <1>2

LEMMA ForeignIsWhole ==
  ASSUME NEW t \in Tokens, ~t.ours
  PROVE  ForeignWhole(TokenPackets[t])
<1> DEFINE w == Bits(OtherAddress, 7) \o Bits(Endpoint, 4)
           packet == Token(t.pid, w)
<1>1. t.pid \in {D!OUT_PID, D!IN_PID, D!SETUP_PID, D!PING_PID} /\ TokenPackets[t] = packet
  BY TokenOf
<1>2. t.pid \in Word(4) /\ w \in Word(11)
  BY <1>1, AddressWord, PidsAreWords
<1> HIDE DEF w
<1>3. /\ packet \in Seq(Bytes) /\ Len(packet) = 3 /\ packet[1] = PidByte(t.pid) /\ TokenWord(packet) = w
      /\ SubSeq(packet[3], 4, 8) = C!Crc5(w)
  BY <1>2, TokenIsBytes
<1>4. packet # << >> /\ packet[1] \in Bytes
  BY <1>2, <1>3, EmptySeq, PidByteIsByte
<1>5. TokenIsWhole(packet)
  BY <1>3 DEF TokenIsWhole
<1>6. D!PidIntact(packet[1]) /\ D!Pid(packet[1]) = t.pid
  BY <1>2, <1>3, PidOfByte
<1>7. t.pid # D!SOF_PID /\ t.pid \in TokenPids
  BY <1>1 DEF TokenPids, D!SOF_PID, D!OUT_PID, D!IN_PID, D!SETUP_PID, D!PING_PID
<1>8. IsToken(packet[1])
  BY <1>4, <1>6, <1>7, ClassOfByte DEF IsToken
<1>9. SubSeq(w, 1, 7) # address
  <2>1. SubSeq(w, 1, 7) = Bits(OtherAddress, 7)
    <3>1. SubSeq(w, 1, 7) \in Word(7) /\ \A k \in 1 .. 7 : SubSeq(w, 1, 7)[k] = w[k]
      BY <1>2, PartOfWord
    <3>2. \A k \in 1 .. 7 : w[k] = Bits(OtherAddress, 7)[k]
      <4>1. 7 \in Nat /\ 4 \in Nat
        OBVIOUS
      <4> QED
        BY <4>1, AddressWord, JoinedWords, Zenon DEF w
    <3>3. 7 \in Nat
      OBVIOUS
    <3> DEFINE low == SubSeq(w, 1, 7)
               other == Bits(OtherAddress, 7)
    <3>4. low \in Word(7) /\ other \in Word(7) /\ \A k \in 1 .. 7 : low[k] = other[k]
      BY <3>1, <3>2, AddressWord
    <3> HIDE DEF low, other
    <3>5. low = other
      BY <3>3, <3>4, SameWords
    <3> QED
      BY <3>5 DEF low, other
  <2>2. OwnAddress \in Numbers(7) /\ OtherAddress \in Numbers(7) /\ OwnAddress # OtherAddress
    BY PacketAssumption DEF Numbers
  <2> QED
    BY <2>1, <2>2, DifferentBits DEF address, BitsDiffer
<1> HIDE DEF packet
<1> QED
  BY <1>1, <1>3, <1>4, <1>5, <1>6, <1>7, <1>8, <1>9 DEF ForeignWhole

LEMMA ForeignSeenStep ==
  ASSUME BusInv, BusInv', ForeignSeen, NEW issue, NEW tx_ready, Clock(issue, tx_ready)
  PROVE  ForeignSeen'
<1>0. tokenizer \in [pid : Word(4), address : Word(7), endpoint : Word(4), frame : Word(11), new_token : BOOLEAN, new_frame : BOOLEAN]
  BY DEF BusInv, TimedInv, Types, TokenType
<1>1. tokenizer' = D!NoStrobe => tokenizer'.pid = tokenizer.pid
  BY <1>0 DEF D!NoStrobe
<1>2. CASE PacketStarts
  <2>1. PICK packet \in Packets, intact \in BOOLEAN :
          /\ \E arriving \in Seq(Bytes) :
               /\ arriving \in IF intact THEN {packet} ELSE Damaged(packet)
               /\ host' = [packet |-> arriving, left |-> arriving, stalls |-> 0]
          /\ \/ \E t \in Tokens : /\ packet = TokenPackets[t]
                                  /\ bus_token' = [pid |-> t.pid, ours |-> t.ours, intact |-> intact]
             \/ packet \in OtherPackets /\ UNCHANGED bus_token
             \/ packet = Sof(NextSof.frame) /\ UNCHANGED bus_token
    BY <1>2, StartCases DEF PacketStarts, BusInv, TimedInv, Types
  <2>2. PICK p \in Seq(Bytes) :
          p \in (IF intact THEN {packet} ELSE Damaged(packet)) /\ host'.packet = p
    BY <2>1
  <2>3. CASE \E t \in Tokens : packet = TokenPackets[t] /\ bus_token' = [pid |-> t.pid, ours |-> t.ours, intact |-> intact]
    <3>1. PICK t \in Tokens : packet = TokenPackets[t] /\ bus_token' = [pid |-> t.pid, ours |-> t.ours, intact |-> intact]
      BY <2>3
    <3>2. CASE intact /\ ~t.ours
      <4>1. ForeignWhole(p)
        BY <2>2, <3>1, <3>2, ForeignIsWhole
      <4>2. ForeignWhole(host.packet)'
        BY <2>2, <4>1 DEF ForeignWhole, TokenIsWhole, TokenWord, address
      <4> QED
        BY <1>2, <4>2 DEF ForeignSeen, PacketStarts
    <3> QED
      BY <3>1, <3>2 DEF ForeignSeen
  <2>4. CASE (packet \in OtherPackets \/ packet = Sof(NextSof.frame)) /\ UNCHANGED bus_token
    <3>1. packet \in SofPackets \cup OtherPackets
      <4>1. NextSof.frame \in 1 .. MaxFrame
        BY NextSofType DEF BusInv, TimedInv, Types
      <4> QED
        BY <2>4, <4>1 DEF SofPackets
    <3>2. TokenFree(p)
      BY <2>2, <3>1, OthersAreTokenFree
    <3>3. TokenFree(host'.packet)
      BY <2>2, <3>2
    <3> QED
      BY <1>1, <1>2, <2>4, <3>3 DEF ForeignSeen, PacketStarts, TokenFree
  <2> QED
    BY <2>1, <2>3, <2>4
<1>3. CASE PacketComesIn
  BY <1>1, <1>3 DEF ForeignSeen, PacketComesIn, Unsent, TokenFree, ForeignWhole, TokenIsWhole, TokenWord, address
<1>4. CASE PacketIsOver
  <2>1. ASSUME TokenFree(host.packet) PROVE tokenizer'.pid = tokenizer.pid
    BY <1>0, <1>4, <2>1 DEF PacketIsOver, TokenRead, TokenFree, D!NoStrobe
  <2>2. ASSUME ForeignWhole(host.packet) PROVE tokenizer'.pid = D!NO_PID
    BY <1>0, <1>4, <2>2 DEF PacketIsOver, TokenRead, ForeignWhole, D!Foreign, D!NoStrobe
  <2> QED
    BY <1>4, <2>1, <2>2 DEF ForeignSeen, PacketIsOver, Unsent
<1>5. CASE NoPacket
  BY <1>1, <1>5 DEF ForeignSeen, NoPacket, Unsent
<1> QED
  BY <1>2, <1>3, <1>4, <1>5, Phases

\* A data packet for another device is not taken for one of ours, if its token arrived whole: the
\* PID of our last token is gone by then, and nothing but a token for us brings one back.
THEOREM OthersAlwaysIgnored == Spec => []OthersDataIgnored
<1>1. Init => BusInv /\ ForeignSeen
  <2>1. ASSUME Init PROVE ForeignSeen
    <3>1. since # 0 /\ tokenizer.pid = D!NO_PID
      <4>1. MaxSince \in Nat
        BY <2>1, PacketAssumption DEF Init, MaxSince, latest, RxToTx
      <4> QED
        BY <2>1, <4>1 DEF Init, D!Init
    <3> QED
      BY <3>1 DEF ForeignSeen
  <2> QED
    BY <2>1, TimedInit, TrackedInit DEF BusInv
<1>2. BusInv /\ ForeignSeen /\ [Next]_vars => (BusInv /\ ForeignSeen)'
  <2> SUFFICES ASSUME BusInv, ForeignSeen, [Next]_vars PROVE (BusInv /\ ForeignSeen)'
    OBVIOUS
  <2>1. CASE Next
    <3>1. PICK issue \in Issues, tx_ready \in BOOLEAN : Clock(issue, tx_ready) /\ BusInv'
      BY <2>1, BusStep
    <3> QED
      BY <3>1, ForeignSeenStep
  <2>2. CASE UNCHANGED vars
    <3>1. BusInv'
      BY <2>2, TimedStutter, TrackedStutter DEF BusInv
    <3>2. UNCHANGED <<bus_token, tokenizer, since, host>>
      BY <2>2 DEF vars, tokVars, hostVars
    <3> QED
      BY <3>1, <3>2 DEF ForeignSeen, TokenFree, ForeignWhole, TokenIsWhole, TokenWord, address
  <2> QED
    BY <2>1, <2>2
<1>3. BusInv /\ ForeignSeen => OthersDataIgnored
  <2> SUFFICES ASSUME BusInv, ForeignSeen, packet_complete, bus_token.intact, ~bus_token.ours
               PROVE  tokenizer.pid = D!NO_PID
    BY DEF OthersDataIgnored
  <2>1. Reports # {}
    BY DEF Reports
  <2>2. since = 1
    BY <2>1 DEF BusInv, ReportedAsSent
  <2> QED
    BY <2>2 DEF ForeignSeen
<1> QED
  BY <1>1, <1>2, <1>3, PTL DEF Spec

---------------------------------------------------------------------------
(* Frames *)

FrameSeen(p) == p # << >> /\ IsToken(p[1]) /\ D!Pid(p[1]) = D!SOF_PID /\ TokenIsWhole(p)

LEMMA FrameIsWhole ==
  ASSUME NEW frame \in 0 .. MaxFrame
  PROVE  FrameSeen(Sof(frame)) /\ TokenWord(Sof(frame)) = Bits(frame, 11)
<1> DEFINE w == Bits(frame, 11)
           packet == Token(D!SOF_PID, w)
<1>1. D!SOF_PID \in Word(4) /\ w \in Word(11)
  BY FrameWord, PidsAreWords
<1> HIDE DEF w
<1>2. /\ packet \in Seq(Bytes) /\ Len(packet) = 3 /\ packet[1] = PidByte(D!SOF_PID) /\ TokenWord(packet) = w
      /\ SubSeq(packet[3], 4, 8) = C!Crc5(w)
  BY <1>1, TokenIsBytes
<1>3. packet # << >> /\ packet[1] \in Bytes
  <2>1. PidByte(D!SOF_PID) \in Bytes
    BY <1>1, PidByteIsByte
  <2>2. packet[1] \in Bytes
    BY <1>2, <2>1, Zenon
  <2>3. 3 # Len(<< >>)
    OBVIOUS
  <2>4. packet # << >>
    BY <1>2, <2>3, Zenon
  <2> QED
    BY <2>2, <2>4
<1>4. TokenIsWhole(packet)
  BY <1>2 DEF TokenIsWhole
<1>5. D!PidIntact(packet[1]) /\ D!Pid(packet[1]) = D!SOF_PID
  BY <1>1, <1>2, PidOfByte
<1>6. IsToken(packet[1])
  BY <1>3, <1>5, ClassOfByte DEF IsToken, TokenPids
<1> HIDE DEF packet
<1>7. FrameSeen(packet) /\ TokenWord(packet) = w
  BY <1>2, <1>3, <1>4, <1>5, <1>6 DEF FrameSeen
<1> QED
  BY <1>7 DEF packet, w, Sof

LEMMA JoinedToken ==
  ASSUME NEW low \in Bytes, NEW high \in Bytes
  PROVE  /\ low \o SubSeq(high, 1, 3) \in Word(11)
         /\ \A k \in 1 .. 8 : (low \o SubSeq(high, 1, 3))[k] = low[k]
         /\ \A k \in 1 .. 3 : (low \o SubSeq(high, 1, 3))[8 + k] = high[k]
         /\ SubSeq(high, 4, 8) \in Word(5) /\ \A k \in 1 .. 5 : SubSeq(high, 4, 8)[k] = high[3 + k]
<1> DEFINE top == SubSeq(high, 1, 3)
           joined == low \o top
<1>1. top \in Word(3) /\ \A k \in 1 .. 3 : top[k] = high[k]
  BY PartOfWord DEF Bytes
<1>2. SubSeq(high, 4, 8) \in Word(5) /\ \A k \in 1 .. 5 : SubSeq(high, 4, 8)[k] = high[3 + k]
  BY PartOfWord DEF Bytes
<1> HIDE DEF top
<1>3. joined \in Word(8 + 3) /\ (\A k \in 1 .. 8 : joined[k] = low[k]) /\ \A k \in 1 .. 3 : joined[8 + k] = top[k]
  <2>1. 8 \in Nat /\ 3 \in Nat
    OBVIOUS
  <2> QED
    BY <1>1, <2>1, JoinedWords, Zenon DEF Bytes
<1>4. joined \in Word(11)
  <2>1. 8 + 3 = 11
    OBVIOUS
  <2> QED
    BY <1>3, <2>1
<1> QED
  BY <1>1, <1>2, <1>3, <1>4 DEF top, joined

\* A wrong bit in the last two bytes of a token shows.
LEMMA WrongTokenShows ==
  ASSUME NEW low \in Bytes, NEW high \in Bytes, NEW j \in 1 .. 8,
         SubSeq(high, 4, 8) = C!Crc5(low \o SubSeq(high, 1, 3))
  PROVE  LET lo == [low EXCEPT ![j] = 1 - @]
             hi == [high EXCEPT ![j] = 1 - @]
         IN  /\ SubSeq(high, 4, 8) # C!Crc5(lo \o SubSeq(high, 1, 3))
             /\ SubSeq(hi, 4, 8) # C!Crc5(low \o SubSeq(hi, 1, 3))
<1> DEFINE lo == [low EXCEPT ![j] = 1 - @]
           hi == [high EXCEPT ![j] = 1 - @]
           w == low \o SubSeq(high, 1, 3)
           v == lo \o SubSeq(high, 1, 3)
           u == low \o SubSeq(hi, 1, 3)
           sum == SubSeq(high, 4, 8)
           tail == SubSeq(hi, 4, 8)
<1>1. /\ lo \in Bytes /\ lo[j] = 1 - low[j] /\ \A k \in 1 .. 8 : k # j => lo[k] = low[k]
      /\ hi \in Bytes /\ hi[j] = 1 - high[j] /\ \A k \in 1 .. 8 : k # j => hi[k] = high[k]
  BY DEF Bytes, Word, C!Words
<1> HIDE DEF lo, hi
<1>2. /\ w \in Word(11) /\ (\A k \in 1 .. 8 : w[k] = low[k]) /\ (\A k \in 1 .. 3 : w[8 + k] = high[k])
      /\ sum \in Word(5) /\ (\A k \in 1 .. 5 : sum[k] = high[3 + k])
  BY JoinedToken
<1>3. /\ v \in Word(11) /\ (\A k \in 1 .. 8 : v[k] = lo[k]) /\ (\A k \in 1 .. 3 : v[8 + k] = high[k])
  BY <1>1, JoinedToken
<1>4. /\ u \in Word(11) /\ (\A k \in 1 .. 8 : u[k] = low[k]) /\ (\A k \in 1 .. 3 : u[8 + k] = hi[k])
      /\ tail \in Word(5) /\ (\A k \in 1 .. 5 : tail[k] = hi[3 + k])
  BY <1>1, JoinedToken
<1>5. sum = C!Crc5(w)
  OBVIOUS
<1> HIDE DEF w, v, u, sum, tail
<1>6. \A k \in 1 .. 11 : C!Crc5([w EXCEPT ![k] = 1 - @]) # C!Crc5(w)
  BY <1>2, WrongBitShows DEF Word
<1>7. \A k \in 1 .. 11 : k \in 1 .. 8 \/ \E i \in 1 .. 3 : k = 8 + i
  <2>1. ASSUME NEW k \in 1 .. 11, k \notin 1 .. 8 PROVE \E i \in 1 .. 3 : k = 8 + i
    <3>1. k - 8 \in 1 .. 3 /\ k = 8 + (k - 8)
      BY <2>1
    <3> QED
      BY <3>1
  <2> QED
    BY <2>1
<1>8. \A k \in 1 .. 11 : [w EXCEPT ![k] = 1 - @] \in Word(11)
  BY <1>2 DEF Word, C!Words
<1>9. DOMAIN w = 1 .. 11
  BY <1>2 DEF Word, C!Words
<1>w. 11 \in Nat /\ 5 \in Nat
  OBVIOUS
<1>10. sum # C!Crc5(v)
  <2>1. j \in 1 .. 11
    OBVIOUS
  <2> DEFINE wrong == [w EXCEPT ![j] = 1 - @]
  <2>2. ASSUME NEW k \in 1 .. 11 PROVE v[k] = wrong[k]
    <3>1. wrong[k] = IF k = j THEN 1 - w[j] ELSE w[k]
      BY <1>9, <2>1
    <3>2. CASE k \in 1 .. 8
      BY <1>1, <1>2, <1>3, <3>1, <3>2
    <3>3. CASE \E i \in 1 .. 3 : k = 8 + i
      <4>1. PICK i \in 1 .. 3 : k = 8 + i
        BY <3>3
      <4>2. k # j
        BY <4>1
      <4> QED
        BY <1>2, <1>3, <3>1, <4>1, <4>2
    <3> QED
      BY <1>7, <3>2, <3>3
  <2>3. wrong \in Word(11)
    BY <1>8, <2>1
  <2>4. C!Crc5(wrong) # C!Crc5(w)
    BY <1>6, <2>1
  <2> HIDE DEF wrong
  <2>5. v = wrong
    BY <1>w, <1>3, <2>2, <2>3, SameWords
  <2> QED
    BY <1>5, <2>4, <2>5
<1>11. tail # C!Crc5(u)
  <2>1. CASE j <= 3
    <3> DEFINE i == 8 + j
    <3>1. i \in 1 .. 11 /\ j \in 1 .. 3 /\ i \notin 1 .. 8 /\ i = 8 + j
      BY <2>1
    <3> HIDE DEF i
    <3> DEFINE wrong == [w EXCEPT ![i] = 1 - @]
    <3>2. ASSUME NEW k \in 1 .. 11 PROVE u[k] = wrong[k]
      <4>1. wrong[k] = IF k = i THEN 1 - w[i] ELSE w[k]
        BY <1>9, <3>1
      <4>2. CASE k \in 1 .. 8
        BY <1>2, <1>4, <3>1, <4>1, <4>2
      <4>3. CASE \E n \in 1 .. 3 : k = 8 + n
        <5>1. PICK n \in 1 .. 3 : k = 8 + n
          BY <4>3
        <5>2. u[k] = hi[n] /\ w[k] = high[n]
          BY <1>2, <1>4, <5>1
        <5>3. k = i <=> n = j
          BY <3>1, <5>1
        <5>4. hi[n] = IF n = j THEN 1 - high[j] ELSE high[n]
          BY <1>1
        <5> QED
          BY <3>1, <4>1, <5>1, <5>2, <5>3, <5>4
      <4> QED
        BY <1>7, <4>2, <4>3
    <3>3. wrong \in Word(11)
      BY <1>8, <3>1
    <3>4. C!Crc5(wrong) # C!Crc5(w)
      BY <1>6, <3>1
    <3> HIDE DEF wrong
    <3>5. u = wrong
      BY <1>w, <1>4, <3>2, <3>3, SameWords
    <3>6. tail = sum
      <4>1. ASSUME NEW k \in 1 .. 5 PROVE tail[k] = sum[k]
        <5>1. 3 + k \in 1 .. 8 /\ 3 + k # j
          BY <2>1
        <5> QED
          BY <1>1, <1>2, <1>4, <5>1
      <4> QED
        BY <1>w, <1>2, <1>4, <4>1, SameWords
    <3> QED
      BY <1>5, <3>4, <3>5, <3>6
  <2>2. CASE j > 3
    <3>1. u = w
      <4>1. ASSUME NEW k \in 1 .. 11 PROVE u[k] = w[k]
        <5>1. CASE k \in 1 .. 8
          BY <1>2, <1>4, <5>1
        <5>2. CASE \E n \in 1 .. 3 : k = 8 + n
          <6>1. PICK n \in 1 .. 3 : k = 8 + n
            BY <5>2
          <6>2. n # j /\ n \in 1 .. 8
            BY <2>2
          <6> QED
            BY <1>1, <1>2, <1>4, <6>1, <6>2
        <5> QED
          BY <1>7, <5>1, <5>2
      <4> QED
        BY <1>w, <1>2, <1>4, <4>1, SameWords
    <3> DEFINE k == j - 3
    <3>2. k \in 1 .. 5 /\ 3 + k = j
      BY <2>2
    <3> HIDE DEF k
    <3>3. tail[k] = 1 - high[j] /\ sum[k] = high[j] /\ high[j] \in {0, 1}
      BY <1>1, <1>2, <1>4, <3>2 DEF Bytes, Word, C!Words
    <3>4. tail # sum
      BY <3>3
    <3> QED
      BY <1>5, <3>1, <3>4
  <2> QED
    BY <2>1, <2>2
<1> QED
  BY <1>10, <1>11 DEF lo, hi, v, u, sum, tail

\* Nothing but a whole frame packet is read as one.
LEMMA OnlyWholeFrames ==
  ASSUME NEW packet \in Packets, NEW p \in {packet} \cup Damaged(packet), FrameSeen(p)
  PROVE  p = packet /\ packet \in SofPackets
<1>1. packet \in Seq(Bytes) /\ Len(packet) >= 1
  BY SentIsBytes
<1>2. /\ packet \in SofPackets => packet[1] = PidByte(D!SOF_PID)
      /\ packet \notin SofPackets => \E pid \in Word(4) : packet[1] = PidByte(pid) /\ pid # D!SOF_PID
  <2>1. CASE packet \in SofPackets
    BY <2>1, PidOfPacket
  <2>2. CASE packet \in OtherPackets
    BY <2>2, PidOfPacket DEF TokenPids
  <2>3. CASE packet \in {TokenPackets[t] : t \in Tokens}
    <3>1. PICK t \in Tokens : packet = TokenPackets[t]
      BY <2>3
    <3>2. t.pid \in {D!OUT_PID, D!IN_PID, D!SETUP_PID, D!PING_PID} /\ t.pid \in Word(4)
      BY TokenOf, PidsAreWords
    <3>3. PICK word \in Word(11) : packet = Token(t.pid, word)
      BY <3>1, TokenOf
    <3>4. packet[1] = PidByte(t.pid)
      BY <3>2, <3>3, TokenIsBytes
    <3>5. t.pid # D!SOF_PID
      BY <3>2 DEF D!SOF_PID, D!OUT_PID, D!IN_PID, D!SETUP_PID, D!PING_PID
    <3>6. packet \in SofPackets => packet[1] = PidByte(D!SOF_PID)
      BY PidOfPacket
    <3> QED
      BY <3>2, <3>4, <3>5, <3>6
  <2> QED
    BY <2>1, <2>2, <2>3 DEF Packets
<1>3. packet \in SofPackets
  <2> SUFFICES ASSUME packet \notin SofPackets PROVE FALSE
    OBVIOUS
  <2>1. PICK pid \in Word(4) : packet[1] = PidByte(pid) /\ pid # D!SOF_PID
    BY <1>2
  <2>2. p = << >> \/ ~D!PidIntact(p[1]) \/ D!Pid(p[1]) = pid
    BY <1>1, <2>1, DamagedPid
  <2> QED
    BY <2>1, <2>2 DEF FrameSeen, IsToken
<1>4. PICK frame \in 1 .. MaxFrame : packet = Sof(frame)
  BY <1>3 DEF SofPackets
<1> DEFINE w == Bits(frame, 11)
<1>5. w \in Word(11) /\ packet = Token(D!SOF_PID, w) /\ D!SOF_PID \in Word(4)
  <2>1. frame \in 0 .. MaxFrame
    BY PacketAssumption
  <2> QED
    BY <1>4, <2>1, FrameWord, PidsAreWords DEF Sof
<1> HIDE DEF w
<1>6. Len(packet) = 3 /\ packet[1] = PidByte(D!SOF_PID) /\ TokenWord(packet) = w /\ SubSeq(packet[3], 4, 8) = C!Crc5(w)
  BY <1>5, TokenIsBytes
<1>7. SubSeq(packet[3], 4, 8) = C!Crc5(packet[2] \o SubSeq(packet[3], 1, 3)) /\ packet[2] \in Bytes /\ packet[3] \in Bytes
  <2>1. ASSUME NEW k \in {2, 3} PROVE packet[k] \in Bytes
    <3> DEFINE n == Len(packet)
    <3>1. k \in 1 .. n
      BY <1>6
    <3> HIDE DEF n
    <3> QED
      BY <1>1, <3>1 DEF n
  <2> QED
    BY <1>6, <2>1 DEF TokenWord
<1>8. ASSUME p # packet PROVE FALSE
  <2>1. Len(p) = 3 /\ p # << >> /\ D!PidIntact(p[1]) /\ C!Crc5(p[2] \o SubSeq(p[3], 1, 3)) = SubSeq(p[3], 4, 8)
    BY DEF FrameSeen, TokenIsWhole, TokenWord, IsToken
  <2>2. PICK i \in 1 .. Len(packet), j \in 1 .. 8 : p = [packet EXCEPT ![i] = [packet[i] EXCEPT ![j] = 1 - @]]
    <3>1. p \in Damaged(packet) /\ Len(p) = Len(packet)
      BY <1>6, <1>8, <2>1
    <3>2. \/ p = << >>
          \/ p \in Seq(Bytes) /\ Len(p) # Len(packet) /\ p[1] = packet[1] /\ Len(p) >= 1
          \/ \E i \in 1 .. Len(packet), j \in 1 .. 8 : p = [packet EXCEPT ![i] = [packet[i] EXCEPT ![j] = 1 - @]]
      BY <1>1, <3>1, DamageCases
    <3> QED
      BY <2>1, <3>1, <3>2
  <2>3. i = 1 \/ i = 2 \/ i = 3
    BY <1>6
  <2>4. /\ p[i] = [packet[i] EXCEPT ![j] = 1 - @]
        /\ \A k \in 1 .. 3 : k # i => p[k] = packet[k]
    <3>1. DOMAIN packet = 1 .. 3
      BY <1>1, <1>6
    <3> QED
      BY <2>2, <2>3, <3>1
  <2>5. CASE i = 1
    <3>1. p[1] = [PidByte(D!SOF_PID) EXCEPT ![j] = 1 - @]
      BY <1>6, <2>4, <2>5
    <3>2. ~D!PidIntact([PidByte(D!SOF_PID) EXCEPT ![j] = 1 - @])
      BY <1>5, WrongPidShows
    <3> QED
      BY <2>1, <3>1, <3>2
  <2>6. CASE i = 2
    <3>1. p[2] = [packet[2] EXCEPT ![j] = 1 - @] /\ p[3] = packet[3]
      BY <2>4, <2>6
    <3>2. SubSeq(packet[3], 4, 8) # C!Crc5([packet[2] EXCEPT ![j] = 1 - @] \o SubSeq(packet[3], 1, 3))
      BY <1>7, WrongTokenShows
    <3> QED
      BY <2>1, <3>1, <3>2
  <2>7. CASE i = 3
    <3>1. p[3] = [packet[3] EXCEPT ![j] = 1 - @] /\ p[2] = packet[2]
      BY <2>4, <2>7
    <3> DEFINE hi == [packet[3] EXCEPT ![j] = 1 - @]
    <3>2. SubSeq(hi, 4, 8) # C!Crc5(packet[2] \o SubSeq(hi, 1, 3))
      BY <1>7, WrongTokenShows
    <3> QED
      BY <2>1, <3>1, <3>2
  <2> QED
    BY <2>3, <2>5, <2>6, <2>7
<1> QED
  BY <1>3, <1>8

\* The frame packet on the bus has not reached the frame number yet.
Announced == since \in {0, 1} /\ FrameSeen(host.packet)

\* How many frames the host is ahead.
Behind(f, g) == IF f >= g THEN f - g ELSE f - g + MaxFrame

\* What the host's frame has to do with g, the one of the device.
HostFrame(g) ==
  IF Announced
  THEN /\ host.packet = Sof(sof.frame) /\ sof.frame >= 1
       /\ ~sof.lost => \/ sof.micro = 0 /\ g # sof.frame
                       \/ sof.micro > 0 /\ g = sof.frame /\ microframe_number = sof.micro - 1
  ELSE /\ sof.frame = 0 => g = 0
       /\ g # 0 => Behind(sof.frame, g) <= sent.damaged
       /\ sof.frame > 0 /\ ~sof.lost => g = sof.frame /\ microframe_number = sof.micro

Told ==
  /\ tokenizer.new_frame => since = 1 /\ FrameSeen(host.packet) /\ tokenizer.frame = TokenWord(host.packet)
  /\ since = 1 /\ FrameSeen(host.packet) => tokenizer.new_frame

FrameInv == Told /\ \E g \in 0 .. MaxFrame : frame_number = Bits(g, 11) /\ HostFrame(g)

LEMMA FramesDiffer ==
  ASSUME NEW f \in 0 .. MaxFrame, NEW g \in 0 .. MaxFrame, f # g
  PROVE  Bits(f, 11) # Bits(g, 11)
<1>1. f \in Numbers(11) /\ g \in Numbers(11)
  BY PacketAssumption DEF Numbers
<1> QED
  BY <1>1, DifferentBits DEF BitsDiffer

\* The host's next frame is one ahead, and counts from 1 again after the last.
LEMMA NextSofCases ==
  ASSUME SofType
  PROVE  /\ NextSof \in [frame : 1 .. MaxFrame, micro : 0 .. 8, lost : BOOLEAN] /\ NextSof.micro < MicroFrames
         /\ \/ sof.frame > 0 /\ NextSof.frame = sof.frame /\ NextSof.micro = sof.micro + 1 /\ NextSof.lost = sof.lost
            \/ /\ NextSof.micro = 0 /\ ~NextSof.lost
               /\ NextSof.frame = IF sof.frame = MaxFrame THEN 1 ELSE sof.frame + 1
<1> DEFINE limit == IF speed = "hs60" THEN MicroFrames ELSE 1
<1>1. /\ MaxFrame \in Nat /\ MaxFrame > 1 /\ MicroFrames \in 1 .. 8 /\ limit <= MicroFrames /\ limit \in Nat
      /\ sof.frame \in 0 .. MaxFrame /\ sof.micro \in 0 .. 8
      /\ sof \in [frame : 0 .. MaxFrame, micro : 0 .. 8, lost : BOOLEAN]
  BY PacketAssumption DEF SofType
<1>2. NextSof = IF sof.micro + 1 < limit THEN [sof EXCEPT !.micro = @ + 1]
                ELSE [frame |-> (sof.frame % MaxFrame) + 1, micro |-> 0, lost |-> FALSE]
  BY DEF NextSof
<1> HIDE DEF limit
<1>3. CASE sof.micro + 1 < limit
  <2>1. sof.frame > 0
    BY <1>1, <1>3 DEF SofType
  <2>2. NextSof.frame = sof.frame /\ NextSof.micro = sof.micro + 1 /\ NextSof.lost = sof.lost
    BY <1>1, <1>2, <1>3
  <2> QED
    BY <2>1, <2>2, NextSofType
<1>4. CASE ~(sof.micro + 1 < limit)
  <2>1. NextSof.frame = (sof.frame % MaxFrame) + 1 /\ NextSof.micro = 0 /\ ~NextSof.lost
    BY <1>2, <1>4
  <2>2. (sof.frame % MaxFrame) + 1 = IF sof.frame = MaxFrame THEN 1 ELSE sof.frame + 1
    <3>1. ASSUME NEW f \in Nat, NEW m \in Nat, m > 1, f <= m PROVE f % m = IF f = m THEN 0 ELSE f
      <4>1. CASE f = m
        BY <3>1, <4>1
      <4>2. CASE f < m
        BY <3>1, <4>2
      <4> QED
        BY <3>1, <4>1, <4>2
    <3> DEFINE f == sof.frame
    <3>2. f \in Nat /\ f <= MaxFrame
      BY <1>1
    <3> HIDE DEF f
    <3>3. f % MaxFrame = IF f = MaxFrame THEN 0 ELSE f
      BY <1>1, <3>1, <3>2
    <3>4. (f % MaxFrame) + 1 = IF f = MaxFrame THEN 1 ELSE f + 1
      BY <3>2, <3>3
    <3> QED
      BY <3>4 DEF f
  <2> QED
    BY <2>1, <2>2, NextSofType
<1> QED
  BY <1>3, <1>4

\* In the clock of the frame's report the frame number and the microframe follow.
LEMMA FrameClocks ==
  ASSUME NEW issue, NEW tx_ready, Clock(issue, tx_ready)
  PROVE  /\ tokenizer.new_frame => frame_number' = tokenizer.frame /\ microframe_number' = NextMicroframe
         /\ ~tokenizer.new_frame => UNCHANGED <<frame_number, microframe_number>>
BY DEF Clock, DeviceClock, FrameClock

LEMMA ToldStep ==
  ASSUME BusInv, BusInv', Told, NEW issue, NEW tx_ready, Clock(issue, tx_ready)
  PROVE  Told'
<1>0. tokenizer \in [pid : Word(4), address : Word(7), endpoint : Word(4), frame : Word(11), new_token : BOOLEAN, new_frame : BOOLEAN]
  BY DEF BusInv, TimedInv, Types, TokenType
<1>1. tokenizer' = D!NoStrobe => ~tokenizer'.new_frame
  BY <1>0 DEF D!NoStrobe
<1>2. CASE PacketStarts \/ PacketComesIn \/ NoPacket
  <2>1. since' # 1 /\ ~tokenizer'.new_frame
    BY <1>1, <1>2 DEF PacketStarts, PacketComesIn, NoPacket
  <2> QED
    BY <2>1 DEF Told
<1>3. CASE PacketIsOver
  <2> DEFINE p == host.packet
  <2>1. since' = 1 /\ host'.packet = p /\ TokenRead(p)
    BY <1>3 DEF PacketIsOver
  <2>2. CASE FrameSeen(p)
    <3>1. tokenizer'.new_frame /\ tokenizer'.frame = TokenWord(p)
      BY <1>0, <2>1, <2>2 DEF FrameSeen, TokenRead, D!NoStrobe
    <3>2. FrameSeen(host'.packet) /\ tokenizer'.frame = TokenWord(host'.packet)
      BY <2>1, <2>2, <3>1
    <3> QED
      BY <2>1, <3>1, <3>2 DEF Told, FrameSeen, TokenIsWhole, TokenWord
  <2>3. CASE ~FrameSeen(p)
    <3>1. ~tokenizer'.new_frame
      BY <1>0, <2>1, <2>3 DEF FrameSeen, TokenRead, D!NoStrobe, D!Foreign
    <3>2. ~FrameSeen(host'.packet)
      BY <2>1, <2>3
    <3> QED
      BY <3>1, <3>2 DEF Told, FrameSeen, TokenIsWhole, TokenWord
  <2> QED
    BY <2>2, <2>3
<1> QED
  BY <1>2, <1>3, Phases

LEMMA OthersAreNoFrames ==
  ASSUME NEW packet \in OtherPackets \cup {TokenPackets[t] : t \in Tokens}
  PROVE  packet \notin SofPackets
<1>1. PICK pid \in Word(4) : packet[1] = PidByte(pid) /\ pid # D!SOF_PID
  <2>1. CASE packet \in OtherPackets
    BY <2>1, PidOfPacket DEF TokenPids
  <2>2. CASE packet \in {TokenPackets[t] : t \in Tokens}
    <3>1. PICK t \in Tokens : packet = TokenPackets[t]
      BY <2>2
    <3>2. t.pid \in {D!OUT_PID, D!IN_PID, D!SETUP_PID, D!PING_PID} /\ t.pid \in Word(4)
      BY TokenOf, PidsAreWords
    <3>3. PICK word \in Word(11) : packet = Token(t.pid, word)
      BY <3>1, TokenOf
    <3>4. packet[1] = PidByte(t.pid)
      BY <3>2, <3>3, TokenIsBytes
    <3>5. t.pid # D!SOF_PID
      BY <3>2 DEF D!SOF_PID, D!OUT_PID, D!IN_PID, D!SETUP_PID, D!PING_PID
    <3> QED
      BY <3>2, <3>4, <3>5
  <2> QED
    BY <2>1, <2>2
<1>2. packet \in SofPackets => packet[1] = PidByte(D!SOF_PID)
  BY PidOfPacket
<1>3. D!Pid(PidByte(pid)) = pid /\ D!Pid(PidByte(D!SOF_PID)) = D!SOF_PID
  BY PidsAreWords, PidOfByte
<1> QED
  BY <1>1, <1>2, <1>3

\* A frame ahead of the host is more frames ahead of the device than the host has damaged.
LEMMA OneFrameAhead ==
  ASSUME NEW f \in 1 .. MaxFrame, NEW g \in 1 .. MaxFrame, NEW h,
         h = IF f = MaxFrame THEN 1 ELSE f + 1
  PROVE  /\ Behind(f, g) \in Nat /\ Behind(h, g) \in Nat /\ Behind(h, g) <= Behind(f, g) + 1
         /\ g = h => Behind(f, g) = MaxFrame - 1
<1>1. MaxFrame \in Nat /\ MaxFrame > 1
  BY PacketAssumption
<1> QED
  BY <1>1 DEF Behind

LEMMA FrameInvStep ==
  ASSUME BusInv, BusInv', FrameInv, NEW issue, NEW tx_ready, Clock(issue, tx_ready)
  PROVE  FrameInv'
<1>0. Told /\ Told'
  BY ToldStep DEF FrameInv
<1>1. PICK g \in 0 .. MaxFrame : frame_number = Bits(g, 11) /\ HostFrame(g)
  BY DEF FrameInv
<1>2. /\ SofType /\ SentType /\ sent.damaged \in Nat /\ MaxFrame \in Nat /\ sof.frame \in 0 .. MaxFrame
      /\ sof.micro \in 0 .. 8 /\ sof.lost \in BOOLEAN /\ sent.damaged <= MaxDamaged /\ MaxDamaged + 1 < MaxFrame
      /\ MaxDamaged \in Nat /\ MicroFrames \in 1 .. 8
      /\ sof \in [frame : 0 .. MaxFrame, micro : 0 .. 8, lost : BOOLEAN]
  BY PacketAssumption DEF BusInv, TimedInv, Types, SofType, SentType
<1>3. ASSUME NEW h \in 0 .. MaxFrame, frame_number' = Bits(h, 11), HostFrame(h)' PROVE FrameInv'
  BY <1>0, <1>3 DEF FrameInv, Bits
<1>s. ASSUME ~tokenizer.new_frame PROVE frame_number' = Bits(g, 11) /\ microframe_number' = microframe_number
  BY <1>1, <1>s, FrameClocks
<1>4. CASE PacketComesIn \/ PacketIsOver
  <2>1. since = 0 /\ since' \in {0, 1} /\ host'.packet = host.packet /\ UNCHANGED <<sof, sent>>
    BY <1>4 DEF PacketComesIn, PacketIsOver, Unsent
  <2>2. ~tokenizer.new_frame
    BY <1>0, <2>1 DEF Told
  <2>3. frame_number' = Bits(g, 11) /\ microframe_number' = microframe_number
    BY <1>s, <2>2
  <2>4. Announced' = Announced
    BY <2>1 DEF Announced, FrameSeen, TokenIsWhole, TokenWord
  <2>5. HostFrame(g)'
    BY <1>1, <2>1, <2>3, <2>4 DEF HostFrame, Sof, Behind
  <2> QED
    BY <1>3, <2>3, <2>5
<1>5. CASE NoPacket
  <2>1. since # 0 /\ since' \notin {0, 1} /\ UNCHANGED <<sof, sent>>
    BY <1>5 DEF NoPacket, Unsent
  <2>2. ~Announced'
    BY <2>1 DEF Announced
  <2>3. CASE tokenizer.new_frame
    <3>1. Announced /\ tokenizer.frame = TokenWord(host.packet)
      BY <1>0, <2>3 DEF Told, Announced
    <3>2. /\ host.packet = Sof(sof.frame) /\ sof.frame >= 1
          /\ ~sof.lost => \/ sof.micro = 0 /\ g # sof.frame
                          \/ sof.micro > 0 /\ g = sof.frame /\ microframe_number = sof.micro - 1
      BY <1>1, <3>1 DEF HostFrame
    <3>3. tokenizer.frame = Bits(sof.frame, 11)
      BY <1>2, <3>1, <3>2, FrameIsWhole
    <3>4. frame_number' = Bits(sof.frame, 11) /\ microframe_number' = NextMicroframe
      BY <2>3, <3>3, FrameClocks
    <3>5. ASSUME ~sof.lost PROVE microframe_number' = sof.micro
      <4>1. CASE sof.micro = 0 /\ g # sof.frame
        <5>1. new_frame
          BY <1>1, <1>2, <2>3, <3>3, <4>1, FramesDiffer DEF new_frame
        <5> QED
          BY <3>4, <4>1, <5>1 DEF NextMicroframe
      <4>2. CASE sof.micro > 0 /\ g = sof.frame /\ microframe_number = sof.micro - 1
        <5>1. ~new_frame
          BY <1>1, <3>3, <4>2 DEF new_frame
        <5>2. sof.micro \in 0 .. 7
          BY <1>2, <3>2 DEF SofType
        <5>3. ((sof.micro - 1) + 1) % 8 = sof.micro
          BY <5>2
        <5> QED
          BY <3>4, <4>2, <5>1, <5>3 DEF NextMicroframe
      <4> QED
        BY <3>2, <3>5, <4>1, <4>2
    <3>6. HostFrame(sof.frame)'
      <4>1. Behind(sof.frame, sof.frame) = 0
        BY <1>2 DEF Behind
      <4> QED
        BY <1>2, <2>1, <2>2, <3>2, <3>5, <4>1 DEF HostFrame, Behind
    <3>7. PICK h \in 0 .. MaxFrame : h = sof.frame
      BY <1>2
    <3>8. HostFrame(h)'
      BY <2>1, <3>6, <3>7 DEF HostFrame, Announced, Behind
    <3> QED
      BY <1>3, <3>4, <3>7, <3>8
  <2>4. CASE ~tokenizer.new_frame
    <3>1. ~Announced
      BY <1>0, <2>1, <2>4 DEF Announced, Told
    <3>2. frame_number' = Bits(g, 11) /\ microframe_number' = microframe_number
      BY <1>s, <2>4
    <3>3. HostFrame(g)'
      BY <1>1, <2>1, <2>2, <3>1, <3>2 DEF HostFrame, Behind
    <3> QED
      BY <1>3, <3>2, <3>3
  <2> QED
    BY <2>3, <2>4
<1>6. CASE PacketStarts
  <2>1. PICK packet \in Packets, intact \in BOOLEAN :
          /\ \E arriving \in Seq(Bytes) :
               /\ arriving \in IF intact THEN {packet} ELSE Damaged(packet)
               /\ host' = [packet |-> arriving, left |-> arriving, stalls |-> 0]
          /\ sent'.damaged = sent.damaged + (IF intact THEN 0 ELSE 1)
          /\ \/ \E t \in Tokens : packet = TokenPackets[t] /\ UNCHANGED sof
             \/ packet \in OtherPackets /\ UNCHANGED sof
             \/ packet = Sof(NextSof.frame) /\ sof' = [NextSof EXCEPT !.lost = @ \/ ~intact]
    <3>1. Starts /\ BusType /\ SentType /\ SofType
      BY <1>6 DEF PacketStarts, BusInv, TimedInv, Types
    <3>2. PICK packet \in Packets, intact \in BOOLEAN :
            /\ \E arriving \in Seq(Bytes) :
                 /\ arriving \in IF intact THEN {packet} ELSE Damaged(packet)
                 /\ host' = [packet |-> arriving, left |-> arriving, stalls |-> 0]
            /\ sent'.damaged = sent.damaged + (IF intact THEN 0 ELSE 1)
            /\ \/ \E t \in Tokens : /\ packet = TokenPackets[t]
                                    /\ bus_token' = [pid |-> t.pid, ours |-> t.ours, intact |-> intact]
                                    /\ UNCHANGED sof
               \/ packet \in OtherPackets /\ UNCHANGED <<sof, bus_token>>
               \/ /\ packet = Sof(NextSof.frame) /\ sof' = [NextSof EXCEPT !.lost = @ \/ ~intact]
                  /\ UNCHANGED bus_token
      BY <3>1, StartCases, Zenon
    <3>3. \/ \E t \in Tokens : packet = TokenPackets[t] /\ UNCHANGED sof
          \/ packet \in OtherPackets /\ UNCHANGED sof
          \/ packet = Sof(NextSof.frame) /\ sof' = [NextSof EXCEPT !.lost = @ \/ ~intact]
      BY <3>2
    <3> QED
      BY <3>2, <3>3
  <2>2. PICK p \in Seq(Bytes) : p \in (IF intact THEN {packet} ELSE Damaged(packet)) /\ host'.packet = p
    BY <2>1
  <2>3. since \notin {0, 1}
    <3>1. delay \in Nat /\ delay >= 1 /\ since \in Nat
      BY DelayFits DEF BusInv, TimedInv, Types, TimerType
    <3>2. since >= delay + Slack
      BY <1>6 DEF PacketStarts, Starts, MaySend, delay
    <3> QED
      BY <3>1, <3>2, PacketAssumption
  <2>4. ~Announced /\ ~tokenizer.new_frame
    BY <1>0, <2>3 DEF Announced, Told
  <2>5. frame_number' = Bits(g, 11) /\ microframe_number' = microframe_number
    BY <1>s, <2>4
  <2>6. Announced' <=> FrameSeen(p)
    <3>1. since' = 0
      BY <1>6 DEF PacketStarts
    <3> QED
      BY <2>2, <3>1 DEF Announced, FrameSeen, TokenIsWhole, TokenWord
  <2>7. /\ sof.frame = 0 => g = 0
        /\ g # 0 => Behind(sof.frame, g) <= sent.damaged
        /\ sof.frame > 0 /\ ~sof.lost => g = sof.frame /\ microframe_number = sof.micro
    BY <1>1, <2>4 DEF HostFrame
  <2>8. ASSUME NEW f \in 0 .. MaxFrame, g # 0, f # 0 PROVE Behind(f, g) \in Nat
    BY <1>2, <2>8 DEF Behind
  <2>9. FrameSeen(p) => p = packet /\ packet \in SofPackets
    <3>1. p \in {packet} \cup Damaged(packet)
      BY <2>2
    <3> QED
      BY <3>1, OnlyWholeFrames
  <2>10. CASE packet \in OtherPackets \cup {TokenPackets[t] : t \in Tokens} /\ UNCHANGED sof
    <3>1. ~Announced'
      BY <2>6, <2>9, <2>10, OthersAreNoFrames
    <3>2. g # 0 => Behind(sof.frame, g) <= sent'.damaged
      <4>1. g # 0 => Behind(sof.frame, g) \in Nat
        BY <1>2, <2>7, <2>8
      <4> QED
        BY <1>2, <2>1, <2>7, <4>1
    <3>3. HostFrame(g)'
      BY <2>5, <2>7, <2>10, <3>1, <3>2 DEF HostFrame, Behind
    <3> QED
      BY <1>3, <2>5, <3>3
  <2>11. CASE packet = Sof(NextSof.frame) /\ sof' = [NextSof EXCEPT !.lost = @ \/ ~intact]
    <3> DEFINE f == NextSof.frame
    <3>1. /\ sof'.frame = f /\ sof'.micro = NextSof.micro /\ sof'.lost = (NextSof.lost \/ ~intact)
          /\ f \in 1 .. MaxFrame /\ NextSof.micro \in 0 .. 8 /\ NextSof.lost \in BOOLEAN
      BY <1>2, <2>11, NextSofCases
    <3>2. \/ sof.frame > 0 /\ f = sof.frame /\ NextSof.micro = sof.micro + 1 /\ NextSof.lost = sof.lost
          \/ NextSof.micro = 0 /\ ~NextSof.lost /\ f = IF sof.frame = MaxFrame THEN 1 ELSE sof.frame + 1
      BY <1>2, NextSofCases
    <3> HIDE DEF f
    <3>3. CASE Announced'
      <4>1. host'.packet = Sof(sof'.frame) /\ sof'.frame >= 1
        BY <1>2, <2>2, <2>6, <2>9, <2>11, <3>1, <3>3 DEF f
      <4>2. ASSUME ~sof'.lost
            PROVE  \/ sof'.micro = 0 /\ g # sof'.frame
                   \/ sof'.micro > 0 /\ g = sof'.frame /\ microframe_number' = sof'.micro - 1
        <5>1. CASE sof.frame > 0 /\ f = sof.frame /\ NextSof.micro = sof.micro + 1 /\ NextSof.lost = sof.lost
          BY <1>2, <2>5, <2>7, <3>1, <4>2, <5>1
        <5>2. CASE NextSof.micro = 0 /\ ~NextSof.lost /\ f = IF sof.frame = MaxFrame THEN 1 ELSE sof.frame + 1
          <6>1. g # f
            <7>1. CASE g = 0
              BY <1>2, <3>1, <7>1
            <7>2. CASE g # 0
              <8>1. sof.frame \in 1 .. MaxFrame /\ g \in 1 .. MaxFrame
                BY <1>2, <2>7, <7>2
              <8>2. g = f => Behind(sof.frame, g) = MaxFrame - 1
                BY <5>2, <8>1, OneFrameAhead
              <8>3. Behind(sof.frame, g) <= sent.damaged
                BY <2>7, <7>2
              <8> QED
                BY <1>2, <8>2, <8>3
            <7> QED
              BY <7>1, <7>2
          <6> QED
            BY <3>1, <5>2, <6>1
        <5> QED
          BY <3>2, <5>1, <5>2
      <4>3. HostFrame(g)'
        BY <3>3, <4>1, <4>2 DEF HostFrame, Sof
      <4> QED
        BY <1>3, <2>5, <4>3
    <3>4. CASE ~Announced'
      <4>1. ~intact
        <5>1. f \in 0 .. MaxFrame
          BY <1>2, <3>1
        <5>2. FrameSeen(Sof(f))
          BY <5>1, FrameIsWhole
        <5> QED
          BY <2>2, <2>6, <2>11, <3>4, <5>2 DEF f
      <4>2. sent'.damaged = sent.damaged + 1 /\ sof'.lost /\ sof'.frame # 0
        <5>1. sent'.damaged = sent.damaged + 1
          BY <2>1, <4>1
        <5>2. sof'.lost
          BY <3>1, <4>1, Zenon
        <5>3. sof'.frame # 0
          BY <1>2, <3>1
        <5> QED
          BY <5>1, <5>2, <5>3
      <4>3. ASSUME g # 0 PROVE Behind(f, g) <= sent'.damaged
        <5>1. sof.frame \in 1 .. MaxFrame /\ g \in 1 .. MaxFrame
          BY <1>2, <2>7, <4>3
        <5>2. Behind(sof.frame, g) \in Nat /\ Behind(sof.frame, g) <= sent.damaged
          BY <1>2, <2>7, <2>8, <4>3, <5>1
        <5>3. Behind(f, g) \in Nat /\ Behind(f, g) <= Behind(sof.frame, g) + 1
          BY <3>2, <5>1, <5>2, OneFrameAhead
        <5> QED
          BY <1>2, <4>2, <5>2, <5>3
      <4>4. HostFrame(g)'
        BY <3>1, <3>4, <4>2, <4>3 DEF HostFrame, Behind
      <4> QED
        BY <1>3, <2>5, <4>4
    <3> QED
      BY <3>3, <3>4
  <2> QED
    BY <2>1, <2>10, <2>11
<1> QED
  BY <1>4, <1>5, <1>6, Phases

\* The frame number is the host's once the frame packet has been read, and so is the microframe
\* number unless one of the frame was lost.
THEOREM FramesAlwaysFollow == Spec => []FramesFollow
<1>1. Init => BusInv /\ FrameInv
  <2> SUFFICES ASSUME Init PROVE BusInv /\ FrameInv
    OBVIOUS
  <2>1. BusInv
    BY TimedInit, TrackedInit DEF BusInv
  <2>2. since \notin {0, 1} /\ ~tokenizer.new_frame /\ sof.frame = 0
    <3>1. MaxSince \in Nat /\ MaxSince >= 3
      BY PacketAssumption DEF Init, MaxSince, latest, RxToTx
    <3> QED
      BY <3>1 DEF Init, D!Init
  <2>3. Told /\ ~Announced
    BY <2>2 DEF Told, Announced
  <2>4. frame_number = Bits(0, 11) /\ 0 \in 0 .. MaxFrame
    BY PacketAssumption DEF Init
  <2>5. HostFrame(0)
    BY <2>2, <2>3 DEF HostFrame
  <2> QED
    BY <2>1, <2>3, <2>4, <2>5 DEF FrameInv
<1>2. BusInv /\ FrameInv /\ [Next]_vars => (BusInv /\ FrameInv)'
  <2> SUFFICES ASSUME BusInv, FrameInv, [Next]_vars PROVE (BusInv /\ FrameInv)'
    OBVIOUS
  <2>1. CASE Next
    <3>1. PICK issue \in Issues, tx_ready \in BOOLEAN : Clock(issue, tx_ready) /\ BusInv'
      BY <2>1, BusStep
    <3> QED
      BY <3>1, FrameInvStep
  <2>2. CASE UNCHANGED vars
    <3>1. BusInv'
      BY <2>2, TimedStutter, TrackedStutter DEF BusInv
    <3>2. UNCHANGED <<tokenizer, since, host, sof, sent, frame_number, microframe_number>>
      BY <2>2 DEF vars, tokVars, hostVars
    <3>3. Announced' = Announced
      BY <3>2 DEF Announced, FrameSeen, TokenIsWhole, TokenWord
    <3>4. Told'
      BY <3>2 DEF FrameInv, Told, FrameSeen, TokenIsWhole, TokenWord
    <3>5. PICK g \in 0 .. MaxFrame : frame_number = Bits(g, 11) /\ HostFrame(g)
      BY DEF FrameInv
    <3>6. HostFrame(g)'
      BY <3>2, <3>3, <3>5 DEF HostFrame, Sof, Behind
    <3> QED
      BY <3>1, <3>2, <3>4, <3>5, <3>6 DEF FrameInv, Bits
  <2> QED
    BY <2>1, <2>2
<1>3. BusInv /\ FrameInv => FramesFollow
  <2> SUFFICES ASSUME BusInv, FrameInv, ~utmi.active, since > 1, sof.frame > 0, ~sof.lost
               PROVE  frame_number = Bits(sof.frame, 11) /\ microframe_number = sof.micro
    BY DEF FramesFollow
  <2>1. PICK g \in 0 .. MaxFrame : frame_number = Bits(g, 11) /\ HostFrame(g)
    BY DEF FrameInv
  <2>2. ~Announced
    BY DEF Announced
  <2> QED
    BY <2>1, <2>2 DEF HostFrame
<1> QED
  BY <1>1, <1>2, <1>3, PTL DEF Spec
=================================================================================
