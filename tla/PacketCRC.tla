-------------------------------- MODULE PacketCRC --------------------------------
(***************************************************************************)
(* The checksums of src/liteusb/gateware/usb/usb2/packet.py, as the code   *)
(* computes them, a token or a byte at a time, and as the USB              *)
(* specification defines them, a bit at a time.  Words are tuples of bits, *)
(* bit 0 first: v[i + 1] is bit i.                                         *)
(***************************************************************************)
EXTENDS Integers, Sequences, FiniteSets, SequencesExt

Words(width) == [1 .. width -> {0, 1}]
PowersOfTwo == <<1, 2, 4, 8, 16, 32, 64, 128, 256, 512, 1024>>
Bits(n, width) == [k \in 1 .. width |-> (n \div PowersOfTwo[k]) % 2]
Byte(n) == Bits(n, 8)
Not(v) == [k \in DOMAIN v |-> 1 - v[k]]
XorOf(v, indices) == Cardinality({i \in indices : v[i + 1] = 1}) % 2

---------------------------------------------------------------------------
(* The code *)

generate_crc_for_token(token) ==
  LET xor_bits(indices) == XorOf(token, {10 - i : i \in indices})
  IN  <<xor_bits({10, 9, 8, 5, 4, 2}),
        1 - xor_bits({10, 9, 8, 7, 4, 3, 1}),
        xor_bits({10, 9, 8, 7, 6, 3, 2, 0}),
        xor_bits({10, 7, 6, 4, 1}),
        xor_bits({10, 9, 6, 5, 3, 0})>>

initial_value == [k \in 1 .. 16 |-> 1]

generate_next_crc(crc, data) ==
  LET both(d, c) == (XorOf(data, d) + XorOf(crc, c)) % 2
  IN  <<both(0 .. 7, 8 .. 15), both(0 .. 6, 9 .. 15), both(6 .. 7, 8 .. 9), both(5 .. 6, 9 .. 10),
        both(4 .. 5, 10 .. 11), both(3 .. 4, 11 .. 12), both(2 .. 3, 12 .. 13),
        both(1 .. 2, 13 .. 14), both(0 .. 1, {0, 14, 15}), both({0}, {1, 15}),
        crc[3], crc[4], crc[5], crc[6], crc[7], both(0 .. 7, 7 .. 15)>>

output_crc(crc) == Not(Reverse(crc))

---------------------------------------------------------------------------
(* The specification: a register that shifts left, and is sent inverted, top bit first *)

Poly5  == <<0, 0, 1, 0, 1>>                                   \* x^5 + x^2 + 1, top bit first
Poly16 == <<1, 0, 0, 0, 0, 0, 0, 0, 0, 0, 0, 0, 0, 1, 0, 1>>  \* x^16 + x^15 + x^2 + 1

Checksum(poly, bits) ==
  LET Shift(reg, bit) ==
        LET low == Append(Tail(reg), 0)
        IN  IF Head(reg) = bit THEN low ELSE [k \in DOMAIN poly |-> (low[k] + poly[k]) % 2]
  IN  Not(FoldLeft(Shift, [k \in DOMAIN poly |-> 1], bits))

Crc5(bits) == Checksum(Poly5, bits)
Crc16(bits) == Checksum(Poly16, bits)

\* Byte by byte, the code's register is where the polynomial has it over these bytes.
FollowsPolynomial(bytes) ==
  LET Sum(n) == Crc16(FlattenSeq(SubSeq(bytes, 1, n)))
      Register(n) == Reverse(Not(Sum(n)))
  IN  /\ Register(0) = initial_value
      /\ \A n \in 0 .. Len(bytes) : Sum(n) \in Words(16)
      /\ \A n \in 1 .. Len(bytes) : Register(n) = generate_next_crc(Register(n - 1), bytes[n])
=================================================================================
