-------------------------------- MODULE Bytes --------------------------------
(***************************************************************************)
(* Bytes and words of the frames that the drivers exchange with the        *)
(* devices.  A word is the four bytes of a uint32_t, the highest one       *)
(* first, so that no value exceeds TLC's integers.                         *)
(***************************************************************************)
EXTENDS Integers, Sequences

Byte == 0 .. 255
Word == [1 .. 4 -> Byte]
ZeroWord == <<0, 0, 0, 0>>

\* The bit of value m of a byte, and of the XOR of two; all of them, in a table.
Bit(a, m) == (a \div m) % 2
XorBit(a, b, m) == IF Bit(a, m) = Bit(b, m) THEN 0 ELSE m
Xors == [a \in Byte |-> [b \in Byte |->
  XorBit(a, b, 1) + XorBit(a, b, 2) + XorBit(a, b, 4) + XorBit(a, b, 8)
    + XorBit(a, b, 16) + XorBit(a, b, 32) + XorBit(a, b, 64) + XorBit(a, b, 128)]]
XorOf(a, b) == Xors[a][b]

\* One shift of the CRC register of crc8_get_val (polynomial 0x07), and the eight of a round.
Shift == [c \in Byte |-> XorOf((c * 2) % 256, IF c >= 128 THEN 7 ELSE 0)]
Twice(f) == [c \in Byte |-> f[f[c]]]
Shifted == Twice(Twice(Twice(Shift)))

\* A checksum that starts at 0 and takes one byte of s after the other.
Checksum(table, s) ==
  LET c[n \in 0 .. Len(s)] == IF n = 0 THEN 0 ELSE table[c[n - 1]][s[n]]
  IN c[Len(s)]

\* The CRC-8 of a frame, and the XOR of all its bytes.
CrcTable == [c \in Byte |-> [b \in Byte |-> Shifted[XorOf(c, b)]]]
Crc8(s) == Checksum(CrcTable, s)
XorSum(s) == Checksum(Xors, s)

\* The last n bytes of a word, as the cast to a type of n bytes keeps them, and its
\* first n bytes, as a shift to the right leaves them.
Low(n, w) == [i \in 1 .. 4 |-> IF i > 4 - n THEN w[i] ELSE 0]
High(n, w) == [i \in 1 .. 4 |-> IF i > 4 - n THEN w[i - 4 + n] ELSE 0]

\* The first n bytes of a field whose value is a word of n bytes.
LeftAligned(n, w) == [i \in 1 .. 4 |-> IF i <= n THEN w[i + 4 - n] ELSE 0]

\* The little-endian bytes of a word, and back.
Reversed(w) == [i \in DOMAIN w |-> w[Len(w) + 1 - i]]

\* Addition and subtraction of words, modulo 2^32, by halves.
Upper(w) == 256 * w[1] + w[2]
Lower(w) == 256 * w[3] + w[4]
FromHalves(h, l) == <<(h \div 256) % 256, h % 256, (l \div 256) % 256, l % 256>>
Plus(a, b) == LET l == Lower(a) + Lower(b)
              IN FromHalves(Upper(a) + Upper(b) + l \div 65536, l)
Minus(a, b) == LET l == Lower(a) - Lower(b)
               IN FromHalves(Upper(a) - Upper(b) + l \div 65536, l)

\* The frames that differ from f in one byte.
OneByteOff(f, masks) == {[f EXCEPT ![i] = XorOf(@, m)] : i \in DOMAIN f, m \in masks}
=============================================================================
