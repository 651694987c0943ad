----------------------------- MODULE BitStream -----------------------------
(***************************************************************************)
(* What it means to read bits of a stream at a position: the reference for *)
(* BitPackedBuffer, in closed form.                                        *)
(*                                                                         *)
(* A byte is the set of its bits that are 1, bit 0 the lowest; a number is *)
(* the set of the exponents of its powers of two.  Positions count bits    *)
(* from 0, the low bit of a byte first.  A number takes from each byte it  *)
(* spans one run of neighbouring bits, in the order they have there; the   *)
(* runs follow each other from the high end (big endian) or from the low   *)
(* end of the number.                                                      *)
(***************************************************************************)
EXTENDS Integers, Sequences

CONSTANTS
  ByteBits,    \* bits of a byte
  BigEndian    \* _bigEndian

ASSUME BitStreamAssumption ==
  /\ ByteBits \in Nat \ {0}
  /\ BigEndian \in BOOLEAN

Byte == SUBSET (0 .. ByteBits - 1)

Least(a, b)    == IF a <= b THEN a ELSE b
Greater(a, b)  == IF a <= b THEN b ELSE a

(* The bits of a stream, and the first bit of the byte of a position.      *)
Size(stream)   == Len(stream) * ByteBits
Bit(stream, q) == (q % ByteBits) \in stream[q \div ByteBits + 1]
ByteStart(q)   == q - (q % ByteBits)
Aligned(q)     == q % ByteBits = 0
Align(q)       == ByteStart(q + ByteBits - 1)

(* Where the run of bit q of the n bits from p begins and ends.            *)
RunStart(p, q)  == Greater(p, ByteStart(q))
RunEnd(p, n, q) == Least(p + n, ByteStart(q) + ByteBits)

(* The exponent that bit q gets in the number of the n bits from p.        *)
Exponent(p, n, q) ==
  IF BigEndian
  THEN p + n - RunEnd(p, n, q) + q - RunStart(p, q)
  ELSE q - p

(* The number of the n bits from p.                                        *)
BitsAt(stream, p, n) ==
  { Exponent(p, n, q) : q \in { r \in p .. p + n - 1 : Bit(stream, r) } }

(* The natural number of a set of exponents below n, from the highest on.  *)
Natural(exponents, n) ==
  LET high[k \in 0 .. n] ==
        IF k = 0 THEN 0
        ELSE 2 * high[k - 1] + (IF n - k \in exponents THEN 1 ELSE 0)
  IN high[n]

(* The greatest number of n bits.                                          *)
Ones(n) == Natural(0 .. n - 1, n)

=============================================================================
