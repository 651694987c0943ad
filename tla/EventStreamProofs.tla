------------------------- MODULE EventStreamProofs -------------------------
(***************************************************************************)
(* Proofs about BitPackedBuffer, for bytes and longs of any width, either  *)
(* byte order and any stream: it reads exactly.                            *)
(*                                                                         *)
(* About EventStream, for any tables that refer to types before them only: *)
(* it uses its buffer as BitPackedBuffer may be used, so that every number *)
(* it reads is exact; and it implements BlizzardStream until the two part. *)
(* Most of the module is about the recursive definitions of the latter:    *)
(* that they define what they say, and that a list of types can be read    *)
(* type by type.                                                           *)
(***************************************************************************)
EXTENDS EventStreamRefinement, SequenceTheorems, WellFoundedInduction, TLAPS

-----------------------------------------------------------------------------
(* Positions.                                                              *)

(* Division by the width of a byte.                                        *)
LEMMA Division ==
  ASSUME NEW q \in Int
  PROVE  /\ q \div ByteBits \in Int
         /\ q % ByteBits \in 0 .. ByteBits - 1
         /\ q = ByteBits * (q \div ByteBits) + (q % ByteBits)
  BY BitStreamAssumption

(* The multiples of the width of a byte are in the order of the factors.   *)
LEMMA Multiples ==
  ASSUME NEW j \in Int, NEW k \in Int, j < k
  PROVE  ByteBits * j + ByteBits <= ByteBits * k
<1>1. k - j - 1 \in Nat
  OBVIOUS
<1>2. ByteBits * (k - j - 1) >= 0
  BY <1>1, BitStreamAssumption
<1>3. ByteBits * (k - j - 1) = ByteBits * k - ByteBits * j - ByteBits
  BY BitStreamAssumption
<1> QED
  BY <1>2, <1>3, BitStreamAssumption

(* Bit i of byte k.                                                        *)
LEMMA BitOfByte ==
  ASSUME NEW k \in Int, NEW i \in 0 .. ByteBits - 1
  PROVE  /\ (k * ByteBits + i) % ByteBits = i
         /\ (k * ByteBits + i) \div ByteBits = k
<1> DEFINE q == k * ByteBits + i
           d == q \div ByteBits
           r == q % ByteBits
<1>1. ByteBits \in Nat \ {0} /\ q \in Int
  BY BitStreamAssumption
<1>2. d \in Int /\ r \in 0 .. ByteBits - 1 /\ q = ByteBits * d + r
  BY <1>1, Division
<1>3. k * ByteBits = ByteBits * k /\ ByteBits * k \in Int /\ ByteBits * d \in Int
  BY <1>1, <1>2
<1>4. ByteBits * d + r = ByteBits * k + i
  BY <1>2, <1>3
<1>5. ~ d < k
  <2> SUFFICES ASSUME d < k PROVE FALSE
    OBVIOUS
  <2>1. ByteBits * d + ByteBits <= ByteBits * k
    BY <1>2, Multiples
  <2> HIDE DEF d, r
  <2> QED
    BY <1>1, <1>2, <1>3, <1>4, <2>1
<1>6. ~ k < d
  <2> SUFFICES ASSUME k < d PROVE FALSE
    OBVIOUS
  <2>1. ByteBits * k + ByteBits <= ByteBits * d
    BY <1>2, Multiples
  <2> HIDE DEF d, r
  <2> QED
    BY <1>1, <1>2, <1>3, <1>4, <2>1
<1> HIDE DEF d, r
<1>7. d = k
  BY <1>2, <1>5, <1>6
<1>8. r = i
  BY <1>1, <1>2, <1>3, <1>4, <1>7
<1> QED
  BY <1>7, <1>8 DEF d, r

(* Where the byte of a position starts, and the byte and the bit of a      *)
(* position inside a byte that is known.                                   *)
LEMMA InByte ==
  ASSUME NEW k \in Int, NEW i \in 0 .. ByteBits - 1, NEW q \in Int,
         q = k * ByteBits + i
  PROVE  /\ ByteStart(q) = k * ByteBits
         /\ \A stream : Bit(stream, q) <=> i \in stream[k + 1]
<1>1. q % ByteBits = i /\ q \div ByteBits = k
  BY BitOfByte
<1>2. k * ByteBits \in Int
  BY BitStreamAssumption
<1>3. ByteStart(q) = k * ByteBits
  BY <1>1, <1>2 DEF ByteStart
<1>4. \A stream : Bit(stream, q) <=> i \in stream[k + 1]
  BY <1>1, Zenon DEF Bit
<1> QED
  BY <1>3, <1>4

(* A byte lies on one side of the start of another.                        *)
LEMMA AlignedApart ==
  ASSUME NEW q \in Int, NEW t \in Int, Aligned(t)
  PROVE  /\ ByteStart(q) \in Int
         /\ q < t => ByteStart(q) + ByteBits <= t
         /\ q >= t => ByteStart(q) >= t
<1> DEFINE j == q \div ByteBits
           k == t \div ByteBits
<1>1. ByteBits \in Nat \ {0}
  BY BitStreamAssumption
<1>2. /\ j \in Int /\ q % ByteBits \in 0 .. ByteBits - 1
      /\ q = ByteBits * j + (q % ByteBits)
  BY Division
<1>3. k \in Int /\ t = ByteBits * k
  <2>1. /\ k \in Int /\ t % ByteBits = 0
        /\ t = ByteBits * k + (t % ByteBits)
    BY Division DEF Aligned
  <2> HIDE DEF k
  <2> QED
    BY <1>1, <2>1
<1>4. ByteStart(q) = ByteBits * j
  BY <1>1, <1>2 DEF ByteStart
<1>5. ByteBits * j \in Int /\ ByteBits * k \in Int
  BY <1>1, <1>2, <1>3
<1> HIDE DEF j, k
<1>6. ASSUME q < t PROVE ByteBits * j + ByteBits <= ByteBits * k
  <2>1. CASE j < k
    BY <2>1, <1>2, <1>3, Multiples
  <2>2. CASE j = k
    BY <2>2, <1>1, <1>2, <1>3, <1>5, <1>6
  <2>3. CASE k < j
    <3>1. ByteBits * k + ByteBits <= ByteBits * j
      BY <2>3, <1>2, <1>3, Multiples
    <3> QED
      BY <3>1, <1>1, <1>2, <1>3, <1>5, <1>6
  <2> QED
    BY <2>1, <2>2, <2>3, <1>2, <1>3
<1>7. ASSUME q >= t PROVE ByteBits * j >= ByteBits * k
  <2>1. CASE j < k
    <3>1. ByteBits * j + ByteBits <= ByteBits * k
      BY <2>1, <1>2, <1>3, Multiples
    <3> QED
      BY <3>1, <1>1, <1>2, <1>3, <1>5, <1>7
  <2>2. CASE j = k
    BY <2>2, <1>5
  <2>3. CASE k < j
    <3>1. ByteBits * k + ByteBits <= ByteBits * j
      BY <2>3, <1>2, <1>3, Multiples
    <3> QED
      BY <3>1, <1>1, <1>5
  <2> QED
    BY <2>1, <2>2, <2>3, <1>2, <1>3
<1> QED
  BY <1>3, <1>4, <1>5, <1>6, <1>7

-----------------------------------------------------------------------------
(* The inductive invariant of a read.                                      *)

(* The number of n bits from p, as far as s bits are read.                 *)
ReadSoFar(p, n, s) ==
  { Exponent(p, n, q) : q \in { r \in p .. p + s - 1 : Bit(data, r) } }

CallType == [bits : Nat, from : Nat, result : SUBSET Int,
             resultBits : Nat, skippedBits : Nat]

(* ReadBits ends every turn but the last one at the end of a byte.         *)
CallInv ==
  call # NoCall =>
    /\ call \in CallType
    /\ call.skippedBits <= call.bits
    /\ UsedBits = call.from + call.skippedBits
    /\ 0 < call.skippedBits /\ call.skippedBits < call.bits => nextBits = 0
    /\ call.bits <= Word =>
         /\ call.resultBits = call.skippedBits
         /\ call.result = ReadSoFar(call.from, call.bits, call.skippedBits)

DataInv == data \in Seq(Byte) /\ BufferAtPosition

ReadInv == DataInv /\ CallInv

(* The buffer stands at a position from the start on.                      *)
LEMMA PositionNat ==
  ASSUME DataInv
  PROVE  UsedBits \in Nat
<1>1. ByteBits \in Nat \ {0} /\ used \in Nat /\ nextBits \in 0 .. ByteBits - 1
  BY BitStreamAssumption DEF DataInv, BufferAtPosition
<1>2. CASE nextBits = 0
  <2>1. used * ByteBits \in Nat
    BY <1>1
  <2> QED
    BY <1>2, <2>1 DEF UsedBits
<1>3. CASE nextBits # 0
  <2>1. used > 0
    BY <1>1, <1>3 DEF DataInv, BufferAtPosition
  <2>2. ByteBits * 0 + ByteBits <= ByteBits * used
    BY <1>1, <2>1, Multiples
  <2>3. ByteBits * 0 = 0 /\ ByteBits * used = used * ByteBits /\ used * ByteBits \in Int
    BY <1>1
  <2> QED
    BY <1>1, <2>2, <2>3 DEF UsedBits
<1> QED
  BY <1>2, <1>3

(* The byte that a turn of ReadBits takes from, and what is left of it:    *)
(* the bits of byte k from off on.                                         *)
LEMMA TurnByte ==
  ASSUME DataInv, ~Done
  PROVE  \E k \in Nat, off \in 0 .. ByteBits - 1 :
           /\ k < Len(data)
           /\ off = ByteBits - Available
           /\ Available \in 1 .. ByteBits
           /\ UsedBits = k * ByteBits + off
           /\ k + 1 = IF Fetches THEN used + 1 ELSE used
           /\ Fetches => off = 0
           /\ Current = { b \in 0 .. Available - 1 : b + off \in data[k + 1] }
<1>1. ByteBits \in Nat \ {0} /\ used \in 0 .. Len(data) /\ Len(data) \in Nat
      /\ nextBits \in 0 .. ByteBits - 1
  BY BitStreamAssumption DEF DataInv, BufferAtPosition
<1>2. CASE nextBits = 0
  <2>1. used < Len(data) /\ used \in Nat /\ used + 1 \in 1 .. Len(data)
    BY <1>1, <1>2 DEF Done
  <2>2. data[used + 1] \subseteq 0 .. ByteBits - 1
    BY <2>1 DEF DataInv, Byte
  <2>3. Fetches /\ Available = ByteBits /\ Current = data[used + 1]
    BY <1>2 DEF Fetches, Available, Current
  <2>4. UsedBits = used * ByteBits + 0 /\ used * ByteBits \in Int
    BY <1>1, <1>2 DEF UsedBits
  <2>5. Current = { b \in 0 .. Available - 1 : b + 0 \in data[used + 1] }
    BY <1>1, <2>2, <2>3
  <2>6. 0 = ByteBits - Available /\ Available \in 1 .. ByteBits
        /\ 0 \in 0 .. ByteBits - 1
    BY <1>1, <2>3
  <2> QED
    BY <2>1, <2>3, <2>4, <2>5, <2>6
<1>3. CASE nextBits # 0
  <2> DEFINE k   == used - 1
             off == ByteBits - nextBits
  <2>1. used > 0
        /\ next = { b \in 0 .. nextBits - 1 : b + ByteBits - nextBits \in data[used] }
    BY <1>1, <1>3 DEF DataInv, BufferAtPosition
  <2>2. ~Fetches /\ Available = nextBits /\ Current = next
    BY <1>1, <1>3 DEF Fetches, Available, Current
  <2>3. k \in Nat /\ k < Len(data) /\ k + 1 = used
    BY <1>1, <2>1
  <2>4. off \in 0 .. ByteBits - 1 /\ off = ByteBits - Available
        /\ Available \in 1 .. ByteBits
    BY <1>1, <1>3, <2>2
  <2>5. UsedBits = k * ByteBits + off
    <3>1. used * ByteBits \in Int /\ k * ByteBits = used * ByteBits - ByteBits
      BY <1>1
    <3> QED
      BY <1>1, <3>1 DEF UsedBits
  <2>6. Current = { b \in 0 .. Available - 1 : b + off \in data[k + 1] }
    <3>1. \A b \in 0 .. nextBits - 1 : b + ByteBits - nextBits = b + off
      BY <1>1
    <3> HIDE DEF off
    <3>2. next = { b \in 0 .. nextBits - 1 : b + off \in data[used] }
      BY <2>1, <3>1
    <3> QED
      BY <2>2, <2>3, <3>2
  <2> HIDE DEF k, off
  <2> QED
    BY <2>2, <2>3, <2>4, <2>5, <2>6
<1> QED
  BY <1>2, <1>3

(* A turn that takes c bits.                                               *)
LEMMA TurnLength ==
  ASSUME CallInv, call # NoCall, call.skippedBits # call.bits,
         Available \in 1 .. ByteBits,
         NEW c, c = Least(call.bits - call.skippedBits, Available)
  PROVE  /\ c \in 1 .. Available
         /\ call.skippedBits + c <= call.bits
         /\ call.skippedBits + c < call.bits => c = Available
BY BitStreamAssumption DEF CallInv, CallType, Least

(* The bits of the byte behind them are those of the buffer afterwards.    *)
LEMMA TurnRest ==
  ASSUME ReadInv, CopyBits
  PROVE  DataInv'
<1> DEFINE c == Least(call.bits - call.skippedBits, Available)
<1>1. PICK k \in Nat, off \in 0 .. ByteBits - 1 :
           /\ k < Len(data)
           /\ off = ByteBits - Available
           /\ Available \in 1 .. ByteBits
           /\ UsedBits = k * ByteBits + off
           /\ k + 1 = IF Fetches THEN used + 1 ELSE used
           /\ Current = { b \in 0 .. Available - 1 : b + off \in data[k + 1] }
  BY TurnByte DEF ReadInv, CopyBits
<1>2. c \in 1 .. Available
  BY <1>1, TurnLength DEF ReadInv, CopyBits
<1>3. /\ data' = data /\ used' = k + 1 /\ nextBits' = Available - c
      /\ next' = { b - c : b \in { x \in Current : x >= c } }
  BY <1>1 DEF CopyBits
<1>4. ByteBits \in Nat \ {0} /\ data \in Seq(Byte) /\ Len(data) \in Nat
  BY BitStreamAssumption DEF ReadInv, DataInv
<1> HIDE DEF c
<1>5. used' \in 0 .. Len(data') /\ nextBits' \in 0 .. ByteBits - 1 /\ used' > 0
  BY <1>1, <1>2, <1>3, <1>4
<1>6. next' = { b \in 0 .. nextBits' - 1 : b + ByteBits - nextBits' \in data[k + 1] }
  <2>1. \A b \in 0 .. nextBits' - 1 : b + ByteBits - nextBits' = b + c + off
    BY <1>1, <1>2, <1>3, <1>4
  <2>2. \A b \in 0 .. nextBits' - 1 : b + c \in 0 .. Available - 1
    BY <1>1, <1>2, <1>3, <1>4
  <2>3. ASSUME NEW b \in next'
        PROVE  b \in 0 .. nextBits' - 1 /\ b + c + off \in data[k + 1]
    <3>1. PICK x \in Current : x >= c /\ b = x - c
      BY <1>3
    <3>2. x \in 0 .. Available - 1 /\ x + off \in data[k + 1]
      BY <1>1, <3>1
    <3>3. b \in 0 .. nextBits' - 1 /\ b + c + off = x + off
      BY <1>1, <1>2, <1>3, <1>4, <3>1, <3>2
    <3> QED
      BY <3>2, <3>3
  <2>4. ASSUME NEW b \in 0 .. nextBits' - 1, b + c + off \in data[k + 1]
        PROVE  b \in next'
    <3>1. b + c \in Current
      BY <1>1, <2>2, <2>4
    <3>2. b + c >= c /\ (b + c) - c = b
      BY <1>1, <1>2, <1>3, <1>4
    <3> QED
      BY <1>3, <3>1, <3>2
  <2> QED
    BY <2>1, <2>3, <2>4
<1>7. used' = k + 1
  BY <1>3
<1> QED
  BY <1>3, <1>4, <1>5, <1>6, <1>7 DEF DataInv, BufferAtPosition

(* What a turn adds to the number.                                         *)
LEMMA TurnResult ==
  ASSUME ReadInv, CopyBits, call.bits <= Word
  PROVE  /\ call'.resultBits = call'.skippedBits
         /\ call'.result = ReadSoFar(call.from, call.bits, call'.skippedBits)
<1> DEFINE p == call.from
           n == call.bits
           s == call.skippedBits
           c == Least(n - s, Available)
           copy == { Shift(c) + i : i \in { b \in Current : b < c } }
<1>1. PICK k \in Nat, off \in 0 .. ByteBits - 1 :
           /\ off = ByteBits - Available
           /\ Available \in 1 .. ByteBits
           /\ UsedBits = k * ByteBits + off
           /\ Fetches => off = 0
           /\ Current = { b \in 0 .. Available - 1 : b + off \in data[k + 1] }
  BY TurnByte DEF ReadInv, CopyBits
<1>2. c \in 1 .. Available /\ s + c <= n
  BY <1>1, TurnLength DEF ReadInv, CopyBits
<1>3. /\ p \in Nat /\ n \in Nat /\ s \in Nat /\ s < n /\ call \in CallType
      /\ p + s = k * ByteBits + off
      /\ 0 < s => off = 0
      /\ call.resultBits = s /\ call.result = ReadSoFar(p, n, s)
      /\ ByteBits \in Nat \ {0} /\ Word \in Nat /\ n <= Word
  BY <1>1, BitStreamAssumption, BufferAssumption
     DEF ReadInv, CallInv, CallType, CopyBits, Fetches
<1>4. Shift(c) = IF BigEndian THEN n - s - c ELSE s
  BY <1>3 DEF Shift, Least
<1>5. call' = [call EXCEPT !.result = call.result \union copy,
                           !.resultBits = call.resultBits + c,
                           !.skippedBits = s + c]
  <2>1. call.resultBits + c <= Word
    BY <1>1, <1>2, <1>3
  <2> QED
    BY <2>1 DEF CopyBits
<1>6. call'.resultBits = s + c /\ call'.skippedBits = s + c
      /\ call'.result = ReadSoFar(p, n, s) \union copy
  BY <1>3, <1>5 DEF CallType
<1>7. c = Least(n - s, ByteBits - off)
  BY <1>1, <1>3
<1> HIDE DEF c, copy, p, n, s
<1>8. \A i \in 0 .. c - 1 :
        /\ Exponent(p, n, p + s + i) = Shift(c) + i
        /\ Bit(data, p + s + i) <=> i \in Current
  <2> SUFFICES ASSUME NEW i \in 0 .. c - 1
               PROVE  /\ Exponent(p, n, p + s + i) = Shift(c) + i
                      /\ Bit(data, p + s + i) <=> i \in Current
    OBVIOUS
  <2>1. c \in Nat
    BY <1>1, <1>2
  <2>2. i + off \in 0 .. ByteBits - 1 /\ i \in 0 .. Available - 1
        /\ p + s + i = k * ByteBits + (i + off) /\ p + s + i \in Int
        /\ k * ByteBits \in Int
    <3>1. k * ByteBits \in Int
      BY <1>3
    <3> QED
      BY <1>1, <1>2, <1>3, <3>1
  <2>3. /\ ByteStart(p + s + i) = k * ByteBits
        /\ Bit(data, p + s + i) <=> i + off \in data[k + 1]
    BY <2>2, InByte
  <2>4. RunStart(p, p + s + i) = p + s
    BY <1>1, <1>3, <2>2, <2>3 DEF RunStart, Greater
  <2>5. RunEnd(p, n, p + s + i) = p + s + c
    <3> DEFINE start == k * ByteBits
    <3>1. start \in Int /\ p + s = start + off /\ ByteStart(p + s + i) = start
      BY <1>3, <2>2, <2>3
    <3> HIDE DEF start
    <3>2. Least(p + n, start + ByteBits) = p + s + Least(n - s, ByteBits - off)
      BY <1>3, <3>1 DEF Least
    <3> QED
      BY <1>7, <3>1, <3>2 DEF RunEnd
  <2>6. /\ p + n - (p + s + c) + (p + s + i) - (p + s) = (n - s - c) + i
        /\ (p + s + i) - p = s + i
    BY <1>3, <2>1
  <2>7. Exponent(p, n, p + s + i) = Shift(c) + i
    BY <1>4, <2>4, <2>5, <2>6 DEF Exponent
  <2>8. i \in Current <=> i + off \in data[k + 1]
    BY <1>1, <2>2
  <2> QED
    BY <2>3, <2>7, <2>8
<1>9. ReadSoFar(p, n, s + c) = ReadSoFar(p, n, s) \union copy
  <2>1. copy = { Exponent(p, n, p + s + i) : i \in { j \in 0 .. c - 1 : Bit(data, p + s + j) } }
    <3>1. { b \in Current : b < c } = { j \in 0 .. c - 1 : Bit(data, p + s + j) }
      <4>1. Current \subseteq Nat
        BY <1>1
      <4> QED
        BY <1>1, <1>2, <1>8, <4>1
    <3>2. \A i \in 0 .. c - 1 : Shift(c) + i = Exponent(p, n, p + s + i)
      BY <1>8
    <3> QED
      BY <3>1, <3>2 DEF copy
  <2>2. \A q \in p .. p + (s + c) - 1 : q \notin p .. p + s - 1 =>
          \E i \in 0 .. c - 1 : q = p + s + i
    <3> SUFFICES ASSUME NEW q \in p .. p + (s + c) - 1, q \notin p .. p + s - 1
                 PROVE  q - p - s \in 0 .. c - 1 /\ q = p + s + (q - p - s)
      OBVIOUS
    <3> QED
      BY <1>1, <1>2, <1>3
  <2>3. \A i \in 0 .. c - 1 : p + s + i \in p .. p + (s + c) - 1
    BY <1>1, <1>2, <1>3
  <2>4. p .. p + s - 1 \subseteq p .. p + (s + c) - 1
    BY <1>1, <1>2, <1>3
  <2>5. ReadSoFar(p, n, s + c) \subseteq ReadSoFar(p, n, s) \union copy
    BY <2>1, <2>2 DEF ReadSoFar
  <2>6. ReadSoFar(p, n, s) \union copy \subseteq ReadSoFar(p, n, s + c)
    BY <2>1, <2>3, <2>4 DEF ReadSoFar
  <2> QED
    BY <2>5, <2>6
<1> QED
  BY <1>6, <1>9 DEF p, n, s

(* A turn of the loop keeps the inductive invariant of a read.             *)
LEMMA CopyBitsKeeps ==
  ASSUME ReadInv, CopyBits
  PROVE  /\ ReadInv'
         /\ call' \in CallType
         /\ call'.bits = call.bits /\ call'.from = call.from
<1> DEFINE c == Least(call.bits - call.skippedBits, Available)
           n == call.bits
           s == call.skippedBits
<1>1. PICK k \in Nat, off \in 0 .. ByteBits - 1 :
           /\ off = ByteBits - Available
           /\ Available \in 1 .. ByteBits
           /\ UsedBits = k * ByteBits + off
           /\ k + 1 = IF Fetches THEN used + 1 ELSE used
  BY TurnByte DEF ReadInv, CopyBits
<1>2. c \in 1 .. Available /\ s + c <= n /\ (s + c < n => c = Available)
  BY <1>1, TurnLength DEF ReadInv, CopyBits
<1>3. data' = data /\ used' = k + 1 /\ nextBits' = Available - c
  BY <1>1 DEF CopyBits
<1>4. ByteBits \in Nat \ {0} /\ call \in CallType /\ UsedBits = call.from + s
      /\ Word \in Nat /\ Available \in Int
  BY <1>1, BitStreamAssumption, BufferAssumption DEF ReadInv, CallInv, CopyBits
<1>5. /\ call' \in CallType
      /\ call'.bits = n /\ call'.from = call.from
      /\ call'.skippedBits = s + c
  <2>1. Shift(c) \in Int
    BY <1>1, <1>2, <1>4 DEF Shift, Least, CallType
  <2>2. { Shift(c) + i : i \in { b \in Current : b < c } } \subseteq Int
    <3>1. \E kk : Current = { b \in 0 .. Available - 1 : kk[b] }
      <4>1. PICK kk \in Nat, oo \in 0 .. ByteBits - 1 :
               Current = { b \in 0 .. Available - 1 : b + oo \in data[kk + 1] }
        BY TurnByte DEF ReadInv, CopyBits
      <4>2. Current = { b \in 0 .. Available - 1 :
                          [x \in 0 .. Available - 1 |-> x + oo \in data[kk + 1]][b] }
        BY <4>1
      <4> QED
        BY <4>2
    <3>2. Current \subseteq Int
      BY <1>1, <3>1
    <3> HIDE DEF c
    <3> QED
      BY <2>1, <3>2
  <2> DEFINE copy == { Shift(c) + i : i \in { b \in Current : b < c } }
             fits == call.resultBits + c <= Word
             newResult == IF fits THEN call.result \union copy ELSE call.result
             newBits   == IF fits THEN call.resultBits + c ELSE call.resultBits
  <2>3. call' = [call EXCEPT !.result = newResult, !.resultBits = newBits,
                             !.skippedBits = s + c]
    BY DEF CopyBits
  <2> HIDE DEF c
  <2>4. c \in Nat /\ copy \subseteq Int
    BY <1>1, <1>2, <2>2 DEF copy
  <2>5. newResult \in SUBSET Int /\ newBits \in Nat /\ s + c \in Nat
    <3>1. call.result \subseteq Int /\ call.resultBits \in Nat /\ s \in Nat
      BY <1>4 DEF CallType
    <3>2. CASE fits
      <4>1. newResult = call.result \union copy /\ newBits = call.resultBits + c
        BY <3>2
      <4> HIDE DEF copy, newResult, newBits, s
      <4>2. newResult \subseteq Int
        BY <2>4, <3>1, <4>1
      <4>3. newBits \in Nat /\ s + c \in Nat
        BY <2>4, <3>1, <4>1
      <4> QED
        BY <4>2, <4>3
    <3>3. CASE ~fits
      <4>1. newResult = call.result /\ newBits = call.resultBits
        BY <3>3
      <4> HIDE DEF newResult, newBits, s
      <4> QED
        BY <2>4, <3>1, <4>1
    <3> QED
      BY <3>2, <3>3
  <2> HIDE DEF newResult, newBits, s, n
  <2>6. /\ call' \in CallType
        /\ call'.bits = call.bits /\ call'.from = call.from
        /\ call'.skippedBits = s + c
    BY <1>4, <2>3, <2>5 DEF CallType
  <2> QED
    BY <2>6 DEF n
<1>6. UsedBits' = UsedBits + c
  <2>1. (k + 1) * ByteBits = k * ByteBits + ByteBits /\ k * ByteBits \in Int
    BY <1>4
  <2> HIDE DEF c
  <2> QED
    BY <1>1, <1>2, <1>3, <1>4, <2>1 DEF UsedBits
<1>7. 0 < call'.skippedBits /\ call'.skippedBits < call'.bits => nextBits' = 0
  BY <1>1, <1>2, <1>3, <1>5
<1>8. (call.bits <= Word =>
         /\ call.resultBits = call.skippedBits
         /\ call.result = ReadSoFar(call.from, call.bits, call.skippedBits))'
  <2> SUFFICES ASSUME call.bits <= Word
               PROVE  /\ call'.resultBits = call'.skippedBits
                      /\ (call.result = ReadSoFar(call.from, call.bits, call.skippedBits))'
    BY <1>5
  <2>1. /\ call'.resultBits = call'.skippedBits
        /\ call'.result = ReadSoFar(call.from, call.bits, call'.skippedBits)
    BY TurnResult
  <2> QED
    BY <1>3, <1>5, <2>1 DEF ReadSoFar
<1>9. UsedBits' = call'.from + call'.skippedBits
  <2> HIDE DEF c
  <2> QED
    BY <1>1, <1>2, <1>4, <1>5, <1>6 DEF CallType
<1>10. call'.skippedBits <= call'.bits
  BY <1>2, <1>5
<1>11. CallInv'
  <2> HIDE DEF c, n, s
  <2>1. /\ call' \in CallType
        /\ (call.skippedBits <= call.bits)'
        /\ (UsedBits = call.from + call.skippedBits)'
        /\ (0 < call.skippedBits /\ call.skippedBits < call.bits => nextBits = 0)'
    BY <1>5, <1>7, <1>9, <1>10
  <2> QED
    BY <1>8, <2>1 DEF CallInv
<1>12. DataInv'
  BY TurnRest
<1> QED
  BY <1>5, <1>11, <1>12 DEF ReadInv

-----------------------------------------------------------------------------
(* Numbers of several words.                                               *)

(* The sum of two multiples of the width of a byte is one.                 *)
LEMMA AlignedSum ==
  ASSUME NEW t \in Int, NEW w \in Int, Aligned(t), w % ByteBits = 0
  PROVE  Aligned(t + w)
<1> DEFINE j == t \div ByteBits
           k == w \div ByteBits
<1>1. /\ j \in Int /\ t % ByteBits = 0 /\ t = ByteBits * j + (t % ByteBits)
      /\ k \in Int /\ w = ByteBits * k + (w % ByteBits)
  BY Division DEF Aligned
<1> HIDE DEF j, k
<1>2. /\ j + k \in Int /\ 0 \in 0 .. ByteBits - 1
      /\ t + w = (j + k) * ByteBits + 0
  BY <1>1, BitStreamAssumption
<1> QED
  BY <1>2, BitOfByte DEF Aligned

(* Where the number of c + m bits from p may be cut after c bits: nowhere, *)
(* at the end of a byte, or anywhere if the runs come from the low end.    *)
MayCut(p, c) == c = 0 \/ ~BigEndian \/ Aligned(p + c)

(* The exponent of a bit is the same read in one piece or in two.          *)
LEMMA CutExponent ==
  ASSUME NEW p \in Nat, NEW c \in Nat, NEW m \in Nat, MayCut(p, c)
  PROVE  /\ \A q \in p .. p + c - 1 :
              /\ Exponent(p, c, q) \in Int
              /\ Exponent(p, c + m, q)
                   = IF BigEndian THEN Exponent(p, c, q) + m ELSE Exponent(p, c, q)
         /\ \A q \in p + c .. p + c + m - 1 :
              /\ Exponent(p + c, m, q) \in Int
              /\ Exponent(p, c + m, q)
                   = IF BigEndian THEN Exponent(p + c, m, q)
                                  ELSE c + Exponent(p + c, m, q)
<1>0. ByteBits \in Nat \ {0} /\ \A q \in Int : ByteStart(q) \in Int
  BY BitStreamAssumption, Division DEF ByteStart
<1>1. ASSUME NEW q \in p .. p + c - 1
      PROVE  /\ Exponent(p, c, q) \in Int
             /\ Exponent(p, c + m, q)
                  = IF BigEndian THEN Exponent(p, c, q) + m ELSE Exponent(p, c, q)
  <2>1. CASE ~BigEndian
    BY <2>1 DEF Exponent
  <2>2. CASE BigEndian
    <3>1. Aligned(p + c) /\ q \in Int /\ p + c \in Int /\ q < p + c
      BY <2>2 DEF MayCut
    <3>2. ByteStart(q) \in Int /\ ByteStart(q) + ByteBits <= p + c
      BY <3>1, AlignedApart
    <3>3. RunEnd(p, c, q) = ByteStart(q) + ByteBits
      BY <1>0, <3>2 DEF RunEnd, Least
    <3>4. RunEnd(p, c + m, q) = ByteStart(q) + ByteBits
      BY <1>0, <3>2 DEF RunEnd, Least
    <3>5. RunStart(p, q) \in Int
      BY <3>2 DEF RunStart, Greater
    <3> QED
      BY <1>0, <2>2, <3>2, <3>3, <3>4, <3>5 DEF Exponent
  <2> QED
    BY <2>1, <2>2
<1>2. ASSUME NEW q \in p + c .. p + c + m - 1
      PROVE  /\ Exponent(p + c, m, q) \in Int
             /\ Exponent(p, c + m, q)
                  = IF BigEndian THEN Exponent(p + c, m, q)
                                 ELSE c + Exponent(p + c, m, q)
  <2>1. CASE ~BigEndian
    BY <2>1 DEF Exponent
  <2>2. CASE BigEndian
    <3>1. q \in Int /\ p + c \in Int /\ q >= p + c /\ ByteStart(q) \in Int
      BY <1>0
    <3>2. RunStart(p, q) = RunStart(p + c, q) /\ RunStart(p, q) \in Int
      <4>1. CASE c = 0
        BY <3>1, <4>1 DEF RunStart, Greater
      <4>2. CASE c # 0
        <5>1. ByteStart(q) >= p + c
          BY <2>2, <3>1, <4>2, AlignedApart DEF MayCut
        <5> QED
          BY <3>1, <5>1 DEF RunStart, Greater
      <4> QED
        BY <4>1, <4>2
    <3>3. RunEnd(p, c + m, q) = RunEnd(p + c, m, q) /\ RunEnd(p + c, m, q) \in Int
      BY <1>0, <3>1 DEF RunEnd, Least
    <3> QED
      BY <2>2, <3>1, <3>2, <3>3 DEF Exponent
  <2> QED
    BY <2>1, <2>2
<1> QED
  BY <1>1, <1>2

(* Joining the two parts gives the number.                                 *)
LEMMA CutBits ==
  ASSUME NEW p \in Nat, NEW c \in Nat, NEW m \in Nat, MayCut(p, c)
  PROVE  BitsAt(data, p, c + m) =
           IF BigEndian
           THEN { e + m : e \in BitsAt(data, p, c) } \union BitsAt(data, p + c, m)
           ELSE BitsAt(data, p, c) \union { c + e : e \in BitsAt(data, p + c, m) }
<1> DEFINE Q1 == { r \in p .. p + c - 1 : Bit(data, r) }
           Q2 == { r \in p + c .. p + c + m - 1 : Bit(data, r) }
<1>1. { r \in p .. p + (c + m) - 1 : Bit(data, r) } = Q1 \union Q2
  <2>1. p .. p + (c + m) - 1 = (p .. p + c - 1) \union (p + c .. p + c + m - 1)
    OBVIOUS
  <2> QED
    BY <2>1
<1>2. BitsAt(data, p, c + m) =
        { Exponent(p, c + m, q) : q \in Q1 } \union { Exponent(p, c + m, q) : q \in Q2 }
  BY <1>1 DEF BitsAt
<1>3. BitsAt(data, p, c) = { Exponent(p, c, q) : q \in Q1 }
      /\ BitsAt(data, p + c, m) = { Exponent(p + c, m, q) : q \in Q2 }
  BY DEF BitsAt
<1>4. Q1 \subseteq p .. p + c - 1 /\ Q2 \subseteq p + c .. p + c + m - 1
  OBVIOUS
<1> HIDE DEF Q1, Q2
<1>5. CASE BigEndian
  <2>1. \A q \in Q1 : Exponent(p, c + m, q) = Exponent(p, c, q) + m
    BY <1>4, <1>5, CutExponent
  <2>2. \A q \in Q2 : Exponent(p, c + m, q) = Exponent(p + c, m, q)
    BY <1>4, <1>5, CutExponent
  <2>3. { Exponent(p, c + m, q) : q \in Q1 } = { e + m : e \in BitsAt(data, p, c) }
    BY <1>3, <2>1
  <2>4. { Exponent(p, c + m, q) : q \in Q2 } = BitsAt(data, p + c, m)
    BY <1>3, <2>2
  <2> QED
    BY <1>2, <1>5, <2>3, <2>4
<1>6. CASE ~BigEndian
  <2>1. \A q \in Q1 : Exponent(p, c + m, q) = Exponent(p, c, q)
    BY <1>4, <1>6, CutExponent
  <2>2. \A q \in Q2 : Exponent(p, c + m, q) = c + Exponent(p + c, m, q)
    BY <1>4, <1>6, CutExponent
  <2>3. { Exponent(p, c + m, q) : q \in Q1 } = BitsAt(data, p, c)
    BY <1>3, <2>1
  <2>4. { Exponent(p, c + m, q) : q \in Q2 } = { c + e : e \in BitsAt(data, p + c, m) }
    BY <1>3, <2>2
  <2> QED
    BY <1>2, <1>6, <2>3, <2>4
<1> QED
  BY <1>5, <1>6

-----------------------------------------------------------------------------
(* The inductive invariant of ReadBigInteger: it has read the words before *)
(* the one at hand, and these are the number up to there.                  *)

BigType == [bits : Nat, from : Nat, result : SUBSET Int, consumedBits : Nat]

BigInv ==
  bigCall # NoCall =>
    /\ bigCall \in BigType
    /\ call # NoCall
    /\ bigCall.consumedBits <= bigCall.bits
    /\ call.from = bigCall.from + bigCall.consumedBits
    /\ call.bits = Least(bigCall.bits - bigCall.consumedBits, Word)
    /\ bigCall.bits <= Word => bigCall.consumedBits = 0
    /\ InOrder(bigCall.from, bigCall.bits) =>
         /\ MayCut(bigCall.from, bigCall.consumedBits)
         /\ bigCall.result = BitsAt(data, bigCall.from, bigCall.consumedBits)

IInv == ReadInv /\ BigInv

(* A read of no bits has read nothing.                                     *)
LEMMA NothingRead ==
  ASSUME NEW stream, NEW p \in Nat, NEW n
  PROVE  { Exponent(p, n, q) : q \in { r \in p .. p + 0 - 1 : Bit(stream, r) } } = {}
OBVIOUS

(* The numbers that are read exactly.                                      *)
LEMMA ReadsExact ==
  ASSUME IInv
  PROVE  ReadBitsExact
<1> SUFFICES ASSUME call # NoCall
             PROVE  /\ UsedBits = call.from + call.skippedBits
                    /\ call.skippedBits = call.bits /\ call.bits <= Word
                         => call.result = BitsAt(data, call.from, call.bits)
  BY DEF ReadBitsExact
<1> QED
  BY DEF IInv, ReadInv, CallInv, ReadSoFar, BitsAt

(* The words read so far, and the one at hand.                             *)
LEMMA JoinedExact ==
  ASSUME IInv, bigCall # NoCall, call.skippedBits = call.bits,
         InOrder(bigCall.from, bigCall.bits)
  PROVE  Joined = BitsAt(data, bigCall.from, bigCall.consumedBits + call.bits)
<1> DEFINE p == bigCall.from
           c == bigCall.consumedBits
           m == call.bits
<1>1. /\ p \in Nat /\ c \in Nat /\ m \in Nat /\ MayCut(p, c)
      /\ bigCall.result = BitsAt(data, p, c)
  BY DEF IInv, BigInv, BigType, ReadInv, CallInv, CallType
<1>2. m <= Word /\ call.from = p + c
  BY BufferAssumption DEF IInv, BigInv, BigType, Least
<1>3. call.result = BitsAt(data, p + c, m)
  BY <1>2, ReadsExact DEF IInv, BigInv, ReadBitsExact
<1> HIDE DEF p, c, m
<1>4. BitsAt(data, p, c + m) =
        IF BigEndian
        THEN { e + m : e \in BitsAt(data, p, c) } \union BitsAt(data, p + c, m)
        ELSE BitsAt(data, p, c) \union { c + e : e \in BitsAt(data, p + c, m) }
  BY <1>1, CutBits
<1> QED
  BY <1>1, <1>3, <1>4 DEF Joined, p, c, m

(* A bit array that has been read is the one at its position.              *)
LEMMA BigReadsExact ==
  ASSUME IInv
  PROVE  ReadBigIntegerExact
BY JoinedExact DEF ReadBigIntegerExact, BigIntegerRead

-----------------------------------------------------------------------------
(* The operations keep the invariant.                                      *)

(* The start of ReadBits.                                                  *)
LEMMA CallStarts ==
  ASSUME DataInv, NEW n \in Nat, UNCHANGED buffer, call' = ReadBitsCall(n)
  PROVE  ReadInv' /\ call' # NoCall
<1>1. UsedBits \in Nat /\ UNCHANGED <<data, used, next, nextBits>>
  BY PositionNat DEF buffer
<1>2. call' \in CallType
  BY <1>1 DEF ReadBitsCall, CallType
<1>3. call' # NoCall
  BY <1>2, BufferAssumption DEF CallType
<1>4. DataInv'
  BY <1>1 DEF DataInv, BufferAtPosition
<1>5. /\ call'.bits = n /\ call'.from = UsedBits /\ call'.result = {}
      /\ call'.resultBits = 0 /\ call'.skippedBits = 0
  BY DEF ReadBitsCall
<1>6. UsedBits' = UsedBits
  BY <1>1 DEF UsedBits
<1>7. ReadSoFar(UsedBits, n, 0)' = {}
  BY <1>1, <1>6, NothingRead DEF ReadSoFar
<1>8. CallInv'
  <2>1. (call.result = ReadSoFar(call.from, call.bits, call.skippedBits))'
    BY <1>1, <1>5, NothingRead DEF ReadSoFar
  <2> QED
    BY <1>1, <1>2, <1>5, <1>6, <2>1 DEF CallInv
<1> QED
  BY <1>3, <1>4, <1>8 DEF ReadInv

(* ReadBigInteger starts with nothing read, where it is called.            *)
LEMMA BigStarts ==
  ASSUME DataInv, NEW n, UNCHANGED buffer, ReadBigIntegerCalls(n)
  PROVE  /\ IInv'
         /\ bigCall' # NoCall /\ bigCall'.bits = n /\ bigCall'.from = UsedBits
<1>1. n \in Nat /\ Word \in Nat \ {0} /\ Least(n, Word) \in Nat
  BY BufferAssumption DEF ReadBigIntegerCalls, Least
<1>2. ReadInv' /\ call' # NoCall
  BY <1>1, CallStarts DEF ReadBigIntegerCalls
<1>3. UsedBits \in Nat
  BY PositionNat
<1>4. /\ bigCall' \in BigType
      /\ bigCall'.bits = n /\ bigCall'.from = UsedBits
      /\ bigCall'.result = {} /\ bigCall'.consumedBits = 0
      /\ call'.from = UsedBits /\ call'.bits = Least(n, Word)
  BY <1>1, <1>3 DEF ReadBigIntegerCalls, ReadBitsCall, BigType
<1>5. (bigCall.result = BitsAt(data, bigCall.from, bigCall.consumedBits))'
  BY <1>3, <1>4, NothingRead DEF BitsAt
<1>6. MayCut(bigCall.from, bigCall.consumedBits)'
  BY <1>4 DEF MayCut
<1>7. BigInv'
  BY <1>1, <1>2, <1>3, <1>4, <1>5, <1>6 DEF BigInv
<1>8. bigCall' # NoCall
  BY <1>4, BufferAssumption DEF BigType
<1> QED
  BY <1>2, <1>4, <1>7, <1>8 DEF IInv

(* A turn of ReadBits is a turn of the same call.                          *)
LEMMA TurnKeeps ==
  ASSUME IInv, CopyBits
  PROVE  /\ IInv'
         /\ call' # NoCall /\ call'.bits = call.bits /\ call'.from = call.from
<1>1. /\ ReadInv' /\ call' \in CallType
      /\ call'.bits = call.bits /\ call'.from = call.from
  BY CopyBitsKeeps DEF IInv
<1>2. call' # NoCall
  BY <1>1, BufferAssumption DEF CallType
<1>3. data' = data /\ bigCall' = bigCall
  BY DEF CopyBits
<1>4. BigInv'
  BY <1>1, <1>2, <1>3 DEF IInv, BigInv, BitsAt
<1> QED
  BY <1>1, <1>2, <1>4 DEF IInv

(* A turn of ReadBigInteger is a turn of the same call.                    *)
LEMMA BigTurnKeeps ==
  ASSUME IInv, BigTurn
  PROVE  /\ IInv'
         /\ bigCall' # NoCall
         /\ bigCall'.bits = bigCall.bits /\ bigCall'.from = bigCall.from
<1> DEFINE p == bigCall.from
           c == bigCall.consumedBits
           n == bigCall.bits
           m == call.bits
<1>1. /\ p \in Nat /\ c \in Nat /\ n \in Nat /\ m \in Nat /\ bigCall \in BigType
      /\ c <= n /\ m = Least(n - c, Word) /\ c + m < n
      /\ call.from = p + c /\ call # NoCall /\ call.skippedBits = m
      /\ Word \in Nat \ {0} /\ UsedBits = p + (c + m)
      /\ n <= Word => c = 0
  BY BufferAssumption
     DEF IInv, BigInv, BigType, ReadInv, CallInv, CallType, BigTurn
<1>2. m = Word /\ n > Word
  BY <1>1 DEF Least
<1>3. /\ bigCall' = [bigCall EXCEPT !.result = Joined, !.consumedBits = c + m]
      /\ call' = ReadBitsCall(Least(n - (c + m), Word))
      /\ UNCHANGED buffer
  BY DEF BigTurn
<1>4. Least(n - (c + m), Word) \in Nat
  BY <1>1 DEF Least
<1>5. ReadInv' /\ call' # NoCall
  BY <1>3, <1>4, CallStarts DEF IInv, ReadInv
<1>6. Joined \subseteq Int
  <2>1. call.result \subseteq Int /\ bigCall.result \subseteq Int
    BY <1>1 DEF IInv, ReadInv, CallInv, CallType, BigType
  <2> QED
    BY <1>1, <2>1 DEF Joined
<1> HIDE DEF c, m
<1>7. /\ bigCall' \in BigType
      /\ bigCall'.bits = bigCall.bits /\ bigCall'.from = bigCall.from
      /\ bigCall'.result = Joined /\ bigCall'.consumedBits = c + m
  <2>1. Joined \in SUBSET Int /\ c + m \in Nat
    BY <1>1, <1>6
  <2> QED
    BY <1>1, <1>3, <2>1 DEF BigType
<1>8. call'.from = UsedBits /\ call'.bits = Least(n - (c + m), Word)
  BY <1>3 DEF ReadBitsCall
<1>9. ASSUME InOrder(p, n)
      PROVE  MayCut(p, c + m) /\ Joined = BitsAt(data, p, c + m)
  <2>1. Joined = BitsAt(data, p, c + m)
    BY <1>1, <1>9, JoinedExact DEF c, m, BigTurn
  <2>2. CASE BigEndian
    <3>1. Aligned(p) /\ Word % ByteBits = 0
      BY <1>1, <1>2, <1>9, <2>2 DEF InOrder
    <3>2. Aligned(p + c)
      <4>1. MayCut(p, c)
        BY <1>9 DEF IInv, BigInv, BigTurn, c
      <4> QED
        BY <1>1, <2>2, <3>1, <4>1 DEF MayCut
    <3>3. Aligned((p + c) + Word)
      BY <1>1, <3>1, <3>2, AlignedSum
    <3> QED
      BY <1>1, <1>2, <2>1, <3>3 DEF MayCut
  <2>3. CASE ~BigEndian
    BY <2>1, <2>3 DEF MayCut
  <2> QED
    BY <2>2, <2>3
<1>10. data' = data
  BY <1>3 DEF buffer
<1>11. (InOrder(bigCall.from, bigCall.bits) =>
          /\ MayCut(bigCall.from, bigCall.consumedBits)
          /\ bigCall.result = BitsAt(data, bigCall.from, bigCall.consumedBits))'
  BY <1>7, <1>9, <1>10
<1>12. BigInv'
  BY <1>1, <1>2, <1>5, <1>7, <1>8, <1>11 DEF BigInv
<1>13. bigCall' # NoCall
  BY <1>7, BufferAssumption DEF BigType
<1> QED
  BY <1>5, <1>7, <1>12, <1>13 DEF IInv

(* A read that has returned.                                               *)
LEMMA ReturnKeeps ==
  ASSUME DataInv, UNCHANGED buffer, call' = NoCall, bigCall' = NoCall
  PROVE  IInv'
BY DEF buffer, IInv, ReadInv, DataInv, BufferAtPosition, CallInv, BigInv

(* Aligned reads, while nobody reads bits.                                 *)
LEMMA AlignKeeps ==
  ASSUME IInv, call = NoCall, ByteAlign
  PROVE  IInv'
BY BitStreamAssumption
   DEF ByteAlign, IInv, ReadInv, DataInv, BufferAtPosition, CallInv, BigInv

(* Whole bytes leave the buffer at a position.                             *)
LEMMA SpanKeeps ==
  ASSUME DataInv, NEW n, ReadAlignedSpan(n)
  PROVE  DataInv'
BY BitStreamAssumption DEF ReadAlignedSpan, Spans, DataInv, BufferAtPosition

-----------------------------------------------------------------------------
(* A buffer with any caller.                                               *)

(* A step of somebody else keeps what is being read.                       *)
LEMMA StutterKeeps ==
  ASSUME IInv, UNCHANGED bufferVars
  PROVE  IInv'
BY DEF bufferVars, buffer, IInv, ReadInv, DataInv, BufferAtPosition, CallInv,
       ReadSoFar, Bit, UsedBits, BigInv, BitsAt

(* A new buffer stands at the start.                                       *)
LEMMA BufferStarts ==
  ASSUME BufferInit
  PROVE  IInv
<1>1. data \in Seq(Byte) /\ Len(data) \in Nat
  BY BufferAssumption DEF BufferInit
<1> QED
  BY <1>1, BitStreamAssumption
     DEF BufferInit, IInv, ReadInv, DataInv, BufferAtPosition, CallInv, BigInv

(* No step of any caller disturbs a read.                                  *)
LEMMA BufferNextKeeps ==
  ASSUME IInv, [BufferNext]_bufferVars
  PROVE  IInv'
<1>0. DataInv /\ (bigCall # NoCall => call # NoCall)
  BY DEF IInv, ReadInv, BigInv
<1>1. CASE Client
  <2>1. ASSUME NEW n \in Nat, ReadBits(n), UNCHANGED bigCall
        PROVE  IInv'
    <3>1. ReadInv' /\ bigCall = NoCall
      BY <1>0, <2>1, CallStarts DEF ReadBits
    <3> QED
      BY <2>1, <3>1 DEF IInv, BigInv
  <2>2. ASSUME NEW n \in Nat, ReadBigInteger(n)
        PROVE  IInv'
    BY <1>0, <2>2, BigStarts DEF ReadBigInteger
  <2>3. ASSUME call = NoCall, ByteAlign
        PROVE  IInv'
    BY <2>3, AlignKeeps
  <2>4. ASSUME NEW n \in Nat, call = NoCall, ReadAlignedSpan(n),
               UNCHANGED <<call, bigCall>>
        PROVE  IInv'
    <3>1. DataInv'
      BY <1>0, <2>4, SpanKeeps
    <3> QED
      BY <1>0, <2>4, <3>1 DEF IInv, ReadInv, CallInv, BigInv
  <2> QED
    BY <1>1, <2>1, <2>2, <2>3, <2>4 DEF Client
<1>2. CASE CopyBits
  BY <1>2, TurnKeeps
<1>3. CASE ReadBitsReturns /\ bigCall = NoCall /\ UNCHANGED bigCall
  BY <1>0, <1>3, ReturnKeeps DEF ReadBitsReturns
<1>4. CASE BigTurn
  BY <1>4, BigTurnKeeps
<1>5. CASE BigReturns
  BY <1>0, <1>5, ReturnKeeps DEF BigReturns, ReadBitsReturns
<1>6. CASE UNCHANGED bufferVars
  BY <1>6, StutterKeeps
<1> QED
  BY <1>1, <1>2, <1>3, <1>4, <1>5, <1>6 DEF BufferNext

(* Whatever a caller reads, of bytes and longs of any width, in either     *)
(* byte order: BitPackedBuffer stands at one position of the stream, and   *)
(* the numbers it returns are those at their positions.                    *)
THEOREM BufferReadsExactly ==
  BufferSpec => [](BufferAtPosition /\ ReadBitsExact /\ ReadBigIntegerExact)
<1>1. BufferInit => IInv
  BY BufferStarts
<1>2. IInv /\ [BufferNext]_bufferVars => IInv'
  BY BufferNextKeeps
<1>3. IInv => BufferAtPosition /\ ReadBitsExact /\ ReadBigIntegerExact
  BY ReadsExact, BigReadsExact DEF IInv, ReadInv, DataInv
<1> QED
  BY <1>1, <1>2, <1>3, PTL DEF BufferSpec

-----------------------------------------------------------------------------
(* The decoder.                                                            *)

(* Whoever is in ReadBits is there for a type that is still to be read; in *)
(* particular the reader is only aligned behind a whole event.             *)
ReadsForType == call # NoCall => todo # <<>>

StreamInv == IInv /\ ReadsForType

(* Nobody in ReadBits, nobody in ReadBigInteger.                           *)
LEMMA IdleBuffer ==
  ASSUME IInv, call = NoCall
  PROVE  DataInv /\ bigCall = NoCall
BY DEF IInv, ReadInv, BigInv

(* A decoder starts with a new buffer.                                     *)
LEMMA StreamStarts ==
  ASSUME Init
  PROVE  StreamInv
BY BufferStarts DEF Init, BufferInit, StreamInv, ReadsForType

(* A part of an event that leaves the buffer alone, with nobody reading.   *)
LEMMA IdleKeeps ==
  ASSUME StreamInv, UNCHANGED bufferVars, call = NoCall
  PROVE  StreamInv'
<1>1. IInv'
  BY StutterKeeps DEF StreamInv
<1>2. call' = NoCall
  BY DEF bufferVars
<1> QED
  BY <1>1, <1>2 DEF StreamInv, ReadsForType

(* The end of a number.                                                    *)
LEMMA ReturnsKeeps ==
  ASSUME StreamInv, NEW kind, Returns(kind)
  PROVE  StreamInv'
<1>1. /\ UNCHANGED buffer /\ call' = NoCall /\ bigCall' = NoCall /\ DataInv
  BY DEF Returns, NumberRead, ReadBitsReturns, StreamInv, IInv, ReadInv
<1>2. IInv'
  BY <1>1, ReturnKeeps
<1> QED
  BY <1>1, <1>2 DEF StreamInv, ReadsForType

(* The reader of a type uses its buffer as it may be used.                 *)
LEMMA ReadTypeKeeps ==
  ASSUME StreamInv, ReadType
  PROVE  StreamInv'
<1> USE DEF StreamInv
<1>1. CASE ReadStructFields \/ ReadNull
  BY <1>1, IdleKeeps DEF ReadStructFields, ReadNull, Visits
<1>2. CASE StartNumber
  <2>1. /\ Type.bits \in Nat /\ call = NoCall /\ UNCHANGED buffer
        /\ call' = ReadBitsCall(Type.bits) /\ UNCHANGED <<bigCall, todo>>
        /\ todo # <<>>
    BY <1>2 DEF StartNumber, ReadBits, Visits
  <2>2. ReadInv' /\ bigCall' = NoCall
    BY <2>1, IdleBuffer, CallStarts
  <2> QED
    BY <2>1, <2>2 DEF IInv, BigInv, ReadsForType
<1>3. CASE \/ ReadIntValue \/ ReadBoolValue \/ ReadArrayItems
           \/ TryReadOptionalTypeId \/ ReadChoiceValue
  BY <1>3, ReturnsKeeps
     DEF ReadIntValue, ReadBoolValue, ReadArrayItems, TryReadOptionalTypeId,
         ReadChoiceValue
<1>4. CASE ReadBlobValue
  <2>1. PICK n : ReadAlignedSpan(n)
    BY <1>4 DEF ReadBlobValue
  <2>2. DataInv' /\ call' = NoCall /\ bigCall' = NoCall
    BY <1>4, <2>1, SpanKeeps DEF ReadBlobValue, NumberRead, IInv, ReadInv
  <2> QED
    BY <2>2 DEF IInv, ReadInv, CallInv, BigInv, ReadsForType
<1>5. CASE StartBitArray
  <2>1. PICK n : ReadBigIntegerCalls(n) /\ UNCHANGED buffer
    BY <1>5 DEF StartBitArray
  <2>2. IInv'
    BY <2>1, BigStarts DEF IInv, ReadInv
  <2> QED
    BY <1>5, <2>2 DEF StartBitArray, NumberRead, ReadsForType
<1>6. CASE ContinueBitArray
  BY <1>6, BigTurnKeeps DEF ContinueBitArray, BigTurn, ReadsForType
<1>7. CASE ReadBitArrayValue
  <2>1. UNCHANGED buffer /\ call' = NoCall /\ bigCall' = NoCall
    BY <1>7 DEF ReadBitArrayValue, BigReturns, ReadBitsReturns
  <2>2. IInv'
    BY <2>1, ReturnKeeps DEF IInv, ReadInv
  <2> QED
    BY <2>1, <2>2 DEF ReadsForType
<1> QED
  BY <1>1, <1>2, <1>3, <1>4, <1>5, <1>6, <1>7 DEF ReadType

(* An exception leaves the buffer where it is.                             *)
LEMMA ThrowKeeps ==
  ASSUME StreamInv, Throw
  PROVE  StreamInv'
<1>1. UNCHANGED <<bufferVars, todo>>
  BY DEF Throw, DataEnds, UnknownChoice, BlobEnds, Fail
<1>2. IInv'
  BY <1>1, StutterKeeps DEF StreamInv
<1> QED
  BY <1>1, <1>2 DEF StreamInv, ReadsForType, bufferVars

(* So does DecodeEventStream, which aligns it when nobody reads.           *)
LEMMA DecodeEventKeeps ==
  ASSUME StreamInv, DecodeEvent
  PROVE  StreamInv'
<1>1. CASE StartEvent \/ EndOfStream
  <2>1. /\ UNCHANGED bufferVars
        /\ todo' = todo \/ todo' = <<SVarUint32TypeId>>
    BY <1>1 DEF StartEvent, EndOfStream, Starts
  <2>2. IInv'
    BY <2>1, StutterKeeps DEF StreamInv
  <2>3. <<SVarUint32TypeId>> # <<>>
    OBVIOUS
  <2> QED
    BY <2>1, <2>2, <2>3 DEF StreamInv, ReadsForType, bufferVars
<1>2. CASE AddDelta \/ ReadUserId \/ ReadEventId \/ UnknownEvent
  <2>1. UNCHANGED bufferVars /\ todo = <<>>
    BY <1>2 DEF AddDelta, ReadUserId, ReadEventId, UnknownEvent, Ends, Starts
  <2>2. call = NoCall
    BY <2>1 DEF StreamInv, ReadsForType
  <2> QED
    BY <2>1, <2>2, IdleKeeps
<1>3. CASE Complete
  <2>1. ByteAlign /\ call = NoCall
    BY <1>3 DEF Complete, Ends, StreamInv, ReadsForType
  <2>2. IInv'
    BY <2>1, AlignKeeps DEF StreamInv
  <2> QED
    BY <2>1, <2>2 DEF ByteAlign, StreamInv, ReadsForType
<1> QED
  BY <1>1, <1>2, <1>3 DEF DecodeEvent

(* Whatever a step does, the buffer stays at a position.                    *)
LEMMA StreamKeeps ==
  ASSUME StreamInv, [Next]_vars
  PROVE  StreamInv'
<1>1. CASE ReadType
  BY <1>1, ReadTypeKeeps
<1>2. CASE CopyMoreBits
  <2>1. CopyBits /\ UNCHANGED todo /\ call # NoCall
    BY <1>2 DEF CopyMoreBits, CopyBits
  <2> QED
    BY <2>1, TurnKeeps DEF StreamInv, ReadsForType
<1>3. CASE Throw
  BY <1>3, ThrowKeeps
<1>4. CASE DecodeEvent
  BY <1>4, DecodeEventKeeps
<1>5. CASE UNCHANGED vars
  <2>1. UNCHANGED <<bufferVars, todo>>
    BY <1>5 DEF vars
  <2>2. IInv'
    BY <2>1, StutterKeeps DEF StreamInv
  <2> QED
    BY <2>1, <2>2 DEF StreamInv, ReadsForType, bufferVars
<1> QED
  BY <1>1, <1>2, <1>3, <1>4, <1>5 DEF Next

(* Every number of an event, also a bit array, is the one at its position, *)
(* whatever the tables say and whatever the stream holds.                  *)
THEOREM NumbersAreExact == Spec => []NumbersExact
<1>1. Init => StreamInv
  BY StreamStarts
<1>2. StreamInv /\ [Next]_vars => StreamInv'
  BY StreamKeeps
<1>3. StreamInv => NumbersExact
  BY ReadsExact, BigReadsExact DEF StreamInv, NumbersExact
<1> QED
  BY <1>1, <1>2, <1>3, PTL DEF Spec

(* A set of natural numbers has a least member.                            *)
LEMMA LeastMember ==
  ASSUME NEW S \in SUBSET Nat, S # {}
  PROVE  \E d \in S : \A c \in S : d <= c
<1> DEFINE Less == { pair \in Nat \X Nat : pair[1] < pair[2] }
<1>1. IsWellFoundedOn(Less, Nat)
  BY NatLessThanWellFounded, Zenon DEF OpToRel
<1> HIDE DEF Less
<1>2. PICK d \in S : \A c \in S : ~(<<c, d>> \in Less)
  BY <1>1, WFMin, Zenon
<1>3. ASSUME NEW c \in S PROVE d <= c
  <2>1. c \in Nat /\ d \in Nat
    OBVIOUS
  <2>2. ~ (c < d)
    BY <1>2, <2>1 DEF Less
  <2> QED
    BY <2>1, <2>2
<1> QED
  BY <1>3

(* Induction up to a number, for the members of a set.                     *)
LEMMA UpTo ==
  ASSUME NEW N \in Nat, NEW P, 0 \in P, \A n \in 1 .. N : n - 1 \in P => n \in P
  PROVE  0 .. N \subseteq P /\ N \in P
<1>1. SUFFICES ASSUME (0 .. N) \ P # {} PROVE FALSE
  <2>1. N \in 0 .. N
    OBVIOUS
  <2> QED
    BY <2>1, Zenon
<1> DEFINE D == (0 .. N) \ P
<1>2. PICK d \in D : \A c \in D : d <= c
  <2>1. D \in SUBSET Nat /\ D # {}
    BY <1>1
  <2> HIDE DEF D
  <2> QED
    BY <2>1, LeastMember
<1>3. d \in 1 .. N /\ d - 1 \in 0 .. N
  OBVIOUS
<1>4. d - 1 \in P
  BY <1>2, <1>3
<1> QED
  BY <1>3, <1>4

(* A loop has run: what it has after each turn.                            *)
Runs(f, N, base, step) ==
  /\ f[0] = base
  /\ \A n \in 1 .. N : f[n] = step[n][f[n - 1]]

(* A loop whose turns make values from values has them after every turn.   *)
LEMMA LoopRuns ==
  ASSUME NEW N \in Nat, NEW S, NEW base \in S, NEW step \in [1 .. N -> [S -> S]]
  PROVE  \E f \in [0 .. N -> S] : Runs(f, N, base, step)
<1> DEFINE P == { n \in 0 .. N : \E f \in [0 .. n -> S] : Runs(f, n, base, step) }
<1>1. 0 \in P
  <2> DEFINE f == [i \in 0 .. 0 |-> base]
  <2>1. f \in [0 .. 0 -> S] /\ Runs(f, 0, base, step)
    BY DEF Runs
  <2> QED
    BY <2>1
<1>2. ASSUME NEW n \in 1 .. N, n - 1 \in P PROVE n \in P
  <2>1. PICK f \in [0 .. n - 1 -> S] : Runs(f, n - 1, base, step)
    BY <1>2
  <2> DEFINE value == step[n][f[n - 1]]
             g == [i \in 0 .. n |-> IF i = n THEN value ELSE f[i]]
  <2>2. value \in S
    OBVIOUS
  <2>3. g \in [0 .. n -> S]
    BY <2>2
  <2>4. Runs(g, n, base, step)
    <3>1. g[0] = base
      BY <2>1 DEF Runs
    <3>2. g[n] = step[n][g[n - 1]]
      BY <2>1
    <3>3. ASSUME NEW i \in 1 .. n, i # n PROVE g[i] = step[i][g[i - 1]]
      <4>1. i \in 1 .. n - 1 /\ i - 1 \in 0 .. n - 1
        BY <3>3
      <4>2. f[i] = step[i][f[i - 1]]
        BY <2>1, <4>1 DEF Runs
      <4>3. g[i] = f[i] /\ g[i - 1] = f[i - 1]
        BY <4>1
      <4> QED
        BY <4>2, <4>3
    <3> QED
      BY <3>1, <3>2, <3>3 DEF Runs
  <2> QED
    BY <2>3, <2>4
<1> HIDE DEF P
<1>3. 0 .. N \subseteq P
  BY <1>1, <1>2, UpTo
<1> QED
  BY <1>3 DEF P

-----------------------------------------------------------------------------
(* Numbers.                                                                *)

(* The number of the bits from the highest on.                             *)
Sums(f, exponents, n) ==
  /\ f \in [0 .. n -> Nat]
  /\ f[0] = 0
  /\ \A k \in 1 .. n :
       f[k] = 2 * f[k - 1] + (IF n - k \in exponents THEN 1 ELSE 0)

(* Natural is such a sum: its recursive function exists.                   *)
LEMMA NaturalSums ==
  ASSUME NEW exponents, NEW N \in Nat
  PROVE  \E f : Sums(f, exponents, N) /\ Natural(exponents, N) = f[N]
<1> DEFINE one(n) == IF N - n \in exponents THEN 1 ELSE 0
           step == [n \in 1 .. N |-> [a \in Nat |-> 2 * a + one(n)]]
           Turn(h, n) == IF n = 0 THEN 0
                         ELSE 2 * h[n - 1] + (IF N - n \in exponents THEN 1 ELSE 0)
           Is(h) == h = [n \in 0 .. N |-> Turn(h, n)]
           g == CHOOSE h : Is(h)
<1>1. step \in [1 .. N -> [Nat -> Nat]]
  <2>1. \A n : one(n) \in Nat
    OBVIOUS
  <2> HIDE DEF one
  <2> QED
    BY <2>1
<1>2. Natural(exponents, N) = g[N]
  BY DEF Natural
<1> HIDE DEF g
<1>3. PICK f \in [0 .. N -> Nat] : Runs(f, N, 0, step)
  <2> HIDE DEF step
  <2> QED
    BY <1>1, LoopRuns
<1>4. \A n \in 0 .. N : f[n] = Turn(f, n)
  <2>1. ASSUME NEW n \in 1 .. N PROVE f[n] = Turn(f, n)
    <3>1. n # 0 /\ n - 1 \in 0 .. N /\ f[n - 1] \in Nat
      OBVIOUS
    <3>2. f[n] = step[n][f[n - 1]]
      BY <1>3 DEF Runs
    <3>3. step[n][f[n - 1]] = 2 * f[n - 1] + one(n)
      <4> HIDE DEF one
      <4> QED
        BY <3>1
    <3> QED
      BY <3>1, <3>2, <3>3
  <2>2. f[0] = Turn(f, 0)
    BY <1>3 DEF Runs
  <2> QED
    BY <2>1, <2>2
<1>5. Is(f)
  <2> HIDE DEF Turn
  <2> QED
    BY <1>4
<1>6. Is(g)
  <2> HIDE DEF Is
  <2> QED
    BY <1>5, Zenon DEF g
<1>7. \A n \in 0 .. N : g[n] = Turn(g, n)
  <2> HIDE DEF Turn
  <2> QED
    BY <1>6
<1>8. g[0] = 0 /\ \A n \in 1 .. N : g[n] = 2 * g[n - 1] + one(n)
  <2>1. 0 \in 0 .. N /\ \A n \in 1 .. N : n \in 0 .. N /\ n # 0
    OBVIOUS
  <2> QED
    BY <1>7, <2>1
<1>9. \A n : one(n) \in Nat
  OBVIOUS
<1>10. 0 .. N \subseteq { n \in 0 .. N : g[n] \in Nat }
  <2> DEFINE P == { n \in 0 .. N : g[n] \in Nat }
  <2> HIDE DEF one
  <2>1. 0 \in P
    BY <1>8
  <2>2. ASSUME NEW n \in 1 .. N, n - 1 \in P PROVE n \in P
    <3>1. n \in 0 .. N /\ g[n - 1] \in Nat
      BY <2>2
    <3> QED
      BY <1>8, <1>9, <3>1
  <2> HIDE DEF P
  <2> QED
    BY <2>1, <2>2, UpTo DEF P
<1>11. g \in [0 .. N -> Nat]
  <2> HIDE DEF Turn
  <2> QED
    BY <1>6, <1>10
<1>12. Sums(g, exponents, N)
  <2> HIDE DEF Is, Turn
  <2> QED
    BY <1>8, <1>11 DEF Sums
<1> QED
  BY <1>2, <1>12

(* No number of n bits is greater than the one of n ones.                  *)
LEMMA NaturalBound ==
  ASSUME NEW exponents, NEW N \in Nat
  PROVE  Natural(exponents, N) \in 0 .. Ones(N) /\ Ones(N) \in Nat
<1> DEFINE all == 0 .. N - 1
<1>1. PICK f : Sums(f, exponents, N) /\ Natural(exponents, N) = f[N]
  BY NaturalSums
<1>2. PICK g : Sums(g, all, N) /\ Ones(N) = g[N]
  <2>1. Ones(N) = Natural(all, N)
    BY DEF Ones
  <2> HIDE DEF all
  <2> QED
    BY <2>1, NaturalSums
<1> DEFINE P == { k \in 0 .. N : f[k] <= g[k] }
<1>3. 0 \in P
  BY <1>1, <1>2 DEF Sums
<1>4. ASSUME NEW k \in 1 .. N, k - 1 \in P PROVE k \in P
  <2>1. k - 1 \in 0 .. N /\ k \in 0 .. N /\ f[k - 1] <= g[k - 1] /\ N - k \in all
    BY <1>4
  <2>2. f[k - 1] \in Nat /\ g[k - 1] \in Nat
    BY <1>1, <1>2, <2>1 DEF Sums
  <2>3. f[k] = 2 * f[k - 1] + (IF N - k \in exponents THEN 1 ELSE 0)
    BY <1>1 DEF Sums
  <2>4. g[k] = 2 * g[k - 1] + 1
    <3>1. g[k] = 2 * g[k - 1] + (IF N - k \in all THEN 1 ELSE 0)
      BY <1>2 DEF Sums
    <3> QED
      BY <2>1, <3>1
  <2> QED
    BY <2>1, <2>2, <2>3, <2>4
<1> HIDE DEF P
<1>5. N \in P
  BY <1>3, <1>4, UpTo
<1>6. f[N] \in Nat /\ g[N] \in Nat
  BY <1>1, <1>2 DEF Sums
<1> QED
  BY <1>1, <1>2, <1>5, <1>6 DEF P

(* A flag.                                                                 *)
LEMMA NaturalOfBit ==
  ASSUME NEW exponents
  PROVE  Natural(exponents, 1) = IF 0 \in exponents THEN 1 ELSE 0
<1>1. PICK f : Sums(f, exponents, 1) /\ Natural(exponents, 1) = f[1]
  BY NaturalSums
<1>2. f[1] = 2 * f[1 - 1] + (IF 1 - 1 \in exponents THEN 1 ELSE 0) /\ f[0] = 0
  BY <1>1 DEF Sums
<1>3. 1 - 1 = 0
  OBVIOUS
<1> QED
  BY <1>1, <1>2, <1>3

(* Wrapping does not change what fits, however often it has wrapped.       *)
LEMMA WrapFits ==
  ASSUME NEW max \in Nat, NEW n \in Int, -max - 1 <= n, n <= max
  PROVE  Wrap(n, max) = n /\ Wrap(n - (2 * max + 2), max) = n
<1> DEFINE m == 2 * max + 2
           r == n + max + 1
<1>1. m \in Nat \ {0} /\ r \in 0 .. m - 1
  OBVIOUS
<1>2. r % m = r /\ (r - m) % m = r
  <2> HIDE DEF m, r
  <2> QED
    BY <1>1
<1>3. (n - (2 * max + 2)) + max + 1 = r - m
  OBVIOUS
<1>4. Wrap(n, max) = (r % m) - max - 1
  BY DEF Wrap
<1>5. Wrap(n - (2 * max + 2), max) = ((r - m) % m) - max - 1
  BY <1>3 DEF Wrap
<1> QED
  BY <1>2, <1>4, <1>5

-----------------------------------------------------------------------------
(* Results.                                                                *)

(* What is read for a type.                                                *)
Values == Int \union BOOLEAN \union Seq(Byte) \union [from : Nat, bits : Nat]

(* What a decoder has: Corrupted, or values and where they end.            *)
Results ==
  {Blizzard!Corrupted} \union { Blizzard!Read(p, vs) : p \in Nat, vs \in Seq(Values) }

(* The fields of a result.                                                 *)
LEMMA Fields ==
  /\ ~ Blizzard!Corrupted.ok /\ Blizzard!Corrupted.at = 0
  /\ \A p, vs : /\ Blizzard!Read(p, vs).ok
                /\ Blizzard!Read(p, vs).at = p
                /\ Blizzard!Read(p, vs).values = vs
BY DEF Blizzard!Corrupted, Blizzard!Read

(* A result is Corrupted, or values and where they end.                    *)
LEMMA ResultCases ==
  ASSUME NEW r \in Results
  PROVE  /\ r.at \in Nat
         /\ ~ r.ok => r = Blizzard!Corrupted
         /\ r.ok => /\ r.values \in Seq(Values)
                    /\ r = Blizzard!Read(r.at, r.values)
<1>1. CASE r = Blizzard!Corrupted
  BY <1>1, Fields
<1>2. CASE r # Blizzard!Corrupted
  <2>1. PICK p \in Nat, vs \in Seq(Values) : r = Blizzard!Read(p, vs)
    BY <1>2 DEF Results
  <2>2. r.ok /\ r.at = p /\ r.values = vs
    BY <2>1, Fields, Zenon
  <2> QED
    BY <2>1, <2>2, Zenon
<1> QED
  BY <1>1, <1>2

(* What has been read is a result.                                         *)
LEMMA ReadResult ==
  ASSUME NEW p \in Nat, NEW vs \in Seq(Values)
  PROVE  Blizzard!Read(p, vs) \in Results
BY DEF Results

(* So is Corrupted.                                                        *)
LEMMA CorruptedResult == Blizzard!Corrupted \in Results
BY DEF Results

(* What is read for two parts: the concatenation, as an operator.          *)
Both(vs, ws) == vs \o ws

(* Sequences of values.                                                    *)
LEMMA BothValues ==
  /\ \A vs, ws \in Seq(Values) : Both(vs, ws) \in Seq(Values)
  /\ \A vs, ws, xs \in Seq(Values) :
       Both(Both(vs, ws), xs) = Both(vs, Both(ws, xs))
  /\ \A vs \in Seq(Values) : Both(<<>>, vs) = vs /\ Both(vs, <<>>) = vs
  /\ <<>> \in Seq(Values)
<1> DEFINE V == Values
<1> HIDE DEF V
<1>1. \A vs, ws \in Seq(V) : Both(vs, ws) \in Seq(V)
  BY ConcatProperties DEF Both
<1>2. \A vs, ws, xs \in Seq(V) : Both(Both(vs, ws), xs) = Both(vs, Both(ws, xs))
  BY ConcatAssociative DEF Both
<1>3. \A vs \in Seq(V) : Both(<<>>, vs) = vs /\ Both(vs, <<>>) = vs
  BY ConcatEmptySeq DEF Both
<1>4. <<>> \in Seq(V)
  OBVIOUS
<1> QED
  BY <1>1, <1>2, <1>3, <1>4 DEF V

(* One result behind another.                                              *)
LEMMA ThenCases ==
  ASSUME NEW first \in Results, NEW rest \in Results
  PROVE  /\ Blizzard!Then(first, rest) \in Results
         /\ ~ first.ok \/ ~ rest.ok
              => Blizzard!Then(first, rest) = Blizzard!Corrupted
         /\ first.ok /\ rest.ok
              => /\ Both(first.values, rest.values) \in Seq(Values)
                 /\ Blizzard!Then(first, rest)
                      = Blizzard!Read(rest.at, Both(first.values, rest.values))
                 /\ Blizzard!Then(first, rest).ok
                 /\ Blizzard!Then(first, rest).at = rest.at
                 /\ Blizzard!Then(first, rest).values = Both(first.values, rest.values)
<1>1. CASE first.ok /\ rest.ok
  <2> DEFINE vs == Both(first.values, rest.values)
  <2>1. vs \in Seq(Values) /\ rest.at \in Nat
    <3>1. first.values \in Seq(Values) /\ rest.values \in Seq(Values) /\ rest.at \in Nat
      BY <1>1, ResultCases
    <3> QED
      BY <3>1, BothValues
  <2>2. Blizzard!Then(first, rest) = Blizzard!Read(rest.at, vs)
    BY <1>1, Zenon DEF Blizzard!Then, Both
  <2> HIDE DEF vs
  <2>3. Blizzard!Read(rest.at, vs) \in Results
    BY <2>1, ReadResult
  <2>4. /\ Blizzard!Read(rest.at, vs).ok
        /\ Blizzard!Read(rest.at, vs).at = rest.at
        /\ Blizzard!Read(rest.at, vs).values = vs
    BY Fields, Zenon
  <2> QED
    BY <1>1, <2>1, <2>2, <2>3, <2>4, Zenon DEF vs
<1>2. CASE ~ (first.ok /\ rest.ok)
  <2>1. Blizzard!Then(first, rest) = Blizzard!Corrupted
    BY <1>2, Zenon DEF Blizzard!Then
  <2> QED
    BY <1>2, <2>1, CorruptedResult, Zenon
<1> QED
  BY <1>1, <1>2

(* Reading what is behind it is reading on.                                *)
LEMMA ThenAssociative ==
  ASSUME NEW a \in Results, NEW b \in Results, NEW c \in Results
  PROVE  Blizzard!Then(Blizzard!Then(a, b), c) = Blizzard!Then(a, Blizzard!Then(b, c))
<1> DEFINE ab == Blizzard!Then(a, b)
           bc == Blizzard!Then(b, c)
<1>1. ab \in Results /\ bc \in Results
  BY ThenCases
<1>2. CASE ~ a.ok \/ ~ b.ok \/ ~ c.ok
  <2>1. ~ a.ok \/ ~ b.ok => ~ ab.ok
    BY ThenCases, Fields
  <2>2. ~ b.ok \/ ~ c.ok => ~ bc.ok
    BY ThenCases, Fields
  <2> HIDE DEF ab, bc
  <2>3. ~ ab.ok \/ ~ c.ok => Blizzard!Then(ab, c) = Blizzard!Corrupted
    BY <1>1, ThenCases
  <2>4. ~ a.ok \/ ~ bc.ok => Blizzard!Then(a, bc) = Blizzard!Corrupted
    BY <1>1, ThenCases
  <2>5. Blizzard!Then(ab, c) = Blizzard!Then(a, bc)
    BY <1>2, <2>1, <2>2, <2>3, <2>4
  <2> QED
    BY <2>5 DEF ab, bc
<1>3. CASE a.ok /\ b.ok /\ c.ok
  <2>1. ab.ok /\ ab.values = Both(a.values, b.values)
    BY <1>3, ThenCases
  <2>2. bc.ok /\ bc.at = c.at /\ bc.values = Both(b.values, c.values)
    BY <1>3, ThenCases
  <2> HIDE DEF ab, bc
  <2>3. Blizzard!Then(ab, c) = Blizzard!Read(c.at, Both(Both(a.values, b.values), c.values))
    BY <1>1, <1>3, <2>1, ThenCases
  <2>4. Blizzard!Then(a, bc) = Blizzard!Read(c.at, Both(a.values, Both(b.values, c.values)))
    BY <1>1, <1>3, <2>2, ThenCases
  <2>5. Both(Both(a.values, b.values), c.values) = Both(a.values, Both(b.values, c.values))
    <3>1. a.values \in Seq(Values) /\ b.values \in Seq(Values) /\ c.values \in Seq(Values)
      BY <1>3, ResultCases
    <3> QED
      BY <3>1, BothValues
  <2>6. Blizzard!Then(ab, c) = Blizzard!Then(a, bc)
    BY <2>3, <2>4, <2>5, Zenon
  <2> QED
    BY <2>6 DEF ab, bc
<1> QED
  BY <1>2, <1>3

(* Reading nothing first, or last.                                         *)
LEMMA ThenNothing ==
  ASSUME NEW r \in Results, NEW p \in Nat
  PROVE  /\ Blizzard!Read(p, <<>>) \in Results
         /\ Blizzard!Then(Blizzard!Read(p, <<>>), r) = r
         /\ r.ok /\ r.at = p => Blizzard!Then(r, Blizzard!Read(p, <<>>)) = r
<1> DEFINE none == Blizzard!Read(p, <<>>)
<1>1. none \in Results /\ none.ok /\ none.at = p /\ none.values = <<>>
  <2>1. <<>> \in Seq(Values)
    BY BothValues
  <2> QED
    BY <2>1, ReadResult, Fields
<1> HIDE DEF none
<1>2. CASE r.ok
  <2>1. r.values \in Seq(Values) /\ r = Blizzard!Read(r.at, r.values)
    BY <1>2, ResultCases
  <2>2. Both(<<>>, r.values) = r.values /\ Both(r.values, <<>>) = r.values
    BY <2>1, BothValues
  <2>3. Blizzard!Then(none, r) = Blizzard!Read(r.at, Both(none.values, r.values))
    BY <1>1, <1>2, ThenCases
  <2>4. Blizzard!Then(r, none) = Blizzard!Read(none.at, Both(r.values, none.values))
    BY <1>1, <1>2, ThenCases
  <2>5. Blizzard!Then(none, r) = r
    BY <1>1, <2>1, <2>2, <2>3, Zenon
  <2>6. r.at = p => Blizzard!Then(r, none) = r
    BY <1>1, <2>1, <2>2, <2>4, Zenon
  <2> QED
    BY <1>1, <2>5, <2>6 DEF none
<1>3. CASE ~ r.ok
  <2>1. Blizzard!Then(none, r) = Blizzard!Corrupted /\ r = Blizzard!Corrupted
    BY <1>1, <1>3, ThenCases, ResultCases
  <2> QED
    BY <1>1, <1>3, <2>1, Zenon DEF none
<1> QED
  BY <1>2, <1>3

-----------------------------------------------------------------------------
(* Lists of types.                                                         *)

(* The types of a stream.                                                  *)
TypeIds == DOMAIN TypeInfos

(* What the instances of all types may be.                                 *)
Decoders == [TypeIds \X Nat -> Results]

(* What a decoder has for some types.                                      *)
Knows(instance, T) ==
  T \subseteq TypeIds /\ \A t \in T, p \in Nat : instance[<<t, p>>] \in Results

(* What is read behind r for a type.                                       *)
Behind(instance, t, r) == Blizzard!Then(r, instance[<<t, r.at>>])

(* What is read behind a result is a result.                               *)
LEMMA BehindResult ==
  ASSUME NEW T, NEW instance, Knows(instance, T), NEW t \in T, NEW r \in Results
  PROVE  /\ instance[<<t, r.at>>] \in Results
         /\ Behind(instance, t, r) \in Results
<1>1. r.at \in Nat
  BY ResultCases
<1>2. instance[<<t, r.at>>] \in Results
  BY <1>1 DEF Knows
<1> QED
  BY <1>2, ThenCases DEF Behind

(* What is read for the first i types from p on, in f[i].                  *)
Reads(f, instance, types, p) ==
  /\ f \in [0 .. Len(types) -> Results]
  /\ f[0] = Blizzard!Read(p, <<>>)
  /\ \A i \in 1 .. Len(types) : f[i] = Behind(instance, types[i], f[i - 1])

(* The results of a list of types, one behind the other, exist.            *)
LEMMA ListedReads ==
  ASSUME NEW T, NEW instance, Knows(instance, T),
         NEW types \in Seq(T), NEW p \in Nat
  PROVE  \E f : /\ Reads(f, instance, types, p)
                /\ Blizzard!Listed(instance, types, p) = f[Len(types)]
<1> DEFINE N == Len(types)
           none == Blizzard!Read(p, <<>>)
           Turn(h, i) == IF i = 0 THEN none
                         ELSE Behind(instance, types[i], h[i - 1])
           Is(h) == h = [i \in 0 .. N |-> Turn(h, i)]
           g == CHOOSE h : Is(h)
           step == [i \in 1 .. N |-> [r \in Results |-> Behind(instance, types[i], r)]]
<1>1. Blizzard!Listed(instance, types, p) = g[N]
  BY DEF Blizzard!Listed, Behind
<1> HIDE DEF g
<1>2. N \in Nat /\ none \in Results /\ \A i \in 1 .. N : types[i] \in T
  BY ThenNothing, CorruptedResult
<1>3. \A i \in 1 .. N : \A r \in Results : Behind(instance, types[i], r) \in Results
  BY <1>2, BehindResult
<1> HIDE DEF N, none
<1>4. step \in [1 .. N -> [Results -> Results]]
  BY <1>3
<1>5. PICK f \in [0 .. N -> Results] : Runs(f, N, none, step)
  <2> HIDE DEF step
  <2> QED
    BY <1>2, <1>4, LoopRuns
<1>6. \A i \in 0 .. N : f[i] = Turn(f, i)
  <2>1. ASSUME NEW i \in 1 .. N PROVE f[i] = Turn(f, i)
    <3>1. i # 0 /\ f[i - 1] \in Results
      BY <1>2
    <3>2. f[i] = step[i][f[i - 1]]
      BY <1>5 DEF Runs
    <3>3. step[i][f[i - 1]] = Behind(instance, types[i], f[i - 1])
      BY <3>1
    <3> QED
      BY <3>1, <3>2, <3>3, Zenon
  <2>2. f[0] = Turn(f, 0)
    BY <1>5 DEF Runs
  <2> QED
    BY <2>1, <2>2, <1>2
<1>7. Is(f)
  <2> HIDE DEF Turn
  <2> QED
    BY <1>6
<1>8. Is(g)
  <2> HIDE DEF Is
  <2> QED
    BY <1>7, Zenon DEF g
<1>9. \A i \in 0 .. N : g[i] = Turn(g, i)
  <2> HIDE DEF Turn
  <2> QED
    BY <1>8
<1>10. g[0] = none /\ \A i \in 1 .. N : g[i] = Behind(instance, types[i], g[i - 1])
  <2>1. 0 \in 0 .. N /\ \A i \in 1 .. N : i \in 0 .. N /\ i # 0
    BY <1>2
  <2> QED
    BY <1>9, <2>1, Zenon
<1>11. 0 .. N \subseteq { i \in 0 .. N : g[i] \in Results }
  <2> DEFINE P == { i \in 0 .. N : g[i] \in Results }
  <2>1. 0 \in P
    BY <1>2, <1>10
  <2>2. ASSUME NEW i \in 1 .. N, i - 1 \in P PROVE i \in P
    <3>1. i \in 0 .. N /\ g[i - 1] \in Results
      BY <1>2, <2>2
    <3>2. g[i] = Behind(instance, types[i], g[i - 1])
      BY <1>10
    <3> QED
      BY <1>3, <3>1, <3>2
  <2> HIDE DEF P
  <2> QED
    BY <1>2, <2>1, <2>2, UpTo DEF P
<1>12. g \in [0 .. N -> Results]
  <2> HIDE DEF Turn
  <2> QED
    BY <1>8, <1>11
<1>13. Reads(g, instance, types, p)
  <2> HIDE DEF Is, Turn, step
  <2> QED
    BY <1>10, <1>12 DEF Reads, N, none
<1> QED
  BY <1>1, <1>13 DEF N

(* The instance of a list of types is a result.                            *)
LEMMA ListedResult ==
  ASSUME NEW T, NEW instance, Knows(instance, T),
         NEW types \in Seq(T), NEW p \in Nat
  PROVE  Blizzard!Listed(instance, types, p) \in Results
<1>1. PICK f : /\ Reads(f, instance, types, p)
               /\ Blizzard!Listed(instance, types, p) = f[Len(types)]
  BY ListedReads
<1>2. Len(types) \in 0 .. Len(types)
  OBVIOUS
<1> QED
  BY <1>1, <1>2 DEF Reads

(* Two decoders that agree about the types of a list.                      *)
LEMMA ListedAgrees ==
  ASSUME NEW T, NEW inst1, NEW inst2, Knows(inst1, T), Knows(inst2, T),
         \A t \in T, p \in Nat : inst1[<<t, p>>] = inst2[<<t, p>>],
         NEW types \in Seq(T), NEW p \in Nat
  PROVE  Blizzard!Listed(inst1, types, p) = Blizzard!Listed(inst2, types, p)
<1>1. Len(types) \in Nat /\ \A i \in 1 .. Len(types) : types[i] \in T
  OBVIOUS
<1>2. PICK f : /\ Reads(f, inst1, types, p)
               /\ Blizzard!Listed(inst1, types, p) = f[Len(types)]
  BY ListedReads
<1>3. PICK g : /\ Reads(g, inst2, types, p)
               /\ Blizzard!Listed(inst2, types, p) = g[Len(types)]
  BY ListedReads
<1> DEFINE N == Len(types)
           P == { i \in 0 .. N : f[i] = g[i] }
<1>4. 0 \in P
  BY <1>1, <1>2, <1>3 DEF Reads
<1>5. ASSUME NEW i \in 1 .. N, i - 1 \in P PROVE i \in P
  <2>1. i \in 0 .. N /\ i - 1 \in 0 .. N /\ f[i - 1] = g[i - 1] /\ types[i] \in T
    BY <1>1, <1>5
  <2>2. f[i] = Behind(inst1, types[i], f[i - 1]) /\ g[i] = Behind(inst2, types[i], g[i - 1])
    BY <1>2, <1>3 DEF Reads
  <2>3. f[i - 1] \in Results
    BY <1>2, <2>1 DEF Reads
  <2>4. f[i - 1].at \in Nat
    BY <2>3, ResultCases
  <2>5. inst1[<<types[i], f[i - 1].at>>] = inst2[<<types[i], f[i - 1].at>>]
    BY <2>1, <2>4
  <2>6. f[i] = g[i]
    BY <2>1, <2>2, <2>5, Zenon DEF Behind
  <2> QED
    BY <2>1, <2>6
<1> HIDE DEF P
<1>6. N \in P
  BY <1>1, <1>4, <1>5, UpTo
<1> QED
  BY <1>2, <1>3, <1>6 DEF P

(* What is read behind two results is read behind the second.              *)
LEMMA BehindThen ==
  ASSUME NEW T, NEW instance, Knows(instance, T), NEW t \in T,
         NEW a \in Results, NEW b \in Results
  PROVE  Behind(instance, t, Blizzard!Then(a, b)) = Blizzard!Then(a, Behind(instance, t, b))
<1> DEFINE ab == Blizzard!Then(a, b)
           i1 == instance[<<t, ab.at>>]
           i2 == instance[<<t, b.at>>]
<1>1. ab \in Results /\ Behind(instance, t, ab) = Blizzard!Then(ab, i1)
      /\ i1 \in Results /\ i2 \in Results /\ Behind(instance, t, b) = Blizzard!Then(b, i2)
      /\ Blizzard!Then(b, i2) \in Results
  <2>1. ab \in Results
    BY ThenCases
  <2> HIDE DEF ab
  <2>2. /\ Behind(instance, t, ab) = Blizzard!Then(ab, i1)
        /\ Behind(instance, t, b) = Blizzard!Then(b, i2)
    BY DEF Behind
  <2>3. i1 \in Results /\ i2 \in Results
    BY <2>1, BehindResult
  <2> HIDE DEF i1, i2
  <2>4. Blizzard!Then(b, i2) \in Results
    BY <2>3, ThenCases
  <2> QED
    BY <2>1, <2>2, <2>3, <2>4
<1>2. CASE a.ok /\ b.ok
  <2>1. ab.at = b.at
    BY <1>2, ThenCases
  <2>2. i1 = i2
    BY <2>1, Zenon
  <2> HIDE DEF i1, i2
  <2>3. Blizzard!Then(Blizzard!Then(a, b), i2) = Blizzard!Then(a, Blizzard!Then(b, i2))
    BY <1>1, ThenAssociative
  <2> QED
    BY <1>1, <2>2, <2>3, Zenon
<1>3. CASE ~ a.ok \/ ~ b.ok
  <2>1. ab = Blizzard!Corrupted /\ ~ ab.ok
    BY <1>3, ThenCases, Fields
  <2> HIDE DEF ab, i1, i2
  <2>2. Blizzard!Then(ab, i1) = Blizzard!Corrupted
    BY <1>1, <2>1, ThenCases
  <2>3. Blizzard!Then(a, Blizzard!Then(b, i2)) = Blizzard!Corrupted
    <3> DEFINE rest == Blizzard!Then(b, i2)
    <3>1. ~ b.ok => ~ rest.ok
      BY <1>1, ThenCases, Fields
    <3> HIDE DEF rest
    <3>2. ~ a.ok \/ ~ rest.ok => Blizzard!Then(a, rest) = Blizzard!Corrupted
      BY <1>1, ThenCases DEF rest
    <3> QED
      BY <1>3, <3>1, <3>2 DEF rest
  <2>4. Behind(instance, t, ab) = Blizzard!Then(a, Behind(instance, t, b))
    BY <1>1, <2>2, <2>3, Zenon
  <2> QED
    BY <2>4 DEF ab
<1> QED
  BY <1>2, <1>3

(* A list is read after another.                                           *)
LEMMA ListedConcat ==
  ASSUME NEW T, NEW instance, Knows(instance, T), NEW a \in Seq(T), NEW b \in Seq(T),
         NEW p \in Nat, NEW first, first = Blizzard!Listed(instance, a, p)
  PROVE  Blizzard!Listed(instance, a \o b, p)
           = Blizzard!Then(first, Blizzard!Listed(instance, b, first.at))
<1> DEFINE M == Len(a)
           N == Len(b)
           ab == a \o b
<1>1. /\ ab \in Seq(T) /\ Len(ab) = M + N /\ M \in Nat /\ N \in Nat
      /\ \A i \in 1 .. M : ab[i] = a[i] /\ a[i] \in T
      /\ \A i \in 1 .. N : ab[M + i] = b[i] /\ b[i] \in T
  <2>1. \A i \in 1 .. M + N : ab[i] = IF i <= M THEN a[i] ELSE b[i - M]
    BY ConcatProperties
  <2>2. M \in Nat /\ N \in Nat /\ ab \in Seq(T) /\ Len(ab) = M + N
    BY ConcatProperties
  <2>3. (\A i \in 1 .. M : a[i] \in T) /\ (\A i \in 1 .. N : b[i] \in T)
    OBVIOUS
  <2> HIDE DEF M, N, ab
  <2>4. ASSUME NEW i \in 1 .. M PROVE ab[i] = a[i]
    BY <2>1, <2>2
  <2>5. ASSUME NEW i \in 1 .. N PROVE ab[M + i] = b[i]
    <3>1. M + i \in 1 .. M + N /\ ~ (M + i <= M) /\ (M + i) - M = i
      BY <2>2
    <3> QED
      <4>1. ab[M + i] = b[(M + i) - M]
        BY <2>1, <3>1
      <4> QED
        BY <3>1, <4>1, Zenon
  <2> QED
    BY <2>2, <2>3, <2>4, <2>5
<1>0. ab \in Seq(T) /\ M \in Nat /\ N \in Nat
  BY <1>1
<1>2. first \in Results /\ first.at \in Nat
  BY ListedResult, ResultCases
<1>3. PICK f : /\ Reads(f, instance, ab, p)
               /\ Blizzard!Listed(instance, ab, p) = f[Len(ab)]
  <2> HIDE DEF ab
  <2> QED
    BY <1>0, ListedReads
<1>4. PICK g : Reads(g, instance, a, p) /\ first = g[Len(a)]
  BY ListedReads
<1>5. PICK h : /\ Reads(h, instance, b, first.at)
               /\ Blizzard!Listed(instance, b, first.at) = h[Len(b)]
  BY <1>2, ListedReads
<1>6. /\ f[0] = Blizzard!Read(p, <<>>) /\ g[0] = Blizzard!Read(p, <<>>)
      /\ h[0] = Blizzard!Read(first.at, <<>>)
      /\ \A i \in 1 .. M + N : f[i] = Behind(instance, ab[i], f[i - 1])
      /\ \A i \in 1 .. M : g[i] = Behind(instance, a[i], g[i - 1])
      /\ \A i \in 1 .. N : h[i] = Behind(instance, b[i], h[i - 1])
      /\ \A i \in 0 .. N : h[i] \in Results
  <2> HIDE DEF ab
  <2> QED
    BY <1>1, <1>3, <1>4, <1>5 DEF Reads
<1>7. f[M] = first
  <2> DEFINE P == { i \in 0 .. M : f[i] = g[i] }
  <2> HIDE DEF M, N, ab
  <2>1. 0 \in P
    BY <1>1, <1>6
  <2>2. ASSUME NEW i \in 1 .. M, i - 1 \in P PROVE i \in P
    <3>1. i \in 0 .. M /\ i \in 1 .. M + N /\ f[i - 1] = g[i - 1] /\ ab[i] = a[i]
      BY <1>1, <2>2
    <3>2. f[i] = Behind(instance, ab[i], f[i - 1]) /\ g[i] = Behind(instance, a[i], g[i - 1])
      BY <1>6, <3>1
    <3>3. f[i] = g[i]
      BY <3>1, <3>2, Zenon
    <3> QED
      BY <3>1, <3>3
  <2> HIDE DEF P
  <2>3. M \in P
    BY <1>1, <2>1, <2>2, UpTo
  <2> QED
    BY <1>4, <2>3 DEF P, M
<1>8. f[M + N] = Blizzard!Then(first, h[N])
  <2> DEFINE P == { i \in 0 .. N : f[M + i] = Blizzard!Then(first, h[i]) }
  <2> HIDE DEF M, N, ab
  <2>1. 0 \in P
    <3>1. first = Blizzard!Then(first, Blizzard!Read(first.at, <<>>))
      <4>1. CASE first.ok
        BY <1>2, <4>1, ThenNothing
      <4>2. CASE ~ first.ok
        <5>1. first = Blizzard!Corrupted
          BY <1>2, <4>2, ResultCases
        <5>2. Blizzard!Then(first, Blizzard!Read(first.at, <<>>)) = Blizzard!Corrupted
          BY <1>2, <4>2, ThenCases, ThenNothing
        <5> QED
          BY <5>1, <5>2, Zenon
      <4> QED
        BY <4>1, <4>2
    <3>2. f[M + 0] = f[M] /\ 0 \in 0 .. N
      BY <1>1
    <3>3. f[M + 0] = Blizzard!Then(first, h[0])
      BY <1>6, <1>7, <3>1, <3>2, Zenon
    <3> QED
      BY <3>2, <3>3
  <2>2. ASSUME NEW i \in 1 .. N, i - 1 \in P PROVE i \in P
    <3>1. i \in 0 .. N /\ M + i \in 1 .. M + N /\ (M + i) - 1 = M + (i - 1) /\ i - 1 \in 0 .. N
      BY <1>0
    <3>2. f[(M + i) - 1] = Blizzard!Then(first, h[i - 1])
      BY <2>2, <3>1
    <3>3. f[M + i] = Behind(instance, b[i], f[(M + i) - 1])
      BY <1>1, <1>6, <3>1
    <3>4. h[i] = Behind(instance, b[i], h[i - 1]) /\ h[i - 1] \in Results /\ b[i] \in T
      BY <1>1, <1>6, <3>1
    <3>5. Behind(instance, b[i], Blizzard!Then(first, h[i - 1]))
            = Blizzard!Then(first, Behind(instance, b[i], h[i - 1]))
      BY <1>2, <3>4, BehindThen
    <3>6. f[M + i] = Blizzard!Then(first, h[i])
      BY <3>2, <3>3, <3>4, <3>5, Zenon
    <3> QED
      BY <3>1, <3>6
  <2> HIDE DEF P
  <2>3. N \in P
    BY <1>1, <2>1, <2>2, UpTo
  <2> QED
    BY <2>3 DEF P
<1> QED
  <2>1. Blizzard!Listed(instance, ab, p)
          = Blizzard!Then(first, Blizzard!Listed(instance, b, first.at))
    BY <1>1, <1>3, <1>5, <1>8, Zenon
  <2> QED
    BY <2>1

(* A list of one type.                                                     *)
LEMMA ListedOne ==
  ASSUME NEW T, NEW instance, Knows(instance, T), NEW t \in T, NEW p \in Nat
  PROVE  Blizzard!Listed(instance, <<t>>, p) = instance[<<t, p>>]
<1> DEFINE one == <<t>>
<1>1. one \in Seq(T) /\ Len(one) = 1 /\ one[1] = t
  OBVIOUS
<1> HIDE DEF one
<1>2. PICK f : /\ Reads(f, instance, one, p)
               /\ Blizzard!Listed(instance, one, p) = f[Len(one)]
  BY <1>1, ListedReads
<1>3. f[1] = Behind(instance, t, f[0]) /\ f[0] = Blizzard!Read(p, <<>>)
  <2>1. 1 \in 1 .. 1 /\ 1 - 1 = 0
    OBVIOUS
  <2> QED
    BY <1>1, <1>2, <2>1 DEF Reads
<1>4. f[0].at = p
  <2>1. Blizzard!Read(p, <<>>).at = p
    BY Fields
  <2> QED
    BY <1>3, <2>1, Zenon
<1>5. instance[<<t, p>>] \in Results
  BY DEF Knows
<1>6. Blizzard!Then(Blizzard!Read(p, <<>>), instance[<<t, p>>]) = instance[<<t, p>>]
  BY <1>5, ThenNothing
<1>7. f[1] = instance[<<t, p>>]
  BY <1>3, <1>4, <1>6, Zenon DEF Behind
<1> QED
  BY <1>1, <1>2, <1>7 DEF one

(* An empty list.                                                          *)
LEMMA ListedNone ==
  ASSUME NEW T, NEW instance, Knows(instance, T), NEW p \in Nat
  PROVE  Blizzard!Listed(instance, <<>>, p) = Blizzard!Read(p, <<>>)
<1>1. <<>> \in Seq(T) /\ Len(<<>>) = 0
  OBVIOUS
<1>2. PICK f : /\ Reads(f, instance, <<>>, p)
               /\ Blizzard!Listed(instance, <<>>, p) = f[Len(<<>>)]
  BY <1>1, ListedReads
<1> QED
  BY <1>1, <1>2 DEF Reads

-----------------------------------------------------------------------------
(* The numbers of a stream.                                                *)

(* Both modules have the same streams.                                     *)
LEMMA SameStream ==
  /\ \A stream : Blizzard!Size(stream) = Size(stream)
  /\ \A q : Blizzard!Align(q) = Align(q)
  /\ \A stream, p, n : Blizzard!BitsAt(stream, p, n) = BitsAt(stream, p, n)
  /\ \A exponents, n : Blizzard!Natural(exponents, n) = Natural(exponents, n)
<1>1. \A stream : Blizzard!Size(stream) = Size(stream)
  BY DEF Blizzard!Size, Size
<1>2. \A q : Blizzard!Align(q) = Align(q)
  BY DEF Blizzard!Align, Align, Blizzard!ByteStart, ByteStart
<1>3. \A stream, p, n : Blizzard!BitsAt(stream, p, n) = BitsAt(stream, p, n)
  BY Zenon
     DEF Blizzard!BitsAt, BitsAt, Blizzard!Exponent, Exponent,
         Blizzard!Bit, Bit, Blizzard!RunStart, RunStart, Blizzard!RunEnd, RunEnd,
         Blizzard!Least, Least, Blizzard!Greater, Greater,
         Blizzard!ByteStart, ByteStart
<1>4. \A exponents, n : Blizzard!Natural(exponents, n) = Natural(exponents, n)
  BY Zenon DEF Blizzard!Natural, Natural
<1> QED
  BY <1>1, <1>2, <1>3, <1>4

(* The number of a type.                                                   *)
LEMMA TypeNumber ==
  ASSUME NEW t \in TypeIds, NEW stream, NEW p \in Nat
  PROVE  /\ TypeInfos[t].bits \in Nat /\ TypeInfos[t].bits <= Word /\ TypeInfos[t].min \in Int
         /\ Blizzard!Number(stream, p, TypeInfos[t]) \in Int
         /\ TypeInfos[t].min <= Blizzard!Number(stream, p, TypeInfos[t])
         /\ Blizzard!Number(stream, p, TypeInfos[t])
              <= TypeInfos[t].min + Ones(TypeInfos[t].bits)
         /\ Ones(TypeInfos[t].bits) \in Nat
<1> DEFINE type == TypeInfos[t]
           e == BitsAt(stream, p, type.bits)
<1>1. type.bits \in Nat /\ type.bits <= Word /\ type.min \in Int
  BY TypesAssumption, BufferAssumption DEF TypeIds
<1>2. Natural(e, type.bits) \in 0 .. Ones(type.bits) /\ Ones(type.bits) \in Nat
  <2> HIDE DEF e
  <2> QED
    BY <1>1, NaturalBound
<1>3. Blizzard!Number(stream, p, type) = type.min + Natural(e, type.bits)
  BY SameStream, Zenon DEF Blizzard!Number
<1> HIDE DEF e, type
<1>4. /\ Blizzard!Number(stream, p, type) \in Int
      /\ type.min <= Blizzard!Number(stream, p, type)
      /\ Blizzard!Number(stream, p, type) <= type.min + Ones(type.bits)
  BY <1>1, <1>2, <1>3
<1> QED
  BY <1>1, <1>2, <1>4 DEF type

(* Sequences of values.                                                    *)
LEMMA ValueSequences ==
  /\ \A v \in Values : <<v>> \in Seq(Values)
  /\ \A v, w \in Values : <<v, w>> \in Seq(Values) /\ <<v>> \o <<w>> = <<v, w>>
  /\ Int \subseteq Values /\ BOOLEAN \subseteq Values /\ Seq(Byte) \subseteq Values
  /\ \A p, n \in Nat : [from |-> p, bits |-> n] \in Values
<1>1. /\ Int \subseteq Values /\ BOOLEAN \subseteq Values /\ Seq(Byte) \subseteq Values
      /\ [from : Nat, bits : Nat] \subseteq Values
  BY DEF Values
<1> DEFINE V == Values
<1> HIDE DEF V
<1>2. \A v \in V : <<v>> \in Seq(V)
  OBVIOUS
<1>3. ASSUME NEW v \in V, NEW w \in V
      PROVE  <<v, w>> \in Seq(V) /\ <<v>> \o <<w>> = <<v, w>>
  <2> DEFINE s == <<v>>
             r == <<w>>
             u == <<v, w>>
  <2>1. s \in Seq(V) /\ r \in Seq(V) /\ u \in Seq(V)
    BY <1>2
  <2>2. /\ Len(s) = 1 /\ s[1] = v /\ Len(r) = 1 /\ r[1] = w
        /\ Len(u) = 2 /\ u[1] = v /\ u[2] = w
    OBVIOUS
  <2> HIDE DEF s, r, u
  <2>3. /\ s \o r \in Seq(V) /\ Len(s \o r) = 2
        /\ (s \o r)[1] = v /\ (s \o r)[2] = w
    <3>1. /\ s \o r \in Seq(V) /\ Len(s \o r) = 1 + 1
          /\ \A i \in 1 .. 1 + 1 : (s \o r)[i] = IF i <= 1 THEN s[i] ELSE r[i - 1]
      BY <2>1, <2>2, ConcatProperties
    <3>2. 1 \in 1 .. 1 + 1 /\ 2 \in 1 .. 1 + 1 /\ 1 <= 1 /\ ~ (2 <= 1) /\ 2 - 1 = 1 /\ 1 + 1 = 2
      OBVIOUS
    <3> QED
      BY <2>2, <3>1, <3>2
  <2>4. s \o r = u
    <3> DEFINE c == s \o r
    <3>1. \A i \in 1 .. 2 : i = 1 \/ i = 2
      OBVIOUS
    <3>2. c \in Seq(V) /\ Len(c) = Len(u) /\ \A i \in 1 .. Len(c) : c[i] = u[i]
      BY <2>2, <2>3, <3>1
    <3> HIDE DEF c
    <3>3. c = u
      BY <2>1, <3>2, SeqEqual
    <3> QED
      BY <3>3 DEF c
  <2> QED
    BY <2>1, <2>4 DEF s, r, u
<1>4. \A p, n \in Nat : [from |-> p, bits |-> n] \in [from : Nat, bits : Nat]
  OBVIOUS
<1> QED
  BY <1>1, <1>2, <1>3, <1>4, Zenon DEF V

(* The bytes of a blob.                                                    *)
LEMMA BlobBytes ==
  ASSUME NEW stream \in Seq(Byte), NEW p \in Nat, NEW n \in Nat,
         Blizzard!Has(stream, Blizzard!Align(p), n * ByteBits)
  PROVE  /\ Blizzard!Bytes(stream, Blizzard!Align(p), n) \in Seq(Byte)
         /\ Blizzard!Align(p) + n * ByteBits \in Nat
<1> DEFINE q == p + ByteBits - 1
           k == q \div ByteBits
           a == Blizzard!Align(p)
<1>1. ByteBits \in Nat \ {0} /\ q \in Nat /\ q \in Int
  BY BitStreamAssumption
<1>2. k \in Int /\ q % ByteBits \in 0 .. ByteBits - 1 /\ q = ByteBits * k + (q % ByteBits)
  <2> HIDE DEF q
  <2> QED
    BY <1>1, Division
<1>3. a = q - (q % ByteBits)
  BY SameStream DEF Align, ByteStart
<1> HIDE DEF q, k, a
<1>4. a = ByteBits * k /\ ByteBits * k \in Int
  BY <1>1, <1>2, <1>3
<1>5. k \in Nat
  <2> SUFFICES ASSUME k < 0 PROVE FALSE
    BY <1>2
  <2>1. ByteBits * k + ByteBits <= ByteBits * 0
    BY <1>2, Multiples
  <2> QED
    BY <1>1, <1>2, <1>4, <2>1
<1>6. a \div ByteBits = k /\ a \in Nat
  <2>1. a = k * ByteBits + 0 /\ 0 \in 0 .. ByteBits - 1
    BY <1>1, <1>4, <1>5
  <2>2. (k * ByteBits + 0) \div ByteBits = k
    BY <1>5, <2>1, BitOfByte
  <2>3. ByteBits * k \in Nat
    BY <1>1, <1>5
  <2> QED
    BY <1>4, <2>1, <2>2, <2>3
<1>7. k + n <= Len(stream)
  <2> SUFFICES ASSUME Len(stream) < k + n PROVE FALSE
    BY <1>5
  <2>1. ByteBits * Len(stream) + ByteBits <= ByteBits * (k + n)
    BY <1>5, Multiples
  <2>2. a + n * ByteBits <= Len(stream) * ByteBits
    BY SameStream DEF Blizzard!Has, Size, a
  <2>3. /\ ByteBits * (k + n) = ByteBits * k + n * ByteBits
        /\ Len(stream) * ByteBits = ByteBits * Len(stream)
        /\ ByteBits * Len(stream) \in Int /\ n * ByteBits \in Int
    BY <1>1, <1>5
  <2> QED
    BY <1>1, <1>4, <2>1, <2>2, <2>3
<1>8. Blizzard!Bytes(stream, a, n) = SubSeq(stream, k + 1, k + n)
  BY <1>6, Zenon DEF Blizzard!Bytes
<1>9. SubSeq(stream, k + 1, k + n) \in Seq(Byte)
  <2>1. k + 1 \in Int /\ k + n \in Int /\ \A i \in k + 1 .. k + n : stream[i] \in Byte
    BY <1>5, <1>7
  <2> HIDE DEF k
  <2> QED
    BY <2>1, SubSeqProperties
<1>10. a + n * ByteBits \in Nat
  <2>1. n * ByteBits \in Nat
    BY <1>1
  <2> QED
    BY <1>6, <2>1
<1> QED
  BY <1>8, <1>9, <1>10 DEF a

-----------------------------------------------------------------------------
(* Instances.                                                              *)

(* The instance of a type at p begins with vs, which ends at q, and some   *)
(* types come next.                                                        *)
Begins(stream, instance, t, p, q, vs, types) ==
  /\ q \in Nat /\ vs \in Seq(Values) /\ types \in Seq(Before(t))
  /\ Blizzard!Instance(stream, instance, TypeInfos[t], p)
       = Blizzard!Then(Blizzard!Read(q, vs), Blizzard!Listed(instance, types, q))

(* No types are types before any type.                                     *)
LEMMA EmptyList ==
  ASSUME NEW t
  PROVE  <<>> \in Seq(Before(t))
OBVIOUS

(* What is read in one piece.                                              *)
LEMMA BeginsAlone ==
  ASSUME NEW stream, NEW t, NEW instance, Knows(instance, Before(t)), NEW p, NEW q \in Nat,
         NEW vs \in Seq(Values),
         Blizzard!Instance(stream, instance, TypeInfos[t], p) = Blizzard!Read(q, vs)
  PROVE  Begins(stream, instance, t, p, q, vs, <<>>)
<1> DEFINE r == Blizzard!Read(q, vs)
<1>1. r \in Results /\ r.ok /\ r.at = q
  BY ReadResult, Fields
<1> HIDE DEF r
<1>2. Blizzard!Then(r, Blizzard!Read(q, <<>>)) = r
  BY <1>1, ThenNothing
<1>3. Blizzard!Listed(instance, <<>>, q) = Blizzard!Read(q, <<>>)
  BY ListedNone
<1>4. Blizzard!Instance(stream, instance, TypeInfos[t], p)
        = Blizzard!Then(r, Blizzard!Listed(instance, <<>>, q))
  BY <1>2, <1>3, Zenon DEF r
<1>5. <<>> \in Seq(Before(t))
  BY EmptyList
<1> QED
  BY <1>4, <1>5 DEF Begins, r

(* What is read for nothing: the rest is what there is.                    *)
LEMMA BeginsWithTypes ==
  ASSUME NEW stream, NEW t, NEW instance, Knows(instance, Before(t)), NEW p \in Nat,
         NEW types \in Seq(Before(t)),
         Blizzard!Instance(stream, instance, TypeInfos[t], p)
           = Blizzard!Listed(instance, types, p)
  PROVE  Begins(stream, instance, t, p, p, <<>>, types)
<1>2. Blizzard!Listed(instance, types, p) \in Results
  BY ListedResult
<1>3. Blizzard!Then(Blizzard!Read(p, <<>>), Blizzard!Listed(instance, types, p))
        = Blizzard!Listed(instance, types, p)
  BY <1>2, ThenNothing
<1>4. <<>> \in Seq(Values)
  BY BothValues
<1> QED
  BY <1>3, <1>4 DEF Begins

(* Types that are made of types only.                                      *)
LEMMA PlainInstance ==
  ASSUME NEW stream, NEW t \in TypeIds, NEW instance, Knows(instance, Before(t)), NEW p \in Nat
  PROVE  /\ TypeInfos[t].kind = "null" =>
              Begins(stream, instance, t, p, p, <<>>, <<>>)
         /\ TypeInfos[t].kind = "struct" =>
              /\ TypeInfos[t].fields \in Seq(Before(t))
              /\ Begins(stream, instance, t, p, p, <<>>, TypeInfos[t].fields)
<1> DEFINE type == TypeInfos[t]
<1>1. CASE type.kind = "null"
  <2>1. Blizzard!Instance(stream, instance, type, p) = Blizzard!Read(p, <<>>)
    BY <1>1 DEF Blizzard!Instance
  <2>2. <<>> \in Seq(Values)
    BY BothValues
  <2>3. Begins(stream, instance, t, p, p, <<>>, <<>>)
    BY <2>1, <2>2, BeginsAlone
  <2> QED
    BY <1>1, <2>3
<1>2. CASE type.kind = "struct"
  <2>1. type.fields \in Seq(Before(t))
    BY <1>2, TypesAssumption DEF TypeIds
  <2>2. Blizzard!Instance(stream, instance, type, p)
          = Blizzard!Listed(instance, type.fields, p)
    BY <1>2 DEF Blizzard!Instance
  <2>3. Begins(stream, instance, t, p, p, <<>>, type.fields)
    BY <2>1, <2>2, BeginsWithTypes
  <2> QED
    BY <1>2, <2>1, <2>3
<1> QED
  BY <1>1, <1>2

(* A number that does not end in the stream.                               *)
LEMMA NumberEnds ==
  ASSUME NEW stream, NEW instance, NEW t \in TypeIds, NEW p,
         TypeInfos[t].kind \notin {"null", "struct"},
         ~ Blizzard!Has(stream, p, TypeInfos[t].bits)
  PROVE  Blizzard!Instance(stream, instance, TypeInfos[t], p) = Blizzard!Corrupted
BY DEF Blizzard!Instance

(* What an instance begins with whose number ends in the stream.           *)
NumberBegins(stream, instance, t, p, type, after, n) ==
  /\ type.kind = "int" =>
       Begins(stream, instance, t, p, after, <<n>>, <<>>)
  /\ type.kind = "bool" =>
       Begins(stream, instance, t, p, after, <<n # 0>>, <<>>)
  /\ type.kind = "array" =>
       n \in Nat /\ Begins(stream, instance, t, p, after, <<n>>,
                           [i \in 1 .. n |-> type.item])
  /\ type.kind = "optional" =>
       Begins(stream, instance, t, p, after, <<n>>,
              IF n # 0 THEN <<type.item>> ELSE <<>>)
  /\ type.kind = "choice" =>
       IF n \in DOMAIN type.choices
       THEN Begins(stream, instance, t, p, after, <<n>>, <<type.choices[n]>>)
       ELSE Blizzard!Instance(stream, instance, type, p) = Blizzard!Corrupted
  /\ type.kind = "blob" =>
       /\ n \in Nat
       /\ LET start == Blizzard!Align(after)
          IN IF Blizzard!Has(stream, start, n * ByteBits)
             THEN Begins(stream, instance, t, p, start + n * ByteBits,
                         <<n, Blizzard!Bytes(stream, start, n)>>, <<>>)
             ELSE Blizzard!Instance(stream, instance, type, p) = Blizzard!Corrupted
  /\ type.kind = "bitArray" =>
       /\ n \in Nat
       /\ IF Blizzard!Has(stream, after, n)
          THEN Begins(stream, instance, t, p, after + n,
                      <<n, [from |-> after, bits |-> n]>>, <<>>)
          ELSE Blizzard!Instance(stream, instance, type, p) = Blizzard!Corrupted

(* The types that begin with a number, once it is there.                   *)
LEMMA NumberInstance ==
  ASSUME NEW stream \in Seq(Byte), NEW t \in TypeIds,
         NEW instance, Knows(instance, Before(t)), NEW p \in Nat,
         NEW type, type = TypeInfos[t], Blizzard!Has(stream, p, type.bits),
         NEW after, after = p + type.bits,
         NEW n, n = Blizzard!Number(stream, p, type)
  PROVE  NumberBegins(stream, instance, t, p, type, after, n)
<1> DEFINE E == Blizzard!Instance(stream, instance, type, p)
           Holds(types) == Blizzard!Then(Blizzard!Read(after, <<n>>),
                                         Blizzard!Listed(instance, types, after))
<1>1. /\ after \in Nat /\ n \in Int /\ type.min <= n /\ type.min \in Int
      /\ <<n>> \in Seq(Values) /\ <<n # 0>> \in Seq(Values)
  <2>1. after \in Nat /\ n \in Int /\ type.min <= n /\ type.min \in Int
    <3>1. /\ type.bits \in Nat /\ type.min \in Int /\ Blizzard!Number(stream, p, type) \in Int
          /\ type.min <= Blizzard!Number(stream, p, type)
      BY TypeNumber, Zenon
    <3> QED
      BY <3>1
  <2>2. n \in Values /\ (n # 0) \in Values
    BY <2>1, ValueSequences
  <2> DEFINE flag == n # 0
  <2>3. flag \in Values
    BY <2>2
  <2> HIDE DEF flag
  <2>4. <<n>> \in Seq(Values) /\ <<flag>> \in Seq(Values)
    BY <2>2, <2>3, ValueSequences
  <2> QED
    BY <2>1, <2>4 DEF flag
<1>2. type.kind \in {"array", "blob", "bitArray"} => n \in Nat
  <2>1. type.kind \in {"array", "blob", "bitArray"} => type.min >= 0
    BY TypesAssumption DEF TypeIds
  <2> QED
    BY <1>1, <2>1
<1>3. ASSUME NEW types \in Seq(Before(t)), E = Holds(types)
      PROVE  Begins(stream, instance, t, p, after, <<n>>, types)
  BY <1>1, <1>3 DEF Begins
<1>4. CASE type.kind = "int"
  <2>1. E = Blizzard!Read(after, <<n>>)
    BY <1>4 DEF Blizzard!Instance
  <2>2. Begins(stream, instance, t, p, after, <<n>>, <<>>)
    BY <1>1, <2>1, BeginsAlone
  <2> QED
    BY <1>4, <2>2 DEF NumberBegins
<1>5. CASE type.kind = "bool"
  <2>1. E = Blizzard!Read(after, <<n # 0>>)
    BY <1>5 DEF Blizzard!Instance
  <2>2. Begins(stream, instance, t, p, after, <<n # 0>>, <<>>)
    BY <1>1, <2>1, BeginsAlone
  <2> QED
    BY <1>5, <2>2 DEF NumberBegins
<1>6. CASE type.kind = "array"
  <2> DEFINE types == [i \in 1 .. n |-> type.item]
  <2>1. E = Holds(types)
    BY <1>6 DEF Blizzard!Instance
  <2>2. type.item \in Before(t)
    BY <1>6, TypesAssumption DEF TypeIds
  <2>3. n \in Nat
    BY <1>2, <1>6
  <2>4. types \in Seq(Before(t))
    BY <2>2, <2>3
  <2> HIDE DEF types
  <2>5. Begins(stream, instance, t, p, after, <<n>>, types)
    BY <1>3, <2>1, <2>4
  <2> QED
    BY <1>6, <2>3, <2>5 DEF types, NumberBegins
<1>7. CASE type.kind = "optional"
  <2> DEFINE types == IF n # 0 THEN <<type.item>> ELSE <<>>
  <2>1. E = Holds(types)
    BY <1>7 DEF Blizzard!Instance
  <2>2. type.item \in Before(t)
    BY <1>7, TypesAssumption DEF TypeIds
  <2>3. types \in Seq(Before(t))
    BY <2>2
  <2> HIDE DEF types
  <2>4. Begins(stream, instance, t, p, after, <<n>>, types)
    BY <1>3, <2>1, <2>3
  <2> QED
    BY <1>7, <2>4 DEF types, NumberBegins
<1>8. CASE type.kind = "choice" /\ n \in DOMAIN type.choices
  <2> DEFINE types == <<type.choices[n]>>
  <2>1. E = Holds(types)
    BY <1>8 DEF Blizzard!Instance
  <2>2. type.choices[n] \in Before(t)
    BY <1>8, TypesAssumption DEF TypeIds
  <2>3. types \in Seq(Before(t))
    BY <2>2
  <2> HIDE DEF types
  <2>4. Begins(stream, instance, t, p, after, <<n>>, types)
    BY <1>3, <2>1, <2>3
  <2> QED
    BY <1>8, <2>4 DEF types, NumberBegins
<1>9. CASE type.kind = "choice" /\ n \notin DOMAIN type.choices
  <2>1. E = Blizzard!Corrupted
    BY <1>9 DEF Blizzard!Instance
  <2> QED
    BY <1>9, <2>1 DEF NumberBegins
<1>10. CASE type.kind = "blob"
  <2> DEFINE start == Blizzard!Align(after)
             vs == <<n, Blizzard!Bytes(stream, start, n)>>
  <2>1. n \in Nat
    BY <1>2, <1>10
  <2>2. CASE Blizzard!Has(stream, start, n * ByteBits)
    <3>1. E = Blizzard!Read(start + n * ByteBits, vs)
      BY <1>10, <2>2 DEF Blizzard!Instance
    <3>2. Blizzard!Bytes(stream, start, n) \in Seq(Byte) /\ start + n * ByteBits \in Nat
      BY <1>1, <2>1, <2>2, BlobBytes
    <3>3. vs \in Seq(Values)
      <4> DEFINE b == Blizzard!Bytes(stream, start, n)
      <4>1. n \in Values /\ b \in Values
        BY <1>1, <3>2, ValueSequences
      <4> HIDE DEF b
      <4> QED
        BY <4>1, ValueSequences DEF vs, b
    <3> HIDE DEF vs
    <3>4. Begins(stream, instance, t, p, start + n * ByteBits, vs, <<>>)
      BY <3>1, <3>2, <3>3, BeginsAlone
    <3> QED
      BY <1>10, <2>1, <2>2, <3>4 DEF vs, NumberBegins
  <2>3. CASE ~ Blizzard!Has(stream, start, n * ByteBits)
    <3>1. E = Blizzard!Corrupted
      BY <1>10, <2>3 DEF Blizzard!Instance
    <3> QED
      BY <1>10, <2>1, <2>3, <3>1 DEF NumberBegins
  <2> QED
    BY <2>2, <2>3
<1>11. CASE type.kind = "bitArray"
  <2> DEFINE where == [from |-> after, bits |-> n]
  <2>1. n \in Nat
    BY <1>2, <1>11
  <2>2. CASE Blizzard!Has(stream, after, n)
    <3>1. E = Blizzard!Read(after + n, <<n, where>>)
      BY <1>11, <2>2 DEF Blizzard!Instance
    <3>2. n \in Values /\ where \in Values
      BY <1>1, <2>1, ValueSequences
    <3> HIDE DEF where
    <3>3. <<n, where>> \in Seq(Values) /\ after + n \in Nat
      BY <1>1, <2>1, <3>2, ValueSequences
    <3>4. Begins(stream, instance, t, p, after + n, <<n, where>>, <<>>)
      BY <3>1, <3>3, BeginsAlone
    <3> QED
      BY <1>11, <2>1, <2>2, <3>4 DEF where, NumberBegins
  <2>3. CASE ~ Blizzard!Has(stream, after, n)
    <3>1. E = Blizzard!Corrupted
      BY <1>11, <2>3 DEF Blizzard!Instance
    <3> QED
      BY <1>11, <2>1, <2>3, <3>1 DEF NumberBegins
  <2> QED
    BY <2>2, <2>3
<1> QED
  <2> HIDE DEF E, Holds
  <2>1. type.kind \in Kinds
    BY TypesAssumption DEF TypeIds
  <2> QED
    BY <1>4, <1>5, <1>6, <1>7, <1>8, <1>9, <1>10, <1>11 DEF NumberBegins

(* Whatever the decoder, an instance begins in the same way.               *)
LEMMA InstanceBegins ==
  ASSUME NEW stream \in Seq(Byte), NEW t \in TypeIds, NEW p \in Nat,
         NEW inst1, Knows(inst1, Before(t)), NEW inst2, Knows(inst2, Before(t))
  PROVE  \/ /\ Blizzard!Instance(stream, inst1, TypeInfos[t], p) = Blizzard!Corrupted
            /\ Blizzard!Instance(stream, inst2, TypeInfos[t], p) = Blizzard!Corrupted
         \/ \E q, vs, types : /\ Begins(stream, inst1, t, p, q, vs, types)
                              /\ Begins(stream, inst2, t, p, q, vs, types)
<1> DEFINE type == TypeInfos[t]
           after == p + type.bits
           n == Blizzard!Number(stream, p, type)
<1>1. CASE type.kind \in {"null", "struct"}
  <2>1. CASE type.kind = "null"
    <3>1. /\ Begins(stream, inst1, t, p, p, <<>>, <<>>)
          /\ Begins(stream, inst2, t, p, p, <<>>, <<>>)
      BY <2>1, PlainInstance
    <3> QED
      BY <3>1, Zenon
  <2>2. CASE type.kind = "struct"
    <3>1. /\ Begins(stream, inst1, t, p, p, <<>>, type.fields)
          /\ Begins(stream, inst2, t, p, p, <<>>, type.fields)
      BY <2>2, PlainInstance
    <3> QED
      BY <3>1, Zenon
  <2> QED
    BY <1>1, <2>1, <2>2
<1>2. CASE type.kind \notin {"null", "struct"} /\ ~ Blizzard!Has(stream, p, type.bits)
  BY <1>2, NumberEnds
<1>3. CASE type.kind \notin {"null", "struct"} /\ Blizzard!Has(stream, p, type.bits)
  <2>1. NumberBegins(stream, inst1, t, p, type, after, n)
    BY <1>3, NumberInstance
  <2>2. NumberBegins(stream, inst2, t, p, type, after, n)
    BY <1>3, NumberInstance
  <2>3. type.kind \in Kinds
    BY TypesAssumption DEF TypeIds
  <2> HIDE DEF n, after
  <2> QED
    BY <1>3, <2>1, <2>2, <2>3 DEF NumberBegins, Kinds
<1> QED
  BY <1>1, <1>2, <1>3

(* The types before a type are types.                                      *)
LEMMA BeforeIds ==
  ASSUME NEW t
  PROVE  Before(t) \subseteq TypeIds
BY DEF Before, TypeIds

(* The instance of a type is a result.                                     *)
LEMMA InstanceResult ==
  ASSUME NEW stream \in Seq(Byte), NEW t \in TypeIds, NEW p \in Nat,
         NEW instance, Knows(instance, Before(t))
  PROVE  Blizzard!Instance(stream, instance, TypeInfos[t], p) \in Results
<1>1. CASE Blizzard!Instance(stream, instance, TypeInfos[t], p) = Blizzard!Corrupted
  BY <1>1, CorruptedResult
<1>2. ASSUME NEW q, NEW vs, NEW types, Begins(stream, instance, t, p, q, vs, types)
      PROVE  Blizzard!Instance(stream, instance, TypeInfos[t], p) \in Results
  <2>1. /\ q \in Nat /\ vs \in Seq(Values) /\ types \in Seq(Before(t))
        /\ Blizzard!Instance(stream, instance, TypeInfos[t], p)
             = Blizzard!Then(Blizzard!Read(q, vs), Blizzard!Listed(instance, types, q))
    BY <1>2 DEF Begins
  <2>2. Blizzard!Read(q, vs) \in Results /\ Blizzard!Listed(instance, types, q) \in Results
    BY <2>1, ReadResult, ListedResult
  <2>3. Blizzard!Then(Blizzard!Read(q, vs), Blizzard!Listed(instance, types, q)) \in Results
    BY <2>2, ThenCases
  <2> QED
    BY <2>1, <2>3, Zenon
<1> QED
  BY <1>1, <1>2, InstanceBegins

(* An instance depends on those of the types before it only.               *)
LEMMA InstanceAgrees ==
  ASSUME NEW stream \in Seq(Byte), NEW t \in TypeIds, NEW p \in Nat,
         NEW inst1, Knows(inst1, Before(t)), NEW inst2, Knows(inst2, Before(t)),
         \A u \in Before(t), r \in Nat : inst1[<<u, r>>] = inst2[<<u, r>>]
  PROVE  Blizzard!Instance(stream, inst1, TypeInfos[t], p)
           = Blizzard!Instance(stream, inst2, TypeInfos[t], p)
<1>1. CASE /\ Blizzard!Instance(stream, inst1, TypeInfos[t], p) = Blizzard!Corrupted
           /\ Blizzard!Instance(stream, inst2, TypeInfos[t], p) = Blizzard!Corrupted
  BY <1>1, Zenon
<1>2. ASSUME NEW q, NEW vs, NEW types,
             Begins(stream, inst1, t, p, q, vs, types),
             Begins(stream, inst2, t, p, q, vs, types)
      PROVE  Blizzard!Instance(stream, inst1, TypeInfos[t], p)
               = Blizzard!Instance(stream, inst2, TypeInfos[t], p)
  <2>1. q \in Nat /\ types \in Seq(Before(t))
    BY <1>2 DEF Begins
  <2>2. Blizzard!Listed(inst1, types, q) = Blizzard!Listed(inst2, types, q)
    <3> DEFINE T == Before(t)
    <3>1. /\ Knows(inst1, T) /\ Knows(inst2, T) /\ types \in Seq(T)
          /\ \A u \in T, r \in Nat : inst1[<<u, r>>] = inst2[<<u, r>>]
      BY <2>1
    <3> HIDE DEF T
    <3> QED
      BY <2>1, <3>1, ListedAgrees
  <2> QED
    BY <1>2, <2>2, Zenon DEF Begins
<1> QED
  BY <1>1, <1>2, InstanceBegins, Zenon

-----------------------------------------------------------------------------
(* The decoder.                                                            *)

(* A decoder has a result for every type.                                  *)
LEMMA DecoderKnows ==
  ASSUME NEW instance \in Decoders
  PROVE  Knows(instance, TypeIds) /\ \A t : Knows(instance, Before(t))
<1>1. Knows(instance, TypeIds)
  <2>1. \A t \in TypeIds, p \in Nat : <<t, p>> \in TypeIds \X Nat
    OBVIOUS
  <2> QED
    BY <2>1 DEF Knows, Decoders
<1>2. ASSUME NEW t PROVE Knows(instance, Before(t))
  BY <1>1, BeforeIds DEF Knows
<1> QED
  BY <1>1, <1>2

(* A decoder from another one: what is known about more types.             *)
Improved(stream, instance) ==
  [x \in TypeIds \X Nat |-> Blizzard!Instance(stream, instance, TypeInfos[x[1]], x[2])]

(* A decoder that has been improved is one.                                *)
LEMMA ImprovedDecoder ==
  ASSUME NEW stream \in Seq(Byte), NEW instance \in Decoders
  PROVE  /\ Improved(stream, instance) \in Decoders
         /\ \A t \in TypeIds, p \in Nat :
              Improved(stream, instance)[<<t, p>>]
                = Blizzard!Instance(stream, instance, TypeInfos[t], p)
<1>1. ASSUME NEW x \in TypeIds \X Nat
      PROVE  Blizzard!Instance(stream, instance, TypeInfos[x[1]], x[2]) \in Results
  <2>1. x[1] \in TypeIds /\ x[2] \in Nat
    OBVIOUS
  <2> QED
    BY <2>1, InstanceResult, DecoderKnows
<1>2. Improved(stream, instance) \in Decoders
  BY <1>1 DEF Improved, Decoders
<1>3. ASSUME NEW t \in TypeIds, NEW p \in Nat
      PROVE  Improved(stream, instance)[<<t, p>>]
               = Blizzard!Instance(stream, instance, TypeInfos[t], p)
  <2> DEFINE x == <<t, p>>
  <2>1. x \in TypeIds \X Nat /\ x[1] = t /\ x[2] = p
    OBVIOUS
  <2> HIDE DEF x
  <2>2. Improved(stream, instance)[x] = Blizzard!Instance(stream, instance, TypeInfos[x[1]], x[2])
    BY <2>1, Zenon DEF Improved
  <2> QED
    BY <2>1, <2>2, Zenon DEF x
<1> QED
  BY <1>2, <1>3

(* There is a decoder that is improved by nothing.                         *)
LEMMA DecoderExists ==
  ASSUME NEW stream \in Seq(Byte)
  PROVE  \E f \in Decoders : f = Improved(stream, f)
<1> DEFINE L == LastType
           base == [x \in TypeIds \X Nat |-> Blizzard!Corrupted]
           step == [i \in 1 .. L + 2 |-> [f \in Decoders |-> Improved(stream, f)]]
<1>1. L \in Nat /\ L + 2 \in Nat /\ TypeIds \subseteq 0 .. L
  BY TypesAssumption DEF TypeIds
<1>2. base \in Decoders
  BY CorruptedResult DEF Decoders
<1>3. step \in [1 .. L + 2 -> [Decoders -> Decoders]]
  BY ImprovedDecoder
<1> HIDE DEF base, L
<1>4. PICK f \in [0 .. L + 2 -> Decoders] : Runs(f, L + 2, base, step)
  <2> HIDE DEF step
  <2> QED
    BY <1>1, <1>2, <1>3, LoopRuns
<1>5. \A i \in 1 .. L + 2 : f[i - 1] \in Decoders /\ f[i] = Improved(stream, f[i - 1])
  <2> SUFFICES ASSUME NEW i \in 1 .. L + 2
               PROVE  f[i - 1] \in Decoders /\ f[i] = Improved(stream, f[i - 1])
    OBVIOUS
  <2>1. f[i - 1] \in Decoders
    BY <1>1
  <2>2. f[i] = step[i][f[i - 1]]
    BY <1>4 DEF Runs
  <2> QED
    BY <2>1, <2>2
<1> DEFINE P == { i \in 0 .. L + 1 : \A t \in TypeIds, p \in Nat :
                    t < i => f[i][<<t, p>>] = f[i + 1][<<t, p>>] }
<1>6. 0 \in P
  BY <1>1
<1>7. ASSUME NEW i \in 1 .. L + 1, i - 1 \in P PROVE i \in P
  <2>1. /\ i \in 1 .. L + 2 /\ i + 1 \in 1 .. L + 2 /\ (i + 1) - 1 = i /\ i \in 0 .. L + 1
        /\ (i - 1) + 1 = i /\ i \in Nat
    BY <1>1
  <2> DEFINE inst1 == f[i - 1]
             inst2 == f[i]
  <2>2. /\ inst1 \in Decoders /\ inst2 \in Decoders
        /\ f[i] = Improved(stream, inst1) /\ f[i + 1] = Improved(stream, inst2)
    <3>1. f[i - 1] \in Decoders /\ f[i] = Improved(stream, f[i - 1])
      BY <1>5, <2>1, Zenon
    <3>2. f[(i + 1) - 1] \in Decoders /\ f[i + 1] = Improved(stream, f[(i + 1) - 1])
      BY <1>5, <2>1, Zenon
    <3> QED
      BY <2>1, <3>1, <3>2, Zenon
  <2>3. \A t \in TypeIds, p \in Nat : t < i - 1 => inst1[<<t, p>>] = inst2[<<t, p>>]
    BY <1>7, <2>1
  <2> HIDE DEF inst1, inst2, P
  <2>4. ASSUME NEW t \in TypeIds, NEW p \in Nat, t < i
        PROVE  f[i][<<t, p>>] = f[i + 1][<<t, p>>]
    <3>1. \A u \in Before(t), r \in Nat : inst1[<<u, r>>] = inst2[<<u, r>>]
      <4>1. ASSUME NEW u \in Before(t) PROVE u \in TypeIds /\ u < i - 1
        BY <1>1, <2>1, <2>4 DEF Before, TypeIds
      <4> QED
        BY <2>3, <4>1
    <3>2. Blizzard!Instance(stream, inst1, TypeInfos[t], p)
            = Blizzard!Instance(stream, inst2, TypeInfos[t], p)
      <4>1. Knows(inst1, Before(t)) /\ Knows(inst2, Before(t))
        BY <2>2, DecoderKnows
      <4> QED
        BY <3>1, <4>1, InstanceAgrees
    <3>3. /\ Improved(stream, inst1)[<<t, p>>] = Blizzard!Instance(stream, inst1, TypeInfos[t], p)
          /\ Improved(stream, inst2)[<<t, p>>] = Blizzard!Instance(stream, inst2, TypeInfos[t], p)
      BY <2>2, ImprovedDecoder
    <3> QED
      BY <2>2, <3>2, <3>3, Zenon
  <2> QED
    BY <2>1, <2>4 DEF P
<1>8. L + 1 \in P
  <2> HIDE DEF P
  <2> QED
    BY <1>1, <1>6, <1>7, UpTo
<1> DEFINE g == f[L + 1]
           h == f[(L + 1) + 1]
<1>9. g \in Decoders /\ h = Improved(stream, g)
  <2>1. L + 2 \in 1 .. L + 2 /\ (L + 2) - 1 = L + 1 /\ (L + 1) + 1 = L + 2
    BY <1>1
  <2>2. f[(L + 2) - 1] \in Decoders /\ f[L + 2] = Improved(stream, f[(L + 2) - 1])
    BY <1>5, <2>1, Zenon
  <2> QED
    BY <2>1, <2>2, Zenon
<1>10. h \in Decoders
  BY <1>9, ImprovedDecoder
<1>11. \A t \in TypeIds, p \in Nat : g[<<t, p>>] = h[<<t, p>>]
  <2>1. \A t \in TypeIds : t < L + 1
    BY <1>1
  <2> QED
    BY <1>8, <2>1
<1> HIDE DEF g, h
<1>12. g = h
  <2>1. ASSUME NEW x \in TypeIds \X Nat PROVE g[x] = h[x]
    <3>1. PICK t \in TypeIds, p \in Nat : x = <<t, p>>
      OBVIOUS
    <3> QED
      BY <1>11, <3>1
  <2> QED
    BY <1>9, <1>10, <2>1 DEF Decoders
<1> QED
  BY <1>9, <1>12

(* Blizzard's recursive function exists: the tables are well-founded, so   *)
(* the instance of every type at every position is what its definition     *)
(* says.                                                                   *)
THEOREM DecoderInstance ==
  ASSUME NEW stream \in Seq(Byte)
  PROVE  /\ Blizzard!Decoder(stream) \in Decoders
         /\ \A t \in TypeIds, p \in Nat :
              Blizzard!Decoder(stream)[<<t, p>>]
                = Blizzard!Instance(stream, Blizzard!Decoder(stream), TypeInfos[t], p)
<1> DEFINE Is(f) == f = [x \in TypeIds \X Nat |->
                           Blizzard!Instance(stream, f, TypeInfos[x[1]], x[2])]
           g == CHOOSE f : Is(f)
<1>1. Blizzard!Decoder(stream) = g
  BY DEF Blizzard!Decoder, TypeIds
<1>2. PICK f \in Decoders : Is(f)
  BY DecoderExists DEF Improved
<1>3. Is(g)
  <2> HIDE DEF Is
  <2> QED
    BY <1>2, Zenon
<1> HIDE DEF g
<1>4. \A t \in TypeIds, p \in Nat :
        g[<<t, p>>] = Blizzard!Instance(stream, g, TypeInfos[t], p)
  <2>1. ASSUME NEW t \in TypeIds, NEW p \in Nat
        PROVE  g[<<t, p>>] = Blizzard!Instance(stream, g, TypeInfos[t], p)
    <3> DEFINE x == <<t, p>>
    <3>1. x \in TypeIds \X Nat /\ x[1] = t /\ x[2] = p
      OBVIOUS
    <3> HIDE DEF x
    <3>2. g[x] = Blizzard!Instance(stream, g, TypeInfos[x[1]], x[2])
      BY <1>3, <3>1, Zenon
    <3> QED
      BY <3>1, <3>2, Zenon DEF x
  <2> QED
    BY <2>1
<1> DEFINE L == LastType + 1
           P == { i \in 0 .. L : \A t \in TypeIds, p \in Nat : t < i => g[<<t, p>>] \in Results }
<1>5. L \in Nat /\ \A t \in TypeIds : t \in Nat /\ t < L
  BY TypesAssumption DEF TypeIds
<1> HIDE DEF L
<1>6. 0 \in P
  BY <1>5
<1>7. ASSUME NEW i \in 1 .. L, i - 1 \in P PROVE i \in P
  <2>1. i \in 0 .. L /\ i \in Nat
    BY <1>5
  <2>2. \A t \in TypeIds, p \in Nat : t < i - 1 => g[<<t, p>>] \in Results
    BY <1>7
  <2>3. ASSUME NEW t \in TypeIds, NEW p \in Nat, t < i PROVE g[<<t, p>>] \in Results
    <3>1. Knows(g, Before(t))
      <4>1. ASSUME NEW u \in Before(t) PROVE u \in TypeIds /\ u < i - 1
        BY <1>5, <2>1, <2>3 DEF Before, TypeIds
      <4> QED
        BY <2>2, <4>1, BeforeIds DEF Knows
    <3>2. Blizzard!Instance(stream, g, TypeInfos[t], p) \in Results
      BY <3>1, InstanceResult
    <3> QED
      BY <1>4, <3>2, Zenon
  <2> QED
    BY <2>1, <2>3
<1>8. L \in P
  <2> HIDE DEF P
  <2> QED
    BY <1>5, <1>6, <1>7, UpTo
<1>9. \A x \in TypeIds \X Nat : g[x] \in Results
  <2>1. ASSUME NEW x \in TypeIds \X Nat PROVE g[x] \in Results
    <3>1. PICK t \in TypeIds, p \in Nat : x = <<t, p>>
      OBVIOUS
    <3> QED
      BY <1>5, <1>8, <3>1
  <2> QED
    BY <2>1
<1>10. g \in Decoders
  <2> DEFINE e(x) == Blizzard!Instance(stream, g, TypeInfos[x[1]], x[2])
  <2>1. g = [x \in TypeIds \X Nat |-> e(x)]
    BY <1>3, Zenon
  <2> HIDE DEF e
  <2> QED
    BY <1>9, <2>1 DEF Decoders
<1> QED
  BY <1>1, <1>4, <1>10, Zenon

-----------------------------------------------------------------------------
(* Lists of instances.                                                     *)

(* The instance of some types is a result.                                 *)
LEMMA InstancesResult ==
  ASSUME NEW stream \in Seq(Byte), NEW types \in Seq(TypeIds), NEW p \in Nat
  PROVE  Blizzard!Instances(stream, types, p) \in Results
<1>1. Knows(Blizzard!Decoder(stream), TypeIds)
  BY DecoderInstance, DecoderKnows
<1> QED
  BY <1>1, ListedResult DEF Blizzard!Instances

(* Of no types there is nothing to read.                                   *)
LEMMA InstancesNone ==
  ASSUME NEW stream \in Seq(Byte), NEW p \in Nat
  PROVE  Blizzard!Instances(stream, <<>>, p) = Blizzard!Read(p, <<>>)
<1>1. Knows(Blizzard!Decoder(stream), TypeIds)
  BY DecoderInstance, DecoderKnows
<1> QED
  BY <1>1, ListedNone DEF Blizzard!Instances

(* Of one type it is the instance of the type.                             *)
LEMMA InstancesOne ==
  ASSUME NEW stream \in Seq(Byte), NEW t \in TypeIds, NEW p \in Nat
  PROVE  Blizzard!Instances(stream, <<t>>, p)
           = Blizzard!Instance(stream, Blizzard!Decoder(stream), TypeInfos[t], p)
<1>1. Knows(Blizzard!Decoder(stream), TypeIds)
  BY DecoderInstance, DecoderKnows
<1>2. Blizzard!Instances(stream, <<t>>, p) = Blizzard!Decoder(stream)[<<t, p>>]
  BY <1>1, ListedOne DEF Blizzard!Instances
<1> QED
  BY <1>2, DecoderInstance

(* A list is its first instance, and the others behind it.                 *)
LEMMA InstancesHead ==
  ASSUME NEW stream \in Seq(Byte), NEW types \in Seq(TypeIds), types # <<>>,
         NEW p \in Nat, NEW first,
         first = Blizzard!Instance(stream, Blizzard!Decoder(stream),
                                   TypeInfos[Head(types)], p)
  PROVE  /\ Head(types) \in TypeIds /\ Tail(types) \in Seq(TypeIds)
         /\ first \in Results
         /\ Blizzard!Instances(stream, types, p)
              = Blizzard!Then(first, Blizzard!Instances(stream, Tail(types), first.at))
<1> DEFINE t == Head(types)
           one == <<t>>
           tail == Tail(types)
           D == Blizzard!Decoder(stream)
<1>1. t \in TypeIds /\ tail \in Seq(TypeIds) /\ types = one \o tail
  <2>1. t \in TypeIds /\ tail \in Seq(TypeIds)
    BY HeadTailProperties
  <2>2. types = one \o tail
    <3>1. Len(types) \in Nat /\ Len(types) >= 1
      BY EmptySeq
    <3>2. SubSeq(types, 1, Len(types)) = <<types[1]>> \o SubSeq(types, 1 + 1, Len(types))
      BY <3>1, SubSeqRecursiveFirst
    <3>3. SubSeq(types, 1, Len(types)) = types
      BY SubSeqFull
    <3>4. Tail(types) = SubSeq(types, 2, Len(types)) /\ Head(types) = types[1]
      BY TailIsSubSeq
    <3>5. 1 + 1 = 2
      OBVIOUS
    <3> QED
      BY <3>2, <3>3, <3>4, <3>5, Zenon
  <2> QED
    BY <2>1, <2>2
<1>2. Knows(D, TypeIds)
  BY DecoderInstance, DecoderKnows
<1> HIDE DEF D
<1>3. one \in Seq(TypeIds)
  BY <1>1
<1>4. first = Blizzard!Listed(D, one, p)
  <2>1. Blizzard!Listed(D, one, p) = first
    BY <1>1, InstancesOne, Zenon DEF Blizzard!Instances, D
  <2> QED
    BY <2>1
<1>5. first \in Results
  BY <1>2, <1>3, <1>4, ListedResult
<1> HIDE DEF one, tail
<1>6. Blizzard!Listed(D, one \o tail, p)
        = Blizzard!Then(first, Blizzard!Listed(D, tail, first.at))
  BY <1>1, <1>2, <1>3, <1>4, ListedConcat
<1> QED
  BY <1>1, <1>5, <1>6, Zenon DEF Blizzard!Instances, D, tail

(* What a list begins with.                                                *)
LEMMA InstancesBegin ==
  ASSUME NEW stream \in Seq(Byte), NEW types \in Seq(TypeIds), types # <<>>,
         NEW p \in Nat, NEW q, NEW vs, NEW ts,
         Begins(stream, Blizzard!Decoder(stream), Head(types), p, q, vs, ts)
  PROVE  /\ q \in Nat /\ vs \in Seq(Values) /\ ts \o Tail(types) \in Seq(TypeIds)
         /\ Blizzard!Instances(stream, types, p)
              = Blizzard!Then(Blizzard!Read(q, vs),
                              Blizzard!Instances(stream, ts \o Tail(types), q))
<1> DEFINE tail == Tail(types)
           D == Blizzard!Decoder(stream)
           first == Blizzard!Instance(stream, D, TypeInfos[Head(types)], p)
           r == Blizzard!Read(q, vs)
           middle == Blizzard!Listed(D, ts, q)
           after == Blizzard!Instances(stream, tail, first.at)
           after2 == Blizzard!Instances(stream, tail, middle.at)
<1>1. /\ q \in Nat /\ vs \in Seq(Values) /\ ts \in Seq(Before(Head(types)))
      /\ first = Blizzard!Then(r, middle)
  BY DEF Begins
<1>2. ts \in Seq(TypeIds)
  BY <1>1, BeforeIds, SeqMonotonic
<1>3. Knows(D, TypeIds)
  BY DecoderInstance, DecoderKnows
<1>4. /\ tail \in Seq(TypeIds) /\ first \in Results
      /\ Blizzard!Instances(stream, types, p) = Blizzard!Then(first, after)
  <2> HIDE DEF first
  <2>1. first = Blizzard!Instance(stream, Blizzard!Decoder(stream), TypeInfos[Head(types)], p)
    BY DEF first
  <2> QED
    BY <2>1, InstancesHead
<1> HIDE DEF D, tail
<1>5. middle \in Results /\ r \in Results /\ r.ok /\ r.at = q
  <2>1. middle \in Results
    BY <1>1, <1>2, <1>3, ListedResult
  <2> QED
    BY <1>1, <2>1, ReadResult, Fields
<1> HIDE DEF first, r
<1>6. Blizzard!Instances(stream, ts \o tail, q) = Blizzard!Then(middle, after2)
  <2> HIDE DEF middle
  <2>1. middle = Blizzard!Listed(D, ts, q)
    BY DEF middle
  <2>2. Blizzard!Listed(D, ts \o tail, q)
          = Blizzard!Then(middle, Blizzard!Listed(D, tail, middle.at))
    BY <1>1, <1>2, <1>3, <1>4, <2>1, ListedConcat
  <2> QED
    BY <2>2, Zenon DEF Blizzard!Instances, D
<1> HIDE DEF middle
<1>7. ts \o tail \in Seq(TypeIds)
  BY <1>2, <1>4, ConcatProperties
<1>8. after \in Results /\ after2 \in Results
  <2>1. first.at \in Nat /\ middle.at \in Nat
    BY <1>4, <1>5, ResultCases
  <2> QED
    BY <1>4, <2>1, InstancesResult
<1>9. Blizzard!Then(first, after) = Blizzard!Then(r, Blizzard!Then(middle, after2))
  <2>1. CASE middle.ok
    <3>1. first.at = middle.at
      BY <1>1, <1>5, <2>1, ThenCases
    <3>2. after = after2
      BY <3>1, Zenon
    <3> HIDE DEF after, after2
    <3>3. Blizzard!Then(Blizzard!Then(r, middle), after2)
            = Blizzard!Then(r, Blizzard!Then(middle, after2))
      BY <1>5, <1>8, ThenAssociative
    <3> QED
      BY <1>1, <3>2, <3>3, Zenon
  <2>2. CASE ~ middle.ok
    <3> HIDE DEF after, after2
    <3>1. ~ first.ok
      BY <1>1, <1>5, <2>2, ThenCases, Fields
    <3>2. Blizzard!Then(first, after) = Blizzard!Corrupted
      BY <1>4, <1>8, <3>1, ThenCases
    <3> DEFINE m == Blizzard!Then(middle, after2)
    <3>3. m \in Results /\ ~ m.ok
      BY <1>5, <1>8, <2>2, ThenCases, Fields
    <3> HIDE DEF m
    <3>4. Blizzard!Then(r, m) = Blizzard!Corrupted
      BY <1>5, <3>3, ThenCases
    <3> QED
      BY <3>2, <3>4, Zenon DEF m
  <2> QED
    BY <2>1, <2>2
<1> QED
  BY <1>1, <1>4, <1>6, <1>7, <1>9, Zenon DEF r, tail

(* A list whose first instance is corrupted.                               *)
LEMMA InstancesCorrupted ==
  ASSUME NEW stream \in Seq(Byte), NEW types \in Seq(TypeIds), types # <<>>,
         NEW p \in Nat,
         Blizzard!Instance(stream, Blizzard!Decoder(stream), TypeInfos[Head(types)], p)
           = Blizzard!Corrupted
  PROVE  Blizzard!Instances(stream, types, p) = Blizzard!Corrupted
<1> DEFINE first == Blizzard!Corrupted
           after == Blizzard!Instances(stream, Tail(types), first.at)
<1>1. /\ first \in Results /\ Tail(types) \in Seq(TypeIds) /\ ~ first.ok /\ first.at \in Nat
      /\ Blizzard!Instances(stream, types, p) = Blizzard!Then(first, after)
  BY InstancesHead, Fields
<1>2. after \in Results
  BY <1>1, InstancesResult
<1> HIDE DEF after, first
<1>3. Blizzard!Then(first, after) = Blizzard!Corrupted
  BY <1>1, <1>2, ThenCases
<1> QED
  BY <1>1, <1>3

-----------------------------------------------------------------------------
(* The numbers of the decoder.                                             *)

(* The buffer is nowhere behind the end of the stream.                     *)
LEMMA PositionInStream ==
  ASSUME DataInv
  PROVE  /\ UsedBits \in Nat /\ Size(data) \in Nat /\ UsedBits <= Size(data)
         /\ Done => UsedBits = Size(data)
         /\ ~ Done /\ nextBits = 0 => UsedBits < Size(data)
         /\ nextBits = 0 => UsedBits = used * ByteBits
         /\ Align(UsedBits) = used * ByteBits
<1>1. /\ ByteBits \in Nat \ {0} /\ used \in 0 .. Len(data) /\ used \in Nat
      /\ Len(data) \in Nat /\ nextBits \in 0 .. ByteBits - 1
  BY BitStreamAssumption DEF DataInv, BufferAtPosition
<1>2. UsedBits \in Nat
  BY PositionNat
<1>3. /\ used * ByteBits = ByteBits * used /\ ByteBits * used \in Nat
      /\ Size(data) = ByteBits * Len(data) /\ ByteBits * Len(data) \in Nat
  BY <1>1 DEF Size
<1>4. UsedBits = ByteBits * used - nextBits
  BY <1>3 DEF UsedBits
<1>5. used < Len(data) => ByteBits * used + ByteBits <= ByteBits * Len(data)
  BY <1>1, Multiples
<1>6. used = Len(data) => ByteBits * used = ByteBits * Len(data)
  OBVIOUS
<1>7. Align(UsedBits) = used * ByteBits
  <2> DEFINE i == ByteBits - 1 - nextBits
             q == UsedBits + ByteBits - 1
  <2>1. i \in 0 .. ByteBits - 1 /\ q \in Int /\ used \in Int /\ q = used * ByteBits + i
    BY <1>1, <1>2, <1>3, <1>4
  <2> HIDE DEF i, q
  <2>2. ByteStart(q) = used * ByteBits
    BY <2>1, InByte
  <2> QED
    BY <2>2 DEF Align, q
<1> QED
  BY <1>1, <1>2, <1>3, <1>4, <1>5, <1>6, <1>7 DEF Done

(* One bit is the lowest of its number.                                    *)
LEMMA OneBit ==
  ASSUME NEW stream, NEW p \in Nat
  PROVE  BitsAt(stream, p, 1) \subseteq {0}
<1>1. /\ ByteBits \in Nat \ {0} /\ ByteStart(p) \in Int
      /\ ByteStart(p) <= p /\ p + 1 <= ByteStart(p) + ByteBits
  <2>1. p \in Int
    OBVIOUS
  <2>2. p % ByteBits \in 0 .. ByteBits - 1
    BY <2>1, Division
  <2> QED
    BY <2>2, BitStreamAssumption DEF ByteStart
<1>2. RunStart(p, p) = p /\ RunEnd(p, 1, p) = p + 1
  BY <1>1 DEF RunStart, RunEnd, Greater, Least
<1>3. Exponent(p, 1, p) = 0
  BY <1>2 DEF Exponent
<1>4. \A q \in p .. p + 1 - 1 : q = p
  OBVIOUS
<1> QED
  BY <1>3, <1>4 DEF BitsAt

(* The type whose number is being read.                                    *)
NumberOfType ==
  call # NoCall /\ bigCall = NoCall =>
    Type.kind \notin {"null", "struct"} /\ call.bits = Type.bits

(* The bits of an array are read for a bit array only.                     *)
BitsOfArray == bigCall # NoCall => Type.kind = "bitArray"

(* The types to come and the values so far of the part at hand.            *)
PartInv ==
  /\ todo \in Seq(TypeIds) /\ values \in Seq(Values)
  /\ NumberOfType /\ BitsOfArray

(* The width of a long and its greatest number are natural numbers.        *)
LEMMA LongNat ==
  /\ Word \in Nat /\ Word - 1 \in Nat /\ MaxLong \in Nat
<1>1. Word \in Nat /\ Word - 1 \in Nat
  BY BufferAssumption
<1> QED
  BY <1>1, NaturalBound DEF MaxLong

(* A number that has been read is the one of its type.                     *)
LEMMA NumberAgrees ==
  ASSUME StreamInv, PartInv, NEW kind, NumberRead(kind)
  PROVE  /\ Head(todo) \in TypeIds /\ Type.kind = kind /\ kind \notin {"null", "struct"}
         /\ call.from \in Nat /\ UsedBits = call.from + Type.bits
         /\ Blizzard!Has(data, call.from, Type.bits)
         /\ Number(Type) = Blizzard!Number(data, call.from, Type)
         /\ kind \in {"bool", "optional"} =>
              (call.result # {} <=> Blizzard!Number(data, call.from, Type) # 0)
<1> DEFINE t == Head(todo)
           type == TypeInfos[t]
           p == call.from
           e == call.result
           n == Blizzard!Number(data, p, type)
<1>1. /\ t \in TypeIds /\ Type = type /\ type.kind = kind
      /\ kind \notin {"null", "struct"}
      /\ call # NoCall /\ bigCall = NoCall /\ call.skippedBits = call.bits
      /\ call.bits = type.bits
  <2>1. /\ todo # <<>> /\ Type.kind = kind /\ call # NoCall /\ bigCall = NoCall
        /\ call.skippedBits = call.bits
    BY DEF NumberRead
  <2>2. t \in TypeIds
    BY <2>1, HeadTailProperties DEF PartInv
  <2> QED
    BY <2>1, <2>2 DEF PartInv, NumberOfType, Type
<1> HIDE DEF t
<1>2. type.bits \in Nat /\ type.bits <= Word /\ type.min \in Int
  BY <1>1, TypeNumber
<1>3. call \in CallType /\ p \in Nat /\ UsedBits = p + type.bits
      /\ e = BitsAt(data, p, type.bits)
  <2>1. call \in CallType /\ UsedBits = call.from + call.skippedBits
    BY <1>1 DEF StreamInv, IInv, ReadInv, CallInv
  <2>2. call.result = BitsAt(data, call.from, call.bits)
    BY <1>1, <1>2, ReadsExact DEF StreamInv, ReadBitsExact
  <2>3. call.from \in Nat
    BY <2>1 DEF CallType
  <2> QED
    BY <1>1, <2>1, <2>2, <2>3
<1>4. Blizzard!Has(data, p, type.bits)
  <2>1. UsedBits <= Size(data)
    BY PositionInStream DEF StreamInv, IInv, ReadInv
  <2>2. Blizzard!Size(data) = Size(data)
    BY SameStream
  <2> QED
    BY <1>3, <2>1, <2>2 DEF Blizzard!Has
<1>5. n = type.min + Natural(e, type.bits)
  BY <1>3, SameStream, Zenon DEF Blizzard!Number
<1>6. n \in Int /\ -MaxLong - 1 <= n /\ n <= MaxLong
  <2>1. /\ n \in Int /\ type.min <= n /\ n <= type.min + Ones(type.bits)
        /\ Ones(type.bits) \in Nat
    BY <1>1, <1>3, TypeNumber
  <2>2. -MaxLong - 1 <= type.min /\ type.min + Ones(type.bits) <= MaxLong
    BY <1>1, TypesAssumption DEF TypeIds, Between
  <2> HIDE DEF n, type
  <2> QED
    BY <1>2, <2>1, <2>2, LongNat
<1>7. Number(Type) = n
  <2> DEFINE top == Word - 1 \in e
  <2>1. Natural(e, type.bits) \in Nat
    <3> HIDE DEF e
    <3> QED
      BY <1>2, NaturalBound
  <2>2. Number(Type) =
          Wrap(type.min + (Natural(e, type.bits) - (IF top THEN 2 * MaxLong + 2 ELSE 0)),
               MaxLong)
    BY <1>1, Zenon DEF Number, Signed
  <2> HIDE DEF n, e, type, top
  <2>3. CASE top
    <3>1. type.min + (Natural(e, type.bits) - (2 * MaxLong + 2)) = n - (2 * MaxLong + 2)
      BY <1>2, <1>5, <2>1, LongNat
    <3>2. Wrap(n - (2 * MaxLong + 2), MaxLong) = n
      BY <1>6, LongNat, WrapFits
    <3>3. Number(Type) = Wrap(type.min + (Natural(e, type.bits) - (2 * MaxLong + 2)), MaxLong)
      BY <2>2, <2>3, Zenon
    <3> QED
      BY <3>1, <3>2, <3>3, Zenon
  <2>4. CASE ~ top
    <3>1. type.min + (Natural(e, type.bits) - 0) = n
      BY <1>2, <1>5, <2>1, LongNat
    <3>2. Wrap(n, MaxLong) = n
      BY <1>6, LongNat, WrapFits
    <3>3. Number(Type) = Wrap(type.min + (Natural(e, type.bits) - 0), MaxLong)
      BY <2>2, <2>4, Zenon
    <3> QED
      BY <3>1, <3>2, <3>3, Zenon
  <2> QED
    BY <2>3, <2>4
<1>8. kind \in {"bool", "optional"} => (e # {} <=> n # 0)
  <2> SUFFICES ASSUME kind \in {"bool", "optional"} PROVE e # {} <=> n # 0
    OBVIOUS
  <2>1. type.min = 0 /\ type.bits = 1
    BY <1>1, TypesAssumption DEF TypeIds
  <2>2. e \subseteq {0}
    <3>1. BitsAt(data, p, 1) \subseteq {0}
      BY <1>3, OneBit
    <3> QED
      BY <1>3, <2>1, <3>1, Zenon
  <2> HIDE DEF e, n, type
  <2>3. Natural(e, 1) = IF 0 \in e THEN 1 ELSE 0
    BY NaturalOfBit
  <2>4. n = 0 + Natural(e, 1)
    BY <1>5, <2>1, Zenon
  <2>5. e # {} <=> 0 \in e
    BY <2>2
  <2>6. CASE 0 \in e
    <3>1. Natural(e, 1) = 1
      BY <2>3, <2>6
    <3>2. n = 0 + 1
      BY <2>4, <3>1, Zenon
    <3> QED
      BY <2>5, <2>6, <3>2
  <2>7. CASE 0 \notin e
    <3>1. Natural(e, 1) = 0
      BY <2>3, <2>7
    <3>2. n = 0 + 0
      BY <2>4, <3>1, Zenon
    <3> QED
      BY <2>5, <2>7, <3>2
  <2> QED
    BY <2>6, <2>7
<1> QED
  <2> HIDE DEF n
  <2>1. Type = type /\ Head(todo) = t
    BY <1>1 DEF t
  <2>2. n = Blizzard!Number(data, call.from, Type)
    BY <1>1 DEF n
  <2> QED
    BY <1>1, <1>3, <1>4, <1>7, <1>8, <2>1, <2>2, Zenon

-----------------------------------------------------------------------------
(* What is still to be read.                                               *)

(* What some types are from p on.                                          *)
Rest(types, p) == Blizzard!Instances(data, types, p)

(* The bits of a bit array, and what is read behind them.                  *)
ArrayRest ==
  LET end == bigCall.from + bigCall.bits
  IN IF Blizzard!Has(data, bigCall.from, bigCall.bits)
     THEN Blizzard!Then(Blizzard!Read(end, <<[from |-> bigCall.from, bits |-> bigCall.bits]>>),
                        Rest(Tail(todo), end))
     ELSE Blizzard!Corrupted

(* What is still to be read: from where the buffer stands, or from where   *)
(* the call at hand began.                                                 *)
Remaining ==
  IF call = NoCall THEN Rest(todo, UsedBits)
  ELSE IF bigCall = NoCall THEN Rest(todo, call.from)
  ELSE ArrayRest

(* A part of an event: what has been read and what is still to be read.    *)
Whole == Blizzard!Then(Blizzard!Read(0, values), Remaining)

(* The positions that a decoder holds are natural numbers.                 *)
LEMMA PositionTypes ==
  ASSUME StreamInv
  PROVE  /\ data \in Seq(Byte) /\ UsedBits \in Nat
         /\ call # NoCall => call.from \in Nat
         /\ bigCall # NoCall => bigCall.from \in Nat /\ bigCall.bits \in Nat
         /\ call = NoCall => bigCall = NoCall
<1>1. DataInv /\ data \in Seq(Byte)
  BY DEF StreamInv, IInv, ReadInv, DataInv
<1>2. call # NoCall => call.from \in Nat
  BY DEF StreamInv, IInv, ReadInv, CallInv, CallType
<1>3. bigCall # NoCall => bigCall.from \in Nat /\ bigCall.bits \in Nat
  BY DEF StreamInv, IInv, BigInv, BigType
<1>4. call = NoCall => bigCall = NoCall
  BY DEF StreamInv, IInv, BigInv
<1> QED
  BY <1>1, <1>2, <1>3, <1>4, PositionNat

(* Where something is read does not matter for what is behind it.          *)
LEMMA ThenAt ==
  ASSUME NEW p, NEW q, NEW vs, NEW r
  PROVE  Blizzard!Then(Blizzard!Read(p, vs), r) = Blizzard!Then(Blizzard!Read(q, vs), r)
<1>1. /\ Blizzard!Read(p, vs).ok /\ Blizzard!Read(p, vs).values = vs
      /\ Blizzard!Read(q, vs).ok /\ Blizzard!Read(q, vs).values = vs
  BY Fields
<1> QED
  BY <1>1, Zenon DEF Blizzard!Then

(* Values behind values.                                                   *)
LEMMA ThenMore ==
  ASSUME NEW vs \in Seq(Values), NEW ws \in Seq(Values), NEW p \in Nat, NEW q \in Nat,
         NEW r \in Results
  PROVE  /\ vs \o ws \in Seq(Values)
         /\ Blizzard!Then(Blizzard!Read(p, vs), Blizzard!Then(Blizzard!Read(q, ws), r))
              = Blizzard!Then(Blizzard!Read(p, vs \o ws), r)
<1> DEFINE a == Blizzard!Read(p, vs)
           b == Blizzard!Read(q, ws)
           c == Blizzard!Read(q, Both(vs, ws))
<1>1. /\ a \in Results /\ a.ok /\ a.values = vs
      /\ b \in Results /\ b.ok /\ b.at = q /\ b.values = ws
  BY ReadResult, Fields
<1> HIDE DEF a, b
<1>2. Blizzard!Then(a, b) = c
  <2>1. Blizzard!Then(a, b) = Blizzard!Read(b.at, Both(a.values, b.values))
    BY <1>1, ThenCases
  <2> QED
    BY <1>1, <2>1, Zenon
<1>3. Blizzard!Then(Blizzard!Then(a, b), r) = Blizzard!Then(a, Blizzard!Then(b, r))
  BY <1>1, ThenAssociative
<1>4. Blizzard!Then(c, r) = Blizzard!Then(Blizzard!Read(p, Both(vs, ws)), r)
  BY ThenAt, Zenon
<1>5. Blizzard!Then(a, Blizzard!Then(b, r)) = Blizzard!Then(Blizzard!Read(p, Both(vs, ws)), r)
  BY <1>2, <1>3, <1>4, Zenon
<1>6. Both(vs, ws) \in Seq(Values)
  BY BothValues
<1> QED
  BY <1>5, <1>6, Zenon DEF a, b, Both

(* A step that reads vs, which is what comes next.                         *)
LEMMA WholeKept ==
  ASSUME PartInv, NEW q \in Nat, NEW vs \in Seq(Values), Remaining' \in Results,
         Remaining = Blizzard!Then(Blizzard!Read(q, vs), Remaining'),
         values' = values \o vs
  PROVE  Whole' = Whole /\ values' \in Seq(Values)
<1> DEFINE r == Remaining'
<1>1. values \in Seq(Values) /\ r \in Results /\ 0 \in Nat
  BY DEF PartInv
<1>2. Remaining = Blizzard!Then(Blizzard!Read(q, vs), r)
  OBVIOUS
<1>3. Whole' = Blizzard!Then(Blizzard!Read(0, values \o vs), r)
  BY DEF Whole
<1> HIDE DEF r
<1>4. /\ values \o vs \in Seq(Values)
      /\ Blizzard!Then(Blizzard!Read(0, values), Blizzard!Then(Blizzard!Read(q, vs), r))
           = Blizzard!Then(Blizzard!Read(0, values \o vs), r)
  BY <1>1, ThenMore
<1>5. Whole = Blizzard!Then(Blizzard!Read(0, values), Remaining)
  BY DEF Whole
<1> QED
  BY <1>2, <1>3, <1>4, <1>5, Zenon

(* The end of a type, after which others come.                             *)
LEMMA GoesKeeps ==
  ASSUME StreamInv, PartInv, todo # <<>>, NEW p \in Nat, Remaining = Rest(todo, p),
         NEW q, NEW vs, NEW ts,
         Begins(data, Blizzard!Decoder(data), Head(todo), p, q, vs, ts),
         Goes(vs, ts), data' = data, call' = NoCall, bigCall' = NoCall, UsedBits' = q
  PROVE  Whole' = Whole /\ PartInv'
<1>1. data \in Seq(Byte) /\ todo \in Seq(TypeIds)
  BY PositionTypes DEF PartInv
<1>2. /\ q \in Nat /\ vs \in Seq(Values) /\ ts \o Tail(todo) \in Seq(TypeIds)
      /\ Blizzard!Instances(data, todo, p)
           = Blizzard!Then(Blizzard!Read(q, vs),
                           Blizzard!Instances(data, ts \o Tail(todo), q))
  BY <1>1, InstancesBegin
<1>3. todo' = ts \o Tail(todo) /\ values' = values \o vs
  BY DEF Goes
<1> DEFINE types == ts \o Tail(todo)
<1> HIDE DEF types
<1>4. Remaining' = Blizzard!Instances(data, types, q)
  BY <1>3, Zenon DEF Remaining, Rest, types
<1>5. Remaining' \in Results
  <2>1. Blizzard!Instances(data, types, q) \in Results
    BY <1>1, <1>2, InstancesResult DEF types
  <2> QED
    BY <1>4, <2>1, Zenon
<1>6. Remaining = Blizzard!Then(Blizzard!Read(q, vs), Remaining')
  BY <1>2, <1>4, Zenon DEF Rest, types
<1>7. Whole' = Whole /\ values' \in Seq(Values)
  BY <1>2, <1>3, <1>5, <1>6, WholeKept
<1> QED
  BY <1>2, <1>3, <1>7 DEF PartInv, NumberOfType, BitsOfArray

-----------------------------------------------------------------------------
(* The steps of the decoder keep the whole.                                *)

(* The instances of all types in the stream at hand.                       *)
Decoded == Blizzard!Decoder(data)

(* The decoder of the stream has a result for the types before any type.   *)
LEMMA DecodedKnows ==
  ASSUME StreamInv, NEW t
  PROVE  Knows(Decoded, Before(t))
BY PositionTypes, DecoderInstance, DecoderKnows DEF Decoded

(* A type that begins with no number.                                      *)
LEMMA PlainKeeps ==
  ASSUME StreamInv, PartInv, ReadStructFields \/ ReadNull
  PROVE  Whole' = Whole /\ PartInv'
<1> DEFINE t == Head(todo)
<1>1. /\ todo # <<>> /\ call = NoCall /\ bigCall = NoCall /\ UNCHANGED bufferVars
      /\ todo \in Seq(TypeIds) /\ data \in Seq(Byte) /\ UsedBits \in Nat
  BY PositionTypes DEF ReadStructFields, ReadNull, Visits, PartInv
<1>2. t \in TypeIds /\ Knows(Decoded, Before(t))
  BY <1>1, HeadTailProperties, DecodedKnows
<1>3. Remaining = Rest(todo, UsedBits)
  BY <1>1, Zenon DEF Remaining
<1>4. /\ data' = data /\ call' = NoCall /\ bigCall' = NoCall /\ UsedBits' = UsedBits
  BY <1>1 DEF bufferVars, buffer, UsedBits
<1>5. CASE ReadStructFields
  <2>1. Type.kind = "struct" /\ Type = TypeInfos[t] /\ Goes(<<>>, Type.fields)
    BY <1>5 DEF ReadStructFields, Visits, Type
  <2>2. Begins(data, Decoded, t, UsedBits, UsedBits, <<>>, TypeInfos[t].fields)
    BY <1>1, <1>2, <2>1, PlainInstance
  <2> QED
    BY <1>1, <1>3, <1>4, <2>1, <2>2, GoesKeeps DEF Decoded
<1>6. CASE ReadNull
  <2>1. Type.kind = "null" /\ Type = TypeInfos[t] /\ Goes(<<>>, <<>>)
    BY <1>6 DEF ReadNull, Visits, Type
  <2>2. Begins(data, Decoded, t, UsedBits, UsedBits, <<>>, <<>>)
    BY <1>1, <1>2, <2>1, PlainInstance
  <2> QED
    BY <1>1, <1>3, <1>4, <2>1, <2>2, GoesKeeps DEF Decoded
<1> QED
  BY <1>5, <1>6

(* What begins with a number that has been read.                           *)
LEMMA NumberReadBegins ==
  ASSUME StreamInv, PartInv, NEW kind, NumberRead(kind)
  PROVE  /\ NumberBegins(data, Decoded, Head(todo), call.from, Type, UsedBits, Number(Type))
         /\ Remaining = Rest(todo, call.from) /\ todo # <<>> /\ Type.kind = kind
         /\ Head(todo) \in TypeIds /\ Type = TypeInfos[Head(todo)]
         /\ call.from \in Nat /\ bigCall = NoCall
         /\ UsedBits \in Nat /\ data \in Seq(Byte)
         /\ kind \in {"bool", "optional"} => (call.result # {} <=> Number(Type) # 0)
<1> DEFINE t == Head(todo)
           n == Number(Type)
<1>1. /\ t \in TypeIds /\ Type.kind = kind /\ Type = TypeInfos[t]
      /\ call.from \in Nat /\ UsedBits = call.from + Type.bits
      /\ Blizzard!Has(data, call.from, Type.bits)
      /\ n = Blizzard!Number(data, call.from, Type)
      /\ kind \in {"bool", "optional"} => (call.result # {} <=> n # 0)
  <2>1. /\ t \in TypeIds /\ Type.kind = kind
        /\ call.from \in Nat /\ UsedBits = call.from + Type.bits
        /\ Blizzard!Has(data, call.from, Type.bits)
        /\ n = Blizzard!Number(data, call.from, Type)
        /\ kind \in {"bool", "optional"} =>
             (call.result # {} <=> Blizzard!Number(data, call.from, Type) # 0)
    BY NumberAgrees
  <2>2. Type = TypeInfos[t]
    BY DEF Type
  <2> HIDE DEF n, t
  <2> QED
    BY <2>1, <2>2, Zenon
<1>2. data \in Seq(Byte) /\ UsedBits \in Nat /\ Knows(Decoded, Before(t))
  BY PositionTypes, DecodedKnows
<1> HIDE DEF n, t
<1>3. NumberBegins(data, Decoded, t, call.from, Type, UsedBits, n)
  BY <1>1, <1>2, NumberInstance
<1>4. call # NoCall /\ bigCall = NoCall /\ todo # <<>>
  BY DEF NumberRead
<1>5. Remaining = Rest(todo, call.from)
  BY <1>4, Zenon DEF Remaining
<1> QED
  BY <1>1, <1>2, <1>3, <1>4, <1>5 DEF n, t

(* The types that are a number, or a number and other types.               *)
LEMMA NumberKeeps ==
  ASSUME StreamInv, PartInv,
         \/ ReadIntValue \/ ReadBoolValue \/ ReadArrayItems
         \/ TryReadOptionalTypeId \/ ReadChoiceValue
  PROVE  Whole' = Whole /\ PartInv'
<1> DEFINE t == Head(todo)
           n == Number(Type)
           p == call.from
<1>1. PICK kind : Returns(kind)
  BY DEF ReadIntValue, ReadBoolValue, ReadArrayItems, TryReadOptionalTypeId,
         ReadChoiceValue
<1>2. NumberRead(kind) /\ ReadBitsReturns /\ UNCHANGED bigCall
  BY <1>1 DEF Returns
<1>3. /\ Remaining = Rest(todo, p) /\ todo # <<>> /\ p \in Nat
      /\ data' = data /\ call' = NoCall /\ bigCall' = NoCall /\ UsedBits' = UsedBits
  BY <1>2, NumberReadBegins DEF ReadBitsReturns, buffer, UsedBits
<1>4. ASSUME NEW vs, NEW ts, Begins(data, Decoded, t, p, UsedBits, vs, ts), Goes(vs, ts)
      PROVE  Whole' = Whole /\ PartInv'
  BY <1>3, <1>4, GoesKeeps DEF Decoded
<1>5. /\ NumberBegins(data, Decoded, t, p, Type, UsedBits, n)
      /\ Type.kind = kind
      /\ kind \in {"bool", "optional"} => (call.result # {} <=> n # 0)
  BY <1>2, NumberReadBegins
<1> HIDE DEF t, n, p
<1>6. CASE ReadIntValue
  <2>1. Type.kind = "int" /\ Goes(<<n>>, <<>>)
    BY <1>6 DEF ReadIntValue, Returns, NumberRead, n
  <2>2. Begins(data, Decoded, t, p, UsedBits, <<n>>, <<>>)
    BY <1>5, <2>1 DEF NumberBegins
  <2> QED
    BY <1>4, <2>1, <2>2
<1>7. CASE ReadBoolValue
  <2> DEFINE flag == <<n # 0>>
             found == <<call.result # {}>>
  <2>1. Type.kind = "bool" /\ Goes(found, <<>>)
    BY <1>7 DEF ReadBoolValue, Returns, NumberRead
  <2>2. Begins(data, Decoded, t, p, UsedBits, flag, <<>>)
    BY <1>5, <2>1 DEF NumberBegins
  <2>3. found = flag
    BY <1>5, <2>1
  <2> HIDE DEF flag, found
  <2> QED
    BY <1>4, <2>1, <2>2, <2>3
<1>8. CASE ReadArrayItems
  <2> DEFINE types == [i \in 1 .. n |-> Type.item]
  <2>1. Type.kind = "array" /\ Goes(<<n>>, types)
    BY <1>8 DEF ReadArrayItems, Returns, NumberRead, n
  <2>2. Begins(data, Decoded, t, p, UsedBits, <<n>>, types)
    BY <1>5, <2>1 DEF NumberBegins
  <2> HIDE DEF types
  <2> QED
    BY <1>4, <2>1, <2>2
<1>9. CASE TryReadOptionalTypeId
  <2> DEFINE types == IF n # 0 THEN <<Type.item>> ELSE <<>>
             found == IF call.result # {} THEN <<Type.item>> ELSE <<>>
  <2>1. Type.kind = "optional" /\ Goes(<<n>>, found)
    BY <1>9 DEF TryReadOptionalTypeId, Returns, NumberRead, n
  <2>2. Begins(data, Decoded, t, p, UsedBits, <<n>>, types)
    BY <1>5, <2>1 DEF NumberBegins
  <2>3. found = types
    BY <1>5, <2>1
  <2> HIDE DEF types, found
  <2> QED
    BY <1>4, <2>1, <2>2, <2>3
<1>10. CASE ReadChoiceValue
  <2> DEFINE types == <<Type.choices[n]>>
  <2>1. Type.kind = "choice" /\ n \in DOMAIN Type.choices /\ Goes(<<n>>, types)
    BY <1>10 DEF ReadChoiceValue, Returns, NumberRead, n
  <2>2. Begins(data, Decoded, t, p, UsedBits, <<n>>, types)
    BY <1>5, <2>1 DEF NumberBegins
  <2> HIDE DEF types
  <2> QED
    BY <1>4, <2>1, <2>2
<1> QED
  BY <1>6, <1>7, <1>8, <1>9, <1>10

(* The bytes of a blob.                                                    *)
LEMMA SpanAgrees ==
  ASSUME StreamInv, NEW n \in Nat
  PROVE  LET start == Blizzard!Align(UsedBits)
         IN /\ Spans(n) <=> Blizzard!Has(data, start, n * ByteBits)
            /\ Span(n) = Blizzard!Bytes(data, start, n)
            /\ start + n * ByteBits = (used + n) * ByteBits
<1> DEFINE start == Blizzard!Align(UsedBits)
<1>1. DataInv /\ ByteBits \in Nat \ {0} /\ used \in Nat /\ Len(data) \in Nat
  BY BitStreamAssumption DEF StreamInv, IInv, ReadInv, DataInv, BufferAtPosition
<1>2. start = used * ByteBits
  BY <1>1, PositionInStream, SameStream
<1> HIDE DEF start
<1>3. start \div ByteBits = used
  <2>1. used * ByteBits + 0 = start /\ 0 \in 0 .. ByteBits - 1 /\ used \in Int
    BY <1>1, <1>2
  <2>2. (used * ByteBits + 0) \div ByteBits = used
    BY <2>1, BitOfByte
  <2> QED
    BY <2>1, <2>2, Zenon
<1>4. Span(n) = Blizzard!Bytes(data, start, n)
  BY <1>3, Zenon DEF Span, Blizzard!Bytes
<1>5. start + n * ByteBits = (used + n) * ByteBits
  BY <1>1, <1>2
<1>6. Spans(n) <=> Blizzard!Has(data, start, n * ByteBits)
  <2> DEFINE len == Len(data)
             u == used + n
  <2>1. Blizzard!Has(data, start, n * ByteBits) <=> u * ByteBits <= len * ByteBits
    BY <1>5, SameStream DEF Blizzard!Has, Size
  <2>2. Spans(n) <=> u <= len
    BY DEF Spans
  <2>3. u \in Nat /\ len \in Nat
    BY <1>1
  <2> HIDE DEF u, len
  <2>4. /\ u * ByteBits = ByteBits * u /\ len * ByteBits = ByteBits * len
        /\ ByteBits * u \in Int /\ ByteBits * len \in Int
    BY <1>1, <2>3
  <2>5. u < len => ByteBits * u + ByteBits <= ByteBits * len
    BY <2>3, Multiples
  <2>6. len < u => ByteBits * len + ByteBits <= ByteBits * u
    BY <2>3, Multiples
  <2>7. u = len => ByteBits * u = ByteBits * len
    OBVIOUS
  <2>8. u <= len <=> ByteBits * u <= ByteBits * len
    BY <1>1, <2>3, <2>4, <2>5, <2>6, <2>7
  <2> QED
    BY <2>1, <2>2, <2>4, <2>8
<1> QED
  BY <1>4, <1>5, <1>6 DEF start

(* A blob begins with its length and continues at the next byte.           *)
LEMMA BlobKeeps ==
  ASSUME StreamInv, PartInv, ReadBlobValue
  PROVE  Whole' = Whole /\ PartInv'
<1> DEFINE t == Head(todo)
           n == Number(Type)
           p == call.from
           start == Blizzard!Align(UsedBits)
           q == start + n * ByteBits
           vs == <<n, Blizzard!Bytes(data, start, n)>>
<1>1. /\ NumberRead("blob") /\ call' = NoCall /\ ReadAlignedSpan(n)
      /\ Goes(<<n, Span(n)>>, <<>>) /\ UNCHANGED bigCall
  BY DEF ReadBlobValue
<1>2. /\ NumberBegins(data, Decoded, t, p, Type, UsedBits, n) /\ Type.kind = "blob"
      /\ Remaining = Rest(todo, p) /\ todo # <<>> /\ p \in Nat /\ bigCall' = NoCall
  BY <1>1, NumberReadBegins
<1>3. n \in Nat
  BY <1>1 DEF ReadAlignedSpan, Spans
<1>4. Spans(n) /\ used' = used + n /\ nextBits' = 0 /\ data' = data
  BY <1>1 DEF ReadAlignedSpan
<1>5. /\ Blizzard!Has(data, start, n * ByteBits)
      /\ Span(n) = Blizzard!Bytes(data, start, n) /\ q = (used + n) * ByteBits
  BY <1>3, <1>4, SpanAgrees
<1>6. UsedBits' = q
  <2>1. (used + n) * ByteBits \in Int
    BY <1>3, BitStreamAssumption DEF StreamInv, IInv, ReadInv, DataInv, BufferAtPosition
  <2> HIDE DEF n, q
  <2> QED
    BY <1>4, <1>5, <2>1 DEF UsedBits
<1>7. Goes(vs, <<>>)
  BY <1>1, <1>5, Zenon
<1> HIDE DEF n, t, p
<1>8. Begins(data, Decoded, t, p, q, vs, <<>>)
  BY <1>2, <1>5 DEF NumberBegins
<1> HIDE DEF q, vs
<1> QED
  BY <1>1, <1>2, <1>4, <1>6, <1>7, <1>8, GoesKeeps DEF Decoded, t

-----------------------------------------------------------------------------
(* The turns of the loops, and the bits of a bit array.                    *)

(* What the decoder is in the middle of does not change with the turns.    *)
LEMMA TurnsKeep ==
  ASSUME PartInv, Remaining' = Remaining, NumberOfType', BitsOfArray',
         UNCHANGED <<todo, values>>
  PROVE  Whole' = Whole /\ PartInv'
<1>1. todo' = todo /\ values' = values
  OBVIOUS
<1>2. Whole' = Whole
  BY <1>1, Zenon DEF Whole
<1> QED
  BY <1>1, <1>2 DEF PartInv

(* The call of ReadBits for a number.                                      *)
LEMMA StartNumberKeeps ==
  ASSUME StreamInv, PartInv, StartNumber
  PROVE  Whole' = Whole /\ PartInv'
<1>1. /\ todo # <<>> /\ call = NoCall /\ UNCHANGED <<buffer, bigCall, todo, values>>
      /\ Type.kind \notin {"null", "struct"} /\ Type.bits \in Nat
      /\ call' = ReadBitsCall(Type.bits)
  BY DEF StartNumber, Visits, ReadBits
<1>2. bigCall = NoCall /\ DataInv
  BY <1>1, IdleBuffer DEF StreamInv
<1>3. call' # NoCall /\ call'.from = UsedBits /\ call'.bits = Type.bits
  BY <1>1, <1>2, CallStarts DEF ReadBitsCall
<1>4. data' = data /\ Type' = Type /\ bigCall' = NoCall /\ todo' = todo
  BY <1>1, <1>2 DEF buffer, Type
<1>5. Remaining = Rest(todo, UsedBits)
  BY <1>1, Zenon DEF Remaining
<1>6. Remaining' = Rest(todo, UsedBits)
  <2>1. Remaining' = Rest(todo, call.from)'
    BY <1>3, <1>4, Zenon DEF Remaining
  <2> QED
    BY <1>3, <1>4, <2>1, Zenon DEF Rest
<1>7. NumberOfType' /\ BitsOfArray'
  BY <1>1, <1>3, <1>4 DEF NumberOfType, BitsOfArray
<1> QED
  BY <1>1, <1>5, <1>6, <1>7, TurnsKeep

(* A turn of the loop of ReadBits.                                         *)
LEMMA CopyKeeps ==
  ASSUME StreamInv, PartInv, CopyBits, UNCHANGED <<todo, values>>
  PROVE  Whole' = Whole /\ PartInv'
<1>1. /\ call # NoCall /\ call' # NoCall
      /\ call'.bits = call.bits /\ call'.from = call.from
      /\ data' = data /\ bigCall' = bigCall /\ todo' = todo /\ Type' = Type
  BY TurnKeeps DEF StreamInv, CopyBits, Type
<1>2. Remaining' = Remaining
  <2>1. CASE bigCall = NoCall
    <3>1. Remaining' = Rest(todo, call.from)' /\ Remaining = Rest(todo, call.from)
      BY <1>1, <2>1, Zenon DEF Remaining
    <3> QED
      BY <1>1, <3>1, Zenon DEF Rest
  <2>2. CASE bigCall # NoCall
    <3>1. Remaining' = ArrayRest' /\ Remaining = ArrayRest
      BY <1>1, <2>2, Zenon DEF Remaining
    <3>2. ArrayRest' = ArrayRest
      BY <1>1, Zenon DEF ArrayRest, Rest
    <3> QED
      BY <3>1, <3>2, Zenon
  <2> QED
    BY <2>1, <2>2
<1>3. NumberOfType' /\ BitsOfArray'
  BY <1>1 DEF PartInv, NumberOfType, BitsOfArray
<1> QED
  BY <1>2, <1>3, TurnsKeep

(* A turn of the loop of ReadBigInteger.                                   *)
LEMMA ContinueKeeps ==
  ASSUME StreamInv, PartInv, ContinueBitArray
  PROVE  Whole' = Whole /\ PartInv'
<1>1. BigTurn /\ bigCall # NoCall /\ call # NoCall /\ UNCHANGED <<buffer, todo, values>>
  BY DEF ContinueBitArray, BigTurn
<1>2. /\ IInv' /\ bigCall' # NoCall
      /\ bigCall'.bits = bigCall.bits /\ bigCall'.from = bigCall.from
  BY <1>1, BigTurnKeeps DEF StreamInv
<1>3. data' = data /\ todo' = todo /\ Type' = Type /\ call' # NoCall
  BY <1>1, <1>2 DEF buffer, Type, IInv, BigInv
<1>4. Remaining' = Remaining
  <2>1. Remaining' = ArrayRest' /\ Remaining = ArrayRest
    BY <1>1, <1>2, <1>3, Zenon DEF Remaining
  <2>2. ArrayRest' = ArrayRest
    BY <1>2, <1>3, Zenon DEF ArrayRest, Rest
  <2> QED
    BY <2>1, <2>2, Zenon
<1>5. NumberOfType' /\ BitsOfArray'
  BY <1>1, <1>2, <1>3 DEF PartInv, NumberOfType, BitsOfArray
<1> QED
  BY <1>1, <1>4, <1>5, TurnsKeep

-----------------------------------------------------------------------------

(* What can be read behind the type at hand.                               *)
LEMMA ReadsTail ==
  ASSUME StreamInv, PartInv, todo # <<>>
  PROVE  /\ Tail(todo) \in Seq(TypeIds) /\ <<>> \o Tail(todo) = Tail(todo)
         /\ \A q \in Nat : Rest(Tail(todo), q) \in Results
<1>1. data \in Seq(Byte) /\ todo \in Seq(TypeIds)
  BY PositionTypes DEF PartInv
<1>2. Tail(todo) \in Seq(TypeIds)
  BY <1>1, HeadTailProperties
<1>3. \A q \in Nat : Rest(Tail(todo), q) \in Results
  BY <1>1, <1>2, InstancesResult DEF Rest
<1>4. <<>> \o Tail(todo) = Tail(todo)
  BY <1>2
<1> QED
  BY <1>2, <1>3, <1>4

(* What is left of a bit array, by where it is.                            *)
LEMMA ArrayLeft ==
  ASSUME NEW from, NEW bits, bigCall.from = from, bigCall.bits = bits
  PROVE  ArrayRest =
           IF Blizzard!Has(data, from, bits)
           THEN Blizzard!Then(Blizzard!Read(from + bits, <<[from |-> from, bits |-> bits]>>),
                              Rest(Tail(todo), from + bits))
           ELSE Blizzard!Corrupted
BY Zenon DEF ArrayRest

(* The length of a bit array: its bits are still to be read.               *)
LEMMA StartBitArrayKeeps ==
  ASSUME StreamInv, PartInv, StartBitArray
  PROVE  Whole' = Whole /\ PartInv'
<1> DEFINE t == Head(todo)
           n == Number(Type)
           p == call.from
           u == UsedBits
           end == u + n
           b == [from |-> u, bits |-> n]
           r == Rest(Tail(todo), end)
<1>1. /\ NumberRead("bitArray") /\ values' = Append(values, n)
      /\ ReadBigIntegerCalls(n) /\ UNCHANGED <<buffer, todo>>
  BY DEF StartBitArray
<1>2. /\ NumberBegins(data, Decoded, t, p, Type, u, n) /\ Type.kind = "bitArray"
      /\ Remaining = Rest(todo, p) /\ todo # <<>> /\ p \in Nat /\ u \in Nat
      /\ data \in Seq(Byte) /\ t \in TypeIds /\ Type = TypeInfos[t]
  BY <1>1, NumberReadBegins
<1>3. /\ n \in Nat
      /\ IF Blizzard!Has(data, u, n)
         THEN Begins(data, Decoded, t, p, end, <<n, b>>, <<>>)
         ELSE Blizzard!Instance(data, Decoded, Type, p) = Blizzard!Corrupted
  BY <1>2 DEF NumberBegins
<1>4. /\ bigCall' # NoCall /\ bigCall'.bits = n /\ bigCall'.from = u /\ call' # NoCall
  <2>1. IInv' /\ bigCall' # NoCall /\ bigCall'.bits = n /\ bigCall'.from = u
    BY <1>1, BigStarts DEF StreamInv, IInv, ReadInv
  <2> QED
    BY <2>1 DEF IInv, BigInv
<1>5. data' = data /\ todo' = todo /\ Type' = Type
  BY <1>1 DEF buffer, Type
<1>6. n \in Values /\ b \in Values /\ <<n>> \in Seq(Values) /\ <<b>> \in Seq(Values)
      /\ <<n>> \o <<b>> = <<n, b>>
  <2>1. n \in Int
    BY <1>3
  <2> HIDE DEF n, u
  <2> QED
    BY <1>2, <1>3, <2>1, ValueSequences
<1>7. values' = values \o <<n>> /\ todo \in Seq(TypeIds)
  BY <1>1, <1>6, AppendIsConcat DEF PartInv
<1>8. end \in Nat /\ r \in Results /\ <<>> \o Tail(todo) = Tail(todo)
  <2>1. end \in Nat
    BY <1>2, <1>3
  <2> HIDE DEF end
  <2> QED
    BY <1>2, <2>1, ReadsTail
<1>9. NumberOfType' /\ BitsOfArray'
  BY <1>2, <1>4, <1>5 DEF NumberOfType, BitsOfArray
<1>10. Remaining' = IF Blizzard!Has(data, u, n)
                    THEN Blizzard!Then(Blizzard!Read(end, <<b>>), r)
                    ELSE Blizzard!Corrupted
  <2>1. Remaining' = ArrayRest'
    BY <1>4, Zenon DEF Remaining
  <2>2. ArrayRest' = IF Blizzard!Has(data, bigCall'.from, bigCall'.bits)
                     THEN Blizzard!Then(Blizzard!Read(bigCall'.from + bigCall'.bits,
                                          <<[from |-> bigCall'.from, bits |-> bigCall'.bits]>>),
                              Blizzard!Instances(data, Tail(todo), bigCall'.from + bigCall'.bits))
                     ELSE Blizzard!Corrupted
    BY <1>5, Zenon DEF ArrayRest, Rest
  <2> HIDE DEF n, u
  <2> QED
    BY <1>4, <2>1, <2>2, Zenon DEF Rest
<1> HIDE DEF n, u, end, b, r, t, p
<1>11. CASE Blizzard!Has(data, u, n)
  <2>1. Rest(todo, p) = Blizzard!Then(Blizzard!Read(end, <<n, b>>), r)
    <3>1. Blizzard!Instances(data, todo, p)
            = Blizzard!Then(Blizzard!Read(end, <<n, b>>),
                            Blizzard!Instances(data, <<>> \o Tail(todo), end))
      <4> DEFINE vs == <<n, b>>
                 none == <<>>
      <4>1. Begins(data, Blizzard!Decoder(data), Head(todo), p, end, vs, none)
        BY <1>3, <1>11 DEF Decoded, t
      <4> HIDE DEF vs, none
      <4>2. Blizzard!Instances(data, todo, p)
              = Blizzard!Then(Blizzard!Read(end, vs),
                              Blizzard!Instances(data, none \o Tail(todo), end))
        BY <1>2, <1>7, <4>1, InstancesBegin
      <4> QED
        BY <4>2, Zenon DEF vs, none
    <3> QED
      BY <1>8, <3>1, Zenon DEF Rest, r
  <2>2. Blizzard!Then(Blizzard!Read(end, <<n>>),
                      Blizzard!Then(Blizzard!Read(end, <<b>>), r))
          = Blizzard!Then(Blizzard!Read(end, <<n>> \o <<b>>), r)
    <3> DEFINE vs == <<n>>
               ws == <<b>>
    <3>1. vs \in Seq(Values) /\ ws \in Seq(Values)
      BY <1>6
    <3> HIDE DEF vs, ws
    <3>2. Blizzard!Then(Blizzard!Read(end, vs),
                        Blizzard!Then(Blizzard!Read(end, ws), r))
            = Blizzard!Then(Blizzard!Read(end, vs \o ws), r)
      BY <1>8, <3>1, ThenMore
    <3> QED
      BY <3>2, Zenon DEF vs, ws
  <2>3. Remaining = Blizzard!Then(Blizzard!Read(end, <<n>>), Remaining')
    BY <1>2, <1>6, <1>10, <1>11, <2>1, <2>2, Zenon
  <2>4. Remaining' \in Results
    <3>1. Blizzard!Read(end, <<b>>) \in Results
      BY <1>6, <1>8, ReadResult
    <3>2. Blizzard!Then(Blizzard!Read(end, <<b>>), r) \in Results
      BY <1>8, <3>1, ThenCases
    <3> QED
      BY <1>10, <1>11, <3>2, Zenon
  <2>5. Whole' = Whole /\ values' \in Seq(Values)
    BY <1>6, <1>7, <1>8, <2>3, <2>4, WholeKept
  <2> QED
    BY <1>5, <1>7, <1>9, <2>5 DEF PartInv
<1>12. CASE ~ Blizzard!Has(data, u, n)
  <2>1. Rest(todo, p) = Blizzard!Corrupted
    <3>1. Blizzard!Instances(data, todo, p) = Blizzard!Corrupted
      <4>1. Blizzard!Instance(data, Blizzard!Decoder(data), TypeInfos[Head(todo)], p)
              = Blizzard!Corrupted
        BY <1>2, <1>3, <1>12 DEF Decoded, t
      <4> QED
        BY <1>2, <1>7, <4>1, InstancesCorrupted
    <3> QED
      BY <3>1, Zenon DEF Rest
  <2>2. Remaining' = Blizzard!Corrupted
    BY <1>10, <1>12, Zenon
  <2>3. Blizzard!Then(Blizzard!Read(end, <<n>>), Blizzard!Corrupted) = Blizzard!Corrupted
    <3>1. Blizzard!Read(end, <<n>>) \in Results
      BY <1>6, <1>8, ReadResult
    <3> QED
      BY <3>1, CorruptedResult, ThenCases, Fields
  <2>4. Remaining = Blizzard!Then(Blizzard!Read(end, <<n>>), Remaining')
    BY <1>2, <2>1, <2>2, <2>3, Zenon
  <2>5. Remaining' \in Results
    BY <2>2, CorruptedResult, Zenon
  <2>6. Whole' = Whole /\ values' \in Seq(Values)
    BY <1>6, <1>7, <1>8, <2>4, <2>5, WholeKept
  <2> QED
    BY <1>5, <1>7, <1>9, <2>6 DEF PartInv
<1> QED
  BY <1>11, <1>12

(* The end of a bit array.                                                 *)
LEMMA ReadBitArrayKeeps ==
  ASSUME StreamInv, PartInv, ReadBitArrayValue
  PROVE  Whole' = Whole /\ PartInv'
<1> DEFINE p == bigCall.from
           n == bigCall.bits
           u == UsedBits
           b == [from |-> p, bits |-> n]
           r == Rest(Tail(todo), u)
<1>1. /\ bigCall # NoCall /\ bigCall.consumedBits + call.bits = n
      /\ call # NoCall /\ call.skippedBits = call.bits /\ call' = NoCall /\ bigCall' = NoCall
      /\ UNCHANGED buffer /\ Goes(<<b>>, <<>>)
  BY DEF ReadBitArrayValue, BigReturns, ReadBitsReturns
<1>2. todo # <<>> /\ todo \in Seq(TypeIds) /\ data' = data /\ UsedBits' = u
  BY <1>1 DEF StreamInv, ReadsForType, PartInv, buffer, UsedBits
<1>3. p \in Nat /\ n \in Nat /\ u \in Nat
  BY <1>1, PositionTypes
<1>4. u = p + n
  <2>1. call \in CallType /\ u = call.from + call.skippedBits
    BY <1>1 DEF StreamInv, IInv, ReadInv, CallInv
  <2>2. bigCall \in BigType /\ call.from = p + bigCall.consumedBits
    BY <1>1 DEF StreamInv, IInv, BigInv
  <2>3. call.bits \in Nat /\ bigCall.consumedBits \in Nat
    BY <2>1, <2>2 DEF CallType, BigType
  <2> HIDE DEF u
  <2> QED
    BY <1>1, <1>3, <2>1, <2>2, <2>3
<1>5. Blizzard!Has(data, p, n)
  BY <1>4, PositionInStream, SameStream DEF Blizzard!Has, StreamInv, IInv, ReadInv
<1> HIDE DEF u
<1>6. Remaining = Blizzard!Then(Blizzard!Read(u, <<b>>), r)
  <2>1. Remaining = ArrayRest
    BY <1>1, Zenon DEF Remaining
  <2>2. ArrayRest = Blizzard!Then(Blizzard!Read(p + n, <<b>>), Rest(Tail(todo), p + n))
    BY <1>5, Zenon DEF ArrayRest
  <2> QED
    BY <1>4, <2>1, <2>2, Zenon
<1>7. /\ todo' = Tail(todo) /\ values' = values \o <<b>> /\ todo' \in Seq(TypeIds)
      /\ r \in Results
  BY <1>1, <1>2, <1>3, ReadsTail DEF Goes
<1>8. Remaining' = r
  <2>1. Remaining' = Rest(todo, UsedBits)'
    BY <1>1, Zenon DEF Remaining
  <2> QED
    BY <1>2, <1>7, <2>1, Zenon DEF Rest
<1>9. <<b>> \in Seq(Values)
  BY <1>3, ValueSequences
<1> HIDE DEF r, b
<1>10. Remaining = Blizzard!Then(Blizzard!Read(u, <<b>>), Remaining') /\ Remaining' \in Results
  BY <1>6, <1>7, <1>8, Zenon
<1>11. Whole' = Whole /\ values' \in Seq(Values)
  BY <1>3, <1>7, <1>9, <1>10, WholeKept
<1> QED
  BY <1>1, <1>7, <1>11 DEF PartInv, NumberOfType, BitsOfArray

(* Whatever is read, the whole stays.                                      *)
LEMMA ReadTypeKeepsWhole ==
  ASSUME StreamInv, PartInv, ReadType \/ CopyMoreBits
  PROVE  Whole' = Whole /\ PartInv'
<1>1. CASE ReadStructFields \/ ReadNull
  BY <1>1, PlainKeeps
<1>2. CASE StartNumber
  BY <1>2, StartNumberKeeps
<1>3. CASE \/ ReadIntValue \/ ReadBoolValue \/ ReadArrayItems
           \/ TryReadOptionalTypeId \/ ReadChoiceValue
  BY <1>3, NumberKeeps
<1>4. CASE ReadBlobValue
  BY <1>4, BlobKeeps
<1>5. CASE StartBitArray
  BY <1>5, StartBitArrayKeeps
<1>6. CASE ContinueBitArray
  BY <1>6, ContinueKeeps
<1>7. CASE ReadBitArrayValue
  BY <1>7, ReadBitArrayKeeps
<1>8. CASE CopyMoreBits
  BY <1>8, CopyKeeps DEF CopyMoreBits
<1> QED
  BY <1>1, <1>2, <1>3, <1>4, <1>5, <1>6, <1>7, <1>8 DEF ReadType

-----------------------------------------------------------------------------
(* What throws.                                                            *)

(* If the rest cannot be read, the whole cannot.                           *)
LEMMA CorruptedRest ==
  ASSUME PartInv, Remaining = Blizzard!Corrupted
  PROVE  ~ Whole.ok
<1>1. Blizzard!Read(0, values) \in Results
  BY ReadResult DEF PartInv
<1>2. Blizzard!Then(Blizzard!Read(0, values), Blizzard!Corrupted) = Blizzard!Corrupted
  BY <1>1, CorruptedResult, ThenCases, Fields
<1>3. Whole = Blizzard!Corrupted
  BY <1>2, Zenon DEF Whole
<1> QED
  BY <1>3, Fields, Zenon

(* A type that cannot be read.                                             *)
LEMMA CorruptedType ==
  ASSUME StreamInv, PartInv, todo # <<>>, NEW p \in Nat, Remaining = Rest(todo, p),
         Blizzard!Instance(data, Decoded, TypeInfos[Head(todo)], p) = Blizzard!Corrupted
  PROVE  ~ Whole.ok
<1>1. data \in Seq(Byte) /\ todo \in Seq(TypeIds)
  BY PositionTypes DEF PartInv
<1>2. Blizzard!Instances(data, todo, p) = Blizzard!Corrupted
  BY <1>1, InstancesCorrupted DEF Decoded
<1>3. Remaining = Blizzard!Corrupted
  BY <1>2, Zenon DEF Rest
<1> QED
  BY <1>3, CorruptedRest

(* The reader throws only where the Python functions raise.                *)
LEMMA ThrowCorrupted ==
  ASSUME StreamInv, PartInv, Throw
  PROVE  ~ Whole.ok
<1>1. CASE DataEnds
  <2>1. call # NoCall /\ call.skippedBits # call.bits /\ Done /\ todo # <<>>
    BY <1>1 DEF DataEnds, ReadBitsThrows, StreamInv, ReadsForType
  <2>2. /\ call \in CallType /\ call.skippedBits <= call.bits
        /\ UsedBits = call.from + call.skippedBits
    BY <2>1 DEF StreamInv, IInv, ReadInv, CallInv
  <2>3. /\ call.from \in Nat /\ call.bits \in Nat /\ call.skippedBits \in Nat
    BY <2>2 DEF CallType
  <2>4. UsedBits = Size(data) /\ Size(data) \in Nat /\ Blizzard!Size(data) = Size(data)
    BY <2>1, PositionInStream, SameStream DEF StreamInv, IInv, ReadInv
  <2>5. call.from + call.bits > Size(data)
    <3> HIDE DEF UsedBits
    <3> QED
      BY <2>1, <2>2, <2>3, <2>4
  <2>6. CASE bigCall = NoCall
    <3>1. Type.kind \notin {"null", "struct"} /\ call.bits = Type.bits
      BY <2>1, <2>6 DEF PartInv, NumberOfType
    <3>2. Head(todo) \in TypeIds
      BY <2>1, HeadTailProperties DEF PartInv
    <3>3. ~ Blizzard!Has(data, call.from, TypeInfos[Head(todo)].bits)
      BY <2>3, <2>4, <2>5, <3>1 DEF Blizzard!Has, Type
    <3>4. Blizzard!Instance(data, Decoded, TypeInfos[Head(todo)], call.from)
            = Blizzard!Corrupted
      BY <3>1, <3>2, <3>3, NumberEnds DEF Type
    <3>5. Remaining = Rest(todo, call.from)
      BY <2>1, <2>6, Zenon DEF Remaining
    <3> QED
      BY <2>1, <2>3, <3>4, <3>5, CorruptedType
  <2>7. CASE bigCall # NoCall
    <3>1. /\ bigCall \in BigType /\ bigCall.consumedBits <= bigCall.bits
          /\ call.from = bigCall.from + bigCall.consumedBits
          /\ call.bits = Least(bigCall.bits - bigCall.consumedBits, Word)
      BY <2>7 DEF StreamInv, IInv, BigInv
    <3>2. /\ bigCall.from \in Nat /\ bigCall.consumedBits \in Nat /\ bigCall.bits \in Nat
          /\ Word \in Nat
      BY <3>1, BufferAssumption DEF BigType
    <3>3. call.bits <= bigCall.bits - bigCall.consumedBits
      BY <3>1, <3>2 DEF Least
    <3>4. ~ bigCall.from + bigCall.bits <= Size(data)
      BY <2>3, <2>4, <2>5, <3>1, <3>2, <3>3
    <3>5. ~ Blizzard!Has(data, bigCall.from, bigCall.bits)
      BY <2>4, <3>4, Zenon DEF Blizzard!Has
    <3>6. Remaining = Blizzard!Corrupted
      BY <2>1, <2>7, <3>5, Zenon DEF Remaining, ArrayRest
    <3> QED
      BY <3>6, CorruptedRest
  <2> QED
    BY <2>6, <2>7
<1>2. CASE UnknownChoice
  <2>1. NumberRead("choice") /\ Number(Type) \notin DOMAIN Type.choices
    BY <1>2 DEF UnknownChoice
  <2>2. /\ NumberBegins(data, Decoded, Head(todo), call.from, Type, UsedBits, Number(Type))
        /\ Remaining = Rest(todo, call.from) /\ todo # <<>> /\ Type.kind = "choice"
        /\ Type = TypeInfos[Head(todo)] /\ call.from \in Nat
    BY <2>1, NumberReadBegins
  <2>3. Blizzard!Instance(data, Decoded, TypeInfos[Head(todo)], call.from)
          = Blizzard!Corrupted
    BY <2>1, <2>2, Zenon DEF NumberBegins
  <2> QED
    BY <2>2, <2>3, CorruptedType
<1>3. CASE BlobEnds
  <2> DEFINE n == Number(Type)
  <2>1. NumberRead("blob") /\ ~ Spans(n)
    BY <1>3 DEF BlobEnds
  <2>2. /\ NumberBegins(data, Decoded, Head(todo), call.from, Type, UsedBits, n)
        /\ Remaining = Rest(todo, call.from) /\ todo # <<>> /\ Type.kind = "blob"
        /\ Type = TypeInfos[Head(todo)] /\ call.from \in Nat
    BY <2>1, NumberReadBegins
  <2> HIDE DEF n
  <2>3. n \in Nat
    BY <2>2, Zenon DEF NumberBegins
  <2>4. ~ Blizzard!Has(data, Blizzard!Align(UsedBits), n * ByteBits)
    BY <2>1, <2>3, SpanAgrees
  <2>5. Blizzard!Instance(data, Decoded, TypeInfos[Head(todo)], call.from)
          = Blizzard!Corrupted
    BY <2>2, <2>4, Zenon DEF NumberBegins
  <2> QED
    BY <2>2, <2>5, CorruptedType
<1> QED
  BY <1>1, <1>2, <1>3 DEF Throw

(* A part that has been read is the whole of it.                           *)
LEMMA WholeRead ==
  ASSUME StreamInv, PartInv, todo = <<>>
  PROVE  /\ call = NoCall /\ bigCall = NoCall
         /\ Whole.ok /\ Whole.at = UsedBits /\ Whole.values = values
         /\ values \in Seq(Values)
<1>1. call = NoCall /\ bigCall = NoCall /\ data \in Seq(Byte) /\ UsedBits \in Nat
  BY PositionTypes DEF StreamInv, ReadsForType
<1>2. Remaining = Blizzard!Read(UsedBits, <<>>)
  <2>1. Blizzard!Instances(data, <<>>, UsedBits) = Blizzard!Read(UsedBits, <<>>)
    BY <1>1, InstancesNone
  <2>2. Remaining = Blizzard!Instances(data, todo, UsedBits)
    BY <1>1, Zenon DEF Remaining, Rest
  <2> QED
    BY <2>1, <2>2, Zenon
<1> DEFINE a == Blizzard!Read(0, values)
           b == Blizzard!Read(UsedBits, <<>>)
<1>3. /\ values \in Seq(Values) /\ a \in Results /\ b \in Results
      /\ a.ok /\ b.ok /\ a.values = values /\ b.values = <<>> /\ b.at = UsedBits
      /\ Both(values, <<>>) = values
  <2>1. values \in Seq(Values) /\ <<>> \in Seq(Values)
    BY BothValues DEF PartInv
  <2>2. Both(values, <<>>) = values
    BY <2>1, BothValues
  <2>3. a \in Results /\ b \in Results
    BY <1>1, <2>1, ReadResult
  <2> QED
    BY <2>1, <2>2, <2>3, Fields
<1> HIDE DEF a, b
<1>4. /\ Blizzard!Then(a, b).ok /\ Blizzard!Then(a, b).at = b.at
      /\ Blizzard!Then(a, b).values = Both(a.values, b.values)
  BY <1>3, ThenCases
<1>5. Whole = Blizzard!Then(a, b)
  BY <1>2, Zenon DEF Whole, a, b
<1> QED
  BY <1>1, <1>3, <1>4, <1>5, Zenon

(* The start of a part.                                                    *)
LEMMA PartStarts ==
  ASSUME StreamInv, call = NoCall, NEW t \in TypeIds, UNCHANGED bufferVars,
         todo' = <<t>>, values' = <<>>
  PROVE  PartInv' /\ Whole' = Rest(<<t>>, UsedBits)
<1>1. /\ data \in Seq(Byte) /\ UsedBits \in Nat /\ bigCall = NoCall
      /\ data' = data /\ call' = NoCall /\ bigCall' = NoCall /\ UsedBits' = UsedBits
  BY PositionTypes DEF bufferVars, buffer, UsedBits
<1> DEFINE types == <<t>>
           none == <<>>
           r == Rest(types, UsedBits)
<1>2. types \in Seq(TypeIds) /\ none \in Seq(Values)
  OBVIOUS
<1>3. todo' = types /\ values' = none
  OBVIOUS
<1>4. PartInv'
  BY <1>1, <1>2, <1>3 DEF PartInv, NumberOfType, BitsOfArray
<1> HIDE DEF types
<1>5. r \in Results
  BY <1>1, <1>2, InstancesResult DEF Rest
<1>6. Remaining' = r
  <2>1. Remaining' = Rest(todo, UsedBits)'
    BY <1>1, Zenon DEF Remaining
  <2> QED
    BY <1>1, <1>3, <2>1, Zenon DEF Rest
<1>7. Whole' = Blizzard!Then(Blizzard!Read(0, <<>>), Remaining')
  BY <1>3, Zenon DEF Whole
<1> HIDE DEF r
<1>8. Blizzard!Then(Blizzard!Read(0, <<>>), r) = r
  BY <1>5, ThenNothing
<1> QED
  BY <1>4, <1>6, <1>7, <1>8, Zenon DEF r, types

-----------------------------------------------------------------------------
(* An event of the Python functions, part by part.                         *)

(* The parts of the event at hand: each begins where the one before it     *)
(* ends.                                                                   *)
DeltaPart == Blizzard!Instances(data, <<SVarUint32TypeId>>, agreed.at)
UserPart  == Blizzard!Instances(data, <<ReplayUserIdTypeId>>, DeltaPart.at)
IdPart    == Blizzard!Instances(data, <<EventIdTypeId>>, UserPart.at)
BodyPart  == Blizzard!Instances(data, <<EventTypes[Blizzard!Value(IdPart)]>>, IdPart.at)

(* The event at hand.                                                      *)
AgreedEvent == Blizzard!Event(data, agreed.at)

(* An event is there if all its parts are, one behind the other.           *)
LEMMA EventParts ==
  /\ AgreedEvent.ok <=>
       /\ DeltaPart.ok /\ UserPart.ok /\ IdPart.ok
       /\ Blizzard!Value(IdPart) \in DOMAIN EventTypes /\ BodyPart.ok
  /\ AgreedEvent.ok =>
       /\ AgreedEvent.delta = Blizzard!Value(DeltaPart)
       /\ AgreedEvent.user = Blizzard!Value(UserPart)
       /\ AgreedEvent.id = Blizzard!Value(IdPart)
       /\ AgreedEvent.values = BodyPart.values
       /\ AgreedEvent.end = Align(BodyPart.at)
<1> DEFINE whole == /\ DeltaPart.ok /\ UserPart.ok /\ IdPart.ok
                    /\ Blizzard!Value(IdPart) \in DOMAIN EventTypes /\ BodyPart.ok
           d == Blizzard!Value(DeltaPart)
           u == Blizzard!Value(UserPart)
           i == Blizzard!Value(IdPart)
           v == BodyPart.values
           e == Blizzard!Align(BodyPart.at)
<1>1. AgreedEvent = IF whole
                    THEN [ok |-> TRUE, delta |-> d, user |-> u, id |-> i,
                          values |-> v, end |-> e]
                    ELSE [ok |-> FALSE]
  BY Zenon DEF AgreedEvent, Blizzard!Event, DeltaPart, UserPart, IdPart, BodyPart
<1>2. e = Align(BodyPart.at)
  BY SameStream, Zenon
<1> HIDE DEF whole, d, u, i, v, e
<1>3. AgreedEvent.ok <=> whole
  BY <1>1
<1>4. whole => /\ AgreedEvent.delta = d /\ AgreedEvent.user = u /\ AgreedEvent.id = i
               /\ AgreedEvent.values = v /\ AgreedEvent.end = e
  BY <1>1
<1> QED
  BY <1>2, <1>3, <1>4, Zenon DEF whole, d, u, i, v, e

(* A number of the header that is read fits into an int.                   *)
LEMMA IntInstance ==
  ASSUME NEW stream \in Seq(Byte), NEW t, FitsInt(t), NEW p \in Nat,
         NEW r, r = Blizzard!Instances(stream, <<t>>, p), r.ok
  PROVE  Clamp(Blizzard!Value(r)) = Blizzard!Value(r)
<1> DEFINE instance == Blizzard!Decoder(stream)
           type == TypeInfos[t]
           n == Blizzard!Number(stream, p, type)
           after == p + type.bits
<1>1. t \in TypeIds /\ type.kind = "int" /\ Between(type, -MaxInt - 1, MaxInt)
  BY DEF FitsInt, TypeIds
<1>2. r = Blizzard!Instance(stream, instance, type, p)
  BY <1>1, InstancesOne
<1>3. Blizzard!Has(stream, p, type.bits)
  <2> SUFFICES ASSUME ~ Blizzard!Has(stream, p, type.bits) PROVE FALSE
    OBVIOUS
  <2>1. Blizzard!Instance(stream, instance, type, p) = Blizzard!Corrupted
    BY <1>1, NumberEnds
  <2> QED
    BY <1>2, <2>1, Fields, Zenon
<1>4. r = Blizzard!Read(after, <<n>>)
  <2>1. type.kind \notin {"null", "struct"}
    BY <1>1
  <2> QED
    BY <1>1, <1>2, <1>3, <2>1 DEF Blizzard!Instance
<1>5. Blizzard!Value(r) = n
  <2> DEFINE vs == <<n>>
  <2>1. vs[Len(vs)] = n
    <3> HIDE DEF n
    <3> QED
      OBVIOUS
  <2> HIDE DEF vs, n, after
  <2>2. r.values = vs
    <3>1. r = Blizzard!Read(after, vs)
      BY <1>4 DEF vs
    <3> QED
      BY <3>1, Fields
  <2> QED
    BY <2>1, <2>2, Zenon DEF Blizzard!Value
<1>6. n \in Int /\ -MaxInt - 1 <= n /\ n <= MaxInt /\ MaxInt \in Nat
  <2>1. /\ n \in Int /\ type.min <= n /\ n <= type.min + Ones(type.bits)
        /\ type.min \in Int /\ Ones(type.bits) \in Nat
    BY <1>1, TypeNumber
  <2>2. -MaxInt - 1 <= type.min /\ type.min + Ones(type.bits) <= MaxInt
    BY <1>1 DEF Between
  <2>3. MaxInt \in Nat
    BY TypesAssumption
  <2> HIDE DEF n, type
  <2> QED
    BY <2>1, <2>2, <2>3
<1> HIDE DEF n
<1> QED
  BY <1>5, <1>6 DEF Clamp

(* The types of the parts are types of the stream.                         *)
LEMMA HeaderTypes ==
  /\ SVarUint32TypeId \in TypeIds /\ ReplayUserIdTypeId \in TypeIds
  /\ EventIdTypeId \in TypeIds
  /\ \A id \in DOMAIN EventTypes : EventTypes[id] \in TypeIds
BY HeaderAssumption DEF TypeIds, FitsInt

(* So does the user id, which is a struct of one number.                   *)
LEMMA UserInstance ==
  ASSUME NEW stream \in Seq(Byte), NEW p \in Nat,
         NEW r, r = Blizzard!Instances(stream, <<ReplayUserIdTypeId>>, p), r.ok
  PROVE  Clamp(Blizzard!Value(r)) = Blizzard!Value(r)
<1> DEFINE t == ReplayUserIdTypeId
           type == TypeInfos[t]
           f == type.fields[1]
<1>1. /\ t \in TypeIds /\ type.kind = "struct" /\ Len(type.fields) = 1 /\ FitsInt(f)
  BY HeaderAssumption, HeaderTypes
<1>2. type.fields \in Seq(Before(t))
  BY <1>1, TypesAssumption DEF TypeIds
<1>3. type.fields = <<f>>
  BY <1>1, <1>2
<1>4. r = Blizzard!Instances(stream, <<f>>, p)
  <2>1. r = Blizzard!Instance(stream, Blizzard!Decoder(stream), type, p)
    BY <1>1, InstancesOne
  <2>2. Blizzard!Instance(stream, Blizzard!Decoder(stream), type, p)
          = Blizzard!Listed(Blizzard!Decoder(stream), type.fields, p)
    BY <1>1 DEF Blizzard!Instance
  <2> QED
    BY <1>3, <2>1, <2>2, Zenon DEF Blizzard!Instances
<1> QED
  BY <1>1, <1>4, IntInstance

(* Every part is a result.                                                 *)
LEMMA PartResults ==
  ASSUME data \in Seq(Byte), agreed.at \in Nat
  PROVE  /\ DeltaPart \in Results /\ DeltaPart.at \in Nat
         /\ UserPart \in Results /\ UserPart.at \in Nat
         /\ IdPart \in Results /\ IdPart.at \in Nat
<1>1. \A t \in TypeIds, p \in Nat :
        /\ Blizzard!Instances(data, <<t>>, p) \in Results
        /\ Blizzard!Instances(data, <<t>>, p).at \in Nat
  <2> TAKE t \in TypeIds, p \in Nat
  <2> DEFINE types == <<t>>
  <2>1. types \in Seq(TypeIds)
    OBVIOUS
  <2> HIDE DEF types
  <2>2. Blizzard!Instances(data, types, p) \in Results
    BY <2>1, InstancesResult
  <2>3. Blizzard!Instances(data, types, p).at \in Nat
    BY <2>2, ResultCases
  <2> QED
    BY <2>2, <2>3, Zenon DEF types
<1>2. DeltaPart \in Results /\ DeltaPart.at \in Nat
  BY <1>1, HeaderTypes, Zenon DEF DeltaPart
<1>3. UserPart \in Results /\ UserPart.at \in Nat
  BY <1>1, <1>2, HeaderTypes, Zenon DEF UserPart
<1>4. IdPart \in Results /\ IdPart.at \in Nat
  BY <1>1, <1>3, HeaderTypes, Zenon DEF IdPart
<1> QED
  BY <1>2, <1>3, <1>4

-----------------------------------------------------------------------------
(* Sequences.                                                              *)

(* Events are only appended: what is before stays.                         *)
LEMMA AppendKeeps ==
  ASSUME NEW S, NEW s \in Seq(S), NEW e, NEW k \in Nat, k <= Len(s)
  PROVE  /\ SubSeq(Append(s, e), 1, k) = SubSeq(s, 1, k)
         /\ k # 0 => Append(s, e)[k] = s[k]
         /\ Len(Append(s, e)) = Len(s) + 1
         /\ \E T : Append(s, e) \in Seq(T)
<1> DEFINE T == S \union {e}
           a == Append(s, e)
<1>1. s \in Seq(T) /\ e \in T
  OBVIOUS
<1> HIDE DEF T, a
<1>2. /\ a \in Seq(T) /\ Len(a) = Len(s) + 1
      /\ \A i \in 1 .. Len(s) : a[i] = s[i]
  BY <1>1, AppendProperties DEF a
<1>3. SubSeq(a, 1, k) = SubSeq(s, 1, k)
  <2>1. /\ \A i \in 1 .. k : s[i] \in T /\ a[i] \in T /\ a[i] = s[i]
        /\ 1 \in Int /\ k \in Int
    BY <1>1, <1>2
  <2>2. /\ SubSeq(s, 1, k) \in Seq(T) /\ Len(SubSeq(s, 1, k)) = k
        /\ \A i \in 1 .. k : SubSeq(s, 1, k)[i] = s[i]
    BY <2>1, SubSeqProperties
  <2>3. /\ SubSeq(a, 1, k) \in Seq(T) /\ Len(SubSeq(a, 1, k)) = k
        /\ \A i \in 1 .. k : SubSeq(a, 1, k)[i] = a[i]
    BY <2>1, SubSeqProperties
  <2> QED
    BY <2>1, <2>2, <2>3
<1>4. k # 0 => a[k] = s[k]
  BY <1>2
<1> QED
  BY <1>2, <1>3, <1>4 DEF a

(* An event that is appended is behind all the others.                     *)
LEMMA AppendAgrees ==
  ASSUME NEW S, NEW s \in Seq(S), NEW e
  PROVE  /\ SubSeq(Append(s, e), 1, Len(s) + 1) = Append(SubSeq(s, 1, Len(s)), e)
         /\ Append(s, e)[Len(s) + 1] = e
<1> DEFINE T == S \union {e}
           a == Append(s, e)
<1>1. s \in Seq(T) /\ e \in T
  OBVIOUS
<1> HIDE DEF T
<1>2. a \in Seq(T) /\ Len(a) = Len(s) + 1 /\ a[Len(s) + 1] = e
  BY <1>1, AppendProperties
<1>3. SubSeq(s, 1, Len(s)) = s
  BY SubSeqFull
<1>4. SubSeq(a, 1, Len(a)) = a
  <2> HIDE DEF a
  <2> QED
    BY <1>2, SubSeqFull
<1> QED
  BY <1>2, <1>3, <1>4, Zenon

-----------------------------------------------------------------------------
(* The invariant of the agreement with the Python functions.               *)

(* The game loop of the last event they agreed about.                      *)
LastLoop == IF agreed.events = 0 THEN 0 ELSE events[agreed.events].gameloop

(* The variables of BlizzardStream.                                        *)
Shown == <<data, agreed.at, LastLoop, AgreedEvents, AgreedStatus>>

(* How far they agree.                                                     *)
AgreedType == [until : {"now", "overflow", "unknown"}, events : Nat, at : Nat]

(* They agreed about the first events of the store.                        *)
EventsInv ==
  /\ agreed \in AgreedType
  /\ agreed.events <= Len(events)
  /\ \E S : events \in Seq(S)

(* The header as far as it has been read.                                  *)
DeltaRead == DeltaPart.ok /\ gameloop = LastLoop + Blizzard!Value(DeltaPart)
UserRead  == DeltaRead /\ UserPart.ok /\ userId = Blizzard!Value(UserPart)
IdRead    == UserRead /\ IdPart.ok /\ eventId = Blizzard!Value(IdPart)
             /\ eventId \in DOMAIN EventTypes

(* Between two events.                                                     *)
AtStart ==
  /\ nextBits = 0 /\ call = NoCall
  /\ agreed.at = UsedBits
  /\ gameloop = LastLoop

(* The part at hand.                                                       *)
InPart ==
  /\ startBits = agreed.at /\ agreed.at < Size(data)
  /\ phase = "delta" => gameloop = LastLoop /\ Whole = DeltaPart
  /\ phase = "user"  => DeltaRead /\ Whole = UserPart
  /\ phase = "id"    => UserRead /\ Whole = IdPart
  /\ phase = "body"  => IdRead /\ Whole = BodyPart

(* What holds as long as they agree: between two events the decoder is     *)
(* behind the last one; within one, the part at hand is what the Python    *)
(* functions find there, and the header holds the parts before it.         *)
Agrees ==
  /\ agreed.events = Len(events)
  /\ phase = "start" => AtStart
  /\ Reading => PartInv /\ InPart

(* The inductive invariant of the refinement.                              *)
AgreementInv ==
  StreamInv /\ EventsInv /\ (agreed.until = "now" => Agrees)

-----------------------------------------------------------------------------
(* What a step may do to the events.                                       *)

(* What the refinement shows depends on these variables only.              *)
LEMMA ShownStays ==
  ASSUME UNCHANGED <<data, agreed, events, phase>>
  PROVE  UNCHANGED Shown
BY DEF Shown, LastLoop, AgreedEvents, AgreedStatus

(* So do the events.                                                       *)
LEMMA EventsStay ==
  ASSUME EventsInv, UNCHANGED <<agreed, events>>
  PROVE  EventsInv'
BY DEF EventsInv

(* Reading leaves the event alone.                                         *)
LEMMA ReadingFrame ==
  ASSUME ReadType \/ CopyMoreBits
  PROVE  UNCHANGED <<data, phase, header, events, agreed>>
<1>1. CASE ReadStructFields \/ ReadNull
  BY <1>1 DEF ReadStructFields, ReadNull, Goes, bufferVars, buffer
<1>2. CASE StartNumber
  BY <1>2 DEF StartNumber, ReadBits, buffer
<1>3. CASE \/ ReadIntValue \/ ReadBoolValue \/ ReadArrayItems
           \/ TryReadOptionalTypeId \/ ReadChoiceValue
  <2>1. PICK kind : Returns(kind)
    BY <1>3 DEF ReadIntValue, ReadBoolValue, ReadArrayItems, TryReadOptionalTypeId,
               ReadChoiceValue
  <2>2. data' = data
    BY <2>1 DEF Returns, ReadBitsReturns, buffer
  <2>3. PICK vs, types : Goes(vs, types)
    BY <1>3, Zenon DEF ReadIntValue, ReadBoolValue, ReadArrayItems, TryReadOptionalTypeId,
               ReadChoiceValue
  <2> QED
    BY <2>2, <2>3 DEF Goes
<1>4. CASE ReadBlobValue
  BY <1>4 DEF ReadBlobValue, ReadAlignedSpan, Goes
<1>5. CASE StartBitArray
  BY <1>5 DEF StartBitArray, buffer
<1>6. CASE ContinueBitArray
  BY <1>6 DEF ContinueBitArray, BigTurn, buffer
<1>7. CASE ReadBitArrayValue
  BY <1>7 DEF ReadBitArrayValue, BigReturns, ReadBitsReturns, Goes, buffer
<1>8. CASE CopyMoreBits
  BY <1>8 DEF CopyMoreBits, CopyBits
<1> QED
  BY <1>1, <1>2, <1>3, <1>4, <1>5, <1>6, <1>7, <1>8 DEF ReadType

(* An exception leaves the events alone.                                   *)
LEMMA ThrowFrame ==
  ASSUME Throw
  PROVE  /\ UNCHANGED <<data, events, agreed>>
         /\ Reading /\ phase' = "failed"
BY DEF Throw, DataEnds, UnknownChoice, BlobEnds, Fail, bufferVars, buffer

(* The loop only appends events.                                           *)
LEMMA DecodeFrame ==
  ASSUME DecodeEvent
  PROVE  data' = data /\ (events' = events \/ \E e : events' = Append(events, e))
<1>1. CASE StartEvent \/ AddDelta \/ ReadUserId \/ ReadEventId \/ UnknownEvent
  BY <1>1 DEF StartEvent, AddDelta, ReadUserId, ReadEventId, UnknownEvent, Starts,
              bufferVars, buffer
<1>2. CASE EndOfStream
  BY <1>2 DEF EndOfStream, bufferVars, buffer
<1>3. CASE Complete
  BY <1>3, Zenon DEF Complete, ByteAlign
<1> QED
  BY <1>1, <1>2, <1>3 DEF DecodeEvent

(* Events that are appended leave those before them alone.                 *)
LEMMA EventsAppended ==
  ASSUME EventsInv, events' = events \/ \E e : events' = Append(events, e)
  PROVE  /\ SubSeq(events', 1, agreed.events) = AgreedEvents
         /\ agreed.events # 0 => events'[agreed.events] = events[agreed.events]
         /\ Len(events) <= Len(events') /\ \E S : events' \in Seq(S)
         /\ Len(events) \in Nat
<1>1. PICK S : events \in Seq(S)
  BY DEF EventsInv
<1>2. agreed.events \in Nat /\ agreed.events <= Len(events) /\ Len(events) \in Nat
  BY <1>1 DEF EventsInv, AgreedType
<1>3. CASE events' = events
  BY <1>1, <1>2, <1>3 DEF AgreedEvents
<1>4. ASSUME NEW e, events' = Append(events, e) PROVE
         /\ SubSeq(events', 1, agreed.events) = AgreedEvents
         /\ agreed.events # 0 => events'[agreed.events] = events[agreed.events]
         /\ Len(events) <= Len(events') /\ \E T : events' \in Seq(T)
  <2> DEFINE a == Append(events, e)
             k == agreed.events
  <2> HIDE DEF k
  <2>1. /\ SubSeq(a, 1, k) = SubSeq(events, 1, k)
        /\ k # 0 => a[k] = events[k]
        /\ Len(a) = Len(events) + 1
        /\ \E T : a \in Seq(T)
    BY <1>1, <1>2, AppendKeeps DEF k
  <2> HIDE DEF a
  <2>2. Len(events) <= Len(a)
    BY <1>2, <2>1
  <2>3. events' = a
    BY <1>4 DEF a
  <2> QED
    BY <2>1, <2>2, <2>3, Zenon DEF AgreedEvents, k
<1> QED
  BY <1>2, <1>3, <1>4

(* Once they have parted, nothing is shown any more.                       *)
LEMMA PartedStays ==
  ASSUME EventsInv, agreed.until # "now", Next
  PROVE  EventsInv' /\ agreed' = agreed /\ UNCHANGED Shown
<1>1. data' = data /\ (events' = events \/ \E e : events' = Append(events, e))
  BY ReadingFrame, ThrowFrame, DecodeFrame DEF Next
<1>2. agreed' = agreed
  <2>1. agreed \in AgreedType
    BY DEF EventsInv
  <2>2. CASE ReadType \/ CopyMoreBits
    BY <2>2, ReadingFrame
  <2>3. CASE Throw
    BY <2>3, ThrowFrame
  <2>4. CASE AddDelta \/ UnknownEvent
    BY <2>1, <2>4 DEF AddDelta, UnknownEvent, AgreedType
  <2>5. CASE StartEvent \/ ReadUserId \/ ReadEventId \/ Complete \/ EndOfStream
    BY <2>5 DEF StartEvent, ReadUserId, ReadEventId, Complete, EndOfStream
  <2> QED
    BY <2>2, <2>3, <2>4, <2>5 DEF Next, DecodeEvent
<1>3. /\ SubSeq(events', 1, agreed.events) = AgreedEvents
      /\ agreed.events # 0 => events'[agreed.events] = events[agreed.events]
      /\ Len(events) <= Len(events') /\ (\E S : events' \in Seq(S))
      /\ Len(events) \in Nat
  BY <1>1, EventsAppended
<1>4. EventsInv'
  <2>1. agreed.events \in Nat /\ agreed.events <= Len(events) /\ Len(events') \in Nat
    BY <1>3 DEF EventsInv, AgreedType
  <2>2. agreed.events <= Len(events')
    BY <1>3, <2>1
  <2> QED
    BY <1>2, <1>3, <2>2 DEF EventsInv
<1>5. agreed.until = "overflow" \/ agreed.until = "unknown"
  BY DEF EventsInv, AgreedType
<1>6. AgreedStatus' = AgreedStatus
  BY <1>2, <1>5 DEF AgreedStatus
<1>7. LastLoop' = LastLoop
  BY <1>2, <1>3 DEF LastLoop
<1>8. AgreedEvents' = AgreedEvents
  BY <1>2, <1>3, Zenon DEF AgreedEvents
<1> QED
  BY <1>1, <1>2, <1>4, <1>6, <1>7, <1>8 DEF Shown

-----------------------------------------------------------------------------
(* The steps, while they agree.                                            *)

(* They have not parted.                                                   *)
Now == AgreementInv /\ agreed.until = "now"

(* The parts are where they were, and so is what has been read.            *)
LEMMA PartsStay ==
  ASSUME UNCHANGED <<data, agreed, events>>
  PROVE  /\ DeltaPart' = DeltaPart /\ UserPart' = UserPart
         /\ IdPart' = IdPart /\ BodyPart' = BodyPart
         /\ LastLoop' = LastLoop
<1>1. DeltaPart' = DeltaPart
  BY Zenon DEF DeltaPart
<1>2. UserPart' = UserPart
  BY <1>1, Zenon DEF UserPart
<1>3. IdPart' = IdPart
  BY <1>2, Zenon DEF IdPart
<1>4. BodyPart' = BodyPart
  BY <1>3, Zenon DEF BodyPart
<1>5. LastLoop' = LastLoop
  BY DEF LastLoop
<1> QED
  BY <1>1, <1>2, <1>3, <1>4, <1>5

(* The phases exclude each other.                                          *)
LEMMA PhasesApart ==
  /\ phase = "start" => ~ Reading
  /\ phase \in {"done", "failed"} => ~ Reading /\ phase # "start"
BY DEF Reading

(* Reading a type: the part at hand stays what it is, and nothing is       *)
(* shown.                                                                  *)
LEMMA NowReads ==
  ASSUME Now, ReadType \/ CopyMoreBits
  PROVE  EventsInv' /\ Agrees' /\ UNCHANGED Shown
<1>1. /\ UNCHANGED <<data, phase, header, events, agreed>>
      /\ StreamInv /\ EventsInv /\ Agrees
  BY ReadingFrame DEF Now, AgreementInv
<1>2. EventsInv' /\ UNCHANGED Shown
  BY <1>1, EventsStay, ShownStays
<1>3. phase # "start"
  <2> SUFFICES ASSUME phase = "start" PROVE FALSE
    OBVIOUS
  <2>1. call = NoCall /\ ~ Reading
    BY <1>1, PhasesApart DEF Agrees, AtStart
  <2>2. /\ ~ CopyMoreBits /\ ~ ContinueBitArray /\ ~ ReadBitArrayValue
    BY <2>1 DEF CopyMoreBits, CopyBits, ContinueBitArray, BigTurn, ReadBitArrayValue,
                BigReturns, ReadBitsReturns
  <2>3. /\ ~ ReadStructFields /\ ~ ReadNull /\ ~ StartNumber
    BY <2>1 DEF ReadStructFields, ReadNull, StartNumber, Visits
  <2>4. /\ ~ ReadIntValue /\ ~ ReadBoolValue /\ ~ ReadArrayItems
        /\ ~ TryReadOptionalTypeId /\ ~ ReadChoiceValue /\ ~ ReadBlobValue
        /\ ~ StartBitArray
    BY <2>1 DEF ReadIntValue, ReadBoolValue, ReadArrayItems, TryReadOptionalTypeId,
                ReadChoiceValue, ReadBlobValue, StartBitArray, Returns, NumberRead
  <2> QED
    BY <2>2, <2>3, <2>4 DEF ReadType
<1>4. ASSUME Reading PROVE PartInv' /\ InPart'
  <2>1. PartInv /\ InPart
    BY <1>1, <1>4 DEF Agrees
  <2>2. Whole' = Whole /\ PartInv'
    BY <1>1, <2>1, ReadTypeKeepsWhole
  <2>3. /\ DeltaPart' = DeltaPart /\ UserPart' = UserPart
        /\ IdPart' = IdPart /\ BodyPart' = BodyPart /\ LastLoop' = LastLoop
    BY <1>1, PartsStay
  <2>4. /\ startBits' = startBits /\ gameloop' = gameloop /\ userId' = userId
        /\ eventId' = eventId /\ data' = data /\ phase' = phase /\ agreed' = agreed
    BY <1>1 DEF header
  <2>5. (DeltaRead' <=> DeltaRead) /\ (UserRead' <=> UserRead) /\ (IdRead' <=> IdRead)
    BY <2>3, <2>4, Zenon DEF DeltaRead, UserRead, IdRead, Blizzard!Value
  <2>6. InPart'
    BY <2>1, <2>2, <2>3, <2>4, <2>5, Zenon DEF InPart
  <2> QED
    BY <2>2, <2>6
<1>5. Agrees'
  <2>1. phase' = phase /\ agreed' = agreed /\ events' = events /\ (Reading' <=> Reading)
    BY <1>1 DEF Reading
  <2> QED
    BY <1>1, <1>3, <1>4, <2>1 DEF Agrees
<1> QED
  BY <1>2, <1>5

(* Data, position, game loop and events of the abstract stream stay.       *)
LEMMA AbstractStays ==
  ASSUME UNCHANGED <<data, agreed, events>>
  PROVE  /\ agreed.at' = agreed.at
         /\ LastLoop' = LastLoop
         /\ AgreedEvents' = AgreedEvents
BY DEF LastLoop, AgreedEvents

(* An exception: the Python functions raise for this event, too.           *)
LEMMA NowThrows ==
  ASSUME Now, Throw
  PROVE  EventsInv' /\ Agrees' /\ Blizzard!Next
<1>1. /\ UNCHANGED <<data, events, agreed>> /\ Reading /\ phase' = "failed"
      /\ StreamInv /\ EventsInv /\ Agrees /\ agreed.until = "now"
  BY ThrowFrame DEF Now, AgreementInv
<1>2. EventsInv'
  BY <1>1, EventsStay
<1>3. Agrees'
  BY <1>1, PhasesApart DEF Agrees, Reading
<1>4. PartInv /\ InPart
  BY <1>1 DEF Agrees
<1>5. ~ Whole.ok
  BY <1>1, <1>4, ThrowCorrupted
<1>6. ~ AgreedEvent.ok
  <2>1. CASE phase = "delta"
    BY <1>4, <1>5, <2>1, EventParts, Zenon DEF InPart
  <2>2. CASE phase = "user"
    BY <1>4, <1>5, <2>2, EventParts, Zenon DEF InPart
  <2>3. CASE phase = "id"
    BY <1>4, <1>5, <2>3, EventParts, Zenon DEF InPart
  <2>4. CASE phase = "body"
    BY <1>4, <1>5, <2>4, EventParts, Zenon DEF InPart
  <2> QED
    BY <1>1, <2>1, <2>2, <2>3, <2>4 DEF Reading
<1>7. AgreedStatus = "decoding" /\ AgreedStatus' = "corrupted"
  BY <1>1 DEF AgreedStatus, Reading
<1>8. agreed.at < Blizzard!Size(data)
  BY <1>4, SameStream DEF InPart
<1>9. Blizzard!Raise
  BY <1>1, <1>6, <1>7, <1>8, AbstractStays, Zenon
     DEF Blizzard!Raise, AgreedEvent, LastLoop
<1> QED
  BY <1>2, <1>3, <1>9 DEF Blizzard!Next

(* The end of the stream: they are at its end, too.                        *)
LEMMA NowEnds ==
  ASSUME Now, EndOfStream
  PROVE  EventsInv' /\ Agrees' /\ Blizzard!Next
<1>1. /\ UNCHANGED <<data, events, agreed>> /\ phase = "start" /\ Done /\ phase' = "done"
      /\ StreamInv /\ EventsInv /\ Agrees /\ agreed.until = "now"
  BY DEF Now, AgreementInv, EndOfStream, bufferVars, buffer
<1>2. EventsInv'
  BY <1>1, EventsStay
<1>3. Agrees'
  BY <1>1 DEF Agrees, Reading
<1>4. AtStart
  BY <1>1 DEF Agrees
<1>5. agreed.at >= Blizzard!Size(data)
  BY <1>1, <1>4, PositionInStream, SameStream DEF AtStart, StreamInv, IInv, ReadInv
<1>6. AgreedStatus = "decoding" /\ AgreedStatus' = "done"
  BY <1>1 DEF AgreedStatus
<1>7. Blizzard!EndOfStream
  BY <1>1, <1>5, <1>6, AbstractStays, Zenon DEF Blizzard!EndOfStream, LastLoop
<1> QED
  BY <1>2, <1>3, <1>7 DEF Blizzard!Next

-----------------------------------------------------------------------------
(* From part to part.                                                      *)

(* The status does not tell the parts of an event apart.                   *)
LEMMA DecodingStays ==
  ASSUME UNCHANGED <<data, agreed, events>>, agreed.until = "now",
         phase \notin {"done", "failed"}, phase' \notin {"done", "failed"}
  PROVE  UNCHANGED Shown
<1>1. AgreedStatus = "decoding" /\ AgreedStatus' = "decoding"
  BY DEF AgreedStatus
<1> QED
  BY <1>1, AbstractStays DEF Shown

(* The start of an event is the start of its delta.                        *)
LEMMA NowStarts ==
  ASSUME Now, StartEvent
  PROVE  EventsInv' /\ Agrees' /\ UNCHANGED Shown
<1> DEFINE types == <<SVarUint32TypeId>>
<1>1. /\ phase = "start" /\ ~ Done /\ startBits' = UsedBits /\ phase' = "delta"
      /\ todo' = types /\ values' = <<>> /\ UNCHANGED <<bufferVars, events>>
      /\ UNCHANGED <<gameloop, userId, eventId, agreed>>
  BY DEF StartEvent, Starts
<1>2. StreamInv /\ EventsInv /\ Agrees /\ agreed.until = "now" /\ AtStart
  BY <1>1 DEF Now, AgreementInv, Agrees
<1>3. data' = data /\ UNCHANGED <<data, agreed, events>>
  BY <1>1 DEF bufferVars, buffer
<1>4. EventsInv' /\ UNCHANGED Shown
  BY <1>1, <1>2, <1>3, EventsStay, DecodingStays
<1>5. PartInv' /\ Whole' = Rest(types, UsedBits)
  BY <1>1, <1>2, HeaderTypes, PartStarts DEF AtStart
<1>6. /\ DeltaPart' = DeltaPart /\ LastLoop' = LastLoop
  BY <1>3, PartsStay
<1>7. Whole' = DeltaPart
  BY <1>2, <1>5, Zenon DEF AtStart, Rest, DeltaPart
<1>8. agreed.at < Size(data)
  BY <1>1, <1>2, PositionInStream DEF AtStart, StreamInv, IInv, ReadInv
<1>9. InPart'
  BY <1>1, <1>2, <1>3, <1>6, <1>7, <1>8 DEF InPart, AtStart
<1> QED
  BY <1>1, <1>2, <1>3, <1>4, <1>5, <1>9 DEF Agrees

(* A part that has been read.                                              *)
LEMMA PartEnds ==
  ASSUME Now, NEW part, part \in {"delta", "user", "id", "body"}, Ends(part)
  PROVE  /\ StreamInv /\ EventsInv /\ Agrees /\ InPart /\ phase = part
         /\ agreed.events = Len(events)
         /\ call = NoCall
         /\ Whole.ok /\ Whole.at = UsedBits /\ Whole.values = values
         /\ Blizzard!Value(Whole) = values[Len(values)]
         /\ data \in Seq(Byte) /\ agreed.at \in Nat /\ agreed \in AgreedType
<1>1. StreamInv /\ EventsInv /\ Agrees /\ phase = part /\ todo = <<>> /\ Reading
  BY DEF Now, AgreementInv, Ends, Reading
<1>2. PartInv /\ InPart /\ agreed.events = Len(events)
  BY <1>1 DEF Agrees
<1>3. /\ call = NoCall /\ Whole.ok /\ Whole.at = UsedBits /\ Whole.values = values
  BY <1>1, <1>2, WholeRead
<1>4. Blizzard!Value(Whole) = values[Len(values)]
  BY <1>3, Zenon DEF Blizzard!Value
<1>5. data \in Seq(Byte) /\ agreed.at \in Nat /\ agreed \in AgreedType
  BY <1>1, PositionTypes DEF EventsInv, AgreedType
<1> QED
  BY <1>1, <1>2, <1>3, <1>4, <1>5

(* The next part.                                                          *)
LEMMA PartGoes ==
  ASSUME Now, NEW part, part \in {"delta", "user", "id"}, Ends(part),
         NEW then, then \in {"user", "id", "body"},
         NEW t \in TypeIds, Starts(then, <<t>>), UNCHANGED <<startBits, agreed>>
  PROVE  /\ EventsInv' /\ UNCHANGED Shown
         /\ PartInv' /\ Whole' = Blizzard!Instances(data, <<t>>, Whole.at)
         /\ startBits' = agreed.at /\ agreed.at < Size(data)
         /\ agreed.events = Len(events)
         /\ UNCHANGED <<data, agreed, events>> /\ phase' = then
         /\ DeltaPart' = DeltaPart /\ UserPart' = UserPart
         /\ IdPart' = IdPart /\ BodyPart' = BodyPart /\ LastLoop' = LastLoop
<1> DEFINE types == <<t>>
<1>1. /\ phase' = then /\ todo' = types /\ values' = <<>>
      /\ UNCHANGED <<bufferVars, events>> /\ UNCHANGED <<startBits, agreed>>
  BY DEF Starts
<1>2. /\ StreamInv /\ EventsInv /\ InPart /\ phase = part /\ call = NoCall
      /\ Whole.at = UsedBits /\ agreed.events = Len(events)
  BY PartEnds
<1>3. agreed.until = "now" /\ UNCHANGED <<data, agreed, events>>
  BY <1>1 DEF Now, bufferVars, buffer
<1>4. EventsInv' /\ UNCHANGED Shown
  <2>1. phase \notin {"done", "failed"} /\ phase' \notin {"done", "failed"}
    BY <1>1, <1>2
  <2> QED
    BY <1>2, <1>3, <2>1, EventsStay, DecodingStays
<1>5. PartInv' /\ Whole' = Rest(types, UsedBits)
  BY <1>1, <1>2, PartStarts
<1>6. Whole' = Blizzard!Instances(data, types, Whole.at)
  BY <1>2, <1>5, Zenon DEF Rest
<1>7. /\ DeltaPart' = DeltaPart /\ UserPart' = UserPart
      /\ IdPart' = IdPart /\ BodyPart' = BodyPart /\ LastLoop' = LastLoop
  BY <1>3, PartsStay
<1>8. startBits' = agreed.at /\ agreed.at < Size(data)
  BY <1>1, <1>2 DEF InPart
<1> QED
  BY <1>1, <1>2, <1>3, <1>4, <1>5, <1>6, <1>7, <1>8

(* The next part of an event agrees.                                       *)
LEMMA PartAgrees ==
  ASSUME PartInv', InPart', phase' \in {"user", "id", "body"},
         agreed.events = Len(events), UNCHANGED <<agreed, events>>
  PROVE  Agrees'
BY DEF Agrees

(* The delta: the game loops agree unless the sum is no int.               *)
LEMMA NowAdds ==
  ASSUME Now, AddDelta
  PROVE  /\ EventsInv' /\ UNCHANGED Shown
         /\ agreed'.until = "now" => Agrees'
<1> DEFINE v == values[Len(values)]
<1>1. /\ Ends("delta") /\ Starts("user", <<ReplayUserIdTypeId>>)
      /\ agreed' = [agreed EXCEPT !.until =
                      IF @ = "now" /\ gameloop' # Sum THEN "overflow" ELSE @]
      /\ UNCHANGED <<startBits, userId, eventId>>
  BY DEF AddDelta
<1>2. /\ StreamInv /\ EventsInv /\ InPart /\ phase = "delta"
      /\ agreed.events = Len(events) /\ call = NoCall
      /\ Whole.ok /\ Whole.at = UsedBits /\ Whole.values = values
      /\ Blizzard!Value(Whole) = v /\ agreed \in AgreedType /\ agreed.until = "now"
  BY <1>1, PartEnds DEF Now
<1>3. CASE gameloop' = Sum
  <2>1. agreed' = agreed
    BY <1>1, <1>2, <1>3 DEF AgreedType
  <2>2. /\ EventsInv' /\ UNCHANGED Shown
        /\ PartInv' /\ Whole' = Blizzard!Instances(data, <<ReplayUserIdTypeId>>, Whole.at)
        /\ startBits' = agreed.at /\ agreed.at < Size(data)
        /\ UNCHANGED <<data, agreed, events>> /\ phase' = "user"
        /\ DeltaPart' = DeltaPart /\ UserPart' = UserPart
        /\ IdPart' = IdPart /\ BodyPart' = BodyPart /\ LastLoop' = LastLoop
    BY <1>1, <2>1, HeaderTypes, PartGoes
  <2>3. gameloop = LastLoop /\ Whole = DeltaPart
    BY <1>2 DEF InPart
  <2>4. Whole' = UserPart
    BY <2>2, <2>3, Zenon DEF UserPart
  <2>5. gameloop' = LastLoop + Blizzard!Value(DeltaPart) /\ DeltaPart.ok
    <3>1. Blizzard!Value(DeltaPart) = v
      BY <1>2, <2>3, Zenon
    <3>2. gameloop' = gameloop + v
      BY <1>3, Zenon DEF Sum
    <3> QED
      BY <1>2, <2>3, <3>1, <3>2, Zenon
  <2>6. DeltaRead'
    BY <2>2, <2>5, Zenon DEF DeltaRead, Blizzard!Value
  <2>7. InPart'
    BY <2>2, <2>4, <2>6 DEF InPart
  <2> QED
    BY <1>2, <2>2, <2>7, PartAgrees
<1>4. CASE gameloop' # Sum
  <2>1. /\ agreed'.until = "overflow" /\ agreed'.events = agreed.events
        /\ agreed'.at = agreed.at /\ agreed' \in AgreedType
    BY <1>1, <1>2, <1>4 DEF AgreedType
  <2>2. data' = data /\ events' = events
    BY <1>1 DEF Starts, bufferVars, buffer
  <2>3. EventsInv'
    BY <1>2, <2>1, <2>2 DEF EventsInv
  <2>4. AgreedStatus = "decoding" /\ AgreedStatus' = "decoding"
    BY <1>2, <2>1 DEF AgreedStatus
  <2>5. UNCHANGED Shown
    BY <2>1, <2>2, <2>4 DEF Shown, LastLoop, AgreedEvents
  <2> QED
    BY <2>1, <2>3, <2>5
<1> QED
  BY <1>3, <1>4

(* The user id.                                                            *)
LEMMA NowReadsUser ==
  ASSUME Now, ReadUserId
  PROVE  EventsInv' /\ Agrees' /\ UNCHANGED Shown
<1> DEFINE v == values[Len(values)]
<1>1. /\ Ends("user") /\ Starts("id", <<EventIdTypeId>>) /\ userId' = ReadInt
      /\ UNCHANGED <<startBits, gameloop, eventId, agreed>>
  BY DEF ReadUserId
<1>2. /\ InPart /\ phase = "user" /\ Whole.ok /\ Blizzard!Value(Whole) = v
      /\ data \in Seq(Byte) /\ agreed.at \in Nat
  BY <1>1, PartEnds
<1>3. /\ EventsInv' /\ UNCHANGED Shown
      /\ PartInv' /\ Whole' = Blizzard!Instances(data, <<EventIdTypeId>>, Whole.at)
      /\ startBits' = agreed.at /\ agreed.at < Size(data)
      /\ agreed.events = Len(events)
      /\ UNCHANGED <<data, agreed, events>> /\ phase' = "id"
      /\ DeltaPart' = DeltaPart /\ UserPart' = UserPart
      /\ IdPart' = IdPart /\ BodyPart' = BodyPart /\ LastLoop' = LastLoop
  BY <1>1, HeaderTypes, PartGoes
<1>4. DeltaRead /\ Whole = UserPart
  BY <1>2 DEF InPart
<1>5. Whole' = IdPart
  BY <1>3, <1>4, Zenon DEF IdPart
<1>6. userId' = Blizzard!Value(UserPart) /\ UserPart.ok
  <2>1. Blizzard!Value(UserPart) = v /\ UserPart.ok
    BY <1>2, <1>4, Zenon
  <2>2. Clamp(Blizzard!Value(UserPart)) = Blizzard!Value(UserPart)
    BY <1>2, <2>1, PartResults, UserInstance DEF UserPart
  <2>3. ReadInt = Clamp(v)
    BY Zenon DEF ReadInt
  <2> QED
    BY <1>1, <2>1, <2>2, <2>3, Zenon
<1>7. UserRead'
  BY <1>1, <1>3, <1>4, <1>6, Zenon DEF UserRead, DeltaRead, Blizzard!Value
<1>8. InPart'
  BY <1>3, <1>5, <1>7 DEF InPart
<1> QED
  BY <1>3, <1>8, PartAgrees

(* The event id that has been read.                                        *)
LEMMA IdEnds ==
  ASSUME Now, Ends("id")
  PROVE  /\ InPart /\ phase = "id" /\ UserRead /\ Whole = IdPart /\ IdPart.ok
         /\ ReadInt = Blizzard!Value(IdPart)
         /\ EventsInv /\ agreed.events = Len(events) /\ agreed \in AgreedType
<1> DEFINE v == values[Len(values)]
<1>1. /\ InPart /\ phase = "id" /\ Whole.ok /\ Blizzard!Value(Whole) = v
      /\ data \in Seq(Byte) /\ agreed.at \in Nat
      /\ EventsInv /\ agreed.events = Len(events) /\ agreed \in AgreedType
  BY PartEnds
<1>2. UserRead /\ Whole = IdPart
  BY <1>1 DEF InPart
<1>3. Blizzard!Value(IdPart) = v /\ IdPart.ok
  BY <1>1, <1>2, Zenon
<1>4. Clamp(Blizzard!Value(IdPart)) = Blizzard!Value(IdPart)
  BY <1>1, <1>3, PartResults, HeaderAssumption, IntInstance DEF IdPart
<1>5. ReadInt = Clamp(v)
  BY Zenon DEF ReadInt
<1> QED
  BY <1>1, <1>2, <1>3, <1>4, <1>5, Zenon

(* The event id, if the tables have it.                                    *)
LEMMA NowReadsId ==
  ASSUME Now, ReadEventId
  PROVE  EventsInv' /\ Agrees' /\ UNCHANGED Shown
<1> DEFINE t == EventTypes[ReadInt]
<1>1. /\ Ends("id") /\ Starts("body", <<t>>) /\ eventId' = ReadInt
      /\ ReadInt \in DOMAIN EventTypes
      /\ UNCHANGED <<startBits, gameloop, userId, agreed>>
  BY DEF ReadEventId
<1>2. /\ UserRead /\ Whole = IdPart /\ IdPart.ok /\ ReadInt = Blizzard!Value(IdPart)
  BY <1>1, IdEnds
<1>3. t \in TypeIds
  BY <1>1, HeaderTypes
<1>4. t = EventTypes[Blizzard!Value(IdPart)]
  BY <1>2
<1> HIDE DEF t
<1>5. /\ EventsInv' /\ UNCHANGED Shown
      /\ PartInv' /\ Whole' = Blizzard!Instances(data, <<t>>, Whole.at)
      /\ startBits' = agreed.at /\ agreed.at < Size(data)
      /\ agreed.events = Len(events)
      /\ UNCHANGED <<data, agreed, events>> /\ phase' = "body"
      /\ DeltaPart' = DeltaPart /\ UserPart' = UserPart
      /\ IdPart' = IdPart /\ BodyPart' = BodyPart /\ LastLoop' = LastLoop
  BY <1>1, <1>3, PartGoes
<1>6. Whole' = BodyPart
  BY <1>2, <1>4, <1>5, Zenon DEF BodyPart
<1>7. UserRead'
  BY <1>1, <1>2, <1>5, Zenon DEF UserRead, DeltaRead, Blizzard!Value
<1>8. IdRead'
  BY <1>1, <1>2, <1>5, <1>7, Zenon DEF IdRead, Blizzard!Value
<1>9. InPart'
  BY <1>5, <1>6, <1>8 DEF InPart
<1> QED
  BY <1>5, <1>9, PartAgrees

(* An unknown event id: here the Python functions raise.                   *)
LEMMA NowUnknown ==
  ASSUME Now, UnknownEvent
  PROVE  EventsInv' /\ agreed'.until # "now" /\ Blizzard!Next
<1>1. /\ Ends("id") /\ Starts("body", <<>>) /\ ReadInt \notin DOMAIN EventTypes
      /\ agreed' = [agreed EXCEPT !.until = IF @ = "now" THEN "unknown" ELSE @]
  BY DEF UnknownEvent
<1>2. /\ InPart /\ phase = "id" /\ ReadInt = Blizzard!Value(IdPart)
      /\ EventsInv /\ agreed.events = Len(events) /\ agreed \in AgreedType
      /\ agreed.until = "now"
  BY <1>1, IdEnds DEF Now
<1>3. /\ agreed'.until = "unknown" /\ agreed'.events = agreed.events
      /\ agreed'.at = agreed.at /\ agreed' \in AgreedType
  BY <1>1, <1>2 DEF AgreedType
<1>4. data' = data /\ events' = events
  BY <1>1 DEF Starts, bufferVars, buffer
<1>5. EventsInv'
  BY <1>2, <1>3, <1>4 DEF EventsInv
<1>6. ~ AgreedEvent.ok
  BY <1>1, <1>2, EventParts, Zenon
<1>7. AgreedStatus = "decoding" /\ AgreedStatus' = "corrupted"
  BY <1>2, <1>3 DEF AgreedStatus
<1>8. agreed.at < Blizzard!Size(data)
  BY <1>2, SameStream DEF InPart
<1>9. AgreedEvents' = AgreedEvents /\ LastLoop' = LastLoop
  BY <1>3, <1>4 DEF AgreedEvents, LastLoop
<1>10. Blizzard!Raise
  BY <1>3, <1>4, <1>6, <1>7, <1>8, <1>9, Zenon
     DEF Blizzard!Raise, AgreedEvent, LastLoop
<1>11. agreed'.until # "now"
  BY <1>3
<1> QED
  BY <1>5, <1>10, <1>11 DEF Blizzard!Next

-----------------------------------------------------------------------------

(* The end of an event: the Python functions yield the same one.           *)
LEMMA NowCompletes ==
  ASSUME Now, Complete
  PROVE  EventsInv' /\ Agrees' /\ Blizzard!Next
<1> DEFINE e == [id |-> eventId, gameloop |-> gameloop, userId |-> userId,
                 values |-> values, bits |-> EventBits]
           end == used * ByteBits
<1>1. /\ Ends("body") /\ events' = Append(events, e) /\ ByteAlign /\ phase' = "start"
      /\ agreed' = [agreed EXCEPT !.events = @ + 1, !.at = startBits + EventBits]
      /\ UNCHANGED <<todo, values, header>> /\ agreed.until = "now"
  BY DEF Complete, Now
<1>2. /\ StreamInv /\ EventsInv /\ InPart /\ phase = "body" /\ call = NoCall
      /\ agreed.events = Len(events)
      /\ Whole.ok /\ Whole.at = UsedBits /\ Whole.values = values
      /\ agreed.at \in Nat /\ agreed \in AgreedType
  BY <1>1, PartEnds
<1>3. /\ IdRead /\ Whole = BodyPart /\ startBits = agreed.at /\ agreed.at < Size(data)
  BY <1>2 DEF InPart
<1>4. /\ end \in Nat /\ Align(UsedBits) = end
  <2>1. DataInv /\ used \in Nat /\ ByteBits \in Nat
    BY <1>2, BitStreamAssumption DEF StreamInv, IInv, ReadInv, DataInv, BufferAtPosition
  <2> QED
    BY <2>1, PositionInStream
<1>5. /\ nextBits' = 0 /\ data' = data /\ used' = used /\ call' = call
      /\ UsedBits' = end
  <2>1. nextBits' = 0 /\ data' = data /\ used' = used /\ call' = call
    BY <1>1 DEF ByteAlign
  <2>2. UsedBits' = end - 0
    BY <2>1 DEF UsedBits
  <2> HIDE DEF end
  <2> QED
    BY <1>4, <2>1, <2>2
<1>6. EventBits = end - agreed.at /\ startBits + EventBits = end
  <2>1. EventBits = end - startBits
    BY DEF EventBits
  <2> HIDE DEF end
  <2> QED
    BY <1>2, <1>3, <1>4, <2>1
<1>7. /\ AgreedEvent.ok /\ AgreedEvent.id = eventId /\ AgreedEvent.user = userId
      /\ AgreedEvent.values = values /\ AgreedEvent.end = end
      /\ gameloop = LastLoop + AgreedEvent.delta
  <2>1. /\ DeltaPart.ok /\ UserPart.ok /\ IdPart.ok
        /\ eventId = Blizzard!Value(IdPart) /\ eventId \in DOMAIN EventTypes
        /\ userId = Blizzard!Value(UserPart)
        /\ gameloop = LastLoop + Blizzard!Value(DeltaPart)
    BY <1>3, Zenon DEF IdRead, UserRead, DeltaRead
  <2>2. BodyPart.ok /\ BodyPart.at = UsedBits /\ BodyPart.values = values
    BY <1>2, <1>3, Zenon
  <2>3. AgreedEvent.ok
    BY <2>1, <2>2, EventParts, Zenon
  <2>4. AgreedEvent.id = eventId /\ AgreedEvent.user = userId
    BY <2>1, <2>3, EventParts, Zenon
  <2>5. AgreedEvent.values = values /\ AgreedEvent.end = end
    BY <1>4, <2>2, <2>3, EventParts, Zenon
  <2>6. gameloop = LastLoop + AgreedEvent.delta
    BY <2>1, <2>3, EventParts, Zenon
  <2> QED
    BY <2>3, <2>4, <2>5, <2>6
<1> HIDE DEF end
<1>8. /\ agreed'.until = "now" /\ agreed'.events = Len(events) + 1
      /\ agreed'.at = end /\ agreed' \in AgreedType
  <2>1. agreed' = [agreed EXCEPT !.events = agreed.events + 1, !.at = end]
    BY <1>1, <1>6
  <2>2. agreed.events \in Nat /\ agreed.events + 1 \in Nat
    BY <1>2 DEF AgreedType
  <2> QED
    BY <1>1, <1>2, <1>4, <2>1, <2>2 DEF AgreedType
<1> DEFINE a == Append(events, e)
           k == Len(events) + 1
<1>9. /\ SubSeq(a, 1, k) = Append(AgreedEvents, e) /\ a[k] = e
      /\ Len(a) = k /\ \E T : a \in Seq(T)
  <2>1. PICK S : events \in Seq(S)
    BY <1>2 DEF EventsInv
  <2>2. Len(events) \in Nat /\ Len(events) <= Len(events)
    BY <2>1
  <2> HIDE DEF e
  <2>3. /\ SubSeq(Append(events, e), 1, Len(events) + 1)
             = Append(SubSeq(events, 1, Len(events)), e)
        /\ Append(events, e)[Len(events) + 1] = e
    BY <2>1, AppendAgrees
  <2>4. /\ Len(Append(events, e)) = Len(events) + 1
        /\ \E T : Append(events, e) \in Seq(T)
    BY <2>1, <2>2, AppendKeeps
  <2> QED
    BY <1>2, <2>3, <2>4, Zenon DEF AgreedEvents
<1>10. k \in Nat \ {0}
  <2>1. PICK S : events \in Seq(S)
    BY <1>2 DEF EventsInv
  <2> QED
    BY <2>1
<1> HIDE DEF a, k
<1>11. events' = a /\ agreed'.events = k
  BY <1>1, <1>8 DEF a, k
<1>12. EventsInv'
  <2>1. k <= Len(a)
    BY <1>9, <1>10
  <2> QED
    BY <1>8, <1>9, <1>11, <2>1, Zenon DEF EventsInv
<1>13. e.gameloop = gameloop
  OBVIOUS
<1>14. LastLoop' = gameloop
  <2>1. LastLoop' = events'[agreed'.events].gameloop
    BY <1>10, <1>11 DEF LastLoop
  <2> HIDE DEF e
  <2> QED
    BY <1>9, <1>11, <1>13, <2>1, Zenon
<1>15. Agrees'
  <2>1. AtStart'
    BY <1>1, <1>2, <1>5, <1>8, <1>14 DEF AtStart, header
  <2>2. ~ Reading'
    BY <1>1 DEF Reading
  <2>3. agreed'.events = Len(events')
    BY <1>9, <1>11
  <2> QED
    BY <2>1, <2>2, <2>3 DEF Agrees
<1>16. AgreedStatus = "decoding" /\ AgreedStatus' = "decoding"
  BY <1>1, <1>2, <1>8 DEF AgreedStatus
<1>17. AgreedEvents' = Append(AgreedEvents, e)
  <2> HIDE DEF e
  <2> QED
    BY <1>9, <1>11, Zenon DEF AgreedEvents
<1>18. e = [id |-> AgreedEvent.id, gameloop |-> LastLoop', userId |-> AgreedEvent.user,
            values |-> AgreedEvent.values, bits |-> AgreedEvent.end - agreed.at]
  BY <1>6, <1>7, <1>14, Zenon
<1> HIDE DEF e
<1>19. Blizzard!Yield
  <2>1. agreed.at < Blizzard!Size(data)
    BY <1>3, SameStream
  <2>2. LastLoop' = LastLoop + AgreedEvent.delta
    BY <1>7, <1>14, Zenon
  <2>3. AgreedEvents' = Append(AgreedEvents,
          [id |-> AgreedEvent.id, gameloop |-> LastLoop', userId |-> AgreedEvent.user,
           values |-> AgreedEvent.values, bits |-> AgreedEvent.end - agreed.at])
    BY <1>17, <1>18, Zenon
  <2>4. agreed.at' = AgreedEvent.end
    BY <1>7, <1>8, Zenon
  <2>5. data' = data /\ AgreedStatus' = AgreedStatus /\ AgreedStatus = "decoding"
    BY <1>5, <1>16
  <2> QED
    BY <1>7, <2>1, <2>2, <2>3, <2>4, <2>5, Zenon
       DEF Blizzard!Yield, AgreedEvent, LastLoop
<1> QED
  BY <1>12, <1>15, <1>19 DEF Blizzard!Next

(* They agree at the start.                                                *)
LEMMA AgreementStarts ==
  ASSUME Init
  PROVE  AgreementInv /\ Blizzard!Init
<1>1. StreamInv
  BY StreamStarts
<1>2. /\ phase = "start" /\ gameloop = 0 /\ events = <<>> /\ nextBits = 0 /\ used = 0
      /\ call = NoCall /\ agreed = [until |-> "now", events |-> 0, at |-> 0]
  BY DEF Init, BufferInit
<1>3. agreed.until = "now" /\ agreed.events = 0 /\ agreed.at = 0 /\ agreed \in AgreedType
  BY <1>2 DEF AgreedType
<1>4. events \in Seq({}) /\ Len(events) = 0
  BY <1>2
<1>5. EventsInv
  BY <1>3, <1>4 DEF EventsInv
<1>6. UsedBits = 0
  BY <1>2, BitStreamAssumption DEF UsedBits
<1>7. LastLoop = 0
  BY <1>3 DEF LastLoop
<1>8. Agrees
  BY <1>2, <1>3, <1>4, <1>6, <1>7 DEF Agrees, AtStart, Reading
<1>9. AgreedEvents = <<>>
  <2>1. SubSeq(events, 1, 0) = <<>>
    BY SubSeqEmpty
  <2> QED
    BY <1>3, <2>1, Zenon DEF AgreedEvents
<1>10. AgreedStatus = "decoding"
  BY <1>2, <1>3 DEF AgreedStatus
<1>11. Blizzard!Init
  BY <1>3, <1>7, <1>9, <1>10 DEF Blizzard!Init, LastLoop
<1> QED
  BY <1>1, <1>5, <1>8, <1>11 DEF AgreementInv

(* Every step keeps the agreement, and is a step of the Python functions   *)
(* or shows nothing.                                                       *)
LEMMA AgreementKeeps ==
  ASSUME AgreementInv, [Next]_vars
  PROVE  AgreementInv' /\ (Blizzard!Next \/ UNCHANGED Shown)
<1>1. StreamInv' /\ EventsInv
  BY StreamKeeps DEF AgreementInv
<1>2. CASE UNCHANGED vars
  <2>1. UNCHANGED <<data, agreed, events, phase>>
    BY <1>2 DEF vars, bufferVars, buffer
  <2>2. UNCHANGED Shown /\ EventsInv'
    BY <1>1, <2>1, ShownStays, EventsStay
  <2>3. ASSUME Agrees PROVE Agrees'
    <3>1. /\ phase' = phase /\ agreed' = agreed /\ events' = events /\ todo' = todo
          /\ values' = values /\ nextBits' = nextBits /\ call' = call /\ data' = data
          /\ bigCall' = bigCall /\ used' = used
          /\ startBits' = startBits /\ gameloop' = gameloop /\ userId' = userId
          /\ eventId' = eventId
      BY <1>2 DEF vars, bufferVars, buffer, header
    <3>2. /\ DeltaPart' = DeltaPart /\ UserPart' = UserPart
          /\ IdPart' = IdPart /\ BodyPart' = BodyPart /\ LastLoop' = LastLoop
      BY <2>1, PartsStay
    <3>3. UsedBits' = UsedBits
      BY <3>1, Zenon DEF UsedBits
    <3>4. Remaining' = Remaining
      BY <3>1, <3>3, Zenon DEF Remaining, Rest, ArrayRest
    <3>5. Whole' = Whole
      BY <3>1, <3>4, Zenon DEF Whole
    <3>6. PartInv => PartInv'
      BY <3>1 DEF PartInv, NumberOfType, BitsOfArray, Type
    <3>7. (DeltaRead' <=> DeltaRead) /\ (UserRead' <=> UserRead) /\ (IdRead' <=> IdRead)
      BY <3>1, <3>2, Zenon DEF DeltaRead, UserRead, IdRead, Blizzard!Value
    <3>8. (InPart' <=> InPart) /\ (AtStart' <=> AtStart)
      BY <3>1, <3>2, <3>3, <3>5, <3>7, Zenon DEF InPart, AtStart
    <3>9. Reading' <=> Reading
      BY <3>1 DEF Reading
    <3> QED
      BY <2>3, <3>1, <3>6, <3>8, <3>9 DEF Agrees
  <2>4. agreed' = agreed
    BY <2>1
  <2> QED
    BY <1>1, <2>2, <2>3, <2>4 DEF AgreementInv
<1>3. CASE Next /\ agreed.until # "now"
  <2>1. EventsInv' /\ agreed' = agreed /\ UNCHANGED Shown
    BY <1>1, <1>3, PartedStays
  <2> QED
    BY <1>1, <1>3, <2>1 DEF AgreementInv
<1>4. CASE Next /\ agreed.until = "now"
  <2>1. Now
    BY <1>4 DEF Now
  <2>2. CASE ReadType \/ CopyMoreBits
    BY <1>1, <2>1, <2>2, NowReads DEF AgreementInv
  <2>3. CASE Throw
    BY <1>1, <2>1, <2>3, NowThrows DEF AgreementInv
  <2>4. CASE StartEvent
    BY <1>1, <2>1, <2>4, NowStarts DEF AgreementInv
  <2>5. CASE AddDelta
    BY <1>1, <2>1, <2>5, NowAdds DEF AgreementInv
  <2>6. CASE ReadUserId
    BY <1>1, <2>1, <2>6, NowReadsUser DEF AgreementInv
  <2>7. CASE ReadEventId
    BY <1>1, <2>1, <2>7, NowReadsId DEF AgreementInv
  <2>8. CASE UnknownEvent
    BY <1>1, <2>1, <2>8, NowUnknown DEF AgreementInv
  <2>9. CASE Complete
    BY <1>1, <2>1, <2>9, NowCompletes DEF AgreementInv
  <2>10. CASE EndOfStream
    BY <1>1, <2>1, <2>10, NowEnds DEF AgreementInv
  <2> QED
    BY <1>4, <2>2, <2>3, <2>4, <2>5, <2>6, <2>7, <2>8, <2>9, <2>10 DEF Next, DecodeEvent
<1> QED
  BY <1>2, <1>3, <1>4

(* For any tables of types and any stream: until the library parts from    *)
(* the Python functions (an unknown event id, a game loop that no int      *)
(* holds), every event it stores is the one they yield, with the same      *)
(* values, game loop, user id and number of bits; it ends where they end   *)
(* and throws exactly where they raise. The inductive invariant is         *)
(* AgreementInv: what has been read of a part, followed by what todo and   *)
(* the calls at hand still have to read, is the instance of the part that  *)
(* the recursive definition finds.                                         *)
THEOREM BlizzardImplemented == Spec => ImplementsBlizzard
<1>1. Init => AgreementInv /\ Blizzard!Init
  BY AgreementStarts
<1>2. AgreementInv /\ [Next]_vars => AgreementInv' /\ (Blizzard!Next \/ UNCHANGED Shown)
  BY AgreementKeeps
<1>3. AgreementInv /\ [Next]_vars =>
        [Blizzard!Next]_<<data, agreed.at,
                          IF agreed.events = 0 THEN 0 ELSE events[agreed.events].gameloop,
                          AgreedEvents, AgreedStatus>>
  BY <1>2 DEF Shown, LastLoop
<1> QED
  BY <1>1, <1>2, <1>3, PTL DEF Spec, ImplementsBlizzard, Blizzard!Spec

=============================================================================
