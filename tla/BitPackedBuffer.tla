-------------------------- MODULE BitPackedBuffer --------------------------
(***************************************************************************)
(* The reader of bit-packed data: the class BitPackedBuffer of             *)
(* S2Protocol/BitPackedBuffer.cs.                                          *)
(*                                                                         *)
(* It holds the byte it is in the middle of, shifted so that its unread    *)
(* bits are the lowest, and how many of them there are.  A step is one     *)
(* turn of the loop of ReadBits, which takes what it can from one byte;    *)
(* ReadBigInteger calls ReadBits for a word at a time.  What a caller does *)
(* between the reads is left to the modules that use this one; Spec lets   *)
(* it do anything.                                                         *)
(***************************************************************************)
EXTENDS BitStream

CONSTANTS
  Word,      \* bits of a long: 64
  Streams,   \* what may be read
  NoCall     \* nobody is in ReadBits, or in ReadBigInteger

ASSUME BufferAssumption ==
  /\ Word \in Nat \ {0}
  /\ Streams \subseteq Seq(Byte)
  /\ NoCall \notin [bits : Nat, from : Nat, result : SUBSET Int,
                    resultBits : Nat, skippedBits : Nat]
  /\ NoCall \notin [bits : Nat, from : Nat, result : SUBSET Int,
                    consumedBits : Nat]

VARIABLES
  data,       \* _data
  used,       \* _used: bytes taken from data, the current one included
  next,       \* _next: the unread bits of the current byte
  nextBits,   \* _nextBits: how many they are
  call,       \* the locals of ReadBits, and where it was called
  bigCall     \* the locals of ReadBigInteger, and where it was called

buffer     == <<data, used, next, nextBits>>
bufferVars == <<buffer, call, bigCall>>

Done     == nextBits = 0 /\ used >= Len(data)
UsedBits == used * ByteBits - nextBits

-----------------------------------------------------------------------------
(* ReadBits.  A negative number of bits is refused, here and below; nobody *)
(* asks for one.                                                           *)

ReadBitsCall(n) ==
  [bits |-> n, from |-> UsedBits, result |-> {}, resultBits |-> 0,
   skippedBits |-> 0]

ReadBits(n) ==
  /\ n \in Nat
  /\ call = NoCall
  /\ call' = ReadBitsCall(n)
  /\ UNCHANGED buffer

(* The bits that a turn can take: of the current byte, or of the next one. *)
Fetches   == nextBits = 0
Available == IF Fetches THEN ByteBits ELSE nextBits
Current   == IF Fetches THEN data[used + 1] ELSE next

(* Where the bits of a turn go.                                            *)
Shift(copyBits) ==
  IF BigEndian
  THEN Least(call.bits, Word) - call.resultBits - copyBits
  ELSE call.resultBits

(* One turn of the loop.  Runs that do not fit into a word any more are    *)
(* skipped.                                                                *)
CopyBits ==
  LET copyBits == Least(call.bits - call.skippedBits, Available)
      copy     == { Shift(copyBits) + i : i \in { b \in Current : b < copyBits } }
      fits     == call.resultBits + copyBits <= Word
  IN /\ call # NoCall
     /\ call.skippedBits # call.bits
     /\ ~Done
     /\ used' = IF Fetches THEN used + 1 ELSE used
     /\ next' = { b - copyBits : b \in { c \in Current : c >= copyBits } }
     /\ nextBits' = Available - copyBits
     /\ call' = [call EXCEPT
                   !.result = IF fits THEN @ \union copy ELSE @,
                   !.resultBits = IF fits THEN @ + copyBits ELSE @,
                   !.skippedBits = @ + copyBits]
     /\ UNCHANGED <<data, bigCall>>

(* The data ends before the number does.                                   *)
ReadBitsThrows ==
  /\ call # NoCall
  /\ call.skippedBits # call.bits
  /\ Done

(* ReadBits returns call.result.                                           *)
ReadBitsReturns ==
  /\ call # NoCall
  /\ call.skippedBits = call.bits
  /\ call' = NoCall
  /\ UNCHANGED buffer

-----------------------------------------------------------------------------
(* ReadBigInteger.                                                         *)

(* Up to a word it is one call of ReadBits, also of no bits.               *)
ReadBigIntegerCalls(n) ==
  /\ n \in Nat
  /\ bigCall' = [bits |-> n, from |-> UsedBits, result |-> {},
                 consumedBits |-> 0]
  /\ call' = ReadBitsCall(Least(n, Word))

ReadBigInteger(n) ==
  /\ call = NoCall /\ bigCall = NoCall
  /\ ReadBigIntegerCalls(n)
  /\ UNCHANGED buffer

(* Bug: the word read last goes to the low end without moving the others.  *)
JoinedUnshifted == bigCall.result \union call.result

(* result << copyBits | copy, or the other way round.                      *)
Joined ==
  IF BigEndian
  THEN { e + call.bits : e \in bigCall.result } \union call.result
  ELSE bigCall.result \union { bigCall.consumedBits + e : e \in call.result }

(* The end of a turn of its loop, and the start of the next one.           *)
BigTurn ==
  LET consumed == bigCall.consumedBits + call.bits IN
  /\ bigCall # NoCall
  /\ call # NoCall
  /\ call.skippedBits = call.bits
  /\ consumed < bigCall.bits
  /\ bigCall' = [bigCall EXCEPT !.result = Joined, !.consumedBits = consumed]
  /\ call' = ReadBitsCall(Least(bigCall.bits - consumed, Word))
  /\ UNCHANGED buffer

(* ReadBigInteger returns Joined.                                          *)
BigReturns ==
  /\ bigCall # NoCall
  /\ bigCall.consumedBits + call.bits = bigCall.bits
  /\ ReadBitsReturns
  /\ bigCall' = NoCall

-----------------------------------------------------------------------------
(* Aligned reads.                                                          *)

(* The rest of the byte is dropped.                                        *)
ByteAlign ==
  /\ nextBits' = 0
  /\ UNCHANGED <<data, used, next, call, bigCall>>

Spans(n) == n \in Nat /\ used + n <= Len(data)
Span(n)  == SubSeq(data, used + 1, used + n)

(* ReadAlignedSpan, when there are so many bytes.                          *)
ReadAlignedSpan(n) ==
  /\ Spans(n)
  /\ used' = used + n
  /\ nextBits' = 0
  /\ UNCHANGED <<data, next>>

-----------------------------------------------------------------------------
(* Any caller.                                                             *)

BufferInit ==
  /\ data \in Streams
  /\ used = 0
  /\ next = {}
  /\ nextBits = 0
  /\ call = NoCall
  /\ bigCall = NoCall

Client ==
  \/ \E n \in Nat : ReadBits(n) /\ UNCHANGED bigCall
  \/ \E n \in Nat : ReadBigInteger(n)
  \/ call = NoCall /\ ByteAlign
  \/ \E n \in Nat : call = NoCall /\ ReadAlignedSpan(n)
                    /\ UNCHANGED <<call, bigCall>>

BufferNext ==
  \/ Client
  \/ CopyBits
  \/ ReadBitsReturns /\ bigCall = NoCall /\ UNCHANGED bigCall
  \/ BigTurn
  \/ BigReturns

BufferSpec == BufferInit /\ [][BufferNext]_bufferVars

-----------------------------------------------------------------------------
(* Invariants.                                                             *)

(* The buffer stands at one position of the stream: it has the bytes up to *)
(* there, and of the byte it is in the bits from there on.                 *)
BufferAtPosition ==
  /\ used \in 0 .. Len(data)
  /\ nextBits \in 0 .. ByteBits - 1
  /\ nextBits > 0 =>
       /\ used > 0
       /\ next = { b \in 0 .. nextBits - 1 :
                     b + ByteBits - nextBits \in data[used] }

(* ReadBits of up to a word returns the number at the position where it    *)
(* was called and ends behind it, wherever in a byte that is.              *)
ReadBitsExact ==
  call # NoCall =>
    /\ UsedBits = call.from + call.skippedBits
    /\ call.skippedBits = call.bits /\ call.bits <= Word
         => call.result = BitsAt(data, call.from, call.bits)

(* A bit array of more than a word read from the middle of a byte is cut   *)
(* there, and the bits of a byte on both sides of the cut change places;   *)
(* all others are as they are at the position.                             *)
InOrder(from, n) ==
  n <= Word \/ ~BigEndian \/ (Aligned(from) /\ Word % ByteBits = 0)

BigIntegerRead ==
  /\ bigCall # NoCall /\ call # NoCall
  /\ call.skippedBits = call.bits
  /\ bigCall.consumedBits + call.bits = bigCall.bits

ReadBigIntegerExact ==
  BigIntegerRead /\ InOrder(bigCall.from, bigCall.bits) =>
    Joined = BitsAt(data, bigCall.from, bigCall.bits)

=============================================================================
