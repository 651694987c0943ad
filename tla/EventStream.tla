---------------------------- MODULE EventStream ----------------------------
(***************************************************************************)
(* Decoding a bit-packed event stream: DecodeEventStream of                *)
(* S2Protocol/S2ProtocolVersion.Typed.cs with the handler of the message   *)
(* events, over BitPackedTypedDecoder and its BitPackedBuffer.             *)
(*                                                                         *)
(* The decoder walks the types of an event in the order of the tables.     *)
(* The nested calls of its readers are the sequence todo of the types that *)
(* are still to be read; a handler reads, or skips, every field, and both  *)
(* take the same bits.  What it reads for an event is collected in values. *)
(* The handler of the game events does the same, but Complete drops the    *)
(* number of bits.                                                         *)
(***************************************************************************)
EXTENDS BitPackedBuffer

CONSTANTS
  TypeInfos,           \* TypeInfos: a record of each type id of a stream
  LastType,            \* the greatest type id
  EventTypes,          \* MessageEvents: a type id for some event ids
  SVarUint32TypeId,    \* the type of a delta, a choice among numbers
  ReplayUserIdTypeId,  \* the type of a user id, a struct of a number
  EventIdTypeId,       \* the type of an event id, a number
  MaxInt               \* int.MaxValue

Kinds == {"int", "null", "bool", "struct", "array", "optional", "choice",
          "blob", "bitArray"}

MaxLong == Ones(Word - 1)  \* long.MaxValue

(* The numbers of a type lie between two bounds.                           *)
Between(type, min, max) == min <= type.min /\ type.min + Ones(type.bits) <= max

(* A type refers to types before it, and only to such; so do all tables.   *)
Before(t) == { u \in DOMAIN TypeInfos : u < t }

ASSUME TypesAssumption ==
  /\ LastType \in Nat /\ DOMAIN TypeInfos \subseteq 0 .. LastType
  /\ MaxInt \in Nat
  /\ \A t \in DOMAIN TypeInfos :
       LET type == TypeInfos[t] IN
       /\ type.kind \in Kinds
       /\ type.bits \in 0 .. Word /\ type.min \in Int
       /\ Between(type, -MaxLong - 1, MaxLong)
       /\ type.kind \in {"array", "blob", "bitArray"} => type.min >= 0
       /\ type.kind \in {"bool", "optional"} => type.min = 0 /\ type.bits = 1
       /\ type.kind = "struct" => type.fields \in Seq(Before(t))
       /\ type.kind \in {"array", "optional"} => type.item \in Before(t)
       /\ type.kind = "choice" =>
            \A n \in DOMAIN type.choices : type.choices[n] \in Before(t)

(* The types of the parts of a header; all but a delta fit into an int.    *)
FitsInt(t) ==
  /\ t \in DOMAIN TypeInfos /\ TypeInfos[t].kind = "int"
  /\ Between(TypeInfos[t], -MaxInt - 1, MaxInt)

ASSUME HeaderAssumption ==
  /\ {SVarUint32TypeId, ReplayUserIdTypeId} \subseteq DOMAIN TypeInfos
  /\ LET user == TypeInfos[ReplayUserIdTypeId]
     IN user.kind = "struct" /\ Len(user.fields) = 1 /\ FitsInt(user.fields[1])
  /\ FitsInt(EventIdTypeId)
  /\ \A id \in DOMAIN EventTypes : EventTypes[id] \in DOMAIN TypeInfos

VARIABLES
  phase,      \* "start" of an event, its "delta", "user", "id" or "body";
              \* "done", or "failed" once it has thrown
  todo,       \* the types still to be read for this part of the event
  values,     \* what has been read for it
  startBits,  \* startBits
  gameloop,   \* gameloop
  userId,     \* userId
  eventId,    \* eventId
  events,     \* the events in the store
  agreed      \* how much is as in BlizzardStream: see EventStreamRefinement

header == <<startBits, gameloop, userId, eventId>>
vars   == <<bufferVars, phase, todo, values, header, events, agreed>>

-----------------------------------------------------------------------------
(* Numbers.                                                                *)

(* The sum of two numbers that run from -max - 1 to max.                   *)
Wrap(n, max) == ((n + max + 1) % (2 * max + 2)) - max - 1

(* ReadBits returns a long: the highest bit of a word is its sign.         *)
Signed ==
  Natural(call.result, call.bits)
    - (IF Word - 1 \in call.result THEN 2 * MaxLong + 2 ELSE 0)

(* ReadIntValue: bounds.Min + ReadBits.                                    *)
Number(type) == Wrap(type.min + Signed, MaxLong)

(* ReadInt.                                                                *)
Clamp(n) ==
  IF n > MaxInt THEN MaxInt ELSE IF n < -MaxInt - 1 THEN -MaxInt - 1 ELSE n

-----------------------------------------------------------------------------
(* Reading by type.                                                        *)

Reading == phase \in {"delta", "user", "id", "body"}
Type    == TypeInfos[Head(todo)]

Visits(kind) == Reading /\ call = NoCall /\ todo # <<>> /\ Type.kind = kind

(* ReadBits has read the number that the type at hand begins with.         *)
NumberRead(kind) ==
  /\ Reading /\ todo # <<>> /\ Type.kind = kind
  /\ call # NoCall /\ bigCall = NoCall
  /\ call.skippedBits = call.bits

Returns(kind) == NumberRead(kind) /\ ReadBitsReturns /\ UNCHANGED bigCall

(* It stands for these values, and these types come next.                  *)
Goes(vs, types) ==
  /\ values' = values \o vs
  /\ todo' = types \o Tail(todo)
  /\ UNCHANGED <<phase, header, events, agreed>>

(* ReadStructFields.                                                       *)
ReadStructFields ==
  /\ Visits("struct")
  /\ Goes(<<>>, Type.fields)
  /\ UNCHANGED bufferVars

ReadNull ==
  /\ Visits("null")
  /\ Goes(<<>>, <<>>)
  /\ UNCHANGED bufferVars

(* Every other type begins with a number: its value, or a length, a tag or *)
(* a flag.                                                                 *)
StartNumber ==
  /\ \E kind \in Kinds \ {"struct", "null"} : Visits(kind)
  /\ ReadBits(Type.bits)
  /\ UNCHANGED <<bigCall, phase, todo, values, header, events, agreed>>

ReadIntValue ==
  /\ Returns("int")
  /\ Goes(<<Number(Type)>>, <<>>)

ReadBoolValue ==
  /\ Returns("bool")
  /\ Goes(<<call.result # {}>>, <<>>)

ReadArrayItems ==
  /\ Returns("array")
  /\ Goes(<<Number(Type)>>, [i \in 1 .. Number(Type) |-> Type.item])

TryReadOptionalTypeId ==
  /\ Returns("optional")
  /\ Goes(<<Number(Type)>>, IF call.result # {} THEN <<Type.item>> ELSE <<>>)

ReadChoiceValue ==
  /\ Returns("choice")
  /\ Number(Type) \in DOMAIN Type.choices
  /\ Goes(<<Number(Type)>>, <<Type.choices[Number(Type)]>>)

(* ReadAlignedSpan of the length.                                          *)
ReadBlobValue ==
  /\ NumberRead("blob")
  /\ call' = NoCall
  /\ ReadAlignedSpan(Number(Type))
  /\ Goes(<<Number(Type), Span(Number(Type))>>, <<>>)
  /\ UNCHANGED bigCall

(* The length of a bit array; what follows is read by ReadBigInteger.      *)
StartBitArray ==
  /\ NumberRead("bitArray")
  /\ values' = Append(values, Number(Type))
  /\ ReadBigIntegerCalls(Number(Type))
  /\ UNCHANGED <<buffer, phase, todo, header, events, agreed>>

(* A turn of its loop.                                                     *)
ContinueBitArray ==
  /\ BigTurn
  /\ UNCHANGED <<phase, todo, values, header, events, agreed>>

ReadBitArrayValue ==
  /\ BigReturns
  /\ Goes(<<[from |-> bigCall.from, bits |-> bigCall.bits]>>, <<>>)

(* The loop of ReadBits.                                                   *)
CopyMoreBits ==
  /\ CopyBits
  /\ UNCHANGED <<phase, todo, values, header, events, agreed>>

-----------------------------------------------------------------------------
(* An exception leaves DecodeEventStream.                                  *)

Fail ==
  /\ Reading
  /\ phase' = "failed"
  /\ UNCHANGED <<bufferVars, todo, values, header, events, agreed>>

DataEnds == ReadBitsThrows /\ Fail

UnknownChoice ==
  /\ NumberRead("choice")
  /\ Number(Type) \notin DOMAIN Type.choices
  /\ Fail

BlobEnds ==
  /\ NumberRead("blob")
  /\ ~Spans(Number(Type))
  /\ Fail

-----------------------------------------------------------------------------
(* DecodeEventStream.                                                      *)

Starts(part, types) ==
  /\ phase' = part
  /\ todo' = types
  /\ values' = <<>>
  /\ UNCHANGED <<bufferVars, events>>

StartEvent ==
  /\ phase = "start" /\ ~Done
  /\ startBits' = UsedBits
  /\ Starts("delta", <<SVarUint32TypeId>>)
  /\ UNCHANGED <<gameloop, userId, eventId, agreed>>

EndOfStream ==
  /\ phase = "start" /\ Done
  /\ phase' = "done"
  /\ UNCHANGED <<bufferVars, todo, values, header, events, agreed>>

Ends(part) == phase = part /\ todo = <<>>

(* The number that ReadInt finds in an instance.                           *)
ReadInt == Clamp(values[Len(values)])

Sum == gameloop + values[Len(values)]

(* gameloop += ReadInt: the number may be too big, and so may the sum.     *)
AddDelta ==
  /\ Ends("delta")
  /\ gameloop' = Wrap(gameloop + ReadInt, MaxInt)
  /\ Starts("user", <<ReplayUserIdTypeId>>)
  /\ agreed' = [agreed EXCEPT !.until =
       IF @ = "now" /\ gameloop' # Sum THEN "overflow" ELSE @]
  /\ UNCHANGED <<startBits, userId, eventId>>

ReadUserId ==
  /\ Ends("user")
  /\ userId' = ReadInt
  /\ Starts("id", <<EventIdTypeId>>)
  /\ UNCHANGED <<startBits, gameloop, eventId, agreed>>

ReadEventId ==
  /\ Ends("id")
  /\ eventId' = ReadInt
  /\ ReadInt \in DOMAIN EventTypes
  /\ Starts("body", <<EventTypes[ReadInt]>>)
  /\ UNCHANGED <<startBits, gameloop, userId, agreed>>

(* Bug: the reader goes back to the event that it does not know.           *)
UnknownEventRetried ==
  /\ Ends("id")
  /\ ReadInt \notin DOMAIN EventTypes
  /\ used' = startBits \div ByteBits
  /\ nextBits' = 0
  /\ phase' = "start"
  /\ UNCHANGED <<data, next, call, bigCall, todo, values, header, events, agreed>>

(* S2EventType(-1, "UnknownEvent"): SkipType of a negative id does         *)
(* nothing, and the rest of the event is taken for the next one.           *)
UnknownEvent ==
  /\ Ends("id")
  /\ eventId' = ReadInt
  /\ ReadInt \notin DOMAIN EventTypes
  /\ Starts("body", <<>>)
  /\ agreed' = [agreed EXCEPT !.until = IF @ = "now" THEN "unknown" ELSE @]
  /\ UNCHANGED <<startBits, gameloop, userId>>

(* Bug: the number of bits is taken before the reader is aligned.          *)
BitsUnaligned == UsedBits - startBits

(* The bits of an event, to the end of its last byte.                      *)
EventBits == used * ByteBits - startBits

(* Handle adds the event, ByteAlign, Complete sets its bits.               *)
Complete ==
  /\ Ends("body")
  /\ events' = Append(events,
       [id |-> eventId, gameloop |-> gameloop, userId |-> userId,
        values |-> values, bits |-> EventBits])
  /\ ByteAlign
  /\ agreed' = IF agreed.until = "now"
               THEN [agreed EXCEPT !.events = @ + 1, !.at = startBits + EventBits]
               ELSE agreed
  /\ phase' = "start"
  /\ UNCHANGED <<todo, values, header>>

-----------------------------------------------------------------------------

Init ==
  /\ BufferInit
  /\ phase = "start"
  /\ todo = <<>>
  /\ values = <<>>
  /\ startBits = 0
  /\ gameloop = 0
  /\ userId = -1
  /\ eventId = -1
  /\ events = <<>>
  /\ agreed = [until |-> "now", events |-> 0, at |-> 0]

ReadType ==
  \/ ReadStructFields
  \/ ReadNull
  \/ StartNumber
  \/ ReadIntValue
  \/ ReadBoolValue
  \/ ReadArrayItems
  \/ TryReadOptionalTypeId
  \/ ReadChoiceValue
  \/ ReadBlobValue
  \/ StartBitArray
  \/ ContinueBitArray
  \/ ReadBitArrayValue

Throw == DataEnds \/ UnknownChoice \/ BlobEnds

DecodeEvent ==
  \/ StartEvent
  \/ AddDelta
  \/ ReadUserId
  \/ ReadEventId
  \/ UnknownEvent
  \/ Complete
  \/ EndOfStream

Next == ReadType \/ CopyMoreBits \/ Throw \/ DecodeEvent

Spec == Init /\ [][Next]_vars

(* The loop is one call that runs until it returns or throws.              *)
FairSpec == Spec /\ WF_vars(Next)

-----------------------------------------------------------------------------
(* Properties.                                                             *)

(* Every number is the one at its position, also a bit array: see          *)
(* BitPackedBuffer.                                                        *)
NumbersExact == ReadBitsExact /\ ReadBigIntegerExact

(* Whatever the bytes are, the loop ends.                                  *)
DecodeEnds == <>(phase \in {"done", "failed"})

=============================================================================
