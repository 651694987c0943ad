---------------------------- MODULE TrackerStream ----------------------------
(***************************************************************************)
(* Decoding the stream of tracker events: DecodeEventStream of             *)
(* S2Protocol/S2ProtocolVersion.Typed.cs with the VersionedTypedDecoder of *)
(* S2Protocol/TypedProtocolDecoder.cs.                                     *)
(*                                                                         *)
(* Every event is three instances: the game loops since the last event,    *)
(* the number of its kind, its body.  They are read by the types of a      *)
(* table, but the table may be of an older build than the replay           *)
(* (LoadTypeInfos answers the nearest version), so a struct or a choice    *)
(* may have members the table does not know.  Those are skipped by the     *)
(* form in the stream alone.  If reading by type and skipping by form ever *)
(* consumed different bytes, everything after would be read from the wrong *)
(* place, and most of it without an error.                                 *)
(*                                                                         *)
(* The recursion of the decoder is a stack of loops, innermost last.  The  *)
(* stream is chosen as it is read; values that decide nothing are left     *)
(* out.  Which fields an event keeps does not matter: a reader that does   *)
(* not want a field has it skipped by its type, which reads it.            *)
(***************************************************************************)
EXTENDS Integers, Sequences

CONSTANTS
  TypeInfos,             \* the table of types: a function of their numbers
  EventTypes,            \* the type of each known kind of event
  Written,               \* the table of the build that wrote the replay
  WrittenEvents,         \* and its kinds of events
  SVarUint32TypeId,      \* the type of the game loops
  TrackerEventIdTypeId,  \* the type of the number of an event
  Opaque,                \* no type: to be skipped by its form
  Ints,                  \* the values of variable-length integers
  TagBytes,              \* the values of the byte an instance starts with
  MaxInt,                \* int.MaxValue
  MaxEvents,             \* bound: events in a stream
  MaxDepth               \* bound: nested loops

TypeIds    == DOMAIN TypeInfos
WrittenIds == DOMAIN Written

Kinds == {"array", "bitArray", "blob", "bool", "choice", "fourCc", "int",
          "optional", "real32", "real64", "struct"}

(* A table of types: kinds are known and references lead to types; a kind  *)
(* without items has Opaque for their type.  _null is missing: no type     *)
(* that a section in this format uses has it inside, and nothing in the    *)
(* stream would stand for it.                                              *)
IsTable(table) ==
  \A t \in DOMAIN table :
    /\ table[t].kind \in Kinds
    /\ table[t].item \in DOMAIN table \cup {Opaque}
    /\ table[t].kind \in {"array", "optional"} => table[t].item \in DOMAIN table
    /\ \A n \in DOMAIN table[t].fields : table[t].fields[n] \in DOMAIN table
    /\ \A n \in DOMAIN table[t].choices : table[t].choices[n] \in DOMAIN table

ASSUME TablesAssumption ==
  /\ IsTable(TypeInfos) /\ IsTable(Written)
  /\ \A e \in DOMAIN EventTypes : EventTypes[e] \in TypeIds
  /\ \A e \in DOMAIN WrittenEvents : WrittenEvents[e] \in WrittenIds
  /\ SVarUint32TypeId \in TypeIds /\ TrackerEventIdTypeId \in TypeIds
  /\ TypeInfos[TrackerEventIdTypeId].kind = "int"
  /\ Opaque \notin TypeIds \cup WrittenIds

(* The build that wrote the replay has added types, fields, choices and    *)
(* events, and changed none.  (Its types are called by the numbers they    *)
(* have in the older table.)                                               *)
ASSUME NewerBuildAssumption ==
  /\ \A t \in TypeIds :
       /\ t \in WrittenIds
       /\ Written[t].kind = TypeInfos[t].kind
       /\ Written[t].item = TypeInfos[t].item
       /\ \A n \in DOMAIN TypeInfos[t].fields :
            /\ n \in DOMAIN Written[t].fields
            /\ Written[t].fields[n] = TypeInfos[t].fields[n]
       /\ \A n \in DOMAIN TypeInfos[t].choices :
            /\ n \in DOMAIN Written[t].choices
            /\ Written[t].choices[n] = TypeInfos[t].choices[n]
  /\ \A e \in DOMAIN EventTypes :
       /\ e \in DOMAIN WrittenEvents
       /\ WrittenEvents[e] = EventTypes[e]

ASSUME NumbersAssumption ==
  /\ Ints \subseteq Int /\ TagBytes \subseteq Nat
  /\ MaxInt \in Nat /\ MaxEvents \in Nat /\ MaxDepth \in Nat

VARIABLES
  read,      \* the instance read last, up to what is inside
  frames,    \* the loops the decoder is in
  phase,     \* the instance of the event: "delta", "id" or "body"
  eventId,   \* the number of the event
  events,    \* the events decoded
  status,    \* "reading", "done" or "failed"
  asWritten  \* all that was read is what the newer build may have written

vars == <<read, frames, phase, eventId, events, status, asWritten>>

Number(n)   == [unit |-> "number", value |-> n]
Bytes(n)    == [unit |-> "bytes", value |-> n]
Flag(there) == [unit |-> "flag", value |-> there]

(* A loop: for (i = 0; i < n; i++), with a tag before each item or not,    *)
(* over items of a type or, with tags, fields of one; for the writer it    *)
(* is of another type, which the table need not know.                      *)
Loop(n, tagged, type, written) ==
  [left |-> IF n < 0 THEN 0 ELSE n, tagged |-> tagged,
   type |-> type, written |-> written]

-----------------------------------------------------------------------------
(* Looking up types.                                                       *)

(* FieldsByTag.TryGetValue.                                                *)
FieldType(t, tag) ==
  IF t \in TypeIds /\ tag \in DOMAIN TypeInfos[t].fields
    THEN TypeInfos[t].fields[tag] ELSE Opaque

(* Choices.TryGetValue.                                                    *)
ChoiceType(t, tag) ==
  IF t \in TypeIds /\ tag \in DOMAIN TypeInfos[t].choices
    THEN TypeInfos[t].choices[tag] ELSE Opaque

WrittenField(w, tag) ==
  IF w \in WrittenIds /\ tag \in DOMAIN Written[w].fields
    THEN Written[w].fields[tag] ELSE Opaque

WrittenChoice(w, tag) ==
  IF w \in WrittenIds /\ tag \in DOMAIN Written[w].choices
    THEN Written[w].choices[tag] ELSE Opaque

WrittenItem(w) == IF w \in WrittenIds THEN Written[w].item ELSE Opaque

(* The form in which the game writes a kind.                               *)
FormOf ==
  [array |-> 0, bitArray |-> 1, blob |-> 2, choice |-> 3, optional |-> 4,
   struct |-> 5, bool |-> 6, fourCc |-> 7, real32 |-> 7, real64 |-> 8,
   int |-> 9]

MayBeWritten(w, form) == w \in WrittenIds /\ FormOf[Written[w].kind] = form

(* The argument of ExpectSkip in the reader of each kind.                  *)
Expected ==
  [array |-> 0, bitArray |-> 1, blob |-> 2, choice |-> 3, optional |-> 4,
   struct |-> 5, bool |-> 6, fourCc |-> 7, real32 |-> 7, real64 |-> 8,
   int |-> 9]

-----------------------------------------------------------------------------
(* The instance that is next: an item of the innermost loop.               *)

Top == frames[Len(frames)]

Tags        == IF Top.tagged THEN Ints ELSE {0}
TagRead(tag) == IF Top.tagged THEN <<tag>> ELSE <<>>

ItemType(tag)    == IF Top.tagged THEN FieldType(Top.type, tag) ELSE Top.type
ItemWritten(tag) == IF Top.tagged THEN WrittenField(Top.written, tag)
                                  ELSE Top.written

IsKind(tag, kind) ==
  ItemType(tag) \in TypeIds /\ TypeInfos[ItemType(tag)].kind = kind

(* It is read, up to the loop over what is inside of it.                   *)
Consume(tag, form, units, inner) ==
  /\ Len(frames) + Len(inner) <= MaxDepth
  /\ read' = [name |-> TagRead(tag), form |-> form, units |-> units]
  /\ frames' = [frames EXCEPT ![Len(frames)] =
                  [left |-> @.left - 1, tagged |-> @.tagged,
                   type |-> @.type, written |-> @.written]] \o inner
  /\ asWritten' = (asWritten /\ MayBeWritten(ItemWritten(tag), form))
  /\ UNCHANGED <<phase, events, status>>

(* An exception leaves DecodeEventStream.                                  *)
Fail(written) ==
  /\ status' = "failed"
  /\ asWritten' = written
  /\ UNCHANGED <<read, frames, phase, eventId, events>>

(* (n + 7) / 8, rounded towards zero.                                      *)
ByteLength(n) == IF n + 7 >= 0 THEN (n + 7) \div 8 ELSE -((-(n + 7)) \div 8)

-----------------------------------------------------------------------------
(* Reading by type.                                                        *)

ReadArrayItems(tag) ==
  /\ IsKind(tag, "array")
  /\ \E n \in Ints :
       Consume(tag, Expected.array, <<Number(n)>>,
               << Loop(n, FALSE, TypeInfos[ItemType(tag)].item,
                       WrittenItem(ItemWritten(tag))) >>)
  /\ UNCHANGED eventId

(* The loop looks up a type for each tag, and skips where it has none.     *)
ReadStructFields(tag) ==
  /\ IsKind(tag, "struct")
  /\ \E n \in Ints :
       Consume(tag, Expected.struct, <<Number(n)>>,
               << Loop(n, TRUE, ItemType(tag), ItemWritten(tag)) >>)
  /\ UNCHANGED eventId

(* Bug: a choice the table does not know is left in the stream.            *)
ReadChoiceForgetful(tag) ==
  /\ IsKind(tag, "choice")
  /\ \E n \in Ints :
       Consume(tag, Expected.choice, <<Number(n)>>,
               IF ChoiceType(ItemType(tag), n) = Opaque THEN <<>>
               ELSE << Loop(1, FALSE, ChoiceType(ItemType(tag), n),
                            WrittenChoice(ItemWritten(tag), n)) >>)
  /\ UNCHANGED eventId

ReadChoiceValue(tag) ==
  /\ IsKind(tag, "choice")
  /\ \E n \in Ints :
       Consume(tag, Expected.choice, <<Number(n)>>,
               << Loop(1, FALSE, ChoiceType(ItemType(tag), n),
                       WrittenChoice(ItemWritten(tag), n)) >>)
  /\ UNCHANGED eventId

TryReadOptionalTypeId(tag) ==
  /\ IsKind(tag, "optional")
  /\ \/ Consume(tag, Expected.optional, <<Flag(FALSE)>>, <<>>)
     \/ Consume(tag, Expected.optional, <<Flag(TRUE)>>,
                << Loop(1, FALSE, TypeInfos[ItemType(tag)].item,
                        WrittenItem(ItemWritten(tag))) >>)
  /\ UNCHANGED eventId

ReadBlobValue(tag) ==
  /\ IsKind(tag, "blob")
  /\ \E n \in Ints :
       n >= 0 /\ Consume(tag, Expected.blob, <<Number(n), Bytes(n)>>, <<>>)
  /\ UNCHANGED eventId

ReadBitArrayValue(tag) ==
  /\ IsKind(tag, "bitArray")
  /\ \E n \in Ints :
       /\ ByteLength(n) >= 0
       /\ Consume(tag, Expected.bitArray,
                  <<Number(n), Bytes(ByteLength(n))>>, <<>>)
  /\ UNCHANGED eventId

ReadBoolValue(tag) ==
  /\ IsKind(tag, "bool")
  /\ Consume(tag, Expected.bool, <<Bytes(1)>>, <<>>)
  /\ UNCHANGED eventId

ReadFourCcValue(tag) ==
  /\ IsKind(tag, "fourCc")
  /\ Consume(tag, Expected.fourCc, <<Bytes(4)>>, <<>>)
  /\ UNCHANGED eventId

ReadReal32Value(tag) ==
  /\ IsKind(tag, "real32")
  /\ Consume(tag, Expected.real32, <<Bytes(4)>>, <<>>)
  /\ UNCHANGED eventId

ReadReal64Value(tag) ==
  /\ IsKind(tag, "real64")
  /\ Consume(tag, Expected.real64, <<Bytes(8)>>, <<>>)
  /\ UNCHANGED eventId

(* ReadInt: a long, clamped to an int.                                     *)
Clamped(n) == IF n > MaxInt THEN MaxInt
              ELSE IF n < -MaxInt - 1 THEN -MaxInt - 1 ELSE n

ReadIntValue(tag) ==
  /\ IsKind(tag, "int")
  /\ \E n \in Ints :
       /\ Consume(tag, Expected.int, <<Number(n)>>, <<>>)
       /\ eventId' = IF phase = "id" THEN Clamped(n) ELSE eventId

ReadByType(tag) ==
  \/ ReadArrayItems(tag)    \/ ReadStructFields(tag)
  \/ ReadChoiceValue(tag)   \/ TryReadOptionalTypeId(tag)
  \/ ReadBlobValue(tag)     \/ ReadBitArrayValue(tag)
  \/ ReadBoolValue(tag)     \/ ReadFourCcValue(tag)
  \/ ReadReal32Value(tag)   \/ ReadReal64Value(tag)
  \/ ReadIntValue(tag)

-----------------------------------------------------------------------------
(* Skipping by form: the cases of SkipInstance.                            *)

SkipArray(tag) ==
  \E n \in Ints :
    Consume(tag, 0, <<Number(n)>>,
            << Loop(n, FALSE, Opaque, WrittenItem(ItemWritten(tag))) >>)

SkipBitBlob(tag) ==
  \E n \in Ints :
    /\ ByteLength(n) >= 0
    /\ Consume(tag, 1, <<Number(n), Bytes(ByteLength(n))>>, <<>>)

SkipBlob(tag) ==
  \E n \in Ints : n >= 0 /\ Consume(tag, 2, <<Number(n), Bytes(n)>>, <<>>)

SkipChoice(tag) ==
  \E n \in Ints :
    Consume(tag, 3, <<Number(n)>>,
            << Loop(1, FALSE, Opaque, WrittenChoice(ItemWritten(tag), n)) >>)

SkipOptional(tag) ==
  \/ Consume(tag, 4, <<Flag(FALSE)>>, <<>>)
  \/ Consume(tag, 4, <<Flag(TRUE)>>,
             << Loop(1, FALSE, Opaque, WrittenItem(ItemWritten(tag))) >>)

SkipStruct(tag) ==
  \E n \in Ints :
    Consume(tag, 5, <<Number(n)>>,
            << Loop(n, TRUE, Opaque, ItemWritten(tag)) >>)

SkipFixed(tag) ==
  \/ Consume(tag, 6, <<Bytes(1)>>, <<>>)
  \/ Consume(tag, 7, <<Bytes(4)>>, <<>>)
  \/ Consume(tag, 8, <<Bytes(8)>>, <<>>)

SkipVInt(tag) == \E n \in Ints : Consume(tag, 9, <<Number(n)>>, <<>>)

SkipInstance(tag) ==
  /\ ItemType(tag) = Opaque
  /\ \/ SkipArray(tag)  \/ SkipBitBlob(tag)  \/ SkipBlob(tag)
     \/ SkipChoice(tag) \/ SkipOptional(tag) \/ SkipStruct(tag)
     \/ SkipFixed(tag)  \/ SkipVInt(tag)
  /\ UNCHANGED eventId

-----------------------------------------------------------------------------
(* Streams that cannot be read.                                            *)

(* ExpectSkip finds another form.                                          *)
UnexpectedForm(tag) ==
  /\ ItemType(tag) \in TypeIds
  /\ \E form \in TagBytes \ {Expected[TypeInfos[ItemType(tag)].kind]} :
       Fail(asWritten /\ MayBeWritten(ItemWritten(tag), form))

(* Bug: SkipInstance has no case for integers.                             *)
UnknownFormOrInt(tag) ==
  /\ ItemType(tag) = Opaque
  /\ \E form \in TagBytes \ 0 .. 8 :
       Fail(asWritten /\ MayBeWritten(ItemWritten(tag), form))

(* SkipInstance has no case for it.                                        *)
UnknownForm(tag) ==
  /\ ItemType(tag) = Opaque
  /\ \E form \in TagBytes \ 0 .. 9 :
       Fail(asWritten /\ MayBeWritten(ItemWritten(tag), form))

(* The stream ends, or a length is negative: nobody writes such a stream.  *)
Unreadable == Fail(FALSE)

-----------------------------------------------------------------------------
(* DecodeEventStream.                                                      *)

(* while (!decoder.Done())                                                 *)
EndOfStream ==
  /\ phase = "delta" /\ frames = <<>>
  /\ status' = "done"
  /\ UNCHANGED <<read, frames, phase, eventId, events, asWritten>>

Start(type, written) ==
  /\ frames = <<>>
  /\ frames' = << Loop(1, FALSE, type, written) >>
  /\ UNCHANGED <<read, phase, eventId, events, status, asWritten>>

StartDelta ==
  /\ phase = "delta" /\ Len(events) < MaxEvents
  /\ Start(SVarUint32TypeId, SVarUint32TypeId)

StartId == phase = "id" /\ Start(TrackerEventIdTypeId, TrackerEventIdTypeId)

StartBody ==
  /\ phase = "body" /\ eventId \in DOMAIN EventTypes
  /\ Start(EventTypes[eventId], EventTypes[eventId])

(* ReadUnknownTrackerEvent asks for type -1.                               *)
UnknownEvent ==
  /\ phase = "body" /\ frames = <<>> /\ eventId \notin DOMAIN EventTypes
  /\ Fail(asWritten)

(* A loop ends, and the instance it is inside of.                          *)
EndLoop ==
  /\ Len(frames) > 1 /\ Top.left = 0
  /\ frames' = SubSeq(frames, 1, Len(frames) - 1)
  /\ UNCHANGED <<read, phase, eventId, events, status, asWritten>>

After(p) == IF p = "delta" THEN "id" ELSE IF p = "id" THEN "body" ELSE "delta"

(* An instance of the event ends; after the third, it is added.            *)
EndInstance ==
  /\ Len(frames) = 1 /\ Top.left = 0
  /\ frames' = <<>>
  /\ phase' = After(phase)
  /\ events' = IF phase = "body" THEN Append(events, eventId) ELSE events
  /\ UNCHANGED <<read, eventId, status, asWritten>>

Init ==
  /\ read = <<>> /\ frames = <<>> /\ phase = "delta" /\ eventId = 0
  /\ events = <<>> /\ status = "reading" /\ asWritten = TRUE

ReadItem ==
  /\ frames # <<>> /\ Top.left > 0
  /\ \/ \E tag \in Tags : \/ ReadByType(tag)     \/ SkipInstance(tag)
                          \/ UnexpectedForm(tag) \/ UnknownForm(tag)
     \/ Unreadable

Next ==
  /\ status = "reading"
  /\ \/ StartDelta \/ StartId \/ StartBody \/ UnknownEvent \/ EndOfStream
     \/ ReadItem   \/ EndLoop \/ EndInstance

Spec == Init /\ [][Next]_vars

-----------------------------------------------------------------------------
(* Properties.                                                             *)

Frames ==
  [left : Nat, tagged : BOOLEAN, type : TypeIds \cup {Opaque},
   written : WrittenIds \cup {Opaque}]

Phases == {"delta", "id", "body"}

(* Every loop of the decoder runs over types of the table or skips, and    *)
(* has a count of items that is not below zero, whatever length the stream *)
(* declares.                                                               *)
TypeOK ==
  /\ frames \in Seq(Frames)
  /\ phase \in Phases
  /\ eventId \in Int
  /\ events \in Seq(Int)
  /\ status \in {"reading", "done", "failed"}
  /\ asWritten \in BOOLEAN

(* A replay of a newer build, which has added fields, choices and types    *)
(* the table does not know at any depth, fails on nothing but an event of  *)
(* a kind that is new itself: everything else that is unknown is skipped.  *)
NewerBuildsDecode ==
  status = "failed" /\ asWritten =>
    phase = "body" /\ frames = <<>> /\ eventId \notin DOMAIN EventTypes

=============================================================================
