------------------------- MODULE TrackerStreamProofs -------------------------
(***************************************************************************)
(* Proofs about TrackerStream: types, what a table of an older build       *)
(* decodes, and that the stream is cut as WireFormat cuts it.              *)
(***************************************************************************)
EXTENDS TrackerStreamRefinement, SequenceTheorems, TLAPS

(* As long as the stream is what the newer build may have written, the     *)
(* decoder and the writer agree about the type of every loop, or the       *)
(* decoder skips it.                                                       *)
LoopsAsWritten ==
  asWritten => \A i \in 1 .. Len(frames) :
                 frames[i].type \in {Opaque, frames[i].written}

IInv == TypeOK /\ LoopsAsWritten /\ NewerBuildsDecode

-----------------------------------------------------------------------------
(* The loops.                                                              *)

(* What Consume makes of the loops: an item of the innermost one is done,  *)
(* and a loop over what is inside of it may begin.                         *)
Stepped(fs) == [fs EXCEPT ![Len(fs)] =
                  [left |-> @.left - 1, tagged |-> @.tagged,
                   type |-> @.type, written |-> @.written]]

LEMMA LoopIsFrame ==
  ASSUME NEW n \in Int, NEW tagged \in BOOLEAN,
         NEW type \in TypeIds \cup {Opaque},
         NEW written \in WrittenIds \cup {Opaque}
  PROVE  Loop(n, tagged, type, written) \in Frames
BY DEF Loop, Frames

LEMMA SingleIsFrame ==
  ASSUME NEW type \in TypeIds \cup {Opaque},
         NEW written \in WrittenIds \cup {Opaque}
  PROVE  Loop(1, FALSE, type, written) \in Frames
BY DEF Loop, Frames

LEMMA SteppedFrames ==
  ASSUME NEW fs \in Seq(Frames), fs # <<>>, fs[Len(fs)].left > 0
  PROVE  /\ Stepped(fs) \in Seq(Frames)
         /\ Len(Stepped(fs)) = Len(fs)
         /\ \A i \in 1 .. Len(fs) :
              /\ Stepped(fs)[i].type = fs[i].type
              /\ Stepped(fs)[i].written = fs[i].written
<1>1. Len(fs) \in Nat \ {0} /\ fs[Len(fs)] \in Frames
  OBVIOUS
<1>2. [left |-> fs[Len(fs)].left - 1, tagged |-> fs[Len(fs)].tagged,
       type |-> fs[Len(fs)].type, written |-> fs[Len(fs)].written] \in Frames
  BY <1>1 DEF Frames
<1> QED
  BY <1>1, <1>2 DEF Stepped

(* Every type the decoder looks up is one of the table, or none.           *)
LEMMA ItemTypes ==
  ASSUME TypeOK, frames # <<>>, NEW tag
  PROVE  /\ ItemType(tag) \in TypeIds \cup {Opaque}
         /\ ItemWritten(tag) \in WrittenIds \cup {Opaque}
<1>1. Top \in Frames
  BY DEF TypeOK, Top
<1>2. FieldType(Top.type, tag) \in TypeIds \cup {Opaque}
  BY TablesAssumption DEF FieldType, IsTable, TypeIds
<1>3. WrittenField(Top.written, tag) \in WrittenIds \cup {Opaque}
  BY TablesAssumption DEF WrittenField, IsTable, WrittenIds
<1> QED
  BY <1>1, <1>2, <1>3 DEF ItemType, ItemWritten, Frames

(* Where decoder and writer agree about a loop, they agree about its item. *)
LEMMA ItemsAgree ==
  ASSUME TypeOK, LoopsAsWritten, asWritten, frames # <<>>, NEW tag
  PROVE  ItemType(tag) \in {Opaque, ItemWritten(tag)}
<1>1. Top \in Frames /\ Top.type \in {Opaque, Top.written}
  BY DEF TypeOK, Top, LoopsAsWritten
<1>2. FieldType(Top.type, tag) \in {Opaque, WrittenField(Top.written, tag)}
  <2>1. CASE FieldType(Top.type, tag) = Opaque
    BY <2>1
  <2>2. CASE FieldType(Top.type, tag) # Opaque
    <3>1. Top.type \in TypeIds /\ tag \in DOMAIN TypeInfos[Top.type].fields
      BY <2>2 DEF FieldType
    <3>2. Top.written = Top.type
      BY <1>1, <3>1, TablesAssumption
    <3> QED
      BY <3>1, <3>2, NewerBuildAssumption DEF FieldType, WrittenField
  <2> QED
    BY <2>1, <2>2
<1> QED
  BY <1>1, <1>2 DEF ItemType, ItemWritten

-----------------------------------------------------------------------------
(* Consume, with and without a loop inside.                                *)

Inner(inner) == inner = <<>> \/ \E l \in Frames : inner = <<l>>

LEMMA InnerIsSeq ==
  ASSUME NEW inner, Inner(inner)
  PROVE  inner \in Seq(Frames)
<1>1. CASE inner = <<>>
  BY <1>1
<1>2. CASE inner # <<>>
  <2>1. PICK l \in Frames : inner = <<l>>
    BY <1>2 DEF Inner
  <2> QED
    BY <2>1
<1> QED
  BY <1>1, <1>2

(* The loops are loops again.                                              *)
LEMMA ConsumeFrames ==
  ASSUME TypeOK, frames # <<>>, Top.left > 0,
         NEW tag, NEW form, NEW units, NEW inner, Inner(inner),
         Consume(tag, form, units, inner)
  PROVE  /\ frames' \in Seq(Frames)
         /\ asWritten' \in BOOLEAN
<1>1. Stepped(frames) \in Seq(Frames)
  BY SteppedFrames DEF TypeOK, Top
<1>2. frames' = Stepped(frames) \o inner
  BY DEF Consume, Stepped
<1>3. inner \in Seq(Frames)
  BY InnerIsSeq
<1> QED
  BY <1>1, <1>2, <1>3 DEF Consume, TypeOK

(* If decoder and writer agree about the loop inside, they agree about all *)
(* loops.                                                                  *)
LEMMA ConsumeAgrees ==
  ASSUME TypeOK, LoopsAsWritten, frames # <<>>, Top.left > 0,
         NEW tag, NEW form, NEW units, NEW inner, Inner(inner),
         asWritten => \A i \in 1 .. Len(inner) :
                        inner[i].type \in {Opaque, inner[i].written},
         Consume(tag, form, units, inner)
  PROVE  LoopsAsWritten'
<1> SUFFICES ASSUME asWritten', NEW i \in 1 .. Len(frames')
             PROVE  frames'[i].type \in {Opaque, frames'[i].written}
  BY DEF LoopsAsWritten
<1>1. asWritten
  BY DEF Consume, TypeOK
<1>2. frames' = Stepped(frames) \o inner
  BY DEF Consume, Stepped
<1>3. /\ Stepped(frames) \in Seq(Frames) /\ Len(Stepped(frames)) = Len(frames)
      /\ \A j \in 1 .. Len(frames) :
           /\ Stepped(frames)[j].type = frames[j].type
           /\ Stepped(frames)[j].written = frames[j].written
  BY SteppedFrames DEF TypeOK, Top
<1>4. inner \in Seq(Frames)
  BY InnerIsSeq
<1>5. CASE i \in 1 .. Len(frames)
  <2>1. frames'[i] = Stepped(frames)[i]
    BY <1>2, <1>3, <1>4, <1>5
  <2> QED
    BY <1>1, <1>3, <1>5, <2>1 DEF LoopsAsWritten
<1>6. CASE i \notin 1 .. Len(frames)
  <2>1. /\ i - Len(frames) \in 1 .. Len(inner)
        /\ frames'[i] = inner[i - Len(frames)]
    BY <1>2, <1>3, <1>4, <1>6
  <2> QED
    BY <1>1, <2>1
<1> QED
  BY <1>5, <1>6

-----------------------------------------------------------------------------
(* An item: every way to read one is Consume with a loop inside about      *)
(* which decoder and writer agree.                                         *)

Consumes ==
  \E tag, form, units, inner :
    /\ Inner(inner)
    /\ asWritten => \A i \in 1 .. Len(inner) :
                      inner[i].type \in {Opaque, inner[i].written}
    /\ Consume(tag, form, units, inner)

LEMMA ConsumesNothing ==
  ASSUME NEW tag, NEW form, NEW units, Consume(tag, form, units, <<>>)
  PROVE  Consumes
<1>1. Inner(<<>>) /\ \A i \in 1 .. Len(<<>>) : FALSE
  BY DEF Inner
<1> QED
  BY <1>1 DEF Consumes

LEMMA ConsumesLoop ==
  ASSUME NEW tag, NEW form, NEW units, NEW l \in Frames,
         asWritten => l.type \in {Opaque, l.written},
         Consume(tag, form, units, <<l>>)
  PROVE  Consumes
<1> DEFINE inner == <<l>>
<1>1. Inner(inner)
  BY DEF Inner
<1>2. asWritten => \A i \in 1 .. Len(inner) :
                     inner[i].type \in {Opaque, inner[i].written}
  OBVIOUS
<1>3. Consume(tag, form, units, inner)
  OBVIOUS
<1> HIDE DEF inner
<1> QED
  BY <1>1, <1>2, <1>3 DEF Consumes

(* What is inside of an instance has a type of the table, or none, for the *)
(* decoder and for the writer, and they agree about it too.                *)
LEMMA MembersTyped ==
  ASSUME TypeOK, frames # <<>>, NEW tag, NEW n
  PROVE  /\ WrittenItem(ItemWritten(tag)) \in WrittenIds \cup {Opaque}
         /\ WrittenChoice(ItemWritten(tag), n) \in WrittenIds \cup {Opaque}
         /\ ChoiceType(ItemType(tag), n) \in TypeIds \cup {Opaque}
<1>1. WrittenItem(ItemWritten(tag)) \in WrittenIds \cup {Opaque}
  BY TablesAssumption DEF WrittenItem, IsTable, WrittenIds
<1>2. WrittenChoice(ItemWritten(tag), n) \in WrittenIds \cup {Opaque}
  BY TablesAssumption DEF WrittenChoice, IsTable, WrittenIds
<1>3. ChoiceType(ItemType(tag), n) \in TypeIds \cup {Opaque}
  BY TablesAssumption DEF ChoiceType, IsTable, TypeIds
<1> QED
  BY <1>1, <1>2, <1>3

LEMMA MembersAgree ==
  ASSUME TypeOK, LoopsAsWritten, asWritten, frames # <<>>, NEW tag, NEW n,
         ItemType(tag) \in TypeIds
  PROVE  /\ ItemWritten(tag) = ItemType(tag)
         /\ WrittenItem(ItemWritten(tag)) = TypeInfos[ItemType(tag)].item
         /\ ChoiceType(ItemType(tag), n)
              \in {Opaque, WrittenChoice(ItemWritten(tag), n)}
<1>1. ItemWritten(tag) = ItemType(tag)
  BY ItemsAgree, TablesAssumption
<1>2. ItemWritten(tag) \in WrittenIds
  BY <1>1, NewerBuildAssumption
<1>3. WrittenItem(ItemWritten(tag)) = TypeInfos[ItemType(tag)].item
  BY <1>1, <1>2, NewerBuildAssumption DEF WrittenItem
<1>4. ChoiceType(ItemType(tag), n)
        \in {Opaque, WrittenChoice(ItemWritten(tag), n)}
  BY <1>1, <1>2, NewerBuildAssumption DEF ChoiceType, WrittenChoice
<1> QED
  BY <1>1, <1>3, <1>4

LEMMA ReadByTypeConsumes ==
  ASSUME TypeOK, LoopsAsWritten, frames # <<>>, NEW tag, ReadByType(tag)
  PROVE  Consumes
<1> DEFINE t == ItemType(tag)
           w == ItemWritten(tag)
<1>1. t \in TypeIds /\ w \in WrittenIds \cup {Opaque}
  BY ItemTypes DEF ReadByType, ReadArrayItems, ReadStructFields,
     ReadChoiceValue, TryReadOptionalTypeId, ReadBlobValue,
     ReadBitArrayValue, ReadBoolValue, ReadFourCcValue, ReadReal32Value,
     ReadReal64Value, ReadIntValue, IsKind
<1>2. /\ WrittenItem(w) \in WrittenIds \cup {Opaque}
      /\ \A n : WrittenChoice(w, n) \in WrittenIds \cup {Opaque}
      /\ \A n : ChoiceType(t, n) \in TypeIds \cup {Opaque}
  BY MembersTyped
<1>3. asWritten => /\ w = t
                   /\ WrittenItem(w) = TypeInfos[t].item
                   /\ \A n : ChoiceType(t, n) \in {Opaque, WrittenChoice(w, n)}
  BY <1>1, MembersAgree
<1>4. TypeInfos[t].item \in TypeIds \cup {Opaque}
  BY <1>1, TablesAssumption DEF IsTable, TypeIds
<1> HIDE DEF t, w
<1>5. CASE ReadArrayItems(tag)
  <2>1. PICK n \in Ints :
          Consume(tag, Expected.array, <<Number(n)>>,
                  << Loop(n, FALSE, TypeInfos[t].item, WrittenItem(w)) >>)
    BY <1>5 DEF ReadArrayItems, t, w
  <2>2. Loop(n, FALSE, TypeInfos[t].item, WrittenItem(w)) \in Frames
    BY <1>2, <1>4, LoopIsFrame, NumbersAssumption
  <2> QED
    BY <1>3, <2>1, <2>2, ConsumesLoop DEF Loop
<1>6. CASE ReadStructFields(tag)
  <2>1. PICK n \in Ints :
          Consume(tag, Expected.struct, <<Number(n)>>,
                  << Loop(n, TRUE, t, w) >>)
    BY <1>6 DEF ReadStructFields, t, w
  <2>2. Loop(n, TRUE, t, w) \in Frames
    BY <1>1, LoopIsFrame, NumbersAssumption
  <2> QED
    BY <1>3, <2>1, <2>2, ConsumesLoop DEF Loop
<1>7. CASE ReadChoiceValue(tag)
  <2>1. PICK n \in Ints :
          Consume(tag, Expected.choice, <<Number(n)>>,
                  << Loop(1, FALSE, ChoiceType(t, n), WrittenChoice(w, n)) >>)
    BY <1>7 DEF ReadChoiceValue, t, w
  <2>2. Loop(1, FALSE, ChoiceType(t, n), WrittenChoice(w, n)) \in Frames
    BY <1>2, SingleIsFrame
  <2> QED
    BY <1>3, <2>1, <2>2, ConsumesLoop DEF Loop
<1>8. CASE TryReadOptionalTypeId(tag)
  <2>1. CASE Consume(tag, Expected.optional, <<Flag(FALSE)>>, <<>>)
    BY <2>1, ConsumesNothing
  <2>2. CASE Consume(tag, Expected.optional, <<Flag(TRUE)>>,
                     << Loop(1, FALSE, TypeInfos[t].item, WrittenItem(w)) >>)
    <3>1. Loop(1, FALSE, TypeInfos[t].item, WrittenItem(w)) \in Frames
      BY <1>2, <1>4, SingleIsFrame
    <3> QED
      BY <1>3, <2>2, <3>1, ConsumesLoop DEF Loop
  <2> QED
    BY <1>8, <2>1, <2>2 DEF TryReadOptionalTypeId, t, w
<1>9. CASE \/ ReadBlobValue(tag) \/ ReadBitArrayValue(tag)
           \/ ReadBoolValue(tag) \/ ReadFourCcValue(tag)
           \/ ReadReal32Value(tag) \/ ReadReal64Value(tag)
           \/ ReadIntValue(tag)
  BY <1>9, ConsumesNothing DEF ReadBlobValue, ReadBitArrayValue,
     ReadBoolValue, ReadFourCcValue, ReadReal32Value, ReadReal64Value,
     ReadIntValue
<1> QED
  BY <1>5, <1>6, <1>7, <1>8, <1>9 DEF ReadByType

LEMMA SkipInstanceConsumes ==
  ASSUME TypeOK, frames # <<>>, NEW tag, SkipInstance(tag)
  PROVE  Consumes
<1> DEFINE w == ItemWritten(tag)
<1>1. /\ w \in WrittenIds \cup {Opaque}
      /\ WrittenItem(w) \in WrittenIds \cup {Opaque}
      /\ \A n : WrittenChoice(w, n) \in WrittenIds \cup {Opaque}
  BY ItemTypes, MembersTyped
<1> HIDE DEF w
<1>2. CASE SkipArray(tag)
  <2>1. PICK n \in Ints :
          Consume(tag, 0, <<Number(n)>>,
                  << Loop(n, FALSE, Opaque, WrittenItem(w)) >>)
    BY <1>2 DEF SkipArray, w
  <2>2. Loop(n, FALSE, Opaque, WrittenItem(w)) \in Frames
    BY <1>1, LoopIsFrame, NumbersAssumption
  <2> QED
    BY <2>1, <2>2, ConsumesLoop DEF Loop
<1>3. CASE SkipStruct(tag)
  <2>1. PICK n \in Ints :
          Consume(tag, 5, <<Number(n)>>, << Loop(n, TRUE, Opaque, w) >>)
    BY <1>3 DEF SkipStruct, w
  <2>2. Loop(n, TRUE, Opaque, w) \in Frames
    BY <1>1, LoopIsFrame, NumbersAssumption
  <2> QED
    BY <2>1, <2>2, ConsumesLoop DEF Loop
<1>4. CASE SkipChoice(tag)
  <2>1. PICK n \in Ints :
          Consume(tag, 3, <<Number(n)>>,
                  << Loop(1, FALSE, Opaque, WrittenChoice(w, n)) >>)
    BY <1>4 DEF SkipChoice, w
  <2>2. Loop(1, FALSE, Opaque, WrittenChoice(w, n)) \in Frames
    BY <1>1, SingleIsFrame
  <2> QED
    BY <2>1, <2>2, ConsumesLoop DEF Loop
<1>5. CASE SkipOptional(tag)
  <2>1. CASE Consume(tag, 4, <<Flag(FALSE)>>, <<>>)
    BY <2>1, ConsumesNothing
  <2>2. CASE Consume(tag, 4, <<Flag(TRUE)>>,
                     << Loop(1, FALSE, Opaque, WrittenItem(w)) >>)
    <3>1. Loop(1, FALSE, Opaque, WrittenItem(w)) \in Frames
      BY <1>1, SingleIsFrame
    <3> QED
      BY <2>2, <3>1, ConsumesLoop DEF Loop
  <2> QED
    BY <1>5, <2>1, <2>2 DEF SkipOptional, w
<1>6. CASE SkipBitBlob(tag) \/ SkipBlob(tag) \/ SkipFixed(tag) \/ SkipVInt(tag)
  BY <1>6, ConsumesNothing DEF SkipBitBlob, SkipBlob, SkipFixed, SkipVInt
<1> QED
  BY <1>2, <1>3, <1>4, <1>5, <1>6 DEF SkipInstance

-----------------------------------------------------------------------------
(* The invariant.                                                          *)

LEMMA Initially == Init => IInv
BY DEF Init, IInv, TypeOK, LoopsAsWritten, NewerBuildsDecode, Phases, Frames

(* The number of an event is set where an integer is read.                 *)
LEMMA EventIdStaysInt ==
  ASSUME TypeOK, NEW tag, ReadByType(tag) \/ SkipInstance(tag)
  PROVE  eventId' \in Int
<1>1. CASE ReadIntValue(tag)
  BY <1>1, NumbersAssumption DEF ReadIntValue, Clamped, TypeOK
<1>2. CASE ~ReadIntValue(tag)
  BY <1>2 DEF ReadByType, SkipInstance, ReadArrayItems, ReadStructFields,
     ReadChoiceValue, TryReadOptionalTypeId, ReadBlobValue,
     ReadBitArrayValue, ReadBoolValue, ReadFourCcValue, ReadReal32Value,
     ReadReal64Value, TypeOK
<1> QED
  BY <1>1, <1>2

LEMMA ConsumesKeeps ==
  ASSUME IInv, status = "reading", frames # <<>>, Top.left > 0, Consumes,
         eventId' \in Int
  PROVE  IInv'
<1>1. PICK tag, form, units, inner :
        /\ Inner(inner)
        /\ asWritten => \A i \in 1 .. Len(inner) :
                          inner[i].type \in {Opaque, inner[i].written}
        /\ Consume(tag, form, units, inner)
  BY DEF Consumes
<1>2. frames' \in Seq(Frames) /\ asWritten' \in BOOLEAN
  BY <1>1, ConsumeFrames DEF IInv
<1>3. LoopsAsWritten'
  BY <1>1, ConsumeAgrees DEF IInv
<1>4. UNCHANGED <<phase, events, status>>
  BY <1>1 DEF Consume
<1> QED
  BY <1>2, <1>3, <1>4 DEF IInv, TypeOK, NewerBuildsDecode

(* An exception leaves everything but the verdict as it is.                *)
LEMMA FailKeeps ==
  ASSUME IInv, NEW verdict \in BOOLEAN, verdict => asWritten, Fail(verdict),
         verdict => /\ phase = "body" /\ frames = <<>>
                    /\ eventId \notin DOMAIN EventTypes
  PROVE  IInv'
BY DEF Fail, IInv, TypeOK, LoopsAsWritten, NewerBuildsDecode

(* Nobody who writes what both agree about meets an unexpected form.       *)
LEMMA UnexpectedFormKeeps ==
  ASSUME IInv, frames # <<>>, NEW tag, UnexpectedForm(tag)
  PROVE  IInv'
<1> DEFINE t == ItemType(tag)
<1>1. PICK form \in TagBytes \ {Expected[TypeInfos[t].kind]} :
        Fail(asWritten /\ MayBeWritten(ItemWritten(tag), form))
  BY DEF UnexpectedForm
<1>2. t \in TypeIds /\ TypeInfos[t].kind \in Kinds
  BY TablesAssumption DEF UnexpectedForm, IsTable, TypeIds
<1>3. ASSUME asWritten, MayBeWritten(ItemWritten(tag), form)
      PROVE  FALSE
  <2>1. ItemWritten(tag) = t
    BY <1>2, <1>3, MembersAgree DEF IInv
  <2>2. Written[t].kind = TypeInfos[t].kind
    BY <1>2, NewerBuildAssumption
  <2>3. FormOf[TypeInfos[t].kind] = form
    BY <1>3, <2>1, <2>2 DEF MayBeWritten
  <2>4. FormOf[TypeInfos[t].kind] = Expected[TypeInfos[t].kind]
    BY DEF FormOf, Expected
  <2> QED
    BY <2>3, <2>4
<1>4. (asWritten /\ MayBeWritten(ItemWritten(tag), form)) = FALSE
  BY <1>3 DEF IInv, TypeOK
<1> QED
  BY <1>1, <1>4, FailKeeps

(* SkipInstance has a case for every form that is ever written.            *)
LEMMA UnknownFormKeeps ==
  ASSUME IInv, NEW tag, UnknownForm(tag)
  PROVE  IInv'
<1> DEFINE w == ItemWritten(tag)
<1>1. PICK form \in TagBytes \ 0 .. 9 : Fail(asWritten /\ MayBeWritten(w, form))
  BY DEF UnknownForm
<1>2. ASSUME MayBeWritten(w, form)
      PROVE  FALSE
  <2>1. w \in WrittenIds /\ Written[w].kind \in Kinds
    BY <1>2, TablesAssumption DEF MayBeWritten, IsTable, WrittenIds
  <2>2. FormOf[Written[w].kind] \in 0 .. 9
    BY <2>1 DEF FormOf, Kinds
  <2> QED
    BY <1>2, <2>2 DEF MayBeWritten
<1>3. (asWritten /\ MayBeWritten(w, form)) = FALSE
  BY <1>2 DEF IInv, TypeOK
<1> QED
  BY <1>1, <1>3, FailKeeps

LEMMA ReadItemKeeps ==
  ASSUME IInv, status = "reading", ReadItem
  PROVE  IInv'
<1>1. CASE Unreadable
  BY <1>1, FailKeeps DEF Unreadable
<1>2. ASSUME NEW tag \in Tags, ReadByType(tag)
      PROVE  IInv'
  <2>1. Consumes
    BY <1>2, ReadByTypeConsumes DEF IInv, ReadItem
  <2> QED
    BY <1>2, <2>1, ConsumesKeeps, EventIdStaysInt DEF IInv, ReadItem
<1>3. ASSUME NEW tag \in Tags, SkipInstance(tag)
      PROVE  IInv'
  <2>1. Consumes
    BY <1>3, SkipInstanceConsumes DEF IInv, ReadItem
  <2> QED
    BY <1>3, <2>1, ConsumesKeeps, EventIdStaysInt DEF IInv, ReadItem
<1>4. ASSUME NEW tag \in Tags, UnexpectedForm(tag)
      PROVE  IInv'
  BY <1>4, UnexpectedFormKeeps DEF ReadItem
<1>5. ASSUME NEW tag \in Tags, UnknownForm(tag)
      PROVE  IInv'
  BY <1>5, UnknownFormKeeps
<1> QED
  BY <1>1, <1>2, <1>3, <1>4, <1>5 DEF ReadItem

(* A type both know starts an instance.                                    *)
LEMMA StartKeeps ==
  ASSUME IInv, status = "reading", NEW type \in TypeIds, Start(type, type)
  PROVE  IInv'
<1>1. type \in WrittenIds
  BY NewerBuildAssumption
<1>2. Loop(1, FALSE, type, type) \in Frames
  BY <1>1, SingleIsFrame
<1>3. /\ frames' \in Seq(Frames)
      /\ \A i \in 1 .. Len(frames') : frames'[i].type = frames'[i].written
  BY <1>2 DEF Start, Loop
<1> QED
  BY <1>3 DEF Start, IInv, TypeOK, LoopsAsWritten, NewerBuildsDecode

LEMMA EndLoopKeeps ==
  ASSUME IInv, status = "reading", EndLoop
  PROVE  IInv'
<1>1. /\ frames' \in Seq(Frames)
      /\ Len(frames') = Len(frames) - 1
      /\ \A i \in 1 .. Len(frames') : frames'[i] = frames[i]
  BY DEF EndLoop, IInv, TypeOK
<1> QED
  BY <1>1 DEF EndLoop, IInv, TypeOK, LoopsAsWritten, NewerBuildsDecode

LEMMA EndInstanceKeeps ==
  ASSUME IInv, status = "reading", EndInstance
  PROVE  IInv'
<1>1. /\ frames' \in Seq(Frames) /\ Len(frames') = 0
      /\ events' \in Seq(Int) /\ phase' \in Phases
  BY DEF EndInstance, IInv, TypeOK, After, Phases
<1> QED
  BY <1>1 DEF EndInstance, IInv, TypeOK, LoopsAsWritten, NewerBuildsDecode

LEMMA NextKeeps ==
  ASSUME IInv, [Next]_vars
  PROVE  IInv'
<1>1. CASE UNCHANGED vars
  BY <1>1 DEF vars, IInv, TypeOK, LoopsAsWritten, NewerBuildsDecode
<1>2. CASE Next
  <2> status = "reading"
    BY <1>2 DEF Next
  <2>1. CASE StartDelta
    BY <2>1, StartKeeps, TablesAssumption DEF StartDelta
  <2>2. CASE StartId
    BY <2>2, StartKeeps, TablesAssumption DEF StartId
  <2>3. CASE StartBody
    BY <2>3, StartKeeps, TablesAssumption DEF StartBody
  <2>4. CASE UnknownEvent
    BY <2>4, FailKeeps DEF UnknownEvent, IInv, TypeOK
  <2>5. CASE EndOfStream
    BY <2>5 DEF EndOfStream, IInv, TypeOK, LoopsAsWritten, NewerBuildsDecode
  <2> QED
    BY <1>2, <2>1, <2>2, <2>3, <2>4, <2>5, ReadItemKeeps, EndLoopKeeps,
       EndInstanceKeeps DEF Next
<1> QED
  BY <1>1, <1>2

(* Whatever the tables and the stream are.                                 *)
THEOREM InductiveInvariant == Spec => []IInv
<1>1. Init => IInv
  BY Initially
<1>2. IInv /\ [Next]_vars => IInv'
  BY NextKeeps
<1> QED
  BY <1>1, <1>2, PTL DEF Spec

(* The loops of the decoder run over types of the table, and never a       *)
(* negative number of times.                                               *)
THEOREM TypeCorrect == Spec => []TypeOK
BY InductiveInvariant, PTL DEF IInv

(* Replays of newer builds that only added to the types are decoded by     *)
(* older tables, but for new kinds of events.                              *)
THEOREM NewerBuilds == Spec => []NewerBuildsDecode
BY InductiveInvariant, PTL DEF IInv

-----------------------------------------------------------------------------
(* The stream is cut as WireFormat cuts it.                                *)

(* The loops without their types.                                          *)
Bare(fs) == [i \in 1 .. Len(fs) |->
               [left |-> fs[i].left, tagged |-> fs[i].tagged]]

BareLoops == [left : Nat, tagged : BOOLEAN]

LEMMA BareIsSeq ==
  ASSUME NEW fs \in Seq(Frames)
  PROVE  /\ Bare(fs) \in Seq(BareLoops)
         /\ Len(Bare(fs)) = Len(fs)
<1>1. \A i \in 1 .. Len(fs) :
        [left |-> fs[i].left, tagged |-> fs[i].tagged] \in BareLoops
  <2> SUFFICES ASSUME NEW i \in 1 .. Len(fs)
               PROVE  [left |-> fs[i].left, tagged |-> fs[i].tagged] \in BareLoops
    OBVIOUS
  <2>1. fs[i] \in Frames
    OBVIOUS
  <2> QED
    BY <2>1 DEF Frames, BareLoops
<1>2. Bare(fs) \in [1 .. Len(fs) -> BareLoops]
  BY <1>1 DEF Bare
<1> QED
  BY <1>2

LEMMA BareConcat ==
  ASSUME NEW fs \in Seq(Frames), NEW inner \in Seq(Frames)
  PROVE  Bare(fs \o inner) = Bare(fs) \o Bare(inner)
<1> DEFINE a == Bare(fs)
           b == Bare(inner)
           c == Bare(fs \o inner)
<1>1. /\ fs \o inner \in Seq(Frames)
      /\ Len(fs \o inner) = Len(fs) + Len(inner)
      /\ \A i \in 1 .. Len(fs) + Len(inner) : (fs \o inner)[i] =
           IF i <= Len(fs) THEN fs[i] ELSE inner[i - Len(fs)]
  BY ConcatProperties, Zenon
<1>2. /\ a \in Seq(BareLoops) /\ Len(a) = Len(fs)
      /\ b \in Seq(BareLoops) /\ Len(b) = Len(inner)
      /\ c \in Seq(BareLoops) /\ Len(c) = Len(fs) + Len(inner)
  BY <1>1, BareIsSeq
<1>3. \A i \in 1 .. Len(fs) + Len(inner) : c[i] =
        IF i <= Len(fs) THEN a[i] ELSE b[i - Len(fs)]
  BY <1>1 DEF Bare
<1> HIDE DEF a, b, c
<1>4. /\ a \o b \in Seq(BareLoops)
      /\ Len(a \o b) = Len(a) + Len(b)
      /\ \A i \in 1 .. Len(a) + Len(b) : (a \o b)[i] =
           IF i <= Len(a) THEN a[i] ELSE b[i - Len(a)]
  <2>1. a \in Seq(BareLoops) /\ b \in Seq(BareLoops)
    BY <1>2
  <2> QED
    BY <2>1, ConcatProperties, Zenon
<1>5. /\ Len(c) = Len(a \o b)
      /\ \A i \in 1 .. Len(c) : c[i] = (a \o b)[i]
  BY <1>2, <1>3, <1>4
<1>6. c = a \o b
  BY <1>2, <1>4, <1>5, SeqEqual
<1> QED
  BY <1>6 DEF a, b, c

LEMMA BareStepped ==
  ASSUME NEW fs \in Seq(Frames), fs # <<>>
  PROVE  Bare(Stepped(fs)) =
           [Bare(fs) EXCEPT ![Len(Bare(fs))] =
              [left |-> @.left - 1, tagged |-> @.tagged]]
<1>1. Len(fs) \in Nat \ {0} /\ Len(Bare(fs)) = Len(fs)
  BY BareIsSeq
<1>2. Len(Stepped(fs)) = Len(fs)
  BY DEF Stepped
<1> QED
  BY <1>1, <1>2 DEF Bare, Stepped

(* An instance read by the decoder is one of the stream.                   *)
LEMMA ConsumeIsInstance ==
  ASSUME TypeOK, frames # <<>>, Top.left > 0,
         NEW tag \in Tags, NEW form, NEW units, NEW inner, Inner(inner),
         Consume(tag, form, units, inner)
  PROVE  Wire!Instance(form, units, Bare(inner))
<1>1. frames \in Seq(Frames) /\ inner \in Seq(Frames)
  BY InnerIsSeq DEF TypeOK
<1>2. Untyped = Bare(frames) /\ Untyped' = Bare(frames')
  BY DEF Untyped, Bare
<1>3. /\ Untyped # <<>> /\ Len(Untyped) = Len(frames)
      /\ Untyped[Len(Untyped)].left = Top.left
      /\ Untyped[Len(Untyped)].tagged = Top.tagged
  BY <1>1 DEF Untyped, Top
<1>4. Untyped' = [Untyped EXCEPT ![Len(Untyped)] =
                    [left |-> @.left - 1, tagged |-> @.tagged]] \o Bare(inner)
  <2>1. frames' = Stepped(frames) \o inner /\ Stepped(frames) \in Seq(Frames)
    BY <1>1, SteppedFrames DEF Consume, Stepped, Top
  <2> QED
    BY <1>1, <1>2, <2>1, BareConcat, BareStepped
<1>5. /\ TagRead(tag) \in {<<>>} \cup {<<n>> : n \in Ints}
      /\ Top.tagged <=> TagRead(tag) # <<>>
  BY DEF TagRead, Tags
<1>6. /\ read' = [name |-> TagRead(tag), form |-> form, units |-> units]
      /\ UNCHANGED <<phase, events>>
  BY DEF Consume
<1> QED
  BY <1>3, <1>4, <1>5, <1>6 DEF Wire!Instance, Wire!Innermost, PhaseIndex

LEMMA BareSingle ==
  ASSUME NEW n \in Int, NEW tagged \in BOOLEAN, NEW type, NEW written
  PROVE  Bare(<<Loop(n, tagged, type, written)>>) = <<Wire!Inside(n, tagged)>>
BY DEF Bare, Loop, Wire!Inside

(* A loop over what is inside.                                             *)
LEMMA LoopInstance ==
  ASSUME TypeOK, frames # <<>>, Top.left > 0,
         NEW tag \in Tags, NEW form, NEW units,
         NEW n \in Int, NEW tagged \in BOOLEAN,
         NEW type \in TypeIds \cup {Opaque},
         NEW written \in WrittenIds \cup {Opaque},
         Consume(tag, form, units, << Loop(n, tagged, type, written) >>)
  PROVE  Wire!Instance(form, units, <<Wire!Inside(n, tagged)>>)
<1> DEFINE l == Loop(n, tagged, type, written)
<1>1. Inner(<<l>>)
  BY LoopIsFrame DEF Inner
<1>2. Bare(<<l>>) = <<Wire!Inside(n, tagged)>>
  BY BareSingle
<1> HIDE DEF l
<1>3. Wire!Instance(form, units, Bare(<<l>>))
  BY <1>1, ConsumeIsInstance DEF l
<1> QED
  BY <1>2, <1>3

(* One instance is inside.                                                 *)
LEMMA SingleInstance ==
  ASSUME TypeOK, frames # <<>>, Top.left > 0,
         NEW tag \in Tags, NEW form, NEW units,
         NEW type \in TypeIds \cup {Opaque},
         NEW written \in WrittenIds \cup {Opaque},
         Consume(tag, form, units, << Loop(1, FALSE, type, written) >>)
  PROVE  Wire!Instance(form, units, <<Wire!Inside(1, FALSE)>>)
<1>1. PICK n \in Int : n = 1
  OBVIOUS
<1>2. Consume(tag, form, units, << Loop(n, FALSE, type, written) >>)
  BY <1>1
<1>3. Wire!Instance(form, units, <<Wire!Inside(n, FALSE)>>)
  BY <1>2, LoopInstance
<1> QED
  BY <1>1, <1>3

(* Nothing inside.                                                         *)
LEMMA LeafInstance ==
  ASSUME TypeOK, frames # <<>>, Top.left > 0,
         NEW tag \in Tags, NEW form, NEW units,
         Consume(tag, form, units, <<>>)
  PROVE  Wire!Instance(form, units, <<>>)
<1>1. Inner(<<>>) /\ Bare(<<>>) = <<>>
  BY DEF Inner, Bare
<1>2. Wire!Instance(form, units, Bare(<<>>))
  BY <1>1, ConsumeIsInstance
<1> QED
  BY <1>1, <1>2

(* (n + 7) / 8 bytes, where that is not negative.                          *)
LEMMA ByteLengths ==
  ASSUME NEW n \in Int, ByteLength(n) >= 0
  PROVE  ByteLength(n) = Wire!BytesOf(n)
BY DEF ByteLength, Wire!BytesOf

(* A flag and a value, or a flag and nothing.                              *)
LEMMA OptionalIsInstance ==
  ASSUME \/ Wire!Instance(4, <<Flag(TRUE)>>, <<Wire!Inside(1, FALSE)>>)
         \/ Wire!Instance(4, <<Flag(FALSE)>>, <<>>)
  PROVE  Wire!Next
<1>1. Flag(TRUE) = Wire!Flag(TRUE) /\ Flag(FALSE) = Wire!Flag(FALSE)
  BY DEF Flag, Wire!Flag
<1>2. Wire!Optional
  BY <1>1 DEF Wire!Optional
<1> QED
  BY <1>2 DEF Wire!Next

LEMMA ReadByTypeIsInstance ==
  ASSUME TypeOK, frames # <<>>, Top.left > 0, NEW tag \in Tags, ReadByType(tag)
  PROVE  Wire!Next
<1> DEFINE t == ItemType(tag)
           w == ItemWritten(tag)
<1>1. t \in TypeIds /\ w \in WrittenIds \cup {Opaque}
  BY ItemTypes DEF ReadByType, ReadArrayItems, ReadStructFields,
     ReadChoiceValue, TryReadOptionalTypeId, ReadBlobValue,
     ReadBitArrayValue, ReadBoolValue, ReadFourCcValue, ReadReal32Value,
     ReadReal64Value, ReadIntValue, IsKind
<1>2. /\ WrittenItem(w) \in WrittenIds \cup {Opaque}
      /\ \A n : WrittenChoice(w, n) \in WrittenIds \cup {Opaque}
      /\ \A n : ChoiceType(t, n) \in TypeIds \cup {Opaque}
      /\ TypeInfos[t].item \in TypeIds \cup {Opaque}
  BY <1>1, MembersTyped, TablesAssumption DEF IsTable, TypeIds
<1> HIDE DEF t, w
<1>3. CASE ReadArrayItems(tag)
  <2>1. PICK n \in Ints :
          Consume(tag, 0, <<Number(n)>>,
                  << Loop(n, FALSE, TypeInfos[t].item, WrittenItem(w)) >>)
    BY <1>3 DEF ReadArrayItems, Expected, t, w
  <2>2. Wire!Instance(0, <<Number(n)>>, <<Wire!Inside(n, FALSE)>>)
    BY <1>2, <2>1, LoopInstance, NumbersAssumption
  <2> QED
    BY <2>2 DEF Wire!Next, Wire!Array, Wire!Number, Number
<1>4. CASE ReadStructFields(tag)
  <2>1. PICK n \in Ints :
          Consume(tag, 5, <<Number(n)>>, << Loop(n, TRUE, t, w) >>)
    BY <1>4 DEF ReadStructFields, Expected, t, w
  <2>2. Wire!Instance(5, <<Number(n)>>, <<Wire!Inside(n, TRUE)>>)
    BY <1>1, <2>1, LoopInstance, NumbersAssumption
  <2> QED
    BY <2>2 DEF Wire!Next, Wire!Struct, Wire!Number, Number
<1>5. CASE ReadChoiceValue(tag)
  <2>1. PICK n \in Ints :
          Consume(tag, 3, <<Number(n)>>,
                  << Loop(1, FALSE, ChoiceType(t, n), WrittenChoice(w, n)) >>)
    BY <1>5 DEF ReadChoiceValue, Expected, t, w
  <2>2. Wire!Instance(3, <<Number(n)>>, <<Wire!Inside(1, FALSE)>>)
    BY <1>2, <2>1, SingleInstance
  <2> QED
    BY <2>2 DEF Wire!Next, Wire!Choice, Wire!Number, Number
<1>6. CASE TryReadOptionalTypeId(tag)
  <2>1. CASE Consume(tag, 4, <<Flag(FALSE)>>, <<>>)
    BY <2>1, LeafInstance, OptionalIsInstance
  <2>2. CASE Consume(tag, 4, <<Flag(TRUE)>>,
                     << Loop(1, FALSE, TypeInfos[t].item, WrittenItem(w)) >>)
    <3>1. Wire!Instance(4, <<Flag(TRUE)>>, <<Wire!Inside(1, FALSE)>>)
      BY <1>2, <2>2, SingleInstance
    <3> QED
      BY <3>1, OptionalIsInstance
  <2> QED
    BY <1>6, <2>1, <2>2 DEF TryReadOptionalTypeId, Expected, t, w
<1>7. CASE ReadBlobValue(tag)
  BY <1>7, LeafInstance DEF ReadBlobValue, Expected, Wire!Next, Wire!Blob,
     Wire!Number, Number, Wire!Bytes, Bytes
<1>8. CASE ReadBitArrayValue(tag)
  BY <1>8, LeafInstance, ByteLengths, NumbersAssumption
  DEF ReadBitArrayValue, Expected, Wire!Next, Wire!BitBlob,
      Wire!Number, Number, Wire!Bytes, Bytes
<1>9. CASE \/ ReadBoolValue(tag) \/ ReadFourCcValue(tag)
           \/ ReadReal32Value(tag) \/ ReadReal64Value(tag)
  BY <1>9, LeafInstance DEF ReadBoolValue, ReadFourCcValue, ReadReal32Value,
     ReadReal64Value, Expected, Wire!Next, Wire!Fixed, Wire!Bytes, Bytes
<1>10. CASE ReadIntValue(tag)
  BY <1>10, LeafInstance DEF ReadIntValue, Expected, Wire!Next, Wire!VInt,
     Wire!Number, Number
<1> QED
  BY <1>3, <1>4, <1>5, <1>6, <1>7, <1>8, <1>9, <1>10 DEF ReadByType

LEMMA SkipInstanceIsInstance ==
  ASSUME TypeOK, frames # <<>>, Top.left > 0, NEW tag \in Tags,
         SkipInstance(tag)
  PROVE  Wire!Next
<1> DEFINE w == ItemWritten(tag)
<1>1. /\ w \in WrittenIds \cup {Opaque}
      /\ WrittenItem(w) \in WrittenIds \cup {Opaque}
      /\ \A n : WrittenChoice(w, n) \in WrittenIds \cup {Opaque}
  BY ItemTypes, MembersTyped
<1> HIDE DEF w
<1>2. CASE SkipArray(tag)
  <2>1. PICK n \in Ints :
          Consume(tag, 0, <<Number(n)>>,
                  << Loop(n, FALSE, Opaque, WrittenItem(w)) >>)
    BY <1>2 DEF SkipArray, w
  <2>2. Wire!Instance(0, <<Number(n)>>, <<Wire!Inside(n, FALSE)>>)
    BY <1>1, <2>1, LoopInstance, NumbersAssumption
  <2> QED
    BY <2>2 DEF Wire!Next, Wire!Array, Wire!Number, Number
<1>3. CASE SkipStruct(tag)
  <2>1. PICK n \in Ints :
          Consume(tag, 5, <<Number(n)>>, << Loop(n, TRUE, Opaque, w) >>)
    BY <1>3 DEF SkipStruct, w
  <2>2. Wire!Instance(5, <<Number(n)>>, <<Wire!Inside(n, TRUE)>>)
    BY <1>1, <2>1, LoopInstance, NumbersAssumption
  <2> QED
    BY <2>2 DEF Wire!Next, Wire!Struct, Wire!Number, Number
<1>4. CASE SkipChoice(tag)
  <2>1. PICK n \in Ints :
          Consume(tag, 3, <<Number(n)>>,
                  << Loop(1, FALSE, Opaque, WrittenChoice(w, n)) >>)
    BY <1>4 DEF SkipChoice, w
  <2>2. Wire!Instance(3, <<Number(n)>>, <<Wire!Inside(1, FALSE)>>)
    BY <1>1, <2>1, SingleInstance
  <2> QED
    BY <2>2 DEF Wire!Next, Wire!Choice, Wire!Number, Number
<1>5. CASE SkipOptional(tag)
  <2>1. CASE Consume(tag, 4, <<Flag(FALSE)>>, <<>>)
    BY <2>1, LeafInstance, OptionalIsInstance
  <2>2. CASE Consume(tag, 4, <<Flag(TRUE)>>,
                     << Loop(1, FALSE, Opaque, WrittenItem(w)) >>)
    <3>1. Wire!Instance(4, <<Flag(TRUE)>>, <<Wire!Inside(1, FALSE)>>)
      BY <1>1, <2>2, SingleInstance
    <3> QED
      BY <3>1, OptionalIsInstance
  <2> QED
    BY <1>5, <2>1, <2>2 DEF SkipOptional, w
<1>6. CASE SkipBlob(tag)
  BY <1>6, LeafInstance DEF SkipBlob, Wire!Next, Wire!Blob, Wire!Number, Number,
     Wire!Bytes, Bytes
<1>7. CASE SkipBitBlob(tag)
  BY <1>7, LeafInstance, ByteLengths, NumbersAssumption
  DEF SkipBitBlob, Wire!Next, Wire!BitBlob, Wire!Number, Number,
      Wire!Bytes, Bytes
<1>8. CASE SkipFixed(tag)
  BY <1>8, LeafInstance DEF SkipFixed, Wire!Next, Wire!Fixed, Wire!Bytes, Bytes
<1>9. CASE SkipVInt(tag)
  BY <1>9, LeafInstance DEF SkipVInt, Wire!Next, Wire!VInt, Wire!Number, Number
<1> QED
  BY <1>2, <1>3, <1>4, <1>5, <1>6, <1>7, <1>8, <1>9 DEF SkipInstance

(* Steps that read nothing and leave the loops alone.                      *)
LEMMA StutterStep ==
  ASSUME UNCHANGED <<read, frames, phase, events>>
  PROVE  UNCHANGED Wire!vars
BY DEF Wire!vars, Untyped, PhaseIndex

LEMMA StartBegins ==
  ASSUME NEW type, NEW written, Start(type, written)
  PROVE  Wire!Begin
<1>1. Untyped = <<>>
  BY DEF Start, Untyped
<1>2. Untyped' = <<Wire!Inside(1, FALSE)>>
  <2>1. PICK n \in Int : n = 1
    OBVIOUS
  <2>2. Bare(<< Loop(n, FALSE, type, written) >>) = <<Wire!Inside(n, FALSE)>>
    BY BareSingle
  <2>3. Untyped' = Bare(<< Loop(n, FALSE, type, written) >>)
    BY <2>1 DEF Start, Untyped, Bare
  <2> QED
    BY <2>1, <2>2, <2>3
<1> QED
  BY <1>1, <1>2 DEF Start, Wire!Begin, PhaseIndex

LEMMA EndLoopCloses ==
  ASSUME TypeOK, EndLoop
  PROVE  Wire!Close
<1>1. /\ frames \in Seq(Frames) /\ Len(frames) \in Nat /\ Len(frames) > 1
      /\ Len(frames') = Len(frames) - 1
      /\ \A i \in 1 .. Len(frames) - 1 : frames'[i] = frames[i]
  BY DEF TypeOK, EndLoop
<1>2. /\ Len(Untyped) = Len(frames)
      /\ Untyped # <<>> /\ Untyped[Len(Untyped)].left = 0
  BY <1>1 DEF Untyped, EndLoop, Top
<1>3. Untyped' = SubSeq(Untyped, 1, Len(Untyped) - 1)
  BY <1>1, <1>2 DEF Untyped
<1> QED
  BY <1>1, <1>2, <1>3 DEF EndLoop, Wire!Close, Wire!Innermost, PhaseIndex

LEMMA EndInstanceCloses ==
  ASSUME TypeOK, EndInstance
  PROVE  Wire!Close
<1>1. /\ Len(Untyped) = 1 /\ Untyped # <<>> /\ Untyped[1].left = 0
      /\ Untyped' = <<>> /\ SubSeq(Untyped, 1, 0) = <<>>
  BY DEF EndInstance, Untyped, Top
<1>2. Len(events') = IF phase = "body" THEN Len(events) + 1 ELSE Len(events)
  BY DEF EndInstance, TypeOK
<1>3. 3 * Len(events') + PhaseIndex' = 3 * Len(events) + PhaseIndex + 1
  <2>1. Len(events) \in Nat /\ phase \in Phases /\ phase' = After(phase)
    BY DEF TypeOK, EndInstance
  <2>2. CASE phase = "body"
    BY <1>2, <2>1, <2>2 DEF After, PhaseIndex
  <2>3. CASE phase # "body"
    BY <1>2, <2>1, <2>3 DEF After, PhaseIndex, Phases
  <2> QED
    BY <2>2, <2>3
<1> QED
  BY <1>1, <1>3 DEF EndInstance, Wire!Close, Wire!Innermost

LEMMA StepIsWireStep ==
  ASSUME TypeOK, [Next]_vars
  PROVE  [Wire!Next]_(Wire!vars)
<1>1. CASE UNCHANGED vars
  BY <1>1, StutterStep DEF vars
<1>2. CASE StartDelta \/ StartId \/ StartBody
  BY <1>2, StartBegins DEF StartDelta, StartId, StartBody, Wire!Next
<1>3. CASE UnknownEvent \/ EndOfStream
  BY <1>3, StutterStep DEF UnknownEvent, EndOfStream, Fail
<1>4. CASE ReadItem
  <2>1. CASE Unreadable
    BY <2>1, StutterStep DEF Unreadable, Fail
  <2>2. ASSUME NEW tag \in Tags, UnexpectedForm(tag) \/ UnknownForm(tag)
        PROVE  UNCHANGED Wire!vars
    BY <2>2, StutterStep DEF UnexpectedForm, UnknownForm, Fail
  <2>3. ASSUME NEW tag \in Tags, ReadByType(tag) \/ SkipInstance(tag)
        PROVE  Wire!Next
    BY <1>4, <2>3, ReadByTypeIsInstance, SkipInstanceIsInstance DEF ReadItem
  <2> QED
    BY <1>4, <2>1, <2>2, <2>3 DEF ReadItem
<1>5. CASE EndLoop \/ EndInstance
  BY <1>5, EndLoopCloses, EndInstanceCloses DEF Wire!Next
<1> QED
  BY <1>1, <1>2, <1>3, <1>4, <1>5 DEF Next

(* Every stream is cut at the same places whatever the table knows of the  *)
(* types in it.                                                            *)
THEOREM WireImplemented == Spec => ImplementsWire
<1>1. Init => Wire!Init
  BY DEF Init, Wire!Init, Untyped, PhaseIndex
<1>2. TypeOK /\ [Next]_vars => [Wire!Next]_(Wire!vars)
  BY StepIsWireStep
<1> QED
  BY <1>1, <1>2, TypeCorrect, PTL DEF Spec, ImplementsWire, Wire!Spec

=============================================================================
