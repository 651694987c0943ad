--------------------------- MODULE BlizzardStream ---------------------------
(***************************************************************************)
(* What decoding a bit-packed event stream means: _decode_event_stream of  *)
(* the Python protocol files, over the bits of a stream and a position in  *)
(* it.  A step yields one event; the instance of a type is a recursive     *)
(* function of type and position, as decoder.instance is: every type is    *)
(* made of types before it.                                                *)
(*                                                                         *)
(* An instance is flattened to the sequence of what is read for it, in     *)
(* the order of the table: numbers, lengths and tags as numbers, flags as  *)
(* BOOLEAN, blobs as sequences of bytes, bit arrays by where they are.     *)
(***************************************************************************)
EXTENDS BitStream

CONSTANTS
  TypeInfos,           \* typeinfos: a record of each type id
  EventTypes,          \* game_event_types: a type id for some event ids
  SVarUint32TypeId,    \* svaruint32_typeid
  ReplayUserIdTypeId,  \* replay_userid_typeid
  EventIdTypeId        \* game_eventid_typeid

VARIABLES
  data,      \* the contents
  pos,       \* decoder.used_bits()
  gameloop,  \* gameloop
  events,    \* the events yielded
  status     \* "decoding", "done", or "corrupted" once it has raised

-----------------------------------------------------------------------------
(* Instances.                                                              *)

Corrupted   == [ok |-> FALSE, at |-> 0, values |-> <<>>]
Read(p, vs) == [ok |-> TRUE, at |-> p, values |-> vs]

Has(stream, p, n) == p + n <= Size(stream)

Number(stream, p, type) ==
  type.min + Natural(BitsAt(stream, p, type.bits), type.bits)

Bytes(stream, p, n) ==
  SubSeq(stream, p \div ByteBits + 1, p \div ByteBits + n)

(* What is read behind something else.                                     *)
Then(first, rest) ==
  IF first.ok /\ rest.ok THEN Read(rest.at, first.values \o rest.values)
                         ELSE Corrupted

(* The instances of some types, one behind the other.                      *)
Listed(instance, types, p) ==
  LET upto[i \in 0 .. Len(types)] ==
        IF i = 0 THEN Read(p, <<>>)
        ELSE LET before == upto[i - 1]
             IN Then(before, instance[<<types[i], before.at>>])
  IN upto[Len(types)]

(* The instance of a type, from those of the types before it.              *)
Instance(stream, instance, type, p) ==
  LET n     == Number(stream, p, type)
      after == p + type.bits
      start == Align(after)
      Holds(types) == Then(Read(after, <<n>>), Listed(instance, types, after))
  IN CASE type.kind = "null"   -> Read(p, <<>>)
       [] type.kind = "struct" -> Listed(instance, type.fields, p)
       [] type.kind \notin {"null", "struct"} ->
     IF ~Has(stream, p, type.bits) THEN Corrupted
     ELSE CASE type.kind = "int"      -> Read(after, <<n>>)
            [] type.kind = "bool"     -> Read(after, <<n # 0>>)
            [] type.kind = "array"    -> Holds([i \in 1 .. n |-> type.item])
            [] type.kind = "optional" ->
                 Holds(IF n # 0 THEN <<type.item>> ELSE <<>>)
            [] type.kind = "choice"   ->
                 IF n \in DOMAIN type.choices THEN Holds(<<type.choices[n]>>)
                 ELSE Corrupted
            [] type.kind = "blob"     ->
                 IF Has(stream, start, n * ByteBits)
                 THEN Read(start + n * ByteBits, <<n, Bytes(stream, start, n)>>)
                 ELSE Corrupted
            [] type.kind = "bitArray" ->
                 IF Has(stream, after, n)
                 THEN Read(after + n, <<n, [from |-> after, bits |-> n]>>)
                 ELSE Corrupted

(* decoder.instance: what is read for a type at a position, and where it   *)
(* ends.                                                                   *)
Decoder(stream) ==
  LET instance[x \in (DOMAIN TypeInfos) \X Nat] ==
        Instance(stream, instance, TypeInfos[x[1]], x[2])
  IN instance

Instances(stream, types, p) == Listed(Decoder(stream), types, p)

-----------------------------------------------------------------------------
(* The stream.                                                             *)

(* A number is read as a choice among numbers, as a struct of one, or as   *)
(* it is: its value is what is read last.                                  *)
Value(instance) == instance.values[Len(instance.values)]

(* An event from position p, if there is a whole one.                      *)
Event(stream, p) ==
  LET delta == Instances(stream, <<SVarUint32TypeId>>, p)
      user  == Instances(stream, <<ReplayUserIdTypeId>>, delta.at)
      id    == Instances(stream, <<EventIdTypeId>>, user.at)
      known == Value(id) \in DOMAIN EventTypes
      body  == Instances(stream, <<EventTypes[Value(id)]>>, id.at)
  IN IF delta.ok /\ user.ok /\ id.ok /\ known /\ body.ok
     THEN [ok |-> TRUE, delta |-> Value(delta), user |-> Value(user),
           id |-> Value(id), values |-> body.values, end |-> Align(body.at)]
     ELSE [ok |-> FALSE]

Init ==
  /\ pos = 0
  /\ gameloop = 0
  /\ events = <<>>
  /\ status = "decoding"

Yield ==
  LET e == Event(data, pos) IN
  /\ status = "decoding" /\ pos < Size(data)
  /\ e.ok
  /\ gameloop' = gameloop + e.delta
  /\ events' = Append(events,
       [id |-> e.id, gameloop |-> gameloop', userId |-> e.user,
        values |-> e.values, bits |-> e.end - pos])
  /\ pos' = e.end
  /\ UNCHANGED <<data, status>>

(* CorruptedError or TruncatedError.                                       *)
Raise ==
  /\ status = "decoding" /\ pos < Size(data)
  /\ ~Event(data, pos).ok
  /\ status' = "corrupted"
  /\ UNCHANGED <<data, pos, gameloop, events>>

EndOfStream ==
  /\ status = "decoding" /\ pos >= Size(data)
  /\ status' = "done"
  /\ UNCHANGED <<data, pos, gameloop, events>>

Next == Yield \/ Raise \/ EndOfStream

Spec == Init /\ [][Next]_<<data, pos, gameloop, events, status>>

=============================================================================
