------------------------------ MODULE UnitLinks ------------------------------
(***************************************************************************)
(* Unit tags and the links between tracker events: UnitTag of              *)
(* S2Protocol/S2ProtocolVersion.cs, SetTrackerEventUnitIndexes of          *)
(* ReplayDecoder.cs, SetTrackerEventsUnitConnections of                    *)
(* Parser/Parse.Tracker.cs and OnDeserialized of Sc2Replay.cs.             *)
(*                                                                         *)
(* Two passes over the decoded events compute what no replay stores: the   *)
(* 32-bit tag of each unit event, and references from the birth of a unit  *)
(* to its completion, its death and, for a death, to its killer.  JSON     *)
(* leaves both out, and they are computed again when it is read back.      *)
(* Between, a caller may add and remove events, which nobody links.        *)
(*                                                                         *)
(* A unit is known by an index and a recycle count, of 14 and 18 bits.     *)
(***************************************************************************)
EXTENDS Integers, Sequences

CONSTANTS
  IndexSpan,    \* 2^14
  RecycleSpan,  \* 2^18
  Tags,         \* the units of a replay: [index |-> , recycle |-> ]
  NoTag,        \* no killer
  MaxEvents     \* bound: events in a replay

ASSUME ConstantsAssumption ==
  /\ IndexSpan \in Nat \ {0, 1} /\ RecycleSpan \in Nat \ {0}
  /\ Tags \subseteq [index : 0 .. IndexSpan - 1, recycle : 0 .. RecycleSpan - 1]
  /\ NoTag \notin Tags
  /\ MaxEvents \in Nat

VARIABLES
  heap,    \* the event objects
  list,    \* _items of the tracker events: indices into heap
  linked   \* nothing was added or removed since the links were set

vars == <<heap, list, linked>>

Kinds == {"born", "init", "died", "done", "owner", "typeChange"}
None  == 0

(* The references an event may have: births to the death and completion of *)
(* the unit, deaths to the birth of the killer.                            *)
Links(died, done, killerBorn, killerInit) ==
  [died |-> died, done |-> done,
   killerBorn |-> killerBorn, killerInit |-> killerInit]

(* An event as it is decoded or read from JSON.                            *)
Raw(kind, tag, killer) ==
  [kind |-> kind, tag |-> tag, killer |-> killer, unitIndex |-> 0,
   links |-> Links(None, None, None, None)]

RawEvents ==
  { Raw(k, t, NoTag) : k \in Kinds, t \in Tags }
    \cup { Raw("died", t, k) : t \in Tags, k \in Tags }

-----------------------------------------------------------------------------
(* Unit tags.                                                              *)

Word == IndexSpan * RecycleSpan

Words == (Word \div 2) - Word .. (Word \div 2) - 1

(* The value of a signed word.                                             *)
Signed(x) == IF x % Word < Word \div 2 THEN x % Word ELSE (x % Word) - Word

(* Bug: the index is shifted by a bit less.                                *)
UnitTagNarrow(index, recycle) == Signed(index * (RecycleSpan \div 2) + recycle)

(* (index << 18) + recycle                                                 *)
UnitTag(index, recycle) == Signed(index * RecycleSpan + recycle)

(* (tag >> 18) & 0x3FFF: the sign is shifted in, and masked.               *)
UnitTagIndex(tag) == (tag \div RecycleSpan) % IndexSpan

(* tag & 0x3FFFF                                                           *)
UnitTagRecycle(tag) == tag % RecycleSpan

-----------------------------------------------------------------------------
(* SetTrackerEventUnitIndexes.                                             *)

Indexed == {"born", "init", "died", "done", "owner"}

InList(e, l) == \E i \in DOMAIN l : l[i] = e

SetUnitIndexes(h, l) ==
  [e \in DOMAIN h |->
     IF InList(e, l) /\ h[e].kind \in Indexed
       THEN [h[e] EXCEPT !.unitIndex = UnitTag(h[e].tag.index,
                                           h[e].tag.recycle)]
       ELSE h[e]]

-----------------------------------------------------------------------------
(* SetTrackerEventsUnitConnections.                                        *)

(* Where the events of a kind are that have the same tag, as a word or as  *)
(* a pair: the keys of the dictionaries.                                   *)
ByIndex(h, l, kind, index) ==
  { i \in DOMAIN l : h[l[i]].kind = kind /\ h[l[i]].unitIndex = index }
ByTag(h, l, kind, tag) ==
  { i \in DOMAIN l : h[l[i]].kind = kind /\ h[l[i]].tag = tag }

First(numbers) == CHOOSE i \in numbers : \A j \in numbers : i <= j

(* TryAdd and TryGetValue: the dictionary keeps the first.                 *)
Lookup(l, found) == IF found = {} THEN None ELSE l[First(found)]

(* Bug: the killers are looked up by the tag of the victim.                *)
KillersOfVictim(h, l, e) ==
  Links(None, None, Lookup(l, ByTag(h, l, "born", e.tag)),
                    Lookup(l, ByTag(h, l, "init", e.tag)))

Killers(h, l, e) ==
  Links(None, None, Lookup(l, ByTag(h, l, "born", e.killer)),
                    Lookup(l, ByTag(h, l, "init", e.killer)))

LinksOf(h, l, e) ==
  LET died == Lookup(l, ByIndex(h, l, "died", e.unitIndex))
      done == Lookup(l, ByIndex(h, l, "done", e.unitIndex))
  IN CASE e.kind = "born" -> Links(died, None, None, None)
       [] e.kind = "init" -> Links(died, done, None, None)
       [] e.kind = "died" /\ e.killer # NoTag -> Killers(h, l, e)
       [] OTHER -> e.links

Connect(h, l) ==
  [e \in DOMAIN h |-> IF InList(e, l)
                        THEN [h[e] EXCEPT !.links = LinksOf(h, l, h[e])]
                        ELSE h[e]]

(* What DecodeAsync does to the tracker events it has decoded.             *)
Link(h, l) == Connect(SetUnitIndexes(h, l), l)

(* Bug: OnDeserialized leaves the unit indexes to whoever reads them.      *)
ConnectOnly(h, l) == Connect(h, l)

(* OnDeserialized.                                                         *)
Relink(h, l) == Connect(SetUnitIndexes(h, l), l)

-----------------------------------------------------------------------------
(* A replay.                                                               *)

Numbers(n) == [i \in 1 .. n |-> i]

(* The tracker events are decoded and linked.                              *)
Decode ==
  /\ heap = <<>>
  /\ \E n \in 1 .. MaxEvents : \E stream \in [1 .. n -> RawEvents] :
       /\ heap' = Link(stream, Numbers(n))
       /\ list' = Numbers(n)
  /\ linked' = TRUE

(* The caller adds an event, by the store or one of its views.             *)
AddEvent ==
  /\ heap # <<>> /\ Len(heap) < MaxEvents
  /\ \E e \in RawEvents : heap' = Append(heap, e)
  /\ list' = Append(list, Len(heap) + 1)
  /\ linked' = FALSE

(* The caller removes one.                                                 *)
RemoveEvent ==
  /\ \E i \in DOMAIN list :
       list' = SubSeq(list, 1, i - 1) \o SubSeq(list, i + 1, Len(list))
  /\ linked' = FALSE
  /\ UNCHANGED heap

(* What JSON has of the events of a list, in its order.                    *)
Serialized(h, l) ==
  [i \in DOMAIN l |-> Raw(h[l[i]].kind, h[l[i]].tag, h[l[i]].killer)]

(* The replay is written as JSON and read: new objects, without links.     *)
RoundTrip ==
  /\ heap # <<>>
  /\ heap' = Relink(Serialized(heap, list), Numbers(Len(list)))
  /\ list' = Numbers(Len(list))
  /\ linked' = TRUE

Init ==
  /\ heap = <<>>
  /\ list = <<>>
  /\ linked = TRUE

Next == Decode \/ AddEvent \/ RemoveEvent \/ RoundTrip

Spec == Init /\ [][Next]_vars

-----------------------------------------------------------------------------
(* Properties.                                                             *)

TypeOK ==
  /\ list \in Seq(DOMAIN heap)
  /\ linked \in BOOLEAN
  /\ heap \in Seq([kind : Kinds, tag : Tags, killer : Tags \cup {NoTag},
                   unitIndex : Words,
                   links : [died : 0 .. Len(heap), done : 0 .. Len(heap),
                            killerBorn : 0 .. Len(heap),
                            killerInit : 0 .. Len(heap)]])

(* The link from an event leads to the first event of a kind about a unit, *)
(* and to nothing only if there is no such event.                          *)
LeadsTo(link, kind, tag) ==
  LET about == { i \in DOMAIN list : /\ heap[list[i]].kind = kind
                                     /\ heap[list[i]].tag = tag }
  IN IF about = {} THEN link = None
     ELSE \E i \in about : link = list[i] /\ \A j \in about : i <= j

(* Births lead to the completion and the death of the same unit, known by  *)
(* its whole tag, whatever the tags of other units are and wherever in the *)
(* stream the events stand.                                                *)
LivesLinked ==
  linked => \A i \in DOMAIN list :
    LET e == heap[list[i]]
    IN /\ e.kind \in {"born", "init"} => LeadsTo(e.links.died, "died", e.tag)
       /\ e.kind = "init" => LeadsTo(e.links.done, "done", e.tag)

(* Deaths lead to the birth of the killer, if the killer is known.         *)
KillersLinked ==
  linked => \A i \in DOMAIN list :
    LET e == heap[list[i]]
    IN e.kind = "died" =>
         IF e.killer = NoTag
           THEN e.links.killerBorn = None /\ e.links.killerInit = None
           ELSE /\ LeadsTo(e.links.killerBorn, "born", e.killer)
                /\ LeadsTo(e.links.killerInit, "init", e.killer)

(* A replay nobody changed is the same after it has been through JSON,     *)
(* links and all.                                                          *)
RoundTripExact == [][linked /\ linked' /\ heap # <<>> => heap' = heap]_vars

(* The inductive invariant of the proofs: a replay nobody changed is what  *)
(* the two passes make of its events.                                      *)
IInv ==
  /\ TypeOK
  /\ \A e \in DOMAIN heap : heap[e].killer # NoTag => heap[e].kind = "died"
  /\ linked => /\ list = Numbers(Len(heap))
               /\ heap = Link(Serialized(heap, list), list)

(* What the comment on the UnitIndex of every unit event says: it is the   *)
(* tag of the unit.                                                        *)
UnitIndexConverted ==
  linked => \A i \in DOMAIN list :
    LET e == heap[list[i]]
    IN e.unitIndex = UnitTag(e.tag.index, e.tag.recycle)

=============================================================================
