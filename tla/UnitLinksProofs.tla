--------------------------- MODULE UnitLinksProofs ---------------------------
(***************************************************************************)
(* Theorems about UnitLinks, for words of any width and replays of any     *)
(* length, and their proofs.                                               *)
(***************************************************************************)
EXTENDS UnitLinks, FiniteSets, FiniteSetTheorems, WellFoundedInduction, TLAPS

(* Division with remainder is unique.                                      *)
LEMMA DivisionUnique ==
  ASSUME NEW b \in Nat \ {0}, NEW q \in Int, NEW r \in 0 .. b - 1
  PROVE  (q * b + r) \div b = q /\ (q * b + r) % b = r
  OBVIOUS

(* The tag of a unit, as a signed word, is its index and recycle count     *)
(* side by side, less a word if that is in the upper half.                 *)
LEMMA TagAsWord ==
  ASSUME NEW i \in 0 .. IndexSpan - 1, NEW r \in 0 .. RecycleSpan - 1
  PROVE  \/ UnitTag(i, r) = i * RecycleSpan + r
         \/ UnitTag(i, r) = (i - IndexSpan) * RecycleSpan + r
<1> DEFINE x == i * RecycleSpan + r
<1>1. IndexSpan \in Nat \ {0} /\ RecycleSpan \in Nat \ {0}
  BY ConstantsAssumption DEF ConstantsAssumption
<1>2. Word \in Nat \ {0}
  BY <1>1 DEF Word
<1>3. x \in 0 .. Word - 1
  <2>1. i + 1 <= IndexSpan /\ i \in Nat /\ r \in Nat /\ r + 1 <= RecycleSpan
    BY <1>1
  <2>2. (i + 1) * RecycleSpan <= IndexSpan * RecycleSpan
    BY <1>1, <2>1
  <2>3. (i + 1) * RecycleSpan = i * RecycleSpan + RecycleSpan
    BY <1>1, <2>1
  <2>4. i * RecycleSpan \in Nat
    BY <1>1, <2>1
  <2> QED
    BY <1>1, <2>1, <2>2, <2>3, <2>4 DEF Word
<1>4. (0 * Word + x) % Word = x
  BY <1>2, <1>3, DivisionUnique
<1>5. x % Word = x
  BY <1>2, <1>3, <1>4
<1>6. UnitTag(i, r) = x \/ UnitTag(i, r) = x - Word
  BY <1>5 DEF UnitTag, Signed
<1>7. x - Word = (i - IndexSpan) * RecycleSpan + r
  BY <1>1 DEF Word
<1> QED
  BY <1>6, <1>7

(* Index and recycle count can be read off a tag again, also where the sum *)
(* of UnitTag overflows into the sign: (tag >> 18) & 0x3FFF and            *)
(* tag & 0x3FFFF undo (index << 18) + recycle.                             *)
THEOREM TagReversible ==
  ASSUME NEW i \in 0 .. IndexSpan - 1, NEW r \in 0 .. RecycleSpan - 1
  PROVE  /\ UnitTagIndex(UnitTag(i, r)) = i
         /\ UnitTagRecycle(UnitTag(i, r)) = r
<1>1. IndexSpan \in Nat \ {0} /\ RecycleSpan \in Nat \ {0}
  BY ConstantsAssumption DEF ConstantsAssumption
<1>2. CASE UnitTag(i, r) = i * RecycleSpan + r
  <2> i \in Int
    BY <1>1
  <2>3. /\ (i * RecycleSpan + r) \div RecycleSpan = i
        /\ (i * RecycleSpan + r) % RecycleSpan = r
    BY <1>1, DivisionUnique
  <2>1. /\ UnitTag(i, r) \div RecycleSpan = i
        /\ UnitTag(i, r) % RecycleSpan = r
    BY <1>2, <2>3, Zenon
  <2>2. (0 * IndexSpan + i) % IndexSpan = i
    BY <1>1, DivisionUnique
  <2> QED
    BY <1>1, <2>1, <2>2 DEF UnitTagIndex, UnitTagRecycle
<1>3. CASE UnitTag(i, r) = (i - IndexSpan) * RecycleSpan + r
  <2> DEFINE q == i - IndexSpan
  <2>0. q \in Int
    BY <1>1
  <2>4. /\ (q * RecycleSpan + r) \div RecycleSpan = q
        /\ (q * RecycleSpan + r) % RecycleSpan = r
    <3> HIDE DEF q
    <3> QED
      BY <1>1, <2>0, DivisionUnique
  <2>1. /\ UnitTag(i, r) \div RecycleSpan = i - IndexSpan
        /\ UnitTag(i, r) % RecycleSpan = r
    BY <1>3, <2>4, Zenon
  <2>2. ((-1) * IndexSpan + i) % IndexSpan = i
    BY <1>1, DivisionUnique
  <2>3. (i - IndexSpan) % IndexSpan = i
    BY <1>1, <2>2
  <2> QED
    BY <2>1, <2>3 DEF UnitTagIndex, UnitTagRecycle
<1> QED
  BY <1>2, <1>3, TagAsWord

(* No two units of a replay have the same tag: a dictionary may use it in  *)
(* place of the pair.                                                      *)
THEOREM TagsDistinct ==
  ASSUME NEW t \in Tags, NEW u \in Tags,
         UnitTag(t.index, t.recycle) = UnitTag(u.index, u.recycle)
  PROVE  t = u
<1>1. /\ t \in [index : 0 .. IndexSpan - 1, recycle : 0 .. RecycleSpan - 1]
      /\ u \in [index : 0 .. IndexSpan - 1, recycle : 0 .. RecycleSpan - 1]
  BY ConstantsAssumption DEF ConstantsAssumption
<1>2. t.index = u.index /\ t.recycle = u.recycle
  BY <1>1, TagReversible
<1> QED
  BY <1>1, <1>2

-----------------------------------------------------------------------------
(* The first of the events.                                                *)

(* The least of some natural numbers: of those below one of them, finitely *)
(* many, it has the smallest set of numbers below itself.                  *)
LEMMA Least ==
  ASSUME NEW S, S \subseteq Nat, S # {}
  PROVE  \E i \in S : \A j \in S : i <= j
<1>1. PICK k \in S : TRUE
  OBVIOUS
<1> DEFINE F == S \cap 0 .. k
           Below(i) == { j \in F : j < i }
           T == { Below(i) : i \in F }
<1>2. IsFiniteSet(F)
  <2>1. IsFiniteSet(0 .. k)
    BY FS_Interval
  <2> QED
    BY <2>1, FS_Subset
<1>3. T \subseteq FiniteSubsetsOf(F)
  <2> SUFFICES ASSUME NEW i \in F PROVE Below(i) \in FiniteSubsetsOf(F)
    OBVIOUS
  <2>1. Below(i) \in SUBSET F
    OBVIOUS
  <2>2. IsFiniteSet(Below(i))
    <3> HIDE DEF F, Below
    <3> QED
      BY <1>2, <2>1, FS_Subset
  <2> HIDE DEF F, Below
  <2> QED
    BY <2>1, <2>2 DEF FiniteSubsetsOf
<1>4. T # {}
  <2>1. k \in F
    BY <1>1
  <2>2. Below(k) \in T
    BY <2>1
  <2> QED
    BY <2>2
<1>5. \E x \in T : \A y \in T : <<y, x>> \notin StrictSubsetOrdering(F)
  <2> HIDE DEF T
  <2> QED
    BY <1>3, <1>4, WFMin, FS_StrictSubsetOrderingWellFounded, Zenon
<1>6. PICK i \in F : \A j \in F :
        <<Below(j), Below(i)>> \notin StrictSubsetOrdering(F)
  BY <1>5
<1>7. \A j \in F : i <= j
  <2> SUFFICES ASSUME NEW j \in F, j < i PROVE FALSE
    OBVIOUS
  <2>1. Below(j) \subseteq Below(i) /\ j \in Below(i) /\ j \notin Below(j)
    OBVIOUS
  <2>2. <<Below(j), Below(i)>> \in StrictSubsetOrdering(F)
    BY <2>1 DEF StrictSubsetOrdering
  <2> QED
    BY <1>6, <2>2
<1> QED
  BY <1>1, <1>7

LEMMA FirstIsLeast ==
  ASSUME NEW S, S \subseteq Nat, S # {}
  PROVE  First(S) \in S /\ \A j \in S : First(S) <= j
BY Least DEF First

-----------------------------------------------------------------------------
(* The two passes over the events of a stream.                             *)

LEMMA TagInWords ==
  ASSUME NEW t \in Tags
  PROVE  UnitTag(t.index, t.recycle) \in Words /\ 0 \in Words
<1>1. IndexSpan \in Nat \ {0, 1} /\ RecycleSpan \in Nat \ {0}
      /\ t.index \in Int /\ t.recycle \in Int
  BY ConstantsAssumption DEF ConstantsAssumption
<1> DEFINE x == t.index * RecycleSpan + t.recycle
<1>2. Word \in Nat \ {0, 1}
  BY <1>1 DEF Word
<1>3. x \in Int
  BY <1>1
<1>4. x % Word \in 0 .. Word - 1
  <2> HIDE DEF x
  <2> QED
    BY <1>2, <1>3
<1>5. Word \div 2 \in Nat /\ Word \div 2 >= 1 /\ Word \div 2 < Word
  BY <1>2
<1>6. Signed(x) \in Words
  <2> HIDE DEF x
  <2> QED
    BY <1>2, <1>4, <1>5 DEF Signed, Words
<1> QED
  BY <1>2, <1>5, <1>6 DEF UnitTag, Words

LEMMA RawFields ==
  ASSUME NEW e \in RawEvents
  PROVE  /\ e = Raw(e.kind, e.tag, e.killer)
         /\ e.kind \in Kinds /\ e.tag \in Tags
         /\ e.killer \in Tags \cup {NoTag}
         /\ e.killer # NoTag => e.kind = "died"
         /\ e.unitIndex = 0
         /\ e.links = Links(None, None, None, None)
BY DEF RawEvents, Raw, Kinds

(* Where the events of a kind about a unit are in a stream.                *)
About(h, kind, tag) ==
  { i \in DOMAIN h : h[i].kind = kind /\ h[i].tag = tag }

LEMMA Positions ==
  ASSUME NEW n \in Nat
  PROVE  /\ Numbers(n) \in Seq(1 .. n) /\ Len(Numbers(n)) = n
         /\ DOMAIN Numbers(n) = 1 .. n
         /\ \A i \in 1 .. n : Numbers(n)[i] = i /\ InList(i, Numbers(n))
BY DEF Numbers, InList

(* The first pass: every event that is indexed has its tag as a word.      *)
LEMMA IndexPass ==
  ASSUME NEW n \in Nat, NEW h \in [1 .. n -> RawEvents], NEW e \in 1 .. n
  PROVE  /\ DOMAIN SetUnitIndexes(h, Numbers(n)) = 1 .. n
         /\ SetUnitIndexes(h, Numbers(n))[e] =
              [h[e] EXCEPT !.unitIndex =
                 IF h[e].kind \in Indexed
                   THEN UnitTag(h[e].tag.index, h[e].tag.recycle) ELSE 0]
<1>1. InList(e, Numbers(n))
  BY Positions
<1>2. h[e] \in RawEvents
  OBVIOUS
<1>3. h[e] = [h[e] EXCEPT !.unitIndex = 0]
  BY <1>2, RawFields DEF Raw
<1>4. DOMAIN h = 1 .. n
  OBVIOUS
<1> QED
  BY <1>1, <1>3, <1>4 DEF SetUnitIndexes

(* After it, looking for a word finds the same events as looking for the   *)
(* pair, because no two pairs have the same word.                          *)
LEMMA SameFound ==
  ASSUME NEW n \in Nat, NEW h \in [1 .. n -> RawEvents], NEW t \in Tags,
         NEW kind \in {"died", "done"}
  PROVE  ByIndex(SetUnitIndexes(h, Numbers(n)), Numbers(n), kind,
                 UnitTag(t.index, t.recycle)) = About(h, kind, t)
<1> DEFINE g == SetUnitIndexes(h, Numbers(n))
<1>1. /\ DOMAIN Numbers(n) = 1 .. n /\ DOMAIN h = 1 .. n
      /\ \A i \in 1 .. n : Numbers(n)[i] = i
  BY Positions
<1>2. ASSUME NEW i \in 1 .. n
      PROVE  g[i].kind = kind /\ g[i].unitIndex = UnitTag(t.index, t.recycle)
               <=> h[i].kind = kind /\ h[i].tag = t
  <2>1. h[i] \in RawEvents
    OBVIOUS
  <2>2. h[i].tag \in Tags
    BY <2>1, RawFields
  <2>3. g[i] = [h[i] EXCEPT !.unitIndex =
                  IF h[i].kind \in Indexed
                    THEN UnitTag(h[i].tag.index, h[i].tag.recycle) ELSE 0]
    BY IndexPass
  <2>4. /\ g[i].kind = h[i].kind
        /\ h[i].kind = kind
             => g[i].unitIndex = UnitTag(h[i].tag.index, h[i].tag.recycle)
    <3> HIDE DEF g
    <3> QED
      BY <2>1, <2>3, RawFields DEF Raw, Indexed
  <2>5. UnitTag(h[i].tag.index, h[i].tag.recycle) = UnitTag(t.index, t.recycle)
          <=> h[i].tag = t
    BY <2>2, TagsDistinct
  <2> HIDE DEF g
  <2> QED
    BY <2>4, <2>5
<1> QED
  BY <1>1, <1>2 DEF ByIndex, About

LEMMA KillersFound ==
  ASSUME NEW n \in Nat, NEW h \in [1 .. n -> RawEvents],
         NEW kind, NEW t
  PROVE  ByTag(SetUnitIndexes(h, Numbers(n)), Numbers(n), kind, t)
           = About(h, kind, t)
<1> DEFINE g == SetUnitIndexes(h, Numbers(n))
<1>1. /\ DOMAIN Numbers(n) = 1 .. n /\ DOMAIN h = 1 .. n
      /\ \A i \in 1 .. n : Numbers(n)[i] = i
  BY Positions
<1>2. ASSUME NEW i \in 1 .. n
      PROVE  g[i].kind = h[i].kind /\ g[i].tag = h[i].tag
  <2>1. h[i] \in RawEvents
    OBVIOUS
  <2>2. g[i] = [h[i] EXCEPT !.unitIndex =
                  IF h[i].kind \in Indexed
                    THEN UnitTag(h[i].tag.index, h[i].tag.recycle) ELSE 0]
    BY IndexPass
  <2> HIDE DEF g
  <2> QED
    BY <2>1, <2>2, RawFields DEF Raw
<1> QED
  BY <1>1, <1>2 DEF ByTag, About

(* What both passes make of an event.                                      *)
Linked(h, n, e) ==
  LET died == Lookup(Numbers(n), About(h, "died", e.tag))
      done == Lookup(Numbers(n), About(h, "done", e.tag))
      born == Lookup(Numbers(n), About(h, "born", e.killer))
      init == Lookup(Numbers(n), About(h, "init", e.killer))
  IN [kind |-> e.kind, tag |-> e.tag, killer |-> e.killer,
      unitIndex |-> IF e.kind \in Indexed
                      THEN UnitTag(e.tag.index, e.tag.recycle) ELSE 0,
      links |-> CASE e.kind = "born" -> Links(died, None, None, None)
                  [] e.kind = "init" -> Links(died, done, None, None)
                  [] e.kind = "died" /\ e.killer # NoTag ->
                       Links(None, None, born, init)
                  [] OTHER -> Links(None, None, None, None)]

LEMMA BothPasses ==
  ASSUME NEW n \in Nat, NEW h \in [1 .. n -> RawEvents]
  PROVE  Link(h, Numbers(n)) = [e \in 1 .. n |-> Linked(h, n, h[e])]
<1> DEFINE l == Numbers(n)
           g == SetUnitIndexes(h, l)
<1>1. DOMAIN Link(h, l) = 1 .. n /\ DOMAIN g = 1 .. n
  BY DEF Link, Connect, SetUnitIndexes
<1>2. ASSUME NEW e \in 1 .. n
      PROVE  Link(h, l)[e] = Linked(h, n, h[e])
  <2> DEFINE u == IF h[e].kind \in Indexed
                    THEN UnitTag(h[e].tag.index, h[e].tag.recycle) ELSE 0
  <2>1. h[e] \in RawEvents /\ h[e].tag \in Tags /\ InList(e, l)
    BY RawFields, Positions
  <2>2. h[e] = Raw(h[e].kind, h[e].tag, h[e].killer)
    BY <2>1, RawFields
  <2>3. g[e] = [h[e] EXCEPT !.unitIndex = u]
    BY IndexPass
  <2>4. g[e] = [kind |-> h[e].kind, tag |-> h[e].tag, killer |-> h[e].killer,
                unitIndex |-> u, links |-> Links(None, None, None, None)]
    <3> HIDE DEF g, u
    <3> QED
      BY <2>2, <2>3 DEF Raw
  <2>5. h[e].kind \in {"born", "init"} =>
          /\ ByIndex(g, l, "died", u) = About(h, "died", h[e].tag)
          /\ ByIndex(g, l, "done", u) = About(h, "done", h[e].tag)
    BY <2>1, SameFound DEF Indexed
  <2>6. \A kind : ByTag(g, l, kind, h[e].killer) = About(h, kind, h[e].killer)
    BY KillersFound
  <2>7. Link(h, l)[e] = [g[e] EXCEPT !.links = LinksOf(g, l, g[e])]
    <3> HIDE DEF l
    <3> QED
      BY <1>1, <2>1 DEF Link, Connect
  <2> DEFINE died == Lookup(l, About(h, "died", h[e].tag))
             done == Lookup(l, About(h, "done", h[e].tag))
             born == Lookup(l, About(h, "born", h[e].killer))
             init == Lookup(l, About(h, "init", h[e].killer))
             links == CASE h[e].kind = "born" -> Links(died, None, None, None)
                        [] h[e].kind = "init" -> Links(died, done, None, None)
                        [] h[e].kind = "died" /\ h[e].killer # NoTag ->
                             Links(None, None, born, init)
                        [] OTHER -> Links(None, None, None, None)
  <2>8. LinksOf(g, l, g[e]) = links
    <3>1. /\ g[e].kind = h[e].kind /\ g[e].killer = h[e].killer
          /\ g[e].unitIndex = u /\ g[e].links = Links(None, None, None, None)
      <4> HIDE DEF g, u
      <4> QED
        BY <2>4
    <3>2. Killers(g, l, g[e]) = Links(None, None, born, init)
      <4> HIDE DEF g, l
      <4> QED
        BY <2>6, <3>1 DEF Killers
    <3> HIDE DEF g, l, u
    <3> QED
      BY <2>5, <3>1, <3>2 DEF LinksOf
  <2>9. Linked(h, n, h[e]) =
          [kind |-> h[e].kind, tag |-> h[e].tag, killer |-> h[e].killer,
           unitIndex |-> u, links |-> links]
    BY DEF Linked
  <2> HIDE DEF g, u, links
  <2> QED
    BY <2>4, <2>7, <2>8, <2>9
<1>3. Link(h, l) = [e \in DOMAIN Link(h, l) |-> Link(h, l)[e]]
  BY DEF Link, Connect
<1> QED
  BY <1>1, <1>2, <1>3

-----------------------------------------------------------------------------
(* The invariant.                                                          *)

(* A dictionary of a list of n events leads to one of them, or nowhere.    *)
LEMMA LookupInList ==
  ASSUME NEW n \in Nat, NEW S, S \subseteq 1 .. n
  PROVE  /\ Lookup(Numbers(n), S) \in 0 .. n
         /\ S = {} => Lookup(Numbers(n), S) = None
         /\ S # {} => /\ Lookup(Numbers(n), S) = First(S)
                      /\ First(S) \in S /\ \A j \in S : First(S) <= j
<1>1. CASE S = {}
  BY <1>1 DEF Lookup, None
<1>2. CASE S # {}
  <2>0. S \subseteq Nat
    OBVIOUS
  <2>1. First(S) \in S /\ \A j \in S : First(S) <= j
    BY <1>2, <2>0, FirstIsLeast
  <2>2. First(S) \in 1 .. n
    BY <2>1
  <2>3. Numbers(n)[First(S)] = First(S)
    BY <2>2 DEF Numbers
  <2>4. Lookup(Numbers(n), S) = First(S)
    BY <1>2, <2>3 DEF Lookup
  <2> QED
    BY <1>2, <2>1, <2>2, <2>4
<1> QED
  BY <1>1, <1>2

LinksIn(n) ==
  [died : 0 .. n, done : 0 .. n, killerBorn : 0 .. n, killerInit : 0 .. n]

Events(n) ==
  [kind : Kinds, tag : Tags, killer : Tags \cup {NoTag}, unitIndex : Words,
   links : LinksIn(n)]

LEMMA LinkedType ==
  ASSUME NEW n \in Nat, NEW h \in [1 .. n -> RawEvents], NEW e \in 1 .. n
  PROVE  Linked(h, n, h[e]) \in Events(n)
<1> DEFINE died == Lookup(Numbers(n), About(h, "died", h[e].tag))
           done == Lookup(Numbers(n), About(h, "done", h[e].tag))
           born == Lookup(Numbers(n), About(h, "born", h[e].killer))
           init == Lookup(Numbers(n), About(h, "init", h[e].killer))
           links == CASE h[e].kind = "born" -> Links(died, None, None, None)
                      [] h[e].kind = "init" -> Links(died, done, None, None)
                      [] h[e].kind = "died" /\ h[e].killer # NoTag ->
                           Links(None, None, born, init)
                      [] OTHER -> Links(None, None, None, None)
           u == IF h[e].kind \in Indexed
                  THEN UnitTag(h[e].tag.index, h[e].tag.recycle) ELSE 0
<1>1. \A kind, t : About(h, kind, t) \subseteq 1 .. n
  BY DEF About
<1>2. /\ died \in 0 .. n /\ done \in 0 .. n
      /\ born \in 0 .. n /\ init \in 0 .. n /\ None \in 0 .. n
  BY <1>1, LookupInList DEF None
<1>3. /\ h[e].kind \in Kinds /\ h[e].tag \in Tags
      /\ h[e].killer \in Tags \cup {NoTag}
  BY RawFields
<1>4. u \in Words
  BY <1>3, TagInWords
<1>5. links \in LinksIn(n)
  <2> HIDE DEF died, done, born, init
  <2>1. ASSUME NEW a \in 0 .. n, NEW b \in 0 .. n,
               NEW c \in 0 .. n, NEW d \in 0 .. n
        PROVE  Links(a, b, c, d) \in LinksIn(n)
    BY DEF Links, LinksIn
  <2> QED
    BY <1>2, <2>1
<1>6. Linked(h, n, h[e]) =
        [kind |-> h[e].kind, tag |-> h[e].tag, killer |-> h[e].killer,
         unitIndex |-> u, links |-> links]
  BY DEF Linked
<1> HIDE DEF u, links
<1> QED
  BY <1>3, <1>4, <1>5, <1>6 DEF Events

(* Only deaths have killers.                                               *)
LEMMA RawBuilt ==
  ASSUME NEW kind \in Kinds, NEW tag \in Tags,
         NEW killer \in Tags \cup {NoTag},
         killer # NoTag => kind = "died"
  PROVE  Raw(kind, tag, killer) \in RawEvents
BY DEF RawEvents

(* What the passes make of a stream has the type of the events of a        *)
(* replay, and JSON keeps enough of it to have the stream again.           *)
LEMMA LinkEstablishes ==
  ASSUME NEW n \in Nat, NEW stream \in [1 .. n -> RawEvents],
         NEW h, h = Link(stream, Numbers(n))
  PROVE  /\ h \in [1 .. n -> Events(n)]
         /\ \A e \in 1 .. n : /\ h[e].kind = stream[e].kind
                              /\ h[e].tag = stream[e].tag
                              /\ h[e].killer = stream[e].killer
         /\ Serialized(h, Numbers(n)) = stream
<1>1. h = [e \in 1 .. n |-> Linked(stream, n, stream[e])]
  BY BothPasses
<1>2. h \in [1 .. n -> Events(n)]
  BY <1>1, LinkedType
<1>3. ASSUME NEW e \in 1 .. n
      PROVE  /\ h[e].kind = stream[e].kind
             /\ h[e].tag = stream[e].tag
             /\ h[e].killer = stream[e].killer
  BY <1>1 DEF Linked
<1>4. Serialized(h, Numbers(n)) = stream
  <2>1. ASSUME NEW e \in 1 .. n
        PROVE  Raw(h[e].kind, h[e].tag, h[e].killer) = stream[e]
    BY <1>3, RawFields
  <2>2. Serialized(h, Numbers(n)) =
          [e \in 1 .. n |-> Raw(h[e].kind, h[e].tag, h[e].killer)]
    BY DEF Serialized, Numbers
  <2> QED
    BY <2>1, <2>2
<1> QED
  BY <1>2, <1>3, <1>4

-----------------------------------------------------------------------------
(* IInv is an invariant.                                                   *)

LEMMA EventsGrow ==
  ASSUME NEW n \in Nat
  PROVE  Events(n) \subseteq Events(n + 1)
<1>1. 0 .. n \subseteq 0 .. n + 1
  OBVIOUS
<1>2. LinksIn(n) \subseteq LinksIn(n + 1)
  BY <1>1 DEF LinksIn
<1> QED
  BY <1>2 DEF Events

LEMMA RawTyped ==
  ASSUME NEW e \in RawEvents, NEW n \in Nat
  PROVE  e \in Events(n)
<1>1. /\ e = Raw(e.kind, e.tag, e.killer)
      /\ e.kind \in Kinds /\ e.tag \in Tags /\ e.killer \in Tags \cup {NoTag}
  BY RawFields
<1>2. 0 \in Words
  BY <1>1, TagInWords
<1>3. Links(None, None, None, None) \in LinksIn(n)
  BY DEF Links, None, LinksIn
<1> QED
  BY <1>1, <1>2, <1>3 DEF Raw, Events

(* The two passes over a stream of decoded events make IInv true.          *)
LEMMA PassesEstablish ==
  ASSUME NEW n \in Nat, NEW stream \in [1 .. n -> RawEvents],
         heap' = Link(stream, Numbers(n)),
         list' = Numbers(n),
         linked' = TRUE
  PROVE  IInv'
<1>1. /\ heap' \in [1 .. n -> Events(n)]
      /\ \A e \in 1 .. n : /\ heap'[e].kind = stream[e].kind
                           /\ heap'[e].killer = stream[e].killer
      /\ Serialized(heap', list') = stream
  BY LinkEstablishes
<1>2. heap' \in Seq(Events(n)) /\ Len(heap') = n /\ DOMAIN heap' = 1 .. n
  <2> HIDE DEF Events
  <2> QED
    BY <1>1
<1>3. list' \in Seq(1 .. n)
  BY Positions
<1>4. TypeOK'
  <2>1. heap' \in Seq(Events(Len(heap'))) /\ list' \in Seq(DOMAIN heap')
    BY <1>2, <1>3
  <2> QED
    BY <2>1 DEF TypeOK, Events, LinksIn
<1>5. ASSUME NEW e \in 1 .. n, heap'[e].killer # NoTag
      PROVE  heap'[e].kind = "died"
  BY <1>1, <1>5, RawFields
<1>6. list' = Numbers(Len(heap')) /\ heap' = Link(Serialized(heap', list'), list')
  BY <1>1, <1>2
<1> QED
  BY <1>2, <1>4, <1>5, <1>6 DEF IInv

(* JSON has a stream of events again, as a replay file has.                *)
LEMMA SerializedStream ==
  ASSUME IInv
  PROVE  /\ Len(list) \in Nat
         /\ Serialized(heap, list) \in [1 .. Len(list) -> RawEvents]
<1>1. list \in Seq(DOMAIN heap) /\ heap \in Seq(Events(Len(heap)))
  BY DEF IInv, TypeOK, Events, LinksIn
<1>2. Len(list) \in Nat /\ DOMAIN list = 1 .. Len(list)
  BY <1>1
<1>3. ASSUME NEW i \in 1 .. Len(list)
      PROVE  Raw(heap[list[i]].kind, heap[list[i]].tag, heap[list[i]].killer)
               \in RawEvents
  <2>1. list[i] \in DOMAIN heap
    BY <1>1
  <2>2. heap[list[i]] \in Events(Len(heap))
    <3> HIDE DEF Events
    <3> QED
      BY <1>1, <2>1
  <2>3. heap[list[i]].killer # NoTag => heap[list[i]].kind = "died"
    BY <2>1 DEF IInv
  <2> QED
    BY <2>2, <2>3, RawBuilt DEF Events
<1> QED
  BY <1>2, <1>3 DEF Serialized

LEMMA InitEstablishes == Init => IInv
<1> SUFFICES ASSUME Init PROVE IInv
  OBVIOUS
<1>1. heap = <<>> /\ list = <<>> /\ linked = TRUE
  BY DEF Init
<1>2. Len(heap) = 0 /\ DOMAIN heap = {} /\ DOMAIN list = {}
  BY <1>1
<1>3. TypeOK
  <2>1. heap \in Seq(Events(Len(heap))) /\ list \in Seq(DOMAIN heap)
    BY <1>1
  <2> QED
    BY <1>1, <2>1 DEF TypeOK, Events, LinksIn
<1>4. list = Numbers(Len(heap))
  BY <1>1, <1>2 DEF Numbers
<1>5. Serialized(heap, list) = [i \in {} |-> Raw(heap[list[i]].kind,
                                   heap[list[i]].tag, heap[list[i]].killer)]
  BY <1>2 DEF Serialized
<1>6. Link(Serialized(heap, list), list) = heap
  <2>1. DOMAIN Serialized(heap, list) = 1 .. 0
    BY <1>5
  <2>2. Serialized(heap, list) \in [1 .. 0 -> RawEvents]
    BY <1>5, <2>1
  <2>3. Link(Serialized(heap, list), Numbers(0)) = [e \in 1 .. 0 |->
          Linked(Serialized(heap, list), 0, Serialized(heap, list)[e])]
    BY <2>2, BothPasses
  <2>4. DOMAIN Link(Serialized(heap, list), Numbers(0)) = 1 .. 0
    BY <2>3
  <2>5. Link(Serialized(heap, list), Numbers(0)) = <<>>
    BY <2>3
  <2> QED
    BY <1>1, <1>2, <1>4, <2>5
<1> QED
  BY <1>2, <1>3, <1>4, <1>6 DEF IInv

LEMMA StepPreserves == IInv /\ [Next]_vars => IInv'
<1> SUFFICES ASSUME IInv, [Next]_vars PROVE IInv'
  OBVIOUS
<1>0. /\ list \in Seq(DOMAIN heap)
      /\ heap \in Seq(Events(Len(heap)))
      /\ linked \in BOOLEAN
      /\ \A e \in DOMAIN heap : heap[e].killer # NoTag
                               => heap[e].kind = "died"
  BY DEF IInv, TypeOK, Events, LinksIn
<1>1. CASE Decode
  <2>0. PICK n \in 1 .. MaxEvents : \E stream \in [1 .. n -> RawEvents] :
          heap' = Link(stream, Numbers(n)) /\ list' = Numbers(n)
    BY <1>1 DEF Decode
  <2>1. PICK stream \in [1 .. n -> RawEvents] :
          heap' = Link(stream, Numbers(n)) /\ list' = Numbers(n)
    BY <2>0
  <2>2. linked' = TRUE /\ n \in Nat
    BY <1>1 DEF Decode
  <2> QED
    BY <2>1, <2>2, PassesEstablish
<1>2. CASE AddEvent
  <2>1. PICK e \in RawEvents : heap' = Append(heap, e)
    BY <1>2 DEF AddEvent
  <2>2. list' = Append(list, Len(heap) + 1) /\ linked' = FALSE
    BY <1>2 DEF AddEvent
  <2>3. e \in Events(Len(heap) + 1) /\ Len(heap) \in Nat
    BY <1>0, RawTyped
  <2>4. heap \in Seq(Events(Len(heap) + 1))
    <3>1. Events(Len(heap)) \subseteq Events(Len(heap) + 1)
      BY <2>3, EventsGrow
    <3> HIDE DEF Events
    <3> QED
      BY <1>0, <3>1
  <2>5. /\ heap' \in Seq(Events(Len(heap) + 1))
        /\ Len(heap') = Len(heap) + 1
        /\ DOMAIN heap' = 1 .. Len(heap) + 1
        /\ \A i \in 1 .. Len(heap) : heap'[i] = heap[i]
        /\ heap'[Len(heap) + 1] = e
    <3> HIDE DEF Events, RawEvents
    <3> QED
      BY <1>0, <2>1, <2>3, <2>4
  <2>6. list' \in Seq(DOMAIN heap')
    <3>1. DOMAIN heap \subseteq DOMAIN heap' /\ Len(heap) + 1 \in DOMAIN heap'
      BY <1>0, <2>3, <2>5
    <3> QED
      BY <1>0, <2>2, <3>1
  <2>7. TypeOK'
    BY <2>2, <2>5, <2>6 DEF TypeOK, Events, LinksIn
  <2>8. \A i \in DOMAIN heap' : heap'[i].killer # NoTag
                              => heap'[i].kind = "died"
    <3>1. e.killer # NoTag => e.kind = "died"
      BY RawFields
    <3> QED
      BY <1>0, <2>3, <2>5, <3>1
  <2> QED
    BY <2>2, <2>7, <2>8 DEF IInv
<1>3. CASE RemoveEvent
  <2>1. PICK i \in DOMAIN list :
          list' = SubSeq(list, 1, i - 1) \o SubSeq(list, i + 1, Len(list))
    BY <1>3 DEF RemoveEvent
  <2>2. linked' = FALSE /\ heap' = heap
    BY <1>3 DEF RemoveEvent
  <2>3. list' \in Seq(DOMAIN heap)
    <3> DEFINE D == DOMAIN heap
    <3>1. list \in Seq(D) /\ i \in 1 .. Len(list) /\ Len(list) \in Nat
      BY <1>0, <2>1
    <3> HIDE DEF D
    <3>2. SubSeq(list, 1, i - 1) \in Seq(D)
      BY <3>1
    <3>3. SubSeq(list, i + 1, Len(list)) \in Seq(D)
      BY <3>1
    <3>4. list' \in Seq(D)
      BY <2>1, <3>2, <3>3
    <3> QED
      BY <3>4 DEF D
  <2>4. TypeOK'
    BY <1>0, <2>2, <2>3 DEF TypeOK, Events, LinksIn
  <2> QED
    BY <1>0, <2>2, <2>4 DEF IInv
<1>4. CASE RoundTrip
  <2>1. /\ heap' = Link(Serialized(heap, list), Numbers(Len(list)))
        /\ list' = Numbers(Len(list))
        /\ linked' = TRUE
    BY <1>4 DEF RoundTrip, Relink, Link
  <2> QED
    BY <2>1, SerializedStream, PassesEstablish
<1>5. CASE UNCHANGED vars
  BY <1>5 DEF vars, IInv, TypeOK
<1> QED
  BY <1>1, <1>2, <1>3, <1>4, <1>5 DEF Next

(* The invariant of the proofs holds in every state of every behaviour: a  *)
(* replay nobody has changed is what the two passes make of its events.    *)
THEOREM InductiveInvariant == Spec => []IInv
<1>1. Init => IInv
  BY InitEstablishes
<1>2. IInv /\ [Next]_vars => IInv'
  BY StepPreserves
<1> QED
  BY <1>1, <1>2, PTL DEF Spec

(* The events of a replay, its list and their links have their types       *)
(* whatever the caller adds, removes, writes and reads: every link leads   *)
(* to an object of the replay or nowhere.                                  *)
THEOREM TypeCorrect == Spec => []TypeOK
<1>1. IInv => TypeOK
  BY DEF IInv
<1> QED
  BY <1>1, InductiveInvariant, PTL

-----------------------------------------------------------------------------
(* Links.                                                                  *)

(* A stream that is linked, event by event.                                *)
LEMMA LinkedStream ==
  ASSUME IInv, linked
  PROVE  LET n == Len(heap)
             stream == Serialized(heap, list)
         IN /\ n \in Nat
            /\ list = Numbers(n)
            /\ DOMAIN list = 1 .. n
            /\ \A i \in 1 .. n : list[i] = i
            /\ stream \in [1 .. n -> RawEvents]
            /\ \A e \in 1 .. n : /\ heap[e] = Linked(stream, n, stream[e])
                                 /\ heap[e].kind = stream[e].kind
                                 /\ heap[e].tag = stream[e].tag
                                 /\ heap[e].killer = stream[e].killer
<1> DEFINE n == Len(heap)
           stream == Serialized(heap, list)
<1>1. list = Numbers(n) /\ heap = Link(stream, list)
  BY DEF IInv
<1>2. n \in Nat
  BY DEF IInv, TypeOK
<1>3. Len(list) = n /\ DOMAIN list = 1 .. n /\ \A i \in 1 .. n : list[i] = i
  BY <1>1, <1>2, Positions
<1>4. stream \in [1 .. n -> RawEvents]
  BY <1>3, SerializedStream
<1> HIDE DEF n, stream
<1>5. heap = [e \in 1 .. n |-> Linked(stream, n, stream[e])]
  BY <1>1, <1>2, <1>4, BothPasses
<1>6. ASSUME NEW e \in 1 .. n
      PROVE  /\ heap[e].kind = stream[e].kind
             /\ heap[e].tag = stream[e].tag
             /\ heap[e].killer = stream[e].killer
  BY <1>5 DEF Linked
<1> QED
  BY <1>1, <1>2, <1>3, <1>4, <1>5, <1>6 DEF n, stream

(* A lookup in the dictionary of a kind gives what LeadsTo asks of a link. *)
LEMMA LookupLeads ==
  ASSUME IInv, linked, NEW kind, NEW tag
  PROVE  LeadsTo(Lookup(Numbers(Len(heap)),
                        About(Serialized(heap, list), kind, tag)), kind, tag)
<1> DEFINE n == Len(heap)
           stream == Serialized(heap, list)
           about == { i \in DOMAIN list : /\ heap[list[i]].kind = kind
                                          /\ heap[list[i]].tag = tag }
           found == About(stream, kind, tag)
           link == Lookup(Numbers(n), found)
<1>1. /\ n \in Nat
      /\ DOMAIN list = 1 .. n
      /\ \A i \in 1 .. n : list[i] = i
      /\ DOMAIN stream = 1 .. n
      /\ \A e \in 1 .. n : /\ heap[e].kind = stream[e].kind
                           /\ heap[e].tag = stream[e].tag
  BY LinkedStream
<1>2. about = found /\ found \subseteq 1 .. n
  <2> HIDE DEF n, stream
  <2> QED
    BY <1>1 DEF About
<1>3. /\ found = {} => link = None
      /\ found # {} => /\ link \in found
                       /\ \A j \in found : link <= j
  <2> HIDE DEF n, found
  <2> QED
    BY <1>1, <1>2, LookupInList
<1>4. \A i \in found : list[i] = i
  <2> HIDE DEF n, found
  <2> QED
    BY <1>1, <1>2
<1>5. IF about = {} THEN link = None
      ELSE \E i \in about : link = list[i] /\ \A j \in about : i <= j
  <2> HIDE DEF about, found, link
  <2> QED
    BY <1>2, <1>3, <1>4
<1> QED
  BY <1>5 DEF LeadsTo

(* In a replay nobody has changed since it was decoded or read from JSON,  *)
(* births lead to the first completion and death of their own unit.  The   *)
(* words for which the dictionaries are searched tell all units apart,     *)
(* also those whose tag overflows into the sign.                           *)
THEOREM LivesCorrect == Spec => []LivesLinked
<1>1. ASSUME IInv PROVE LivesLinked
  <2> SUFFICES ASSUME linked, NEW i \in DOMAIN list
               PROVE  /\ heap[list[i]].kind \in {"born", "init"}
                            => LeadsTo(heap[list[i]].links.died, "died",
                                       heap[list[i]].tag)
                      /\ heap[list[i]].kind = "init"
                            => LeadsTo(heap[list[i]].links.done, "done",
                                       heap[list[i]].tag)
    BY DEF LivesLinked
  <2> DEFINE n == Len(heap)
             stream == Serialized(heap, list)
             died == Lookup(Numbers(n), About(stream, "died", stream[i].tag))
             done == Lookup(Numbers(n), About(stream, "done", stream[i].tag))
  <2>1. /\ list[i] = i
        /\ heap[i] = Linked(stream, n, stream[i])
        /\ heap[i].kind = stream[i].kind /\ heap[i].tag = stream[i].tag
    BY <1>1, LinkedStream
  <2>2. /\ LeadsTo(died, "died", stream[i].tag)
        /\ LeadsTo(done, "done", stream[i].tag)
    BY <1>1, LookupLeads
  <2> HIDE DEF n, stream
  <2>3. /\ stream[i].kind = "born"
             => Linked(stream, n, stream[i]).links
                  = Links(died, None, None, None)
        /\ stream[i].kind = "init"
             => Linked(stream, n, stream[i]).links
                  = Links(died, done, None, None)
    BY DEF Linked
  <2> HIDE DEF died, done
  <2>4. /\ stream[i].kind \in {"born", "init"} => heap[i].links.died = died
        /\ stream[i].kind = "init" => heap[i].links.done = done
    BY <2>1, <2>3 DEF Links
  <2> QED
    BY <2>1, <2>2, <2>4
<1> QED
  BY <1>1, InductiveInvariant, PTL

(* And deaths lead to the first birth of the killer they name.             *)
THEOREM KillersCorrect == Spec => []KillersLinked
<1>1. ASSUME IInv PROVE KillersLinked
  <2> SUFFICES ASSUME linked, NEW i \in DOMAIN list,
                      heap[list[i]].kind = "died"
               PROVE  IF heap[list[i]].killer = NoTag
                        THEN /\ heap[list[i]].links.killerBorn = None
                             /\ heap[list[i]].links.killerInit = None
                        ELSE /\ LeadsTo(heap[list[i]].links.killerBorn, "born",
                                        heap[list[i]].killer)
                             /\ LeadsTo(heap[list[i]].links.killerInit, "init",
                                        heap[list[i]].killer)
    BY DEF KillersLinked
  <2> DEFINE n == Len(heap)
             stream == Serialized(heap, list)
             born == Lookup(Numbers(n), About(stream, "born", stream[i].killer))
             init == Lookup(Numbers(n), About(stream, "init", stream[i].killer))
  <2>1. /\ list[i] = i
        /\ heap[i] = Linked(stream, n, stream[i])
        /\ heap[i].kind = stream[i].kind /\ heap[i].killer = stream[i].killer
    BY <1>1, LinkedStream
  <2>2. /\ LeadsTo(born, "born", stream[i].killer)
        /\ LeadsTo(init, "init", stream[i].killer)
    BY <1>1, LookupLeads
  <2>0. stream[i].kind = "died"
    BY <2>1
  <2> HIDE DEF n, stream
  <2>3. Linked(stream, n, stream[i]).links =
          IF stream[i].killer = NoTag THEN Links(None, None, None, None)
          ELSE Links(None, None, born, init)
    BY <2>0 DEF Linked
  <2> HIDE DEF born, init
  <2>4. /\ stream[i].killer = NoTag => /\ heap[i].links.killerBorn = None
                                       /\ heap[i].links.killerInit = None
        /\ stream[i].killer # NoTag => /\ heap[i].links.killerBorn = born
                                       /\ heap[i].links.killerInit = init
    BY <2>1, <2>3 DEF Links
  <2> QED
    BY <2>1, <2>2, <2>4
<1> QED
  BY <1>1, InductiveInvariant, PTL

(* A replay nobody has changed comes back from JSON as it was, links and   *)
(* tags as words included, though JSON has neither.                        *)
THEOREM RoundTripsAreExact == Spec => RoundTripExact
<1>1. ASSUME IInv, [Next]_vars
      PROVE  [linked /\ linked' /\ heap # <<>> => heap' = heap]_vars
  <2> SUFFICES ASSUME linked, linked', heap # <<>>, Next PROVE heap' = heap
    BY <1>1 DEF vars
  <2>1. RoundTrip
    BY DEF Next, Decode, AddEvent, RemoveEvent
  <2>2. heap' = Link(Serialized(heap, list), Numbers(Len(list)))
    BY <2>1 DEF RoundTrip, Relink, Link
  <2>3. list = Numbers(Len(heap)) /\ Len(list) = Len(heap)
    <3>1. Len(heap) \in Nat
      BY <1>1 DEF IInv, TypeOK
    <3> QED
      BY <1>1, <3>1, Positions DEF IInv
  <2> QED
    BY <1>1, <2>2, <2>3 DEF IInv
<1> QED
  BY <1>1, InductiveInvariant, PTL DEF Spec, RoundTripExact

=============================================================================
