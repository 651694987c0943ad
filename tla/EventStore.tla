----------------------------- MODULE EventStore -----------------------------
(***************************************************************************)
(* TrackerEventStore and TrackerEventView of Models/TrackerEvents.cs: one  *)
(* list of events in stream order, a count per event type, and the typed   *)
(* collections a caller sees, each a live window on that list.             *)
(*                                                                         *)
(* A store is not for several threads.  What interleaves are its callers:  *)
(* enumerators that are under way while the store is changed through it or *)
(* through any of its views.  A List<T> counts its changes, and an         *)
(* enumerator of another count throws; "stale" says that it would.         *)
(***************************************************************************)
EXTENDS Integers, Sequences, SequencesExt

CONSTANTS
  Events,     \* event objects; List.Remove and Contains go by reference
  Counted,    \* the known event types
  Unknown,    \* any other type
  TypeOf,     \* the EventType of each event
  Impostors,  \* UnknownTrackerEvents, whatever their EventType says
  Readers,    \* enumerators
  MaxItems,   \* bound: events in the store
  MaxArray    \* bound: length of an array to copy to

Types == Counted \cup {Unknown}

ASSUME ConstantsAssumption ==
  /\ Unknown \notin Counted
  /\ TypeOf \in [Events -> Types]
  /\ Impostors \subseteq Events
  /\ \A e \in Events : TypeOf[e] = Unknown => e \in Impostors
  /\ MaxItems \in Nat /\ MaxArray \in Nat

VARIABLES
  items,   \* _items
  counts,  \* _counts
  phase,   \* of each enumerator: "none", "created" or "reading"
  over,    \* what it enumerates: a type, or Everything
  at,      \* elements of _items it has passed
  seen,    \* what it has yielded
  stale,   \* _items was changed after it started
  last     \* the result of the last call

readers == <<phase, over, at, seen, stale>>
vars    == <<items, counts, readers, last>>

Everything == "everything"
Nothing    == "nothing"
NoResult   == [kind |-> "none"]

(* The events of a type, in order: what its view stands for.  Loops over   *)
(* the list are recursive functions of how far they are.                   *)
OfType(s, t) ==
  LET upto[n \in 0 .. Len(s)] ==
        IF n = 0 THEN <<>>
        ELSE IF TypeOf[s[n]] = t THEN Append(upto[n - 1], s[n]) ELSE upto[n - 1]
  IN upto[Len(s)]

-----------------------------------------------------------------------------
(* The list, and the counts beside it.                                     *)

(* Every change of the list: enumerators that have started are stale.      *)
Change(new) ==
  /\ items' = new
  /\ stale' = [r \in Readers |-> stale[r] \/ phase[r] = "reading"]
  /\ last' = NoResult
  /\ UNCHANGED <<phase, over, at, seen>>

(* Bug: an event of an unknown schema is not counted, whatever its type.   *)
ChangedCountOfTyped(c, e, delta) ==
  IF e \in Impostors THEN c ELSE [c EXCEPT ![TypeOf[e]] = @ + delta]

(* ChangeCount.                                                            *)
ChangedCount(c, e, delta) ==
  IF TypeOf[e] \in Counted THEN [c EXCEPT ![TypeOf[e]] = @ + delta] ELSE c

ChangeCount(e, delta) == counts' = ChangedCount(counts, e, delta)

Add(e) ==
  /\ Len(items) < MaxItems
  /\ Change(Append(items, e))
  /\ ChangeCount(e, 1)

NoCounts == [t \in Counted |-> 0]

(* Clear of the store.                                                     *)
ClearAll ==
  /\ Change(<<>>)
  /\ counts' = NoCounts

(* Remove: the first occurrence, if there is one.                          *)
RemoveItem(e) ==
  /\ Contains(items, e)
  /\ Change(RemoveFirst(items, e))
  /\ ChangeCount(e, -1)

(* Bug: the last element fills the gap.                                    *)
CompactSwapping(s, t) ==
  LET upto[n \in 0 .. Len(s)] ==
        IF n = 0 THEN s
        ELSE LET a == upto[n - 1]
                 i == Len(s) + 1 - n
             IN IF TypeOf[a[i]] = t
                  THEN SubSeq([a EXCEPT ![i] = Last(a)], 1, Len(a) - 1) ELSE a
  IN upto[Len(s)]

(* The loop of Clear(eventType): what stays moves down, within the list.   *)
Compact(s, t) ==
  LET upto[n \in 0 .. Len(s)] ==
        IF n = 0 THEN [list |-> s, to |-> 0]
        ELSE LET a == upto[n - 1]
             IN IF TypeOf[a.list[n]] # t
                  THEN [list |-> [a.list EXCEPT ![a.to + 1] = a.list[n]],
                        to |-> a.to + 1]
                  ELSE a
  IN SubSeq(upto[Len(s)].list, 1, upto[Len(s)].to)

(* Clear of the view of a type.  It counts as a change of the list unless  *)
(* the list is empty: writing an element in its own place does, too.       *)
ClearView(t) ==
  /\ IF items = <<>> THEN UNCHANGED <<items, readers>> /\ last' = NoResult
                     ELSE Change(Compact(items, t))
  /\ counts' = [counts EXCEPT ![t] = 0]

-----------------------------------------------------------------------------
(* Enumerators.                                                            *)

(* GetEnumerator of the store is an enumerator of the list, which knows    *)
(* the list as it is now; that of a view, an iterator, has not started.    *)
GetEnumerator(r, what) ==
  /\ phase[r] = "none"
  /\ phase' = [phase EXCEPT ![r] = IF what = Everything THEN "reading"
                                                        ELSE "created"]
  /\ over' = [over EXCEPT ![r] = what]
  /\ at' = [at EXCEPT ![r] = 0]
  /\ seen' = [seen EXCEPT ![r] = <<>>]
  /\ stale' = [stale EXCEPT ![r] = FALSE]
  /\ last' = NoResult
  /\ UNCHANGED <<items, counts>>

(* It ends, with a result or an exception, or its caller leaves the loop.  *)
Close(r, result) ==
  /\ phase' = [phase EXCEPT ![r] = "none"]
  /\ over' = [over EXCEPT ![r] = Everything]
  /\ at' = [at EXCEPT ![r] = 0]
  /\ seen' = [seen EXCEPT ![r] = <<>>]
  /\ stale' = [stale EXCEPT ![r] = FALSE]
  /\ last' = result
  /\ UNCHANGED <<items, counts>>

Wanted(r, e) == over[r] = Everything \/ TypeOf[e] = over[r]

(* The next element MoveNext stops at, or one past the end.                *)
Ahead(r) ==
  LET found == { i \in at[r] + 1 .. Len(items) : Wanted(r, items[i]) }
  IN IF found = {} THEN Len(items) + 1
     ELSE CHOOSE i \in found : \A j \in found : i <= j

(* The cast to the type of the view fails.                                 *)
CastFails(r) ==
  /\ over[r] # Everything /\ Ahead(r) <= Len(items)
  /\ items[Ahead(r)] \in Impostors

Open(r) == phase[r] # "none"
Enumerated(r) == [kind |-> "enumerated", over |-> over[r], seen |-> seen[r]]

(* Bug: the iterator looks at the list anew.                               *)
MoveNextUnversioned(r) ==
  /\ Open(r)
  /\ Ahead(r) <= Len(items) /\ ~CastFails(r)
  /\ phase' = [phase EXCEPT ![r] = "reading"]
  /\ at' = [at EXCEPT ![r] = Ahead(r)]
  /\ seen' = [seen EXCEPT ![r] = Append(@, items[Ahead(r)])]
  /\ last' = NoResult
  /\ UNCHANGED <<items, counts, over, stale>>

MoveNext(r) ==
  /\ Open(r) /\ ~stale[r]
  /\ Ahead(r) <= Len(items) /\ ~CastFails(r)
  /\ phase' = [phase EXCEPT ![r] = "reading"]
  /\ at' = [at EXCEPT ![r] = Ahead(r)]
  /\ seen' = [seen EXCEPT ![r] = Append(@, items[Ahead(r)])]
  /\ last' = NoResult
  /\ UNCHANGED <<items, counts, over, stale>>

(* Bug: a change is noticed only where there is an element to return.      *)
MoveNextEndsUnversioned(r) ==
  /\ Open(r) /\ Ahead(r) > Len(items) /\ Close(r, Enumerated(r))

MoveNextEnds(r) ==
  /\ Open(r) /\ ~stale[r] /\ Ahead(r) > Len(items)
  /\ Close(r, Enumerated(r))

(* InvalidOperationException, or InvalidCastException.                     *)
MoveNextThrows(r) ==
  /\ Open(r)
  /\ stale[r] \/ CastFails(r)
  /\ Close(r, NoResult)

Break(r) == Open(r) /\ Close(r, NoResult)

-----------------------------------------------------------------------------
(* CopyTo of a view.                                                       *)

CountOf(t) == counts[t]

(* The loop: from the index on, without another look at the length.        *)
Written(t, length, index) ==
  LET upto[n \in 0 .. Len(items)] ==
        IF n = 0
          THEN [kind |-> "copied", to |-> index,
                array |-> [i \in 0 .. length - 1 |-> Nothing]]
        ELSE LET a == upto[n - 1]
                 e == items[n]
             IN IF a.kind # "copied" \/ TypeOf[e] # t THEN a
                ELSE IF e \in Impostors
                  THEN [a EXCEPT !.kind = "InvalidCastException"]
                ELSE IF a.to >= length
                  THEN [a EXCEPT !.kind = "IndexOutOfRangeException"]
                ELSE [kind |-> "copied", to |-> a.to + 1,
                      array |-> [a.array EXCEPT ![a.to] = e]]
  IN upto[Len(items)]

(* Bug: the index is left out of account.                                  *)
FitsFromZero(t, length, index) == index <= length /\ length >= CountOf(t)

Fits(t, length, index) == index <= length /\ length - index >= CountOf(t)

CopyTo(t, length, index) ==
  /\ last' = IF Fits(t, length, index)
               THEN LET written == Written(t, length, index)
                    IN [kind |-> written.kind, type |-> t, from |-> index,
                        array |-> written.array]
               ELSE [kind |-> "ArgumentException"]
  /\ UNCHANGED <<items, counts, readers>>

-----------------------------------------------------------------------------
(* AddRange.                                                               *)
AddRange(c, s) ==
  LET upto[n \in 0 .. Len(s)] ==
        IF n = 0 THEN c ELSE ChangedCount(upto[n - 1], s[n], 1)
  IN upto[Len(s)]

(* The constructors: any list of events.                                   *)

StoreInit ==
  /\ items \in BoundedSeq(Events, MaxItems)
  /\ counts = AddRange(NoCounts, items)
  /\ phase = [r \in Readers |-> "none"]
  /\ over = [r \in Readers |-> Everything]
  /\ at = [r \in Readers |-> 0]
  /\ seen = [r \in Readers |-> <<>>]
  /\ stale = [r \in Readers |-> FALSE]
  /\ last = NoResult

Write == \/ \E e \in Events : Add(e) \/ RemoveItem(e)
         \/ ClearAll
         \/ \E t \in Counted : ClearView(t)

Read == \E r \in Readers :
          \/ \E what \in Counted \cup {Everything} : GetEnumerator(r, what)
          \/ MoveNext(r) \/ MoveNextEnds(r) \/ MoveNextThrows(r) \/ Break(r)

Copy == \E t \in Counted, length \in 0 .. MaxArray :
          \E index \in 0 .. length + 1 : CopyTo(t, length, index)

StoreNext == Write \/ Read \/ Copy

Spec == StoreInit /\ [][StoreNext]_vars

-----------------------------------------------------------------------------
(* Properties.                                                             *)

(* The Count of a view is the number of events it stands for, whichever    *)
(* way they came and went: through the store, its own view or another.     *)
CountsMatch == \A t \in Counted : counts[t] = Len(OfType(items, t))

(* A call changes the events of one type at most, and leaves those of all  *)
(* others as they are, in their order; only Clear of the store is for all. *)
OthersUntouched ==
  [][\/ items' = <<>>
     \/ \E t \in Types : \A u \in Types \ {t} :
          OfType(items', u) = OfType(items, u)]_vars

View(s, what) == IF what = Everything THEN s ELSE OfType(s, what)

(* What an enumerator has yielded when it yields is the beginning of the   *)
(* collection as it is then: nothing twice, nothing left out, although     *)
(* the collection is changed while it is under way.                        *)
YieldsCurrent ==
  [][\A r \in Readers : Len(seen'[r]) > Len(seen[r]) =>
       seen'[r] = View(SubSeq(items, 1, at'[r]), over[r])]_vars

(* An enumeration that ends without an exception has yielded all of the    *)
(* collection, as it is at that time.                                      *)
EnumerationComplete ==
  last.kind = "enumerated" => last.seen = View(items, last.over)

(* CopyTo of a view checks the room it needs: it writes all of the view,   *)
(* from the index on and nothing else, and never past the array.           *)
CopyToFits ==
  /\ last.kind # "IndexOutOfRangeException"
  /\ last.kind = "copied" =>
       LET view == OfType(items, last.type)
       IN \A i \in DOMAIN last.array :
            last.array[i] = IF i - last.from + 1 \in DOMAIN view
                              THEN view[i - last.from + 1] ELSE Nothing

=============================================================================
