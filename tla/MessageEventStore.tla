------------------------- MODULE MessageEventStore --------------------------
(***************************************************************************)
(* MessageEventStore of Models/MessageEvents.cs: the store of tracker      *)
(* events over again, with a field per count, and with init accessors that *)
(* replace the events of one type while the object is being built.  Nobody *)
(* can enumerate the new store before that.                                *)
(***************************************************************************)
EXTENDS EventStore

VARIABLE built   \* the object initializer is through

messageVars == <<vars, built>>

(* Bug: the old events go, their count stays.                              *)
ReplaceKeepingCount(t, new) ==
  /\ items' = Compact(items, t) \o new
  /\ counts' = AddRange(counts, new)

(* Replace: Clear of the type, then AddRange.                              *)
Replace(t, new) ==
  /\ items' = Compact(items, t) \o new
  /\ counts' = AddRange([counts EXCEPT ![t] = 0], new)

(* The init accessors of ChatMessages and PingMessages.                    *)
InitView ==
  /\ ~built
  /\ \E t \in Counted :
       \E new \in BoundedSeq({ e \in Events \ Impostors : TypeOf[e] = t },
                             MaxItems - Len(Compact(items, t))) :
         Replace(t, new)
  /\ UNCHANGED <<readers, last, built>>

Built ==
  /\ ~built /\ built' = TRUE
  /\ UNCHANGED vars

MessageInit == StoreInit /\ built = FALSE

MessageNext ==
  \/ InitView
  \/ Built
  \/ built /\ StoreNext /\ UNCHANGED built

MessageSpec == MessageInit /\ [][MessageNext]_messageVars

=============================================================================
