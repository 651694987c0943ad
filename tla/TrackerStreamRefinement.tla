----------------------- MODULE TrackerStreamRefinement -----------------------
(***************************************************************************)
(* The decoder of tracker events cuts its stream as WireFormat does: its   *)
(* loops are the instances begun, without their types, and each event is   *)
(* three instances.                                                        *)
(***************************************************************************)
EXTENDS TrackerStream

Untyped == [i \in 1 .. Len(frames) |->
              [left |-> frames[i].left, tagged |-> frames[i].tagged]]

(* The instances of the event that are over.                               *)
PhaseIndex == IF phase = "delta" THEN 0 ELSE IF phase = "id" THEN 1 ELSE 2

Wire == INSTANCE WireFormat WITH
          open <- Untyped,
          instances <- 3 * Len(events) + PhaseIndex

(* Reading by type and skipping by form consume the same units of every    *)
(* stream, at any depth, so the decoder is at the start of an instance     *)
(* whenever it takes a byte for one, and every event is exactly its three. *)
ImplementsWire == Wire!Spec

=============================================================================
