----------------------- MODULE EventStreamRefinement -----------------------
(***************************************************************************)
(* EventStream implements BlizzardStream, as long as they agree: up to the *)
(* first event with an unknown id, where the Python functions raise and    *)
(* the library goes on, or up to the first game loop that no int holds.    *)
(*                                                                         *)
(* agreed.until says how the two have parted ("now" if they have not),     *)
(* agreed.events and agreed.at where they stood after the last event they  *)
(* agreed about.                                                           *)
(***************************************************************************)
EXTENDS EventStream

AgreedEvents == SubSeq(events, 1, agreed.events)

AgreedStatus ==
  CASE agreed.until = "overflow" -> "decoding"
    [] agreed.until = "unknown"  -> "corrupted"
    [] agreed.until = "now" ->
         CASE phase = "failed" -> "corrupted"
           [] phase = "done"   -> "done"
           [] OTHER            -> "decoding"

Blizzard == INSTANCE BlizzardStream WITH
  pos      <- agreed.at,
  gameloop <- IF agreed.events = 0 THEN 0
              ELSE events[agreed.events].gameloop,
  events   <- AgreedEvents,
  status   <- AgreedStatus

(* Until they part, the library yields the events that the Python          *)
(* functions yield, with the same values, game loops and numbers of bits,  *)
(* and throws exactly when they raise.                                     *)
ImplementsBlizzard == Blizzard!Spec

=============================================================================
