------------------------ MODULE MCMessageEventStore -------------------------
(***************************************************************************)
(* The instance of MCEventStore for the store of message events.           *)
(***************************************************************************)
EXTENDS MessageEventStore, MCEventStore

=============================================================================
