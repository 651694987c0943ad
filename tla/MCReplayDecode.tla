--------------------------- MODULE MCReplayDecode ---------------------------
(***************************************************************************)
(* Instances of ReplayDecode for TLC.  Three sections stand for the seven: *)
(* the code treats all of them alike, one after the other.                 *)
(***************************************************************************)
EXTENDS ReplayDecode, TLC

ThreeSections == <<"details", "trackerEvents", "gameEvents">>

=============================================================================
