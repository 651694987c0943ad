---------------------------- MODULE MCEventStore ----------------------------
(***************************************************************************)
(* Instances of the event stores for TLC: two events of one type, one of   *)
(* another, an event of an unknown schema that claims to be of the first   *)
(* type, and one whose type is none of the known ones.                     *)
(***************************************************************************)
EXTENDS EventStore

CONSTANTS born1, died1, fakeBorn, strange, Born, Died

ThreeEvents == {born1, died1, fakeBorn}
FourEvents  == ThreeEvents \cup {strange}
SomeTypes   == [e \in Events |->
                  CASE e = died1 -> Died
                    [] e \in {born1, fakeBorn} -> Born
                    [] OTHER -> Unknown]

=============================================================================
