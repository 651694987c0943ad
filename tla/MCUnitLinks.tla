----------------------------- MODULE MCUnitLinks -----------------------------
(***************************************************************************)
(* Instances of UnitLinks for TLC: an index of two bits and a recycle      *)
(* count of two.  The tags are neighbours of each other in either part,    *)
(* and one of them is of the half of the words that is negative.           *)
(***************************************************************************)
EXTENDS UnitLinks

ThreeTags == { [index |-> 0, recycle |-> 2], [index |-> 1, recycle |-> 0],
               [index |-> 3, recycle |-> 2] }

=============================================================================
