----------------------------- MODULE WireFormat -----------------------------
(***************************************************************************)
(* What a tagged stream promises whoever reads it: it can be cut into      *)
(* instances without knowing a single type.  A byte tells the form of an   *)
(* instance and, where the form is composite, a number how many instances  *)
(* are inside.  Readers with tables of types must cut it at the same       *)
(* places.                                                                 *)
(*                                                                         *)
(* An instance is the number that names it, or none, the byte of its form, *)
(* and more units: a number is one unit here, however many bytes it is     *)
(* spread over, and so is a run of bytes, whatever is in them.             *)
(***************************************************************************)
EXTENDS Integers, Sequences

CONSTANT Ints   \* the numbers in the stream

VARIABLES
  read,       \* what was read last
  open,       \* the instances begun, each with how many are left inside
  instances   \* instances cut off so far, those inside others not counted

vars == <<read, open, instances>>

Number(n)   == [unit |-> "number", value |-> n]
Bytes(n)    == [unit |-> "bytes", value |-> n]
Flag(there) == [unit |-> "flag", value |-> there]

(* n instances, bare or each after a number that names it.                 *)
Inside(n, named) == [left |-> IF n < 0 THEN 0 ELSE n, tagged |-> named]

Innermost == open[Len(open)]

(* An instance begins inside the innermost one: it is read up to what is   *)
(* inside of it.                                                           *)
Instance(form, units, inside) ==
  /\ open # <<>> /\ Innermost.left > 0
  /\ \E name \in {<<>>} \cup {<<n>> : n \in Ints} :
       /\ Innermost.tagged <=> name # <<>>
       /\ read' = [name |-> name, form |-> form, units |-> units]
  /\ open' = [open EXCEPT ![Len(open)] =
                [left |-> @.left - 1, tagged |-> @.tagged]] \o inside
  /\ UNCHANGED instances

Array  == \E n \in Ints : Instance(0, <<Number(n)>>, <<Inside(n, FALSE)>>)
Struct == \E n \in Ints : Instance(5, <<Number(n)>>, <<Inside(n, TRUE)>>)
Choice == \E n \in Ints : Instance(3, <<Number(n)>>, <<Inside(1, FALSE)>>)

Optional ==
  \/ Instance(4, <<Flag(TRUE)>>, <<Inside(1, FALSE)>>)
  \/ Instance(4, <<Flag(FALSE)>>, <<>>)

(* The bytes that n bits need.                                             *)
BytesOf(n) == IF n <= 0 THEN 0 ELSE 1 + ((n - 1) \div 8)

BitBlob ==
  \E n \in Ints : Instance(1, <<Number(n), Bytes(BytesOf(n))>>, <<>>)

Blob ==
  \E n \in Ints : n >= 0 /\ Instance(2, <<Number(n), Bytes(n)>>, <<>>)

Fixed ==
  \/ Instance(6, <<Bytes(1)>>, <<>>)
  \/ Instance(7, <<Bytes(4)>>, <<>>)
  \/ Instance(8, <<Bytes(8)>>, <<>>)

VInt == \E n \in Ints : Instance(9, <<Number(n)>>, <<>>)

(* The next instance of the stream.                                        *)
Begin ==
  /\ open = <<>>
  /\ open' = <<Inside(1, FALSE)>>
  /\ UNCHANGED <<read, instances>>

(* Nothing is left inside the innermost instance.                          *)
Close ==
  /\ open # <<>> /\ Innermost.left = 0
  /\ open' = SubSeq(open, 1, Len(open) - 1)
  /\ instances' = IF Len(open) = 1 THEN instances + 1 ELSE instances
  /\ UNCHANGED read

Init == read = <<>> /\ open = <<>> /\ instances = 0

Next == \/ Begin \/ Close
        \/ Array \/ Struct \/ Choice \/ Optional
        \/ BitBlob \/ Blob \/ Fixed \/ VInt

Spec == Init /\ [][Next]_vars

=============================================================================
