--------------------------- MODULE ArrayOwnership ---------------------------
(***************************************************************************)
(* What the reads of all decodes promise about the arrays they share:      *)
(* an array has one owner at a time, only a reader that owns it writes     *)
(* it, and once a caller owns it nobody does.                              *)
(***************************************************************************)
CONSTANTS Arrays, Readers

VARIABLES
  owner,   \* who owns each array
  bytes    \* what each array holds

vars == <<owner, bytes>>

(* The owners: nobody yet, the pool, one reader, the caller that was given *)
(* a view of the array, or nobody any more.                                *)
Unused    == [kind |-> "unused"]
Pool      == [kind |-> "pool"]
Reader(r) == [kind |-> "reader", reader |-> r]
Caller    == [kind |-> "caller"]
Garbage   == [kind |-> "garbage"]

Pass(b, from, to) ==
  /\ owner[b] \in from
  /\ owner' = [owner EXCEPT ![b] = to]
  /\ UNCHANGED bytes

Take(r, b)     == Pass(b, {Unused, Pool}, Reader(r))
GiveBack(r, b) == Pass(b, {Reader(r)}, Pool)
HandOver(r, b) == Pass(b, {Reader(r)}, Caller)
Drop(r, b)     == Pass(b, {Reader(r)}, Garbage)

(* The owner writes its array and no other.                                *)
Write(r, b) ==
  /\ owner[b] = Reader(r)
  /\ \A c \in Arrays \ {b} : bytes'[c] = bytes[c]
  /\ UNCHANGED owner

Init == owner = [b \in Arrays |-> Unused]

Next ==
  \E r \in Readers, b \in Arrays :
    Take(r, b) \/ GiveBack(r, b) \/ HandOver(r, b) \/ Drop(r, b)
      \/ Write(r, b)

Spec == Init /\ [][Next]_vars

=============================================================================
