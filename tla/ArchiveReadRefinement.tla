----------------------- MODULE ArchiveReadRefinement -----------------------
(***************************************************************************)
(* ArchiveRead implements ArrayOwnership.                                  *)
(***************************************************************************)
EXTENDS ArchiveRead

(* Who owns an array.  The pool comes first: an array it holds is one it   *)
(* may lend at any moment, whoever else still uses it.                     *)
OwnerOf(b) ==
  IF pool[b] > 0 THEN [kind |-> "pool"]
  ELSE IF \E t \in Tasks : raw[t] = b
  THEN [kind |-> "reader", reader |-> CHOOSE t \in Tasks : raw[t] = b]
  ELSE IF \E m \in held : m.buffer = b THEN [kind |-> "caller"]
  ELSE IF origin[b] = "unused" THEN [kind |-> "unused"]
  ELSE [kind |-> "garbage"]

Ownership == INSTANCE ArrayOwnership
               WITH Arrays  <- Buffers,
                    Readers <- Tasks,
                    owner   <- [b \in Buffers |-> OwnerOf(b)],
                    bytes   <- content

(* Every step of a read passes one array on, writes the array the reader   *)
(* owns, or touches none.                                                  *)
ImplementsOwnership == Ownership!Spec

=============================================================================
