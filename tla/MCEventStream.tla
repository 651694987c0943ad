--------------------------- MODULE MCEventStream ---------------------------
(***************************************************************************)
(* An instance of EventStream for TLC: bytes of two bits, ints of three,   *)
(* longs of four.  The types are those of the protocol files in small: the *)
(* delta is a choice among numbers of two widths, of which one may be too  *)
(* big for an int, the user id is a struct; there is a number as wide as a *)
(* long whose least value is the least long, a choice whose tag has more   *)
(* values than it has alternatives, and a bit array that may be longer     *)
(* than a long.                                                            *)
(***************************************************************************)
EXTENDS EventStreamRefinement, TLC

Numbers(least, n) == [kind |-> "int", min |-> least, bits |-> n]
Plain(kind, n)    == [kind |-> kind, min |-> 0, bits |-> n]
Struct(fields)    == [kind |-> "struct", min |-> 0, bits |-> 0, fields |-> fields]
Of(kind, n, item) == [kind |-> kind, min |-> 0, bits |-> n, item |-> item]
Choice(n, cs)     == [kind |-> "choice", min |-> 0, bits |-> n, choices |-> cs]

bit    == 0
number == 1
wide   == 2
long   == 3
null   == 4
bool   == 5
blob   == 6
mask   == 7
target == 8
maybe  == 9
list   == 10
delta  == 11
user   == 12
chat   == 13
cmd    == 14
select == 15

Types ==
     bit    :> Numbers(0, 1)
  @@ number :> Numbers(0, 2)
  @@ wide   :> Numbers(0, 3)
  @@ long   :> Numbers(-8, 4)
  @@ null   :> Plain("null", 0)
  @@ bool   :> Plain("bool", 1)
  @@ blob   :> Plain("blob", 1)
  @@ mask   :> Plain("bitArray", 3)
  @@ target :> Choice(2, 0 :> null @@ 1 :> bit @@ 2 :> blob)
  @@ maybe  :> Of("optional", 1, target)
  @@ list   :> Of("array", 1, long)
  @@ delta  :> Choice(1, 0 :> bit @@ 1 :> wide)
  @@ user   :> Struct(<<bit>>)
  @@ chat   :> Struct(<<blob, bool>>)
  @@ cmd    :> Struct(<<maybe, list>>)
  @@ select :> Struct(<<mask>>)

SomeEvents == 0 :> chat @@ 1 :> cmd @@ 2 :> select

UpTo(n) == UNION { [1 .. k -> Byte] : k \in 0 .. n }

(* An event select with an empty bit array, and the first bytes of one     *)
(* whose bit array has four bits or more and begins with a byte.           *)
Selects     == { <<first, second, {}, {}>> : first \in {{}, {1}},
                                             second \in {{1}, {0, 1}} }
LongSelects == { <<{}, {1}, {1}, b>> : b \in Byte }

After(starts, n) == { s \o t : s \in starts, t \in UpTo(n) }

SomeStreams ==
  After({<<>>, <<{}>>}, 5) \union After(Selects \union LongSelects, 4)

=============================================================================
