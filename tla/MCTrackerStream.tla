--------------------------- MODULE MCTrackerStream ---------------------------
(***************************************************************************)
(* An instance of TrackerStream for TLC: a table with a type of each kind, *)
(* and a newer one that adds to a struct, to a choice, and an event.       *)
(***************************************************************************)
EXTENDS TrackerStreamRefinement, TLC

NoMembers == [n \in {} |-> "none"]

Plain(kind)    == [kind |-> kind, item |-> Opaque,
                   fields |-> NoMembers, choices |-> NoMembers]
Of(kind, t)    == [Plain(kind) EXCEPT !.item = t]
StructOf(f)    == [Plain("struct") EXCEPT !.fields = f]
ChoiceOf(c)    == [Plain("choice") EXCEPT !.choices = c]

Table ==
  [delta  |-> ChoiceOf(0 :> "number" @@ 1 :> "flag"),
   number |-> Plain("int"),    flag   |-> Plain("bool"),
   text   |-> Plain("blob"),   bits   |-> Plain("bitArray"),
   code   |-> Plain("fourCc"), float  |-> Plain("real32"),
   double |-> Plain("real64"),
   list   |-> Of("array", "text"), maybe |-> Of("optional", "code"),
   died   |-> StructOf(0 :> "list" @@ 1 :> "bits"),
   born   |-> StructOf(0 :> "maybe" @@ 1 :> "float" @@ 2 :> "double")]

NewerTable ==
  [delta |-> ChoiceOf(0 :> "number" @@ 1 :> "flag" @@ 2 :> "double"),
   died  |-> StructOf(0 :> "list" @@ 1 :> "bits" @@ 2 :> "point"),
   point |-> StructOf(0 :> "number" @@ 1 :> "list")] @@ Table

Events      == 0 :> "born" @@ 1 :> "died"
NewerEvents == Events @@ (2 :> "point")

SmallInts == -1 .. 2
Forms     == 0 .. 10

=============================================================================
