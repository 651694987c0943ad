-------------------------- MODULE ProtocolRegistry --------------------------
(***************************************************************************)
(* What the registry of decoder tables promises its callers, with no lock, *)
(* no cache and no initialization: the public face of TypeInfoLoader.      *)
(*                                                                         *)
(* A payload is loaded at most once and the attempt has one result for the *)
(* life of the process.  A version is one object, handed out from the      *)
(* first answer on, that points to the tables of its payload.  A call ends *)
(* with the object of the nearest version below the request, or throws:    *)
(* when there is no such version, or when its payload failed.              *)
(***************************************************************************)
EXTENDS Integers

CONSTANTS
  Threads,     \* the callers
  Versions,    \* the version numbers known
  PayloadOf,   \* the payload of each version
  Requests,    \* the version numbers callers ask for
  Newest,      \* what GetLatestVersion asks for
  Nil,
  Failed

VARIABLES
  tables,      \* of a payload: the identity of its tables, Nil, or Failed
  object,      \* of a version: its object, or Nil
  asked,       \* the version number the last call of a thread asks for
  answer       \* how that call ended, or that it has not

vars == <<tables, object, asked, answer>>

Payloads == { PayloadOf[v] : v \in Versions }

Pending     == [kind |-> "none"]
Returned(o) == [kind |-> "returned", object |-> o]
Threw(x)    == [kind |-> "threw", exception |-> x]

Below(n) == { v \in Versions : v <= n }
Nearest(n) == CHOOSE v \in Below(n) : \A w \in Below(n) : w <= v

Init ==
  /\ tables = [p \in Payloads |-> Nil]
  /\ object = [v \in Versions |-> Nil]
  /\ asked = [t \in Threads |-> 0]
  /\ answer = [t \in Threads |-> Pending]

(* A thread calls LoadTypeInfos(n), or GetLatestVersion for Newest.        *)
Ask(t) ==
  /\ \E n \in Requests \union {Newest} : asked' = [asked EXCEPT ![t] = n]
  /\ answer' = [answer EXCEPT ![t] = Pending]
  /\ UNCHANGED <<tables, object>>

(* The one attempt at a payload: tables of its own, or a failure.          *)
Load(p) ==
  /\ tables[p] = Nil
  /\ tables'[p] # Nil
  /\ tables'[p] # Failed => \A q \in Payloads : tables[q] # tables'[p]
  /\ tables' = [tables EXCEPT ![p] = tables'[p]]
  /\ UNCHANGED <<object, asked, answer>>

(* The object that answers a version: the one already handed out, or one   *)
(* with an identity nobody has, over the tables of the payload.            *)
IsObjectOf(o, v) ==
  IF object[v] # Nil
  THEN o = object[v]
  ELSE /\ o # Nil
       /\ o.version = v
       /\ o.tables = tables[PayloadOf[v]]
       /\ \A w \in Versions : object[w] # Nil => object[w].id # o.id

Loaded(p) == tables[p] \notin {Nil, Failed}

Answer(t) ==
  LET v == Nearest(asked[t]) IN
  /\ answer[t] = Pending
  /\ Below(asked[t]) # {}
  /\ Loaded(PayloadOf[v])
  /\ IsObjectOf(object'[v], v)
  /\ object' = [object EXCEPT ![v] = object'[v]]
  /\ answer' = [answer EXCEPT ![t] = Returned(object'[v])]
  /\ UNCHANGED <<tables, asked>>

(* No version is near, or the payload of the nearest has failed.           *)
Refuse(t) ==
  /\ answer[t] = Pending
  /\ \/ /\ Below(asked[t]) = {}
        /\ answer' = [answer EXCEPT ![t] = Threw("DecodeException")]
        /\ UNCHANGED tables
     \/ /\ Below(asked[t]) # {}
        /\ LET p == PayloadOf[Nearest(asked[t])] IN
           /\ ~Loaded(p)
           /\ tables' = [tables EXCEPT ![p] = Failed]
        /\ answer' = [answer EXCEPT ![t] = Threw("FactoryException")]
  /\ UNCHANGED <<object, asked>>

Next ==
  \/ \E p \in Payloads : Load(p)
  \/ \E t \in Threads : Ask(t) \/ Answer(t) \/ Refuse(t)

Spec == Init /\ [][Next]_vars

=============================================================================
