--------------------------- MODULE ProtocolFiles ---------------------------
(***************************************************************************)
(* The generator on files of protocols: what it works with is what its     *)
(* parser makes of the lines of each file.                                 *)
(***************************************************************************)
EXTENDS ResourceGenerator, ProtocolParser

CONSTANT Bound  \* what Python binds, for each build that is supported

(* What a file binds: the rows of a table of events are a dictionary.      *)
IsProtocol(p) ==
  /\ p = [n \in Names |-> p[n]]
  /\ \A t \in ToSet(EventTables) :
       LET names == p[t].names IN
       p[t] = Events(p[t].typeids, [id \in DOMAIN names |-> names[id]])

ASSUME FilesAssumption ==
  \A b \in DOMAIN Bound :
    IsProtocol(Bound[b]) /\ Tables[b] = Parse(Lines(Bound[b])).version

(* What the parser makes of a file is what Python binds when it runs it.   *)
Misparsed == { b \in DOMAIN Bound : Tables[b] # Bound[b] }

ParsedIsBound == parsed \cap Misparsed = {}

============================================================================
