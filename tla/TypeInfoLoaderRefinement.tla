---------------------- MODULE TypeInfoLoaderRefinement ----------------------
(***************************************************************************)
(* TypeInfoLoader implements ProtocolRegistry, for a manifest it accepts.  *)
(*                                                                         *)
(* The tables of a payload exist for the callers when its Lazy has its     *)
(* result; a version is handed out when it enters _typeInfoCache; a call   *)
(* of GetLatestVersion asks for the newest version from its start, though  *)
(* the code reads _latestProtocolVersion only after Initialize.            *)
(***************************************************************************)
EXTENDS TypeInfoLoader

CONSTANT Failed

ASSUME FailedAssumption == Failed \notin Int \union {Nil}

TablesOf(p) ==
  CASE lazy[p].state = "value"  -> lazy[p].object.tables
    [] lazy[p].state = "failed" -> Failed
    [] OTHER                    -> Nil

Registry == INSTANCE ProtocolRegistry WITH
  Newest <- Greatest(Versions),
  tables <- [p \in { PayloadOf[v] : v \in Versions } |-> TablesOf(p)],
  object <- typeInfoCache,
  asked  <- [t \in Threads |->
               IF op[t] = "latest" THEN Greatest(Versions) ELSE arg[t]],
  answer <- outcome

(* Every step of the loader is a step of the registry or none at all: no   *)
(* interleaving lets a caller see an intermediate state.                   *)
RegistrySpec == Registry!Spec

=============================================================================
