-------------------------- MODULE MCTypeInfoLoader --------------------------
(***************************************************************************)
(* Instances of TypeInfoLoader for TLC.  The shapes come from the shipped  *)
(* protocol-versions.json: a canonical version with aliases above it       *)
(* (16561 serves 16605), and versions that are their own payload.          *)
(***************************************************************************)
EXTENDS TypeInfoLoaderProofs, TLC

Entry(v, p) == [version |-> v, payload |-> p]

(* Versions 20 and 30 share payload 20; 50 is its own.                     *)
GoodManifest == << Entry(20, 20), Entry(30, 20), Entry(50, 50) >>
GoodResources == {20, 50}

(* The same with a last entry whose payload is not among the resources.    *)
TornManifest == << Entry(20, 20), Entry(30, 20), Entry(50, 50) >>
TornResources == {20}

(* Below every version, an alias, and between two versions.  The latest    *)
(* version, 50, is what GetLatestVersion asks for.                         *)
SomeRequests == {10, 25, 30}

=============================================================================
