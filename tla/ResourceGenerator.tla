------------------------- MODULE ResourceGenerator --------------------------
(***************************************************************************)
(* tools/S2ProtocolJsonGenerator/Program.cs.  A run of the tool reads the  *)
(* protocol files embedded in it, puts builds with equal tables into one   *)
(* group, writes one payload for each group and a manifest that says which *)
(* payload serves which build, and deletes the payloads of earlier runs.   *)
(* It may be stopped between any two steps.  The library embeds whatever   *)
(* is in the directory when it is built.                                   *)
(***************************************************************************)
EXTENDS Integers, Sequences

CONSTANTS
  Builds,      \* the builds of all the protocol files
  Tables,      \* what the parser makes of the file of a build
  Hash,        \* SHA256 of that, written down as JSON
  Unsupported, \* builds whose file the parser refuses
  Releases,    \* the sets of files the tool embeds, one after the other
  Legacy,      \* builds that already have a payload
  MaxCrashes   \* bound: runs that are stopped half-way

ASSUME BuildsAssumption ==
  /\ Builds \subseteq Nat
  /\ Legacy \subseteq Builds
  /\ Unsupported \subseteq Builds

(* A hash is one of the tables, not of the build.                          *)
ASSUME HashAssumption ==
  \A b, c \in Builds : Tables[b] = Tables[c] => Hash[b] = Hash[c]

ASSUME ReleasesAssumption ==
  /\ Len(Releases) \in Nat \ {0}
  /\ DOMAIN Releases = 1 .. Len(Releases)
  /\ \A i \in DOMAIN Releases :
       Releases[i] \subseteq Builds /\ Releases[i] # {}
  /\ MaxCrashes \in Nat

VARIABLES
  release,   \* which of the Releases the tool embeds
  pc,        \* where the run is
  parsed,    \* the builds whose files have been read
  groups,    \* the groups of payloadGroupsByHash, each a set of builds
  outputs,   \* the builds whose payloads are still to be written
  payloads,  \* on disk: what protocol{b}.json is
  manifest,  \* on disk: what protocol-versions.json is
  versions,  \* the payload of each build that the manifest gives
  crashes

vars == << release, pc, parsed, groups, outputs, payloads, manifest,
           versions, crashes >>

disk == << payloads, manifest, versions >>

FileStates == {"absent", "torn", "whole"}

Lowest(S) == CHOOSE b \in S : \A c \in S : b <= c

-----------------------------------------------------------------------------
(* The groups.                                                             *)

Input == Releases[release]
Unread == Input \ parsed

(* The list that payloadGroupsByHash has for the hash of b, and the group  *)
(* in it whose NormalizedJson is that of b.                                *)
HashGroups(b) == { g \in groups : \E c \in g : Hash[c] = Hash[b] }

PayloadGroup(b) == { g \in HashGroups(b) : \E c \in g : Tables[c] = Tables[b] }

(* Bug: the newest build of a group names the payload.                     *)
CanonicalVersionLast(g) == CHOOSE b \in g : \A c \in g : c <= b

(* After Sort, the first of a group names and fills the payload.           *)
CanonicalVersion(g) == Lowest(g)

Outputs == { CanonicalVersion(g) : g \in groups }

VersionMap ==
  [b \in UNION groups |->
     CanonicalVersion(CHOOSE g \in groups : b \in g)]

-----------------------------------------------------------------------------
(* A run of the tool.                                                      *)

StartRun ==
  /\ pc \in {"stopped", "done"}
  /\ pc' = "parse"
  /\ parsed' = {}
  /\ groups' = {}
  /\ UNCHANGED << release, outputs, disk, crashes >>

(* The names of the resources are sorted, and all have five digits.        *)
ParseResource ==
  LET b == Lowest(Unread) IN
  /\ pc = "parse"
  /\ Unread # {}
  /\ b \notin Unsupported
  /\ parsed' = parsed \cup {b}
  /\ groups' = (groups \ PayloadGroup(b)) \cup {(UNION PayloadGroup(b)) \cup {b}}
  /\ UNCHANGED << release, pc, outputs, disk, crashes >>

ParseFails ==
  /\ pc = "parse"
  /\ Unread # {}
  /\ Lowest(Unread) \in Unsupported
  /\ pc' = "stopped"
  /\ UNCHANGED << release, parsed, groups, outputs, disk, crashes >>

PrepareOutputs ==
  /\ pc = "parse"
  /\ Unread = {}
  /\ outputs' = Outputs
  /\ pc' = "open"
  /\ UNCHANGED << release, parsed, groups, disk, crashes >>

(* WriteAllBytes empties the file and then writes it.                      *)
OpenPayload ==
  /\ pc = "open"
  /\ outputs # {}
  /\ payloads' = [payloads EXCEPT ![Lowest(outputs)] = "torn"]
  /\ pc' = "write"
  /\ UNCHANGED << release, parsed, groups, outputs, manifest, versions, crashes >>

WritePayload ==
  /\ pc = "write"
  /\ outputs # {}
  /\ payloads' = [payloads EXCEPT ![Lowest(outputs)] = "whole"]
  /\ outputs' = outputs \ {Lowest(outputs)}
  /\ pc' = "open"
  /\ UNCHANGED << release, parsed, groups, manifest, versions, crashes >>

(* Bug: the stale payloads are deleted before the manifest is replaced.    *)
OpenManifestDeletesFirst ==
  /\ pc = "open"
  /\ outputs = {}
  /\ manifest' = manifest
  /\ payloads' = [b \in Builds |-> IF b \in Outputs THEN payloads[b]
                                   ELSE "absent"]
  /\ pc' = "write"
  /\ UNCHANGED << release, parsed, groups, outputs, versions, crashes >>

(* The manifest is the last of the outputs.                                *)
OpenManifest ==
  /\ pc = "open"
  /\ outputs = {}
  /\ manifest' = "torn"
  /\ pc' = "write"
  /\ UNCHANGED << release, parsed, groups, outputs, payloads, versions, crashes >>

WriteManifest ==
  /\ pc = "write"
  /\ outputs = {}
  /\ manifest' = "whole"
  /\ versions' = VersionMap
  /\ pc' = "delete"
  /\ UNCHANGED << release, parsed, groups, outputs, payloads, crashes >>

(* Payloads in the directory that are not among the outputs.               *)
Stale == { b \in Builds : payloads[b] # "absent" /\ b \notin Outputs }

DeleteStale ==
  /\ pc = "delete"
  /\ \E b \in Stale : payloads' = [payloads EXCEPT ![b] = "absent"]
  /\ UNCHANGED << release, pc, parsed, groups, outputs, manifest, versions,
                  crashes >>

EndRun ==
  /\ pc = "delete"
  /\ Stale = {}
  /\ pc' = "done"
  /\ UNCHANGED << release, parsed, groups, outputs, disk, crashes >>

-----------------------------------------------------------------------------
(* What happens to the tool.                                               *)

(* It is killed, or a read, a write or a delete throws.                    *)
Crash ==
  /\ pc \notin {"stopped", "done"}
  /\ crashes < MaxCrashes
  /\ crashes' = crashes + 1
  /\ pc' = "stopped"
  /\ UNCHANGED << release, parsed, groups, outputs, disk >>

(* The maintainers embed other files.                                      *)
NextRelease ==
  /\ pc \in {"stopped", "done"}
  /\ release < Len(Releases)
  /\ release' = release + 1
  /\ pc' = "stopped"
  /\ UNCHANGED << parsed, groups, outputs, disk, crashes >>

Init ==
  /\ release = 1
  /\ pc = "stopped"
  /\ parsed = {}
  /\ groups = {}
  /\ outputs = {}
  /\ payloads = [b \in Builds |-> IF b \in Legacy THEN "whole" ELSE "absent"]
  /\ manifest = "absent"
  /\ versions = << >>
  /\ crashes = 0

Next ==
  \/ StartRun
  \/ ParseResource
  \/ ParseFails
  \/ PrepareOutputs
  \/ OpenPayload
  \/ WritePayload
  \/ OpenManifest
  \/ WriteManifest
  \/ DeleteStale
  \/ EndRun
  \/ Crash
  \/ NextRelease

Spec == Init /\ [][Next]_vars

-----------------------------------------------------------------------------
(* Properties.                                                             *)

(* The earliest of the builds in S that have the tables of b.              *)
Canonical(b, S) == Lowest({ c \in S : Tables[c] = Tables[b] })

TypeOK ==
  /\ release \in DOMAIN Releases
  /\ pc \in {"stopped", "parse", "open", "write", "delete", "done"}
  /\ parsed \subseteq Builds
  /\ \A g \in groups : g \subseteq Builds
  /\ outputs \subseteq Builds
  /\ payloads \in [Builds -> FileStates]
  /\ manifest \in FileStates
  /\ DOMAIN versions \subseteq Builds
  /\ \A b \in DOMAIN versions : versions[b] \in Builds
  /\ crashes \in 0 .. MaxCrashes

(* What README.md of the tool promises of a run that ends: every build it  *)
(* was given is in the manifest, with the earliest build of the same       *)
(* tables as its payload, and there are no other payloads, whatever        *)
(* earlier runs left, also those that were stopped.                        *)
OutputsExact ==
  pc = "done" =>
    /\ manifest = "whole"
    /\ versions = [b \in Input |-> Canonical(b, Input)]
    /\ \A b \in Builds :
         payloads[b] = IF \E c \in Input : b = versions[c] THEN "whole"
                       ELSE "absent"

(* Whenever the library is built, also between two steps of a run and      *)
(* after one that was stopped: a manifest that can be read names only      *)
(* payloads that exist and have the tables of the build.  (They may be     *)
(* torn, which the library notices.)                                       *)
ManifestNeverDangles ==
  manifest = "whole" =>
    \A b \in DOMAIN versions :
      /\ payloads[versions[b]] # "absent"
      /\ Tables[versions[b]] = Tables[b]

=============================================================================
