----------------------- MODULE ResourceGeneratorProofs -----------------------
(***************************************************************************)
(* Proofs about ResourceGenerator and ProtocolParser, for all protocol     *)
(* files and hashes, any releases and any number of runs that are stopped. *)
(***************************************************************************)
EXTENDS ProtocolFiles, WellFoundedInduction, TLAPS

-----------------------------------------------------------------------------
(* The least of a set of builds.                                           *)

(* Sort and Min find the earliest build of any set that has one.           *)
LEMMA LowestIsLeast ==
  ASSUME NEW S \in SUBSET Nat, S # {}
  PROVE  /\ Lowest(S) \in S
         /\ \A c \in S : Lowest(S) <= c
<1> DEFINE Less == { pair \in Nat \X Nat : pair[1] < pair[2] }
<1>1. IsWellFoundedOn(Less, Nat)
  BY NatLessThanWellFounded, Zenon DEF OpToRel
<1> HIDE DEF Less
<1>2. PICK b \in S : \A c \in S : ~ (<<c, b>> \in Less)
  BY <1>1, WFMin, Zenon
<1>3. ASSUME NEW c \in S
      PROVE  b <= c
  <2>1. c \in Nat /\ b \in Nat
    OBVIOUS
  <2>2. ~ (c < b)
    BY <1>2, <2>1 DEF Less
  <2> QED BY <2>1, <2>2
<1> QED BY <1>3 DEF Lowest

-----------------------------------------------------------------------------
(* The inductive invariant.                                                *)

(* The groups part the builds that were read by their tables.              *)
Grouped ==
  /\ UNION groups = parsed
  /\ \A g \in groups : g # {}
  /\ \A g, h \in groups : \A b \in g, c \in h : Tables[b] = Tables[c] <=> g = h

(* What was read is of this release, and all of it when outputs are made.  *)
ReadsInput ==
  /\ pc = "parse" => parsed \subseteq Input
  /\ pc \in {"open", "write", "delete", "done"} => parsed = Input

(* The payloads that were written are whole until the run ends.            *)
WritesOutputs ==
  /\ pc \in {"open", "write"} =>
       \A b \in Outputs \ outputs : payloads[b] = "whole"
  /\ pc \in {"delete", "done"} =>
       /\ manifest = "whole"
       /\ versions = VersionMap
       /\ \A b \in Outputs : payloads[b] = "whole"
  /\ pc = "done" => \A b \in Builds \ Outputs : payloads[b] = "absent"

IInv == TypeOK /\ Grouped /\ ReadsInput /\ WritesOutputs /\ ManifestNeverDangles

-----------------------------------------------------------------------------
(* The groups and the manifest made of them.                               *)

LEMMA InputIsBuilds ==
  ASSUME TypeOK
  PROVE  Input \subseteq Builds /\ Builds \subseteq Nat
BY ReleasesAssumption, BuildsAssumption DEF TypeOK, Input

(* The group of a build that was read is all that was read and has its     *)
(* tables.                                                                 *)
LEMMA GroupOfTables ==
  ASSUME Grouped, NEW g \in groups, NEW b \in g
  PROVE  g = { c \in parsed : Tables[c] = Tables[b] }
<1>1. ASSUME NEW c \in g
      PROVE  c \in parsed /\ Tables[c] = Tables[b]
  BY <1>1 DEF Grouped
<1>2. ASSUME NEW c \in parsed, Tables[c] = Tables[b]
      PROVE  c \in g
  <2>1. PICK h \in groups : c \in h
    BY DEF Grouped
  <2> QED BY <1>2, <2>1 DEF Grouped
<1> QED BY <1>1, <1>2

(* The manifest gives every build that was read the earliest build with    *)
(* the same tables, and the outputs are the payloads it gives.             *)
LEMMA VersionMapCanonical ==
  ASSUME TypeOK, Grouped
  PROVE  /\ VersionMap = [b \in parsed |-> Canonical(b, parsed)]
         /\ \A b \in parsed :
              /\ VersionMap[b] \in Outputs \cap parsed
              /\ Tables[VersionMap[b]] = Tables[b]
         /\ \A g \in groups : \E b \in parsed : CanonicalVersion(g) = VersionMap[b]
         /\ Outputs \subseteq Builds
<1>1. parsed \subseteq Nat /\ parsed \subseteq Builds
  BY BuildsAssumption DEF TypeOK
<1>2. ASSUME NEW g \in groups
      PROVE  /\ CanonicalVersion(g) \in g
             /\ g \subseteq parsed
             /\ CanonicalVersion(g) \in Outputs
  <2>1. g \subseteq parsed /\ g # {}
    BY DEF Grouped
  <2>2. Lowest(g) \in g
    BY <1>1, <2>1, LowestIsLeast
  <2> QED BY <2>1, <2>2 DEF CanonicalVersion, Outputs
<1>3. ASSUME NEW b \in parsed
      PROVE  /\ VersionMap[b] = Canonical(b, parsed)
             /\ VersionMap[b] \in Outputs \cap parsed
             /\ Tables[VersionMap[b]] = Tables[b]
             /\ \A g \in groups : b \in g => CanonicalVersion(g) = VersionMap[b]
  <2>1. PICK g \in groups : b \in g
    BY DEF Grouped
  <2>2. \A h \in groups : b \in h => h = g
    BY <2>1 DEF Grouped
  <2>3. (CHOOSE h \in groups : b \in h) = g
    BY <2>1, <2>2
  <2>4. VersionMap[b] = CanonicalVersion(g)
    BY <2>3 DEF VersionMap, Grouped
  <2>5. g = { c \in parsed : Tables[c] = Tables[b] }
    BY <2>1, GroupOfTables
  <2>6. CanonicalVersion(g) = Canonical(b, parsed)
    BY <2>5 DEF CanonicalVersion, Canonical
  <2>7. Tables[CanonicalVersion(g)] = Tables[b]
    BY <1>2, <2>5
  <2> QED BY <1>2, <2>2, <2>4, <2>6, <2>7
<1>4. VersionMap = [b \in parsed |-> Canonical(b, parsed)]
  <2>1. VersionMap = [b \in parsed |-> VersionMap[b]]
    BY DEF VersionMap, Grouped
  <2> QED BY <1>3, <2>1
<1>5. ASSUME NEW g \in groups
      PROVE  \E b \in parsed : CanonicalVersion(g) = VersionMap[b]
  <2>1. PICK b \in g : b \in parsed
    BY <1>2 DEF Grouped
  <2> QED BY <1>3, <2>1
<1>6. Outputs \subseteq Builds
  BY <1>1, <1>2 DEF Outputs
<1> QED BY <1>3, <1>4, <1>5, <1>6

-----------------------------------------------------------------------------
(* Reading one more file.                                                  *)

(* The build joins the group of its tables, whose hash is its own, or is   *)
(* the first of a new one.                                                 *)
LEMMA JoinsGroup ==
  ASSUME TypeOK, Grouped, NEW b \in Builds
  PROVE  LET joined == (UNION PayloadGroup(b)) \cup {b}
             others == groups \ PayloadGroup(b)
         IN /\ \A c \in joined : Tables[c] = Tables[b] /\ c \in parsed \cup {b}
            /\ \A g \in others : \A c \in g : Tables[c] # Tables[b]
            /\ UNION (others \cup {joined}) = parsed \cup {b}
<1> DEFINE joined == (UNION PayloadGroup(b)) \cup {b}
<1> DEFINE others == groups \ PayloadGroup(b)
<1>1. \A g \in groups : g \in PayloadGroup(b) <=> \E c \in g : Tables[c] = Tables[b]
  BY HashAssumption DEF PayloadGroup, HashGroups, TypeOK
<1>2. PayloadGroup(b) \subseteq groups
  BY DEF PayloadGroup, HashGroups
<1>3. ASSUME NEW c \in joined
      PROVE  Tables[c] = Tables[b] /\ c \in parsed \cup {b}
  <2>1. CASE c = b
    BY <2>1
  <2>2. CASE c # b
    <3>1. PICK g \in PayloadGroup(b) : c \in g
      BY <2>2
    <3>2. PICK d \in g : Tables[d] = Tables[b]
      BY <1>1, <1>2
    <3> QED BY <1>2, <3>1, <3>2 DEF Grouped
  <2> QED BY <2>1, <2>2
<1>4. ASSUME NEW g \in others, NEW c \in g
      PROVE  Tables[c] # Tables[b]
  BY <1>1
<1>5. ASSUME NEW c \in parsed \cup {b}
      PROVE  c \in UNION (others \cup {joined})
  <2>1. CASE c = b
    BY <2>1
  <2>2. CASE c \in parsed
    <3>1. PICK g \in groups : c \in g
      BY <2>2 DEF Grouped
    <3> QED BY <3>1
  <2> QED BY <2>1, <2>2
<1>6. ASSUME NEW c \in UNION (others \cup {joined})
      PROVE  c \in parsed \cup {b}
  <2>1. PICK g \in others \cup {joined} : c \in g
    OBVIOUS
  <2>2. CASE g = joined
    BY <1>3, <2>1, <2>2
  <2>3. CASE g \in groups
    BY <2>1, <2>3 DEF Grouped
  <2> QED BY <2>1, <2>2, <2>3
<1> QED BY <1>3, <1>4, <1>5, <1>6

LEMMA ParseKeepsGroups ==
  ASSUME TypeOK, Grouped, NEW b \in Builds,
         parsed' = parsed \cup {b},
         groups' = (groups \ PayloadGroup(b)) \cup {(UNION PayloadGroup(b)) \cup {b}}
  PROVE  Grouped' /\ \A g \in groups' : g \subseteq Builds
<1> DEFINE joined == (UNION PayloadGroup(b)) \cup {b}
<1> DEFINE others == groups \ PayloadGroup(b)
<1>1. /\ \A c \in joined : Tables[c] = Tables[b] /\ c \in parsed \cup {b}
      /\ \A g \in others : \A c \in g : Tables[c] # Tables[b]
      /\ UNION (others \cup {joined}) = parsed \cup {b}
  BY JoinsGroup
<1>2. b \in joined /\ groups' = others \cup {joined} /\ others \subseteq groups
  OBVIOUS
<1> HIDE DEF joined, others
<1>3. UNION groups' = parsed'
  BY <1>1, <1>2
<1>4. \A g \in groups' : g # {}
  BY <1>2 DEF Grouped
<1>5. ASSUME NEW g \in groups', NEW h \in groups', NEW c \in g, NEW d \in h
      PROVE  Tables[c] = Tables[d] <=> g = h
  <2>1. CASE g = joined /\ h = joined
    BY <1>1, <2>1
  <2>2. CASE g = joined /\ h \in others
    <3>1. Tables[c] = Tables[b] /\ Tables[d] # Tables[b]
      BY <1>1, <2>2
    <3>2. g # h
      BY <1>1, <3>1, <2>2
    <3> QED BY <3>1, <3>2
  <2>3. CASE g \in others /\ h = joined
    <3>1. Tables[d] = Tables[b] /\ Tables[c] # Tables[b]
      BY <1>1, <2>3
    <3>2. g # h
      BY <1>1, <3>1, <2>3
    <3> QED BY <3>1, <3>2
  <2>4. CASE g \in others /\ h \in others
    BY <1>2, <2>4 DEF Grouped
  <2> QED BY <1>2, <2>1, <2>2, <2>3, <2>4
<1>6. \A g \in groups' : g \subseteq Builds
  BY <1>1, <1>2 DEF TypeOK
<1> QED BY <1>3, <1>4, <1>5, <1>6 DEF Grouped

-----------------------------------------------------------------------------
(* The steps of a run.                                                     *)

LEMMA InitEstablishesIInv == Init => IInv
BY BuildsAssumption, ReleasesAssumption
   DEF Init, IInv, TypeOK, FileStates, Grouped, ReadsInput, WritesOutputs,
       ManifestNeverDangles

(* What a step keeps that touches neither the groups nor the disk.         *)
LEMMA UnchangedGroups ==
  ASSUME UNCHANGED << parsed, groups >>
  PROVE  /\ Grouped => Grouped'
         /\ Outputs' = Outputs
         /\ VersionMap' = VersionMap
BY DEF Grouped, Outputs, VersionMap

LEMMA UnchangedDisk ==
  ASSUME UNCHANGED disk
  PROVE  ManifestNeverDangles => ManifestNeverDangles'
BY DEF disk, ManifestNeverDangles

LEMMA ParseResourceStep == IInv /\ ParseResource => IInv'
<1> SUFFICES ASSUME IInv, ParseResource PROVE IInv'
  OBVIOUS
<1> DEFINE b == Lowest(Unread)
<1>1. b \in Unread /\ b \in Builds /\ b \in Input
  <2>1. Unread \subseteq Nat /\ Unread # {}
    BY InputIsBuilds DEF IInv, Unread, ParseResource
  <2>2. b \in Unread
    BY <2>1, LowestIsLeast
  <2> QED BY <2>2, InputIsBuilds DEF IInv, Unread
<1>2. /\ parsed' = parsed \cup {b}
      /\ groups' = (groups \ PayloadGroup(b)) \cup {(UNION PayloadGroup(b)) \cup {b}}
  BY DEF ParseResource
<1>3. Grouped' /\ \A g \in groups' : g \subseteq Builds
  BY <1>1, <1>2, ParseKeepsGroups DEF IInv
<1>4. TypeOK'
  BY <1>1, <1>2, <1>3 DEF IInv, TypeOK, ParseResource, disk
<1>5. ReadsInput'
  BY <1>1, <1>2 DEF IInv, ReadsInput, ParseResource, Input
<1>6. WritesOutputs'
  BY DEF WritesOutputs, ParseResource
<1>7. ManifestNeverDangles'
  BY UnchangedDisk DEF IInv, ParseResource
<1> QED BY <1>3, <1>4, <1>5, <1>6, <1>7 DEF IInv

LEMMA PrepareOutputsStep == IInv /\ PrepareOutputs => IInv'
<1> SUFFICES ASSUME IInv, PrepareOutputs PROVE IInv'
  OBVIOUS
<1>1. Outputs \subseteq Builds
  BY VersionMapCanonical DEF IInv
<1>2. Outputs' = Outputs /\ Grouped'
  BY UnchangedGroups DEF IInv, PrepareOutputs
<1>3. TypeOK'
  BY <1>1 DEF IInv, TypeOK, PrepareOutputs, disk
<1>4. ReadsInput'
  BY DEF IInv, ReadsInput, PrepareOutputs, Unread, Input
<1>5. WritesOutputs'
  BY <1>2 DEF WritesOutputs, PrepareOutputs
<1>6. ManifestNeverDangles'
  BY UnchangedDisk DEF IInv, PrepareOutputs
<1> QED BY <1>2, <1>3, <1>4, <1>5, <1>6 DEF IInv

LEMMA OpenPayloadStep == IInv /\ OpenPayload => IInv'
<1> SUFFICES ASSUME IInv, OpenPayload PROVE IInv'
  OBVIOUS
<1>1. Lowest(outputs) \in outputs /\ outputs \subseteq Builds
  <2>1. outputs \subseteq Nat /\ outputs \subseteq Builds /\ outputs # {}
    BY BuildsAssumption DEF IInv, TypeOK, OpenPayload
  <2> QED BY <2>1, LowestIsLeast
<1>2. Outputs' = Outputs /\ Grouped'
  BY UnchangedGroups DEF IInv, OpenPayload
<1>3. \A c \in Builds : payloads'[c] = IF c = Lowest(outputs) THEN "torn" ELSE payloads[c]
  BY <1>1 DEF IInv, TypeOK, OpenPayload
<1>4. TypeOK'
  BY <1>1 DEF IInv, TypeOK, OpenPayload, FileStates
<1>5. ReadsInput'
  BY DEF IInv, ReadsInput, OpenPayload, Input
<1>6. WritesOutputs'
  <2>1. Outputs \subseteq Builds
    BY VersionMapCanonical DEF IInv
  <2> QED BY <1>1, <1>2, <1>3, <2>1 DEF IInv, WritesOutputs, OpenPayload
<1>7. ManifestNeverDangles'
  BY <1>3 DEF IInv, ManifestNeverDangles, OpenPayload, TypeOK
<1> QED BY <1>2, <1>4, <1>5, <1>6, <1>7 DEF IInv

LEMMA WritePayloadStep == IInv /\ WritePayload => IInv'
<1> SUFFICES ASSUME IInv, WritePayload PROVE IInv'
  OBVIOUS
<1>1. Lowest(outputs) \in outputs /\ outputs \subseteq Builds
  <2>1. outputs \subseteq Nat /\ outputs \subseteq Builds /\ outputs # {}
    BY BuildsAssumption DEF IInv, TypeOK, WritePayload
  <2> QED BY <2>1, LowestIsLeast
<1>2. Outputs' = Outputs /\ Grouped'
  BY UnchangedGroups DEF IInv, WritePayload
<1>3. \A c \in Builds : payloads'[c] = IF c = Lowest(outputs) THEN "whole" ELSE payloads[c]
  BY <1>1 DEF IInv, TypeOK, WritePayload
<1>4. TypeOK'
  BY <1>1 DEF IInv, TypeOK, WritePayload, FileStates
<1>5. ReadsInput'
  BY DEF IInv, ReadsInput, WritePayload, Input
<1>6. WritesOutputs'
  <2>1. Outputs \subseteq Builds
    BY VersionMapCanonical DEF IInv
  <2> QED BY <1>1, <1>2, <1>3, <2>1 DEF IInv, WritesOutputs, WritePayload
<1>7. ManifestNeverDangles'
  BY <1>3 DEF IInv, ManifestNeverDangles, WritePayload, TypeOK
<1> QED BY <1>2, <1>4, <1>5, <1>6, <1>7 DEF IInv

LEMMA WriteManifestStep == IInv /\ WriteManifest => IInv'
<1> SUFFICES ASSUME IInv, WriteManifest PROVE IInv'
  OBVIOUS
<1>1. /\ Outputs' = Outputs
      /\ Grouped'
      /\ VersionMap' = VersionMap
  BY UnchangedGroups DEF IInv, WriteManifest
<1>2. /\ DOMAIN VersionMap = parsed
      /\ \A b \in parsed :
           VersionMap[b] \in Outputs /\ Tables[VersionMap[b]] = Tables[b]
      /\ Outputs \subseteq Builds
  BY VersionMapCanonical DEF IInv
<1>3. \A b \in Outputs : payloads[b] = "whole"
  BY DEF IInv, WritesOutputs, WriteManifest
<1>4. TypeOK'
  BY <1>2 DEF IInv, TypeOK, WriteManifest, FileStates
<1>5. ReadsInput'
  BY DEF IInv, ReadsInput, WriteManifest, Input
<1>6. WritesOutputs'
  BY <1>1, <1>3 DEF WritesOutputs, WriteManifest
<1>7. ManifestNeverDangles'
  BY <1>2, <1>3 DEF ManifestNeverDangles, WriteManifest
<1> QED BY <1>1, <1>4, <1>5, <1>6, <1>7 DEF IInv

LEMMA DeleteStaleStep == IInv /\ DeleteStale => IInv'
<1> SUFFICES ASSUME IInv, DeleteStale PROVE IInv'
  OBVIOUS
<1>1. PICK b \in Stale : payloads' = [payloads EXCEPT ![b] = "absent"]
  BY DEF DeleteStale
<1>2. b \in Builds /\ b \notin Outputs
  BY DEF Stale
<1>3. \A c \in Builds : payloads'[c] = IF c = b THEN "absent" ELSE payloads[c]
  BY <1>1 DEF IInv, TypeOK
<1>4. /\ Outputs' = Outputs
      /\ Grouped'
      /\ VersionMap' = VersionMap
  BY UnchangedGroups DEF IInv, DeleteStale
<1>5. /\ DOMAIN VersionMap = parsed
      /\ \A c \in parsed : VersionMap[c] \in Outputs
      /\ Outputs \subseteq Builds
  BY VersionMapCanonical DEF IInv
<1>6. TypeOK'
  BY <1>1 DEF IInv, TypeOK, DeleteStale, FileStates
<1>7. ReadsInput'
  BY DEF IInv, ReadsInput, DeleteStale, Input
<1>8. WritesOutputs'
  BY <1>2, <1>3, <1>4, <1>5 DEF IInv, WritesOutputs, DeleteStale
<1>9. ManifestNeverDangles'
  BY <1>2, <1>3, <1>5
     DEF IInv, ManifestNeverDangles, WritesOutputs, DeleteStale, TypeOK
<1> QED BY <1>4, <1>6, <1>7, <1>8, <1>9 DEF IInv

LEMMA EndRunStep == IInv /\ EndRun => IInv'
<1> SUFFICES ASSUME IInv, EndRun PROVE IInv'
  OBVIOUS
<1>1. /\ Outputs' = Outputs
      /\ Grouped'
      /\ VersionMap' = VersionMap
  BY UnchangedGroups DEF IInv, EndRun
<1>2. \A b \in Builds \ Outputs : payloads[b] = "absent"
  BY DEF EndRun, Stale
<1>3. TypeOK'
  BY DEF IInv, TypeOK, EndRun, disk
<1>4. ReadsInput'
  BY DEF IInv, ReadsInput, EndRun, Input
<1>5. WritesOutputs'
  BY <1>1, <1>2 DEF IInv, WritesOutputs, EndRun, disk
<1>6. ManifestNeverDangles'
  BY UnchangedDisk DEF IInv, EndRun
<1> QED BY <1>1, <1>3, <1>4, <1>5, <1>6 DEF IInv

(* Starting, refusing a file, opening the manifest, being stopped, and the *)
(* files of another release.                                               *)
LEMMA OtherSteps ==
  IInv /\ (StartRun \/ ParseFails \/ OpenManifest \/ Crash \/ NextRelease) => IInv'
<1>1. ASSUME IInv, StartRun
      PROVE  IInv'
  BY <1>1 DEF IInv, StartRun, TypeOK, Grouped, ReadsInput, WritesOutputs,
              ManifestNeverDangles, disk
<1>2. ASSUME IInv, ParseFails
      PROVE  IInv'
  BY <1>2 DEF IInv, ParseFails, TypeOK, Grouped, ReadsInput, WritesOutputs,
              ManifestNeverDangles, disk
<1>3. ASSUME IInv, OpenManifest
      PROVE  IInv'
  <2>1. Outputs' = Outputs /\ Grouped'
    BY <1>3, UnchangedGroups DEF IInv, OpenManifest
  <2>2. WritesOutputs'
    BY <1>3, <2>1 DEF IInv, WritesOutputs, OpenManifest
  <2> QED BY <1>3, <2>1, <2>2
          DEF IInv, OpenManifest, TypeOK, ReadsInput, Input,
              ManifestNeverDangles, FileStates
<1>4. ASSUME IInv, Crash
      PROVE  IInv'
  BY <1>4, ReleasesAssumption
     DEF IInv, Crash, TypeOK, Grouped, ReadsInput, WritesOutputs,
         ManifestNeverDangles, disk
<1>5. ASSUME IInv, NextRelease
      PROVE  IInv'
  <2>1. release' \in DOMAIN Releases
    BY <1>5, ReleasesAssumption DEF IInv, TypeOK, NextRelease
  <2> QED BY <1>5, <2>1
          DEF IInv, NextRelease, TypeOK, Grouped, ReadsInput, WritesOutputs,
              ManifestNeverDangles, disk
<1> QED BY <1>1, <1>2, <1>3, <1>4, <1>5

LEMMA NextKeepsIInv == IInv /\ [Next]_vars => IInv'
<1>1. ASSUME IInv, UNCHANGED vars
      PROVE  IInv'
  BY <1>1, UnchangedGroups
     DEF IInv, TypeOK, ReadsInput, Input, WritesOutputs, ManifestNeverDangles,
         vars
<1> QED BY <1>1, ParseResourceStep, PrepareOutputsStep, OpenPayloadStep,
           WritePayloadStep, WriteManifestStep, DeleteStaleStep, EndRunStep,
           OtherSteps DEF Next

-----------------------------------------------------------------------------
(* The theorems.                                                           *)

(* Program.cs: what the steps of a run keep, whenever it is stopped.       *)
THEOREM InductiveInvariant == Spec => []IInv
BY InitEstablishesIInv, NextKeepsIInv, PTL DEF Spec

(* The variables of Program.cs and what is on disk have their types.       *)
THEOREM TypeCorrect == Spec => []TypeOK
<1>1. IInv => TypeOK
  BY DEF IInv
<1> QED BY <1>1, InductiveInvariant, PTL

(* Program.cs:84-95: no manifest that is on disk at any time names a       *)
(* payload that is missing or has other tables.                            *)
THEOREM ManifestsNeverDangle == Spec => []ManifestNeverDangles
<1>1. IInv => ManifestNeverDangles
  BY DEF IInv
<1> QED BY <1>1, InductiveInvariant, PTL

(* Program.cs: a run that ends leaves the outputs of its own files and no  *)
(* others, whatever it found on disk and however hashes collide.           *)
THEOREM OutputsAreExact == Spec => []OutputsExact
<1>1. IInv => OutputsExact
  <2> SUFFICES ASSUME IInv, pc = "done" PROVE OutputsExact
    BY DEF OutputsExact
  <2>1. /\ manifest = "whole"
        /\ versions = VersionMap
        /\ parsed = Input
        /\ \A b \in Outputs : payloads[b] = "whole"
        /\ \A b \in Builds \ Outputs : payloads[b] = "absent"
    BY DEF IInv, WritesOutputs, ReadsInput
  <2>2. /\ VersionMap = [b \in parsed |-> Canonical(b, parsed)]
        /\ \A b \in parsed : VersionMap[b] \in Outputs
        /\ \A g \in groups : \E b \in parsed : CanonicalVersion(g) = VersionMap[b]
    BY VersionMapCanonical DEF IInv
  <2>3. versions = [b \in Input |-> Canonical(b, Input)]
    BY <2>1, <2>2
  <2>4. ASSUME NEW b \in Outputs
        PROVE  \E c \in Input : b = versions[c]
    <3>1. PICK g \in groups : b = CanonicalVersion(g)
      BY DEF Outputs
    <3> QED BY <2>1, <2>2, <3>1
  <2>5. \A c \in Input : versions[c] \in Outputs
    BY <2>1, <2>2
  <2> QED BY <2>1, <2>3, <2>4, <2>5 DEF OutputsExact
<1> QED BY <1>1, InductiveInvariant, PTL

-----------------------------------------------------------------------------
(* The parser.                                                             *)

(* What has been bound when the names of a set have been.                  *)
PartlyBound(p, bound) ==
  [n \in Names |-> IF n \in bound THEN p[n] ELSE NewVersion[n]]

(* The state of the parser then, in some tables.                           *)
Reading(p, bound, in) ==
  [version |-> PartlyBound(p, bound), in |-> in, failed |-> FALSE]

LEMMA NamesKnown ==
  /\ ToSet(EventTables) =
       {"game_event_types", "message_event_types", "tracker_event_types"}
  /\ ToSet(RootTypeIds) =
       {"game_eventid_typeid", "message_eventid_typeid",
        "tracker_eventid_typeid", "svaruint32_typeid", "replay_userid_typeid",
        "replay_header_typeid", "game_details_typeid", "replay_initdata_typeid"}
<1>1. DOMAIN EventTables = 1 .. 3 /\ DOMAIN RootTypeIds = 1 .. 8
  BY DEF EventTables, RootTypeIds
<1>2. 1 .. 3 = {1, 2, 3} /\ 1 .. 8 = {1, 2, 3, 4, 5, 6, 7, 8}
  OBVIOUS
<1>3. ToSet(EventTables) =
        {"game_event_types", "message_event_types", "tracker_event_types"}
  BY <1>1, <1>2 DEF ToSet, EventTables
<1>4. ToSet(RootTypeIds) = { RootTypeIds[i] : i \in {1, 2, 3, 4, 5, 6, 7, 8} }
  BY <1>1, <1>2 DEF ToSet
<1>5. /\ RootTypeIds[1] = "game_eventid_typeid"
      /\ RootTypeIds[2] = "message_eventid_typeid"
      /\ RootTypeIds[3] = "tracker_eventid_typeid"
      /\ RootTypeIds[4] = "svaruint32_typeid"
      /\ RootTypeIds[5] = "replay_userid_typeid"
      /\ RootTypeIds[6] = "replay_header_typeid"
      /\ RootTypeIds[7] = "game_details_typeid"
      /\ RootTypeIds[8] = "replay_initdata_typeid"
  BY DEF RootTypeIds
<1> QED
  BY <1>3, <1>4, <1>5

(* A change of the flags alone.                                            *)
LEMMA Flagged ==
  ASSUME NEW p, NEW bound, NEW in, NEW next, NEW s, s = Reading(p, bound, in)
  PROVE  [s EXCEPT !.in = next] = Reading(p, bound, next)
<1> DEFINE no == FALSE
           version == PartlyBound(p, bound)
<1>1. s = [version |-> version, in |-> in, failed |-> no]
  BY DEF Reading
<1> HIDE DEF no, version
<1>2. [s EXCEPT !.in = next] = [version |-> version, in |-> next, failed |-> no]
  BY <1>1
<1> QED
  BY <1>2, Zenon DEF Reading, no, version

(* Lines that say where a table begins or ends only change the flags.      *)
Opened(in, name) == in \cup {name}

LEMMA OpenLine ==
  ASSUME NEW p, NEW bound, NEW in, NEW name
  PROVE  ParseLine(Reading(p, bound, in), Open(name))
           = Reading(p, bound, Opened(in, name))
<1> DEFINE s == Reading(p, bound, in)
           line == Open(name)
           next == Opened(in, name)
<1>1. ~s.failed /\ s.in = in
  BY DEF Reading
<1>2. line.kind = "open" /\ line.name = name
  BY DEF Open
<1>3. [s EXCEPT !.in = next] = Reading(p, bound, next)
  <2>1. s = Reading(p, bound, in)
    OBVIOUS
  <2> HIDE DEF s, next
  <2> QED
    BY <2>1, Flagged
<1>4. next = in \cup {name}
  BY DEF Opened
<1> HIDE DEF s, line, next
<1>5. ParseLine(s, line) = [s EXCEPT !.in = next]
  BY <1>1, <1>2, <1>4 DEF ParseLine
<1> QED
  BY <1>3, <1>5, Zenon DEF s, line, next

Closed(in, bracket) ==
  in \ (IF bracket = "]" THEN {"typeinfos"} ELSE ToSet(EventTables))

LEMMA CloseLine ==
  ASSUME NEW p, NEW bound, NEW in, NEW bracket
  PROVE  ParseLine(Reading(p, bound, in), Close(bracket))
           = Reading(p, bound, Closed(in, bracket))
<1> DEFINE s == Reading(p, bound, in)
           line == Close(bracket)
           next == Closed(in, bracket)
<1>1. ~s.failed /\ s.in = in
  BY DEF Reading
<1>2. line.kind = "close" /\ line.name = bracket
  BY DEF Close
<1>3. [s EXCEPT !.in = next] = Reading(p, bound, next)
  <2>1. s = Reading(p, bound, in)
    OBVIOUS
  <2> HIDE DEF s, next
  <2> QED
    BY <2>1, Flagged
<1> DEFINE away == IF bracket = "]" THEN {"typeinfos"} ELSE ToSet(EventTables)
<1>4. next = in \ away
  BY DEF Closed
<1>5. ParseLine(s, line) = [s EXCEPT !.in = s.in \ away]
  <2>1. away = IF line.name = "]" THEN {"typeinfos"} ELSE ToSet(EventTables)
    BY <1>2, Zenon
  <2> HIDE DEF s, line, away
  <2>2. ParseLine(s, line)
          = [s EXCEPT !.in = @ \ (IF line.name = "]" THEN {"typeinfos"}
                                  ELSE ToSet(EventTables))]
    BY <1>1, <1>2 DEF ParseLine
  <2> QED
    BY <2>1, <2>2, Zenon
<1> HIDE DEF s, line, next, away
<1> QED
  BY <1>1, <1>3, <1>4, <1>5, Zenon DEF s, line, next

(* Binding one more name.                                                  *)
Bind(s, n, value) == [s EXCEPT !.version[n] = value]

LEMMA BindOne ==
  ASSUME NEW p, NEW bound, NEW in, NEW n \in Names,
         NEW s, s = Reading(p, bound, in)
  PROVE  Bind(s, n, p[n]) = Reading(p, bound \cup {n}, in)
<1> DEFINE value == p[n]
           no == FALSE
           version == PartlyBound(p, bound)
           new == PartlyBound(p, bound \cup {n})
<1>2. s = [version |-> version, in |-> in, failed |-> no]
  BY DEF Reading
<1>3. new = [version EXCEPT ![n] = value]
  BY DEF PartlyBound
<1> HIDE DEF no, version, new, value
<1>4. [s EXCEPT !.version[n] = value] = [version |-> new, in |-> in, failed |-> no]
  BY <1>2, <1>3
<1> QED
  BY <1>4, Zenon DEF Reading, Bind, new, no, value

(* The rows of a table, in that table, bind it.                            *)
LEMMA TypeLines ==
  ASSUME NEW p, NEW bound
  PROVE  ParseLine(Reading(p, bound, {"typeinfos"}), TypeRow(p.typeinfos))
           = Reading(p, bound \cup {"typeinfos"}, {"typeinfos"})
<1> DEFINE s == Reading(p, bound, {"typeinfos"})
           types == p.typeinfos
           line == TypeRow(types)
<1>1. ~s.failed /\ s.in = {"typeinfos"}
  BY DEF Reading
<1>2. line.kind = "types" /\ line.types = types
  BY DEF TypeRow
<1>3. "typeinfos" \in Names
  BY DEF Names
<1>4. [s EXCEPT !.version["typeinfos"] = types]
        = Reading(p, bound \cup {"typeinfos"}, {"typeinfos"})
  <2> DEFINE in == {"typeinfos"}
  <2>1. s = Reading(p, bound, in)
    OBVIOUS
  <2> HIDE DEF s, in
  <2>2. Bind(s, "typeinfos", p["typeinfos"])
          = Reading(p, bound \cup {"typeinfos"}, in)
    BY <1>3, <2>1, BindOne
  <2> QED
    BY <2>2 DEF Bind, in
<1> HIDE DEF s, line, types
<1>5. ParseLine(s, line) = [s EXCEPT !.version["typeinfos"] = types]
  BY <1>1, <1>2 DEF ParseLine, ParseRow, ParseTypeInfo
<1> QED
  BY <1>4, <1>5 DEF s, line, types

LEMMA EventLines ==
  ASSUME NEW p, IsProtocol(p), NEW bound, NEW t \in ToSet(EventTables), t \notin bound
  PROVE  ParseLine(Reading(p, bound, {t}), EventRows(p[t]))
           = Reading(p, bound \cup {t}, {t})
<1> DEFINE s == Reading(p, bound, {t})
           events == p[t]
           line == EventRows(events)
<1>1. ~s.failed /\ s.in = {t} /\ t \in Names /\ t # "typeinfos"
  BY NamesKnown DEF Reading, Names
<1>2. line.kind = "events" /\ line.events = events
  BY DEF EventRows
<1>3. s.version[t].names = <<>>
  <2>1. s.version[t] = NoEvents
    BY <1>1, Zenon DEF Reading, PartlyBound, NewVersion
  <2> QED
    BY <2>1 DEF NoEvents, Events
<1>4. Events(events.typeids, With(<<>>, events.names)) = p[t]
  <2> DEFINE names == events.names
  <2>1. p[t] = Events(events.typeids, [id \in DOMAIN names |-> names[id]])
    BY DEF IsProtocol
  <2>2. With(<<>>, names) = [id \in DOMAIN names |-> names[id]]
    <3> HIDE DEF names
    <3>1. DOMAIN <<>> = {}
      OBVIOUS
    <3> QED
      BY <3>1 DEF With
  <2> QED
    BY <2>1, <2>2, Zenon
<1>5. [s EXCEPT !.version[t] = p[t]] = Reading(p, bound \cup {t}, {t})
  <2> DEFINE in == {t}
  <2>1. s = Reading(p, bound, in)
    OBVIOUS
  <2> HIDE DEF s, in
  <2>2. Bind(s, t, p[t]) = Reading(p, bound \cup {t}, in)
    BY <1>1, <2>1, BindOne
  <2> QED
    BY <2>2 DEF Bind, in
<1>6. \E i \in DOMAIN EventTables : EventTables[i] = t
  BY Zenon DEF ToSet
<1> DEFINE open == { i \in DOMAIN EventTables : EventTables[i] \in s.in }
           first == CHOOSE i \in open : \A j \in open : i <= j
<1>7. EventTables[first] = t
  <2>1. DOMAIN EventTables = {1, 2, 3}
    BY DEF EventTables
  <2>2. /\ EventTables[1] = "game_event_types"
        /\ EventTables[2] = "message_event_types"
        /\ EventTables[3] = "tracker_event_types"
    BY DEF EventTables
  <2>3. PICK i \in {1, 2, 3} : open = {i} /\ EventTables[i] = t
    <3>1. PICK i \in {1, 2, 3} : EventTables[i] = t
      BY <1>6, <2>1
    <3>2. open = {i}
      BY <1>1, <2>1, <2>2, <3>1
    <3> QED
      BY <3>1, <3>2
  <2> HIDE DEF open
  <2>4. first = i
    BY <2>3
  <2> QED
    BY <2>3, <2>4
<1>8. ParseEventType(s, line)
        = [s EXCEPT !.version[EventTables[first]] =
             Events(events.typeids,
                    With(s.version[EventTables[first]].names, events.names))]
  <2> HIDE DEF s, line, events
  <2> QED
    BY <1>2, Zenon DEF ParseEventType
<1> HIDE DEF s, line, events, first
<1>9. ParseLine(s, line) = ParseEventType(s, line)
  BY <1>1, <1>2 DEF ParseLine, ParseRow
<1> QED
  BY <1>3, <1>4, <1>5, <1>7, <1>8, <1>9, Zenon DEF s, line, events

(* Outside of the tables a type id is bound; None stays what it is.        *)
LEMMA RootLines ==
  ASSUME NEW p, NEW bound, NEW id \in ToSet(RootTypeIds), id \notin bound
  PROVE  ParseLine(Reading(p, bound, {}), Assign(id, p[id]))
           = Reading(p, bound \cup {id}, {})
<1> DEFINE s == Reading(p, bound, {})
           value == p[id]
           line == Assign(id, value)
<1>1. /\ ~s.failed /\ s.in = {} /\ id \in Names /\ id # "typeinfos"
      /\ id \notin ToSet(EventTables)
  BY NamesKnown DEF Reading, Names
<1>2. line.kind = "assign" /\ line.name = id /\ line.value = value
  BY DEF Assign
<1>3. [s EXCEPT !.version[id] = value] = Reading(p, bound \cup {id}, {})
  <2> DEFINE in == {}
  <2>1. s = Reading(p, bound, in)
    OBVIOUS
  <2> HIDE DEF s, in
  <2>2. Bind(s, id, p[id]) = Reading(p, bound \cup {id}, in)
    BY <1>1, <2>1, BindOne
  <2> QED
    BY <2>2 DEF Bind, in
<1>4. ASSUME value = None PROVE s = Reading(p, bound \cup {id}, {})
  <2>1. NewVersion[id] = None
    BY <1>1, Zenon DEF NewVersion
  <2>2. PartlyBound(p, bound) = PartlyBound(p, bound \cup {id})
    <3>1. ASSUME NEW n \in Names
          PROVE  (IF n \in bound THEN p[n] ELSE NewVersion[n])
                   = IF n \in bound \cup {id} THEN p[n] ELSE NewVersion[n]
      BY <1>4, <2>1
    <3> QED
      BY <3>1, Zenon DEF PartlyBound
  <2> QED
    BY <2>2, Zenon DEF Reading
<1> HIDE DEF s, value, line
<1>5. ParseLine(s, line) = ParseRootTypeId(s, line)
  BY <1>1, <1>2 DEF ParseLine, ParseRow
<1>6. CASE value = None
  <2>1. ParseRootTypeId(s, line) = s
    BY <1>2, <1>6 DEF ParseRootTypeId
  <2> QED
    BY <1>4, <1>5, <1>6, <2>1, Zenon DEF s, value, line
<1>7. CASE value # None
  <2>1. ParseRootTypeId(s, line) = [s EXCEPT !.version[id] = value]
    BY <1>2, <1>7 DEF ParseRootTypeId
  <2> QED
    BY <1>3, <1>5, <2>1, Zenon DEF s, value, line
<1> QED
  BY <1>6, <1>7

(* What is in the functions binds nothing, not even where a line says that *)
(* a table begins.                                                         *)
LEMMA FunctionLine ==
  ASSUME NEW p, NEW bound
  PROVE  /\ \A in \in SUBSET ToSet(EventTables) :
              ParseLine(Reading(p, bound, in), Code) = Reading(p, bound, in)
         /\ ParseLine(Reading(p, bound, {}), Assign("gameloop", 0))
              = Reading(p, bound, {})
<1>1. ASSUME NEW in \in SUBSET ToSet(EventTables)
      PROVE  ParseLine(Reading(p, bound, in), Code) = Reading(p, bound, in)
  <2> DEFINE s == Reading(p, bound, in)
  <2>1. ~s.failed /\ "typeinfos" \notin s.in
    BY NamesKnown DEF Reading
  <2>2. Code.kind = "code"
    BY DEF Code
  <2> HIDE DEF s
  <2>3. ParseLine(s, Code) = s
    BY <2>1, <2>2 DEF ParseLine, ParseRow, ParseEventType, ParseRootTypeId
  <2> QED
    BY <2>3, Zenon DEF s
<1> DEFINE s == Reading(p, bound, {})
           line == Assign("gameloop", 0)
<1>2. ~s.failed /\ s.in = {}
  BY DEF Reading
<1>3. line.kind = "assign" /\ line.name \notin ToSet(RootTypeIds)
  BY NamesKnown DEF Assign
<1> HIDE DEF s, line
<1>4. ParseLine(s, line) = s
  BY <1>2, <1>3 DEF ParseLine, ParseRow, ParseRootTypeId
<1> QED
  BY <1>1, <1>4, Zenon DEF s, line

(* Induction up to a number, for the members of a set.                     *)
LEMMA UpTo ==
  ASSUME NEW N \in Nat, NEW P, 0 \in P, \A n \in 1 .. N : n - 1 \in P => n \in P
  PROVE  0 .. N \subseteq P
<1> SUFFICES ASSUME (0 .. N) \ P # {} PROVE FALSE
  OBVIOUS
<1> DEFINE D == (0 .. N) \ P
<1>1. PICK d \in D : \A c \in D : d <= c
  <2>1. D \in SUBSET Nat /\ D # {}
    OBVIOUS
  <2> HIDE DEF D
  <2> QED
    BY <2>1, LowestIsLeast
<1>2. d \in 1 .. N /\ d - 1 \in 0 .. N
  OBVIOUS
<1>3. d - 1 \in P
  BY <1>1, <1>2
<1> QED
  BY <1>2, <1>3

(* The lines of a file, and what reading some of them makes of a state.    *)
FileLines(p) ==
  {Code, Close("]"), Close("}"), TypeRow(p.typeinfos), Assign("gameloop", 0)}
  \cup { Open(n) : n \in Names }
  \cup { EventRows(p[n]) : n \in Names }
  \cup { Assign(n, p[n]) : n \in Names }

Passes(f, lines) == \A n \in 1 .. Len(lines) : f[n] = ParseLine(f[n - 1], lines[n])

ReadsTo(p, lines, s, t) ==
  /\ lines \in Seq(FileLines(p))
  /\ \E f : Passes(f, lines) /\ f[0] = s /\ f[Len(lines)] = t

LEMMA ReadsOn ==
  ASSUME NEW p, NEW a, NEW b, NEW s, NEW t, NEW u,
         ReadsTo(p, a, s, t), ReadsTo(p, b, t, u)
  PROVE  ReadsTo(p, a \o b, s, u)
<1> DEFINE L == FileLines(p)
<1>1. a \in Seq(L) /\ b \in Seq(L)
  BY DEF ReadsTo
<1>2. PICK f : Passes(f, a) /\ f[0] = s /\ f[Len(a)] = t
  BY DEF ReadsTo
<1>3. PICK g : Passes(g, b) /\ g[0] = t /\ g[Len(b)] = u
  BY DEF ReadsTo
<1> HIDE DEF L
<1> DEFINE both == a \o b
           h == [n \in 0 .. Len(a) + Len(b) |->
                   IF n <= Len(a) THEN f[n] ELSE g[n - Len(a)]]
<1>4. /\ both \in Seq(L) /\ Len(both) = Len(a) + Len(b)
      /\ Len(a) \in Nat /\ Len(b) \in Nat
      /\ \A n \in 1 .. Len(a) : both[n] = a[n]
      /\ \A n \in Len(a) + 1 .. Len(a) + Len(b) : both[n] = b[n - Len(a)]
  BY <1>1
<1> HIDE DEF both
<1>5. ASSUME NEW n \in 1 .. Len(both)
      PROVE  h[n] = ParseLine(h[n - 1], both[n])
  <2>1. CASE n <= Len(a)
    <3>1. n \in 1 .. Len(a) /\ h[n] = f[n] /\ h[n - 1] = f[n - 1]
      BY <1>4, <2>1
    <3> QED
      BY <1>2, <1>4, <3>1 DEF Passes
  <2>2. CASE n > Len(a)
    <3>1. /\ n - Len(a) \in 1 .. Len(b) /\ n \in Len(a) + 1 .. Len(a) + Len(b)
          /\ h[n] = g[n - Len(a)]
      BY <1>4, <2>2
    <3>2. h[n - 1] = g[(n - Len(a)) - 1]
      <4>1. CASE n - 1 = Len(a)
        BY <1>2, <1>3, <1>4, <4>1
      <4>2. CASE n - 1 # Len(a)
        BY <1>4, <2>2, <4>2
      <4> QED
        BY <4>1, <4>2
    <3>3. g[n - Len(a)] = ParseLine(g[(n - Len(a)) - 1], b[n - Len(a)])
      BY <1>3, <3>1 DEF Passes
    <3> QED
      BY <1>4, <3>1, <3>2, <3>3
  <2> QED
    BY <1>4, <2>1, <2>2
<1>6. h[0] = s /\ h[Len(both)] = u
  <2>1. h[0] = s
    BY <1>2, <1>4
  <2>2. CASE Len(b) = 0
    BY <1>2, <1>3, <1>4, <2>1, <2>2
  <2>3. CASE Len(b) # 0
    BY <1>3, <1>4, <2>1, <2>3
  <2> QED
    BY <2>1, <2>2, <2>3
<1> HIDE DEF h
<1>7. \E e : Passes(e, both) /\ e[0] = s /\ e[Len(both)] = u
  BY <1>5, <1>6 DEF Passes
<1> QED
  BY <1>4, <1>7 DEF ReadsTo, both, L

(* The parser ends where reading its lines ends.                           *)
LEMMA ParseReads ==
  ASSUME NEW p, NEW lines, NEW t, ReadsTo(p, lines, Start, t)
  PROVE  Parse(lines) = t
<1> DEFINE N == Len(lines)
           Turn(h, n) == IF n = 0 THEN Start ELSE ParseLine(h[n - 1], lines[n])
           Is(h) == h = [n \in 0 .. N |-> Turn(h, n)]
           g == CHOOSE h : Is(h)
<1>1. PICK e : Passes(e, lines) /\ e[0] = Start /\ e[N] = t
  BY DEF ReadsTo
<1>2. N \in Nat
  BY DEF ReadsTo
<1>3. Parse(lines) = g[N]
  BY DEF Parse
<1> DEFINE f == [n \in 0 .. N |-> e[n]]
<1>4. \A n \in 0 .. N : f[n] = Turn(f, n)
  <2>1. ASSUME NEW n \in 0 .. N PROVE f[n] = Turn(f, n)
    <3>1. CASE n = 0
      BY <1>1, <1>2, <3>1
    <3>2. CASE n # 0
      <4>1. n \in 1 .. N /\ n - 1 \in 0 .. N
        BY <1>2, <3>2
      <4>2. e[n] = ParseLine(e[n - 1], lines[n])
        BY <1>1, <4>1 DEF Passes
      <4> QED
        BY <3>2, <4>1, <4>2
    <3> QED
      BY <3>1, <3>2
  <2> QED
    BY <2>1
<1> HIDE DEF N, Turn, g
<1>5. Is(f)
  BY <1>4
<1>6. Is(g)
  <2> HIDE DEF Is, f
  <2> QED
    BY <1>5, Zenon DEF g
<1> DEFINE P == { n \in 0 .. N : g[n] = f[n] }
<1>7. 0 \in P
  <2>1. 0 \in 0 .. N
    BY <1>2
  <2>2. g[0] = Turn(g, 0) /\ f[0] = Turn(f, 0)
    <3> HIDE DEF f
    <3> QED
      BY <1>5, <1>6, <2>1
  <2> HIDE DEF f
  <2> QED
    BY <2>1, <2>2 DEF Turn
<1>8. ASSUME NEW n \in 1 .. N, n - 1 \in P PROVE n \in P
  <2>1. n \in 0 .. N /\ n # 0 /\ g[n - 1] = f[n - 1]
    BY <1>2, <1>8
  <2>2. g[n] = ParseLine(g[n - 1], lines[n]) /\ f[n] = ParseLine(f[n - 1], lines[n])
    BY <1>5, <1>6, <2>1 DEF Turn
  <2> QED
    BY <2>1, <2>2
<1> HIDE DEF P
<1>9. 0 .. N \subseteq P
  BY <1>2, <1>7, <1>8, UpTo
<1> QED
  BY <1>1, <1>2, <1>3, <1>9 DEF P

(* Reading line by line, from state to state.                              *)
LEMMA ReadsAll ==
  ASSUME NEW p, NEW lines \in Seq(FileLines(p)), NEW f,
         \A n \in 1 .. Len(lines) : ParseLine(f[n - 1], lines[n]) = f[n]
  PROVE  ReadsTo(p, lines, f[0], f[Len(lines)])
<1>1. Passes(f, lines)
  BY Zenon DEF Passes
<1> QED
  BY <1>1 DEF ReadsTo

LEMMA KnownLines ==
  ASSUME NEW p
  PROVE  /\ Code \in FileLines(p) /\ Close("]") \in FileLines(p)
         /\ Close("}") \in FileLines(p) /\ TypeRow(p.typeinfos) \in FileLines(p)
         /\ Assign("gameloop", 0) \in FileLines(p)
         /\ \A n \in Names : /\ Open(n) \in FileLines(p)
                             /\ EventRows(p[n]) \in FileLines(p)
                             /\ Assign(n, p[n]) \in FileLines(p)
BY DEF FileLines

(* The lines of a table of events and its type id.                         *)
LEMMA ReadsTable ==
  ASSUME NEW p, IsProtocol(p), NEW bound,
         NEW t \in ToSet(EventTables), t \notin bound,
         NEW id \in ToSet(RootTypeIds), id \notin bound
  PROVE  ReadsTo(p, EventTableLines(p, t, id), Reading(p, bound, {}),
                 Reading(p, bound \cup {t, id}, {}))
<1> DEFINE s0 == Reading(p, bound, {})
           s1 == Reading(p, bound, {t})
           s2 == Reading(p, bound \cup {t}, {t})
           s3 == Reading(p, bound \cup {t}, {})
           s4 == Reading(p, bound \cup {t, id}, {})
<1>1. t \in Names /\ id \in Names /\ t # id
  BY NamesKnown DEF Names
<1>2. ParseLine(s0, Open(t)) = s1
  <2> DEFINE none == {}
             one == {t}
  <2>1. Opened(none, t) = one
    BY DEF Opened
  <2> HIDE DEF none, one
  <2>2. ParseLine(Reading(p, bound, none), Open(t))
          = Reading(p, bound, Opened(none, t))
    BY OpenLine
  <2> QED
    BY <2>1, <2>2, Zenon DEF none, one
<1>3. ParseLine(s1, EventRows(p[t])) = s2
  BY EventLines
<1>4. ParseLine(s2, Close("}")) = s3
  <2> DEFINE none == {}
             one == {t}
             more == bound \cup {t}
             bracket == "}"
  <2>1. Closed(one, bracket) = none
    BY DEF Closed
  <2> HIDE DEF none, one, more, bracket
  <2>2. ParseLine(Reading(p, more, one), Close(bracket))
          = Reading(p, more, Closed(one, bracket))
    BY CloseLine
  <2> QED
    BY <2>1, <2>2, Zenon DEF none, one, more, bracket
<1>5. ParseLine(s3, Assign(id, p[id])) = s4
  <2>1. id \notin bound \cup {t} /\ (bound \cup {t}) \cup {id} = bound \cup {t, id}
    BY <1>1
  <2> QED
    BY <2>1, RootLines
<1> DEFINE l1 == Open(t)
           l2 == EventRows(p[t])
           l3 == Close("}")
           l4 == Assign(id, p[id])
<1>6. /\ l1 \in FileLines(p) /\ l2 \in FileLines(p)
      /\ l3 \in FileLines(p) /\ l4 \in FileLines(p)
  BY <1>1, KnownLines
<1>7. /\ ParseLine(s0, l1) = s1 /\ ParseLine(s1, l2) = s2
      /\ ParseLine(s2, l3) = s3 /\ ParseLine(s3, l4) = s4
  BY <1>2, <1>3, <1>4, <1>5, Zenon
<1> DEFINE lines == <<l1, l2, l3, l4>>
           states == <<s0, s1, s2, s3, s4>>
           f == [n \in 0 .. 4 |-> states[n + 1]]
<1>8. EventTableLines(p, t, id) = lines
  BY DEF EventTableLines
<1> HIDE DEF l1, l2, l3, l4
<1>9. /\ lines \in Seq(FileLines(p)) /\ Len(lines) = 4
      /\ lines[1] = l1 /\ lines[2] = l2 /\ lines[3] = l3 /\ lines[4] = l4
  BY <1>6
<1>10. f[0] = s0 /\ f[1] = s1 /\ f[2] = s2 /\ f[3] = s3 /\ f[4] = s4
  <2> HIDE DEF s0, s1, s2, s3, s4
  <2> QED
    OBVIOUS
<1> HIDE DEF s0, s1, s2, s3, s4, lines, f
<1>11. ASSUME NEW n \in 1 .. Len(lines)
       PROVE  ParseLine(f[n - 1], lines[n]) = f[n]
  <2>1. n \in 1 .. 4
    BY <1>9
  <2>2. n = 1 \/ n = 2 \/ n = 3 \/ n = 4
    BY <2>1
  <2>3. 1 - 1 = 0 /\ 2 - 1 = 1 /\ 3 - 1 = 2 /\ 4 - 1 = 3
    OBVIOUS
  <2> QED
    BY <1>7, <1>9, <1>10, <2>2, <2>3, Zenon
<1>12. ReadsTo(p, lines, f[0], f[Len(lines)])
  BY <1>9, <1>11, ReadsAll
<1> QED
  BY <1>8, <1>9, <1>10, <1>12 DEF s0, s4

(* The other type ids, which stand by themselves.                          *)
LEMMA ReadsIds ==
  ASSUME NEW p, NEW bound,
         \A i \in 4 .. 8 : RootTypeIds[i] \notin bound
  PROVE  ReadsTo(p, [i \in 1 .. 5 |-> Assign(RootTypeIds[i + 3], p[RootTypeIds[i + 3]])],
                 Reading(p, bound, {}),
                 Reading(p, bound \cup { RootTypeIds[i] : i \in 4 .. 8 }, {}))
<1> DEFINE lines == [i \in 1 .. 5 |-> Assign(RootTypeIds[i + 3], p[RootTypeIds[i + 3]])]
           By(n) == bound \cup { RootTypeIds[i] : i \in 4 .. n + 3 }
           f == [n \in 0 .. 5 |-> Reading(p, By(n), {})]
<1>1. DOMAIN RootTypeIds = 1 .. 8
  BY DEF RootTypeIds
<1>2. \A i \in 4 .. 8 : RootTypeIds[i] \in ToSet(RootTypeIds) /\ RootTypeIds[i] \in Names
  BY <1>1 DEF ToSet, Names
<1>3. \A i, j \in 4 .. 8 : RootTypeIds[i] = RootTypeIds[j] => i = j
  <2>1. /\ RootTypeIds[4] = "svaruint32_typeid"
        /\ RootTypeIds[5] = "replay_userid_typeid"
        /\ RootTypeIds[6] = "replay_header_typeid"
        /\ RootTypeIds[7] = "game_details_typeid"
        /\ RootTypeIds[8] = "replay_initdata_typeid"
    BY DEF RootTypeIds
  <2>2. 4 .. 8 = {4, 5, 6, 7, 8}
    OBVIOUS
  <2> QED
    BY <2>1, <2>2
<1>4. lines \in Seq(FileLines(p)) /\ Len(lines) = 5
  <2>1. \A n \in Names : Assign(n, p[n]) \in FileLines(p)
    BY KnownLines
  <2>2. ASSUME NEW i \in 1 .. 5
        PROVE  Assign(RootTypeIds[i + 3], p[RootTypeIds[i + 3]]) \in FileLines(p)
    <3>1. i + 3 \in 4 .. 8
      OBVIOUS
    <3>2. RootTypeIds[i + 3] \in Names
      BY <1>2, <3>1
    <3> QED
      BY <2>1, <3>2
  <2> QED
    BY <2>2
<1>5. ASSUME NEW n \in 1 .. 5
      PROVE  ParseLine(Reading(p, By(n - 1), {}), lines[n]) = Reading(p, By(n), {})
  <2> DEFINE id == RootTypeIds[n + 3]
  <2>1. n + 3 \in 4 .. 8 /\ n + 3 \notin 4 .. (n - 1) + 3
    OBVIOUS
  <2>2. id \in ToSet(RootTypeIds)
    BY <1>2, <2>1
  <2>3. id \notin By(n - 1)
    <3>1. \A i \in 4 .. (n - 1) + 3 : i \in 4 .. 8 /\ i # n + 3
      OBVIOUS
    <3> QED
      BY <1>3, <2>1, <3>1
  <2>4. By(n) = By(n - 1) \cup {id}
    <3>1. 4 .. n + 3 = (4 .. (n - 1) + 3) \cup {n + 3}
      OBVIOUS
    <3> QED
      BY <3>1
  <2>5. lines[n] = Assign(id, p[id])
    OBVIOUS
  <2> HIDE DEF By, id, lines
  <2> QED
    BY <2>2, <2>3, <2>4, <2>5, RootLines
<1>6. \A n \in 1 .. 5 : ParseLine(f[n - 1], lines[n]) = f[n]
  <2>1. ASSUME NEW n \in 1 .. 5 PROVE ParseLine(f[n - 1], lines[n]) = f[n]
    <3>1. n \in 0 .. 5 /\ n - 1 \in 0 .. 5
      OBVIOUS
    <3>2. f[n] = Reading(p, By(n), {}) /\ f[n - 1] = Reading(p, By(n - 1), {})
      <4> HIDE DEF By
      <4> QED
        BY <3>1
    <3> QED
      BY <1>5, <3>2
  <2> QED
    BY <2>1
<1>7. f[0] = Reading(p, By(0), {}) /\ f[5] = Reading(p, By(5), {})
  <2> HIDE DEF By
  <2> QED
    OBVIOUS
<1>8. By(0) = bound /\ By(5) = bound \cup { RootTypeIds[i] : i \in 4 .. 8 }
  <2>1. 4 .. 0 + 3 = {} /\ 5 + 3 = 8
    OBVIOUS
  <2> QED
    BY <2>1
<1> HIDE DEF f, lines, By
<1>9. ReadsTo(p, lines, f[0], f[Len(lines)])
  BY <1>4, <1>6, ReadsAll
<1> QED
  BY <1>4, <1>7, <1>8, <1>9 DEF lines

(* The functions at the end of the file.                                   *)
LEMMA ReadsFunctions ==
  ASSUME NEW p, NEW bound
  PROVE  ReadsTo(p, FunctionLines, Reading(p, bound, {}),
                 Reading(p, bound, ToSet(EventTables)))
<1> DEFINE s0 == Reading(p, bound, {})
           game == {"game_event_types"}
           s1 == Reading(p, bound, game)
           messages == {"game_event_types", "message_event_types"}
           s2 == Reading(p, bound, messages)
           s3 == Reading(p, bound, ToSet(EventTables))
           l1 == Open("game_event_types")
           l2 == Open("message_event_types")
           l3 == Open("tracker_event_types")
           loop == Assign("gameloop", 0)
<1>1. /\ l1 \in FileLines(p) /\ l2 \in FileLines(p) /\ l3 \in FileLines(p)
      /\ loop \in FileLines(p) /\ Code \in FileLines(p)
  BY NamesKnown, KnownLines DEF Names
<1>2. /\ ParseLine(s0, Code) = s0 /\ ParseLine(s1, Code) = s1
      /\ ParseLine(s2, Code) = s2 /\ ParseLine(s3, Code) = s3
      /\ ParseLine(s0, loop) = s0
  <2> DEFINE none == {}
             all == ToSet(EventTables)
  <2>1. /\ none \in SUBSET ToSet(EventTables) /\ game \in SUBSET ToSet(EventTables)
        /\ messages \in SUBSET ToSet(EventTables)
        /\ all \in SUBSET ToSet(EventTables)
    BY NamesKnown
  <2>2. ParseLine(s0, loop) = s0
    BY FunctionLine, Zenon
  <2> HIDE DEF none, game, messages, all
  <2>3. /\ ParseLine(Reading(p, bound, none), Code) = Reading(p, bound, none)
        /\ ParseLine(Reading(p, bound, game), Code) = Reading(p, bound, game)
        /\ ParseLine(Reading(p, bound, messages), Code) = Reading(p, bound, messages)
        /\ ParseLine(Reading(p, bound, all), Code) = Reading(p, bound, all)
    BY <2>1, FunctionLine
  <2> QED
    BY <2>2, <2>3, Zenon DEF none, game, messages, all
<1>3. ParseLine(s0, l1) = s1 /\ ParseLine(s1, l2) = s2 /\ ParseLine(s2, l3) = s3
  <2> DEFINE none == {}
             all == ToSet(EventTables)
  <2>1. /\ Opened(none, "game_event_types") = game
        /\ Opened(game, "message_event_types") = messages
        /\ Opened(messages, "tracker_event_types") = all
    BY NamesKnown DEF Opened
  <2> HIDE DEF none, game, messages, all
  <2>2. ParseLine(Reading(p, bound, none), Open("game_event_types"))
          = Reading(p, bound, Opened(none, "game_event_types"))
    BY OpenLine
  <2>3. ParseLine(Reading(p, bound, game), Open("message_event_types"))
          = Reading(p, bound, Opened(game, "message_event_types"))
    BY OpenLine
  <2>4. ParseLine(Reading(p, bound, messages), Open("tracker_event_types"))
          = Reading(p, bound, Opened(messages, "tracker_event_types"))
    BY OpenLine
  <2> QED
    BY <2>1, <2>2, <2>3, <2>4, Zenon DEF none, game, messages, all
<1> HIDE DEF s0, s1, s2, s3, l1, l2, l3, loop, game, messages
<1> DEFINE states == <<s0, s0, s0, s0, s1, s1, s2, s2, s3, s3>>
           f == [n \in 0 .. 9 |-> states[n + 1]]
           lines == <<Code, loop, Code, l1, Code, l2, Code, l3, Code>>
<1>4. FunctionLines = lines
  BY DEF FunctionLines, loop, l1, l2, l3
<1>5. /\ lines \in Seq(FileLines(p)) /\ Len(lines) = 9
      /\ lines[1] = Code /\ lines[2] = loop /\ lines[3] = Code /\ lines[4] = l1
      /\ lines[5] = Code /\ lines[6] = l2 /\ lines[7] = Code /\ lines[8] = l3
      /\ lines[9] = Code
  BY <1>1
<1>6. /\ f[0] = s0 /\ f[1] = s0 /\ f[2] = s0 /\ f[3] = s0 /\ f[4] = s1
      /\ f[5] = s1 /\ f[6] = s2 /\ f[7] = s2 /\ f[8] = s3 /\ f[9] = s3
  OBVIOUS
<1> HIDE DEF f, lines
<1>7. ASSUME NEW n \in 1 .. Len(lines)
      PROVE  ParseLine(f[n - 1], lines[n]) = f[n]
  <2>1. n \in 1 .. 9
    BY <1>5
  <2>2. \/ n = 1 \/ n = 2 \/ n = 3 \/ n = 4 \/ n = 5 \/ n = 6 \/ n = 7 \/ n = 8
        \/ n = 9
    BY <2>1
  <2>3. /\ 1 - 1 = 0 /\ 2 - 1 = 1 /\ 3 - 1 = 2 /\ 4 - 1 = 3 /\ 5 - 1 = 4
        /\ 6 - 1 = 5 /\ 7 - 1 = 6 /\ 8 - 1 = 7 /\ 9 - 1 = 8
    OBVIOUS
  <2> QED
    BY <1>2, <1>3, <1>5, <1>6, <2>2, <2>3, Zenon
<1>8. ReadsTo(p, lines, f[0], f[Len(lines)])
  BY <1>5, <1>7, ReadsAll
<1> QED
  BY <1>4, <1>5, <1>6, <1>8 DEF s0, s3

(* The lines of the table of types.                                        *)
LEMMA ReadsTypes ==
  ASSUME NEW p
  PROVE  ReadsTo(p, << Open("typeinfos"), TypeRow(p.typeinfos), Close("]") >>,
                 Reading(p, {}, {}), Reading(p, {"typeinfos"}, {}))
<1> DEFINE none == {}
           types == {"typeinfos"}
           name == "typeinfos"
           bracket == "]"
           s0 == Reading(p, none, none)
           s1 == Reading(p, none, types)
           s2 == Reading(p, types, types)
           s3 == Reading(p, types, none)
           l1 == Open(name)
           l2 == TypeRow(p.typeinfos)
           l3 == Close(bracket)
<1>1. Opened(none, name) = types /\ Closed(types, bracket) = none
  BY DEF Opened, Closed
<1>2. l1 \in FileLines(p) /\ l2 \in FileLines(p) /\ l3 \in FileLines(p)
  BY KnownLines DEF Names
<1>3. ParseLine(s1, l2) = s2
  <2>1. {} \cup {"typeinfos"} = types
    OBVIOUS
  <2>2. ParseLine(Reading(p, {}, {"typeinfos"}), TypeRow(p.typeinfos))
          = Reading(p, {} \cup {"typeinfos"}, {"typeinfos"})
    BY TypeLines
  <2> QED
    BY <2>1, <2>2, Zenon
<1>4. ParseLine(s0, l1) = s1
  <2> HIDE DEF none, types, name
  <2>1. ParseLine(Reading(p, none, none), Open(name))
          = Reading(p, none, Opened(none, name))
    BY OpenLine
  <2> QED
    BY <1>1, <2>1, Zenon
<1>5. ParseLine(s2, l3) = s3
  <2> HIDE DEF none, types, bracket
  <2>1. ParseLine(Reading(p, types, types), Close(bracket))
          = Reading(p, types, Closed(types, bracket))
    BY CloseLine
  <2> QED
    BY <1>1, <2>1, Zenon
<1> HIDE DEF s0, s1, s2, s3, l1, l2, l3
<1> DEFINE lines == <<l1, l2, l3>>
           states == <<s0, s1, s2, s3>>
           f == [n \in 0 .. 3 |-> states[n + 1]]
<1>6. /\ lines \in Seq(FileLines(p)) /\ Len(lines) = 3
      /\ lines[1] = l1 /\ lines[2] = l2 /\ lines[3] = l3
  BY <1>2
<1>7. f[0] = s0 /\ f[1] = s1 /\ f[2] = s2 /\ f[3] = s3
  OBVIOUS
<1>8. << Open("typeinfos"), TypeRow(p.typeinfos), Close("]") >> = lines
  BY Zenon DEF l1, l2, l3
<1> HIDE DEF lines, f
<1>9. ASSUME NEW n \in 1 .. Len(lines)
      PROVE  ParseLine(f[n - 1], lines[n]) = f[n]
  <2>1. n = 1 \/ n = 2 \/ n = 3
    BY <1>6
  <2>2. 1 - 1 = 0 /\ 2 - 1 = 1 /\ 3 - 1 = 2
    OBVIOUS
  <2> QED
    BY <1>3, <1>4, <1>5, <1>6, <1>7, <2>1, <2>2, Zenon
<1>10. ReadsTo(p, lines, f[0], f[Len(lines)])
  BY <1>6, <1>9, ReadsAll
<1> QED
  BY <1>6, <1>7, <1>8, <1>10, Zenon DEF s0, s3

(* All the lines of a file: every name is bound.                           *)
LEMMA ReadsFile ==
  ASSUME NEW p, IsProtocol(p)
  PROVE  ReadsTo(p, Lines(p), Reading(p, {}, {}),
                 Reading(p, Names, ToSet(EventTables)))
<1> DEFINE none == {}
           b1 == {"typeinfos"}
           b2 == b1 \cup {"game_event_types", "game_eventid_typeid"}
           b3 == b2 \cup {"message_event_types", "message_eventid_typeid"}
           b4 == b3 \cup {"tracker_event_types", "tracker_eventid_typeid"}
           b5 == b4 \cup { RootTypeIds[i] : i \in 4 .. 8 }
           L0 == << Open("typeinfos"), TypeRow(p.typeinfos), Close("]") >>
           L1 == EventTableLines(p, "game_event_types", "game_eventid_typeid")
           L2 == EventTableLines(p, "message_event_types", "message_eventid_typeid")
           L3 == EventTableLines(p, "tracker_event_types", "tracker_eventid_typeid")
           L4 == [i \in 1 .. 5 |-> Assign(RootTypeIds[i + 3], p[RootTypeIds[i + 3]])]
<1>1. { RootTypeIds[i] : i \in 4 .. 8 }
        = {"svaruint32_typeid", "replay_userid_typeid", "replay_header_typeid",
           "game_details_typeid", "replay_initdata_typeid"}
  <2>1. 4 .. 8 = {4, 5, 6, 7, 8}
    OBVIOUS
  <2>2. /\ RootTypeIds[4] = "svaruint32_typeid"
        /\ RootTypeIds[5] = "replay_userid_typeid"
        /\ RootTypeIds[6] = "replay_header_typeid"
        /\ RootTypeIds[7] = "game_details_typeid"
        /\ RootTypeIds[8] = "replay_initdata_typeid"
    BY DEF RootTypeIds
  <2> QED
    BY <2>1, <2>2
<1>2. b5 = Names
  BY <1>1, NamesKnown DEF Names
<1>3. ReadsTo(p, L0, Reading(p, none, none), Reading(p, b1, none))
  BY ReadsTypes
<1>4. ReadsTo(p, L1, Reading(p, b1, none), Reading(p, b2, none))
  <2>1. /\ "game_event_types" \in ToSet(EventTables) \ b1
        /\ "game_eventid_typeid" \in ToSet(RootTypeIds) \ b1
    BY NamesKnown
  <2> HIDE DEF b1
  <2> QED
    BY <2>1, ReadsTable
<1>5. ReadsTo(p, L2, Reading(p, b2, none), Reading(p, b3, none))
  <2>1. /\ "message_event_types" \in ToSet(EventTables) \ b2
        /\ "message_eventid_typeid" \in ToSet(RootTypeIds) \ b2
    BY NamesKnown
  <2> HIDE DEF b2
  <2> QED
    BY <2>1, ReadsTable
<1>6. ReadsTo(p, L3, Reading(p, b3, none), Reading(p, b4, none))
  <2>1. /\ "tracker_event_types" \in ToSet(EventTables) \ b3
        /\ "tracker_eventid_typeid" \in ToSet(RootTypeIds) \ b3
    BY NamesKnown
  <2> HIDE DEF b3
  <2> QED
    BY <2>1, ReadsTable
<1>7. ReadsTo(p, L4, Reading(p, b4, none), Reading(p, b5, none))
  <2>1. \A i \in 4 .. 8 : RootTypeIds[i] \notin b4
    BY <1>1
  <2> HIDE DEF b4
  <2> QED
    BY <2>1, ReadsIds
<1>8. ReadsTo(p, FunctionLines, Reading(p, b5, none),
              Reading(p, b5, ToSet(EventTables)))
  <2> HIDE DEF b5
  <2> QED
    BY ReadsFunctions
<1>9. Lines(p) = L0 \o L1 \o L2 \o L3 \o L4 \o FunctionLines
  BY Zenon DEF Lines, FileOf
<1> HIDE DEF L0, L1, L2, L3, L4, b1, b2, b3, b4, b5, none
<1>10. ReadsTo(p, L0 \o L1, Reading(p, none, none), Reading(p, b2, none))
  BY <1>3, <1>4, ReadsOn
<1>11. ReadsTo(p, L0 \o L1 \o L2, Reading(p, none, none), Reading(p, b3, none))
  BY <1>5, <1>10, ReadsOn
<1>12. ReadsTo(p, L0 \o L1 \o L2 \o L3, Reading(p, none, none), Reading(p, b4, none))
  BY <1>6, <1>11, ReadsOn
<1>13. ReadsTo(p, L0 \o L1 \o L2 \o L3 \o L4, Reading(p, none, none),
               Reading(p, b5, none))
  BY <1>7, <1>12, ReadsOn
<1>14. ReadsTo(p, L0 \o L1 \o L2 \o L3 \o L4 \o FunctionLines,
               Reading(p, none, none), Reading(p, b5, ToSet(EventTables)))
  BY <1>8, <1>13, ReadsOn
<1> QED
  BY <1>2, <1>9, <1>14, Zenon DEF none

(* The parser binds what Python binds, for every file of a protocol: the   *)
(* flags for the tables never overlap, the lines of the functions, which   *)
(* look like beginnings of tables, bind nothing, and no name is missed.    *)
THEOREM ParserBindsAsPython ==
  ASSUME NEW p, IsProtocol(p)
  PROVE  Parse(Lines(p)).version = p
<1>1. Reading(p, {}, {}) = Start
  <2>1. PartlyBound(p, {}) = NewVersion
    BY DEF PartlyBound, NewVersion
  <2> QED
    BY <2>1, Zenon DEF Reading, Start
<1>2. Parse(Lines(p)) = Reading(p, Names, ToSet(EventTables))
  <2>1. ReadsTo(p, Lines(p), Start, Reading(p, Names, ToSet(EventTables)))
    BY <1>1, ReadsFile, Zenon
  <2> QED
    BY <2>1, ParseReads
<1>3. Reading(p, Names, ToSet(EventTables)).version = PartlyBound(p, Names)
  BY DEF Reading
<1>4. PartlyBound(p, Names) = [n \in Names |-> p[n]]
  BY DEF PartlyBound
<1>5. p = [n \in Names |-> p[n]]
  BY DEF IsProtocol
<1> QED
  BY <1>2, <1>3, <1>4, <1>5, Zenon

(* No payload is of tables that the parser read differently from Python:   *)
(* a generator that reads lines with flags works with what the files bind. *)
THEOREM ParsedAsBound == Spec => []ParsedIsBound
<1>1. Misparsed = {}
  <2>1. ASSUME NEW b \in DOMAIN Bound PROVE Tables[b] = Bound[b]
    <3>1. IsProtocol(Bound[b]) /\ Tables[b] = Parse(Lines(Bound[b])).version
      BY FilesAssumption
    <3> DEFINE p == Bound[b]
    <3> HIDE DEF p
    <3>2. IsProtocol(p) => Parse(Lines(p)).version = p
      BY ParserBindsAsPython
    <3> QED
      BY <3>1, <3>2, Zenon DEF p
  <2> QED
    BY <2>1 DEF Misparsed
<1>2. ParsedIsBound
  BY <1>1 DEF ParsedIsBound
<1> QED
  BY <1>2, PTL

=============================================================================
