------------------------ MODULE MCResourceGenerator -------------------------
(***************************************************************************)
(* The generator on the protocol files of the repository, as the parser    *)
(* reads them.  A first release lacks some builds, among them one that     *)
(* others will be aliases of; a second adds a file of a later game with a  *)
(* kind of type the parser does not know; the third is what is shipped.    *)
(***************************************************************************)
EXTENDS ProtocolFiles, FiniteSets

BoundTables == LET files == Protocols IN files

FutureBuild == 99999
KnownBuilds == LET files == Protocols IN DOMAIN files
AllBuilds   == LET builds == KnownBuilds IN builds \cup {FutureBuild}

(* "@@ <<>>" has TLC tabulate the functions.                               *)
ParsedFiles ==
  LET files == Protocols
  IN [b \in DOMAIN files |-> Parse(Lines(files[b]))]
     @@ (FutureBuild :> Parse(FileOf(protocol97563, UnsupportedRow)))

ParsedTables ==
  LET files == ParsedFiles
  IN [b \in AllBuilds |-> files[b].version] @@ <<>>

Refused == LET files == ParsedFiles IN { b \in AllBuilds : files[b].failed }

(* A hash of three values.                                                 *)
SmallHash ==
  LET tables == ParsedTables
  IN [b \in AllBuilds |-> tables[b].typeinfos.revision % 3] @@ <<>>

FewBuilds(builds) == { b \in builds : b < 18500 \/ b > 97400 } \ {16561}

Shipments ==
  LET builds == KnownBuilds
  IN << FewBuilds(builds), {15405, FutureBuild}, builds >>

OldPayloads == {15405, 16605, 17326}

-----------------------------------------------------------------------------
(* Properties of the generator on these files.                             *)

(* On its last release the tool arrives at the manifest of the repository. *)
GeneratesShipped ==
  pc = "done" /\ release = Len(Releases) => versions = ShippedManifest

(* A decoder with type old reads what was written with type new: a field   *)
(* keeps its tag, name and kind, and fields are added at the end.          *)
RECURSIVE Extends(_, _)
Extends(new, old) ==
  /\ new.kind = old.kind
  /\ \A i \in DOMAIN old.item : Extends(new.item[i], old.item[i])
  /\ Len(old.fields) <= Len(new.fields)
  /\ \A i \in DOMAIN old.fields :
       /\ new.fields[i].name = old.fields[i].name
       /\ Extends(new.fields[i].type, old.fields[i].type)

(* The tagged sections of one build as seen with the tables of another.    *)
TaggedExtends(new, old) ==
  LET n == Bound[new]
      o == Bound[old]
  IN /\ Extends(n.typeinfos.header, o.typeinfos.header)
     /\ Extends(n.typeinfos.details, o.typeinfos.details)
     /\ \A id \in DOMAIN o.tracker_event_types.names :
          LET name == o.tracker_event_types.names[id] IN
          /\ id \in DOMAIN n.tracker_event_types.names
          /\ n.tracker_event_types.names[id] = name
          /\ Extends(n.typeinfos.tracker[name], o.typeinfos.tracker[name])

(* The library reads the header of any replay with its newest tables, and  *)
(* a replay of a build it has no tables of with those of the nearest build *)
(* below.  Of the payloads that the tool leaves, the tagged sections of    *)
(* each are extended by those of the next.                                 *)
NewerPayloadsExtend ==
  pc = "done" =>
    LET canonical == { versions[b] : b \in DOMAIN versions } IN
    \A old, new \in canonical :
      (old < new /\ \A c \in canonical : c <= old \/ new <= c)
        => TaggedExtends(new, old)

=============================================================================
