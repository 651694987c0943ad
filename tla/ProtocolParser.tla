--------------------------- MODULE ProtocolParser ---------------------------
(***************************************************************************)
(* ProtocolPythonParser of tools/S2ProtocolJsonGenerator/Program.cs, which *)
(* reads the tables out of the Python text line by line, against what      *)
(* Python binds when it runs the file.  Four flags say which table the     *)
(* lines belong to.  One row stands for all the rows of a table.  Blank    *)
(* lines and comments are left out.                                        *)
(***************************************************************************)
EXTENDS ProtocolBuilds, SequencesExt

EventTables == << "game_event_types", "message_event_types",
                  "tracker_event_types" >>

RootTypeIds ==
  << "game_eventid_typeid", "message_eventid_typeid",
     "tracker_eventid_typeid", "svaruint32_typeid", "replay_userid_typeid",
     "replay_header_typeid", "game_details_typeid",
     "replay_initdata_typeid" >>

-----------------------------------------------------------------------------
(* The lines of a file, by what the parser looks at.                       *)

Open(table)         == [kind |-> "open", name |-> table]
Close(bracket)      == [kind |-> "close", name |-> bracket]
Code                == [kind |-> "code"]
TypeRow(types)      == [kind |-> "types", types |-> types]
EventRows(events)   == [kind |-> "events", events |-> events]
Assign(name, value) == [kind |-> "assign", name |-> name, value |-> value]
UnsupportedRow      == [kind |-> "unsupported"]

EventTableLines(p, table, id) ==
  << Open(table), EventRows(p[table]), Close("}"), Assign(id, p[id]) >>

(* The functions name the tables again, as arguments on lines of their own *)
(* that begin like the tables do.                                          *)
FunctionLines ==
  << Code, Assign("gameloop", 0), Code, Open("game_event_types"), Code,
     Open("message_event_types"), Code, Open("tracker_event_types"), Code >>

FileOf(p, typeRow) ==
  << Open("typeinfos"), typeRow, Close("]") >>
  \o EventTableLines(p, "game_event_types", "game_eventid_typeid")
  \o EventTableLines(p, "message_event_types", "message_eventid_typeid")
  \o EventTableLines(p, "tracker_event_types", "tracker_eventid_typeid")
  \o [i \in 1 .. 5 |-> Assign(RootTypeIds[i + 3], p[RootTypeIds[i + 3]])]
  \o FunctionLines

Lines(p) == FileOf(p, TypeRow(p.typeinfos))

-----------------------------------------------------------------------------
(* The parser.                                                             *)

NoTypes  == TypeInfos(0, Plain("none"), Plain("none"), <<>>)
NoEvents == Events(0, <<>>)

Names == {"typeinfos"} \cup ToSet(EventTables) \cup ToSet(RootTypeIds)

(* An empty CompactProtocolVersion: a type id that is never set is null.   *)
NewVersion ==
  [n \in Names |-> IF n = "typeinfos" THEN NoTypes
                   ELSE IF n \in ToSet(EventTables) THEN NoEvents
                   ELSE None]

Start == [version |-> NewVersion, in |-> {}, failed |-> FALSE]

Fail(s) == [s EXCEPT !.failed = TRUE]

(* ParseTypeInfo throws at a line that is not of the form of a type, or of *)
(* a kind of type it does not know.                                        *)
ParseTypeInfo(s, line) ==
  IF line.kind = "types" THEN [s EXCEPT !.version.typeinfos = line.types]
  ELSE Fail(s)

(* A dictionary with entries set in it.                                    *)
With(dictionary, entries) ==
  [id \in DOMAIN entries \cup DOMAIN dictionary |->
     IF id \in DOMAIN entries THEN entries[id] ELSE dictionary[id]]

(* ParseEventType passes over what is not of the form of an event.  Of the *)
(* tables that are open, the first in this order gets the event.           *)
ParseEventType(s, line) ==
  LET open  == { i \in DOMAIN EventTables : EventTables[i] \in s.in }
      table == EventTables[CHOOSE i \in open : \A j \in open : i <= j]
  IN
  IF line.kind = "events"
  THEN [s EXCEPT !.version[table] =
          Events(line.events.typeids, With(@.names, line.events.names))]
  ELSE s

(* ParseRootTypeId: None is no number, and other names are passed over.    *)
ParseRootTypeId(s, line) ==
  IF /\ line.kind = "assign"
     /\ line.name \in ToSet(RootTypeIds)
     /\ line.value # None
  THEN [s EXCEPT !.version[line.name] = line.value]
  ELSE s

(* Which of them a line is for.  The table of types comes first.           *)
ParseRow(s, line) ==
  IF "typeinfos" \in s.in THEN ParseTypeInfo(s, line)
  ELSE IF s.in # {} THEN ParseEventType(s, line)
  ELSE ParseRootTypeId(s, line)

(* Bug: the end of a table of events leaves the flag of the first set.     *)
ParseLineKeepsFlag(s, line) ==
  CASE s.failed -> s
    [] ~s.failed /\ line.kind = "open" ->
         [s EXCEPT !.in = @ \cup {line.name}]
    [] ~s.failed /\ line.kind = "close" ->
         [s EXCEPT !.in = @ \ (IF line.name = "]" THEN {"typeinfos"}
                               ELSE ToSet(Tail(EventTables)))]
    [] ~s.failed /\ line.kind \notin {"open", "close"} -> ParseRow(s, line)

ParseLine(s, line) ==
  CASE s.failed -> s
    [] ~s.failed /\ line.kind = "open" ->
         [s EXCEPT !.in = @ \cup {line.name}]
    [] ~s.failed /\ line.kind = "close" ->
         [s EXCEPT !.in = @ \ (IF line.name = "]" THEN {"typeinfos"}
                               ELSE ToSet(EventTables))]
    [] ~s.failed /\ line.kind \notin {"open", "close"} -> ParseRow(s, line)

(* The state after n lines.                                                *)
Parse(lines) ==
  LET state[n \in 0 .. Len(lines)] ==
        IF n = 0 THEN Start ELSE ParseLine(state[n - 1], lines[n])
  IN state[Len(lines)]

=============================================================================
