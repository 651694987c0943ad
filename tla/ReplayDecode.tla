---------------------------- MODULE ReplayDecode ----------------------------
(***************************************************************************)
(* Decoding replays: the two DecodeAsync of ReplayDecoder.cs and the       *)
(* constructors of Mpq/MPQArchive.cs they open an archive with.            *)
(*                                                                         *)
(* Several decodes run at once, each on a file by its path or on a stream  *)
(* of its caller.  While they wait for their archive, files come and go,   *)
(* tokens are cancelled, and callers may still change the options object   *)
(* they passed in: ReplayDecoderOptions has setters, and DecodeAsync looks *)
(* at each option only when it gets to that section.                       *)
(*                                                                         *)
(* A section is read across an await and decoded at once when the bytes    *)
(* are there.  What is in it does not matter here; that it may be missing, *)
(* corrupt or of an unknown protocol is a failure that may always happen.  *)
(***************************************************************************)
EXTENDS Integers, Sequences

CONSTANTS
  Decodes,     \* the callers of DecodeAsync
  Files,       \* the paths they pass
  Seekable,    \* the files that can be seeked: a pipe or a device cannot
  NoFile,      \* no handle
  Order,       \* the sections, in the order DecodeAsync reads them
  MaxCalls     \* bound: decodes by one caller

Sections == { Order[i] : i \in DOMAIN Order }

ASSUME ConstantsAssumption ==
  /\ Seekable \subseteq Files
  /\ NoFile \notin Files
  /\ Order \in Seq(Sections)
  /\ \A i, j \in DOMAIN Order : Order[i] = Order[j] => i = j
  /\ MaxCalls \in Nat

VARIABLES
  \* --- outside of the decoder
  present,    \* the files that exist
  options,    \* the options object of each caller, as the set of what is on
  cancelled,  \* the token of each call is cancelled
  streamOpen, \* the stream of each caller is open
  orphans,    \* handles nobody can reach, until they are finalized
  \* --- the calls
  pc,         \* what each call does next
  file,       \* replayPath, or NoFile for a call with a stream
  handle,     \* the file its archive has open
  cursor,     \* the section it is at, an index into Order
  sections,   \* the sections its Sc2Replay has
  failure,    \* "none", "token" or "error": the exception on its way out
  outcome,    \* how its last call ended
  calls,      \* calls it has started
  \* --- what the caller did during the call
  everOn,     \* options that have been on
  alwaysOn,   \* options that have not been off
  lateToken   \* the token was not cancelled when the call started

outside == <<present, options, cancelled, streamOpen, orphans>>
locals  == <<file, handle, cursor, sections, failure>>
history == <<everOn, alwaysOn, lateToken>>
vars    == <<outside, locals, history, pc, outcome, calls>>

Replay(s) == [kind |-> "replay", sections |-> s]
Threw(x)  == [kind |-> "threw", exception |-> x]
Running   == [kind |-> "running"]

Goto(d, from, to) == pc[d] = from /\ pc' = [pc EXCEPT ![d] = to]

(* The call ends; its locals go out of scope.                              *)
End(d, from, result) ==
  /\ Goto(d, from, "idle")
  /\ outcome' = [outcome EXCEPT ![d] = result]
  /\ file' = [file EXCEPT ![d] = NoFile]
  /\ cursor' = [cursor EXCEPT ![d] = 1]
  /\ sections' = [sections EXCEPT ![d] = {}]
  /\ failure' = [failure EXCEPT ![d] = "none"]
  /\ UNCHANGED <<present, options, cancelled, calls, history>>

-----------------------------------------------------------------------------
(* The callers and the file system.                                        *)

Call(d, f, from) ==
  /\ calls[d] < MaxCalls
  /\ Goto(d, "idle", from)
  /\ file' = [file EXCEPT ![d] = f]
  /\ \E on \in SUBSET Sections, c \in BOOLEAN :
       /\ options' = [options EXCEPT ![d] = on]
       /\ everOn' = [everOn EXCEPT ![d] = on]
       /\ alwaysOn' = [alwaysOn EXCEPT ![d] = on]
       /\ cancelled' = [cancelled EXCEPT ![d] = c]
       /\ lateToken' = [lateToken EXCEPT ![d] = ~c]
  /\ outcome' = [outcome EXCEPT ![d] = Running]
  /\ calls' = [calls EXCEPT ![d] = @ + 1]
  /\ UNCHANGED <<present, streamOpen, orphans, handle, cursor, sections,
                 failure>>

DecodePath(d)   == \E f \in Files : Call(d, f, "exists")
DecodeStream(d) == Call(d, NoFile, "open")

Cancel(d) ==
  /\ pc[d] # "idle" /\ ~cancelled[d]
  /\ cancelled' = [cancelled EXCEPT ![d] = TRUE]
  /\ UNCHANGED <<present, options, streamOpen, orphans, locals, history, pc,
                 outcome, calls>>

(* The caller flips one option of the object the running call looks at.    *)
ChangeOption(d) ==
  /\ pc[d] # "idle"
  /\ \E s \in Sections :
       LET now == IF s \in options[d] THEN options[d] \ {s}
                                      ELSE options[d] \cup {s}
       IN /\ options' = [options EXCEPT ![d] = now]
          /\ everOn' = [everOn EXCEPT ![d] = @ \cup now]
          /\ alwaysOn' = [alwaysOn EXCEPT ![d] = @ \cap now]
  /\ UNCHANGED <<present, cancelled, streamOpen, orphans, locals, lateToken,
                 pc, outcome, calls>>

(* Somebody creates or deletes a file.                                     *)
FileAppears(f) ==
  /\ f \notin present
  /\ present' = present \cup {f}
  /\ UNCHANGED <<options, cancelled, streamOpen, orphans, locals, history,
                 pc, outcome, calls>>

FileVanishes(f) ==
  /\ f \in present
  /\ present' = present \ {f}
  /\ UNCHANGED <<options, cancelled, streamOpen, orphans, locals, history,
                 pc, outcome, calls>>

(* The garbage collector finalizes a handle nobody disposed of.            *)
FinalizeHandle(f) ==
  /\ f \in orphans
  /\ orphans' = orphans \ {f}
  /\ UNCHANGED <<present, options, cancelled, streamOpen, locals, history,
                 pc, outcome, calls>>

-----------------------------------------------------------------------------
(* The archive's reader.                                                   *)

(* Bug: every reader closes its stream.                                    *)
LeaveOpenNever(d) == FALSE

(* leaveOpen: the two public constructors of MPQArchive.                   *)
LeaveOpen(d) == file[d] = NoFile

(* _reader.Dispose: a stream that is not left open is closed, be it the    *)
(* FileStream of the archive or the stream of the caller.                  *)
DisposeReader(d) ==
  /\ handle' = [handle EXCEPT ![d] = IF LeaveOpen(d) THEN @ ELSE NoFile]
  /\ streamOpen' = [streamOpen EXCEPT ![d] =
                      @ /\ (file[d] = NoFile => LeaveOpen(d))]

-----------------------------------------------------------------------------
(* Opening.                                                                *)

(* File.Exists, before the try.                                            *)
FileNotFound(d) ==
  /\ file[d] \notin present
  /\ End(d, "exists", Threw("FileNotFoundException"))
  /\ UNCHANGED <<streamOpen, orphans, handle>>

FileExists(d) ==
  /\ file[d] \in present
  /\ Goto(d, "exists", "open")
  /\ UNCHANGED <<outside, locals, history, outcome, calls>>

(* new FileStream throws: the file is gone by now, or locked, or not       *)
(* readable.                                                               *)
OpenFails(d) ==
  /\ file[d] # NoFile
  /\ End(d, "open", Threw("DecodeException"))
  /\ UNCHANGED <<streamOpen, orphans, handle>>

(* The core constructor checks CanRead and CanSeek before it has a reader  *)
(* to dispose of: a FileStream it was given stays open, and nobody has it. *)
(* A caller may pass a stream that fails the check, too.                   *)
StreamRejected(d) ==
  /\ file[d] = NoFile \/ file[d] \in present \ Seekable
  /\ End(d, "open", Threw("DecodeException"))
  /\ orphans' = IF file[d] = NoFile THEN orphans ELSE orphans \cup {file[d]}
  /\ UNCHANGED <<streamOpen, handle>>

(* The headers or tables are no MPQ archive: the catch block disposes of   *)
(* the reader.                                                             *)
NoArchive(d) ==
  /\ file[d] = NoFile \/ file[d] \in present \cap Seekable
  /\ End(d, "open", Threw("DecodeException"))
  /\ DisposeReader(d)
  /\ UNCHANGED orphans

ArchiveOpened(d) ==
  /\ file[d] = NoFile \/ file[d] \in present \cap Seekable
  /\ Goto(d, "open", "start")
  /\ handle' = [handle EXCEPT ![d] = file[d]]
  /\ UNCHANGED <<outside, file, cursor, sections, failure, history, outcome,
                 calls>>

-----------------------------------------------------------------------------
(* The private DecodeAsync.                                                *)

(* An exception leaves it, for the using and catch of the public one.      *)
Throw(d, from, reason) ==
  /\ Goto(d, from, "dispose")
  /\ failure' = [failure EXCEPT ![d] = reason]
  /\ UNCHANGED <<outside, file, handle, cursor, sections, history, outcome,
                 calls>>

(* Bug: the token is left to the reads of the sections.                    *)
StartUnchecked(d) ==
  /\ Goto(d, "start", "section")
  /\ UNCHANGED <<outside, locals, history, outcome, calls>>

(* ThrowIfCancellationRequested.                                           *)
StartCancelled(d) == cancelled[d] /\ Throw(d, "start", "token")

(* The header is decoded and the protocol loaded.                          *)
Start(d) ==
  /\ ~cancelled[d]
  /\ Goto(d, "start", "section")
  /\ UNCHANGED <<outside, locals, history, outcome, calls>>

(* The header is bad, or there is no protocol for its build.               *)
StartFails(d) == ~cancelled[d] /\ Throw(d, "start", "error")

(* The section the call is at.                                             *)
Section(d) == Order[cursor[d]]
AtSection(d) == pc[d] = "section" /\ cursor[d] \in DOMAIN Order

(* Bug: whether to skip is asked of what the options once were.            *)
SkipSectionNeverOn(d) ==
  /\ AtSection(d)
  /\ Section(d) \notin everOn[d]
  /\ cursor' = [cursor EXCEPT ![d] = @ + 1]
  /\ UNCHANGED <<outside, file, handle, sections, failure, history, pc,
                 outcome, calls>>

SkipSection(d) ==
  /\ AtSection(d)
  /\ Section(d) \notin options[d]
  /\ cursor' = [cursor EXCEPT ![d] = @ + 1]
  /\ UNCHANGED <<outside, file, handle, sections, failure, history, pc,
                 outcome, calls>>

BeginSection(d) ==
  /\ AtSection(d)
  /\ Section(d) \in options[d]
  /\ Goto(d, "section", "await")
  /\ UNCHANGED <<outside, locals, history, outcome, calls>>

(* Bug: a section that is missing is left out of the replay.               *)
SectionTolerated(d) ==
  /\ Goto(d, "await", "section")
  /\ cursor' = [cursor EXCEPT ![d] = @ + 1]
  /\ UNCHANGED <<outside, file, handle, sections, failure, history, outcome,
                 calls>>

(* It is missing, which ThrowIfNull rejects, or corrupt.                   *)
SectionFails(d) == Throw(d, "await", "error")

SectionCancelled(d) == cancelled[d] /\ Throw(d, "await", "token")

(* The bytes are there, and are decoded into the replay.                   *)
SectionDecoded(d) ==
  /\ Goto(d, "await", "section")
  /\ sections' = [sections EXCEPT ![d] = @ \cup {Section(d)}]
  /\ cursor' = [cursor EXCEPT ![d] = @ + 1]
  /\ UNCHANGED <<outside, file, handle, failure, history, outcome, calls>>

AllSections(d) ==
  /\ cursor[d] \notin DOMAIN Order
  /\ Goto(d, "section", "dispose")
  /\ UNCHANGED <<outside, locals, history, outcome, calls>>

-----------------------------------------------------------------------------
(* The end of the public DecodeAsync.                                      *)

(* What the catch blocks make of an exception.                             *)
Caught(reason) ==
  IF reason = "token" THEN Threw("OperationCanceledException")
                      ELSE Threw("DecodeException")

Result(d) == IF failure[d] = "none" THEN Replay(sections[d])
                                    ELSE Caught(failure[d])

(* Bug: the archive is disposed of only on the way to the result.          *)
DisposeOnSuccess(d) ==
  /\ handle' = [handle EXCEPT ![d] = IF failure[d] = "none" THEN NoFile ELSE @]
  /\ End(d, "dispose", Result(d))
  /\ UNCHANGED <<streamOpen, orphans>>

(* using disposes of the archive, and the catch blocks have their say.     *)
Dispose(d) ==
  /\ DisposeReader(d)
  /\ End(d, "dispose", Result(d))
  /\ UNCHANGED orphans

-----------------------------------------------------------------------------
Init ==
  /\ present \in SUBSET Files
  /\ options = [d \in Decodes |-> {}]
  /\ cancelled = [d \in Decodes |-> FALSE]
  /\ streamOpen = [d \in Decodes |-> TRUE]
  /\ orphans = {}
  /\ pc = [d \in Decodes |-> "idle"]
  /\ file = [d \in Decodes |-> NoFile]
  /\ handle = [d \in Decodes |-> NoFile]
  /\ cursor = [d \in Decodes |-> 1]
  /\ sections = [d \in Decodes |-> {}]
  /\ failure = [d \in Decodes |-> "none"]
  /\ outcome = [d \in Decodes |-> Running]
  /\ calls = [d \in Decodes |-> 0]
  /\ everOn = [d \in Decodes |-> {}]
  /\ alwaysOn = [d \in Decodes |-> {}]
  /\ lateToken = [d \in Decodes |-> TRUE]

Opening(d)  == FileNotFound(d) \/ FileExists(d) \/ OpenFails(d)
                 \/ StreamRejected(d) \/ NoArchive(d) \/ ArchiveOpened(d)
Decoding(d) == StartCancelled(d) \/ Start(d) \/ StartFails(d)
                 \/ SkipSection(d) \/ BeginSection(d) \/ SectionFails(d)
                 \/ SectionCancelled(d) \/ SectionDecoded(d) \/ AllSections(d)

(* The steps of a call that is under way.                                  *)
Step(d) == Opening(d) \/ Decoding(d) \/ Dispose(d)

Environment ==
  \/ \E d \in Decodes : \/ DecodePath(d) \/ DecodeStream(d)
                        \/ Cancel(d) \/ ChangeOption(d)
  \/ \E f \in Files : FileAppears(f) \/ FileVanishes(f) \/ FinalizeHandle(f)

Next == Environment \/ \E d \in Decodes : Step(d)

Spec == Init /\ [][Next]_vars

(* The continuations of a call run, and its stream answers.                *)
FairSpec == Spec /\ \A d \in Decodes : WF_vars(Step(d))

-----------------------------------------------------------------------------
(* Properties.                                                             *)

Exceptions == {"FileNotFoundException", "DecodeException",
               "OperationCanceledException"}

TypeOK ==
  /\ present \subseteq Files
  /\ options \in [Decodes -> SUBSET Sections]
  /\ cancelled \in [Decodes -> BOOLEAN]
  /\ streamOpen \in [Decodes -> BOOLEAN]
  /\ orphans \subseteq Files
  /\ pc \in [Decodes -> {"idle", "exists", "open", "start", "section",
                         "await", "dispose"}]
  /\ file \in [Decodes -> Files \cup {NoFile}]
  /\ handle \in [Decodes -> Files \cup {NoFile}]
  /\ cursor \in [Decodes -> 1 .. Len(Order) + 1]
  /\ sections \in [Decodes -> SUBSET Sections]
  /\ failure \in [Decodes -> {"none", "token", "error"}]
  /\ outcome \in [Decodes -> {Running} \cup { Threw(x) : x \in Exceptions }
                               \cup { Replay(s) : s \in SUBSET Sections }]
  /\ calls \in [Decodes -> Nat]
  /\ everOn \in [Decodes -> SUBSET Sections]
  /\ alwaysOn \in [Decodes -> SUBSET Sections]
  /\ lateToken \in [Decodes -> BOOLEAN]

(* A replay is returned whole: it has every section whose option was on    *)
(* all through the call and none whose option never was, whatever failed   *)
(* or changed on the way.                                                  *)
ReplayComplete ==
  \A d \in Decodes : outcome[d].kind = "replay" =>
    /\ alwaysOn[d] \subseteq outcome[d].sections
    /\ outcome[d].sections \subseteq everOn[d]

(* A call that has ended, in whatever way, has no file open, and the       *)
(* stream a caller owns is open still; the handle a call may have lost is  *)
(* one of a file that cannot be seeked.                                    *)
StreamsSettled ==
  /\ \A d \in Decodes : /\ pc[d] = "idle" => handle[d] = NoFile
                        /\ streamOpen[d]
  /\ orphans \cap Seekable = {}

(* A call whose token was cancelled before it started returns no replay,   *)
(* even if no section is asked for; and a call is reported as cancelled    *)
(* only if its token is.                                                   *)
CancellationHonoured ==
  \A d \in Decodes :
    /\ outcome[d].kind = "replay" => lateToken[d]
    /\ outcome[d] = Threw("OperationCanceledException") => cancelled[d]

(* Every call ends.                                                        *)
DecodesEnd == \A d \in Decodes : pc[d] # "idle" ~> pc[d] = "idle"

-----------------------------------------------------------------------------
(* The inductive invariant of the proofs.                                  *)

(* The options lie between what has always and what has ever been on.      *)
OptionsKnown ==
  \A d \in Decodes : /\ alwaysOn[d] \subseteq options[d]
                     /\ options[d] \subseteq everOn[d]

(* What the replay of a running call has.                                  *)
SectionsSoFar ==
  \A d \in Decodes :
    /\ sections[d] \subseteq everOn[d]
    /\ \A i \in 1 .. cursor[d] - 1 :
         Order[i] \in alwaysOn[d] => Order[i] \in sections[d]
    /\ pc[d] = "await" => /\ cursor[d] \in DOMAIN Order
                          /\ Section(d) \in everOn[d]
    /\ pc[d] = "dispose" /\ failure[d] = "none" => cursor[d] = Len(Order) + 1

(* Where a call may hold a handle, and what it has thrown.                 *)
CallState ==
  \A d \in Decodes :
    /\ pc[d] \in {"idle", "exists", "open"} => handle[d] = NoFile
    /\ handle[d] # NoFile => handle[d] = file[d]
    /\ streamOpen[d]
    /\ pc[d] = "idle" => cursor[d] = 1 /\ sections[d] = {}
    /\ pc[d] # "dispose" => failure[d] = "none"
    /\ pc[d] # "idle" => outcome[d] = Running

(* What the token has been.                                                *)
TokenKnown ==
  \A d \in Decodes :
    /\ ~lateToken[d] => cancelled[d]
    /\ failure[d] = "token" => cancelled[d]
    /\ pc[d] \in {"section", "await"} => lateToken[d]
    /\ pc[d] = "dispose" /\ failure[d] = "none" => lateToken[d]

(* The inductive invariant.                                                *)
IInv ==
  /\ TypeOK
  /\ OptionsKnown
  /\ SectionsSoFar
  /\ CallState
  /\ TokenKnown
  /\ ReplayComplete
  /\ CancellationHonoured
  /\ orphans \cap Seekable = {}

=============================================================================
