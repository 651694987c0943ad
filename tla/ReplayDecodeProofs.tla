------------------------- MODULE ReplayDecodeProofs -------------------------
(***************************************************************************)
(* Theorems about ReplayDecode, for any number of decodes, any files and   *)
(* any list of sections, and their proofs.                                 *)
(***************************************************************************)
EXTENDS ReplayDecode, TLAPS

-----------------------------------------------------------------------------
(* Outcomes and sections.                                                  *)

Outcomes == {Running} \cup { Threw(x) : x \in Exceptions }
              \cup { Replay(s) : s \in SUBSET Sections }

LEMMA OutcomeKinds ==
  /\ Running.kind = "running" /\ Running \in Outcomes
  /\ \A x \in Exceptions : Threw(x) \in Outcomes /\ Threw(x).kind = "threw"
  /\ \A s \in SUBSET Sections : /\ Replay(s) \in Outcomes
                                /\ Replay(s).kind = "replay"
                                /\ Replay(s).sections = s
  /\ \A x, y : Threw(x) = Threw(y) => x = y
<1>1. \A x, y : Threw(x) = Threw(y) => x = y
  <2> TAKE x, y
  <2>1. Threw(x).exception = x /\ Threw(y).exception = y
    BY DEF Threw
  <2> QED
    BY <2>1
<1>2. \A x \in Exceptions : Threw(x) \in Outcomes /\ Threw(x).kind = "threw"
  BY DEF Outcomes, Threw
<1>3. \A s \in SUBSET Sections : /\ Replay(s) \in Outcomes
                                 /\ Replay(s).kind = "replay"
                                 /\ Replay(s).sections = s
  BY DEF Outcomes, Replay
<1> QED
  BY <1>1, <1>2, <1>3 DEF Running, Outcomes

LEMMA OrderFacts ==
  /\ Len(Order) \in Nat
  /\ DOMAIN Order = 1 .. Len(Order)
  /\ \A i \in DOMAIN Order : Order[i] \in Sections
BY ConstantsAssumption DEF ConstantsAssumption, Sections

-----------------------------------------------------------------------------
(* Steps of one call.                                                      *)

(* What a step of d leaves alone: everything that belongs to another call. *)
OthersUnchanged(d) ==
  \A e \in Decodes \ {d} :
    /\ options'[e] = options[e] /\ cancelled'[e] = cancelled[e]
    /\ streamOpen'[e] = streamOpen[e] /\ pc'[e] = pc[e]
    /\ file'[e] = file[e] /\ handle'[e] = handle[e]
    /\ cursor'[e] = cursor[e] /\ sections'[e] = sections[e]
    /\ failure'[e] = failure[e] /\ outcome'[e] = outcome[e]
    /\ everOn'[e] = everOn[e] /\ alwaysOn'[e] = alwaysOn[e]
    /\ lateToken'[e] = lateToken[e]

(* The invariant, for one call.                                            *)
Inv(d) ==
  /\ alwaysOn[d] \subseteq options[d] /\ options[d] \subseteq everOn[d]
  /\ sections[d] \subseteq everOn[d]
  /\ \A i \in 1 .. cursor[d] - 1 :
       Order[i] \in alwaysOn[d] => Order[i] \in sections[d]
  /\ pc[d] = "await" => /\ cursor[d] \in DOMAIN Order
                        /\ Section(d) \in everOn[d]
  /\ pc[d] = "dispose" /\ failure[d] = "none" => cursor[d] = Len(Order) + 1
  /\ pc[d] \in {"idle", "exists", "open"} => handle[d] = NoFile
  /\ handle[d] # NoFile => handle[d] = file[d]
  /\ streamOpen[d]
  /\ pc[d] = "idle" => cursor[d] = 1 /\ sections[d] = {}
  /\ pc[d] # "dispose" => failure[d] = "none"
  /\ pc[d] # "idle" => outcome[d] = Running
  /\ ~lateToken[d] => cancelled[d]
  /\ failure[d] = "token" => cancelled[d]
  /\ pc[d] \in {"section", "await"} => lateToken[d]
  /\ pc[d] = "dispose" /\ failure[d] = "none" => lateToken[d]
  /\ outcome[d].kind = "replay" =>
       /\ alwaysOn[d] \subseteq outcome[d].sections
       /\ outcome[d].sections \subseteq everOn[d]
       /\ lateToken[d]
  /\ outcome[d] = Threw("OperationCanceledException") => cancelled[d]

LEMMA IInvByCall ==
  IInv <=> /\ TypeOK
           /\ \A d \in Decodes : Inv(d)
           /\ orphans \cap Seekable = {}
BY DEF IInv, Inv, OptionsKnown, SectionsSoFar, CallState, TokenKnown,
       ReplayComplete, CancellationHonoured

(* A step of d keeps the invariant if it keeps that of d.                  *)
LEMMA OneCall ==
  ASSUME IInv, NEW d \in Decodes, OthersUnchanged(d), TypeOK', Inv(d)',
         (orphans \cap Seekable = {})'
  PROVE  IInv'
<1>1. \A e \in Decodes : Inv(e)
  BY IInvByCall
<1>2. ASSUME NEW e \in Decodes \ {d}
      PROVE  Inv(e)'
  BY <1>1, <1>2 DEF Inv, OthersUnchanged, Section
<1>3. \A e \in Decodes : Inv(e)'
  BY <1>2
<1> QED
  BY <1>3 DEF IInv, Inv, OptionsKnown, SectionsSoFar, CallState, TokenKnown,
              ReplayComplete, CancellationHonoured

(* A call that ends: its locals are reset and its result fits.             *)
LEMMA CallEnds ==
  ASSUME IInv, NEW d \in Decodes, NEW from, NEW result \in Outcomes,
         End(d, from, result), from # "idle",
         handle' \in [Decodes -> Files \cup {NoFile}], handle'[d] = NoFile,
         streamOpen' \in [Decodes -> BOOLEAN], streamOpen'[d],
         \A e \in Decodes \ {d} :
           handle'[e] = handle[e] /\ streamOpen'[e] = streamOpen[e],
         orphans' \subseteq Files, orphans' \cap Seekable = {},
         result.kind = "replay" => /\ alwaysOn[d] \subseteq result.sections
                                   /\ result.sections \subseteq everOn[d]
                                   /\ lateToken[d],
         result = Threw("OperationCanceledException") => cancelled[d]
  PROVE  IInv'
<1>1. TypeOK /\ Inv(d)
  BY IInvByCall
<1>2. TypeOK'
  <2>1. outcome \in [Decodes -> Outcomes]
    BY <1>1 DEF TypeOK, Outcomes
  <2>2. outcome' \in [Decodes -> Outcomes]
    BY <2>1 DEF End
  <2>3. 1 \in 1 .. Len(Order) + 1
    BY OrderFacts
  <2>4. /\ pc' \in [Decodes -> {"idle", "exists", "open", "start", "section",
                               "await", "dispose"}]
        /\ file' \in [Decodes -> Files \cup {NoFile}]
        /\ cursor' \in [Decodes -> 1 .. Len(Order) + 1]
        /\ sections' \in [Decodes -> SUBSET Sections]
        /\ failure' \in [Decodes -> {"none", "token", "error"}]
    BY <1>1, <2>3 DEF End, Goto, TypeOK
  <2>5. UNCHANGED <<present, options, cancelled, calls, everOn, alwaysOn,
                    lateToken>>
    BY DEF End, history
  <2> QED
    BY <1>1, <2>2, <2>4, <2>5 DEF TypeOK, Outcomes
<1>3. OthersUnchanged(d)
  BY <1>1 DEF End, Goto, TypeOK, history, OthersUnchanged
<1>4. /\ pc'[d] = "idle" /\ outcome'[d] = result /\ file'[d] = NoFile
      /\ cursor'[d] = 1 /\ sections'[d] = {} /\ failure'[d] = "none"
      /\ UNCHANGED <<options, cancelled, everOn, alwaysOn, lateToken>>
  BY <1>1 DEF End, Goto, TypeOK, history
<1>5. Inv(d)'
  BY <1>1, <1>4 DEF Inv
<1> QED
  BY <1>2, <1>3, <1>5, OneCall

-----------------------------------------------------------------------------
(* The environment.                                                        *)

LEMMA CallStep ==
  ASSUME IInv, NEW d \in Decodes, NEW f \in Files \cup {NoFile},
         NEW from \in {"exists", "open"}, Call(d, f, from)
  PROVE  IInv'
<1>1. TypeOK /\ Inv(d) /\ orphans \cap Seekable = {}
  BY IInvByCall
<1>2. TypeOK'
  <2>1. outcome \in [Decodes -> Outcomes]
    BY <1>1 DEF TypeOK, Outcomes
  <2>2. outcome' \in [Decodes -> Outcomes]
    BY <2>1, OutcomeKinds DEF Call
  <2>3. /\ pc' \in [Decodes -> {"idle", "exists", "open", "start", "section",
                               "await", "dispose"}]
        /\ file' \in [Decodes -> Files \cup {NoFile}]
        /\ options' \in [Decodes -> SUBSET Sections]
        /\ everOn' \in [Decodes -> SUBSET Sections]
        /\ alwaysOn' \in [Decodes -> SUBSET Sections]
    BY <1>1 DEF Call, Goto, TypeOK
  <2>4. /\ cancelled' \in [Decodes -> BOOLEAN]
        /\ lateToken' \in [Decodes -> BOOLEAN]
        /\ calls' \in [Decodes -> Nat]
    BY <1>1 DEF Call, TypeOK
  <2>5. UNCHANGED <<present, streamOpen, orphans, handle, cursor, sections,
                    failure>>
    BY DEF Call
  <2> QED
    BY <1>1, <2>2, <2>3, <2>4, <2>5 DEF TypeOK, Outcomes
<1>3. OthersUnchanged(d)
  BY <1>1 DEF Call, Goto, TypeOK, OthersUnchanged
<1>4. /\ pc[d] = "idle" /\ pc'[d] = from /\ outcome'[d] = Running
      /\ handle' = handle /\ streamOpen' = streamOpen /\ cursor' = cursor
      /\ sections' = sections /\ failure' = failure /\ orphans' = orphans
      /\ options'[d] = everOn'[d] /\ options'[d] = alwaysOn'[d]
      /\ lateToken'[d] = ~cancelled'[d]
  BY <1>1 DEF Call, Goto, TypeOK
<1>5. /\ failure[d] = "none" /\ handle[d] = NoFile /\ streamOpen[d]
      /\ sections[d] = {} /\ cursor[d] = 1
  BY <1>1, <1>4 DEF Inv
<1>6. Inv(d)'
  <2>1. \A i \in 1 .. cursor'[d] - 1 : FALSE
    BY <1>4, <1>5
  <2>2. pc'[d] \notin {"idle", "section", "await", "dispose"}
    BY <1>4
  <2>3. ~lateToken'[d] => cancelled'[d]
    BY <1>4
  <2>4. /\ outcome'[d].kind # "replay"
        /\ outcome'[d] # Threw("OperationCanceledException")
    BY <1>4, OutcomeKinds DEF Exceptions
  <2> QED
    BY <1>4, <1>5, <2>1, <2>2, <2>3, <2>4 DEF Inv
<1> QED
  BY <1>1, <1>2, <1>3, <1>4, <1>6, OneCall

LEMMA CancelStep ==
  ASSUME IInv, NEW d \in Decodes, Cancel(d)
  PROVE  IInv'
<1>1. TypeOK /\ Inv(d) /\ orphans \cap Seekable = {}
  BY IInvByCall
<1>2. TypeOK'
  BY <1>1 DEF Cancel, locals, history, TypeOK
<1>3. OthersUnchanged(d)
  BY <1>1 DEF Cancel, locals, history, TypeOK, OthersUnchanged
<1>4. Inv(d)'
  BY <1>1 DEF Cancel, locals, history, TypeOK, Inv, Section
<1> QED
  BY <1>1, <1>2, <1>3, <1>4, OneCall DEF Cancel

LEMMA ChangeOptionStep ==
  ASSUME IInv, NEW d \in Decodes, ChangeOption(d)
  PROVE  IInv'
<1>1. TypeOK /\ Inv(d) /\ orphans \cap Seekable = {}
  BY IInvByCall
<1>2. PICK now \in SUBSET Sections :
        /\ options' = [options EXCEPT ![d] = now]
        /\ everOn' = [everOn EXCEPT ![d] = @ \cup now]
        /\ alwaysOn' = [alwaysOn EXCEPT ![d] = @ \cap now]
  <2>1. options[d] \in SUBSET Sections
    BY <1>1 DEF TypeOK
  <2> QED
    BY <2>1 DEF ChangeOption
<1>3. pc[d] # "idle" /\ orphans' = orphans
      /\ UNCHANGED <<present, cancelled, streamOpen, file, handle, cursor,
                     sections, failure, lateToken, pc, outcome, calls>>
  BY DEF ChangeOption, locals
<1>4. TypeOK'
  BY <1>1, <1>2, <1>3 DEF TypeOK
<1>5. OthersUnchanged(d)
  BY <1>1, <1>2, <1>3 DEF TypeOK, OthersUnchanged
<1>6. /\ options'[d] = now /\ everOn'[d] = everOn[d] \cup now
      /\ alwaysOn'[d] = alwaysOn[d] \cap now
  BY <1>1, <1>2 DEF TypeOK
<1>7. Inv(d)'
  BY <1>1, <1>3, <1>6, OutcomeKinds DEF Inv, Section
<1> QED
  BY <1>1, <1>3, <1>4, <1>5, <1>7, OneCall

LEMMA FileStep ==
  ASSUME IInv, NEW f \in Files,
         FileAppears(f) \/ FileVanishes(f) \/ FinalizeHandle(f)
  PROVE  IInv'
<1>1. /\ present' \subseteq Files /\ orphans' \subseteq orphans
      /\ UNCHANGED <<options, cancelled, streamOpen, locals, history, pc,
                     outcome, calls>>
  BY DEF FileAppears, FileVanishes, FinalizeHandle, IInv, TypeOK
<1>2. UNCHANGED <<options, cancelled, streamOpen, file, handle, cursor,
                  sections, failure, everOn, alwaysOn, lateToken, pc, outcome,
                  calls>>
  BY <1>1 DEF locals, history
<1>3. TypeOK /\ (\A d \in Decodes : Inv(d)) /\ orphans \cap Seekable = {}
  BY IInvByCall
<1>4. TypeOK'
  BY <1>1, <1>2, <1>3 DEF TypeOK
<1>5. ASSUME NEW d \in Decodes
      PROVE  Inv(d)'
  BY <1>2, <1>3 DEF Inv, Section
<1> QED
  BY <1>1, <1>3, <1>4, <1>5 DEF IInv, Inv, OptionsKnown, SectionsSoFar,
     CallState, TokenKnown, ReplayComplete, CancellationHonoured

-----------------------------------------------------------------------------
(* Opening.                                                                *)

(* A stream that is not to be left open is that of a path.                 *)
LEMMA ReaderDisposed ==
  ASSUME TypeOK, NEW d \in Decodes, DisposeReader(d), streamOpen[d],
         handle[d] # NoFile => handle[d] = file[d]
  PROVE  /\ handle' \in [Decodes -> Files \cup {NoFile}]
         /\ handle'[d] = NoFile
         /\ streamOpen' \in [Decodes -> BOOLEAN]
         /\ streamOpen'[d]
         /\ \A e \in Decodes \ {d} : /\ handle'[e] = handle[e]
                                     /\ streamOpen'[e] = streamOpen[e]
BY DEF DisposeReader, LeaveOpen, TypeOK

LEMMA OpeningEndsStep ==
  ASSUME IInv, NEW d \in Decodes,
         \/ FileNotFound(d) \/ OpenFails(d) \/ StreamRejected(d)
         \/ NoArchive(d)
  PROVE  IInv'
<1>1. TypeOK /\ Inv(d) /\ orphans \cap Seekable = {}
  BY IInvByCall
<1>3. ASSUME NEW x \in {"FileNotFoundException", "DecodeException"}
      PROVE  /\ Threw(x) \in Outcomes /\ Threw(x).kind # "replay"
             /\ Threw(x) # Threw("OperationCanceledException")
  BY OutcomeKinds DEF Exceptions
<1>4. /\ handle \in [Decodes -> Files \cup {NoFile}] /\ orphans \subseteq Files
      /\ streamOpen \in [Decodes -> BOOLEAN] /\ streamOpen[d]
      /\ handle[d] # NoFile => handle[d] = file[d]
      /\ pc[d] \in {"exists", "open"} => handle[d] = NoFile
  BY <1>1 DEF TypeOK, Inv
<1>5. CASE FileNotFound(d)
  <2>1. /\ End(d, "exists", Threw("FileNotFoundException")) /\ pc[d] = "exists"
        /\ UNCHANGED <<streamOpen, orphans, handle>>
    BY <1>5 DEF FileNotFound, End, Goto
  <2> QED
    BY <1>1, <1>3, <1>4, <2>1, CallEnds
<1>6. CASE OpenFails(d)
  <2>1. /\ End(d, "open", Threw("DecodeException")) /\ pc[d] = "open"
        /\ UNCHANGED <<streamOpen, orphans, handle>>
    BY <1>6 DEF OpenFails, End, Goto
  <2> QED
    BY <1>1, <1>3, <1>4, <2>1, CallEnds
<1>7. CASE StreamRejected(d)
  <2>1. /\ End(d, "open", Threw("DecodeException")) /\ pc[d] = "open"
        /\ UNCHANGED <<streamOpen, handle>>
    BY <1>7 DEF StreamRejected, End, Goto
  <2>2. orphans' \subseteq Files /\ orphans' \cap Seekable = {}
    BY <1>1, <1>4, <1>7 DEF StreamRejected, TypeOK
  <2> QED
    BY <1>1, <1>3, <1>4, <2>1, <2>2, CallEnds
<1>8. CASE NoArchive(d)
  <2>1. /\ End(d, "open", Threw("DecodeException"))
        /\ UNCHANGED orphans /\ DisposeReader(d)
    BY <1>8 DEF NoArchive
  <2> QED
    BY <1>1, <1>3, <1>4, <2>1, ReaderDisposed, CallEnds
<1> QED
  BY <1>5, <1>6, <1>7, <1>8

LEMMA FileExistsStep ==
  ASSUME IInv, NEW d \in Decodes, FileExists(d)
  PROVE  IInv'
<1>1. TypeOK /\ Inv(d) /\ orphans \cap Seekable = {}
  BY IInvByCall
<1>2. TypeOK'
  BY <1>1 DEF FileExists, Goto, outside, locals, history, TypeOK
<1>3. OthersUnchanged(d)
  BY <1>1 DEF FileExists, Goto, outside, locals, history, TypeOK,
              OthersUnchanged
<1>4. Inv(d)'
  BY <1>1 DEF FileExists, Goto, outside, locals, history, TypeOK, Inv
<1> QED
  BY <1>1, <1>2, <1>3, <1>4, OneCall DEF FileExists, outside

LEMMA ArchiveOpenedStep ==
  ASSUME IInv, NEW d \in Decodes, ArchiveOpened(d)
  PROVE  IInv'
<1>1. TypeOK /\ Inv(d) /\ orphans \cap Seekable = {}
  BY IInvByCall
<1>2. TypeOK'
  BY <1>1 DEF ArchiveOpened, Goto, outside, history, TypeOK
<1>3. OthersUnchanged(d)
  BY <1>1 DEF ArchiveOpened, Goto, outside, history, TypeOK, OthersUnchanged
<1>4. Inv(d)'
  BY <1>1 DEF ArchiveOpened, Goto, outside, history, TypeOK, Inv
<1> QED
  BY <1>1, <1>2, <1>3, <1>4, OneCall DEF ArchiveOpened, outside

-----------------------------------------------------------------------------
(* Decoding.                                                               *)

LEMMA ThrowStep ==
  ASSUME IInv, NEW d \in Decodes,
         NEW from \in {"start", "await"}, NEW reason \in {"token", "error"},
         reason = "token" => cancelled[d], Throw(d, from, reason)
  PROVE  IInv'
<1>1. TypeOK /\ Inv(d) /\ orphans \cap Seekable = {}
  BY IInvByCall
<1>2. TypeOK'
  BY <1>1 DEF Throw, Goto, outside, history, TypeOK
<1>3. OthersUnchanged(d)
  BY <1>1 DEF Throw, Goto, outside, history, TypeOK, OthersUnchanged
<1>4. Inv(d)'
  BY <1>1 DEF Throw, Goto, outside, history, TypeOK, Inv
<1> QED
  BY <1>1, <1>2, <1>3, <1>4, OneCall DEF Throw, outside

LEMMA StartStep ==
  ASSUME IInv, NEW d \in Decodes, Start(d)
  PROVE  IInv'
<1>1. TypeOK /\ Inv(d) /\ orphans \cap Seekable = {}
  BY IInvByCall
<1>2. TypeOK'
  BY <1>1 DEF Start, Goto, outside, locals, history, TypeOK
<1>3. OthersUnchanged(d)
  BY <1>1 DEF Start, Goto, outside, locals, history, TypeOK, OthersUnchanged
<1>4. Inv(d)'
  BY <1>1 DEF Start, Goto, outside, locals, history, TypeOK, Inv
<1> QED
  BY <1>1, <1>2, <1>3, <1>4, OneCall DEF Start, outside

LEMMA SkipSectionStep ==
  ASSUME IInv, NEW d \in Decodes, SkipSection(d)
  PROVE  IInv'
<1>1. TypeOK /\ Inv(d) /\ orphans \cap Seekable = {}
  BY IInvByCall
<1>2. /\ cursor[d] \in 1 .. Len(Order) /\ pc[d] = "section"
      /\ Section(d) \notin alwaysOn[d]
  BY <1>1, OrderFacts DEF SkipSection, AtSection, Inv
<1>3. TypeOK'
  <2>1. cursor' \in [Decodes -> 1 .. Len(Order) + 1]
    BY <1>1, <1>2, OrderFacts DEF SkipSection, TypeOK
  <2> QED
    BY <1>1, <2>1 DEF SkipSection, outside, history, TypeOK
<1>4. OthersUnchanged(d)
  BY <1>1 DEF SkipSection, outside, history, TypeOK, OthersUnchanged
<1>5. cursor'[d] = cursor[d] + 1
  BY <1>1 DEF SkipSection, TypeOK
<1>6. UNCHANGED <<options, streamOpen, cancelled, file, handle, sections,
                  failure, everOn, alwaysOn, lateToken, pc, outcome>>
  BY DEF SkipSection, outside, history
<1>7. \A i \in 1 .. cursor'[d] - 1 :
        Order[i] \in alwaysOn'[d] => Order[i] \in sections'[d]
  <2> SUFFICES ASSUME NEW i \in 1 .. cursor'[d] - 1,
                      Order[i] \in alwaysOn[d]
               PROVE  Order[i] \in sections[d]
    BY <1>6
  <2>1. i \in 1 .. cursor[d] - 1
    BY <1>2, <1>5, OrderFacts DEF Section
  <2> QED
    BY <1>1, <2>1 DEF Inv
<1>8. Inv(d)'
  BY <1>1, <1>2, <1>6, <1>7 DEF Inv
<1> QED
  BY <1>1, <1>3, <1>4, <1>8, OneCall DEF SkipSection, outside

LEMMA BeginSectionStep ==
  ASSUME IInv, NEW d \in Decodes, BeginSection(d)
  PROVE  IInv'
<1>1. TypeOK /\ Inv(d) /\ orphans \cap Seekable = {}
  BY IInvByCall
<1>2. TypeOK'
  BY <1>1 DEF BeginSection, Goto, outside, locals, history, TypeOK
<1>3. OthersUnchanged(d)
  BY <1>1 DEF BeginSection, Goto, outside, locals, history, TypeOK,
              OthersUnchanged
<1>4. /\ pc[d] = "section" /\ cursor[d] \in DOMAIN Order
      /\ Section(d) \in everOn[d] /\ pc'[d] = "await"
  BY <1>1 DEF BeginSection, AtSection, Goto, TypeOK, Inv
<1>5. UNCHANGED <<options, streamOpen, cancelled, file, handle, cursor,
                  sections, failure, everOn, alwaysOn, lateToken, outcome>>
  BY DEF BeginSection, outside, locals, history
<1>6. Inv(d)'
  BY <1>1, <1>4, <1>5 DEF Inv, Section
<1> QED
  BY <1>1, <1>2, <1>3, <1>6, OneCall DEF BeginSection, outside

LEMMA SectionDecodedStep ==
  ASSUME IInv, NEW d \in Decodes, SectionDecoded(d)
  PROVE  IInv'
<1>1. TypeOK /\ Inv(d) /\ orphans \cap Seekable = {}
  BY IInvByCall
<1>2. /\ cursor[d] \in 1 .. Len(Order) /\ pc[d] = "await"
      /\ Section(d) \in everOn[d]
  BY <1>1, OrderFacts DEF SectionDecoded, Goto, Inv
<1>3. Section(d) \in Sections
  BY <1>2, OrderFacts DEF Section
<1>4. TypeOK'
  <2>1. cursor' \in [Decodes -> 1 .. Len(Order) + 1]
    BY <1>1, <1>2, OrderFacts DEF SectionDecoded, TypeOK
  <2>2. sections' \in [Decodes -> SUBSET Sections]
    BY <1>1, <1>3 DEF SectionDecoded, TypeOK
  <2> QED
    BY <1>1, <2>1, <2>2 DEF SectionDecoded, Goto, outside, history, TypeOK
<1>5. OthersUnchanged(d)
  BY <1>1 DEF SectionDecoded, Goto, outside, history, TypeOK, OthersUnchanged
<1>6. /\ cursor'[d] = cursor[d] + 1 /\ pc'[d] = "section"
      /\ sections'[d] = sections[d] \cup {Section(d)}
  BY <1>1 DEF SectionDecoded, Goto, TypeOK
<1>7. UNCHANGED <<options, streamOpen, cancelled, file, handle, failure,
                  everOn, alwaysOn, lateToken, outcome>>
  BY DEF SectionDecoded, outside, history
<1>8. \A i \in 1 .. cursor'[d] - 1 :
        Order[i] \in alwaysOn'[d] => Order[i] \in sections'[d]
  <2> SUFFICES ASSUME NEW i \in 1 .. cursor'[d] - 1,
                      Order[i] \in alwaysOn[d]
               PROVE  Order[i] \in sections'[d]
    BY <1>7
  <2>1. i = cursor[d] \/ i \in 1 .. cursor[d] - 1
    BY <1>2, <1>6, OrderFacts
  <2> QED
    BY <1>1, <1>6, <2>1 DEF Inv, Section
<1>9. Inv(d)'
  BY <1>1, <1>2, <1>6, <1>7, <1>8 DEF Inv
<1> QED
  BY <1>1, <1>4, <1>5, <1>9, OneCall DEF SectionDecoded, outside

LEMMA AllSectionsStep ==
  ASSUME IInv, NEW d \in Decodes, AllSections(d)
  PROVE  IInv'
<1>1. TypeOK /\ Inv(d) /\ orphans \cap Seekable = {}
  BY IInvByCall
<1>2. TypeOK'
  BY <1>1 DEF AllSections, Goto, outside, locals, history, TypeOK
<1>3. OthersUnchanged(d)
  BY <1>1 DEF AllSections, Goto, outside, locals, history, TypeOK,
              OthersUnchanged
<1>4. cursor[d] = Len(Order) + 1
  BY <1>1, OrderFacts DEF AllSections, TypeOK
<1>5. pc[d] = "section" /\ pc'[d] = "dispose"
  BY <1>1 DEF AllSections, Goto, TypeOK
<1>6. UNCHANGED <<options, streamOpen, cancelled, file, handle, cursor,
                  sections, failure, everOn, alwaysOn, lateToken, outcome>>
  BY DEF AllSections, outside, locals, history
<1>7. Inv(d)'
  BY <1>1, <1>4, <1>5, <1>6 DEF Inv
<1> QED
  BY <1>1, <1>2, <1>3, <1>7, OneCall DEF AllSections, outside

-----------------------------------------------------------------------------
(* The end of a call.                                                      *)

(* A replay that is returned has the sections that were always on.         *)
LEMMA DisposeStep ==
  ASSUME IInv, NEW d \in Decodes, Dispose(d)
  PROVE  IInv'
<1>1. TypeOK /\ Inv(d) /\ orphans \cap Seekable = {}
  BY IInvByCall
<1>2. /\ DisposeReader(d) /\ End(d, "dispose", Result(d)) /\ pc[d] = "dispose"
      /\ orphans' = orphans
  BY DEF Dispose, End, Goto
<1>3. /\ streamOpen[d]
      /\ handle[d] # NoFile => handle[d] = file[d]
      /\ orphans \subseteq Files /\ sections[d] \in SUBSET Sections
      /\ alwaysOn[d] \in SUBSET Sections
      /\ failure[d] \in {"none", "token", "error"}
  BY <1>1 DEF Inv, TypeOK
<1>4. CASE failure[d] = "none"
  <2>1. Result(d) = Replay(sections[d])
    BY <1>4 DEF Result
  <2>2. /\ Result(d) \in Outcomes /\ Result(d).kind = "replay"
        /\ Result(d).sections = sections[d]
        /\ Result(d) # Threw("OperationCanceledException")
    BY <1>3, <2>1, OutcomeKinds DEF Exceptions
  <2>3. sections[d] \subseteq everOn[d] /\ lateToken[d]
    BY <1>1, <1>2, <1>4 DEF Inv
  <2>4. alwaysOn[d] \subseteq sections[d]
    <3> SUFFICES ASSUME NEW s \in alwaysOn[d]
                 PROVE  s \in sections[d]
      OBVIOUS
    <3>1. PICK i \in DOMAIN Order : s = Order[i]
      BY <1>3 DEF Sections
    <3>2. cursor[d] = Len(Order) + 1
      BY <1>1, <1>2, <1>4 DEF Inv
    <3>3. i \in 1 .. cursor[d] - 1
      BY <3>2, OrderFacts
    <3> QED
      BY <1>1, <3>1, <3>3 DEF Inv
  <2> QED
    BY <1>1, <1>2, <1>3, <2>2, <2>3, <2>4, ReaderDisposed, CallEnds
<1>5. CASE failure[d] # "none"
  <2>1. Result(d) = Caught(failure[d])
    BY <1>5 DEF Result
  <2>2. /\ Result(d) \in Outcomes /\ Result(d).kind # "replay"
        /\ Result(d) = Threw("OperationCanceledException")
             => failure[d] = "token"
    BY <1>3, <1>5, <2>1, OutcomeKinds DEF Caught, Exceptions
  <2>3. failure[d] = "token" => cancelled[d]
    BY <1>1 DEF Inv
  <2> QED
    BY <1>1, <1>2, <1>3, <2>2, <2>3, ReaderDisposed, CallEnds
<1> QED
  BY <1>4, <1>5

-----------------------------------------------------------------------------
(* The theorems.                                                           *)

LEMMA InvInit == Init => IInv
<1> SUFFICES ASSUME Init PROVE IInv
  OBVIOUS
<1>1. TypeOK
  <2>1. outcome \in [Decodes -> Outcomes]
    BY OutcomeKinds DEF Init
  <2>2. 1 \in 1 .. Len(Order) + 1
    BY OrderFacts
  <2> QED
    BY <2>1, <2>2 DEF Init, TypeOK, Outcomes
<1>2. ASSUME NEW d \in Decodes
      PROVE  Inv(d)
  <2>1. /\ outcome[d].kind # "replay"
        /\ outcome[d] # Threw("OperationCanceledException")
    BY OutcomeKinds DEF Init, Exceptions
  <2> QED
    BY <2>1 DEF Init, Inv
<1> QED
  BY <1>1, <1>2, IInvByCall DEF Init

LEMMA InvNext == IInv /\ [Next]_vars => IInv'
<1> SUFFICES ASSUME IInv, [Next]_vars PROVE IInv'
  OBVIOUS
<1>1. CASE Environment
  <2>1. ASSUME NEW d \in Decodes, DecodePath(d) \/ DecodeStream(d)
        PROVE  IInv'
    BY <2>1, CallStep DEF DecodePath, DecodeStream
  <2> QED
    BY <1>1, <2>1, CancelStep, ChangeOptionStep, FileStep DEF Environment
<1>2. ASSUME NEW d \in Decodes, Opening(d)
      PROVE  IInv'
  BY <1>2, OpeningEndsStep, FileExistsStep, ArchiveOpenedStep DEF Opening
<1>3. ASSUME NEW d \in Decodes, Decoding(d)
      PROVE  IInv'
  <2>1. CASE StartCancelled(d) \/ SectionCancelled(d)
    BY <2>1, ThrowStep DEF StartCancelled, SectionCancelled
  <2>2. CASE StartFails(d) \/ SectionFails(d)
    BY <2>2, ThrowStep DEF StartFails, SectionFails
  <2> QED
    BY <1>3, <2>1, <2>2, StartStep, SkipSectionStep, BeginSectionStep,
       SectionDecodedStep, AllSectionsStep DEF Decoding
<1>4. ASSUME UNCHANGED vars
      PROVE  IInv'
  BY <1>4 DEF vars, outside, locals, history, IInv, TypeOK, OptionsKnown,
     SectionsSoFar, CallState, TokenKnown, ReplayComplete,
     CancellationHonoured, Section
<1> QED
  BY <1>1, <1>2, <1>3, <1>4, DisposeStep DEF Next, Step

(* The invariant is inductive.                                             *)
THEOREM InductiveInvariant == Spec => []IInv
BY InvInit, InvNext, PTL DEF Spec

(* Every field and local keeps its type; in particular DecodeAsync throws  *)
(* nothing but its three exceptions.                                       *)
THEOREM TypeCorrect == Spec => []TypeOK
<1>1. IInv => TypeOK
  BY DEF IInv
<1> QED
  BY <1>1, InductiveInvariant, PTL

(* A replay is returned whole, or not at all.                              *)
THEOREM ReplaysComplete == Spec => []ReplayComplete
<1>1. IInv => ReplayComplete
  BY DEF IInv
<1> QED
  BY <1>1, InductiveInvariant, PTL

(* A call that has ended left no file open and no stream of its caller     *)
(* closed, and loses no handle of a file that can be seeked.               *)
THEOREM StreamsSettle == Spec => []StreamsSettled
<1>1. IInv => StreamsSettled
  BY DEF IInv, CallState, StreamsSettled
<1> QED
  BY <1>1, InductiveInvariant, PTL

(* A token cancelled before the call ends it without a replay, and only a  *)
(* call whose token is cancelled is reported as cancelled.                 *)
THEOREM CancellationIsHonoured == Spec => []CancellationHonoured
<1>1. IInv => CancellationHonoured
  BY DEF IInv
<1> QED
  BY <1>1, InductiveInvariant, PTL

=============================================================================
