---------------------------- MODULE ArchiveRead ----------------------------
(***************************************************************************)
(* Reading files out of MPQ archives: ReadFile and ReadFileAsync of        *)
(* Mpq/MPQArchive.Files.cs, and the buffers they share.                    *)
(*                                                                         *)
(* Every decode has an archive of its own and reads its files one after    *)
(* the other, but all decodes of the process rent their raw buffers from   *)
(* the same ArrayPool<byte>.Shared.  A read rents an array (or allocates   *)
(* one, when its result will be a view of the raw bytes), fills it across  *)
(* several awaits, decodes it across several more, and gives it back in    *)
(* exactly one place.  The caller keeps the memory it was handed for as    *)
(* long as it likes.                                                       *)
(*                                                                         *)
(* The data is abstracted: lengths are counted in units, one unit per      *)
(* await; what a buffer holds is who wrote it last and how many units of   *)
(* that read are in.  Output arrays are fresh and never leave the read, so *)
(* they need no identity; only whether they were filled from the bytes of  *)
(* their own read is kept.                                                 *)
(***************************************************************************)
EXTENDS Integers, FiniteSets

CONSTANTS
  Tasks,       \* the reading decodes
  Blocks,      \* block table entries of the files they may ask for
  Buffers,     \* the arrays that can be rented or allocated
  NoBuffer,    \* the empty array, or no array
  NoBlock,     \* no entry: the task is not reading
  Nobody,      \* nobody has written the array
  MaxReads     \* bound: reads by one task

(* A block table entry, with the flags ReadFile looks at.  A file that is  *)
(* not in the hash table, or whose entry lacks MpqFileExists, is exists =  *)
(* FALSE.  sound says of the archived bytes that they decode to fileSize   *)
(* bytes: their sector table, compression type and lengths are right.      *)
BlockTableEntry ==
  [exists : BOOLEAN, encrypted : BOOLEAN, singleUnit : BOOLEAN,
   compress : BOOLEAN, compressedSize : Nat, fileSize : Nat,
   sound : BOOLEAN]

ASSUME ConstantsAssumption ==
  /\ Blocks \subseteq BlockTableEntry
  /\ NoBuffer \notin Buffers
  /\ NoBlock \notin Blocks
  /\ Nobody \notin Tasks \X Nat
  /\ MaxReads \in Nat

VARIABLES
  \* --- arrays
  pool,       \* how often ArrayPool.Shared holds the array
  origin,     \* "unused", "pool" or "heap": where the array came from
  content,    \* [by, units]: whose bytes it holds, and how many of them
  \* --- the callers
  held,       \* [buffer, by, units]: memory handed out, as it was then
  \* --- the reads
  pc,         \* what each task does next
  block,      \* blockEntry
  force,      \* forceDecompress
  async,      \* ReadFileAsync rather than ReadFile
  cancelled,  \* its token is cancelled
  raw,        \* rawData
  parts,      \* sectors, or pieces of a single unit, decoded so far
  clean,      \* all of them came from the bytes of this read
  outcome,    \* how the read ends, or ended
  reads       \* reads the task has started

arrays == <<pool, origin, content>>
inputs == <<block, force, async>>
vars == <<arrays, held, pc, inputs, cancelled, raw, parts, clean, outcome,
          reads>>

Idle      == [kind |-> "none"]
Null      == [kind |-> "null"]
Threw     == [kind |-> "threw"]
Cancelled == [kind |-> "cancelled"]
Empty     == [kind |-> "empty"]
Copied(c) == [kind |-> "copied", clean |-> c]
View(b)   == [kind |-> "view", buffer |-> b]

Outcomes == {Idle, Null, Threw, Cancelled, Empty}
              \cup { Copied(c) : c \in BOOLEAN } \cup { View(b) : b \in Buffers }

(* The identity of the read a task is in.                                  *)
Me(t) == <<t, reads[t]>>

-----------------------------------------------------------------------------
(* What the code asks of a block table entry.                              *)

(* Bug: compressed but incompressible blocks are rented as well.           *)
RetainOnlyUncompressed(b, forced) == b.singleUnit /\ ~b.compress

(* ShouldRetainRawData: the raw bytes are the file, so the result will be  *)
(* a view of them.                                                         *)
ShouldRetainRawData(b, forced) ==
  /\ b.singleUnit
  /\ ~b.compress \/ (~forced /\ b.compressedSize >= b.fileSize)

(* DecodeBlock decompresses a single unit under this condition.            *)
Decompresses(b, forced) ==
  b.compress /\ (forced \/ b.compressedSize < b.fileSize)

(* The pieces in which a block is decoded: one per sector, or one per      *)
(* await of the decompression of a single unit.                            *)
Parts(b) == b.fileSize

Rents(t) == ~ShouldRetainRawData(block[t], force[t])

-----------------------------------------------------------------------------
(* The end of a read.                                                      *)

(* The call returns or throws, and its locals go out of scope.             *)
End(t, result) ==
  /\ pc' = [pc EXCEPT ![t] = "idle"]
  /\ outcome' = [outcome EXCEPT ![t] = result]
  /\ block' = [block EXCEPT ![t] = NoBlock]
  /\ force' = [force EXCEPT ![t] = FALSE]
  /\ async' = [async EXCEPT ![t] = FALSE]
  /\ cancelled' = [cancelled EXCEPT ![t] = FALSE]
  /\ raw' = [raw EXCEPT ![t] = NoBuffer]
  /\ parts' = [parts EXCEPT ![t] = 0]
  /\ clean' = [clean EXCEPT ![t] = TRUE]
  /\ UNCHANGED <<origin, content, reads>>

(* It ends before it has got an array.                                     *)
EndWith(t, result) == End(t, result) /\ UNCHANGED <<pool, held>>

(* DecodeBlock has returned or thrown: on to the finally block.            *)
Leave(t, result) ==
  /\ pc' = [pc EXCEPT ![t] = "finally"]
  /\ outcome' = [outcome EXCEPT ![t] = result]
  /\ UNCHANGED <<arrays, held, inputs, cancelled, raw, parts, clean, reads>>

(* ArrayPool.Shared.Return does not notice an array it already holds.      *)
ReturnToPool(b) == pool' = [pool EXCEPT ![b] = @ + 1]

-----------------------------------------------------------------------------
(* The caller.                                                             *)

Call(t) ==
  /\ pc[t] = "idle"
  /\ reads[t] < MaxReads
  /\ \E b \in Blocks, f \in BOOLEAN, a \in BOOLEAN, c \in BOOLEAN :
       /\ block' = [block EXCEPT ![t] = b]
       /\ force' = [force EXCEPT ![t] = f]
       /\ async' = [async EXCEPT ![t] = a]
       /\ cancelled' = [cancelled EXCEPT ![t] = c]
  /\ reads' = [reads EXCEPT ![t] = @ + 1]
  /\ outcome' = [outcome EXCEPT ![t] = Idle]
  /\ pc' = [pc EXCEPT ![t] = "lookup"]
  /\ UNCHANGED <<arrays, held, raw, parts, clean>>

(* The token of a running read is cancelled from outside.                  *)
Cancel(t) ==
  /\ pc[t] # "idle"
  /\ ~cancelled[t]
  /\ cancelled' = [cancelled EXCEPT ![t] = TRUE]
  /\ UNCHANGED <<arrays, held, pc, inputs, raw, parts, clean, outcome, reads>>

-----------------------------------------------------------------------------
(* GetBlockEntry and the check of the token.                               *)

FileMissing(t) ==
  /\ pc[t] = "lookup"
  /\ ~block[t].exists
  /\ EndWith(t, Null)

FileEncrypted(t) ==
  /\ pc[t] = "lookup"
  /\ block[t].exists /\ block[t].encrypted
  /\ EndWith(t, Threw)

Found(t) == pc[t] = "lookup" /\ block[t].exists /\ ~block[t].encrypted

CancelledEarly(t) ==
  /\ Found(t)
  /\ cancelled[t]
  /\ EndWith(t, Cancelled)

FileFound(t) ==
  /\ Found(t)
  /\ ~cancelled[t]
  /\ pc' = [pc EXCEPT ![t] = "getBuffer"]
  /\ UNCHANGED <<arrays, held, inputs, cancelled, raw, parts, clean, outcome,
                 reads>>

-----------------------------------------------------------------------------
(* ReadRawData.                                                            *)

(* ValidateArchiveRange, against a stream that may have shrunk since the   *)
(* tables were validated.                                                  *)
RangeInvalid(t) ==
  /\ pc[t] = "getBuffer"
  /\ block[t].compressedSize # 0
  /\ EndWith(t, Threw)

NothingToRead(t) ==
  /\ pc[t] = "getBuffer"
  /\ block[t].compressedSize = 0
  /\ pc' = [pc EXCEPT ![t] = "decode"]
  /\ UNCHANGED <<arrays, held, inputs, cancelled, raw, parts, clean, outcome,
                 reads>>

(* The read goes on with array b, whatever b held before.                  *)
StartReading(t, b) ==
  /\ raw' = [raw EXCEPT ![t] = b]
  /\ pc' = [pc EXCEPT ![t] = "read"]
  /\ UNCHANGED <<content, held, inputs, cancelled, parts, clean, outcome,
                 reads>>

(* ArrayPool.Shared.Rent: an array of the pool or a new one.               *)
Rent(t) ==
  /\ pc[t] = "getBuffer"
  /\ block[t].compressedSize # 0
  /\ Rents(t)
  /\ \E b \in Buffers :
       /\ \/ pool[b] > 0 /\ pool' = [pool EXCEPT ![b] = @ - 1]
                         /\ UNCHANGED origin
          \/ origin[b] = "unused" /\ origin' = [origin EXCEPT ![b] = "pool"]
                                  /\ UNCHANGED pool
       /\ StartReading(t, b)

(* new byte[compressedSize].                                               *)
Allocate(t) ==
  /\ pc[t] = "getBuffer"
  /\ block[t].compressedSize # 0
  /\ ~Rents(t)
  /\ \E b \in Buffers :
       /\ origin[b] = "unused"
       /\ origin' = [origin EXCEPT ![b] = "heap"]
       /\ UNCHANGED pool
       /\ StartReading(t, b)

(* Bug: Read instead of ReadExactly takes what has arrived for the file.   *)
ReadPieceShort(t) ==
  /\ pc[t] = "read"
  /\ content' = [content EXCEPT ![raw[t]] = [by |-> Me(t), units |-> 1]]
  /\ pc' = [pc EXCEPT ![t] = "decode"]
  /\ UNCHANGED <<pool, origin, held, inputs, cancelled, raw, parts, clean,
                 outcome, reads>>

(* Bug: the same, for rented arrays only.                                  *)
ReadPieceShortRented(t) == ReadPieceShort(t) /\ Rents(t)

(* One piece of ReadExactly has arrived in the array.                      *)
ReadPiece(t) ==
  LET before == content[raw[t]]
      now    == IF before.by = Me(t) THEN before.units + 1 ELSE 1
  IN /\ pc[t] = "read"
     /\ content' = [content EXCEPT ![raw[t]] = [by |-> Me(t), units |-> now]]
     /\ pc' = [pc EXCEPT ![t] = IF now = block[t].compressedSize
                                THEN "decode" ELSE "read"]
     /\ UNCHANGED <<pool, origin, held, inputs, cancelled, raw, parts, clean,
                    outcome, reads>>

(* Bug: the failed read forgets the array it rented.                       *)
ReadFailsForgetting(t) ==
  /\ pc[t] = "read"
  /\ UNCHANGED <<pool, held>>
  /\ End(t, Threw)

(* Bug: the request is abandoned, and fills the array given back.          *)
ReadFailsWriting(t) ==
  /\ pc[t] = "read"
  /\ Rents(t)
  /\ ReturnToPool(raw[t])
  /\ content' = [content EXCEPT ![raw[t]] =
                   [by |-> Me(t), units |-> block[t].compressedSize]]
  /\ pc' = [pc EXCEPT ![t] = "idle"]
  /\ outcome' = [outcome EXCEPT ![t] = Threw]
  /\ block' = [block EXCEPT ![t] = NoBlock]
  /\ raw' = [raw EXCEPT ![t] = NoBuffer]
  /\ UNCHANGED <<origin, held, force, async, cancelled, parts, clean, reads>>

(* ReadExactly throws: the stream ended or failed, or, only when it was    *)
(* given the token, the read was cancelled.  The catch block gives a       *)
(* rented array back and rethrows; ReadFile has not entered its try yet.   *)
ReadFails(t) ==
  /\ pc[t] = "read"
  /\ IF Rents(t) THEN ReturnToPool(raw[t]) ELSE UNCHANGED pool
  /\ UNCHANGED held
  /\ \E result \in {Threw, Cancelled} :
       /\ result = Cancelled => async[t] /\ cancelled[t]
       /\ End(t, result)

-----------------------------------------------------------------------------
(* DecodeBlock.                                                            *)

(* Both lengths are zero.                                                  *)
DecodeEmpty(t) ==
  /\ pc[t] = "decode"
  /\ block[t].fileSize = 0 /\ block[t].compressedSize = 0
  /\ Leave(t, Empty)

(* Exactly one of them is.                                                 *)
EmptyMismatch(t) ==
  /\ pc[t] = "decode"
  /\ (block[t].fileSize = 0) # (block[t].compressedSize = 0)
  /\ Leave(t, Threw)

Decodable(t) ==
  pc[t] = "decode" /\ block[t].fileSize # 0 /\ block[t].compressedSize # 0

(* A single unit stored as it is: the result is a view of rawData.         *)
StoredUnit(t) ==
  block[t].singleUnit /\ ~Decompresses(block[t], force[t])

ReturnView(t) ==
  /\ Decodable(t) /\ StoredUnit(t)
  /\ block[t].compressedSize = block[t].fileSize
  /\ Leave(t, View(raw[t]))

StoredMismatch(t) ==
  /\ Decodable(t) /\ StoredUnit(t)
  /\ block[t].compressedSize # block[t].fileSize
  /\ Leave(t, Threw)

(* One sector, or one piece of a compressed unit, from rawData to output.  *)
(* Each sector starts with ThrowIfCancellationRequested.                   *)
DecodePart(t) ==
  /\ Decodable(t) /\ ~StoredUnit(t)
  /\ parts[t] < Parts(block[t])
  /\ block[t].singleUnit \/ ~cancelled[t]
  /\ parts' = [parts EXCEPT ![t] = @ + 1]
  /\ clean' = [clean EXCEPT ![t] =
                 @ /\ content[raw[t]]
                        = [by |-> Me(t), units |-> block[t].compressedSize]]
  /\ UNCHANGED <<arrays, held, pc, inputs, cancelled, raw, outcome, reads>>

(* Bug: a decompressor that runs out of input is asked again for ever;     *)
(* only a bad sector table is noticed.                                     *)
DecodeCorruptSpins(t) ==
  /\ Decodable(t) /\ ~StoredUnit(t)
  /\ ~block[t].sound
  /\ parts[t] = 0
  /\ Leave(t, Threw)

(* A bad sector table, an unsupported compression, too few bytes or too    *)
(* many: found out before, between or after the parts.                     *)
DecodeCorrupt(t) ==
  /\ Decodable(t) /\ ~StoredUnit(t)
  /\ ~block[t].sound
  /\ Leave(t, Threw)

(* A sector loop looks at the token; the decompression of a single unit    *)
(* does only in DecompressAsync.                                           *)
DecodeCancelled(t) ==
  /\ Decodable(t) /\ ~StoredUnit(t)
  /\ cancelled[t]
  /\ block[t].singleUnit => async[t]
  /\ Leave(t, Cancelled)

DecodeDone(t) ==
  /\ Decodable(t) /\ ~StoredUnit(t)
  /\ parts[t] = Parts(block[t])
  /\ block[t].sound
  /\ Leave(t, Copied(clean[t]))

-----------------------------------------------------------------------------
(* The finally block of ReadFile, and its return.                          *)

Finally(t) ==
  /\ pc[t] = "finally"
  /\ IF Rents(t) /\ raw[t] # NoBuffer
     THEN ReturnToPool(raw[t]) ELSE UNCHANGED pool
  /\ held' = IF outcome[t].kind = "view"
             THEN held \cup {[buffer |-> raw[t], by |-> Me(t),
                              units |-> block[t].compressedSize]}
             ELSE held
  /\ End(t, outcome[t])

-----------------------------------------------------------------------------
Init ==
  /\ pool = [b \in Buffers |-> 0]
  /\ origin = [b \in Buffers |-> "unused"]
  /\ content = [b \in Buffers |-> [by |-> Nobody, units |-> 0]]
  /\ held = {}
  /\ pc = [t \in Tasks |-> "idle"]
  /\ block = [t \in Tasks |-> NoBlock]
  /\ force = [t \in Tasks |-> FALSE]
  /\ async = [t \in Tasks |-> FALSE]
  /\ cancelled = [t \in Tasks |-> FALSE]
  /\ raw = [t \in Tasks |-> NoBuffer]
  /\ parts = [t \in Tasks |-> 0]
  /\ clean = [t \in Tasks |-> TRUE]
  /\ outcome = [t \in Tasks |-> Idle]
  /\ reads = [t \in Tasks |-> 0]

Lookup(t)  == FileMissing(t) \/ FileEncrypted(t) \/ CancelledEarly(t)
                \/ FileFound(t)
ReadRawData(t) == RangeInvalid(t) \/ NothingToRead(t) \/ Rent(t)
                    \/ Allocate(t) \/ ReadPiece(t) \/ ReadFails(t)
DecodeBlock(t) == DecodeEmpty(t) \/ EmptyMismatch(t) \/ ReturnView(t)
                    \/ StoredMismatch(t) \/ DecodePart(t) \/ DecodeCorrupt(t)
                    \/ DecodeCancelled(t) \/ DecodeDone(t)

(* The steps of a read that is under way.                                  *)
Step(t) == Lookup(t) \/ ReadRawData(t) \/ DecodeBlock(t) \/ Finally(t)

Next == \E t \in Tasks : Call(t) \/ Cancel(t) \/ Step(t)

Spec == Init /\ [][Next]_vars

(* A read that is under way goes on: the stream answers or fails every     *)
(* request, and continuations are scheduled.                               *)
FairSpec == Spec /\ \A t \in Tasks : WF_vars(Step(t))

-----------------------------------------------------------------------------
(* Properties.                                                             *)

TypeOK ==
  /\ pool \in [Buffers -> Nat]
  /\ origin \in [Buffers -> {"unused", "pool", "heap"}]
  /\ content \in [Buffers -> [by : (Tasks \X Nat) \cup {Nobody}, units : Nat]]
  /\ held \subseteq [buffer : Buffers, by : Tasks \X Nat, units : Nat]
  /\ pc \in [Tasks -> {"idle", "lookup", "getBuffer", "read", "decode",
                       "finally"}]
  /\ block \in [Tasks -> Blocks \cup {NoBlock}]
  /\ force \in [Tasks -> BOOLEAN]
  /\ async \in [Tasks -> BOOLEAN]
  /\ cancelled \in [Tasks -> BOOLEAN]
  /\ raw \in [Tasks -> Buffers \cup {NoBuffer}]
  /\ parts \in [Tasks -> Nat]
  /\ clean \in [Tasks -> BOOLEAN]
  /\ outcome \in [Tasks -> Outcomes]
  /\ reads \in [Tasks -> Nat]

(* An array is in one place: in the pool once, or with one read, or with   *)
(* one caller, whatever order reads of different archives run, fail and    *)
(* are cancelled in.                                                       *)
OneOwner ==
  \A b \in Buffers :
    /\ pool[b] <= 1
    /\ \A t \in Tasks : raw[t] = b =>
         /\ pool[b] = 0
         /\ \A m \in held : m.buffer # b
         /\ \A u \in Tasks \ {t} : raw[u] # b
    /\ \A m \in held : m.buffer = b => pool[b] = 0

(* Memory handed to a caller keeps its bytes for good: no later read of    *)
(* any archive writes into it.                                             *)
ResultsStable ==
  \A m \in held : content[m.buffer] = [by |-> m.by, units |-> m.units]

(* What a read decodes are the bytes it read itself, up to the last one:   *)
(* nobody writes into the array between two awaits of the decoding.        *)
DecodesOwnBytes ==
  \A t \in Tasks : outcome[t].kind = "copied" => outcome[t].clean

(* Every rented array is in the pool or with a read that will return it:   *)
(* no exception and no cancellation loses one.                             *)
NothingLeaked ==
  \A b \in Buffers :
    origin[b] = "pool" => pool[b] > 0 \/ \E t \in Tasks : raw[t] = b

(* A read that is under way ends.                                          *)
ReadsEnd == \A t \in Tasks : pc[t] # "idle" ~> pc[t] = "idle"

-----------------------------------------------------------------------------
(* The inductive invariant of the proofs.                                  *)

(* The pool holds an array at most once, and only one it lent itself.      *)
PoolSound ==
  \A b \in Buffers :
    /\ pool[b] \in {0, 1}
    /\ origin[b] # "pool" => pool[b] = 0

(* A read that has an array is the only one to have it, in or out of the   *)
(* pool, and the array came from where the read took it.                   *)
RawOwned ==
  \A t \in Tasks : raw[t] # NoBuffer =>
    /\ pc[t] \in {"read", "decode", "finally"}
    /\ pool[raw[t]] = 0
    /\ origin[raw[t]] = IF Rents(t) THEN "pool" ELSE "heap"
    /\ \A u \in Tasks \ {t} : raw[u] # raw[t]
    /\ \A m \in held : m.buffer # raw[t]

(* Memory in the hands of a caller is never an array of the pool.          *)
HeldOwned == \A m \in held : origin[m.buffer] = "heap"

(* Where a read stands, and what its array holds by then.                  *)
ReadProgress ==
  \A t \in Tasks :
    /\ pc[t] # "idle" => block[t] \in Blocks
    /\ pc[t] = "read" => raw[t] # NoBuffer
    /\ pc[t] \in {"decode", "finally"} =>
         IF raw[t] = NoBuffer
         THEN block[t].compressedSize = 0
         ELSE content[raw[t]]
                = [by |-> Me(t), units |-> block[t].compressedSize]
    /\ clean[t]
    /\ pc[t] = "finally" /\ outcome[t].kind = "view" =>
         raw[t] # NoBuffer /\ ~Rents(t)

(* The inductive invariant.                                                *)
IInv ==
  /\ TypeOK
  /\ PoolSound
  /\ RawOwned
  /\ HeldOwned
  /\ ReadProgress
  /\ ResultsStable
  /\ DecodesOwnBytes
  /\ NothingLeaked

=============================================================================
