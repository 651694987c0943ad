------------------------- MODULE ArchiveReadProofs -------------------------
(***************************************************************************)
(* Theorems about ArchiveRead and ArchiveTables, for any set of tasks,     *)
(* files and arrays, any number of reads, and tables of any size, and      *)
(* their proofs.                                                           *)
(***************************************************************************)
EXTENDS ArchiveFiles, WellFoundedInduction, TLAPS

-----------------------------------------------------------------------------
(* Outcomes.                                                               *)

(* The outcomes are told apart by their kind.                              *)
LEMMA OutcomeKinds ==
  /\ Idle \in Outcomes /\ Null \in Outcomes /\ Threw \in Outcomes
  /\ Cancelled \in Outcomes /\ Empty \in Outcomes
  /\ \A r \in {Idle, Null, Threw, Cancelled, Empty} :
       r.kind # "view" /\ r.kind # "copied"
  /\ \A c \in BOOLEAN : /\ Copied(c) \in Outcomes
                        /\ Copied(c).kind = "copied"
                        /\ Copied(c).clean = c
  /\ \A b \in Buffers : View(b) \in Outcomes /\ View(b).kind = "view"
<1>1. \A r \in {Idle, Null, Threw, Cancelled, Empty} :
        r.kind # "view" /\ r.kind # "copied"
  BY DEF Idle, Null, Threw, Cancelled, Empty
<1>2. \A c \in BOOLEAN : /\ Copied(c) \in Outcomes
                         /\ Copied(c).kind = "copied"
                         /\ Copied(c).clean = c
  BY DEF Outcomes, Copied
<1>3. \A b \in Buffers : View(b) \in Outcomes /\ View(b).kind = "view"
  BY DEF Outcomes, View
<1> QED
  BY <1>1, <1>2, <1>3 DEF Outcomes

(* DecodeBlock hands out a view of the raw bytes exactly when ReadFile has *)
(* decided to retain them: the two conditions are written differently.     *)
LEMMA StoredIsRetained ==
  ASSUME TypeOK, NEW t \in Tasks, block[t] \in Blocks, StoredUnit(t)
  PROVE  ~Rents(t)
<1>1. block[t] \in BlockTableEntry
  BY ConstantsAssumption DEF ConstantsAssumption
<1>2. /\ block[t].compress \in BOOLEAN /\ block[t].singleUnit \in BOOLEAN
      /\ block[t].compressedSize \in Nat /\ block[t].fileSize \in Nat
  BY <1>1 DEF BlockTableEntry
<1>3. force[t] \in BOOLEAN
  BY DEF TypeOK
<1> QED
  BY <1>2, <1>3 DEF StoredUnit, Rents, Decompresses, ShouldRetainRawData

-----------------------------------------------------------------------------
(* Steps that touch no array.                                              *)

(* A step of t that moves no array and gives none away keeps the           *)
(* invariant when what it does to the locals of t fits where t stands.     *)
LEMMA LocalStep ==
  ASSUME IInv, NEW t \in Tasks, TypeOK',
         UNCHANGED <<arrays, held, raw>>,
         \A u \in Tasks \ {t} :
           /\ pc'[u] = pc[u] /\ block'[u] = block[u] /\ force'[u] = force[u]
           /\ clean'[u] = clean[u] /\ outcome'[u] = outcome[u]
           /\ reads'[u] = reads[u],
         raw[t] # NoBuffer =>
           /\ pc'[t] \in {"read", "decode", "finally"}
           /\ Rents(t)' = Rents(t),
         pc'[t] # "idle" => block'[t] \in Blocks,
         pc'[t] = "read" => raw[t] # NoBuffer,
         pc'[t] \in {"decode", "finally"} =>
           IF raw[t] = NoBuffer
           THEN block'[t].compressedSize = 0
           ELSE content[raw[t]] = [by |-> <<t, reads'[t]>>,
                                   units |-> block'[t].compressedSize],
         clean'[t],
         outcome'[t].kind = "view" /\ pc'[t] = "finally" =>
           raw[t] # NoBuffer /\ ~Rents(t)',
         outcome'[t].kind = "copied" => outcome'[t].clean
  PROVE  IInv'
<1>1. PoolSound' /\ HeldOwned' /\ ResultsStable' /\ NothingLeaked'
  BY DEF IInv, PoolSound, HeldOwned, ResultsStable, NothingLeaked, arrays
<1>2. \A u \in Tasks : raw[u] # NoBuffer => Rents(u)' = Rents(u)
  BY DEF Rents
<1>3. RawOwned'
  BY <1>2 DEF IInv, RawOwned, arrays
<1>4. DecodesOwnBytes'
  BY DEF IInv, DecodesOwnBytes
<1>5. ReadProgress'
  <2> SUFFICES ASSUME NEW u \in Tasks
               PROVE  /\ pc'[u] # "idle" => block'[u] \in Blocks
                      /\ pc'[u] = "read" => raw[u] # NoBuffer
                      /\ pc'[u] \in {"decode", "finally"} =>
                           IF raw[u] = NoBuffer
                           THEN block'[u].compressedSize = 0
                           ELSE content[raw[u]]
                                  = [by |-> <<u, reads'[u]>>,
                                     units |-> block'[u].compressedSize]
                      /\ clean'[u]
                      /\ pc'[u] = "finally" /\ outcome'[u].kind = "view" =>
                           raw[u] # NoBuffer /\ ~Rents(u)'
    BY DEF ReadProgress, Me, arrays
  <2>1. CASE u = t
    BY <2>1
  <2>2. CASE u # t
    BY <2>2, <1>2 DEF IInv, ReadProgress, Me
  <2> QED
    BY <2>1, <2>2
<1> QED
  BY <1>1, <1>3, <1>4, <1>5 DEF IInv

(* A read that has no array yet ends.                                      *)
LEMMA EndsWithoutArray ==
  ASSUME IInv, NEW t \in Tasks, pc[t] \in {"lookup", "getBuffer"},
         NEW result \in {Null, Threw, Cancelled}, EndWith(t, result)
  PROVE  IInv'
<1>1. raw[t] = NoBuffer /\ TypeOK
  BY DEF IInv, RawOwned
<1>2. UNCHANGED <<arrays, held, raw>>
  BY <1>1 DEF EndWith, End, arrays, TypeOK
<1>3. TypeOK'
  BY <1>1, OutcomeKinds DEF EndWith, End, TypeOK, arrays
<1>4. /\ pc'[t] = "idle" /\ clean'[t]
      /\ outcome'[t].kind \notin {"view", "copied"}
  BY <1>1, OutcomeKinds DEF EndWith, End, TypeOK
<1>5. \A u \in Tasks \ {t} :
        /\ pc'[u] = pc[u] /\ block'[u] = block[u] /\ force'[u] = force[u]
        /\ clean'[u] = clean[u] /\ outcome'[u] = outcome[u]
        /\ reads'[u] = reads[u]
  BY <1>1 DEF EndWith, End, TypeOK
<1> QED
  BY <1>1, <1>2, <1>3, <1>4, <1>5, LocalStep

(* DecodeBlock ends, with a result that fits the read.                     *)
LEMMA DecodingEnds ==
  ASSUME IInv, NEW t \in Tasks, pc[t] = "decode",
         NEW result \in Outcomes, Leave(t, result),
         result.kind = "view" => raw[t] # NoBuffer /\ ~Rents(t),
         result.kind = "copied" => result.clean
  PROVE  IInv'
<1>1. TypeOK
  BY DEF IInv
<1>2. UNCHANGED <<arrays, held, raw, inputs, cancelled, parts, clean, reads>>
  BY DEF Leave
<1>3. TypeOK'
  BY <1>1 DEF Leave, TypeOK, arrays, inputs
<1>4. pc'[t] = "finally" /\ outcome'[t] = result
  BY <1>1 DEF Leave, TypeOK
<1>5. \A u \in Tasks \ {t} : pc'[u] = pc[u] /\ outcome'[u] = outcome[u]
  BY <1>1 DEF Leave, TypeOK
<1>6. Rents(t)' = Rents(t)
  BY <1>2 DEF Rents, inputs
<1>7. /\ block[t] \in Blocks
      /\ IF raw[t] = NoBuffer
         THEN block[t].compressedSize = 0
         ELSE content[raw[t]]
                = [by |-> <<t, reads[t]>>, units |-> block[t].compressedSize]
      /\ clean[t]
  BY DEF IInv, ReadProgress, Me
<1> QED
  BY <1>2, <1>3, <1>4, <1>5, <1>6, <1>7, LocalStep DEF inputs

LEMMA CallStep ==
  ASSUME IInv, NEW t \in Tasks, Call(t)
  PROVE  IInv'
<1>1. TypeOK /\ raw[t] = NoBuffer /\ clean[t]
  BY DEF IInv, RawOwned, Call, ReadProgress
<1>2. UNCHANGED <<arrays, held, raw>> /\ clean' = clean
  BY DEF Call
<1>3. /\ pc'[t] = "lookup" /\ block'[t] \in Blocks /\ outcome'[t] = Idle
  BY <1>1 DEF Call, TypeOK
<1>4. TypeOK'
  BY <1>1, OutcomeKinds DEF Call, TypeOK, arrays
<1>5. \A u \in Tasks \ {t} :
        /\ pc'[u] = pc[u] /\ block'[u] = block[u] /\ force'[u] = force[u]
        /\ outcome'[u] = outcome[u] /\ reads'[u] = reads[u]
  BY <1>1 DEF Call, TypeOK
<1>6. outcome'[t].kind \notin {"view", "copied"}
  BY <1>3, OutcomeKinds
<1> QED
  BY <1>1, <1>2, <1>3, <1>4, <1>5, <1>6, LocalStep

LEMMA CancelStep ==
  ASSUME IInv, NEW t \in Tasks, Cancel(t)
  PROVE  IInv'
<1>1. TypeOK
  BY DEF IInv
<1>2. UNCHANGED <<arrays, held, pc, inputs, raw, parts, clean, outcome, reads>>
  BY DEF Cancel
<1>3. TypeOK'
  BY <1>1 DEF Cancel, TypeOK, arrays, inputs
<1>4. PoolSound' /\ HeldOwned' /\ ResultsStable' /\ NothingLeaked'
  BY <1>2 DEF IInv, PoolSound, HeldOwned, ResultsStable, NothingLeaked, arrays
<1>5. RawOwned' /\ ReadProgress' /\ DecodesOwnBytes'
  BY <1>2 DEF IInv, RawOwned, ReadProgress, DecodesOwnBytes, Rents, Me, arrays,
              inputs
<1> QED
  BY <1>3, <1>4, <1>5 DEF IInv

LEMMA LookupStep ==
  ASSUME IInv, NEW t \in Tasks, Lookup(t)
  PROVE  IInv'
<1>1. CASE FileMissing(t)
  BY <1>1, EndsWithoutArray DEF FileMissing
<1>2. CASE FileEncrypted(t)
  BY <1>2, EndsWithoutArray DEF FileEncrypted
<1>3. CASE CancelledEarly(t)
  BY <1>3, EndsWithoutArray DEF CancelledEarly, Found
<1>4. CASE FileFound(t)
  <2>1. TypeOK /\ raw[t] = NoBuffer /\ clean[t] /\ block[t] \in Blocks
    BY <1>4 DEF IInv, RawOwned, FileFound, Found, ReadProgress
  <2>2. UNCHANGED <<arrays, held, inputs, cancelled, raw, parts, clean,
                    outcome, reads>>
    BY <1>4 DEF FileFound
  <2>3. TypeOK'
    BY <2>1, <2>2, <1>4 DEF FileFound, TypeOK, arrays, inputs
  <2>4. pc'[t] = "getBuffer" /\ \A u \in Tasks \ {t} : pc'[u] = pc[u]
    BY <2>1, <1>4 DEF FileFound, TypeOK
  <2>5. outcome[t].kind = "copied" => outcome[t].clean
    BY DEF IInv, DecodesOwnBytes
  <2> QED
    BY <2>1, <2>2, <2>3, <2>4, <2>5, LocalStep DEF inputs
<1> QED
  BY <1>1, <1>2, <1>3, <1>4 DEF Lookup

-----------------------------------------------------------------------------
(* Steps that move or fill an array.                                       *)

(* The array a read takes has no owner: nobody reads it or holds it.       *)
LEMMA FreeArray ==
  ASSUME IInv, NEW b \in Buffers, pool[b] > 0 \/ origin[b] = "unused"
  PROVE  /\ \A u \in Tasks : raw[u] # b
         /\ \A m \in held : m.buffer # b
<1>1. \A u \in Tasks : raw[u] # b
  BY ConstantsAssumption DEF IInv, RawOwned, TypeOK, PoolSound, ConstantsAssumption
<1>2. \A m \in held : m.buffer # b
  BY DEF IInv, HeldOwned, TypeOK, PoolSound
<1> QED
  BY <1>1, <1>2

(* A read takes array b, which nobody else has.                            *)
LEMMA TakeArray ==
  ASSUME IInv, NEW t \in Tasks, NEW b \in Buffers, pc[t] = "getBuffer",
         StartReading(t, b),
         pool' \in [Buffers -> Nat], pool'[b] = 0,
         origin' \in [Buffers -> {"unused", "pool", "heap"}],
         origin'[b] = IF Rents(t) THEN "pool" ELSE "heap",
         \A c \in Buffers \ {b} : pool'[c] = pool[c] /\ origin'[c] = origin[c],
         \A u \in Tasks : raw[u] # b,
         \A m \in held : m.buffer # b
  PROVE  IInv'
<1>1. TypeOK /\ raw[t] = NoBuffer /\ clean[t] /\ block[t] \in Blocks
  BY DEF IInv, RawOwned, ReadProgress
<1>2. b # NoBuffer
  BY ConstantsAssumption DEF ConstantsAssumption
<1>3. /\ raw' = [raw EXCEPT ![t] = b] /\ pc' = [pc EXCEPT ![t] = "read"]
      /\ UNCHANGED <<content, held, inputs, cancelled, parts, clean, outcome,
                     reads>>
  BY DEF StartReading
<1>4. TypeOK'
  BY <1>1, <1>3 DEF TypeOK, inputs
<1>5. PoolSound'
  BY DEF IInv, PoolSound
<1>6. \A u \in Tasks : Rents(u)' = Rents(u)
  BY <1>3 DEF Rents, inputs
<1>7. RawOwned'
  <2> SUFFICES ASSUME NEW u \in Tasks, raw'[u] # NoBuffer
               PROVE  /\ pc'[u] \in {"read", "decode", "finally"}
                      /\ pool'[raw'[u]] = 0
                      /\ origin'[raw'[u]] = IF Rents(u) THEN "pool" ELSE "heap"
                      /\ \A v \in Tasks \ {u} : raw'[v] # raw'[u]
                      /\ \A m \in held : m.buffer # raw'[u]
    BY <1>3, <1>6 DEF RawOwned
  <2>1. CASE u = t
    BY <2>1, <1>1, <1>3 DEF TypeOK
  <2>2. CASE u # t
    <3>1. raw'[u] = raw[u] /\ pc'[u] = pc[u] /\ raw[u] \in Buffers \ {b}
      BY <2>2, <1>1, <1>3 DEF TypeOK
    <3>2. \A v \in Tasks \ {u} : raw'[v] # raw[u]
      BY <3>1, <1>1, <1>3 DEF TypeOK, IInv, RawOwned
    <3> QED
      BY <3>1, <3>2 DEF IInv, RawOwned
  <2> QED
    BY <2>1, <2>2
<1>8. HeldOwned'
  <2> SUFFICES ASSUME NEW m \in held
               PROVE  origin'[m.buffer] = "heap"
    BY <1>3 DEF HeldOwned
  <2>1. m.buffer \in Buffers \ {b}
    BY <1>1 DEF TypeOK
  <2> QED
    BY <2>1 DEF IInv, HeldOwned
<1>9. ResultsStable' /\ DecodesOwnBytes'
  BY <1>3 DEF IInv, ResultsStable, DecodesOwnBytes
<1>10. NothingLeaked'
  <2> SUFFICES ASSUME NEW c \in Buffers, origin'[c] = "pool"
               PROVE  pool'[c] > 0 \/ \E u \in Tasks : raw'[u] = c
    BY DEF NothingLeaked
  <2>1. CASE c = b
    BY <2>1, <1>1, <1>3 DEF TypeOK
  <2>2. CASE c # b
    <3>1. pool[c] > 0 \/ \E u \in Tasks : raw[u] = c
      BY <2>2 DEF IInv, NothingLeaked
    <3>2. \A u \in Tasks : raw[u] = c => raw'[u] = c
      BY <1>1, <1>2, <1>3, ConstantsAssumption DEF TypeOK, ConstantsAssumption
    <3> QED
      BY <3>1, <3>2, <2>2
  <2> QED
    BY <2>1, <2>2
<1>11. ReadProgress'
  <2> SUFFICES ASSUME NEW u \in Tasks
               PROVE  /\ pc'[u] # "idle" => block[u] \in Blocks
                      /\ pc'[u] = "read" => raw'[u] # NoBuffer
                      /\ pc'[u] \in {"decode", "finally"} =>
                           IF raw'[u] = NoBuffer
                           THEN block[u].compressedSize = 0
                           ELSE content[raw'[u]]
                                  = [by |-> <<u, reads[u]>>,
                                     units |-> block[u].compressedSize]
                      /\ clean[u]
                      /\ pc'[u] = "finally" /\ outcome[u].kind = "view" =>
                           raw'[u] # NoBuffer /\ ~Rents(u)
    BY <1>3, <1>6 DEF ReadProgress, Me, inputs
  <2>1. CASE u = t
    BY <2>1, <1>1, <1>2, <1>3 DEF TypeOK
  <2>2. CASE u # t
    <3>1. raw'[u] = raw[u] /\ pc'[u] = pc[u]
      BY <2>2, <1>1, <1>3 DEF TypeOK
    <3> QED
      BY <3>1 DEF IInv, ReadProgress, Me
  <2> QED
    BY <2>1, <2>2
<1> QED
  BY <1>4, <1>5, <1>7, <1>8, <1>9, <1>10, <1>11 DEF IInv

LEMMA RentStep ==
  ASSUME IInv, NEW t \in Tasks, Rent(t)
  PROVE  IInv'
<1>1. TypeOK /\ PoolSound
  BY DEF IInv
<1>2. PICK b \in Buffers :
        /\ \/ pool[b] > 0 /\ pool' = [pool EXCEPT ![b] = @ - 1]
                          /\ UNCHANGED origin
           \/ origin[b] = "unused" /\ origin' = [origin EXCEPT ![b] = "pool"]
                                   /\ UNCHANGED pool
        /\ StartReading(t, b)
  BY DEF Rent
<1>3. /\ \A u \in Tasks : raw[u] # b
      /\ \A m \in held : m.buffer # b
  BY <1>2, FreeArray
<1>4. CASE pool[b] > 0 /\ pool' = [pool EXCEPT ![b] = @ - 1] /\ UNCHANGED origin
  <2>1. pool[b] = 1 /\ origin[b] = "pool"
    BY <1>1, <1>4 DEF PoolSound, TypeOK
  <2>2. /\ pool' \in [Buffers -> Nat] /\ pool'[b] = 0
        /\ \A c \in Buffers \ {b} : pool'[c] = pool[c]
    BY <1>1, <1>4, <2>1 DEF TypeOK
  <2>3. origin' \in [Buffers -> {"unused", "pool", "heap"}]
    BY <1>1, <1>4 DEF TypeOK
  <2> QED
    BY <1>2, <1>3, <1>4, <2>1, <2>2, <2>3, TakeArray DEF Rent
<1>5. CASE /\ origin[b] = "unused" /\ origin' = [origin EXCEPT ![b] = "pool"]
           /\ UNCHANGED pool
  <2>1. pool[b] = 0
    BY <1>1, <1>5 DEF PoolSound
  <2>2. /\ origin' \in [Buffers -> {"unused", "pool", "heap"}]
        /\ origin'[b] = "pool" /\ pool' \in [Buffers -> Nat]
        /\ \A c \in Buffers \ {b} : origin'[c] = origin[c]
    BY <1>1, <1>5 DEF TypeOK
  <2> QED
    BY <1>2, <1>3, <1>5, <2>1, <2>2, TakeArray DEF Rent
<1> QED
  BY <1>2, <1>4, <1>5

LEMMA AllocateStep ==
  ASSUME IInv, NEW t \in Tasks, Allocate(t)
  PROVE  IInv'
<1>1. TypeOK /\ PoolSound
  BY DEF IInv
<1>2. PICK b \in Buffers :
        /\ origin[b] = "unused" /\ origin' = [origin EXCEPT ![b] = "heap"]
        /\ UNCHANGED pool
        /\ StartReading(t, b)
  BY DEF Allocate
<1>3. /\ \A u \in Tasks : raw[u] # b
      /\ \A m \in held : m.buffer # b
  BY <1>2, FreeArray
<1>4. pool[b] = 0
  BY <1>1, <1>2 DEF PoolSound
<1>5. /\ origin' \in [Buffers -> {"unused", "pool", "heap"}]
      /\ origin'[b] = "heap" /\ pool' \in [Buffers -> Nat]
      /\ \A c \in Buffers \ {b} : origin'[c] = origin[c]
  BY <1>1, <1>2 DEF TypeOK
<1> QED
  BY <1>2, <1>3, <1>4, <1>5, TakeArray DEF Allocate

LEMMA ReadPieceStep ==
  ASSUME IInv, NEW t \in Tasks, ReadPiece(t)
  PROVE  IInv'
<1> DEFINE before == content[raw[t]]
           now == IF before.by = Me(t) THEN before.units + 1 ELSE 1
<1>1. TypeOK /\ raw[t] \in Buffers /\ block[t] \in Blocks /\ clean[t]
  BY DEF IInv, ReadPiece, ReadProgress, TypeOK
<1>2. /\ content' = [content EXCEPT ![raw[t]] = [by |-> Me(t), units |-> now]]
      /\ pc' = [pc EXCEPT ![t] = IF now = block[t].compressedSize
                                 THEN "decode" ELSE "read"]
      /\ UNCHANGED <<pool, origin, held, inputs, cancelled, raw, parts, clean,
                     outcome, reads>>
  BY DEF ReadPiece
<1>3. Me(t) \in Tasks \X Nat /\ now \in Nat
  BY <1>1 DEF Me, TypeOK
<1> HIDE DEF now
<1>4. TypeOK'
  BY <1>1, <1>2, <1>3 DEF TypeOK, inputs
<1>5. PoolSound' /\ HeldOwned' /\ NothingLeaked' /\ DecodesOwnBytes'
  BY <1>2 DEF IInv, PoolSound, HeldOwned, NothingLeaked, DecodesOwnBytes
<1>6. \A u \in Tasks : pc'[u] # pc[u] => u = t
  BY <1>1, <1>2 DEF TypeOK
<1>7. pc'[t] \in {"read", "decode"}
  BY <1>1, <1>2 DEF TypeOK
<1>8. RawOwned'
  BY <1>2, <1>6, <1>7 DEF IInv, RawOwned, Rents, inputs
<1>9. ResultsStable'
  <2>1. \A m \in held : m.buffer \in Buffers /\ m.buffer # raw[t]
    BY <1>1, ConstantsAssumption DEF IInv, RawOwned, TypeOK, ConstantsAssumption
  <2>2. \A m \in held : content'[m.buffer] = content[m.buffer]
    BY <1>1, <1>2, <2>1 DEF TypeOK
  <2> QED
    BY <1>2, <2>2 DEF IInv, ResultsStable
<1>10. ReadProgress'
  <2> SUFFICES ASSUME NEW u \in Tasks
               PROVE  /\ pc'[u] # "idle" => block[u] \in Blocks
                      /\ pc'[u] = "read" => raw[u] # NoBuffer
                      /\ pc'[u] \in {"decode", "finally"} =>
                           IF raw[u] = NoBuffer
                           THEN block[u].compressedSize = 0
                           ELSE content'[raw[u]]
                                  = [by |-> Me(u),
                                     units |-> block[u].compressedSize]
                      /\ clean[u]
                      /\ pc'[u] = "finally" /\ outcome[u].kind = "view" =>
                           raw[u] # NoBuffer /\ ~Rents(u)
    BY <1>2 DEF ReadProgress, Me, Rents, inputs
  <2>1. CASE u = t
    <3>1. raw[t] # NoBuffer
      BY <1>1, ConstantsAssumption DEF ConstantsAssumption
    <3>2. content'[raw[t]] = [by |-> Me(t), units |-> now]
      BY <1>1, <1>2 DEF TypeOK
    <3>3. pc'[t] = "decode" => now = block[t].compressedSize
      BY <1>1, <1>2 DEF TypeOK
    <3> QED
      BY <2>1, <1>1, <1>7, <3>1, <3>2, <3>3
  <2>2. CASE u # t
    <3>1. pc'[u] = pc[u]
      BY <2>2, <1>6
    <3>2. raw[u] # NoBuffer => content'[raw[u]] = content[raw[u]]
      BY <2>2, <1>1, <1>2 DEF IInv, RawOwned, TypeOK
    <3> QED
      BY <3>1, <3>2 DEF IInv, ReadProgress
  <2> QED
    BY <2>1, <2>2
<1> QED
  BY <1>4, <1>5, <1>8, <1>9, <1>10 DEF IInv

(* A read that has an array, or the empty one, ends: it gives a rented     *)
(* array back and hands out at most a view of an array it did not rent.    *)
LEMMA GiveUpArray ==
  ASSUME IInv, NEW t \in Tasks, pc[t] \in {"read", "finally"},
         NEW result \in Outcomes, End(t, result),
         result.kind = "copied" => result.clean,
         IF Rents(t) /\ raw[t] # NoBuffer THEN ReturnToPool(raw[t])
                                          ELSE UNCHANGED pool,
         \/ held' = held
         \/ /\ pc[t] = "finally" /\ raw[t] # NoBuffer /\ ~Rents(t)
            /\ held' = held \cup {[buffer |-> raw[t], by |-> Me(t),
                                   units |-> block[t].compressedSize]}
  PROVE  IInv'
<1>1. TypeOK /\ PoolSound /\ block[t] \in Blocks
  BY DEF IInv, ReadProgress
<1>2. /\ pc' = [pc EXCEPT ![t] = "idle"]
      /\ outcome' = [outcome EXCEPT ![t] = result]
      /\ block' = [block EXCEPT ![t] = NoBlock]
      /\ force' = [force EXCEPT ![t] = FALSE]
      /\ async' = [async EXCEPT ![t] = FALSE]
      /\ cancelled' = [cancelled EXCEPT ![t] = FALSE]
      /\ raw' = [raw EXCEPT ![t] = NoBuffer]
      /\ parts' = [parts EXCEPT ![t] = 0]
      /\ clean' = [clean EXCEPT ![t] = TRUE]
      /\ UNCHANGED <<origin, content, reads>>
  BY DEF End
<1>3. /\ block[t].compressedSize \in Nat
      /\ Me(t) \in Tasks \X Nat
  BY <1>1, ConstantsAssumption DEF ConstantsAssumption, BlockTableEntry, Me, TypeOK
<1>4. raw[t] # NoBuffer =>
        /\ raw[t] \in Buffers /\ pool[raw[t]] = 0
        /\ origin[raw[t]] = IF Rents(t) THEN "pool" ELSE "heap"
        /\ \A u \in Tasks \ {t} : raw[u] # raw[t]
        /\ \A m \in held : m.buffer # raw[t]
  BY <1>1 DEF IInv, RawOwned, TypeOK
<1>5. /\ pool' \in [Buffers -> Nat]
      /\ \A b \in Buffers :
           pool'[b] = IF Rents(t) /\ raw[t] = b THEN 1 ELSE pool[b]
  BY <1>1, <1>4, ConstantsAssumption DEF ReturnToPool, TypeOK, ConstantsAssumption
<1>6. held' \subseteq [buffer : Buffers, by : Tasks \X Nat, units : Nat]
  BY <1>1, <1>3, <1>4 DEF TypeOK
<1>7. TypeOK'
  BY <1>1, <1>2, <1>5, <1>6 DEF TypeOK
<1>8. PoolSound'
  BY <1>1, <1>2, <1>4, <1>5, ConstantsAssumption DEF PoolSound, ConstantsAssumption
<1>9. raw'[t] = NoBuffer /\ \A u \in Tasks \ {t} : raw'[u] = raw[u]
  BY <1>1, <1>2 DEF TypeOK
<1>10. \A u \in Tasks \ {t} :
         /\ pc'[u] = pc[u] /\ block'[u] = block[u] /\ force'[u] = force[u]
         /\ outcome'[u] = outcome[u]
  BY <1>1, <1>2 DEF TypeOK
<1>11. \A u \in Tasks \ {t} : Rents(u)' = Rents(u)
  BY <1>10 DEF Rents
<1>12. \A m \in held' \ held :
         /\ m.buffer = raw[t] /\ raw[t] # NoBuffer /\ ~Rents(t)
         /\ m.by = Me(t) /\ m.units = block[t].compressedSize
         /\ pc[t] = "finally"
  OBVIOUS
<1>13. RawOwned'
  <2> SUFFICES ASSUME NEW u \in Tasks, raw'[u] # NoBuffer
               PROVE  /\ pc'[u] \in {"read", "decode", "finally"}
                      /\ pool'[raw'[u]] = 0
                      /\ origin[raw'[u]]
                           = IF Rents(u)' THEN "pool" ELSE "heap"
                      /\ \A v \in Tasks \ {u} : raw'[v] # raw'[u]
                      /\ \A m \in held' : m.buffer # raw'[u]
    BY <1>2 DEF RawOwned
  <2>1. u # t /\ raw'[u] = raw[u] /\ raw[u] \in Buffers
    BY <1>1, <1>9 DEF TypeOK
  <2>2. /\ pc[u] \in {"read", "decode", "finally"} /\ pool[raw[u]] = 0
        /\ origin[raw[u]] = IF Rents(u) THEN "pool" ELSE "heap"
        /\ \A v \in Tasks \ {u} : raw[v] # raw[u]
        /\ \A m \in held : m.buffer # raw[u]
    BY <2>1 DEF IInv, RawOwned
  <2>3. pool'[raw[u]] = 0
    BY <1>5, <2>1, <2>2
  <2>4. \A v \in Tasks \ {u} : raw'[v] # raw[u]
    BY <1>9, <2>1, <2>2
  <2>5. \A m \in held' : m.buffer # raw[u]
    BY <1>12, <2>1, <2>2
  <2> QED
    BY <1>10, <1>11, <2>1, <2>2, <2>3, <2>4, <2>5
<1>14. HeldOwned'
  BY <1>2, <1>4, <1>12 DEF IInv, HeldOwned
<1>15. ResultsStable'
  <2> SUFFICES ASSUME NEW m \in held'
               PROVE  content[m.buffer] = [by |-> m.by, units |-> m.units]
    BY <1>2 DEF ResultsStable
  <2>1. CASE m \in held
    BY <2>1 DEF IInv, ResultsStable
  <2>2. CASE m \notin held
    BY <2>2, <1>12 DEF IInv, ReadProgress
  <2> QED
    BY <2>1, <2>2
<1>16. DecodesOwnBytes'
  BY <1>1, <1>2, <1>10 DEF IInv, DecodesOwnBytes, TypeOK
<1>17. NothingLeaked'
  <2> SUFFICES ASSUME NEW b \in Buffers, origin[b] = "pool"
               PROVE  pool'[b] > 0 \/ \E u \in Tasks : raw'[u] = b
    BY <1>2 DEF NothingLeaked
  <2>1. pool[b] > 0 \/ \E u \in Tasks : raw[u] = b
    BY DEF IInv, NothingLeaked
  <2>2. CASE raw[t] = b
    BY <2>2, <1>4, <1>5, ConstantsAssumption DEF ConstantsAssumption
  <2>3. CASE raw[t] # b
    BY <2>1, <2>3, <1>5, <1>9
  <2> QED
    BY <2>2, <2>3
<1>18. ReadProgress'
  <2> SUFFICES ASSUME NEW u \in Tasks
               PROVE  /\ pc'[u] # "idle" => block'[u] \in Blocks
                      /\ pc'[u] = "read" => raw'[u] # NoBuffer
                      /\ pc'[u] \in {"decode", "finally"} =>
                           IF raw'[u] = NoBuffer
                           THEN block'[u].compressedSize = 0
                           ELSE content[raw'[u]]
                                  = [by |-> Me(u),
                                     units |-> block'[u].compressedSize]
                      /\ clean'[u]
                      /\ pc'[u] = "finally" /\ outcome'[u].kind = "view" =>
                           raw'[u] # NoBuffer /\ ~Rents(u)'
    BY <1>2 DEF ReadProgress, Me
  <2>1. CASE u = t
    BY <2>1, <1>1, <1>2 DEF TypeOK
  <2>2. CASE u # t
    <3>1. clean'[u] = clean[u] /\ raw'[u] = raw[u]
      BY <2>2, <1>1, <1>2, <1>9 DEF TypeOK
    <3> QED
      BY <2>2, <3>1, <1>10, <1>11 DEF IInv, ReadProgress
  <2> QED
    BY <2>1, <2>2
<1> QED
  BY <1>7, <1>8, <1>13, <1>14, <1>15, <1>16, <1>17, <1>18 DEF IInv

LEMMA ReadRawDataStep ==
  ASSUME IInv, NEW t \in Tasks, ReadRawData(t)
  PROVE  IInv'
<1>1. CASE RangeInvalid(t)
  BY <1>1, EndsWithoutArray DEF RangeInvalid
<1>2. CASE NothingToRead(t)
  <2>1. TypeOK /\ raw[t] = NoBuffer /\ clean[t] /\ block[t] \in Blocks
    BY <1>2 DEF IInv, RawOwned, NothingToRead, ReadProgress
  <2>2. UNCHANGED <<arrays, held, inputs, cancelled, raw, parts, clean,
                    outcome, reads>>
    BY <1>2 DEF NothingToRead
  <2>3. TypeOK'
    BY <2>1, <2>2, <1>2 DEF NothingToRead, TypeOK, arrays, inputs
  <2>4. pc'[t] = "decode" /\ \A u \in Tasks \ {t} : pc'[u] = pc[u]
    BY <2>1, <1>2 DEF NothingToRead, TypeOK
  <2>5. outcome[t].kind = "copied" => outcome[t].clean
    BY DEF IInv, DecodesOwnBytes
  <2>6. block[t].compressedSize = 0
    BY <1>2 DEF NothingToRead
  <2> QED
    BY <2>1, <2>2, <2>3, <2>4, <2>5, <2>6, LocalStep DEF inputs
<1>3. CASE Rent(t)
  BY <1>3, RentStep
<1>4. CASE Allocate(t)
  BY <1>4, AllocateStep
<1>5. CASE ReadPiece(t)
  BY <1>5, ReadPieceStep
<1>6. CASE ReadFails(t)
  <2>1. PICK result \in {Threw, Cancelled} : End(t, result)
    BY <1>6 DEF ReadFails
  <2>2. result \in Outcomes /\ result.kind # "copied"
    BY <2>1, OutcomeKinds
  <2>3. raw[t] # NoBuffer /\ pc[t] = "read" /\ held' = held
    BY <1>6 DEF IInv, ReadProgress, ReadFails
  <2>4. IF Rents(t) /\ raw[t] # NoBuffer THEN ReturnToPool(raw[t])
                                        ELSE UNCHANGED pool
    BY <1>6, <2>3 DEF ReadFails
  <2> QED
    BY <2>1, <2>2, <2>3, <2>4, GiveUpArray
<1> QED
  BY <1>1, <1>2, <1>3, <1>4, <1>5, <1>6 DEF ReadRawData

LEMMA FinallyStep ==
  ASSUME IInv, NEW t \in Tasks, Finally(t)
  PROVE  IInv'
<1>1. outcome[t] \in Outcomes /\ (outcome[t].kind = "copied" => outcome[t].clean)
  BY DEF IInv, TypeOK, DecodesOwnBytes
<1>2. pc[t] = "finally" /\ End(t, outcome[t])
  BY DEF Finally
<1>3. IF Rents(t) /\ raw[t] # NoBuffer THEN ReturnToPool(raw[t])
                                      ELSE UNCHANGED pool
  BY DEF Finally
<1>4. CASE outcome[t].kind = "view"
  <2>1. raw[t] # NoBuffer /\ ~Rents(t)
    BY <1>2, <1>4 DEF IInv, ReadProgress
  <2>2. held' = held \cup {[buffer |-> raw[t], by |-> Me(t),
                           units |-> block[t].compressedSize]}
    BY <1>4 DEF Finally
  <2> QED
    BY <1>1, <1>2, <1>3, <2>1, <2>2, GiveUpArray
<1>5. CASE outcome[t].kind # "view"
  <2>1. held' = held
    BY <1>5 DEF Finally
  <2> QED
    BY <1>1, <1>2, <1>3, <2>1, GiveUpArray
<1> QED
  BY <1>4, <1>5

LEMMA DecodePartStep ==
  ASSUME IInv, NEW t \in Tasks, DecodePart(t)
  PROVE  IInv'
<1>1. TypeOK /\ block[t] \in Blocks /\ clean[t] /\ pc[t] = "decode"
      /\ block[t].compressedSize # 0
  BY DEF IInv, ReadProgress, DecodePart, Decodable
<1>2. /\ raw[t] # NoBuffer
      /\ content[raw[t]] = [by |-> <<t, reads[t]>>,
                            units |-> block[t].compressedSize]
  BY <1>1 DEF IInv, ReadProgress, Me
<1>3. /\ parts' = [parts EXCEPT ![t] = @ + 1]
      /\ clean' = [clean EXCEPT ![t] =
                     @ /\ content[raw[t]]
                            = [by |-> Me(t), units |-> block[t].compressedSize]]
      /\ UNCHANGED <<arrays, held, pc, inputs, cancelled, raw, outcome, reads>>
  BY DEF DecodePart
<1>4. clean' = clean
  BY <1>1, <1>2, <1>3 DEF TypeOK, Me
<1>5. TypeOK'
  BY <1>1, <1>3, <1>4 DEF TypeOK, arrays, inputs
<1>6. Rents(t)' = Rents(t)
  BY <1>3 DEF Rents, inputs
<1>7. outcome[t].kind = "copied" => outcome[t].clean
  BY DEF IInv, DecodesOwnBytes
<1> QED
  BY <1>1, <1>2, <1>3, <1>4, <1>5, <1>6, <1>7, LocalStep DEF inputs

LEMMA DecodeBlockStep ==
  ASSUME IInv, NEW t \in Tasks, DecodeBlock(t)
  PROVE  IInv'
<1>1. CASE DecodeEmpty(t)
  BY <1>1, OutcomeKinds, DecodingEnds DEF DecodeEmpty
<1>2. CASE EmptyMismatch(t)
  BY <1>2, OutcomeKinds, DecodingEnds DEF EmptyMismatch
<1>3. CASE ReturnView(t)
  <2>1. /\ pc[t] = "decode" /\ block[t] \in Blocks /\ TypeOK
        /\ Leave(t, View(raw[t]))
    BY <1>3 DEF ReturnView, Decodable, IInv, ReadProgress
  <2>2. raw[t] \in Buffers /\ raw[t] # NoBuffer
    BY <1>3, <2>1 DEF ReturnView, Decodable, IInv, ReadProgress, TypeOK
  <2>3. ~Rents(t)
    BY <1>3, <2>1, StoredIsRetained DEF ReturnView
  <2>4. View(raw[t]) \in Outcomes /\ View(raw[t]).kind = "view"
    BY <2>2, OutcomeKinds
  <2> QED
    BY <2>1, <2>2, <2>3, <2>4, DecodingEnds
<1>4. CASE StoredMismatch(t)
  BY <1>4, OutcomeKinds, DecodingEnds DEF StoredMismatch, Decodable
<1>5. CASE DecodePart(t)
  BY <1>5, DecodePartStep
<1>6. CASE DecodeCorrupt(t)
  BY <1>6, OutcomeKinds, DecodingEnds DEF DecodeCorrupt, Decodable
<1>7. CASE DecodeCancelled(t)
  BY <1>7, OutcomeKinds, DecodingEnds DEF DecodeCancelled, Decodable
<1>8. CASE DecodeDone(t)
  <2>1. clean[t] /\ clean[t] \in BOOLEAN
    BY DEF IInv, ReadProgress, TypeOK
  <2>2. /\ Copied(clean[t]) \in Outcomes /\ Copied(clean[t]).kind = "copied"
        /\ Copied(clean[t]).clean
    BY <2>1, OutcomeKinds
  <2> QED
    BY <1>8, <2>2, DecodingEnds DEF DecodeDone, Decodable
<1> QED
  BY <1>1, <1>2, <1>3, <1>4, <1>5, <1>6, <1>7, <1>8 DEF DecodeBlock

-----------------------------------------------------------------------------
(* The inductive invariant and what follows from it.                       *)

LEMMA InitIInv == Init => IInv
<1> SUFFICES ASSUME Init
             PROVE  IInv
  OBVIOUS
<1>1. TypeOK
  BY OutcomeKinds DEF Init, TypeOK
<1>2. PoolSound /\ RawOwned /\ HeldOwned /\ ReadProgress
  BY DEF Init, PoolSound, RawOwned, HeldOwned, ReadProgress
<1>3. ResultsStable /\ NothingLeaked
  BY DEF Init, ResultsStable, NothingLeaked
<1>4. DecodesOwnBytes
  BY OutcomeKinds DEF Init, DecodesOwnBytes
<1> QED
  BY <1>1, <1>2, <1>3, <1>4 DEF IInv

LEMMA NextIInv == IInv /\ [Next]_vars => IInv'
<1> SUFFICES ASSUME IInv, [Next]_vars
             PROVE  IInv'
  OBVIOUS
<1>1. CASE UNCHANGED vars
  <2>1. TypeOK' /\ PoolSound' /\ RawOwned' /\ HeldOwned'
    BY <1>1 DEF IInv, vars, arrays, inputs, TypeOK, PoolSound, RawOwned,
                HeldOwned, Rents
  <2>2. ReadProgress' /\ ResultsStable' /\ DecodesOwnBytes' /\ NothingLeaked'
    BY <1>1 DEF IInv, vars, arrays, inputs, ReadProgress, ResultsStable,
                DecodesOwnBytes, NothingLeaked, Rents, Me
  <2> QED
    BY <2>1, <2>2 DEF IInv
<1>2. CASE Next
  <2>1. PICK t \in Tasks : Call(t) \/ Cancel(t) \/ Step(t)
    BY <1>2 DEF Next
  <2> QED
    BY <2>1, CallStep, CancelStep, LookupStep, ReadRawDataStep,
       DecodeBlockStep, FinallyStep DEF Step
<1> QED
  BY <1>1, <1>2

(* IInv is an inductive invariant of the specification.                    *)
THEOREM InductiveInvariant == Spec => []IInv
BY InitIInv, NextIInv, PTL DEF Spec

(* The invariant TypeOK.                                                   *)
THEOREM TypeCorrect == Spec => []TypeOK
<1>1. IInv => TypeOK
  BY DEF IInv
<1> QED
  BY <1>1, InductiveInvariant, PTL

(* However many decodes read at once, an array is in the pool, with one    *)
(* read or with callers, never in two of these places, and in the pool at  *)
(* most once.                                                              *)
THEOREM ArraysHaveOneOwner == Spec => []OneOwner
<1>1. IInv => OneOwner
  <2> SUFFICES ASSUME IInv, NEW b \in Buffers
               PROVE  /\ pool[b] <= 1
                      /\ \A t \in Tasks : raw[t] = b =>
                           /\ pool[b] = 0
                           /\ \A m \in held : m.buffer # b
                           /\ \A u \in Tasks \ {t} : raw[u] # b
                      /\ \A m \in held : m.buffer = b => pool[b] = 0
    BY DEF OneOwner
  <2>1. pool[b] <= 1
    BY DEF IInv, PoolSound
  <2>2. \A t \in Tasks : raw[t] = b =>
          /\ pool[b] = 0
          /\ \A m \in held : m.buffer # b
          /\ \A u \in Tasks \ {t} : raw[u] # b
    BY ConstantsAssumption DEF IInv, RawOwned, ConstantsAssumption
  <2>3. \A m \in held : m.buffer = b => pool[b] = 0
    BY DEF IInv, HeldOwned, PoolSound
  <2> QED
    BY <2>1, <2>2, <2>3
<1> QED
  BY <1>1, InductiveInvariant, PTL

(* The memory a caller was handed keeps its bytes.                         *)
THEOREM CallersMemoryStable == Spec => []ResultsStable
<1>1. IInv => ResultsStable
  BY DEF IInv
<1> QED
  BY <1>1, InductiveInvariant, PTL

(* A decoded file was decoded from the bytes of its own read.              *)
THEOREM ReadsDecodeOwnBytes == Spec => []DecodesOwnBytes
<1>1. IInv => DecodesOwnBytes
  BY DEF IInv
<1> QED
  BY <1>1, InductiveInvariant, PTL

(* No rented array is lost, however reads end.                             *)
THEOREM RentedArraysReturn == Spec => []NothingLeaked
<1>1. IInv => NothingLeaked
  BY DEF IInv
<1> QED
  BY <1>1, InductiveInvariant, PTL

-----------------------------------------------------------------------------
(* ArchiveRead implements ArrayOwnership.                                  *)

LEMMA TheReader ==
  ASSUME NEW r, NEW b, NEW t \in Tasks, r[t] = b,
         \A u \in Tasks \ {t} : r[u] # b
  PROVE  (CHOOSE u \in Tasks : r[u] = b) = t
<1>1. \E u \in Tasks : r[u] = b
  OBVIOUS
<1>2. (CHOOSE u \in Tasks : r[u] = b) \in Tasks
  BY <1>1
<1>3. r[CHOOSE u \in Tasks : r[u] = b] = b
  BY <1>1
<1> QED
  BY <1>2, <1>3

(* An array that no step has moved has the owner it had.                   *)
LEMMA SameOwner ==
  ASSUME IInv, IInv', NEW b \in Buffers,
         pool'[b] = pool[b], origin'[b] = origin[b],
         \A u \in Tasks : raw'[u] = b <=> raw[u] = b,
         (\E m \in held' : m.buffer = b) <=> (\E m \in held : m.buffer = b)
  PROVE  OwnerOf(b)' = OwnerOf(b)
<1>1. CASE \E t \in Tasks : raw[t] = b
  <2>1. PICK t \in Tasks : raw[t] = b
    BY <1>1
  <2>2. \A u \in Tasks \ {t} : raw[u] # b /\ raw'[u] # b
    BY <2>1, ConstantsAssumption DEF IInv, RawOwned, ConstantsAssumption
  <2>3. /\ (CHOOSE u \in Tasks : raw[u] = b) = t
        /\ (CHOOSE u \in Tasks : raw'[u] = b) = t
    BY <2>1, <2>2, TheReader
  <2> QED
    BY <2>1, <2>3 DEF OwnerOf
<1>2. CASE \A t \in Tasks : raw[t] # b
  BY <1>2 DEF OwnerOf
<1> QED
  BY <1>1, <1>2

(* The array of a read belongs to that read.                               *)
LEMMA OwnedByReader ==
  ASSUME IInv, NEW t \in Tasks, raw[t] # NoBuffer
  PROVE  OwnerOf(raw[t]) = [kind |-> "reader", reader |-> t]
<1>1. /\ pool[raw[t]] = 0
      /\ \A u \in Tasks \ {t} : raw[u] # raw[t]
  BY DEF IInv, RawOwned
<1>2. (CHOOSE u \in Tasks : raw[u] = raw[t]) = t
  BY <1>1, TheReader
<1> QED
  BY <1>1, <1>2 DEF OwnerOf

LEMMA OwnersUnchanged ==
  ASSUME UNCHANGED <<arrays, held, raw>>
  PROVE  UNCHANGED Ownership!vars
BY DEF Ownership!vars, OwnerOf, arrays

LEMMA TakeImplemented ==
  ASSUME IInv, IInv', NEW t \in Tasks, NEW b \in Buffers,
         pc[t] = "getBuffer", StartReading(t, b),
         pool[b] > 0 \/ origin[b] = "unused",
         \A c \in Buffers \ {b} : pool'[c] = pool[c] /\ origin'[c] = origin[c]
  PROVE  Ownership!Take(t, b)
<1>1. /\ TypeOK /\ raw[t] = NoBuffer /\ b # NoBuffer
      /\ raw' = [raw EXCEPT ![t] = b] /\ held' = held /\ content' = content
  BY ConstantsAssumption DEF IInv, RawOwned, StartReading, ConstantsAssumption
<1>2. /\ \A u \in Tasks : raw[u] # b
      /\ \A m \in held : m.buffer # b
  BY FreeArray
<1>3. OwnerOf(b) \in {[kind |-> "unused"], [kind |-> "pool"]}
  BY <1>2 DEF OwnerOf
<1>4. raw'[t] = b /\ \A u \in Tasks \ {t} : raw'[u] # b
  BY <1>1, <1>2 DEF TypeOK
<1>5. pool'[b] = 0
  BY <1>1, <1>4 DEF IInv, RawOwned
<1>6. (CHOOSE u \in Tasks : raw'[u] = b) = t
  BY <1>4, TheReader
<1>7. OwnerOf(b)' = [kind |-> "reader", reader |-> t]
  BY <1>4, <1>5, <1>6 DEF OwnerOf
<1>8. ASSUME NEW c \in Buffers \ {b}
      PROVE  OwnerOf(c)' = OwnerOf(c)
  <2>1. c # NoBuffer
    BY ConstantsAssumption DEF ConstantsAssumption
  <2>2. \A u \in Tasks : raw'[u] = c <=> raw[u] = c
    BY <1>1, <1>4, <2>1 DEF TypeOK
  <2> QED
    BY <1>1, <2>2, SameOwner
<1> QED
  BY <1>1, <1>3, <1>7, <1>8
     DEF Ownership!Take, Ownership!Pass, Ownership!Unused, Ownership!Pool,
         Ownership!Reader

LEMMA GiveUpImplemented ==
  ASSUME IInv, IInv', NEW t \in Tasks, NEW result, End(t, result),
         IF Rents(t) /\ raw[t] # NoBuffer THEN ReturnToPool(raw[t])
                                          ELSE UNCHANGED pool,
         \/ held' = held
         \/ /\ raw[t] # NoBuffer /\ ~Rents(t)
            /\ held' = held \cup {[buffer |-> raw[t], by |-> Me(t),
                                   units |-> block[t].compressedSize]}
  PROVE  [Ownership!Next]_(Ownership!vars)
<1>1. /\ TypeOK /\ raw' = [raw EXCEPT ![t] = NoBuffer]
      /\ origin' = origin /\ content' = content
  BY DEF IInv, End
<1>2. CASE raw[t] = NoBuffer
  <2>1. UNCHANGED <<arrays, held, raw>>
    BY <1>1, <1>2 DEF arrays, TypeOK
  <2> QED
    BY <2>1, OwnersUnchanged
<1>3. CASE raw[t] # NoBuffer
  <2>0. PICK b \in Buffers : b = raw[t]
    BY <1>1, <1>3 DEF TypeOK
  <2>1. /\ b # NoBuffer /\ pool[b] = 0
        /\ origin[b] = IF Rents(t) THEN "pool" ELSE "heap"
        /\ \A u \in Tasks \ {t} : raw[u] # b
        /\ \A m \in held : m.buffer # b
    BY <1>1, <1>3, <2>0 DEF IInv, RawOwned, TypeOK
  <2>2. OwnerOf(b) = [kind |-> "reader", reader |-> t]
    BY <1>3, <2>0, OwnedByReader
  <2>3. \A u \in Tasks : raw'[u] = IF u = t THEN NoBuffer ELSE raw[u]
    BY <1>1 DEF TypeOK
  <2>4. \A u \in Tasks : raw'[u] # b
    BY <2>0, <2>1, <2>3
  <2>5. \A c \in Buffers \ {b} : pool'[c] = pool[c]
    BY <1>1, <2>0 DEF ReturnToPool, TypeOK
  <2>6. \A c \in Buffers \ {b} :
          (\E m \in held' : m.buffer = c) <=> (\E m \in held : m.buffer = c)
    BY <2>0
  <2>7. ASSUME NEW c \in Buffers \ {b}
        PROVE  OwnerOf(c)' = OwnerOf(c)
    <3>1. c # NoBuffer
      BY ConstantsAssumption DEF ConstantsAssumption
    <3>2. \A u \in Tasks : raw'[u] = c <=> raw[u] = c
      BY <2>0, <2>3, <3>1
    <3>3. pool'[c] = pool[c] /\ origin'[c] = origin[c]
      BY <1>1, <2>5
    <3>4. (\E m \in held' : m.buffer = c) <=> (\E m \in held : m.buffer = c)
      BY <2>6
    <3> QED
      BY <3>2, <3>3, <3>4, SameOwner
  <2>8. OwnerOf(b)' \in {[kind |-> "pool"], [kind |-> "caller"],
                        [kind |-> "garbage"]}
    <3>1. CASE Rents(t)
      <4>1. pool'[b] = 1
        BY <1>1, <2>0, <2>1, <3>1 DEF ReturnToPool, TypeOK
      <4> QED
        BY <4>1 DEF OwnerOf
    <3>2. CASE ~Rents(t)
      <4>1. pool'[b] = 0 /\ origin'[b] # "unused"
        BY <1>1, <2>0, <2>1, <3>2
      <4> QED
        BY <4>1, <2>4 DEF OwnerOf
    <3> QED
      BY <3>1, <3>2
  <2>9. \/ Ownership!GiveBack(t, b) \/ Ownership!HandOver(t, b)
        \/ Ownership!Drop(t, b)
    BY <1>1, <2>1, <2>2, <2>7, <2>8
       DEF Ownership!GiveBack, Ownership!HandOver, Ownership!Drop,
           Ownership!Pass, Ownership!Pool, Ownership!Reader,
           Ownership!Caller, Ownership!Garbage
  <2> QED
    BY <2>1, <2>9 DEF Ownership!Next
<1> QED
  BY <1>2, <1>3

LEMMA StepImplemented ==
  IInv /\ IInv' /\ [Next]_vars => [Ownership!Next]_(Ownership!vars)
<1> SUFFICES ASSUME IInv, IInv', [Next]_vars
             PROVE  [Ownership!Next]_(Ownership!vars)
  OBVIOUS
<1>1. CASE UNCHANGED vars
  BY <1>1, OwnersUnchanged DEF vars
<1>2. CASE Next
  <2>1. PICK t \in Tasks : Call(t) \/ Cancel(t) \/ Step(t)
    BY <1>2 DEF Next
  <2>2. TypeOK
    BY DEF IInv
  <2>3. CASE Call(t) \/ Cancel(t)
    BY <2>3, OwnersUnchanged DEF Call, Cancel
  <2>4. CASE Lookup(t) \/ RangeInvalid(t)
    <3>1. CASE FileFound(t)
      BY <3>1, OwnersUnchanged DEF FileFound
    <3>2. CASE ~FileFound(t)
      <4>1. pc[t] \in {"lookup", "getBuffer"}
            /\ \E result \in {Null, Threw, Cancelled} : EndWith(t, result)
        BY <2>4, <3>2 DEF Lookup, FileMissing, FileEncrypted, CancelledEarly,
                          Found, RangeInvalid
      <4>2. raw[t] = NoBuffer
        BY <4>1 DEF IInv, RawOwned
      <4>3. UNCHANGED <<arrays, held, raw>>
        BY <2>2, <4>1, <4>2 DEF EndWith, End, arrays, TypeOK
      <4> QED
        BY <4>3, OwnersUnchanged
    <3> QED
      BY <3>1, <3>2
  <2>5. CASE NothingToRead(t) \/ DecodePart(t)
    BY <2>5, OwnersUnchanged DEF NothingToRead, DecodePart
  <2>6. CASE Rent(t) \/ Allocate(t)
    <3>1. PICK b \in Buffers :
            /\ StartReading(t, b) /\ pc[t] = "getBuffer"
            /\ pool[b] > 0 \/ origin[b] = "unused"
            /\ \/ pool' = [pool EXCEPT ![b] = @ - 1] /\ UNCHANGED origin
               \/ /\ UNCHANGED pool
                  /\ \/ origin' = [origin EXCEPT ![b] = "pool"]
                     \/ origin' = [origin EXCEPT ![b] = "heap"]
      BY <2>6 DEF Rent, Allocate
    <3>2. \A c \in Buffers \ {b} :
            pool'[c] = pool[c] /\ origin'[c] = origin[c]
      BY <2>2, <3>1 DEF TypeOK
    <3>3. Ownership!Take(t, b)
      BY <3>1, <3>2, TakeImplemented
    <3> QED
      BY <3>3 DEF Ownership!Next
  <2>7. CASE ReadPiece(t)
    <3>1. raw[t] # NoBuffer /\ raw[t] \in Buffers
      BY <2>2, <2>7 DEF IInv, ReadProgress, ReadPiece, TypeOK
    <3>2. OwnerOf(raw[t]) = [kind |-> "reader", reader |-> t]
      BY <3>1, OwnedByReader
    <3>3. UNCHANGED <<pool, origin, held, raw>>
      BY <2>7 DEF ReadPiece
    <3>4. \A b \in Buffers : OwnerOf(b)' = OwnerOf(b)
      BY <3>3 DEF OwnerOf
    <3>5. \A c \in Buffers \ {raw[t]} : content'[c] = content[c]
      BY <2>2, <2>7, <3>1 DEF ReadPiece, TypeOK
    <3>6. Ownership!Write(t, raw[t])
      BY <3>1, <3>2, <3>4, <3>5 DEF Ownership!Write, Ownership!Reader
    <3> QED
      BY <3>1, <3>6 DEF Ownership!Next
  <2>8. CASE ReadFails(t)
    <3>1. raw[t] # NoBuffer
      BY <2>8 DEF IInv, ReadProgress, ReadFails
    <3>2. PICK result \in {Threw, Cancelled} : End(t, result)
      BY <2>8 DEF ReadFails
    <3> QED
      BY <2>8, <3>1, <3>2, GiveUpImplemented DEF ReadFails
  <2>9. CASE DecodeBlock(t) /\ ~DecodePart(t)
    <3>1. \E result : Leave(t, result)
      BY <2>9 DEF DecodeBlock, DecodeEmpty, EmptyMismatch, ReturnView,
                  StoredMismatch, DecodeCorrupt, DecodeCancelled, DecodeDone
    <3>2. UNCHANGED <<arrays, held, raw>>
      BY <3>1 DEF Leave
    <3> QED
      BY <3>2, OwnersUnchanged
  <2>10. CASE Finally(t)
    <3>1. outcome[t].kind = "view" => raw[t] # NoBuffer /\ ~Rents(t)
      BY <2>10 DEF IInv, ReadProgress, Finally
    <3>2. End(t, outcome[t])
      BY <2>10 DEF Finally
    <3>3. \/ held' = held
          \/ /\ raw[t] # NoBuffer /\ ~Rents(t)
             /\ held' = held \cup {[buffer |-> raw[t], by |-> Me(t),
                                    units |-> block[t].compressedSize]}
      BY <2>10, <3>1 DEF Finally
    <3>4. IF Rents(t) /\ raw[t] # NoBuffer THEN ReturnToPool(raw[t])
                                          ELSE UNCHANGED pool
      BY <2>10 DEF Finally
    <3> QED
      BY <3>2, <3>3, <3>4, GiveUpImplemented
  <2> QED
    BY <2>1, <2>3, <2>4, <2>5, <2>6, <2>7, <2>8, <2>9, <2>10
       DEF Step, ReadRawData
<1> QED
  BY <1>1, <1>2

LEMMA InitImplemented == Init => Ownership!Init
BY ConstantsAssumption DEF Init, Ownership!Init, Ownership!Unused, OwnerOf,
                           ConstantsAssumption

(* The reads of all decodes together pass the arrays on as ArrayOwnership  *)
(* says: one owner at a time, written only by the read that owns it, never *)
(* again once a caller does.                                               *)
THEOREM OwnershipImplemented == Spec => ImplementsOwnership
BY InitImplemented, StepImplemented, InductiveInvariant, PTL
   DEF Spec, ImplementsOwnership, Ownership!Spec

-----------------------------------------------------------------------------
(* Loops.                                                                  *)

LEMMA LeastMember ==
  ASSUME NEW S \in SUBSET Nat, S # {}
  PROVE  \E d \in S : \A c \in S : d <= c
<1> DEFINE Less == { pair \in Nat \X Nat : pair[1] < pair[2] }
<1>1. IsWellFoundedOn(Less, Nat)
  BY NatLessThanWellFounded, Zenon DEF OpToRel
<1> HIDE DEF Less
<1>2. PICK d \in S : \A c \in S : ~(<<c, d>> \in Less)
  BY <1>1, WFMin, Zenon
<1>3. ASSUME NEW c \in S PROVE d <= c
  <2>1. c \in Nat /\ d \in Nat
    OBVIOUS
  <2>2. ~ (c < d)
    BY <1>2, <2>1 DEF Less
  <2> QED
    BY <2>1, <2>2
<1> QED
  BY <1>3

(* Induction up to a number, for the members of a set.                     *)
LEMMA UpTo ==
  ASSUME NEW N \in Nat, NEW P, 0 \in P, \A n \in 1 .. N : n - 1 \in P => n \in P
  PROVE  0 .. N \subseteq P /\ N \in P
<1>1. SUFFICES ASSUME (0 .. N) \ P # {} PROVE FALSE
  <2>1. N \in 0 .. N
    OBVIOUS
  <2> QED
    BY <2>1, Zenon
<1> DEFINE D == (0 .. N) \ P
<1>2. PICK d \in D : \A c \in D : d <= c
  <2>1. D \in SUBSET Nat /\ D # {}
    BY <1>1
  <2> HIDE DEF D
  <2> QED
    BY <2>1, LeastMember
<1>3. d \in 1 .. N /\ d - 1 \in 0 .. N
  OBVIOUS
<1>4. d - 1 \in P
  BY <1>2, <1>3
<1> QED
  BY <1>3, <1>4

(* A loop has run: what it has after each turn.                            *)
Runs(f, N, base, step) ==
  /\ f[0] = base
  /\ \A n \in 1 .. N : f[n] = step[n][f[n - 1]]

(* A loop whose turns make values from values has them after every turn.   *)
LEMMA LoopRuns ==
  ASSUME NEW N \in Nat, NEW S, NEW base \in S, NEW step \in [1 .. N -> [S -> S]]
  PROVE  \E f \in [0 .. N -> S] : Runs(f, N, base, step)
<1> DEFINE P == { n \in 0 .. N : \E f \in [0 .. n -> S] : Runs(f, n, base, step) }
<1>1. 0 \in P
  <2> DEFINE f == [i \in 0 .. 0 |-> base]
  <2>1. f \in [0 .. 0 -> S] /\ Runs(f, 0, base, step)
    BY DEF Runs
  <2> QED
    BY <2>1
<1>2. ASSUME NEW n \in 1 .. N, n - 1 \in P PROVE n \in P
  <2>1. PICK f \in [0 .. n - 1 -> S] : Runs(f, n - 1, base, step)
    BY <1>2
  <2> DEFINE next == step[n][f[n - 1]]
             g == [i \in 0 .. n |-> IF i = n THEN next ELSE f[i]]
  <2>2. next \in S
    OBVIOUS
  <2>3. g \in [0 .. n -> S]
    BY <2>2
  <2>4. Runs(g, n, base, step)
    <3>1. g[0] = base
      BY <2>1 DEF Runs
    <3>2. g[n] = step[n][g[n - 1]]
      BY <2>1
    <3>3. ASSUME NEW i \in 1 .. n, i # n PROVE g[i] = step[i][g[i - 1]]
      <4>1. i \in 1 .. n - 1 /\ i - 1 \in 0 .. n - 1
        BY <3>3
      <4>2. f[i] = step[i][f[i - 1]]
        BY <2>1, <4>1 DEF Runs
      <4>3. g[i] = f[i] /\ g[i - 1] = f[i - 1]
        BY <4>1
      <4> QED
        BY <4>2, <4>3
    <3> QED
      BY <3>1, <3>2, <3>3 DEF Runs
  <2> QED
    BY <2>3, <2>4
<1> HIDE DEF P
<1>3. 0 .. N \subseteq P
  BY <1>1, <1>2, UpTo
<1> QED
  BY <1>3 DEF P

-----------------------------------------------------------------------------
(* Archives.                                                               *)

Entries == {EmptyEntry, DeletedEntry} \union { FileEntry(name) : name \in Names }

AllArchives ==
  [start : [Names -> 0 .. Slots - 1], table : [0 .. Slots - 1 -> Entries],
   files : SUBSET Names]

(* The search for a name gets as far as a probe.                           *)
Reaches(table, start, name, probe) ==
  \A earlier \in 0 .. probe - 1 : ~EndsSearch(Probed(table, start, earlier), name)

(* What keeps a lookup exact, whatever is added and deleted: no file has   *)
(* two entries, one that was deleted has none, and the search for one that *)
(* is there comes by its entry before it ends.                             *)
OneEntry(a) ==
  \A name \in Names : \A i, k \in 0 .. Slots - 1 :
    a.table[i] = FileEntry(name) /\ a.table[k] = FileEntry(name) => i = k

NoneLeft(a) ==
  \A name \in Names \ a.files : \A k \in 0 .. Slots - 1 :
    a.table[k] # FileEntry(name)

AllReached(a) ==
  \A name \in a.files : \E probe \in 0 .. Slots - 1 :
    /\ Probed(a.table, a.start[name], probe) = FileEntry(name)
    /\ Reaches(a.table, a.start[name], name, probe)

SoundArchives == { a \in AllArchives : OneEntry(a) /\ NoneLeft(a) /\ AllReached(a) }

LEMMA EntriesDiffer ==
  /\ EmptyEntry # DeletedEntry /\ EmptyEntry # NoEntry /\ DeletedEntry # NoEntry
  /\ \A x \in Names : /\ FileEntry(x) # EmptyEntry /\ FileEntry(x) # DeletedEntry
                      /\ FileEntry(x) # NoEntry
                      /\ \A y \in Names : FileEntry(x) = FileEntry(y) => x = y
<1>1. /\ EmptyEntry.block = "empty" /\ DeletedEntry.block = "deleted"
      /\ NoEntry.block = "none"
  BY DEF EmptyEntry, DeletedEntry, NoEntry
<1>2. \A x \in Names : FileEntry(x).block = "file" /\ FileEntry(x).name = x
  BY DEF FileEntry
<1>3. \A x, y \in Names : FileEntry(x) = FileEntry(y) => x = y
  <2>1. SUFFICES ASSUME NEW x \in Names, NEW y \in Names, FileEntry(x) = FileEntry(y)
                 PROVE  x = y
    OBVIOUS
  <2>2. FileEntry(x).name = FileEntry(y).name
    BY <2>1
  <2> QED
    BY <1>2, <2>2
<1> QED
  BY <1>1, <1>2, <1>3

(* Slots are counted around.                                               *)
LEMMA AroundTheTable ==
  /\ \A x \in 0 .. Slots - 1 : x % Slots = x
  /\ \A x \in Slots .. 2 * Slots - 1 : x % Slots = x - Slots
<1>1. Slots \in Nat \ {0}
  BY TablesAssumption DEF TablesAssumption
<1>2. ASSUME NEW q \in Int, NEW r \in 0 .. Slots - 1
      PROVE  (q * Slots + r) % Slots = r
  BY <1>1
<1>3. ASSUME NEW x \in 0 .. Slots - 1 PROVE x % Slots = x
  <2>1. (0 * Slots + x) % Slots = x
    BY <1>2
  <2>2. 0 * Slots + x = x
    BY <1>1
  <2> QED
    BY <2>1, <2>2
<1>4. ASSUME NEW x \in Slots .. 2 * Slots - 1 PROVE x % Slots = x - Slots
  <2>1. x - Slots \in 0 .. Slots - 1
    BY <1>1
  <2>2. (1 * Slots + (x - Slots)) % Slots = x - Slots
    BY <1>2, <2>1
  <2>3. 1 * Slots + (x - Slots) = x
    BY <1>1
  <2> QED
    BY <2>2, <2>3
<1> QED
  BY <1>3, <1>4

LEMMA SlotOfProbe ==
  ASSUME NEW start \in 0 .. Slots - 1, NEW probe \in 0 .. Slots - 1
  PROVE  (start + probe) % Slots \in 0 .. Slots - 1
<1>1. Slots \in Nat \ {0}
  BY TablesAssumption DEF TablesAssumption
<1>2. start + probe \in 0 .. Slots - 1 \/ start + probe \in Slots .. 2 * Slots - 1
  BY <1>1
<1> QED
  BY <1>1, <1>2, AroundTheTable

(* The probe after one looks at the slot after its slot.                   *)
LEMMA NextProbe ==
  ASSUME NEW start \in 0 .. Slots - 1, NEW probe \in 0 .. Slots - 2
  PROVE  (start + (probe + 1)) % Slots = (((start + probe) % Slots) + 1) % Slots
<1>1. Slots \in Nat \ {0}
  BY TablesAssumption DEF TablesAssumption
<1>2. CASE start + probe + 1 \in 0 .. Slots - 1
  <2>1. start + probe \in 0 .. Slots - 1 /\ start + (probe + 1) = start + probe + 1
    BY <1>1, <1>2
  <2> QED
    BY <2>1, AroundTheTable
<1>3. CASE start + probe = Slots - 1
  <2>1. /\ start + probe \in 0 .. Slots - 1 /\ Slots \in Slots .. 2 * Slots - 1
        /\ start + (probe + 1) = Slots /\ (start + probe) + 1 = Slots
    BY <1>1, <1>3
  <2> QED
    BY <2>1, AroundTheTable
<1>4. CASE start + probe \in Slots .. 2 * Slots - 1
  <2>1. start + (probe + 1) \in Slots .. 2 * Slots - 1
    BY <1>1, <1>4
  <2>2. /\ (start + probe) % Slots = start + probe - Slots
        /\ (start + (probe + 1)) % Slots = start + (probe + 1) - Slots
    <3> DEFINE x == start + probe
               y == start + (probe + 1)
    <3>1. x \in Slots .. 2 * Slots - 1 /\ y \in Slots .. 2 * Slots - 1
      BY <1>4, <2>1
    <3> HIDE DEF x, y
    <3>2. x % Slots = x - Slots /\ y % Slots = y - Slots
      BY <3>1, AroundTheTable
    <3> QED
      BY <1>1, <3>2 DEF x, y
  <2>3. (start + probe - Slots) + 1 \in 0 .. Slots - 1
    BY <1>1, <1>4
  <2> QED
    BY <1>1, <2>2, <2>3, AroundTheTable
<1>5. \/ start + probe + 1 \in 0 .. Slots - 1 \/ start + probe = Slots - 1
      \/ start + probe \in Slots .. 2 * Slots - 1
  BY <1>1
<1> QED
  BY <1>2, <1>3, <1>4, <1>5

(* In a sound archive a lookup is exact.                                   *)
LEMMA SoundLookup ==
  ASSUME NEW a \in SoundArchives, NEW name \in Names
  PROVE  GetHashTableEntry(a.table, a.start[name], name)
           = IF name \in a.files THEN FileEntry(name) ELSE NoEntry
<1> DEFINE start == a.start[name]
           probes == { probe \in 0 .. Slots - 1 :
                         Reaches(a.table, start, name, probe) }
           read == { Probed(a.table, start, probe) : probe \in probes }
<1>1. a \in AllArchives /\ NoneLeft(a) /\ AllReached(a)
  BY DEF SoundArchives
<1>2. GetHashTableEntry(a.table, start, name)
        = IF FileEntry(name) \in read THEN FileEntry(name) ELSE NoEntry
  BY DEF GetHashTableEntry, Reaches
<1>3. start \in 0 .. Slots - 1
  BY <1>1 DEF AllArchives
<1>4. ASSUME name \in a.files PROVE FileEntry(name) \in read
  <2>1. PICK probe \in 0 .. Slots - 1 :
          /\ Probed(a.table, start, probe) = FileEntry(name)
          /\ Reaches(a.table, start, name, probe)
    BY <1>1, <1>4 DEF AllReached
  <2>2. probe \in probes
    BY <2>1
  <2> QED
    BY <2>1, <2>2
<1>5. ASSUME name \notin a.files PROVE FileEntry(name) \notin read
  <2>1. SUFFICES ASSUME NEW probe \in 0 .. Slots - 1,
                        Probed(a.table, start, probe) = FileEntry(name)
                 PROVE  FALSE
    OBVIOUS
  <2>2. (start + probe) % Slots \in 0 .. Slots - 1
    BY <1>3, <2>1, SlotOfProbe
  <2> QED
    BY <1>1, <1>5, <2>1, <2>2 DEF NoneLeft, Probed
<1> QED
  BY <1>2, <1>4, <1>5

(* A file that is added is found, and the others still are: its entry      *)
(* stands where none of them has its own.                                  *)
LEMMA AddedSound ==
  ASSUME NEW a \in SoundArchives, NEW name \in Names, NEW b \in WithFile(a, name)
  PROVE  b \in SoundArchives
<1> DEFINE start == a.start[name]
           free == { probe \in 0 .. Slots - 1 :
                       Probed(a.table, start, probe) \in {EmptyEntry, DeletedEntry} }
           first == { probe \in free : \A other \in free : probe <= other }
           With(probe) == [a EXCEPT !.table[(start + probe) % Slots] = FileEntry(name),
                                    !.files = @ \union {name}]
<1>1. /\ a \in AllArchives /\ OneEntry(a) /\ NoneLeft(a) /\ AllReached(a)
      /\ name \notin a.files
  BY DEF SoundArchives, WithFile
<1>2. PICK probe \in first : b = With(probe)
  <2>1. b \in { With(probe) : probe \in IF name \in a.files THEN {} ELSE first }
    BY DEF WithFile
  <2> HIDE DEF first, With
  <2> QED
    BY <1>1, <2>1
<1> DEFINE slot == (start + probe) % Slots
<1>3. /\ start \in 0 .. Slots - 1 /\ probe \in 0 .. Slots - 1
      /\ slot \in 0 .. Slots - 1
      /\ a.table[slot] \in {EmptyEntry, DeletedEntry}
      /\ a.files \subseteq Names
  <2>1. start \in 0 .. Slots - 1 /\ a.files \subseteq Names
    BY <1>1 DEF AllArchives
  <2>2. probe \in free
    BY <1>2
  <2> QED
    BY <2>1, <2>2, SlotOfProbe DEF Probed
<1>4. /\ b \in AllArchives /\ b.start = a.start /\ b.files = a.files \union {name}
      /\ \A k \in 0 .. Slots - 1 :
           b.table[k] = IF k = slot THEN FileEntry(name) ELSE a.table[k]
  <2> DEFINE entry == FileEntry(name)
             files == a.files \union {name}
  <2>1. entry \in Entries /\ files \in SUBSET Names
    BY <1>3 DEF Entries
  <2>2. b = [a EXCEPT !.table[slot] = entry, !.files = files]
    BY <1>1, <1>2 DEF AllArchives
  <2> HIDE DEF slot, entry, files
  <2>3. /\ b \in AllArchives /\ b.start = a.start /\ b.files = files
        /\ \A k \in 0 .. Slots - 1 :
             b.table[k] = IF k = slot THEN entry ELSE a.table[k]
    BY <1>1, <1>3, <2>1, <2>2 DEF AllArchives
  <2> QED
    BY <2>3 DEF entry, files
<1>5. \A i \in 0 .. Slots - 1 : \A x \in Names :
        b.table[i] = FileEntry(x) => IF x = name THEN i = slot
                                     ELSE i # slot /\ a.table[i] = FileEntry(x)
  <2> HIDE DEF slot
  <2>1. ASSUME NEW i \in 0 .. Slots - 1, NEW x \in Names, b.table[i] = FileEntry(x)
        PROVE  IF x = name THEN i = slot
               ELSE i # slot /\ a.table[i] = FileEntry(x)
    <3>1. CASE i = slot
      BY <1>4, <2>1, <3>1, EntriesDiffer
    <3>2. CASE i # slot
      <4>1. a.table[i] = FileEntry(x)
        BY <1>4, <2>1, <3>2
      <4>2. x # name
        BY <1>1, <4>1 DEF NoneLeft
      <4> QED
        BY <3>2, <4>1, <4>2
    <3> QED
      BY <3>1, <3>2
  <2> QED
    BY <2>1
<1> HIDE DEF slot
<1>6. OneEntry(b)
  BY <1>1, <1>5, Zenon DEF OneEntry
<1>7. NoneLeft(b)
  BY <1>1, <1>4, <1>5 DEF NoneLeft
<1>8. ASSUME NEW x \in b.files
      PROVE  \E p \in 0 .. Slots - 1 :
               /\ Probed(b.table, b.start[x], p) = FileEntry(x)
               /\ Reaches(b.table, b.start[x], x, p)
  <2>1. x \in Names /\ a.start[x] \in 0 .. Slots - 1
    BY <1>1, <1>3, <1>4, <1>8 DEF AllArchives
  <2>2. CASE x = name
    <3>1. Probed(b.table, b.start[x], probe) = FileEntry(x)
      BY <1>3, <1>4, <2>2 DEF Probed, slot
    <3>2. ASSUME NEW earlier \in 0 .. probe - 1
          PROVE  ~EndsSearch(Probed(b.table, start, earlier), name)
      <4>1. earlier \in 0 .. Slots - 1 /\ ~ (probe <= earlier)
        <5>1. Slots \in Nat \ {0}
          BY TablesAssumption DEF TablesAssumption
        <5> QED
          BY <1>3, <5>1
      <4>2. Probed(a.table, start, earlier) \notin {EmptyEntry, DeletedEntry}
        BY <1>2, <4>1
      <4> DEFINE k == (start + earlier) % Slots
      <4>3. k \in 0 .. Slots - 1 /\ a.table[k] \notin {EmptyEntry, DeletedEntry}
        BY <1>3, <4>1, <4>2, SlotOfProbe DEF Probed
      <4>4. a.table[k] # FileEntry(name)
        BY <1>1, <4>3 DEF NoneLeft
      <4>5. b.table[k] = a.table[k]
        <5>1. k # slot
          BY <1>3, <4>3
        <5> HIDE DEF k
        <5> QED
          BY <1>4, <4>3, <5>1
      <4>6. Probed(b.table, start, earlier) = a.table[k]
        BY <4>5 DEF Probed
      <4> HIDE DEF k
      <4> QED
        BY <4>3, <4>4, <4>6 DEF EndsSearch
    <3> QED
      BY <1>3, <1>4, <2>2, <3>1, <3>2 DEF Reaches
  <2>3. CASE x # name
    <3>1. x \in a.files
      BY <1>4, <1>8, <2>3
    <3>2. PICK p \in 0 .. Slots - 1 :
            /\ Probed(a.table, a.start[x], p) = FileEntry(x)
            /\ Reaches(a.table, a.start[x], x, p)
      BY <1>1, <3>1 DEF AllReached
    <3>3. Probed(b.table, a.start[x], p) = FileEntry(x)
      <4> DEFINE k == (a.start[x] + p) % Slots
      <4>1. k \in 0 .. Slots - 1 /\ a.table[k] = FileEntry(x)
        BY <2>1, <3>2, SlotOfProbe DEF Probed
      <4>2. k # slot
        <5> HIDE DEF k
        <5> QED
          BY <1>3, <2>1, <4>1, EntriesDiffer
      <4>3. b.table[k] = FileEntry(x)
        <5> HIDE DEF k
        <5> QED
          BY <1>4, <4>1, <4>2
      <4> QED
        BY <4>3 DEF Probed
    <3>4. ASSUME NEW earlier \in 0 .. p - 1
          PROVE  ~EndsSearch(Probed(b.table, a.start[x], earlier), x)
      <4> DEFINE k == (a.start[x] + earlier) % Slots
      <4>1. earlier \in 0 .. Slots - 1
        BY TablesAssumption DEF TablesAssumption
      <4>2. k \in 0 .. Slots - 1
        BY <2>1, <4>1, SlotOfProbe
      <4>3. ~EndsSearch(a.table[k], x)
        BY <3>2, <3>4 DEF Reaches, Probed
      <4> HIDE DEF k
      <4>4. ~EndsSearch(b.table[k], x)
        <5>1. CASE k = slot
          <6>1. b.table[k] = FileEntry(name)
            BY <1>4, <4>2, <5>1
          <6> QED
            BY <2>1, <2>3, <6>1, EntriesDiffer DEF EndsSearch
        <5>2. CASE k # slot
          BY <1>4, <4>2, <4>3, <5>2
        <5> QED
          BY <5>1, <5>2
      <4> USE DEF k
      <4> QED
        BY <4>4 DEF Probed
    <3> QED
      BY <1>4, <3>3, <3>4 DEF Reaches
  <2> QED
    BY <2>2, <2>3
<1>9. AllReached(b)
  BY <1>8, Zenon DEF AllReached
<1> QED
  BY <1>4, <1>6, <1>7, <1>9 DEF SoundArchives

(* A file that is deleted is no longer found, and the others still are: an *)
(* entry becomes empty only if no search goes on behind it.                *)
LEMMA DeletedSound ==
  ASSUME NEW a \in SoundArchives, NEW name \in Names, NEW b \in WithoutFile(a, name)
  PROVE  b \in SoundArchives
<1> DEFINE marked == { m \in (0 .. Slots - 1) \X {EmptyEntry, DeletedEntry} :
                         /\ a.table[m[1]] = FileEntry(name)
                         /\ m[2] = EmptyEntry =>
                              a.table[(m[1] + 1) % Slots] = EmptyEntry }
           Without(m) == [a EXCEPT !.table[m[1]] = m[2], !.files = @ \ {name}]
<1>1. a \in AllArchives /\ OneEntry(a) /\ NoneLeft(a) /\ AllReached(a)
  BY DEF SoundArchives
<1>2. PICK m \in marked : b = Without(m)
  <2>1. b \in { Without(m) : m \in marked }
    BY DEF WithoutFile
  <2> HIDE DEF marked, Without
  <2> QED
    BY <2>1
<1> DEFINE slot == m[1]
           mark == m[2]
<1>3. /\ slot \in 0 .. Slots - 1 /\ mark \in {EmptyEntry, DeletedEntry}
      /\ a.table[slot] = FileEntry(name)
      /\ mark = EmptyEntry => a.table[(slot + 1) % Slots] = EmptyEntry
  BY <1>2
<1>4. a.files \subseteq Names
  BY <1>1 DEF AllArchives
<1>5. /\ b \in AllArchives /\ b.start = a.start /\ b.files = a.files \ {name}
      /\ \A k \in 0 .. Slots - 1 :
           b.table[k] = IF k = slot THEN mark ELSE a.table[k]
  <2> DEFINE files == a.files \ {name}
  <2>1. mark \in Entries /\ files \in SUBSET Names
    BY <1>3, <1>4 DEF Entries
  <2>2. b = [a EXCEPT !.table[slot] = mark, !.files = files]
    BY <1>1, <1>2 DEF AllArchives
  <2> HIDE DEF slot, mark, files
  <2>3. /\ b \in AllArchives /\ b.start = a.start /\ b.files = files
        /\ \A k \in 0 .. Slots - 1 :
             b.table[k] = IF k = slot THEN mark ELSE a.table[k]
    BY <1>1, <1>3, <2>1, <2>2 DEF AllArchives
  <2> QED
    BY <2>3 DEF files
<1> HIDE DEF slot, mark, marked, Without
<1>6. \A i \in 0 .. Slots - 1 : \A x \in Names :
        b.table[i] = FileEntry(x) => i # slot /\ x # name /\ a.table[i] = FileEntry(x)
  <2>1. ASSUME NEW i \in 0 .. Slots - 1, NEW x \in Names, b.table[i] = FileEntry(x)
        PROVE  i # slot /\ x # name /\ a.table[i] = FileEntry(x)
    <3>1. i # slot
      BY <1>3, <1>5, <2>1, EntriesDiffer
    <3>2. a.table[i] = FileEntry(x)
      BY <1>5, <2>1, <3>1
    <3>3. x # name
      BY <1>1, <1>3, <2>1, <3>1, <3>2 DEF OneEntry
    <3> QED
      BY <3>1, <3>2, <3>3
  <2> QED
    BY <2>1
<1>7. OneEntry(b)
  BY <1>1, <1>6, Zenon DEF OneEntry
<1>8. NoneLeft(b)
  BY <1>1, <1>5, <1>6 DEF NoneLeft
<1>9. ASSUME NEW x \in b.files
      PROVE  \E p \in 0 .. Slots - 1 :
               /\ Probed(b.table, b.start[x], p) = FileEntry(x)
               /\ Reaches(b.table, b.start[x], x, p)
  <2>1. /\ x \in Names /\ x \in a.files /\ x # name
        /\ a.start[x] \in 0 .. Slots - 1
    BY <1>1, <1>4, <1>5, <1>9 DEF AllArchives
  <2>2. PICK p \in 0 .. Slots - 1 :
          /\ Probed(a.table, a.start[x], p) = FileEntry(x)
          /\ Reaches(a.table, a.start[x], x, p)
    BY <1>1, <2>1 DEF AllReached
  <2>3. Probed(b.table, a.start[x], p) = FileEntry(x)
    <3> DEFINE k == (a.start[x] + p) % Slots
    <3>1. k \in 0 .. Slots - 1 /\ a.table[k] = FileEntry(x)
      BY <2>1, <2>2, SlotOfProbe DEF Probed
    <3>2. b.table[k] = FileEntry(x)
      <4> HIDE DEF k
      <4>1. k # slot
        BY <1>3, <2>1, <3>1, EntriesDiffer
      <4> QED
        BY <1>5, <3>1, <4>1
    <3> QED
      BY <3>2 DEF Probed
  <2>4. ASSUME NEW earlier \in 0 .. p - 1
        PROVE  ~EndsSearch(Probed(b.table, a.start[x], earlier), x)
    <3> DEFINE k == (a.start[x] + earlier) % Slots
    <3>1. earlier \in 0 .. Slots - 2 /\ earlier + 1 \in 0 .. p
          /\ earlier \in 0 .. Slots - 1 /\ earlier + 1 \in 0 .. Slots - 1
      BY TablesAssumption DEF TablesAssumption
    <3>2. k \in 0 .. Slots - 1
      BY <2>1, <3>1, SlotOfProbe
    <3>3. ~EndsSearch(a.table[k], x)
      BY <2>2, <2>4 DEF Reaches, Probed
    <3>4. k = slot => mark # EmptyEntry
      <4>1. SUFFICES ASSUME k = slot, mark = EmptyEntry PROVE FALSE
        OBVIOUS
      <4>2. (a.start[x] + (earlier + 1)) % Slots = (k + 1) % Slots
        BY <2>1, <3>1, NextProbe
      <4>3. Probed(a.table, a.start[x], earlier + 1) = EmptyEntry
        <5>1. a.table[(k + 1) % Slots] = EmptyEntry
          BY <1>3, <4>1
        <5> HIDE DEF k
        <5> QED
          BY <4>2, <5>1 DEF Probed
      <4>4. CASE earlier + 1 = p
        BY <2>1, <2>2, <4>3, <4>4, EntriesDiffer
      <4>5. CASE earlier + 1 # p
        <5>1. earlier + 1 \in 0 .. p - 1
          BY <3>1, <4>5
        <5> QED
          BY <2>2, <4>3, <5>1 DEF Reaches, EndsSearch
      <4> QED
        BY <4>4, <4>5
    <3> HIDE DEF k
    <3>5. ~EndsSearch(b.table[k], x)
      <4>1. CASE k = slot
        <5>1. b.table[k] = DeletedEntry
          BY <1>3, <1>5, <3>2, <3>4, <4>1
        <5> QED
          BY <2>1, <5>1, EntriesDiffer DEF EndsSearch
      <4>2. CASE k # slot
        BY <1>5, <3>2, <3>3, <4>2
      <4> QED
        BY <4>1, <4>2
    <3> USE DEF k
    <3> QED
      BY <3>5 DEF Probed
  <2> QED
    BY <1>5, <2>3, <2>4 DEF Reaches
<1>10. AllReached(b)
  BY <1>9, Zenon DEF AllReached
<1> QED
  BY <1>5, <1>7, <1>8, <1>10 DEF SoundArchives

LEMMA ChangedSound ==
  ASSUME NEW a \in SoundArchives
  PROVE  Changed(a) \subseteq SoundArchives
<1>1. SUFFICES ASSUME NEW b \in Changed(a) PROVE b \in SoundArchives
  OBVIOUS
<1>2. PICK name \in Names : b \in WithFile(a, name) \union WithoutFile(a, name)
  BY Zenon DEF Changed
<1> QED
  BY <1>2, AddedSound, DeletedSound

LEMMA NewSound == NewArchives \subseteq SoundArchives
<1>1. SUFFICES ASSUME NEW a \in NewArchives PROVE a \in SoundArchives
  OBVIOUS
<1>2. a \in AllArchives /\ a.files = {}
  BY DEF NewArchives, AllArchives, Entries
<1>3. \A k \in 0 .. Slots - 1 : \A x \in Names : a.table[k] # FileEntry(x)
  <2>1. \A k \in 0 .. Slots - 1 : a.table[k] \in {EmptyEntry, DeletedEntry}
    BY DEF NewArchives
  <2> QED
    BY <2>1, EntriesDiffer
<1> QED
  BY <1>2, <1>3 DEF SoundArchives, OneEntry, NoneLeft, AllReached

(* Whatever is added and deleted, an archive stays sound.                  *)
LEMMA ArchivesSound == Archives[MaxChanges] \subseteq SoundArchives
<1> DEFINE After(A) == A \union UNION { Changed(a) : a \in A }
           step == [n \in 1 .. MaxChanges |->
                      [A \in SUBSET SoundArchives |-> After(A)]]
           Turn(h, n) == IF n = 0 THEN NewArchives ELSE After(h[n - 1])
           Is(h) == h = [n \in 0 .. MaxChanges |-> Turn(h, n)]
           g == CHOOSE h : Is(h)
<1>1. MaxChanges \in Nat /\ NewArchives \in SUBSET SoundArchives
  BY TablesAssumption, NewSound DEF TablesAssumption
<1>2. Archives = g
  BY DEF Archives
<1>3. ASSUME NEW A \in SUBSET SoundArchives
      PROVE  After(A) \in SUBSET SoundArchives
  <2>1. \A a \in A : Changed(a) \subseteq SoundArchives
    BY ChangedSound
  <2> QED
    BY <2>1
<1> HIDE DEF After, g
<1>4. step \in [1 .. MaxChanges -> [SUBSET SoundArchives -> SUBSET SoundArchives]]
  BY <1>3
<1>5. PICK f \in [0 .. MaxChanges -> SUBSET SoundArchives] :
        Runs(f, MaxChanges, NewArchives, step)
  <2> HIDE DEF step
  <2> QED
    BY <1>1, <1>4, LoopRuns
<1>6. ASSUME NEW n \in 1 .. MaxChanges PROVE f[n] = Turn(f, n)
  <2>1. n - 1 \in 0 .. MaxChanges /\ n # 0 /\ f[n - 1] \in SUBSET SoundArchives
    BY <1>1
  <2>2. f[n] = step[n][f[n - 1]]
    BY <1>5 DEF Runs
  <2> QED
    BY <2>1, <2>2
<1>7. f[0] = Turn(f, 0)
  BY <1>5 DEF Runs
<1> HIDE DEF Turn
<1>8. Is(f)
  <2>1. \A n \in 0 .. MaxChanges : f[n] = Turn(f, n)
    BY <1>1, <1>6, <1>7
  <2> QED
    BY <2>1
<1>9. Is(g)
  <2> HIDE DEF Is
  <2> QED
    BY <1>8, Zenon DEF g
<1>10. 0 .. MaxChanges \subseteq { n \in 0 .. MaxChanges : g[n] = f[n] }
  <2> DEFINE P == { n \in 0 .. MaxChanges : g[n] = f[n] }
  <2>1. 0 \in P
    BY <1>1, <1>8, <1>9 DEF Turn
  <2>2. ASSUME NEW n \in 1 .. MaxChanges, n - 1 \in P PROVE n \in P
    BY <1>1, <1>8, <1>9, <2>2 DEF Turn
  <2> HIDE DEF P
  <2>3. 0 .. MaxChanges \subseteq P
    BY <1>1, <2>1, <2>2, UpTo
  <2> QED
    BY <2>3, Zenon DEF P
<1>11. MaxChanges \in 0 .. MaxChanges
  BY <1>1
<1> QED
  BY <1>2, <1>5, <1>10, <1>11

(* However searches collide, and however full the table is: a file is      *)
(* found exactly if it was added and not deleted since (GetHashTableEntry).*)
THEOREM LookupIsExact == LookupExact
<1>1. ASSUME NEW a \in Archives[MaxChanges], NEW name \in Names
      PROVE  GetHashTableEntry(a.table, a.start[name], name)
               = IF name \in a.files THEN FileEntry(name) ELSE NoEntry
  BY ArchivesSound, SoundLookup
<1> QED
  BY <1>1 DEF LookupExact

-----------------------------------------------------------------------------
(* Declared ranges.                                                        *)

LEMMA Spans ==
  /\ IntSpan \in Nat /\ UintSpan \in Nat /\ UlongSpan \in Nat
  /\ IntSpan > 1 /\ UintSpan = 2 * IntSpan /\ 4 * IntSpan < UlongSpan
<1>1. IntSpan \in Nat /\ IntSpan > 1
  BY TablesAssumption DEF TablesAssumption
<1>2. UintSpan = 2 * IntSpan /\ UintSpan \in Nat
  BY <1>1 DEF UintSpan
<1>3. UlongSpan = 4 * (IntSpan * IntSpan)
  BY <1>1, <1>2 DEF UlongSpan
<1>4. IntSpan * IntSpan \in Nat /\ IntSpan < IntSpan * IntSpan
  BY <1>1
<1> QED
  BY <1>1, <1>2, <1>3, <1>4

(* A difference that is not below zero does not wrap.                      *)
LEMMA DifferenceExact ==
  ASSUME NEW a \in 0 .. UlongSpan - 1, NEW b \in 0 .. a
  PROVE  UlongMinus(a, b) = a - b
<1>1. UlongSpan \in Nat \ {0} /\ a - b \in 0 .. UlongSpan - 1
  BY Spans
<1> DEFINE d == a - b
           n == UlongSpan
<1> HIDE DEF d, n
<1>2. d % n = d
  <2>1. n \in Nat \ {0} /\ d \in 0 .. n - 1
    BY <1>1 DEF d, n
  <2>2. (0 * n + d) % n = d
    BY <2>1
  <2>3. 0 * n + d = d
    BY <2>1
  <2> QED
    BY <2>2, <2>3
<1> QED
  BY <1>2, Zenon DEF UlongMinus, d, n

(* ReadHeader and ReadTable let a table through exactly if it is where     *)
(* they may read it, for any header and any length of the stream.          *)
LEMMA TableReadExactly ==
  ASSUME NEW h,
         h.headerOffset \in UintValues, h.headerSize \in UintValues,
         h.archiveSize \in UintValues, h.entries \in UintValues,
         h.offset \in 0 .. UlongSpan - 1,
         NEW streamLength \in 0 .. UlongSpan - 1
  PROVE  LET size  == h.entries * EntrySize
             first == h.headerOffset + h.offset
             last  == first + size
             end   == h.headerOffset + h.archiveSize
         IN TableRead(h, streamLength) <=>
              /\ size < IntSpan
              /\ h.headerOffset + h.headerSize <= first
              /\ last <= end /\ end <= streamLength
<1> DEFINE start == h.headerOffset
           header == h.headerSize
           length == h.archiveSize
           offset == h.offset
           size == h.entries * EntrySize
<1>1. /\ start \in 0 .. UintSpan - 1 /\ header \in 0 .. UintSpan - 1
      /\ length \in 0 .. UintSpan - 1 /\ offset \in Nat
      /\ UintSpan \in Nat /\ UintSpan <= UlongSpan /\ UlongSpan \in Nat
      /\ IntSpan \in Nat /\ streamLength \in 0 .. UlongSpan - 1
  BY Spans DEF UintValues
<1>2. size \in Nat /\ h.entries <= size /\ h.entries \in Nat
  <2>1. h.entries \in Nat /\ EntrySize \in Nat \ {0}
    BY TablesAssumption, Spans DEF TablesAssumption, UintValues
  <2>2. h.entries * EntrySize = h.entries + h.entries * (EntrySize - 1)
    BY <2>1
  <2>3. h.entries * (EntrySize - 1) \in Nat
    BY <2>1
  <2> QED
    BY <2>1, <2>2, <2>3
<1> DEFINE Stream(o, l) == o <= streamLength /\ l <= streamLength - o
<1>3. ASSUME NEW o \in Nat, NEW l \in Nat
      PROVE  InStream(o, l, streamLength) <=> Stream(o, l)
  <2>1. CASE o <= streamLength
    <3>1. UlongMinus(streamLength, o) = streamLength - o
      BY <1>1, <2>1, DifferenceExact
    <3> QED
      BY <3>1 DEF InStream
  <2>2. CASE ~ (o <= streamLength)
    BY <2>2 DEF InStream
  <2> QED
    BY <2>1, <2>2
<1>4. offset <= length => UlongMinus(length, offset) = length - offset
  BY <1>1, DifferenceExact
<1>5. start \in Nat /\ start + offset \in Nat /\ length \in Nat
  BY <1>1
<1>6. /\ InStream(start, length, streamLength) <=> Stream(start, length)
      /\ InStream(start + offset, size, streamLength) <=> Stream(start + offset, size)
  <2> HIDE DEF Stream, start, offset, length, size
  <2> QED
    BY <1>2, <1>3, <1>5
<1>7. TableRead(h, streamLength) <=>
        /\ length >= header
        /\ Stream(start, length)
        /\ h.entries < IntSpan
        /\ offset >= header /\ offset <= length /\ size <= length - offset
        /\ size < IntSpan
        /\ Stream(start + offset, size)
  <2>1. TableDeclared(h) <=>
          /\ h.entries < IntSpan
          /\ offset >= header /\ offset <= length /\ size <= length - offset
    <3>1. CASE offset <= length
      BY <1>4, <3>1 DEF TableDeclared
    <3>2. CASE ~ (offset <= length)
      BY <3>2 DEF TableDeclared
    <3> QED
      BY <3>1, <3>2
  <2>2. InArchive(h, offset, size, streamLength) <=>
          /\ offset <= length /\ size <= length - offset
          /\ Stream(start + offset, size)
    <3>1. CASE offset <= length
      <4>1. UlongMinus(h.archiveSize, offset) = length - offset
        BY <1>4, <3>1
      <4> HIDE DEF offset, size, Stream
      <4> QED
        BY <1>6, <3>1, <4>1 DEF InArchive
    <3>2. CASE ~ (offset <= length)
      BY <3>2 DEF InArchive
    <3> QED
      BY <3>1, <3>2
  <2>3. TableRead(h, streamLength) <=>
          /\ length >= header
          /\ InStream(start, length, streamLength)
          /\ TableDeclared(h)
          /\ size < IntSpan
          /\ InArchive(h, offset, size, streamLength)
    BY DEF TableRead
  <2> HIDE DEF length, header, Stream, start, offset, size
  <2> QED
    BY <1>6, <2>1, <2>2, <2>3
<1>8. TableRead(h, streamLength) <=>
        /\ size < IntSpan
        /\ start + header <= start + offset
        /\ (start + offset) + size <= start + length
        /\ start + length <= streamLength
  <2> HIDE DEF length, header, start, offset, size
  <2> QED
    BY <1>1, <1>2, <1>7
<1> QED
  BY <1>8

(* A table is let through exactly if it lies behind the header, inside the *)
(* archive and inside the stream: no sum or difference of the checks wraps *)
(* (ValidateTableDeclaration, ValidateArchiveRange, EnsureStreamRange).    *)
THEOREM RangesAreExact == RangesExact
<1>1. ASSUME NEW h \in Headers
      PROVE  /\ h.headerOffset \in UintValues /\ h.headerSize \in UintValues
             /\ h.archiveSize \in UintValues /\ h.entries \in UintValues
             /\ h.offset \in 0 .. UlongSpan - 1
  <2>1. /\ h.headerOffset \in UintValues /\ h.headerSize \in UintValues
        /\ h.archiveSize \in UintValues /\ h.entries \in UintValues
        /\ h.offset \in 0 .. 2 * UintSpan
    BY DEF Headers
  <2> QED
    BY <2>1, Spans
<1>2. 0 .. 2 * UintSpan \subseteq 0 .. UlongSpan - 1
  BY Spans
<1>3. ASSUME NEW h \in Headers, NEW streamLength \in 0 .. 2 * UintSpan
      PROVE  LET size  == h.entries * EntrySize
                 first == h.headerOffset + h.offset
                 last  == first + size
                 end   == h.headerOffset + h.archiveSize
             IN TableRead(h, streamLength) <=>
                  /\ size < IntSpan
                  /\ h.headerOffset + h.headerSize <= first
                  /\ last <= end /\ end <= streamLength
  <2>1. streamLength \in 0 .. UlongSpan - 1
    BY <1>2
  <2> QED
    BY <1>1, <2>1, TableReadExactly
<1> QED
  BY <1>3 DEF RangesExact

-----------------------------------------------------------------------------
(* The sector table of a file.                                             *)

(* The positions that ReadSectorLayout accepts never decrease.             *)
LEMMA PositionsAscend ==
  ASSUME NEW n \in Nat, n > 0, NEW rawLength \in Int,
         NEW positions \in [1 .. n -> Int], LayoutRead(positions, rawLength)
  PROVE  /\ positions[1] = n * PositionSize /\ positions[n] = rawLength
         /\ \A i \in 1 .. n : \A k \in i .. n : positions[i] <= positions[k]
<1>1. Len(positions) = n
  OBVIOUS
<1>2. \A i \in 2 .. n : positions[i - 1] <= positions[i]
  <2> DEFINE previous == [i \in 1 .. n |->
                            IF i = 1 THEN n * PositionSize ELSE positions[i - 1]]
  <2>1. \A i \in 1 .. n : positions[i] >= previous[i]
    BY <1>1 DEF LayoutRead
  <2>2. ASSUME NEW i \in 2 .. n PROVE positions[i - 1] <= positions[i]
    <3>1. i \in 1 .. n /\ i # 1 /\ i - 1 \in 1 .. n
      OBVIOUS
    <3>2. previous[i] = positions[i - 1]
      BY <3>1
    <3>3. positions[i] >= previous[i]
      BY <2>1, <3>1
    <3> HIDE DEF previous
    <3> QED
      BY <3>1, <3>2, <3>3
  <2> QED
    BY <2>2
<1> DEFINE P == { k \in 0 .. n - 1 : \A i \in 1 .. n - k : positions[i] <= positions[i + k] }
<1>3. 0 \in P
  OBVIOUS
<1>4. ASSUME NEW k \in 1 .. n - 1, k - 1 \in P PROVE k \in P
  <2>1. ASSUME NEW i \in 1 .. n - k PROVE positions[i] <= positions[i + k]
    <3>1. /\ i \in 1 .. n - (k - 1) /\ i + (k - 1) \in 1 .. n
          /\ i + k \in 2 .. n /\ i + k - 1 = i + (k - 1) /\ i \in 1 .. n
      OBVIOUS
    <3>2. positions[i] <= positions[i + (k - 1)]
      BY <1>4, <3>1
    <3>3. positions[i + (k - 1)] <= positions[i + k]
      BY <1>2, <3>1
    <3>4. /\ positions[i] \in Int /\ positions[i + (k - 1)] \in Int
          /\ positions[i + k] \in Int
      BY <3>1
    <3> QED
      BY <3>2, <3>3, <3>4
  <2> QED
    BY <2>1
<1> HIDE DEF P
<1>5. 0 .. n - 1 \subseteq P
  <2>1. n - 1 \in Nat
    OBVIOUS
  <2> QED
    BY <1>3, <1>4, <2>1, UpTo
<1>6. ASSUME NEW i \in 1 .. n, NEW k \in i .. n PROVE positions[i] <= positions[k]
  <2>1. k - i \in 0 .. n - 1 /\ i \in 1 .. n - (k - i) /\ i + (k - i) = k
    OBVIOUS
  <2>2. k - i \in P
    BY <1>5, <2>1
  <2> QED
    BY <2>1, <2>2 DEF P
<1> QED
  BY <1>1, <1>6 DEF LayoutRead

(* The sectors of an accepted table share out what is behind the table,    *)
(* however many they are.                                                  *)
LEMMA SectorsShareOut ==
  ASSUME NEW n \in Nat, n > 1, NEW rawLength \in Int,
         NEW positions \in [1 .. n -> Int], LayoutRead(positions, rawLength)
  PROVE  /\ UNION { BytesOfSector(positions, i) : i \in 1 .. n - 1 }
              = n * PositionSize .. rawLength - 1
         /\ \A i, j \in 1 .. n - 1 :
              i < j => \A b \in BytesOfSector(positions, i),
                           c \in BytesOfSector(positions, j) : b < c
<1> DEFINE table == n * PositionSize
<1>1. /\ positions[1] = table /\ positions[n] = rawLength
      /\ \A i \in 1 .. n : \A k \in i .. n : positions[i] <= positions[k]
  BY PositionsAscend
<1>2. table \in Int
  BY <1>1
<1> HIDE DEF table
<1>3. ASSUME NEW i \in 1 .. n - 1, NEW b \in BytesOfSector(positions, i)
      PROVE  b \in table .. rawLength - 1
  <2>1. i \in 1 .. n /\ i + 1 \in 1 .. n /\ 1 \in 1 .. n /\ n \in 1 .. n
    OBVIOUS
  <2>2. /\ positions[1] <= positions[i] /\ positions[i + 1] <= positions[n]
        /\ positions[i] \in Int /\ positions[i + 1] \in Int
    BY <1>1, <2>1
  <2>3. b \in positions[i] .. positions[i + 1] - 1
    BY DEF BytesOfSector
  <2> QED
    BY <1>1, <1>2, <2>2, <2>3
<1>4. ASSUME NEW b \in table .. rawLength - 1
      PROVE  \E i \in 1 .. n - 1 : b \in BytesOfSector(positions, i)
  <2> DEFINE Behind == { i \in 1 .. n : b < positions[i] }
  <2>1. Behind \in SUBSET Nat /\ n \in Behind
    BY <1>1, <1>2
  <2>2. PICK d \in Behind : \A c \in Behind : d <= c
    <3> HIDE DEF Behind
    <3> QED
      BY <2>1, LeastMember
  <2>3. d # 1
    BY <1>1, <1>2, <2>2
  <2>4. d - 1 \in 1 .. n - 1 /\ d - 1 \in 1 .. n /\ (d - 1) + 1 = d
    BY <2>2, <2>3
  <2>5. d - 1 \notin Behind
    BY <2>2
  <2>6. positions[d - 1] <= b /\ b < positions[d]
    BY <1>2, <2>2, <2>4, <2>5
  <2>7. b \in BytesOfSector(positions, d - 1)
    BY <1>2, <2>2, <2>4, <2>6 DEF BytesOfSector
  <2> QED
    BY <2>4, <2>7
<1>5. ASSUME NEW i \in 1 .. n - 1, NEW j \in 1 .. n - 1, i < j,
             NEW b \in BytesOfSector(positions, i),
             NEW c \in BytesOfSector(positions, j)
      PROVE  b < c
  <2>1. i \in 1 .. n /\ i + 1 \in 1 .. n /\ j \in i + 1 .. n /\ j + 1 \in 1 .. n
    BY <1>5
  <2>2. /\ positions[i + 1] <= positions[j] /\ positions[i] \in Int
        /\ positions[i + 1] \in Int /\ positions[j] \in Int
        /\ positions[j + 1] \in Int
    BY <1>1, <2>1
  <2>3. /\ b \in positions[i] .. positions[i + 1] - 1
        /\ c \in positions[j] .. positions[j + 1] - 1
    BY DEF BytesOfSector
  <2> QED
    BY <2>2, <2>3
<1> DEFINE sectors == { BytesOfSector(positions, i) : i \in 1 .. n - 1 }
<1>6. UNION sectors = table .. rawLength - 1
  BY <1>3, <1>4, Zenon
<1> QED
  BY <1>5, <1>6 DEF table

(* A sector table that ReadSectorLayout accepts, and the raw data behind   *)
(* it, are shared out: no byte twice, none left out, none from behind the  *)
(* data of the file.                                                       *)
THEOREM SectorsAreExact == SectorsExact
<1>1. PositionSize \in Nat
  BY TablesAssumption DEF TablesAssumption
<1>2. ASSUME NEW n \in 2 .. 3, NEW rawLength \in 0 .. n * PositionSize + 2,
             NEW positions \in [1 .. n -> -1 .. n * PositionSize + 3],
             LayoutRead(positions, rawLength)
      PROVE  /\ UNION { BytesOfSector(positions, i) : i \in 1 .. n - 1 }
                  = n * PositionSize .. rawLength - 1
             /\ \A i, j \in 1 .. n - 1 :
                  i < j => \A b \in BytesOfSector(positions, i),
                               c \in BytesOfSector(positions, j) : b < c
  <2>1. n \in Nat /\ n > 1
    OBVIOUS
  <2>2. rawLength \in Int
    BY <1>1
  <2>3. positions \in [1 .. n -> Int]
    BY <1>1
  <2> QED
    BY <1>2, <2>1, <2>2, <2>3, SectorsShareOut
<1> QED
  BY <1>2 DEF SectorsExact

(* Every read of a file is made with tables that are exact.                *)
THEOREM ReadsHaveExactTables == Spec => []ReadsOnExactTables
<1>1. TablesExact
  BY LookupIsExact, RangesAreExact, SectorsAreExact DEF TablesExact
<1>2. Init => ReadsOnExactTables
  BY <1>1 DEF ReadsOnExactTables
<1>3. ReadsOnExactTables /\ [Next]_vars => ReadsOnExactTables'
  BY <1>1 DEF ReadsOnExactTables
<1> QED
  BY <1>2, <1>3, PTL DEF Spec

=============================================================================
