--------------------------- MODULE ArchiveTables ---------------------------
(***************************************************************************)
(* The tables of an MPQ archive, as MPQArchive reads them: the search in   *)
(* the hash table, the ranges that the header and the tables declare, and  *)
(* the sector table of a file.  They are read once and never change, so    *)
(* all of it is functions of their contents; ArchiveRead takes up where    *)
(* they end, with the block that was found.                                *)
(***************************************************************************)
EXTENDS Integers, Sequences, FiniteSets

CONSTANTS
  Names,       \* file names; a name stands for its two name hashes
  Slots,       \* entries of the hash table, a power of two
  MaxChanges,  \* bound: files added to and deleted from an archive
  IntSpan,     \* the numbers from 0 to int.MaxValue: 2^31
  EntrySize,   \* bytes of a table entry: 16
  PositionSize \* bytes of an entry of a sector table: 4

ASSUME TablesAssumption ==
  /\ Slots \in Nat \ {0} /\ MaxChanges \in Nat
  /\ IntSpan \in Nat /\ IntSpan > 1
  /\ EntrySize \in Nat \ {0} /\ PositionSize \in Nat

EmptyEntry       == [block |-> "empty"]     \* MpqHashEntryEmpty
DeletedEntry     == [block |-> "deleted"]   \* MpqHashEntryDeleted
NoEntry     == [block |-> "none"]      \* null
FileEntry(name) == [block |-> "file", name |-> name]

-----------------------------------------------------------------------------
(* The search in the hash table.                                           *)

(* The entry at a probe, for a name whose search begins at initialIndex.   *)
Probed(table, initialIndex, probe) == table[(initialIndex + probe) % Slots]

(* Bug: a deleted entry ends the search, too.                              *)
EndsSearchAtGap(entry, name) ==
  entry \in {EmptyEntry, DeletedEntry, FileEntry(name)}

EndsSearch(entry, name) == entry \in {EmptyEntry, FileEntry(name)}

(* GetHashTableEntry: it reads the entries up to the first that ends the   *)
(* search, and each at most once.                                          *)
GetHashTableEntry(table, initialIndex, name) ==
  LET probes == { probe \in 0 .. Slots - 1 :
                    \A earlier \in 0 .. probe - 1 :
                      ~EndsSearch(Probed(table, initialIndex, earlier), name) }
      read   == { Probed(table, initialIndex, probe) : probe \in probes }
  IN IF FileEntry(name) \in read THEN FileEntry(name) ELSE NoEntry

(* The writer of an archive: where the search for a name begins, the hash  *)
(* table, and the files it is meant to hold.  At first there are no files, *)
(* but there may be marks of earlier ones.                                 *)
NewArchives ==
  [start : [Names -> 0 .. Slots - 1],
   table : [0 .. Slots - 1 -> {EmptyEntry, DeletedEntry}], files : {{}}]

(* A file takes the first entry from its start on that holds none.         *)
WithFile(a, name) ==
  LET free  == { probe \in 0 .. Slots - 1 :
                   Probed(a.table, a.start[name], probe)
                     \in {EmptyEntry, DeletedEntry} }
      first == { probe \in free : \A other \in free : probe <= other }
  IN { [a EXCEPT !.table[(a.start[name] + probe) % Slots] = FileEntry(name),
                 !.files = @ \union {name}] :
       probe \in IF name \in a.files THEN {} ELSE first }

(* Its entry is marked as deleted, or as empty where no search passes it.  *)
WithoutFile(a, name) ==
  LET marked == { m \in (0 .. Slots - 1) \X {EmptyEntry, DeletedEntry} :
                    /\ a.table[m[1]] = FileEntry(name)
                    /\ m[2] = EmptyEntry =>
                         a.table[(m[1] + 1) % Slots] = EmptyEntry }
  IN { [a EXCEPT !.table[m[1]] = m[2], !.files = @ \ {name}] : m \in marked }

Changed(a) == UNION { WithFile(a, name) \union WithoutFile(a, name) : name \in Names }

Archives[n \in 0 .. MaxChanges] ==
  IF n = 0 THEN NewArchives
  ELSE LET earlier == Archives[n - 1]
       IN earlier \union UNION { Changed(a) : a \in earlier }

-----------------------------------------------------------------------------
(* Declared ranges.  Numbers are unsigned: a difference below zero wraps.  *)

UintSpan  == 2 * IntSpan
UlongSpan == UintSpan * UintSpan
UintValues  == 0 .. UintSpan - 1
UlongMinus(a, b) == (a - b) % UlongSpan

(* EnsureStreamRange.                                                      *)
InStream(offset, length, streamLength) ==
  /\ offset <= streamLength
  /\ length <= UlongMinus(streamLength, offset)

(* ValidateTableDeclaration.                                               *)
TableDeclared(h) ==
  /\ h.entries < IntSpan
  /\ h.offset >= h.headerSize
  /\ h.offset <= h.archiveSize
  /\ h.entries * EntrySize <= UlongMinus(h.archiveSize, h.offset)

(* ValidateArchiveRange.                                                   *)
InArchive(h, offset, length, streamLength) ==
  /\ offset <= h.archiveSize
  /\ length <= UlongMinus(h.archiveSize, offset)
  /\ InStream(h.headerOffset + offset, length, streamLength)

(* ReadHeader and ReadTable let the table through; the size of the table   *)
(* is a checked int.                                                       *)
TableRead(h, streamLength) ==
  /\ h.archiveSize >= h.headerSize
  /\ InStream(h.headerOffset, h.archiveSize, streamLength)
  /\ TableDeclared(h)
  /\ h.entries * EntrySize < IntSpan
  /\ InArchive(h, h.offset, h.entries * EntrySize, streamLength)

-----------------------------------------------------------------------------
(* The sector table of a file.                                             *)

(* ReadSectorLayout accepts these positions; it reads them from the raw    *)
(* data, of which only rawLength bytes are the file's.                     *)
LayoutRead(positions, rawLength) ==
  LET tableSize == Len(positions) * PositionSize
      previous  == [i \in 1 .. Len(positions) |->
                      IF i = 1 THEN tableSize ELSE positions[i - 1]]
  IN /\ rawLength >= tableSize
     /\ \A i \in 1 .. Len(positions) :
          positions[i] >= previous[i] /\ positions[i] <= rawLength
     /\ positions[1] = tableSize
     /\ positions[Len(positions)] = rawLength

-----------------------------------------------------------------------------
(* Properties.                                                             *)

(* A file that was added and not deleted since is found, and no other,     *)
(* whichever way the searches of the names collide, and also when no entry *)
(* is empty any more.                                                      *)
LookupExact ==
  \A a \in Archives[MaxChanges] : \A name \in Names :
    GetHashTableEntry(a.table, a.start[name], name)
      = IF name \in a.files THEN FileEntry(name) ELSE NoEntry

(* A table is read exactly if an int counts its bytes and they are behind  *)
(* the header, inside the archive and inside the stream, counted without a *)
(* bound.                                                                  *)
Headers == [headerOffset : UintValues, headerSize : UintValues,
            archiveSize : UintValues, offset : 0 .. 2 * UintSpan,
            entries : UintValues]

RangesExact ==
  \A h \in Headers : \A streamLength \in 0 .. 2 * UintSpan :
    LET size   == h.entries * EntrySize
        first  == h.headerOffset + h.offset
        last   == first + size
        end    == h.headerOffset + h.archiveSize
    IN TableRead(h, streamLength) <=>
         /\ size < IntSpan
         /\ h.headerOffset + h.headerSize <= first
         /\ last <= end /\ end <= streamLength

(* The sectors of an accepted table, and the checksums behind them, share  *)
(* out the raw data behind the table: no byte twice, none left out, none   *)
(* of another file that is still in the rented array.                      *)
BytesOfSector(positions, i) == positions[i] .. positions[i + 1] - 1

SectorsExact ==
  \A n \in 2 .. 3 : \A rawLength \in 0 .. n * PositionSize + 2 :
    \A positions \in [1 .. n -> -1 .. n * PositionSize + 3] :
      LayoutRead(positions, rawLength) =>
        /\ UNION { BytesOfSector(positions, i) : i \in 1 .. n - 1 }
             = n * PositionSize .. rawLength - 1
        /\ \A i, j \in 1 .. n - 1 :
             i < j => \A b \in BytesOfSector(positions, i),
                          c \in BytesOfSector(positions, j) : b < c

TablesExact == LookupExact /\ RangesExact /\ SectorsExact

=============================================================================
