--------------------------- MODULE MCArchiveRead ---------------------------
(***************************************************************************)
(* Instances of ArchiveRead for TLC.  The block table entries are one of   *)
(* each sort that ReadFile distinguishes.                                  *)
(* The tables of the archive are those of every writer, within the bounds. *)
(***************************************************************************)
EXTENDS ArchiveReadProofs, TLC

Entry(single, compress, csize, fsize) ==
  [exists |-> TRUE, encrypted |-> FALSE, singleUnit |-> single,
   compress |-> compress, compressedSize |-> csize, fileSize |-> fsize,
   sound |-> TRUE]

Missing   == [Entry(TRUE, TRUE, 1, 1) EXCEPT !.exists = FALSE]
Encrypted == [Entry(TRUE, TRUE, 1, 1) EXCEPT !.encrypted = TRUE]

(* Stored; compressed flag but incompressible (decompressed when forced);  *)
(* a stored unit of the wrong length; two sectors, sound and torn; no      *)
(* bytes at all; no bytes on one side only.                                *)
Stored         == Entry(TRUE, FALSE, 1, 1)
Incompressible == Entry(TRUE, TRUE, 2, 2)
WrongLength    == Entry(TRUE, FALSE, 2, 1)
Sectors        == Entry(FALSE, TRUE, 2, 2)
TornSectors    == [Sectors EXCEPT !.sound = FALSE]
NoBytes        == Entry(TRUE, FALSE, 0, 0)
HalfEmpty      == Entry(FALSE, TRUE, 1, 0)

(* The entries whose reads get an array and use it.                        *)
BufferBlocks == {Stored, Incompressible, TornSectors}

(* The entries that end a read in all the other ways.                      *)
EndingBlocks == {Missing, Encrypted, WrongLength, Sectors, TornSectors,
                 NoBytes, HalfEmpty}

ReadSymmetry == Permutations(Buffers) \cup Permutations(Tasks)

=============================================================================
