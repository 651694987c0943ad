---------------------------- MODULE ArchiveFiles ----------------------------
(***************************************************************************)
(* Reads of files out of archives: ArchiveRead, with the tables that       *)
(* MPQArchive has read before a file is asked for.                         *)
(***************************************************************************)
EXTENDS ArchiveReadRefinement, ArchiveTables

(* No read is made but with tables that are exact: GetHashTableEntry finds *)
(* the file that is asked for, ReadHeader and ReadTable let through what   *)
(* lies inside the archive, ReadSectorLayout what shares out the raw data. *)
ReadsOnExactTables == (\E t \in Tasks : pc[t] # "idle") => TablesExact

=============================================================================
