------------------------------ MODULE MCExport ------------------------------
(* Model-checking instance of Export: two tables, so that two clients      *)
(* compete for one slot or run side by side.                               *)
EXTENDS Export, Archive

(* What run() and the tools around it make of a run_clients that ends well *)
(* or raises: in the archive that dump packs of its files, and in these,   *)
(* restore and import find the tables that were asked for and that the     *)
(* export has not lost without a word.  (Looked at once, for every loss,   *)
(* before a client is started.)                                            *)
TablesFound == arg_lists = Table => ArchiveFaithful
=============================================================================
