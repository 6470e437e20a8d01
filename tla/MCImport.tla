------------------------------ MODULE MCImport ------------------------------
(* Model-checking instance of Import: one file of two batches, so that     *)
(* both writers are busy and a batch can be written in part, and an empty  *)
(* one, whose reader competes with the other.                              *)
EXTENDS Import, TableFile, TLC

CONSTANTS t1, t2

Rows == t1 :> 3 @@ t2 :> 0

(* Import takes a file for the rows in it.  These are what the readers of  *)
(* _import.py find in a file, and what the writers of _export.py put there.*)
(* (Looked at once, when the import begins.)                               *)
RowsFound == main = "setup" => FilesFaithful
=============================================================================
