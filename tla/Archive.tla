------------------------------ MODULE Archive -------------------------------
(***************************************************************************)
(* What becomes of the tables in an export directory or a dump: the choice *)
(* of tables by export, the archive that dump packs of its files, what     *)
(* restore unpacks of it, and what import takes for a table.  Each tool is *)
(* a function of its input and of where it is stopped; how run_clients and *)
(* import_tables do their work is the subject of Export and Import.        *)
(***************************************************************************)
LOCAL INSTANCE Integers
LOCAL INSTANCE SequencesExt

(* A table is <<database, name>>; a filter is a set of these, or of        *)
(* <<database, "all">>, and empty if the option was not given.             *)
Chosen(t, filter) == filter = {} \/ \E f \in filter : f[1] = t[1] /\ f[2] \in {"all", t[2]}

File(t, ext) == [table |-> t, ext |-> ext]
InfoOf(file) == File(file.table, "info")

-----------------------------------------------------------------------------
(* The files of a table whose export got as far as `reach': its client has *)
(* written neither file, the info file (or a part of it), or has also had  *)
(* the data file opened.                                                   *)
Reach == {"nothing", "info", "data"}
Written(t, format, reach) ==
    {File(t, ext) : ext \in CASE reach = "nothing" -> {}
                              [] reach = "info"    -> {"info"}
                              [] reach = "data"    -> {"info", format}}

(* run of _export.py: the tables, a working directory, run_clients (which  *)
(* ends well or raises), and the renaming of the directory.  run_clients   *)
(* may end well although a client has died outside its try, or with an     *)
(* error that nobody read; so `reached' says of each table how far it got. *)
(* After an error the working directory is left ("partial").               *)
Selected(all, filter) == {t \in all : Chosen(t, filter)}
NotFound(all, dbs, filter) ==
    \E f \in filter : f[1] \notin dbs \/ (f[2] # "all" /\ f \notin all)

ExportRun(all, dbs, filter, format, ok, reached) ==
    LET missing == NotFound(all, dbs, filter)
    IN  IF missing \/ ~ok
        THEN [exit |-> 1, files |-> {}, partial |-> ~missing]
        ELSE [exit |-> 0, partial |-> FALSE,
              files |-> UNION {Written(t, format, reached[t]) : t \in Selected(all, filter)}]

(* main of _dump.py, over the files in the order of os.walk.  An error or  *)
(* a Ctrl-C at the k-th file, or in its midst (which leaves it "torn"),    *)
(* closes the archive like a complete one; a crash leaves it as it is      *)
(* ("cut"), and the temporary directory.                                   *)
Dump(export, order, stop) ==
    LET n == IF stop.how = "no" THEN Len(order) ELSE IF stop.midst THEN stop.at ELSE stop.at - 1
    IN  IF export.exit = 1
        THEN [exit |-> 1, archive |-> <<>>, torn |-> {}, cut |-> FALSE, left |-> export.partial]
        ELSE [exit    |-> IF stop.how = "no" THEN 0 ELSE 1,
              archive |-> SubSeq(order, 1, n),
              torn    |-> IF stop.midst THEN {order[n]} ELSE {},
              cut     |-> stop.how = "crash",
              left    |-> stop.how = "crash"]

-----------------------------------------------------------------------------
(* Mutant: a data file is taken for a table also without its info file.    *)
SourcesUninformed(dir, filter) ==
    {f \in dir : f.ext \in {"json", "csv"} /\ Chosen(f.table, filter)}

(* parse_sources of _import.py, of a directory.                            *)
Sources(dir, filter) ==
    {f \in dir : f.ext \in {"json", "csv"} /\ InfoOf(f) \in dir /\ Chosen(f.table, filter)}

(* do_unzip and do_restore.  At a torn file or the end of a cut archive    *)
(* tarfile (external) raises, or fills up the file and sees a regular end. *)
(* parse_info_file raises for a torn info file of a table.                 *)
Restore(dump, filter, raises) ==
    LET dir == {f \in ToSet(dump.archive) : f.ext \in {"json", "csv", "info"} /\ Chosen(f.table, filter)}
        sources == Sources(dir, filter)
    IN  IF \/ raises /\ (dump.cut \/ dump.torn # {})
           \/ dir = {}
           \/ \E f \in sources : InfoOf(f) \in dump.torn
        THEN [exit |-> 1, sources |-> {}]
        ELSE [exit |-> 0, sources |-> sources]

-----------------------------------------------------------------------------
Dbs     == {"d", "e"}
Servers == {{}, {<<"d", "t">>}, {<<"d", "t">>, <<"d", "u">>}, {<<"d", "t">>, <<"e", "t">>}}
Filters == {{}, {<<"d", "all">>}, {<<"d", "t">>}, {<<"e", "t">>, <<"d", "u">>}, {<<"x", "all">>}}
Stops(n) ==
    {[how |-> "no", at |-> 0, midst |-> FALSE]}
    \cup [how : {"error", "crash"}, at : 1 .. n, midst : BOOLEAN]

(* A dump that reports success is restored to the tables that were asked   *)
(* for, less those that the export has lost without saying so before it    *)
(* opened their data files (LossReported of Export says which losses these *)
(* are, and that a data file may lack rows for the same reasons); restore  *)
(* fails only if it has no file at all.  A dump that was stopped anywhere  *)
(* may be restored in part, and as if it were complete.  Whatever happened *)
(* no table is restored without what its info file says (primary key,      *)
(* indexes, write hook), and at most one from a file that the dump cut,    *)
(* which is the last one in the archive.                                   *)
DumpFaithful ==
    \A all \in Servers, kept \in Filters, wanted \in Filters, ok \in BOOLEAN :
    \A reached \in [Selected(all, kept) -> Reach] :
        LET export == ExportRun(all, Dbs, kept, "json", ok, reached) IN
        \A order \in SetToSeqs(export.files) : \A stop \in Stops(Len(order)) :
            LET dump   == Dump(export, order, stop)
                tables == Selected(Selected(all, kept), wanted)
            IN
            /\ dump.left => dump.exit = 1
            /\ \A raises \in BOOLEAN :
                  LET r == Restore(dump, wanted, raises) IN
                  /\ dump.exit = 0 =>
                        /\ {f.table : f \in r.sources} = {t \in tables : reached[t] = "data"}
                        /\ r.exit = 0 <=> \E t \in tables : reached[t] # "nothing"
                  /\ \A f \in r.sources : /\ f.table \in tables
                                          /\ InfoOf(f) \in ToSet(dump.archive) \ dump.torn
                                          /\ f \in dump.torn => f = Last(dump.archive)

(* import finds in an export directory each table whose data file is       *)
(* there, unless it is in the format that export can write and import      *)
(* cannot read: of these it finds none, and says so only in its list of    *)
(* ignored files.                                                          *)
ExportFaithful ==
    \A all \in Servers, kept \in Filters, wanted \in Filters, format \in {"json", "csv", "ndjson"} :
    \A reached \in [Selected(all, kept) -> Reach] :
        LET export == ExportRun(all, Dbs, kept, format, TRUE, reached) IN
        export.exit = 0 =>
            {f.table : f \in Sources(export.files, wanted)} =
                {t \in Selected(Selected(all, kept), wanted) : reached[t] = "data" /\ format # "ndjson"}

ArchiveFaithful == DumpFaithful /\ ExportFaithful
=============================================================================
