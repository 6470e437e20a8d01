---------------------------- MODULE IndexRebuild ----------------------------
(***************************************************************************)
(* The index-rebuild tool, _index_rebuild.py: outdated secondary indexes   *)
(* are built again under a temporary name and then renamed over the old    *)
(* ones, a few at a time.  The tool may die at any point and be run again; *)
(* a query that fails after five tries ends it as well, whether or not the *)
(* server has executed it.                                                 *)
(*                                                                         *)
(* The server (external) keeps the indexes: what an index computes is      *)
(* given by the name of the index it was first created as.                 *)
(***************************************************************************)
EXTENDS Naturals, FiniteSets

CONSTANTS
    Index,            \* the secondary indexes, of all tables
    Concurrent,       \* options.concurrent
    MaxRuns           \* bound: times the tool is run

None == "None"

ASSUME IndexRebuildAssumption ==
    /\ IsFiniteSet(Index) /\ None \notin Index
    /\ Concurrent \in Nat \ {0}
    /\ MaxRuns \in Nat

VARIABLES
    \* The server
    function,        \* what the index of that name computes; None if there is none
    outdated, ready, \* of the indexes under their own names
    temp,            \* what the temporary index computes; None if there is none
    temp_ready,
    dropped,         \* indexes their owner has dropped
    \* The tool
    stage,           \* "idle", "select", "wipe", "list", "fill", "create", "poll" or "rename"
    force,           \* options.force
    selected,        \* the indexes of options.db_table
    runs,
    result,          \* "none", "success" or "failed", of the last run
    killed,          \* the last run was killed, or a query of it failed
    to_build, in_progress,
    current,         \* the index of the query that comes next
    pending          \* indexes whose status this pass has still to look at

server == <<function, outdated, ready, temp, temp_ready, dropped>>
tool   == <<stage, force, selected, runs, result, killed, to_build, in_progress, current, pending>>
rebuildVars == <<server, tool>>

RebuildInit ==
    /\ function = [i \in Index |-> i]
    /\ outdated \in [Index -> BOOLEAN]
    /\ ready = [i \in Index |-> TRUE]
    /\ temp = [i \in Index |-> None]
    /\ temp_ready = [i \in Index |-> FALSE]
    /\ dropped = {}
    /\ stage = "idle" /\ force = FALSE /\ selected = {}
    /\ runs = 0 /\ result = "none" /\ killed = FALSE
    /\ to_build = {} /\ in_progress = {} /\ current = None /\ pending = {}

Exists(i) == function[i] # None
Building == {"fill", "create", "poll", "rename"}
Leftovers == {i \in selected : temp[i] # None}

-----------------------------------------------------------------------------
(* The tool is started.                                                    *)
Run ==
    /\ stage = "idle" /\ runs < MaxRuns
    /\ runs' = runs + 1
    /\ force' \in BOOLEAN /\ selected' = {}
    /\ stage' = "select" /\ result' = "none" /\ killed' = FALSE
    /\ to_build' = {} /\ in_progress' = {} /\ current' = None /\ pending' = {}
    /\ UNCHANGED server

End(r) == stage' = "idle" /\ result' = r

(* The tables to work on: all, or those named, or those of a database, for *)
(* which `del options.db_table[db_table]' raises TypeError.                *)
Select ==
    /\ stage = "select"
    /\ \/ selected' \in SUBSET Index /\ stage' = "wipe" /\ UNCHANGED result
       \/ selected' = {} /\ End("failed")
    /\ UNCHANGED <<server, force, runs, killed, to_build, in_progress, current, pending>>

(* Temporary indexes of earlier runs are to be dropped, but index["db"] of *)
(* the first one found raises TypeError, as index_list() returns strings.  *)
Wipe ==
    /\ stage = "wipe"
    /\ IF Leftovers # {} THEN End("failed") ELSE stage' = "list" /\ UNCHANGED result
    /\ UNCHANGED <<server, force, selected, runs, killed, to_build, in_progress, current, pending>>

List ==
    /\ stage = "list"
    /\ to_build' = {i \in selected : Exists(i) /\ (force \/ outdated[i])}
    /\ stage' = "fill"
    /\ UNCHANGED <<server, force, selected, runs, result, killed, in_progress, current, pending>>

(* The outer loop ends when it is `over', or the next index is taken up,   *)
(* or the progress of those taken up is looked at.                         *)
FillLoop(over) ==
    /\ stage = "fill"
    /\ IF to_build # {} /\ Cardinality(in_progress) < Concurrent
       THEN \E i \in to_build :
               /\ to_build' = to_build \ {i}
               /\ in_progress' = in_progress \cup {i}
               /\ current' = i /\ stage' = "create"
               /\ UNCHANGED <<result, pending>>
       ELSE /\ IF over THEN End("success") ELSE stage' = "poll" /\ UNCHANGED result
            /\ pending' = in_progress
            /\ UNCHANGED <<to_build, in_progress, current>>
    /\ UNCHANGED <<server, force, selected, runs, killed>>

AllDone == to_build \cup in_progress = {}

(* Mutant: the loop ends when there is nothing left to start.              *)
FillEndsEarly == FillLoop(to_build = {})

Fill == FillLoop(AllDone)

(* The index is looked up, which fails if it has been dropped since, and   *)
(* its temporary copy created with the function found.                     *)
Create ==
    /\ stage = "create"
    /\ IF Exists(current)
       THEN /\ stage' = "fill"
            /\ IF temp[current] = None
               THEN /\ temp' = [temp EXCEPT ![current] = function[current]]
                    /\ temp_ready' = [temp_ready EXCEPT ![current] = FALSE]
               ELSE UNCHANGED <<temp, temp_ready>>
            /\ UNCHANGED result
       ELSE End("failed") /\ UNCHANGED <<temp, temp_ready>>
    /\ UNCHANGED <<function, outdated, ready, dropped, force, selected, runs, killed, to_build,
                   in_progress, current, pending>>

(* index_status of the next temporary index.                               *)
Poll ==
    /\ stage = "poll"
    /\ \E i \in pending :
          /\ pending' = pending \ {i}
          /\ current' = i
          /\ stage' = IF temp_ready[i] THEN "rename" ELSE "poll"
    /\ UNCHANGED <<server, force, selected, runs, result, killed, to_build, in_progress>>

PollDone ==
    /\ stage = "poll" /\ pending = {}
    /\ stage' = "fill"
    /\ UNCHANGED <<server, force, selected, runs, result, killed, to_build, in_progress, current,
                   pending>>

(* index_rename(overwrite=True): one step of the server.                   *)
RenameTo(name, done) ==
    /\ stage = "rename"
    /\ function' = [function EXCEPT ![name] = temp[name]]
    /\ outdated' = [outdated EXCEPT ![name] = FALSE]
    /\ ready' = [ready EXCEPT ![name] = temp_ready[name]]
    /\ temp' = [temp EXCEPT ![name] = None]
    /\ temp_ready' = [temp_ready EXCEPT ![name] = FALSE]
    /\ in_progress' = in_progress \ done
    /\ stage' = "poll"
    /\ UNCHANGED <<dropped, force, selected, runs, result, killed, to_build, current, pending>>

(* Mutants: the old index is dropped before the new one gets its name; an  *)
(* index that has been renamed is looked at again.                         *)
RenameAfterDrop ==
    IF stage = "rename" /\ Exists(current)
    THEN /\ function' = [function EXCEPT ![current] = None]
         /\ UNCHANGED <<outdated, ready, temp, temp_ready, dropped, tool>>
    ELSE RenameTo(current, {current})
RenameKeepsGoing == RenameTo(current, {})

Rename == RenameTo(current, {current})

(* The tool is killed, or a query fails for good, or its answer is lost:   *)
(* then this step follows the one of the query.                            *)
RunDies ==
    /\ stage # "idle"
    /\ End("failed") /\ killed' = TRUE
    /\ UNCHANGED <<server, force, selected, runs, to_build, in_progress, current, pending>>

-----------------------------------------------------------------------------
(* The server builds a temporary index.                                    *)
Build(i) ==
    /\ temp[i] # None /\ ~temp_ready[i]
    /\ temp_ready' = [temp_ready EXCEPT ![i] = TRUE]
    /\ UNCHANGED <<function, outdated, ready, temp, dropped, tool>>

(* The owner of an index drops it, at any moment.                          *)
Drop(i) ==
    /\ Exists(i)
    /\ function' = [function EXCEPT ![i] = None]
    /\ dropped' = dropped \cup {i}
    /\ UNCHANGED <<outdated, ready, temp, temp_ready, tool>>

-----------------------------------------------------------------------------
ToolStep == Select \/ Wipe \/ List \/ Fill \/ Create \/ Poll \/ PollDone \/ Rename

RebuildNext ==
    \/ Run \/ ToolStep \/ RunDies
    \/ \E i \in Index : Build(i) \/ Drop(i)

RebuildSpec == RebuildInit /\ [][RebuildNext]_rebuildVars

(* The tool runs on, and the server goes on building.                      *)
FairRebuildSpec ==
    /\ RebuildSpec
    /\ WF_rebuildVars(ToolStep)
    /\ \A i \in Index : WF_rebuildVars(Build(i))

-----------------------------------------------------------------------------
RebuildTypeOK ==
    /\ {function, temp} \subseteq [Index -> Index \cup {None}]
    /\ {outdated, ready, temp_ready} \subseteq [Index -> BOOLEAN]
    /\ {dropped, selected, to_build, in_progress, pending} \subseteq SUBSET Index
    /\ stage \in {"idle", "select", "wipe", "list", "fill", "create", "poll", "rename"}
    /\ force \in BOOLEAN /\ runs \in 0 .. MaxRuns /\ killed \in BOOLEAN
    /\ result \in {"none", "success", "failed"}
    /\ current \in Index \cup {None} /\ to_build \cap in_progress = {}
    /\ stage \in {"create", "rename"} => current \in in_progress
    /\ stage = "rename" => temp[current] # None

(* At every moment, wherever a run dies, an index that its owner has not   *)
(* dropped is there under its name, computes what it always computed and   *)
(* can be used in queries.                                                 *)
IndexSurvives ==
    \A i \in Index \ dropped : function[i] = i /\ ready[i]

(* A run that reports success has rebuilt every outdated index it was to   *)
(* rebuild, and has left none under a temporary name.                      *)
SuccessMeansCurrent ==
    result = "success" => /\ Leftovers = {}
                          /\ \A i \in selected : Exists(i) => ~outdated[i]

(* A run never has more temporary indexes at once than -n allows.          *)
NotTooMany ==
    stage \in Building => Cardinality(Leftovers) <= Concurrent

(* The parts of the inductive invariant that are not properties above.     *)

(* An index and its temporary copy compute what the index always computed, *)
(* and only a copy that exists can be ready.                               *)
CopiesInv ==
    \A i \in Index : /\ function[i] \in {None, i} /\ temp[i] \in {None, i}
                     /\ temp_ready[i] => temp[i] = i

(* While indexes are rebuilt, the temporary ones are those in progress, and*)
(* what is outdated is in the list or in progress.                         *)
ProgressInv ==
    /\ stage # "idle" => result = "none"
    /\ stage \in {"select", "wipe", "list"} => in_progress = {}
    /\ stage = "list" => Leftovers = {}
    /\ stage \in Building => /\ Leftovers \subseteq in_progress
                         /\ Cardinality(in_progress) <= Concurrent
                         /\ \A i \in selected :
                               Exists(i) /\ outdated[i] => i \in to_build \cup in_progress
    /\ stage \in {"poll", "rename"} => pending \subseteq in_progress
    /\ stage = "rename" => temp_ready[current] /\ current \notin pending

RebuildInv == RebuildTypeOK /\ IndexSurvives /\ SuccessMeansCurrent /\ CopiesInv /\ ProgressInv

(* Every run ends.                                                         *)
RunEnds == (stage # "idle") ~> (stage = "idle")
=============================================================================
