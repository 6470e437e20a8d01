------------------------------- MODULE Export -------------------------------
(***************************************************************************)
(* The export tool, _export.py: run() and run_clients() in the main        *)
(* process, one client process per table (export_table), and one writer    *)
(* process per client (json_writer, csv_writer).  They share two events    *)
(* and the error queue; a client feeds its writer through a pipe.          *)
(*                                                                         *)
(* A row is its position in the order of the primary key.                  *)
(***************************************************************************)
EXTENDS Naturals, Sequences, FiniteSets

CONSTANTS
    Table,
    Clients,          \* options.clients
    RowCount,         \* rows of each table
    QueueSize,        \* rows that fit into the pipe to a writer
    MaxLost           \* bound: connections lost while reading

ASSUME ExportAssumption ==
    /\ Table # {} /\ IsFiniteSet(Table)
    /\ Clients \in Nat \ {0}
    /\ RowCount \in Nat
    /\ QueueSize \in Nat \ {0}
    /\ MaxLost \in Nat

VARIABLES
    \* The main process
    main,            \* "poll", "filter" or "spawn" in the loop of run_clients, then "done"
    arg_lists,       \* tables not yet started
    processes,       \* clients started and not yet seen dead
    errors,          \* tables whose errors have been taken from the queue
    result,          \* "none", "success", "Errors occurred" or "Interrupted"
    \* Shared
    exit_event, interrupt_event,
    error_queue,     \* tables whose clients or writers have reported an error
    \* Clients
    client,          \* "none", "version", "info", "open", "read", "put", "fail", "finish",
                     \* "join", "dead", or "crashed": dead of an exception
    lastPrimaryKey,  \* 0 for None
    task_queue,
    lost,            \* connections lost so far
    \* Writers
    writer,          \* "none", "write", "drain" or "dead"
    file             \* the rows written

mainVars   == <<main, arg_lists, processes, errors, result>>
shared     == <<exit_event, interrupt_event, error_queue>>
clientVars == <<client, lastPrimaryKey, task_queue, lost>>
writerVars == <<writer, file>>
vars == <<mainVars, shared, clientVars, writerVars>>

Stop == 0            \* StopIteration() in a task queue
Row  == 1 .. RowCount
Gone == {"dead", "crashed"}

Init ==
    /\ main = "poll" /\ arg_lists = Table /\ processes = {} /\ errors = {} /\ result = "none"
    /\ exit_event = FALSE /\ interrupt_event = FALSE /\ error_queue = {}
    /\ client = [t \in Table |-> "none"]
    /\ lastPrimaryKey = [t \in Table |-> 0]
    /\ task_queue = [t \in Table |-> <<>>]
    /\ lost = 0
    /\ writer = [t \in Table |-> "none"]
    /\ file = [t \in Table |-> <<>>]

Goto(t, place) == client' = [client EXCEPT ![t] = place]

-----------------------------------------------------------------------------
(* The loop of run_clients.                                                *)

(* An error is taken from the queue.                                       *)
TakeError ==
    /\ main = "poll"
    /\ \E t \in error_queue : /\ error_queue' = error_queue \ {t}
                              /\ errors' = errors \cup {t}
    /\ exit_event' = TRUE
    /\ UNCHANGED <<main, arg_lists, processes, result, interrupt_event,
                   clientVars, writerVars>>

NoMoreErrors ==
    /\ main = "poll" /\ error_queue = {}
    /\ main' = "filter"
    /\ UNCHANGED <<arg_lists, processes, errors, result, shared, clientVars, writerVars>>

(* Mutant: a client is given up while its process still runs.              *)
FilterEarly ==
    /\ main = "filter"
    /\ processes' = {t \in processes : client[t] \notin Gone \cup {"join"}}
    /\ main' = "spawn"
    /\ UNCHANGED <<arg_lists, errors, result, shared, clientVars, writerVars>>

Filter ==
    /\ main = "filter"
    /\ processes' = {t \in processes : client[t] \notin Gone}
    /\ main' = "spawn"
    /\ UNCHANGED <<arg_lists, errors, result, shared, clientVars, writerVars>>

(* A client is started if there is room; the loop ends when there is       *)
(* nothing left, and run() renames the working directory on success.       *)
Spawn ==
    /\ main = "spawn"
    /\ IF Cardinality(processes) < Clients /\ arg_lists # {}
       THEN \E t \in arg_lists :
               /\ arg_lists' = arg_lists \ {t}
               /\ processes' = processes \cup {t}
               /\ Goto(t, "version")
       ELSE UNCHANGED <<arg_lists, processes, client>>
    /\ IF processes' = {} /\ arg_lists' = {}
       THEN /\ main' = "done"
            /\ result' = IF interrupt_event THEN "Interrupted"
                         ELSE IF errors # {} THEN "Errors occurred" ELSE "success"
       ELSE main' = "poll" /\ UNCHANGED result
    /\ UNCHANGED <<errors, shared, lastPrimaryKey, task_queue, lost, writerVars>>

(* abort_export.  A Ctrl-C at the terminal also ends the clients and the   *)
(* writers, which have the default action for the signal.                  *)
Interrupt(all) ==
    /\ main # "done" /\ ~interrupt_event
    /\ interrupt_event' = TRUE /\ exit_event' = TRUE
    /\ IF all
       THEN /\ client' = [t \in Table |->
                    IF client[t] \in Gone \cup {"none"} THEN client[t] ELSE "dead"]
            /\ writer' = [t \in Table |-> IF writer[t] = "none" THEN "none" ELSE "dead"]
       ELSE UNCHANGED <<client, writer>>
    /\ UNCHANGED <<mainVars, error_queue, lastPrimaryKey, task_queue, lost, file>>

-----------------------------------------------------------------------------
(* export_table.                                                           *)

(* check_minimum_version, before the try statement: when its query fails,  *)
(* or the version is odd, the process ends with a traceback.               *)
CheckVersion(t) ==
    /\ client[t] = "version"
    /\ Goto(t, "info") \/ Goto(t, "crashed")
    /\ UNCHANGED <<mainVars, shared, lastPrimaryKey, task_queue, lost, writerVars>>

(* The queries about the table, and its info file.                         *)
Info(t) ==
    /\ client[t] = "info"
    /\ Goto(t, "open") \/ Goto(t, "fail")
    /\ UNCHANGED <<mainVars, shared, lastPrimaryKey, task_queue, lost, writerVars>>

(* The writer is started, and the cursor opened.                           *)
Open(t) ==
    /\ client[t] = "open"
    /\ writer' = [writer EXCEPT ![t] = "write"]
    /\ Goto(t, "read") \/ Goto(t, "fail")
    /\ UNCHANGED <<mainVars, exit_event, interrupt_event, error_queue, lastPrimaryKey,
                   task_queue, lost, file>>

(* The next row comes from the cursor; or the end, or exit_event.          *)
Read(t) ==
    /\ client[t] = "read"
    /\ IF exit_event \/ lastPrimaryKey[t] = RowCount THEN Goto(t, "finish") ELSE Goto(t, "put")
    /\ UNCHANGED <<mainVars, shared, lastPrimaryKey, task_queue, lost, writerVars>>

(* The row goes to the writer, when the pipe has room.                     *)
Put(t) ==
    /\ client[t] = "put" /\ Len(task_queue[t]) < QueueSize
    /\ lastPrimaryKey' = [lastPrimaryKey EXCEPT ![t] = @ + 1]
    /\ task_queue' = [task_queue EXCEPT ![t] = Append(@, lastPrimaryKey'[t])]
    /\ Goto(t, "read")
    /\ UNCHANGED <<mainVars, shared, lost, writerVars>>

(* Mutant: the backup cursor includes the last key.                        *)
ConnectionProblemClosedBound(t) ==
    /\ client[t] = "read" /\ lost < MaxLost
    /\ lost' = lost + 1
    /\ \/ /\ lastPrimaryKey[t] > 0
          /\ lastPrimaryKey' = [lastPrimaryKey EXCEPT ![t] = @ - 1]
          /\ UNCHANGED client
       \/ Goto(t, "fail") /\ UNCHANGED lastPrimaryKey
    /\ UNCHANGED <<mainVars, shared, task_queue, writerVars>>

(* The connection fails, or the query does.  A backup cursor goes on after *)
(* the last key; the server refuses None as a bound, and RetryQuery may    *)
(* fail as well.                                                           *)
ConnectionProblem(t) ==
    /\ client[t] = "read" /\ lost < MaxLost
    /\ lost' = lost + 1
    /\ \/ lastPrimaryKey[t] > 0 /\ UNCHANGED client
       \/ Goto(t, "fail")
    /\ UNCHANGED <<mainVars, shared, lastPrimaryKey, task_queue, writerVars>>

(* The except clauses report the error.                                    *)
ReportError(t) ==
    /\ client[t] = "fail"
    /\ error_queue' = error_queue \cup {t}
    /\ Goto(t, "finish")
    /\ UNCHANGED <<mainVars, exit_event, interrupt_event, lastPrimaryKey, task_queue, lost, writerVars>>

(* The finally clause.                                                     *)
Finish(t) ==
    /\ client[t] = "finish"
    /\ IF writer[t] \in {"none", "dead"}
       THEN Goto(t, "dead") /\ UNCHANGED task_queue
       ELSE /\ Len(task_queue[t]) < QueueSize
            /\ task_queue' = [task_queue EXCEPT ![t] = Append(@, Stop)]
            /\ Goto(t, "join")
    /\ UNCHANGED <<mainVars, shared, lastPrimaryKey, lost, writerVars>>

Join(t) ==
    /\ client[t] = "join" /\ writer[t] = "dead"
    /\ Goto(t, "dead")
    /\ UNCHANGED <<mainVars, shared, lastPrimaryKey, task_queue, lost, writerVars>>

-----------------------------------------------------------------------------
(* json_writer and csv_writer.                                             *)

TakeItem(t) ==
    /\ task_queue[t] # <<>>
    /\ task_queue' = [task_queue EXCEPT ![t] = Tail(@)]

WriteItem(t) ==
    /\ writer[t] = "write"
    /\ TakeItem(t)
    /\ IF Head(task_queue[t]) = Stop
       THEN writer' = [writer EXCEPT ![t] = "dead"] /\ UNCHANGED file
       ELSE file' = [file EXCEPT ![t] = Append(@, Head(task_queue[t]))] /\ UNCHANGED writer
    /\ UNCHANGED <<mainVars, shared, client, lastPrimaryKey, lost>>

(* Mutant: a writer that fails stops reading its queue.                    *)
WriterFailsAndExits(t) ==
    /\ writer[t] = "write"
    /\ \/ UNCHANGED task_queue
       \/ TakeItem(t) /\ Head(task_queue[t]) # Stop
    /\ error_queue' = error_queue \cup {t}
    /\ writer' = [writer EXCEPT ![t] = "dead"]
    /\ UNCHANGED <<mainVars, exit_event, interrupt_event, client, lastPrimaryKey, lost, file>>

(* Mutant: the error is not reported.                                      *)
WriterFailsSilently(t) ==
    /\ writer[t] = "write"
    /\ UNCHANGED task_queue \/ TakeItem(t)
    /\ writer' = [writer EXCEPT ![t] = "drain"]
    /\ UNCHANGED <<mainVars, shared, client, lastPrimaryKey, lost, file>>

(* Opening or writing the file fails, before an item is taken or with a    *)
(* row in hand; or closing it does, when buffered rows meet a full disk    *)
(* after StopIteration has been taken.                                     *)
WriterFails(t) ==
    /\ writer[t] = "write"
    /\ UNCHANGED task_queue \/ TakeItem(t)
    /\ error_queue' = error_queue \cup {t}
    /\ writer' = [writer EXCEPT ![t] = "drain"]
    /\ UNCHANGED <<mainVars, exit_event, interrupt_event, client, lastPrimaryKey, lost, file>>

(* Read until the exit task.                                               *)
Drain(t) ==
    /\ writer[t] = "drain"
    /\ TakeItem(t)
    /\ writer' = [writer EXCEPT ![t] = IF Head(task_queue[t]) = Stop THEN "dead" ELSE "drain"]
    /\ UNCHANGED <<mainVars, shared, client, lastPrimaryKey, lost, file>>

-----------------------------------------------------------------------------
MainStep == TakeError \/ NoMoreErrors \/ Filter \/ Spawn
ClientStep(t) == CheckVersion(t) \/ Info(t) \/ Open(t) \/ Read(t) \/ Put(t) \/ ReportError(t)
                 \/ Finish(t) \/ Join(t)
WriterStep(t) == WriteItem(t) \/ Drain(t)

Next ==
    \/ MainStep
    \/ \E all \in BOOLEAN : Interrupt(all)
    \/ \E t \in Table : ClientStep(t) \/ ConnectionProblem(t) \/ WriterStep(t) \/ WriterFails(t)

Spec == Init /\ [][Next]_vars

(* Every process is scheduled; nothing needs to fail.                      *)
FairSpec ==
    /\ Spec
    /\ WF_vars(MainStep)
    /\ \A t \in Table : WF_vars(ClientStep(t)) /\ WF_vars(WriterStep(t))

-----------------------------------------------------------------------------
UpTo(n) == [i \in 1 .. n |-> i]

(* Types; a client is among the processes from its start until main has    *)
(* seen it dead, and no more of them run than the option allows.           *)
TypeOK ==
    /\ main \in {"poll", "filter", "spawn", "done"}
    /\ arg_lists \subseteq Table /\ processes \subseteq Table /\ errors \subseteq Table
    /\ result \in {"none", "success", "Errors occurred", "Interrupted"}
    /\ exit_event \in BOOLEAN /\ interrupt_event \in BOOLEAN
    /\ error_queue \subseteq Table
    /\ client \in [Table -> {"none", "version", "info", "open", "read", "put", "fail",
                             "finish", "join"} \cup Gone]
    /\ lastPrimaryKey \in [Table -> 0 .. RowCount]
    /\ task_queue \in [Table -> Seq(0 .. RowCount)]
    /\ \A t \in Table : Len(task_queue[t]) <= QueueSize
    /\ lost \in 0 .. MaxLost
    /\ writer \in [Table -> {"none", "write", "drain", "dead"}]
    /\ file \in [Table -> Seq(Row)]
    /\ \A t \in Table : client[t] \notin Gone \cup {"none"} => t \in processes
    /\ Cardinality(processes) <= Clients

(* What a file and the pipe to its writer hold is the table's rows up to   *)
(* the last one read, each once and in order, whatever cursors they came   *)
(* from; a writer that has failed leaves a prefix.                         *)
FileFaithful ==
    \A t \in Table :
        /\ file[t] = UpTo(Len(file[t]))
        /\ writer[t] = "write" =>
              file[t] \o task_queue[t] \in
                  {UpTo(lastPrimaryKey[t]), Append(UpTo(lastPrimaryKey[t]), Stop)}

(* An export that reports success has exported every table in full, unless *)
(* an error is still in the queue, or a client never got to its try        *)
(* statement.                                                              *)
LossReported ==
    result = "success" => \A t \in Table :
        file[t] = UpTo(RowCount) \/ t \in error_queue \/ client[t] = "crashed"

(* When run_clients ends no client or writer is left that could still      *)
(* write into the directory that run() renames.                            *)
NoProcessLeft ==
    main = "done" => \A t \in Table : /\ client[t] \in Gone \cup {"none"}
                                      /\ writer[t] \in {"none", "dead"}

(* The type invariant and that of the processes, together.                 *)
ExportInv == TypeOK /\ NoProcessLeft

(* The export ends, whatever fails and however full the pipes are; only a  *)
(* writer that failed after it had taken the exit task can keep it from    *)
(* ending: it waits for a second one, and its client waits for it.         *)
FailedLate(t) == writer[t] = "drain" /\ client[t] = "join" /\ task_queue[t] = <<>>

ExportEnds == <>(main = "done" \/ \E t \in Table : FailedLate(t))
=============================================================================
