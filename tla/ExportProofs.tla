---------------------------- MODULE ExportProofs ----------------------------
(***************************************************************************)
(* Proofs about Export, for any set of tables, any number of clients and   *)
(* of rows, any size of the pipes and any number of lost connections.      *)
(*                                                                         *)
(* Everything rests on what is between a client and the file of its table: *)
(* the rows up to the last one read are in the file and then in the pipe,  *)
(* and the exit task, once sent, is behind them.                           *)
(***************************************************************************)
EXTENDS Export, FiniteSetTheorems, SequenceTheorems, TLAPS

(* The main process: what it has started, and why it ended.                *)
MainInv ==
  /\ \A t \in Table : client[t] = "none" <=> t \in arg_lists
  /\ main = "done" => processes = {} /\ arg_lists = {}
  /\ main = "done" <=> result # "none"
  /\ result = "success" => ~interrupt_event /\ errors = {}
  /\ exit_event => interrupt_event \/ errors # {}

(* The rows in a pipe: all of it but for the exit task of a client that    *)
(* has gone on to wait for its writer.                                     *)
InPipe(t) == IF client[t] = "join" THEN Len(task_queue[t]) - 1 ELSE Len(task_queue[t])
Writing(t) ==
  /\ client[t] \in {"read", "put", "fail", "finish", "join"}
  /\ InPipe(t) >= 0 /\ lastPrimaryKey[t] = Len(file[t]) + InPipe(t)
  /\ \A i \in 1 .. InPipe(t) : task_queue[t][i] = Len(file[t]) + i
  /\ client[t] = "join" => task_queue[t][Len(task_queue[t])] = Stop

Early == {"none", "version", "info", "open", "crashed"}
Pipe(t) ==
  /\ \A i \in 1 .. Len(file[t]) : file[t][i] = i
  /\ writer[t] = "none" => /\ client[t] \notin {"read", "put", "join"}
                           /\ file[t] = <<>> /\ task_queue[t] = <<>> /\ lastPrimaryKey[t] = 0
  /\ writer[t] = "write" => Writing(t)
  /\ client[t] \in Early => writer[t] = "none"
  /\ client[t] = "put" => lastPrimaryKey[t] < RowCount
  /\ client[t] = "dead" => writer[t] \in {"none", "dead"}

(* A table that may be incomplete has been reported, or everything stops.  *)
Reported(t) == interrupt_event \/ errors # {} \/ t \in error_queue
Whole(t) ==
  \/ Reported(t)
  \/ /\ client[t] \in {"finish", "join", "dead"} => lastPrimaryKey[t] = RowCount
     /\ writer[t] # "drain"
     /\ writer[t] = "dead" => /\ client[t] \in {"join", "dead"}
                              /\ Len(file[t]) = lastPrimaryKey[t]

IInv == TypeOK /\ MainInv /\ \A t \in Table : Pipe(t) /\ Whole(t)

Places == {"none", "version", "info", "open", "read", "put", "fail", "finish", "join"} \cup Gone

-----------------------------------------------------------------------------
(* Types, table by table.                                                  *)
LEMMA Types ==
  ASSUME TypeOK, NEW t \in Table
  PROVE  /\ client[t] \in Places /\ writer[t] \in {"none", "write", "drain", "dead"}
         /\ RowCount \in Nat /\ QueueSize \in Nat \ {0} /\ lastPrimaryKey[t] \in 0 .. RowCount
         /\ task_queue[t] \in Seq(0 .. RowCount) /\ Len(task_queue[t]) \in Nat
         /\ file[t] \in Seq(Row) /\ Len(file[t]) \in Nat
         /\ client \in [Table -> Places] /\ writer \in [Table -> {"none", "write", "drain", "dead"}]
         /\ lastPrimaryKey \in [Table -> 0 .. RowCount]
         /\ task_queue \in [Table -> Seq(0 .. RowCount)] /\ file \in [Table -> Seq(Row)]
<1>1. /\ client \in [Table -> Places] /\ writer \in [Table -> {"none", "write", "drain", "dead"}]
      /\ lastPrimaryKey \in [Table -> 0 .. RowCount]
      /\ task_queue \in [Table -> Seq(0 .. RowCount)] /\ file \in [Table -> Seq(Row)]
  BY DEF TypeOK, Places
<1>2. task_queue[t] \in Seq(0 .. RowCount) /\ file[t] \in Seq(Row)
  BY <1>1
<1>3. Len(task_queue[t]) \in Nat /\ Len(file[t]) \in Nat
  BY <1>2, LenProperties
<1> QED BY <1>1, <1>2, <1>3, ExportAssumption

(* UpTo(n) is the sequence of the first n rows.                            *)
LEMMA UpToProperties ==
  ASSUME NEW n \in Nat
  PROVE  /\ UpTo(n) \in Seq(Nat) /\ Len(UpTo(n)) = n
         /\ \A i \in 1 .. n : UpTo(n)[i] = i
<1>1. UpTo(n) \in [1 .. n -> Nat]
  BY DEF UpTo
<1>2. UpTo(n) \in Seq(Nat)
  BY <1>1
<1>3. DOMAIN UpTo(n) = 1 .. n /\ \A i \in 1 .. n : UpTo(n)[i] = i
  BY DEF UpTo
<1>4. DOMAIN UpTo(n) = 1 .. Len(UpTo(n)) /\ Len(UpTo(n)) \in Nat
  BY <1>2, LenProperties
<1> QED BY <1>2, <1>3, <1>4

LEMMA TypeInit == Init => TypeOK
<1> SUFFICES ASSUME Init PROVE TypeOK
  OBVIOUS
<1>1. /\ task_queue \in [Table -> Seq(0 .. RowCount)] /\ file \in [Table -> Seq(Row)]
      /\ \A t \in Table : Len(task_queue[t]) <= QueueSize
  BY ExportAssumption DEF Init
<1>2. Cardinality(processes) <= Clients
  BY FS_EmptySet, ExportAssumption DEF Init
<1>3. /\ client \in [Table -> Places] /\ lastPrimaryKey \in [Table -> 0 .. RowCount]
      /\ writer \in [Table -> {"none", "write", "drain", "dead"}]
      /\ \A t \in Table : client[t] = "none"
  BY ExportAssumption DEF Init, Places
<1>4. /\ main = "poll" /\ arg_lists = Table /\ processes = {} /\ errors = {} /\ result = "none"
      /\ exit_event \in BOOLEAN /\ interrupt_event \in BOOLEAN /\ error_queue = {}
  BY DEF Init
<1>5. lost \in 0 .. MaxLost
  BY ExportAssumption DEF Init
<1> QED BY <1>1, <1>2, <1>3, <1>4, <1>5 DEF TypeOK, Places

(* A client that runs goes on to another place.                            *)
LEMMA GotoType ==
  ASSUME TypeOK, NEW t \in Table, client[t] \notin Gone \cup {"none"}, NEW place \in Places,
         client' = client \/ Goto(t, place), UNCHANGED mainVars
  PROVE  /\ client' \in [Table -> Places]
         /\ \A u \in Table : client'[u] \notin Gone \cup {"none"} => u \in processes'
BY DEF TypeOK, Goto, Places, mainVars

(* An item is taken from a pipe, or put into it.                           *)
LEMMA QueueType ==
  ASSUME TypeOK, NEW t \in Table,
         \/ TakeItem(t)
         \/ \E e \in 0 .. RowCount : /\ Len(task_queue[t]) < QueueSize
                                     /\ task_queue' = [task_queue EXCEPT ![t] = Append(@, e)]
         \/ UNCHANGED task_queue
  PROVE  /\ task_queue' \in [Table -> Seq(0 .. RowCount)]
         /\ \A u \in Table : Len(task_queue'[u]) <= QueueSize
<1> DEFINE q == task_queue[t]
<1>0. /\ q \in Seq(0 .. RowCount) /\ Len(q) \in Nat /\ Len(q) <= QueueSize /\ QueueSize \in Nat
      /\ task_queue \in [Table -> Seq(0 .. RowCount)]
      /\ \A u \in Table : Len(task_queue[u]) <= QueueSize
  BY Types DEF TypeOK
<1>1. CASE TakeItem(t)
  <2>1. q # <<>> /\ task_queue' = [task_queue EXCEPT ![t] = Tail(q)]
    BY <1>1 DEF TakeItem
  <2>2. Tail(q) \in Seq(0 .. RowCount) /\ Len(Tail(q)) = Len(q) - 1
    BY <1>0, <2>1, HeadTailProperties
  <2> HIDE DEF q
  <2> QED BY <1>0, <2>1, <2>2
<1>2. ASSUME NEW e \in 0 .. RowCount, Len(q) < QueueSize,
             task_queue' = [task_queue EXCEPT ![t] = Append(@, e)]
      PROVE  /\ task_queue' \in [Table -> Seq(0 .. RowCount)]
             /\ \A u \in Table : Len(task_queue'[u]) <= QueueSize
  <2>1. Append(q, e) \in Seq(0 .. RowCount) /\ Len(Append(q, e)) = Len(q) + 1
    BY <1>0
  <2>2. task_queue' = [task_queue EXCEPT ![t] = Append(q, e)]
    BY <1>2
  <2> HIDE DEF q
  <2> QED BY <1>0, <1>2, <2>1, <2>2
<1> QED BY <1>0, <1>1, <1>2

LEMMA TypeMain == TypeOK /\ (MainStep \/ \E all \in BOOLEAN : Interrupt(all)) => TypeOK'
<1> SUFFICES ASSUME TypeOK, MainStep \/ \E all \in BOOLEAN : Interrupt(all) PROVE TypeOK'
  OBVIOUS
<1> USE DEF clientVars, writerVars, shared
<1>1. CASE TakeError \/ NoMoreErrors
  BY <1>1 DEF TakeError, NoMoreErrors, TypeOK
<1>2. CASE Filter
  <2>1. processes' \subseteq processes /\ IsFiniteSet(processes)
    BY <1>2, ExportAssumption, FS_Subset DEF Filter, TypeOK
  <2>2. Cardinality(processes') <= Cardinality(processes) /\ IsFiniteSet(processes')
    BY <2>1, FS_Subset
  <2>3. Cardinality(processes') <= Clients
    <3>1. Cardinality(processes') \in Nat /\ Cardinality(processes) \in Nat /\ Clients \in Nat
      BY <2>1, <2>2, FS_CardinalityType, ExportAssumption
    <3>2. Cardinality(processes) <= Clients
      BY DEF TypeOK
    <3> QED BY <2>2, <3>1, <3>2
  <2>4. \A t \in Table : client'[t] \notin Gone \cup {"none"} => t \in processes'
    BY <1>2 DEF Filter, TypeOK
  <2> QED BY <1>2, <2>3, <2>4 DEF Filter, TypeOK
<1>3. CASE Spawn
  <2>1. /\ main' \in {"poll", "done"} /\ result' \in {result, "success", "Errors occurred", "Interrupted"}
        /\ UNCHANGED <<errors, shared, lastPrimaryKey, task_queue, lost, writerVars>>
    BY <1>3 DEF Spawn
  <2>2. CASE UNCHANGED <<arg_lists, processes, client>>
    BY <2>1, <2>2 DEF TypeOK
  <2>3. ASSUME NEW t \in arg_lists, Cardinality(processes) < Clients, arg_lists' = arg_lists \ {t},
               processes' = processes \cup {t}, Goto(t, "version")
        PROVE  TypeOK'
    <3>1. Cardinality(processes') <= Clients
      <4>1. IsFiniteSet(processes)
        BY ExportAssumption, FS_Subset DEF TypeOK
      <4>2. Cardinality(processes) \in Nat
        BY <4>1, FS_CardinalityType
      <4>3. Cardinality(processes') = IF t \in processes THEN Cardinality(processes)
                                      ELSE Cardinality(processes) + 1
        BY <2>3, <4>1, FS_AddElement
      <4> QED BY <2>3, <4>2, <4>3, ExportAssumption
    <3>2. /\ client' \in [Table -> Places]
          /\ \A u \in Table : client'[u] \notin Gone \cup {"none"} => u \in processes'
          /\ arg_lists' \subseteq Table /\ processes' \subseteq Table
      BY <2>3 DEF TypeOK, Goto, Places
    <3> QED BY <2>1, <3>1, <3>2 DEF TypeOK, Places
  <2> QED BY <1>3, <2>2, <2>3 DEF Spawn
<1>4. ASSUME NEW all \in BOOLEAN, Interrupt(all) PROVE TypeOK'
  <2>1. /\ client' \in [Table -> Places] /\ writer' \in [Table -> {"none", "write", "drain", "dead"}]
        /\ \A t \in Table : client'[t] \notin Gone \cup {"none"} => t \in processes
    BY <1>4 DEF Interrupt, TypeOK, Places, Gone
  <2> QED BY <1>4, <2>1 DEF Interrupt, TypeOK, Places, mainVars
<1> QED BY <1>1, <1>2, <1>3, <1>4 DEF MainStep

LEMMA TypeClient ==
  ASSUME TypeOK, \A u \in Table : Pipe(u), NEW t \in Table, ClientStep(t) \/ ConnectionProblem(t)
  PROVE  TypeOK'
<1> USE DEF mainVars, shared, clientVars, writerVars
<1>1. CASE CheckVersion(t) \/ Info(t) \/ Open(t) \/ Read(t) \/ ReportError(t) \/ Join(t)
           \/ ConnectionProblem(t)
  <2>1. /\ client[t] \notin Gone \cup {"none"} /\ UNCHANGED mainVars
        /\ client' = client \/ \E place \in Places : Goto(t, place)
    BY <1>1 DEF CheckVersion, Info, Open, Read, ReportError, Join, ConnectionProblem, Gone, Places
  <2>2. /\ client' \in [Table -> Places]
        /\ \A u \in Table : client'[u] \notin Gone \cup {"none"} => u \in processes'
    BY <2>1, GotoType DEF Places
  <2>3. /\ writer' = writer \/ writer' = [writer EXCEPT ![t] = "write"]
        /\ lost' = lost \/ (lost < MaxLost /\ lost' = lost + 1)
        /\ error_queue' = error_queue \/ error_queue' = error_queue \cup {t}
        /\ UNCHANGED <<mainVars, exit_event, interrupt_event, lastPrimaryKey, task_queue, file>>
    BY <1>1 DEF CheckVersion, Info, Open, Read, ReportError, Join, ConnectionProblem
  <2>4. /\ writer' \in [Table -> {"none", "write", "drain", "dead"}]
        /\ lost' \in 0 .. MaxLost /\ error_queue' \subseteq Table
    <3>1. writer' \in [Table -> {"none", "write", "drain", "dead"}] /\ error_queue' \subseteq Table
      BY <2>3, Types DEF TypeOK
    <3>2. lost \in 0 .. MaxLost /\ MaxLost \in Nat
      BY ExportAssumption DEF TypeOK
    <3>3. lost' \in 0 .. MaxLost
      BY <2>3, <3>2
    <3> QED BY <3>1, <3>3
  <2> HIDE DEF mainVars, shared, clientVars, writerVars
  <2> QED BY <2>2, <2>3, <2>4 DEF TypeOK, Places, mainVars
<1>2. CASE Put(t)
  <2>1. client[t] \notin Gone \cup {"none"} /\ UNCHANGED mainVars /\ Goto(t, "read")
    BY <1>2 DEF Put, Gone
  <2>2. /\ client' \in [Table -> Places]
        /\ \A u \in Table : client'[u] \notin Gone \cup {"none"} => u \in processes'
    BY <2>1, GotoType DEF Places
  <2>3. /\ lastPrimaryKey' \in [Table -> 0 .. RowCount] /\ lastPrimaryKey'[t] \in 0 .. RowCount
        /\ task_queue' = [task_queue EXCEPT ![t] = Append(@, lastPrimaryKey'[t])]
        /\ Len(task_queue[t]) < QueueSize
    BY <1>2, Types DEF Put, Pipe
  <2>4. /\ task_queue' \in [Table -> Seq(0 .. RowCount)]
        /\ \A u \in Table : Len(task_queue'[u]) <= QueueSize
    BY <2>3, QueueType
  <2> QED BY <1>2, <2>2, <2>3, <2>4 DEF Put, TypeOK, Places
<1>3. CASE Finish(t)
  <2>1. /\ client[t] \notin Gone \cup {"none"} /\ UNCHANGED mainVars
        /\ Goto(t, "dead") \/ Goto(t, "join")
    BY <1>3 DEF Finish, Gone
  <2>2. /\ client' \in [Table -> Places]
        /\ \A u \in Table : client'[u] \notin Gone \cup {"none"} => u \in processes'
    BY <2>1, GotoType DEF Places, Gone
  <2>3. Stop \in 0 .. RowCount
    BY ExportAssumption DEF Stop
  <2>4. \/ UNCHANGED task_queue
        \/ /\ Len(task_queue[t]) < QueueSize
           /\ task_queue' = [task_queue EXCEPT ![t] = Append(@, Stop)]
    BY <1>3 DEF Finish
  <2>5. /\ task_queue' \in [Table -> Seq(0 .. RowCount)]
        /\ \A u \in Table : Len(task_queue'[u]) <= QueueSize
    BY <2>3, <2>4, QueueType
  <2> QED BY <1>3, <2>2, <2>5 DEF Finish, TypeOK, Places
<1> QED BY <1>1, <1>2, <1>3 DEF ClientStep

LEMMA TypeWriter ==
  ASSUME TypeOK, NEW t \in Table, WriterStep(t) \/ WriterFails(t)
  PROVE  TypeOK'
<1> USE DEF mainVars, shared
<1>1. /\ task_queue' \in [Table -> Seq(0 .. RowCount)]
      /\ \A u \in Table : Len(task_queue'[u]) <= QueueSize
  BY QueueType DEF WriterStep, WriteItem, Drain, WriterFails
<1>2. writer' \in [Table -> {"none", "write", "drain", "dead"}]
  BY DEF WriterStep, WriteItem, Drain, WriterFails, TypeOK
<1>3. file' \in [Table -> Seq(Row)]
  <2>1. CASE file' = [file EXCEPT ![t] = Append(@, Head(task_queue[t]))]
             /\ task_queue[t] # <<>> /\ Head(task_queue[t]) # Stop
    <3>1. Head(task_queue[t]) \in 0 .. RowCount
      BY <2>1, Types, HeadTailProperties
    <3>2. Head(task_queue[t]) \in Row
      BY <2>1, <3>1, ExportAssumption DEF Row, Stop
    <3>3. Append(file[t], Head(task_queue[t])) \in Seq(Row)
      BY <3>2, Types
    <3> QED BY <2>1, <3>3, Types
  <2>2. CASE file' = file
    BY <2>2 DEF TypeOK
  <2> QED BY <2>1, <2>2 DEF WriterStep, WriteItem, Drain, WriterFails, TakeItem
<1> QED BY <1>1, <1>2, <1>3 DEF WriterStep, WriteItem, Drain, WriterFails, TypeOK

LEMMA TypeStep == TypeOK /\ (\A t \in Table : Pipe(t)) /\ [Next]_vars => TypeOK'
<1> SUFFICES ASSUME TypeOK, \A t \in Table : Pipe(t), [Next]_vars PROVE TypeOK'
  OBVIOUS
<1>1. CASE UNCHANGED vars
  BY <1>1 DEF TypeOK, vars, mainVars, shared, clientVars, writerVars
<1> QED BY <1>1, TypeMain, TypeClient, TypeWriter DEF Next

-----------------------------------------------------------------------------
(* The main process.                                                       *)
LEMMA MainInit == Init => MainInv
BY DEF Init, MainInv

LEMMA MainInvStep == TypeOK /\ MainInv /\ [Next]_vars => MainInv'
<1> SUFFICES ASSUME TypeOK, MainInv, [Next]_vars PROVE MainInv'
  OBVIOUS
<1> USE DEF mainVars, shared
<1>1. CASE TakeError \/ NoMoreErrors
  <2>1. UNCHANGED <<client, arg_lists, result, interrupt_event>> /\ result = "none" /\ main' # "done"
    BY <1>1 DEF TakeError, NoMoreErrors, MainInv, clientVars
  <2>2. exit_event' => interrupt_event' \/ errors' # {}
    BY <1>1 DEF TakeError, NoMoreErrors, MainInv
  <2> QED BY <2>1, <2>2 DEF MainInv
<1>2. CASE Filter
  BY <1>2 DEF Filter, MainInv, clientVars
<1>3. CASE Spawn
  <2>1. \A t \in Table : client'[t] = "none" <=> t \in arg_lists'
    <3>1. /\ client \in [Table -> Places] /\ arg_lists \subseteq Table
          /\ \A t \in Table : client[t] = "none" <=> t \in arg_lists
      BY DEF TypeOK, MainInv, Places
    <3>2. ASSUME NEW t \in arg_lists, arg_lists' = arg_lists \ {t}, Goto(t, "version")
          PROVE  \A u \in Table : client'[u] = "none" <=> u \in arg_lists'
      BY <3>1, <3>2 DEF Goto
    <3>3. CASE UNCHANGED <<arg_lists, client>>
      BY <3>1, <3>3
    <3> QED BY <1>3, <3>2, <3>3 DEF Spawn
  <2>2. UNCHANGED <<errors, exit_event, interrupt_event>> /\ result = "none"
    BY <1>3 DEF Spawn, MainInv
  <2>3. \/ main' = "poll" /\ result' = result
        \/ /\ main' = "done" /\ processes' = {} /\ arg_lists' = {}
           /\ result' = IF interrupt_event THEN "Interrupted"
                        ELSE IF errors # {} THEN "Errors occurred" ELSE "success"
    BY <1>3 DEF Spawn
  <2> QED BY <2>1, <2>2, <2>3 DEF MainInv
<1>4. ASSUME NEW all \in BOOLEAN, Interrupt(all) PROVE MainInv'
  <2>1. \A t \in Table : client'[t] = "none" <=> client[t] = "none"
    BY <1>4 DEF Interrupt, Gone
  <2>2. interrupt_event' = TRUE /\ UNCHANGED mainVars /\ result = "none"
    BY <1>4 DEF Interrupt, MainInv
  <2> QED BY <2>1, <2>2 DEF MainInv
<1>5. ASSUME NEW t \in Table, ClientStep(t) \/ ConnectionProblem(t) PROVE MainInv'
  <2>1. UNCHANGED <<mainVars, exit_event, interrupt_event>>
    BY <1>5 DEF ClientStep, CheckVersion, Info, Open, Read, Put, ReportError, Finish, Join,
                ConnectionProblem
  <2>2. /\ client[t] # "none"
        /\ client' = client \/ \E place : place # "none" /\ Goto(t, place)
    BY <1>5 DEF ClientStep, CheckVersion, Info, Open, Read, Put, ReportError, Finish, Join,
                ConnectionProblem
  <2>3. \A u \in Table : client'[u] = "none" <=> client[u] = "none"
    BY <2>2 DEF Goto, TypeOK
  <2> QED BY <2>1, <2>3 DEF MainInv
<1>6. ASSUME NEW t \in Table, WriterStep(t) \/ WriterFails(t) PROVE MainInv'
  BY <1>6 DEF WriterStep, WriteItem, Drain, WriterFails, MainInv
<1>7. CASE UNCHANGED vars
  BY <1>7 DEF vars, clientVars, MainInv
<1> QED BY <1>1, <1>2, <1>3, <1>4, <1>5, <1>6, <1>7 DEF Next, MainStep

-----------------------------------------------------------------------------
(* The tables that a step does not touch.                                  *)
Same(t) == /\ client'[t] = client[t] /\ writer'[t] = writer[t]
           /\ lastPrimaryKey'[t] = lastPrimaryKey[t] /\ task_queue'[t] = task_queue[t]
           /\ file'[t] = file[t]

LEMMA PipeSame ==
  ASSUME NEW t \in Table, Pipe(t), Same(t) PROVE Pipe(t)'
BY DEF Same, Pipe, Writing, InPipe

LEMMA WholeSame ==
  ASSUME NEW t \in Table, Whole(t), Same(t), Reported(t) => Reported(t)' PROVE Whole(t)'
<1>1. CASE Reported(t)
  BY <1>1 DEF Whole
<1>2. CASE ~Reported(t)
  BY <1>2 DEF Whole, Same
<1> QED BY <1>1, <1>2

LEMMA Others ==
  ASSUME TypeOK, NEW t \in Table, NEW u \in Table \ {t},
         ClientStep(t) \/ ConnectionProblem(t) \/ WriterStep(t) \/ WriterFails(t)
  PROVE  Same(u)
<1> USE DEF TypeOK, Same, Goto, clientVars, writerVars
<1>1. CASE CheckVersion(t) \/ Info(t) \/ Open(t) \/ Read(t)
  BY <1>1 DEF CheckVersion, Info, Open, Read
<1>2. CASE Put(t) \/ ReportError(t) \/ Finish(t) \/ Join(t) \/ ConnectionProblem(t)
  BY <1>2 DEF Put, ReportError, Finish, Join, ConnectionProblem
<1>3. CASE WriterStep(t) \/ WriterFails(t)
  BY <1>3 DEF WriterStep, WriteItem, Drain, WriterFails, TakeItem
<1> QED BY <1>1, <1>2, <1>3 DEF ClientStep

(* What has been reported stays so: an error taken from the queue is kept. *)
LEMMA ReportedStays ==
  ASSUME [Next]_vars, NEW t \in Table, Reported(t) PROVE Reported(t)'
<1> USE DEF Reported, mainVars, shared
<1>1. CASE MainStep
  BY <1>1 DEF MainStep, TakeError, NoMoreErrors, Filter, Spawn
<1>2. CASE \E all \in BOOLEAN : Interrupt(all)
  BY <1>2 DEF Interrupt
<1>3. ASSUME NEW u \in Table, ClientStep(u) \/ ConnectionProblem(u) PROVE Reported(t)'
  BY <1>3 DEF ClientStep, CheckVersion, Info, Open, Read, Put, ReportError, Finish, Join,
              ConnectionProblem
<1>4. ASSUME NEW u \in Table, WriterStep(u) \/ WriterFails(u) PROVE Reported(t)'
  BY <1>4 DEF WriterStep, WriteItem, Drain, WriterFails
<1>5. CASE UNCHANGED vars
  BY <1>5 DEF vars
<1> QED BY <1>1, <1>2, <1>3, <1>4, <1>5 DEF Next

-----------------------------------------------------------------------------
(* The table of a client that goes on.                                     *)
LEMMA PipeClient ==
  ASSUME TypeOK, MainInv, NEW t \in Table, Pipe(t), Whole(t),
         CheckVersion(t) \/ Info(t) \/ Open(t) \/ Read(t) \/ Join(t) \/ ConnectionProblem(t)
  PROVE  Pipe(t)' /\ Whole(t)'
<1>0. /\ client \in [Table -> Places] /\ writer \in [Table -> {"none", "write", "drain", "dead"}]
      /\ writer[t] \in {"none", "write", "drain", "dead"}
      /\ UNCHANGED <<lastPrimaryKey, task_queue, file, interrupt_event, error_queue, errors>>
  <2>1. UNCHANGED <<lastPrimaryKey, task_queue, file, interrupt_event, error_queue, errors>>
    BY DEF CheckVersion, Info, Open, Read, Join, ConnectionProblem, mainVars, shared, writerVars
  <2> QED BY <2>1, Types
<1>1. CASE CheckVersion(t) \/ Info(t)
  <2>1. writer'[t] = writer[t] /\ writer[t] = "none" /\ client'[t] \in {"info", "crashed", "open", "fail"}
    BY <1>0, <1>1 DEF CheckVersion, Info, Goto, writerVars, Pipe, Early
  <2> QED BY <1>0, <2>1 DEF Pipe, Whole, Reported, Early
<1>2. CASE Open(t)
  <2>1. /\ writer'[t] = "write" /\ client'[t] \in {"read", "fail"}
        /\ file[t] = <<>> /\ task_queue[t] = <<>> /\ lastPrimaryKey[t] = 0
    BY <1>0, <1>2 DEF Open, Goto, Pipe, Early
  <2>2. Len(<<>>) = 0
    OBVIOUS
  <2>3. Writing(t)'
    BY <1>0, <2>1, <2>2 DEF Writing, InPipe
  <2> QED BY <1>0, <2>1, <2>2, <2>3 DEF Pipe, Whole, Reported, Early
<1>3. CASE Read(t) \/ ConnectionProblem(t)
  <2>1. /\ writer'[t] = writer[t] /\ client[t] = "read" /\ writer[t] # "none"
        /\ client'[t] \in {"read", "put", "finish", "fail"}
    BY <1>0, <1>3 DEF Read, ConnectionProblem, Goto, writerVars, Pipe
  <2>2. client'[t] = "put" => lastPrimaryKey[t] < RowCount
    <3>1. client'[t] = "put" => lastPrimaryKey[t] # RowCount
      BY <1>0, <1>3 DEF Read, ConnectionProblem, Goto
    <3> QED BY <3>1, Types
  <2>3. client'[t] = "finish" => exit_event \/ lastPrimaryKey[t] = RowCount
    BY <1>0, <1>3 DEF Read, ConnectionProblem, Goto
  <2>4. writer[t] = "write" => Writing(t)'
    BY <1>0, <2>1 DEF Pipe, Writing, InPipe
  <2>5. Pipe(t)'
    BY <1>0, <2>1, <2>2, <2>4 DEF Pipe, Early
  <2>6. Whole(t)'
    <3>1. CASE Reported(t)
      BY <1>0, <3>1 DEF Whole, Reported
    <3>2. CASE ~Reported(t)
      <4>1. ~exit_event /\ writer[t] \notin {"drain", "dead"}
        BY <2>1, <3>2 DEF MainInv, Reported, Whole
      <4> QED BY <1>0, <2>1, <2>3, <4>1 DEF Whole
    <3> QED BY <3>1, <3>2
  <2> QED BY <2>5, <2>6
<1>4. CASE Join(t)
  <2>1. writer'[t] = "dead" /\ writer[t] = "dead" /\ client[t] = "join" /\ client'[t] = "dead"
    BY <1>0, <1>4 DEF Join, Goto, writerVars
  <2> QED BY <1>0, <2>1 DEF Pipe, Whole, Reported, Early
<1> QED BY <1>1, <1>2, <1>3, <1>4

LEMMA PipeReport ==
  ASSUME TypeOK, NEW t \in Table, Pipe(t), ReportError(t)
  PROVE  Pipe(t)' /\ Whole(t)'
<1>1. /\ UNCHANGED <<lastPrimaryKey, task_queue, file, writer>> /\ client[t] = "fail"
      /\ client'[t] = "finish" /\ t \in error_queue'
  BY Types DEF ReportError, Goto, writerVars
<1>2. writer[t] = "write" => Writing(t)'
  BY <1>1 DEF Pipe, Writing, InPipe
<1> QED BY <1>1, <1>2 DEF Pipe, Whole, Reported, Early

LEMMA OneMore ==
  ASSUME NEW a \in Nat, NEW b \in Nat, NEW c \in Nat, a = b + c
  PROVE  a + 1 = b + (c + 1)
OBVIOUS

LEMMA OneLater ==
  ASSUME NEW a, NEW b \in Nat, NEW c \in Nat, a = b + (c + 1)
  PROVE  a = (b + 1) + c
OBVIOUS

LEMMA PipePut ==
  ASSUME TypeOK, NEW t \in Table, Pipe(t), Whole(t), Put(t)
  PROVE  Pipe(t)' /\ Whole(t)'
<1> DEFINE q == task_queue[t]
           k == lastPrimaryKey[t]
<1>1. /\ UNCHANGED <<file, writer, interrupt_event, error_queue, errors>>
      /\ client[t] = "put" /\ client'[t] = "read" /\ writer[t] # "none"
      /\ k \in Nat /\ lastPrimaryKey'[t] = k + 1 /\ task_queue'[t] = Append(q, k + 1)
  BY Types DEF Put, Goto, writerVars, mainVars, shared, Pipe
<1>2. /\ q \in Seq(Nat) /\ Len(q) \in Nat /\ Len(file[t]) \in Nat
      /\ task_queue'[t] = Append(q, k + 1)
  <2>1. q \in Seq(0 .. RowCount) /\ 0 .. RowCount \subseteq Nat
    BY Types
  <2>2. q \in Seq(Nat)
    BY <2>1, SeqMonotonic
  <2> QED BY <1>1, <2>2, Types
<1>3. /\ Len(task_queue'[t]) = Len(q) + 1 /\ task_queue'[t][Len(q) + 1] = k + 1
      /\ \A i \in 1 .. Len(q) : task_queue'[t][i] = q[i]
  BY <1>1, <1>2
<1>4. writer[t] = "write" => Writing(t)'
  <2> SUFFICES ASSUME writer[t] = "write" PROVE Writing(t)'
    OBVIOUS
  <2>1. /\ InPipe(t) = Len(q) /\ InPipe(t)' = Len(q) + 1 /\ k = Len(file[t]) + Len(q)
        /\ \A i \in 1 .. Len(q) : q[i] = Len(file[t]) + i
    BY <1>1, <1>3 DEF InPipe, Pipe, Writing
  <2>5. k + 1 = Len(file[t]) + (Len(q) + 1)
    BY <1>1, <1>2, <2>1, OneMore, Zenon
  <2>2. \A i \in 1 .. Len(q) + 1 : task_queue'[t][i] = Len(file[t]) + i
    <3> SUFFICES ASSUME NEW i \in 1 .. Len(q) + 1 PROVE task_queue'[t][i] = Len(file[t]) + i
      OBVIOUS
    <3>1. CASE i \in 1 .. Len(q)
      BY <1>3, <2>1, <3>1
    <3>2. CASE i = Len(q) + 1
      <4>1. task_queue'[t][i] = k + 1
        BY <1>3, <3>2
      <4> QED BY <2>5, <3>2, <4>1
    <3> QED BY <1>2, <3>1, <3>2
  <2>3. lastPrimaryKey'[t] = Len(file[t]) + (Len(q) + 1)
    BY <1>1, <2>5
  <2>4. Len(q) + 1 >= 0
    BY <1>2
  <2> QED BY <1>1, <2>1, <2>2, <2>3, <2>4 DEF Writing
<1>5. Pipe(t)'
  BY <1>1, <1>4 DEF Pipe, Early
<1> QED BY <1>1, <1>5 DEF Whole, Reported

LEMMA PipeFinish ==
  ASSUME TypeOK, NEW t \in Table, Pipe(t), Whole(t), Finish(t)
  PROVE  Pipe(t)' /\ Whole(t)'
<1> DEFINE q == task_queue[t]
<1>1. /\ UNCHANGED <<file, writer, lastPrimaryKey, interrupt_event, error_queue, errors>>
      /\ client[t] = "finish"
      /\ \/ writer[t] \in {"none", "dead"} /\ client'[t] = "dead" /\ task_queue' = task_queue
         \/ /\ writer[t] \in {"write", "drain"} /\ client'[t] = "join"
            /\ task_queue'[t] = Append(q, Stop)
  BY Types DEF Finish, Goto, writerVars, mainVars, shared
<1>2. CASE writer[t] \in {"none", "dead"} /\ client'[t] = "dead" /\ task_queue' = task_queue
  BY <1>1, <1>2 DEF Pipe, Whole, Reported, Early
<1>3. CASE writer[t] \in {"write", "drain"} /\ client'[t] = "join" /\ task_queue'[t] = Append(q, Stop)
  <2>1. q \in Seq(Nat) /\ Len(q) \in Nat /\ Stop \in Nat
    <3>1. q \in Seq(0 .. RowCount) /\ 0 .. RowCount \subseteq Nat
      BY Types
    <3> QED BY <3>1, SeqMonotonic, Types DEF Stop
  <2>2. /\ Len(task_queue'[t]) = Len(q) + 1 /\ task_queue'[t][Len(q) + 1] = Stop
        /\ \A i \in 1 .. Len(q) : task_queue'[t][i] = q[i]
    BY <1>3, <2>1
  <2>3. writer[t] = "write" => Writing(t)'
    <3>1. InPipe(t) = Len(q) /\ InPipe(t)' = Len(q)
      BY <1>1, <1>3, <2>1, <2>2 DEF InPipe
    <3> QED BY <1>1, <1>3, <2>1, <2>2, <3>1 DEF Pipe, Writing
  <2> QED BY <1>1, <1>3, <2>3 DEF Pipe, Whole, Reported, Early
<1> QED BY <1>1, <1>2, <1>3

-----------------------------------------------------------------------------
(* The table of a writer that goes on.  The item it takes is the row after *)
(* those of the file, or the exit task, and then the file has them all.    *)
LEMMA HeadOfPipe ==
  ASSUME TypeOK, NEW t \in Table, Pipe(t), writer[t] = "write", task_queue[t] # <<>>
  PROVE  LET q == task_queue[t] IN
         /\ Head(q) = q[1] /\ Len(q) \in Nat \ {0} /\ Len(Tail(q)) = Len(q) - 1
         /\ \A i \in 1 .. Len(q) - 1 : Tail(q)[i] = q[i + 1]
         /\ IF InPipe(t) = 0 THEN Head(q) = Stop ELSE Head(q) = Len(file[t]) + 1 /\ Head(q) # Stop
<1> DEFINE q == task_queue[t]
<1>1. q \in Seq(0 .. RowCount) /\ q # <<>> /\ Len(file[t]) \in Nat
  BY Types
<1>2. Len(q) \in Nat \ {0}
  BY <1>1, EmptySeq
<1>3. Head(q) = q[1]
  BY <1>1, <1>2
<1>4. Len(Tail(q)) = Len(q) - 1 /\ \A i \in 1 .. Len(q) - 1 : Tail(q)[i] = q[i + 1]
  BY <1>1, HeadTailProperties
<1>5. Writing(t)
  BY DEF Pipe
<1>6. CASE InPipe(t) = 0
  <2>1. client[t] = "join" /\ Len(q) = 1
    BY <1>2, <1>5, <1>6 DEF InPipe, Writing
  <2> QED BY <1>2, <1>3, <1>4, <1>5, <1>6, <2>1 DEF Writing
<1>7. CASE InPipe(t) # 0
  <2>1. InPipe(t) \in Nat \ {0}
    BY <1>2, <1>5, <1>7 DEF InPipe, Writing
  <2>2. q[1] = Len(file[t]) + 1
    BY <1>5, <2>1 DEF Writing
  <2>3. q[1] # Stop
    BY <1>1, <2>2 DEF Stop
  <2> QED BY <1>2, <1>3, <1>4, <1>7, <2>2, <2>3
<1> QED BY <1>6, <1>7

LEMMA PipeWrite ==
  ASSUME TypeOK, NEW t \in Table, Pipe(t), Whole(t), WriteItem(t)
  PROVE  Pipe(t)' /\ Whole(t)'
<1> DEFINE q == task_queue[t]
           n == Len(file[t])
<1>0. /\ UNCHANGED <<client, lastPrimaryKey, interrupt_event, error_queue, errors>>
      /\ writer[t] = "write" /\ q # <<>> /\ task_queue'[t] = Tail(q) /\ n \in Nat
      /\ Writing(t) /\ client[t] \in {"read", "put", "fail", "finish", "join"}
  BY Types DEF WriteItem, TakeItem, mainVars, shared, Pipe, Writing
<1>1. CASE Head(q) = Stop
  <2>1. writer'[t] = "dead" /\ file' = file
    BY <1>1, Types DEF WriteItem
  <2>2. InPipe(t) = 0 /\ Len(q) \in Nat \ {0} /\ lastPrimaryKey[t] = n /\ client[t] = "join"
    <3>1. InPipe(t) = 0 /\ Len(q) \in Nat \ {0}
      BY <1>0, <1>1, HeadOfPipe
    <3>2. client[t] = "join"
      BY <3>1 DEF InPipe
    <3>3. lastPrimaryKey[t] = n + 0
      BY <1>0, <3>1 DEF Writing
    <3> QED BY <1>0, <3>1, <3>2, <3>3
  <2> QED BY <1>0, <2>1, <2>2 DEF Pipe, Whole, Reported, Early
<1>2. CASE Head(q) # Stop
  <2>1. /\ writer'[t] = "write" /\ file'[t] = Append(file[t], Head(q)) /\ file[t] \in Seq(Row)
    BY <1>0, <1>2, Types DEF WriteItem
  <2>2. /\ Head(q) = n + 1 /\ InPipe(t) # 0 /\ Len(q) \in Nat \ {0} /\ Len(Tail(q)) = Len(q) - 1
        /\ \A i \in 1 .. Len(q) - 1 : Tail(q)[i] = q[i + 1]
    BY <1>0, <1>2, HeadOfPipe
  <2>3. /\ Len(file'[t]) = n + 1 /\ file'[t][n + 1] = n + 1
        /\ \A i \in 1 .. n : file'[t][i] = file[t][i]
    <3>1. Head(q) \in Row
      <4>1. Head(q) \in 0 .. RowCount
        BY <1>0, Types, HeadTailProperties
      <4> QED BY <1>2, <4>1, Types DEF Row, Stop
    <3> HIDE DEF q
    <3> QED BY <2>1, <2>2, <3>1
  <2>4. \A i \in 1 .. Len(file'[t]) : file'[t][i] = i
    <3>1. ASSUME NEW i \in 1 .. n + 1 PROVE file'[t][i] = i
      <4>1. i \in 1 .. n \/ i = n + 1
        BY <1>0
      <4> QED BY <2>3, <4>1 DEF Pipe
    <3> QED BY <2>3, <3>1
  <2>5. Writing(t)'
    <3> DEFINE k == InPipe(t)
    <3>1. k \in Nat \ {0} /\ InPipe(t)' = k - 1 /\ k <= Len(q) /\ lastPrimaryKey[t] = n + k
      BY <1>0, <2>2 DEF InPipe, Writing
    <3> HIDE DEF k
    <3>2. lastPrimaryKey[t] = (n + 1) + (k - 1) /\ k - 1 >= 0
      BY <1>0, <3>1
    <3>3. \A i \in 1 .. k - 1 : Tail(q)[i] = (n + 1) + i
      <4> SUFFICES ASSUME NEW i \in 1 .. k - 1 PROVE Tail(q)[i] = (n + 1) + i
        OBVIOUS
      <4>1. i \in 1 .. Len(q) - 1 /\ i + 1 \in 1 .. k /\ i \in Nat
        BY <2>2, <3>1
      <4>2. Tail(q)[i] = q[i + 1] /\ q[i + 1] = n + (i + 1)
        BY <1>0, <2>2, <4>1 DEF Writing, k
      <4>3. Tail(q)[i] = n + (i + 1)
        BY <4>2
      <4> QED BY <1>0, <4>1, <4>3, OneLater, Zenon
    <3>4. client[t] = "join" => Tail(q)[Len(Tail(q))] = Stop
      <4>1. client[t] = "join" => k = Len(q) - 1 /\ q[Len(q)] = Stop
        BY <1>0 DEF InPipe, Writing, k
      <4> QED BY <2>2, <3>1, <4>1
    <3> QED BY <1>0, <2>3, <3>1, <3>2, <3>3, <3>4 DEF Writing
  <2> QED BY <1>0, <2>1, <2>4, <2>5 DEF Pipe, Whole, Reported, Early
<1> QED BY <1>1, <1>2

LEMMA PipeFails ==
  ASSUME TypeOK, NEW t \in Table, Pipe(t), WriterFails(t)
  PROVE  Pipe(t)' /\ Whole(t)'
<1>1. /\ UNCHANGED <<client, lastPrimaryKey, file>> /\ writer[t] = "write" /\ writer'[t] = "drain"
      /\ t \in error_queue' /\ client[t] \in {"read", "put", "fail", "finish", "join"}
  BY Types DEF WriterFails, Pipe, Writing
<1> QED BY <1>1 DEF Pipe, Whole, Reported, Early

LEMMA PipeDrain ==
  ASSUME TypeOK, NEW t \in Table, Pipe(t), Whole(t), Drain(t)
  PROVE  Pipe(t)' /\ Whole(t)'
<1>1. /\ UNCHANGED <<client, lastPrimaryKey, file, interrupt_event, error_queue, errors>>
      /\ writer[t] = "drain" /\ writer'[t] \in {"drain", "dead"}
  BY Types DEF Drain, mainVars, shared
<1>2. Reported(t)
  BY <1>1 DEF Whole
<1> QED BY <1>1, <1>2 DEF Pipe, Whole, Reported, Early

-----------------------------------------------------------------------------
LEMMA PipeInit == Init => \A t \in Table : Pipe(t) /\ Whole(t)
<1> SUFFICES ASSUME Init, NEW t \in Table PROVE Pipe(t) /\ Whole(t)
  OBVIOUS
<1>1. client[t] = "none" /\ writer[t] = "none" /\ lastPrimaryKey[t] = 0
      /\ task_queue[t] = <<>> /\ file[t] = <<>>
  BY DEF Init
<1>2. Len(<<>>) = 0
  OBVIOUS
<1> QED BY <1>1, <1>2 DEF Pipe, Whole, Early

LEMMA PipeMain ==
  ASSUME TypeOK, NEW t \in Table, Pipe(t), Whole(t), Reported(t) => Reported(t)', MainInv,
         MainStep \/ \E all \in BOOLEAN : Interrupt(all)
  PROVE  Pipe(t)' /\ Whole(t)'
<1> USE DEF clientVars, writerVars
<1>1. CASE TakeError \/ NoMoreErrors \/ Filter
  <2>1. Same(t)
    BY <1>1 DEF TakeError, NoMoreErrors, Filter, Same
  <2> QED BY <2>1, PipeSame, WholeSame
<1>2. CASE Spawn
  <2>1. UNCHANGED <<lastPrimaryKey, task_queue, writer, file>>
    BY <1>2 DEF Spawn
  <2>2. client'[t] = client[t] \/ (client[t] = "none" /\ client'[t] = "version")
    <3>1. /\ client \in [Table -> Places] /\ \A u \in arg_lists : client[u] = "none"
      BY Types DEF MainInv, TypeOK
    <3>2. ASSUME NEW u \in arg_lists, Goto(u, "version")
          PROVE  client'[t] = client[t] \/ (client[t] = "none" /\ client'[t] = "version")
      BY <3>1, <3>2 DEF Goto
    <3> QED BY <1>2, <3>2 DEF Spawn
  <2>3. CASE client'[t] = client[t]
    <3>1. Same(t)
      BY <2>1, <2>3 DEF Same
    <3> QED BY <3>1, PipeSame, WholeSame
  <2>4. CASE client[t] = "none" /\ client'[t] = "version"
    <3>1. Pipe(t)'
      BY <2>1, <2>4 DEF Pipe, Early
    <3>2. Whole(t)'
      BY <2>1, <2>4 DEF Whole, Pipe, Early
    <3> QED BY <3>1, <3>2
  <2> QED BY <2>2, <2>3, <2>4
<1>3. ASSUME NEW all \in BOOLEAN, Interrupt(all) PROVE Pipe(t)' /\ Whole(t)'
  <2>1. Reported(t)' /\ UNCHANGED <<lastPrimaryKey, task_queue, file>>
    BY <1>3 DEF Interrupt, Reported
  <2>2. CASE Same(t)
    BY <2>1, <2>2, PipeSame DEF Whole
  <2>3. CASE all
    <3>1. /\ client'[t] = IF client[t] \in Gone \cup {"none"} THEN client[t] ELSE "dead"
          /\ writer'[t] = IF writer[t] = "none" THEN "none" ELSE "dead"
      BY <1>3, <2>3 DEF Interrupt
    <3> QED BY <2>1, <3>1 DEF Pipe, Whole, Early, Gone
  <2>4. CASE ~all
    <3>1. Same(t)
      BY <1>3, <2>4 DEF Interrupt, Same
    <3> QED BY <2>2, <3>1
  <2> QED BY <2>3, <2>4
<1> QED BY <1>1, <1>2, <1>3 DEF MainStep

LEMMA PipeStep ==
  ASSUME TypeOK, MainInv, \A u \in Table : Pipe(u) /\ Whole(u), [Next]_vars, NEW t \in Table
  PROVE  Pipe(t)' /\ Whole(t)'
<1>0. Reported(t) => Reported(t)'
  BY ReportedStays
<1>1. CASE MainStep \/ \E all \in BOOLEAN : Interrupt(all)
  BY <1>0, <1>1, PipeMain
<1>2. ASSUME NEW u \in Table,
             ClientStep(u) \/ ConnectionProblem(u) \/ WriterStep(u) \/ WriterFails(u)
      PROVE  Pipe(t)' /\ Whole(t)'
  <2>1. CASE u # t
    <3>1. Same(t)
      BY <1>2, <2>1, Others
    <3> QED BY <1>0, <3>1, PipeSame, WholeSame
  <2>2. CASE u = t
    BY <1>2, <2>2, PipeClient, PipeReport, PipePut, PipeFinish, PipeWrite, PipeFails, PipeDrain
       DEF ClientStep, WriterStep
  <2> QED BY <2>1, <2>2
<1>3. CASE UNCHANGED vars
  <2>1. Same(t)
    BY <1>3 DEF vars, clientVars, writerVars, Same
  <2> QED BY <1>0, <2>1, PipeSame, WholeSame
<1> QED BY <1>1, <1>2, <1>3 DEF Next

LEMMA Inductive == Spec => []IInv
<1>1. Init => IInv
  BY TypeInit, MainInit, PipeInit DEF IInv
<1>2. IInv /\ [Next]_vars => IInv'
  <2> SUFFICES ASSUME TypeOK, MainInv, \A t \in Table : Pipe(t) /\ Whole(t), [Next]_vars
               PROVE  TypeOK' /\ MainInv' /\ \A t \in Table : Pipe(t)' /\ Whole(t)'
    BY DEF IInv
  <2> QED BY TypeStep, MainInvStep, PipeStep
<1> QED
  BY <1>1, <1>2, PTL DEF Spec

(* Types, the limit on the clients, and no process left behind by a        *)
(* run_clients that has ended: a client main has seen dead has no writer.  *)
THEOREM ExportInvariant == Spec => []ExportInv
<1>1. IInv => ExportInv
  <2> SUFFICES ASSUME IInv, main = "done", NEW t \in Table
               PROVE  client[t] \in Gone \cup {"none"} /\ writer[t] \in {"none", "dead"}
    BY DEF IInv, ExportInv, NoProcessLeft
  <2>1. client[t] \in Gone \cup {"none"}
    BY DEF IInv, TypeOK, MainInv
  <2> QED BY <2>1 DEF IInv, Pipe, Early, Gone
<1> QED
  BY <1>1, Inductive, PTL

(* A file has the rows of its table in order, none missing and none twice, *)
(* whatever cursors they came from; what is not in it yet is in the pipe.  *)
THEOREM FilesFaithful == Spec => []FileFaithful
<1>1. IInv => FileFaithful
  <2> SUFFICES ASSUME IInv, NEW t \in Table
               PROVE  /\ file[t] = UpTo(Len(file[t]))
                      /\ writer[t] = "write" =>
                           file[t] \o task_queue[t] \in
                             {UpTo(lastPrimaryKey[t]), Append(UpTo(lastPrimaryKey[t]), Stop)}
    BY DEF FileFaithful
  <2> DEFINE f == file[t]
             q == task_queue[t]
             n == Len(f)
             k == InPipe(t)
             up == UpTo(lastPrimaryKey[t])
  <2>1. /\ f \in Seq(Nat) /\ q \in Seq(Nat) /\ n \in Nat /\ Len(q) \in Nat
        /\ lastPrimaryKey[t] \in Nat /\ Pipe(t)
    <3>1. /\ f \in Seq(Row) /\ q \in Seq(0 .. RowCount) /\ lastPrimaryKey[t] \in 0 .. RowCount
          /\ n \in Nat /\ Len(q) \in Nat /\ Pipe(t)
      BY Types DEF IInv
    <3>2. Row \subseteq Nat /\ 0 .. RowCount \subseteq Nat
      BY DEF Row
    <3>3. f \in Seq(Nat) /\ q \in Seq(Nat)
      BY <3>1, <3>2, SeqMonotonic
    <3> QED BY <3>1, <3>2, <3>3
  <2>2. f = UpTo(n)
    <3>1. /\ UpTo(n) \in Seq(Nat) /\ Len(UpTo(n)) = n
          /\ \A i \in 1 .. n : UpTo(n)[i] = i
      BY <2>1, UpToProperties
    <3>2. \A i \in 1 .. n : f[i] = i
      BY <2>1 DEF Pipe
    <3> HIDE DEF f
    <3> QED BY <2>1, <3>1, <3>2, SeqEqual
  <2>3. ASSUME writer[t] = "write" PROVE f \o q \in {up, Append(up, Stop)}
    <3>1. /\ up \in Seq(Nat) /\ Len(up) = lastPrimaryKey[t]
          /\ \A i \in 1 .. lastPrimaryKey[t] : up[i] = i
      BY <2>1, UpToProperties
    <3>2. /\ k \in Nat /\ lastPrimaryKey[t] = n + k /\ Writing(t)
          /\ \A i \in 1 .. k : q[i] = n + i
          /\ \A i \in 1 .. n : f[i] = i
      <4>1. Writing(t) /\ \A i \in 1 .. n : f[i] = i
        BY <2>1, <2>3 DEF Pipe
      <4>2. k >= 0 /\ lastPrimaryKey[t] = n + k /\ \A i \in 1 .. k : q[i] = n + i
        BY <4>1 DEF Writing
      <4>3. k \in Int
        BY <2>1 DEF InPipe
      <4> HIDE DEF k
      <4>4. k \in Nat
        BY <4>2, <4>3
      <4> QED BY <4>1, <4>2, <4>4
    <3>3. /\ f \o q \in Seq(Nat) /\ Len(f \o q) = n + Len(q)
          /\ \A i \in 1 .. n + Len(q) : (f \o q)[i] = IF i <= n THEN f[i] ELSE q[i - n]
      BY <2>1, ConcatProperties, Zenon
    <3>4. \/ k = Len(q)
          \/ k = Len(q) - 1 /\ q[Len(q)] = Stop
      BY <3>2 DEF InPipe, Writing
    <3> DEFINE all == f \o q
    <3> HIDE DEF f, q, n, k, up, all
    <3>5. ASSUME NEW i \in 1 .. n + k PROVE all[i] = i
      <4>1. CASE i <= n
        BY <2>1, <3>2, <3>3, <3>4, <4>1 DEF all
      <4>2. CASE i > n
        <5>1. i - n \in 1 .. k /\ i \in 1 .. n + Len(q) /\ ~(i <= n)
          BY <2>1, <3>2, <3>4, <4>2
        <5>2. all[i] = q[i - n] /\ q[i - n] = n + (i - n)
          BY <3>2, <3>3, <5>1 DEF all
        <5> QED BY <2>1, <5>1, <5>2
      <4> QED BY <2>1, <4>1, <4>2
    <3>6. CASE k = Len(q)
      <4>1. all \in Seq(Nat) /\ Len(all) = n + k
        BY <3>3, <3>6 DEF all
      <4>2. Len(up) = n + k /\ \A i \in 1 .. n + k : up[i] = i
        BY <3>1, <3>2
      <4>3. all = up
        BY <3>1, <3>5, <4>1, <4>2, SeqEqual
      <4> QED BY <4>3 DEF all
    <3>7. CASE k = Len(q) - 1 /\ q[Len(q)] = Stop
      <4> DEFINE ended == Append(up, Stop)
      <4>1. /\ ended \in Seq(Nat) /\ Len(ended) = n + k + 1 /\ ended[n + k + 1] = Stop
            /\ \A i \in 1 .. n + k : ended[i] = i
        <5>1. Stop \in Nat
          BY DEF Stop
        <5>2. /\ ended \in Seq(Nat) /\ Len(ended) = Len(up) + 1 /\ ended[Len(up) + 1] = Stop
              /\ \A i \in 1 .. Len(up) : ended[i] = up[i]
          BY <3>1, <5>1
        <5> HIDE DEF ended
        <5> QED BY <3>1, <3>2, <5>2
      <4>2. all \in Seq(Nat) /\ Len(all) = n + k + 1 /\ all[n + k + 1] = Stop
        <5>1. Len(q) = k + 1 /\ n + Len(q) = n + k + 1 /\ (n + k + 1) - n = Len(q)
              /\ ~(n + k + 1 <= n) /\ n + k + 1 \in 1 .. n + Len(q)
          BY <2>1, <3>2, <3>7
        <5> QED BY <3>3, <3>7, <5>1 DEF all
      <4> HIDE DEF ended
      <4>3. \A i \in 1 .. n + k + 1 : i \in 1 .. n + k \/ i = n + k + 1
        BY <2>1, <3>2
      <4>4. all = ended
        BY <3>5, <4>1, <4>2, <4>3, SeqEqual
      <4> QED BY <4>4 DEF all, ended
    <3> QED BY <3>4, <3>6, <3>7
  <2> QED BY <2>2, <2>3
<1> QED
  BY <1>1, Inductive, PTL

(* A run that reports success has exported every table in full, but for an *)
(* error still in the queue, and a client that died before its try.        *)
THEOREM LossesReported == Spec => []LossReported
<1>1. IInv => LossReported
  <2> SUFFICES ASSUME IInv, result = "success", NEW t \in Table, t \notin error_queue,
                      client[t] # "crashed"
               PROVE  file[t] = UpTo(RowCount)
    BY DEF LossReported
  <2>1. /\ TypeOK /\ MainInv /\ Pipe(t) /\ Whole(t) /\ RowCount \in Nat
        /\ file[t] \in Seq(Row) /\ Len(file[t]) \in Nat
    BY Types DEF IInv
  <2>2. main = "done" /\ ~Reported(t)
    BY <2>1 DEF MainInv, Reported
  <2>3. client[t] = "dead"
    BY <2>1, <2>2 DEF MainInv, TypeOK, Gone
  <2>4. lastPrimaryKey[t] = RowCount /\ Len(file[t]) = RowCount
    <3>1. lastPrimaryKey[t] = RowCount
      BY <2>1, <2>2, <2>3 DEF Whole
    <3>2. CASE writer[t] = "none"
      <4>1. file[t] = <<>> /\ lastPrimaryKey[t] = 0 /\ Len(<<>>) = 0
        BY <2>1, <3>2 DEF Pipe
      <4> QED BY <3>1, <4>1
    <3>3. CASE writer[t] = "dead"
      BY <2>1, <2>2, <3>1, <3>3 DEF Whole
    <3> QED BY <2>1, <2>3, <3>2, <3>3, <3>1 DEF Pipe
  <2>5. /\ UpTo(RowCount) \in Seq(Nat) /\ Len(UpTo(RowCount)) = RowCount
        /\ \A i \in 1 .. RowCount : UpTo(RowCount)[i] = i
    BY <2>1, UpToProperties
  <2>6. file[t] \in Seq(Nat)
    <3>1. Row \subseteq Nat
      BY DEF Row
    <3> QED BY <2>1, <3>1, SeqMonotonic
  <2>7. \A i \in 1 .. RowCount : file[t][i] = i
    BY <2>1, <2>4 DEF Pipe
  <2> QED BY <2>4, <2>5, <2>6, <2>7, SeqEqual
<1> QED
  BY <1>1, Inductive, PTL
=============================================================================
