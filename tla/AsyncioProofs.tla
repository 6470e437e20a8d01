--------------------------- MODULE AsyncioProofs ----------------------------
(***************************************************************************)
(* Proofs about Asyncio, for any tasks and any numbers of instances, of    *)
(* queries and of rows.                                                    *)
(***************************************************************************)
EXTENDS Asyncio, FiniteSetTheorems, TLAPS

(* TypeOK without the bounds on what is counted.                           *)
TaskType == [pc : Place, op : Op, c : Cursor]
Typed ==
  /\ instance \in 0 .. gen /\ gen \in Gen /\ next_token \in 0 .. MaxToken
  /\ stream \in [Gen -> {"none", "open", "closed"}]
  /\ closing \in [Gen -> BOOLEAN]
  /\ cached \subseteq Cursor /\ held \subseteq Cursor /\ cancelled \subseteq Cursor
  /\ queries \in [Cursor -> {"none", "start", "plain"}]
  /\ reader \in [Gen -> {"none", "run", "ended", "failed"}]
  /\ error \in [Cursor -> CursorError]
  /\ outstanding \in [Cursor -> Int]
  /\ threshold \in [Cursor -> 0 .. MaxRows + 1]
  /\ items \in [Cursor -> Nat] /\ got \in [Cursor -> Nat]
  /\ conts \subseteq Gen \X Cursor
  /\ link \in [Gen -> {"up", "down", "eof"}]
  /\ awaiting \in [Cursor -> Nat]
  /\ sent \in [Cursor -> 0 .. MaxRows] /\ done \in [Cursor -> BOOLEAN]
  /\ faults \in 0 .. MaxFaults
  /\ task \in [Task -> TaskType]

-----------------------------------------------------------------------------
(* Types.                                                                  *)
LEMMA Types ==
  /\ \A c \in Cursor : c[1] \in Gen /\ c[2] \in 0 .. MaxToken /\ c = <<c[1], c[2]>>
  /\ \A g \in Gen, t \in 0 .. MaxToken : <<g, t>> \in Cursor
  /\ 1 \in Gen /\ 0 \in 0 .. MaxToken /\ <<1, 0>> \in Cursor
  /\ Gen \subseteq Nat /\ MaxRows \in Nat /\ MaxGen \in Nat /\ MaxFaults \in Nat /\ MaxToken \in Nat
BY AsyncioAssumption DEF Cursor, Gen

LEMMA IdleType == Idle \in TaskType /\ Idle.pc = "idle"
BY Types DEF Idle, TaskType, Place, Op

LEMMA InitTyped == Init => Typed
BY Types, IdleType DEF Init, Typed, Gen, CursorError

LEMMA GenType ==
  ASSUME Typed
  PROVE  /\ gen \in Nat /\ instance \in Nat /\ instance <= gen /\ next_token \in Nat
         /\ instance # 0 => instance \in Gen
         /\ instance # 0 => \A t \in 0 .. MaxToken : <<instance, t>> \in Cursor
         /\ gen < MaxGen => gen + 1 \in Gen /\ <<gen + 1, 0>> \in Cursor
<1>1. gen \in 1 .. MaxGen /\ instance \in 0 .. gen /\ next_token \in 0 .. MaxToken
  BY DEF Typed, Gen
<1>2. instance # 0 => instance \in Gen
  BY <1>1, Types DEF Gen
<1>3. gen < MaxGen => gen + 1 \in Gen
  BY <1>1, Types DEF Gen
<1> QED BY <1>1, <1>2, <1>3, Types

LEMMA AtType ==
  ASSUME Typed, NEW u \in Task, NEW pc \in Place, NEW op \in Op, NEW c \in Cursor,
         At(u, pc, op, c) \/ Goto(u, pc) \/ Return(u)
  PROVE  /\ task' \in [Task -> TaskType]
         /\ task'[u].pc \in {pc, "idle"}
         /\ \A v \in Task \ {u} : task'[v] = task[v]
<1>1. task \in [Task -> TaskType] /\ Idle \in TaskType /\ Idle.pc = "idle"
  BY IdleType DEF Typed
<1>2. CASE At(u, pc, op, c)
  BY <1>1, <1>2 DEF At, TaskType
<1>3. CASE Goto(u, pc)
  BY <1>1, <1>3 DEF Goto, TaskType
<1>4. CASE Return(u)
  BY <1>1, <1>4 DEF Return
<1> QED BY <1>2, <1>3, <1>4

LEMMA WakeType ==
  ASSUME Typed, NEW g, NEW cache, NEW err, NEW pending
  PROVE  /\ Woken(g, cache, err, pending) \in [Task -> TaskType]
         /\ \A u \in Task :
              \/ Woken(g, cache, err, pending)[u] = task[u]
              \/ Woken(g, cache, err, pending)[u] = Idle
              \/ /\ Woken(g, cache, err, pending)[u].pc = "next" /\ task[u].pc = "wait"
                 /\ Woken(g, cache, err, pending)[u].c = task[u].c
<1> DEFINE W == Woken(g, cache, err, pending)
<1>1. ASSUME NEW u \in Task
      PROVE  /\ W[u] \in TaskType
             /\ W[u] = task[u] \/ W[u] = Idle \/ (W[u].pc = "next" /\ task[u].pc = "wait" /\ W[u].c = task[u].c)
  <2>1. W[u] = task[u] \/ W[u] = Idle \/ (W[u] = [task[u] EXCEPT !.pc = "next"] /\ task[u].pc = "wait")
    BY DEF Woken
  <2>2. task[u] \in TaskType /\ Idle \in TaskType
    BY IdleType DEF Typed
  <2> QED BY <2>1, <2>2 DEF TaskType, Place
<1>2. W = [u \in Task |-> W[u]]
  BY DEF Woken
<1> QED BY <1>1, <1>2

LEMMA DeliverType ==
  ASSUME Typed, NEW c \in Cursor
  PROVE  /\ Deliver(c) \in [Cursor -> Nat]
         /\ Deliver(c)[c] \in {awaiting[c], awaiting[c] + 1}
         /\ \A d \in Cursor \ {c} : Deliver(c)[d] = awaiting[d]
BY DEF Deliver, Typed

LEMMA DetachType ==
  ASSUME Typed, NEW g \in Gen, NEW cache \in SUBSET Cursor, NEW err \in [Cursor -> CursorError],
         NEW out \in [Cursor -> Int], Detach(g, cache, err, out)
  PROVE  /\ closing' \in [Gen -> BOOLEAN] /\ error' \in [Cursor -> CursorError]
         /\ outstanding' \in [Cursor -> Int] /\ cached' \subseteq Cursor
BY DEF Detach, Typed, CursorError

LEMMA ForgetType ==
  ASSUME Typed, NEW g \in Gen, NEW c \in Cursor, Forget(g) \/ ForgetAllBut(g, c)
  PROVE  queries' \in [Cursor -> {"none", "start", "plain"}] /\ cancelled' \subseteq Cursor
BY DEF Forget, ForgetAllBut, Typed

LEMMA RaisesType ==
  ASSUME Typed, NEW g \in Gen, NEW cache \in SUBSET Cursor, NEW err \in [Cursor -> CursorError],
         NEW out \in [Cursor -> Int], Raises(g, cache, err, out)
  PROVE  /\ closing' \in [Gen -> BOOLEAN] /\ error' \in [Cursor -> CursorError]
         /\ outstanding' \in [Cursor -> Int] /\ cached' \subseteq Cursor
         /\ queries' \in [Cursor -> {"none", "start", "plain"}] /\ cancelled' \subseteq Cursor
         /\ task' \in [Task -> TaskType]
         /\ stream' \in [Gen -> {"none", "open", "closed"}]
         /\ reader' \in [Gen -> {"none", "run", "ended", "failed"}]
<1>1. CASE closing[g]
  BY <1>1 DEF Raises, Typed
<1>2. CASE ~closing[g]
  <2>1. /\ Detach(g, cache, err, out) /\ Forget(g)
        /\ task' = Woken(g, cache, err, Pending(g))
        /\ stream' = [stream EXCEPT ![g] = "closed"]
        /\ \E end \in {"ended", "failed"} : reader' = [reader EXCEPT ![g] = end]
    BY <1>2 DEF Raises
  <2>2. task' \in [Task -> TaskType]
    BY <2>1, WakeType
  <2>3. queries' \in [Cursor -> {"none", "start", "plain"}] /\ cancelled' \subseteq Cursor
    BY <2>1, ForgetType, Types
  <2>4. stream' \in [Gen -> {"none", "open", "closed"}] /\ reader' \in [Gen -> {"none", "run", "ended", "failed"}]
    BY <2>1 DEF Typed
  <2> QED BY <2>1, <2>2, <2>3, <2>4, DetachType
<1> QED BY <1>1, <1>2

(* A task's own steps.                                                     *)
LEMMA TypeCalls ==
  ASSUME Typed, NEW u \in Task
  PROVE  /\ \A op \in {"start", "plain"} : Run(u, op) => Typed'
         /\ \A c \in Cursor : NextCall(u, c) \/ CursorClose(u, c) => Typed'
         /\ Cancel(u) \/ NextTimeout(u) \/ NextItem(u) \/ NextError(u) \/ NextWait(u) => Typed'
<1> USE DEF connVars, instVars, cursorVars, srvVars
<1>1. ASSUME NEW op \in {"start", "plain"}, Run(u, op) PROVE Typed'
  <2> DEFINE c == <<instance, next_token>>
  <2>1. c \in Cursor /\ instance \in Gen
    BY <1>1, GenType DEF Run, Usable, Typed
  <2> HIDE DEF c
  <2>2. /\ next_token < MaxToken /\ next_token' = next_token + 1 /\ awaiting' = Deliver(c)
        /\ queries' = [queries EXCEPT ![c] = op] /\ At(u, "run", op, c)
        /\ UNCHANGED <<instance, gen, stream, closing, cached, cancelled, reader, cursorVars,
                       conts, srvVars, faults>>
    BY <1>1 DEF Run, c
  <2>3. task' \in [Task -> TaskType]
    BY <2>1, <2>2, AtType DEF Place, Op
  <2>4. awaiting' \in [Cursor -> Nat] /\ next_token' \in 0 .. MaxToken
    BY <2>1, <2>2, DeliverType, Types DEF Typed
  <2> QED BY <2>1, <2>2, <2>3, <2>4 DEF Typed
<1>2. ASSUME NEW c \in Cursor, NextCall(u, c) PROVE Typed'
  <2>1. task' \in [Task -> TaskType]
    BY <1>2, AtType DEF NextCall, Place, Op
  <2> QED BY <1>2, <2>1 DEF NextCall, Typed
<1>3. ASSUME NEW c \in Cursor, CursorClose(u, c) PROVE Typed'
  <2>1. awaiting' \in [Cursor -> Nat]
    <3>1. awaiting' = awaiting \/ (instance \in Gen /\ awaiting' = Deliver(<<instance, c[2]>>))
      BY <1>3, GenType DEF CursorClose, Usable
    <3> QED BY <3>1, DeliverType, Types DEF Typed
  <2>2. /\ error' = [error EXCEPT ![c] = "Stopped"]
        /\ outstanding' = [outstanding EXCEPT ![c] = @ + 1] \/ outstanding' = outstanding
        /\ UNCHANGED <<connVars, instVars, threshold, items, held, got, conts, srvVars, task,
                       faults>>
    BY <1>3 DEF CursorClose
  <2> QED BY <2>1, <2>2 DEF Typed, CursorError
<1>4. ASSUME Cancel(u) PROVE Typed'
  <2>1. task' \in [Task -> TaskType]
    BY <1>4, IdleType DEF Cancel, Return, Typed
  <2>2. task[u].c \in Cursor
    BY DEF Typed, TaskType
  <2>3. faults' \in 0 .. MaxFaults
    BY <1>4, Types DEF Cancel, Fault, Typed
  <2>4. cancelled' \subseteq Cursor
    BY <1>4, <2>2 DEF Cancel, Typed
  <2> QED BY <1>4, <2>1, <2>3, <2>4 DEF Cancel, Typed
<1>5. ASSUME NextTimeout(u) \/ NextError(u) PROVE Typed'
  <2>1. task' \in [Task -> TaskType]
    BY <1>5, IdleType DEF NextTimeout, NextError, Return, Typed
  <2> QED BY <1>5, <2>1 DEF NextTimeout, NextError, Typed
<1>6. ASSUME NextItem(u) PROVE Typed'
  <2>1. task' \in [Task -> TaskType]
    BY <1>6, IdleType DEF NextItem, Return, Typed
  <2>2. task[u].c \in Cursor
    BY DEF Typed, TaskType
  <2>3. items' \in [Cursor -> Nat] /\ got' \in [Cursor -> Nat]
    BY <1>6, <2>2 DEF NextItem, Typed
  <2> QED BY <1>6, <2>1, <2>3 DEF NextItem, Typed
<1>7. ASSUME NextWait(u) PROVE Typed'
  <2> DEFINE c == task[u].c
  <2>1. c \in Cursor
    BY DEF Typed, TaskType
  <2>2. task' \in [Task -> TaskType]
    BY <1>7, <2>1, AtType DEF NextWait, Place, Op
  <2>3. conts' = conts \/ (instance \in Gen /\ conts' = conts \cup {<<instance, c>>})
    BY <1>7, GenType DEF NextWait, Usable
  <2>4. conts' \subseteq Gen \X Cursor
    BY <2>1, <2>3 DEF Typed
  <2>5. outstanding' = [outstanding EXCEPT ![c] = 1] \/ outstanding' = [outstanding EXCEPT ![c] = @]
    BY <1>7 DEF NextWait, c
  <2>6. outstanding' \in [Cursor -> Int]
    BY <2>1, <2>5 DEF Typed
  <2>7. UNCHANGED <<connVars, instVars, error, threshold, items, held, got, srvVars, awaiting,
                    faults>>
    BY <1>7 DEF NextWait
  <2> QED BY <2>2, <2>4, <2>6, <2>7 DEF Typed
<1> QED BY <1>1, <1>2, <1>3, <1>4, <1>5, <1>6, <1>7

LEMMA TypeContinue ==
  ASSUME Typed, NEW k \in conts, ContinueRuns(k) PROVE Typed'
<1>1. k[1] \in Gen /\ k[2] \in Cursor
  BY DEF Typed
<1>2. awaiting' \in [Cursor -> Nat]
  BY <1>1, Types, DeliverType DEF ContinueRuns
<1> QED BY <1>2 DEF ContinueRuns, Typed, connVars, instVars, cursorVars, srvVars

LEMMA TypeConnect ==
  ASSUME Typed, NEW u \in Task
  PROVE  /\ \A op \in {"close", "reconnect"}, noreply_wait \in BOOLEAN :
              Close(u, op, noreply_wait) => Typed'
         /\ CloseStream(u) \/ Shut(u) \/ ReconnectDetached(u) => Typed'
         /\ \A ok \in BOOLEAN : OpenConnection(u, ok) => Typed'
         /\ HandshakeDone(u) \/ HandshakeFails(u) => Typed'
<1> USE DEF connVars, instVars, cursorVars, srvVars
<1>0. task[u] \in TaskType /\ task[u].c \in Cursor /\ task[u].c[1] \in Gen
  BY Types DEF Typed, TaskType
<1>1. ASSUME NEW op \in {"close", "reconnect"}, NEW noreply_wait \in BOOLEAN,
             Close(u, op, noreply_wait)
      PROVE Typed'
  <2> DEFINE g == instance
             c == <<g, next_token>>
             after == Woken(g, cached, error, Pending(g))
  <2>1. g \in Gen /\ c \in Cursor
    BY <1>1, Types DEF Close, Typed, Gen
  <2>2. Detach(g, cached, error, outstanding) /\ (Forget(g) \/ ForgetAllBut(g, c))
    BY <1>1 DEF Close
  <2>3. /\ closing' \in [Gen -> BOOLEAN] /\ error' \in [Cursor -> CursorError]
        /\ outstanding' \in [Cursor -> Int] /\ cached' \subseteq Cursor
    BY <2>1, <2>2, DetachType DEF Typed
  <2>4. queries' \in [Cursor -> {"none", "start", "plain"}] /\ cancelled' \subseteq Cursor
    BY <2>1, <2>2, ForgetType
  <2>5. task' \in [Task -> TaskType]
    <3>1. \E x \in TaskType : task' = [after EXCEPT ![u] = x]
      <4>1. \A pc \in {"flush", "shut"} : [pc |-> pc, op |-> op, c |-> c] \in TaskType
        BY <2>1 DEF TaskType, Place, Op
      <4> QED BY <1>1, <4>1, IdleType DEF Close
    <3>2. after \in [Task -> TaskType]
      BY WakeType
    <3> QED BY <3>1, <3>2
  <2>6. awaiting' \in [Cursor -> Nat] /\ stream' \in [Gen -> {"none", "open", "closed"}]
    <3>1. /\ awaiting' = awaiting \/ awaiting' = Deliver(c)
          /\ stream' = stream \/ stream' = [stream EXCEPT ![g] = "closed"]
      BY <1>1 DEF Close
    <3> QED BY <2>1, <3>1, DeliverType DEF Typed
  <2>7. /\ instance' = 0 /\ next_token' = 0
        /\ UNCHANGED <<gen, reader, threshold, items, held, got, conts, srvVars, faults>>
    BY <1>1 DEF Close
  <2>8. 0 \in 0 .. gen /\ 0 \in 0 .. MaxToken
    BY Types DEF Typed
  <2> QED BY <2>3, <2>4, <2>5, <2>6, <2>7, <2>8 DEF Typed
<1>2. ASSUME CloseStream(u) PROVE Typed'
  <2>1. task' \in [Task -> TaskType]
    BY <1>2, <1>0, AtType DEF CloseStream, Place, Op
  <2> QED BY <1>0, <1>2, <2>1 DEF CloseStream, Typed
<1>3. ASSUME NewInstance(u)
      PROVE  task' \in [Task -> TaskType] /\ gen' \in Gen /\ instance' \in 0 .. gen'
  <2>1. gen + 1 \in Gen /\ <<gen + 1, 0>> \in Cursor
    BY <1>3, GenType DEF NewInstance
  <2> QED BY <1>3, <2>1, AtType, GenType DEF NewInstance, Place, Op
<1>4. ASSUME Shut(u) PROVE Typed'
  <2>1. CASE Return(u) /\ UNCHANGED <<gen, instance>>
    <3>1. task' \in [Task -> TaskType]
      BY <2>1, IdleType DEF Return, Typed
    <3> QED BY <1>4, <2>1, <3>1 DEF Shut, Typed
  <2>2. CASE NewInstance(u)
    BY <1>3, <1>4, <2>2 DEF Shut, Typed
  <2> QED BY <1>4, <2>1, <2>2 DEF Shut
<1>5. ASSUME ReconnectDetached(u) PROVE Typed'
  BY <1>3, <1>5 DEF ReconnectDetached, Typed
<1>6. ASSUME NEW ok \in BOOLEAN, OpenConnection(u, ok) PROVE Typed'
  <2>1. task' \in [Task -> TaskType]
    BY <1>6, <1>0, AtType DEF OpenConnection, Place, Op
  <2>2. stream' \in [Gen -> {"none", "open", "closed"}]
    BY <1>0, <1>6 DEF OpenConnection, Typed
  <2> QED BY <1>6, <2>1, <2>2 DEF OpenConnection, Typed
<1>7. ASSUME HandshakeDone(u) PROVE Typed'
  <2>1. task' \in [Task -> TaskType]
    BY <1>7, IdleType DEF HandshakeDone, Return, Typed
  <2> QED BY <1>0, <1>7, <2>1 DEF HandshakeDone, Typed
<1>8. ASSUME HandshakeFails(u) PROVE Typed'
  <2> DEFINE g == task[u].c[1]
  <2>1. /\ Detach(g, cached, error, outstanding) /\ Forget(g)
        /\ stream' = [stream EXCEPT ![g] = "closed"]
        /\ task' = [Woken(g, cached, error, Pending(g)) EXCEPT ![u] = Idle]
    BY <1>8 DEF HandshakeFails
  <2>2. /\ closing' \in [Gen -> BOOLEAN] /\ error' \in [Cursor -> CursorError]
        /\ outstanding' \in [Cursor -> Int] /\ cached' \subseteq Cursor
    BY <1>0, <2>1, DetachType DEF Typed
  <2>3. queries' \in [Cursor -> {"none", "start", "plain"}] /\ cancelled' \subseteq Cursor
    BY <1>0, <2>1, ForgetType
  <2>4. task' \in [Task -> TaskType]
    BY <2>1, WakeType, IdleType
  <2>5. stream' \in [Gen -> {"none", "open", "closed"}]
    BY <1>0, <2>1 DEF Typed
  <2> QED BY <1>8, <2>2, <2>3, <2>4, <2>5 DEF HandshakeFails, Typed
<1> QED BY <1>1, <1>2, <1>4, <1>5, <1>6, <1>7, <1>8

(* The reader's steps and the network's.                                   *)
LEMMA ReadsType ==
  ASSUME Typed, NEW c \in Cursor, Reads(c)
  PROVE  /\ Left(c) \in [Cursor -> Nat] /\ Left(c)[c] = awaiting[c] - 1
         /\ \A d \in Cursor \ {c} : Left(c)[d] = awaiting[d]
         /\ link' \in [Gen -> {"up", "down", "eof"}]
<1>1. awaiting \in [Cursor -> Nat] /\ awaiting[c] > 0 /\ awaiting[c] \in Nat
  BY DEF Reads, Typed
<1>2. Left(c) = [awaiting EXCEPT ![c] = awaiting[c] - 1] /\ awaiting[c] - 1 \in Nat
  BY <1>1 DEF Left
<1>3. link' = link \/ link' = [link EXCEPT ![c[1]] = "eof"]
  BY DEF Reads
<1> QED BY <1>1, <1>2, <1>3 DEF Typed

LEMMA AnsweredType ==
  ASSUME Typed, NEW c \in Cursor, NEW r \in Response, MayAnswer(c, r), Answered(c, r)
  PROVE  /\ sent' \in [Cursor -> 0 .. MaxRows] /\ done' \in [Cursor -> BOOLEAN]
         /\ sent'[c] = sent[c] + r.rows /\ DataLen(r) \in 0 .. MaxRows + 1
         /\ \A d \in Cursor \ {c} : sent'[d] = sent[d] /\ done'[d] = done[d]
         /\ EndOf(r) \in {"None", "Empty", "Server"} /\ r.rows \in 0 .. MaxRows
         /\ EndOf(r) = "None" <=> r.type = "SUCCESS_PARTIAL"
         /\ done'[c] = (done[c] \/ r.type # "SUCCESS_PARTIAL")
<1>1. /\ r.rows \in 0 .. MaxRows /\ r.type \in {"SUCCESS_PARTIAL", "SUCCESS_SEQUENCE", "ERROR"}
      /\ MaxRows \in Nat
  BY Types DEF Response
<1>2. sent[c] \in 0 .. MaxRows /\ sent[c] + r.rows <= MaxRows
  BY DEF Typed, MayAnswer
<1>3. sent' \in [Cursor -> 0 .. MaxRows] /\ done' \in [Cursor -> BOOLEAN]
  BY <1>1, <1>2 DEF Answered, Typed
<1>4. DataLen(r) \in 0 .. MaxRows + 1
  BY <1>1 DEF DataLen
<1> QED BY <1>1, <1>3, <1>4 DEF Answered, Typed, EndOf

(* The two outcomes of a batch.                                            *)
Counted(c) == [outstanding EXCEPT ![c] = IF WantsBatch(c, @ - 1) THEN 1 ELSE @ - 1]
BatchFails(c) ==
  /\ WantsBatch(c, outstanding[c] - 1) /\ ~Usable(link')
  /\ Raises(c[1], cached, error, Counted(c))
  /\ UNCHANGED <<threshold, items, conts>>
BatchArrives(c, r) ==
  /\ outstanding' = Counted(c)
  /\ IF WantsBatch(c, outstanding[c] - 1)
     THEN Usable(link') /\ conts' = conts \cup {<<instance, c>>} ELSE conts' = conts
  /\ threshold' = [threshold EXCEPT ![c] = DataLen(r)]
  /\ items' = [items EXCEPT ![c] = IF error[c] = "None" THEN items[c] + r.rows ELSE items[c]]
  /\ error' = [error EXCEPT ![c] = IF error[c] = "None" THEN EndOf(r) ELSE error[c]]
  /\ cached' = IF outstanding'[c] = 0 /\ error'[c] # "None" THEN cached \ {c} ELSE cached
  /\ Wake(c)
  /\ UNCHANGED <<closing, queries, cancelled, stream, reader>>

LEMMA CountedType ==
  ASSUME Typed, NEW c \in Cursor
  PROVE  /\ Counted(c) \in [Cursor -> Int]
         /\ Counted(c)[c] = IF WantsBatch(c, outstanding[c] - 1) THEN 1 ELSE outstanding[c] - 1
         /\ \A d \in Cursor \ {c} : Counted(c)[d] = outstanding[d]
BY DEF Counted, Typed, WantsBatch

LEMMA BatchCases ==
  ASSUME Typed, NEW c \in Cursor, NEW r \in Response, ReadBatch(c, r)
  PROVE  /\ c \in cached /\ MayAnswer(c, r) /\ Reads(c) /\ Answered(c, r) /\ awaiting' = Left(c)
         /\ UNCHANGED <<connVars, held, got, faults>>
         /\ BatchFails(c) \/ BatchArrives(c, r)
<1> DEFINE n == outstanding[c] - 1
           out == [outstanding EXCEPT ![c] = IF WantsBatch(c, n) THEN 1 ELSE n]
<1>1. /\ c \in cached /\ MayAnswer(c, r) /\ Reads(c) /\ Answered(c, r) /\ awaiting' = Left(c)
      /\ UNCHANGED <<connVars, held, got, faults>>
  BY DEF ReadBatch
<1>2. out = Counted(c)
  BY DEF Counted, WantsBatch
<1>3. CASE WantsBatch(c, n) /\ ~Usable(link')
  <2>1. Raises(c[1], cached, error, out) /\ UNCHANGED <<threshold, items, conts>>
    BY <1>3 DEF ReadBatch, WantsBatch
  <2> QED BY <1>1, <1>2, <1>3, <2>1 DEF BatchFails
<1>4. CASE ~(WantsBatch(c, n) /\ ~Usable(link'))
  <2>1. /\ outstanding' = out
        /\ conts' = IF WantsBatch(c, n) THEN conts \cup {<<instance, c>>} ELSE conts
        /\ threshold' = [threshold EXCEPT ![c] = DataLen(r)]
        /\ items' = [items EXCEPT ![c] = IF error[c] = "None" THEN @ + r.rows ELSE @]
        /\ error' = [error EXCEPT ![c] = IF @ = "None" THEN EndOf(r) ELSE @]
        /\ cached' = IF out[c] = 0 /\ error'[c] # "None" THEN cached \ {c} ELSE cached
        /\ Wake(c)
        /\ UNCHANGED <<closing, queries, cancelled, stream, reader>>
    BY <1>4 DEF ReadBatch, WantsBatch
  <2> QED BY <1>1, <1>2, <1>4, <2>1 DEF BatchArrives, Typed
<1> QED BY <1>3, <1>4

(* The outcomes of the first batch: the cursor is under construction when  *)
(* the connection is lost, it is made for a query that was cancelled, or   *)
(* it is handed over.                                                      *)
BeginFails(c) ==
  /\ ~Usable(link')
  /\ Detach(c[1], cached \cup {c}, [error EXCEPT ![c] = "None"], [outstanding EXCEPT ![c] = 1])
  /\ task' = Woken(c[1], cached \cup {c}, [error EXCEPT ![c] = "None"], {})
  /\ reader' = [reader EXCEPT ![c[1]] = "failed"]
  /\ UNCHANGED <<queries, cancelled, stream, threshold, items, held, conts>>
Begins(c, r) ==
  /\ Usable(link')
  /\ conts' = conts \cup {<<instance, c>>}
  /\ threshold' = [threshold EXCEPT ![c] = DataLen(r)]
  /\ items' = [items EXCEPT ![c] = r.rows]
BeginCancelled(c, r) ==
  /\ Begins(c, r)
  /\ Raises(c[1], cached \cup {c}, [error EXCEPT ![c] = EndOf(r)], [outstanding EXCEPT ![c] = 1])
  /\ held' = held
BeginArrives(c, r) ==
  /\ Begins(c, r)
  /\ error' = [error EXCEPT ![c] = EndOf(r)]
  /\ outstanding' = [outstanding EXCEPT ![c] = 1]
  /\ cached' = cached \cup {c}
  /\ queries' = [queries EXCEPT ![c] = "none"]
  /\ held' = held \cup {c}
  /\ task' = [u \in Task |-> IF task[u].pc = "run" /\ task[u].c = c THEN Idle ELSE task[u]]
  /\ UNCHANGED <<closing, cancelled, stream, reader>>

LEMMA StreamCases ==
  ASSUME NEW c \in Cursor, NEW r \in Response, ReadStream(c, r)
  PROVE  /\ c \notin cached /\ queries[c] = "start" /\ r.type # "ERROR" /\ MayAnswer(c, r)
         /\ Reads(c) /\ Answered(c, r) /\ awaiting' = Left(c)
         /\ UNCHANGED <<connVars, got, faults>>
         /\ BeginFails(c) \/ BeginCancelled(c, r) \/ BeginArrives(c, r)
BY DEF ReadStream, BeginFails, BeginCancelled, BeginArrives, Begins

LEMMA WakeCases ==
  ASSUME Typed, NEW c \in Cursor, Wake(c)
  PROVE  /\ task' \in [Task -> TaskType]
         /\ \A u \in Task : IF task[u].pc = "wait" /\ task[u].c = c
                            THEN task'[u].pc = "next" /\ task'[u].c = c ELSE task'[u] = task[u]
<1>1. task \in [Task -> TaskType]
  BY DEF Typed
<1> QED BY <1>1 DEF Wake, TaskType, Place

(* What is left when a batch is not the cause of an exception.             *)
LEMMA TypeBatch ==
  ASSUME Typed, NEW c \in Cursor, NEW r \in Response, ReadBatch(c, r) PROVE Typed'
<1>1. /\ c \in cached /\ MayAnswer(c, r) /\ Reads(c) /\ Answered(c, r) /\ awaiting' = Left(c)
      /\ UNCHANGED <<connVars, held, got, faults>> /\ (BatchFails(c) \/ BatchArrives(c, r))
  BY BatchCases
<1>2. /\ awaiting' \in [Cursor -> Nat] /\ link' \in [Gen -> {"up", "down", "eof"}]
      /\ sent' \in [Cursor -> 0 .. MaxRows] /\ done' \in [Cursor -> BOOLEAN] /\ c[1] \in Gen
      /\ DataLen(r) \in 0 .. MaxRows + 1 /\ EndOf(r) \in CursorError /\ r.rows \in Nat
      /\ Counted(c) \in [Cursor -> Int] /\ error \in [Cursor -> CursorError] /\ cached \in SUBSET Cursor
  BY <1>1, ReadsType, AnsweredType, CountedType, Types DEF Typed, CursorError
<1>3. CASE BatchFails(c)
  <2>1. Raises(c[1], cached, error, Counted(c)) /\ UNCHANGED <<threshold, items, conts>>
    BY <1>3 DEF BatchFails
  <2> QED BY <1>1, <1>2, <2>1, RaisesType DEF Typed, connVars
<1>4. CASE BatchArrives(c, r)
  <2>1. task' \in [Task -> TaskType]
    BY <1>4, WakeCases DEF BatchArrives
  <2>2. conts' \subseteq Gen \X Cursor
    <3>1. conts' = conts \/ (instance # 0 /\ conts' = conts \cup {<<instance, c>>})
      BY <1>4 DEF BatchArrives, Usable
    <3> QED BY <3>1, GenType DEF Typed
  <2>3. items' \in [Cursor -> Nat] /\ threshold' \in [Cursor -> 0 .. MaxRows + 1]
    <3>1. items[c] \in Nat /\ items[c] + r.rows \in Nat
      BY <1>2 DEF Typed
    <3> QED BY <1>2, <1>4, <3>1 DEF BatchArrives, Typed
  <2>4. error' \in [Cursor -> CursorError] /\ cached' \subseteq Cursor
    BY <1>2, <1>4 DEF BatchArrives, Typed
  <2> QED BY <1>1, <1>2, <1>4, <2>1, <2>2, <2>3, <2>4 DEF BatchArrives, Typed, connVars
<1> QED BY <1>1, <1>3, <1>4

LEMMA TypeStream ==
  ASSUME Typed, NEW c \in Cursor, NEW r \in Response, ReadStream(c, r) PROVE Typed'
<1> DEFINE cache == cached \cup {c}
           begun == [error EXCEPT ![c] = "None"]
           first == [error EXCEPT ![c] = EndOf(r)]
           out   == [outstanding EXCEPT ![c] = 1]
<1>1. /\ MayAnswer(c, r) /\ Reads(c) /\ Answered(c, r) /\ awaiting' = Left(c)
      /\ UNCHANGED <<connVars, got, faults>>
      /\ BeginFails(c) \/ BeginCancelled(c, r) \/ BeginArrives(c, r)
  BY StreamCases
<1>2. /\ awaiting' \in [Cursor -> Nat] /\ link' \in [Gen -> {"up", "down", "eof"}]
      /\ sent' \in [Cursor -> 0 .. MaxRows] /\ done' \in [Cursor -> BOOLEAN] /\ c[1] \in Gen
      /\ DataLen(r) \in 0 .. MaxRows + 1 /\ r.rows \in Nat
      /\ EndOf(r) \in CursorError
  BY <1>1, ReadsType, AnsweredType, Types DEF CursorError
<1>3. /\ begun \in [Cursor -> CursorError] /\ first \in [Cursor -> CursorError]
      /\ cache \in SUBSET Cursor /\ out \in [Cursor -> Int]
  BY <1>2 DEF Typed, CursorError
<1>4. CASE BeginFails(c)
  <2>1. Detach(c[1], cache, begun, out)
    BY <1>4 DEF BeginFails
  <2>2. /\ closing' \in [Gen -> BOOLEAN] /\ error' \in [Cursor -> CursorError]
        /\ outstanding' \in [Cursor -> Int] /\ cached' \subseteq Cursor
    BY <1>2, <1>3, <2>1, DetachType
  <2>3. task' \in [Task -> TaskType]
    BY <1>4, WakeType DEF BeginFails
  <2> QED BY <1>1, <1>2, <1>4, <2>2, <2>3 DEF BeginFails, Typed, connVars
<1>5. ASSUME Begins(c, r)
      PROVE  /\ conts' \subseteq Gen \X Cursor /\ items' \in [Cursor -> Nat]
             /\ threshold' \in [Cursor -> 0 .. MaxRows + 1]
  <2>1. instance # 0 /\ conts' = conts \cup {<<instance, c>>}
    BY <1>5 DEF Begins, Usable
  <2> QED BY <1>2, <1>5, <2>1, GenType DEF Begins, Typed
<1>6. CASE BeginCancelled(c, r)
  <2>1. Begins(c, r) /\ Raises(c[1], cache, first, out) /\ held' = held
    BY <1>6 DEF BeginCancelled
  <2> QED BY <1>1, <1>2, <1>3, <1>5, <2>1, RaisesType DEF Typed, connVars
<1>7. CASE BeginArrives(c, r)
  <2>1. task' \in [Task -> TaskType]
    BY <1>7, IdleType DEF BeginArrives, Typed
  <2> QED BY <1>1, <1>2, <1>3, <1>5, <1>7, <2>1 DEF BeginArrives, Typed, connVars
<1> QED BY <1>1, <1>4, <1>6, <1>7

(* The answer to a plain query.                                            *)
ValueArrives(c) ==
  /\ queries' = [queries EXCEPT ![c] = "none"]
  /\ UNCHANGED <<closing, cancelled, error, outstanding, cached, stream, reader>>

LEMMA ValueCases ==
  ASSUME Typed, NEW c \in Cursor, ReadValue(c)
  PROVE  /\ c \notin cached /\ queries[c] # "none" /\ Reads(c) /\ awaiting' = Left(c)
         /\ UNCHANGED <<connVars, threshold, items, held, got, conts, sent, done, faults>>
         /\ \/ c \in cancelled /\ Raises(c[1], cached, error, outstanding)
            \/ /\ ValueArrives(c) /\ task' \in [Task -> TaskType]
               /\ \A u \in Task : \/ task'[u] = task[u]
                                  \/ task[u].pc = "run" /\ task'[u] = Idle
                                  \/ /\ task[u].pc = "flush" /\ task'[u].pc = "flushed"
                                     /\ task'[u].c = task[u].c
<1>1. /\ c \notin cached /\ queries[c] # "none" /\ Reads(c) /\ awaiting' = Left(c)
      /\ UNCHANGED <<connVars, threshold, items, held, got, conts, sent, done, faults>>
  BY DEF ReadValue
<1>2. CASE c \in cancelled
  BY <1>1, <1>2 DEF ReadValue
<1>3. CASE c \notin cancelled
  <2> DEFINE T(u) == CASE task[u].pc = "run" /\ task[u].c = c   -> Idle
                       [] task[u].pc = "flush" /\ task[u].c = c -> [task[u] EXCEPT !.pc = "flushed"]
                       [] OTHER -> task[u]
  <2>1. ValueArrives(c) /\ task' = [u \in Task |-> T(u)]
    BY <1>3 DEF ReadValue, ValueArrives
  <2>2. ASSUME NEW u \in Task
        PROVE  /\ T(u) \in TaskType
               /\ \/ T(u) = task[u]
                  \/ task[u].pc = "run" /\ T(u) = Idle
                  \/ task[u].pc = "flush" /\ T(u).pc = "flushed" /\ T(u).c = task[u].c
    <3>1. task[u] \in TaskType /\ Idle \in TaskType
      BY IdleType DEF Typed
    <3> QED BY <3>1 DEF TaskType, Place
  <2> HIDE DEF T
  <2> QED BY <1>1, <2>1, <2>2
<1> QED BY <1>2, <1>3

LEMMA TypeRead ==
  ASSUME Typed
  PROVE  /\ \A c \in Cursor : ReadValue(c) \/ SkipWhileClosing(c) => Typed'
         /\ \A g \in Gen : UnexpectedResponse(g) \/ ReadEnd(g) \/ Drop(g) \/ Eof(g) => Typed'
<1>1. error \in [Cursor -> CursorError] /\ outstanding \in [Cursor -> Int] /\ cached \in SUBSET Cursor
  BY DEF Typed
<1>2. ASSUME NEW c \in Cursor, ReadValue(c) PROVE Typed'
  <2>1. /\ awaiting' \in [Cursor -> Nat] /\ link' \in [Gen -> {"up", "down", "eof"}]
        /\ c[1] \in Gen
        /\ UNCHANGED <<connVars, threshold, items, held, got, conts, sent, done, faults>>
    BY <1>2, ValueCases, ReadsType, Types
  <2>2. CASE Raises(c[1], cached, error, outstanding)
    BY <1>1, <2>1, <2>2, RaisesType DEF Typed, connVars
  <2>3. CASE ValueArrives(c) /\ task' \in [Task -> TaskType]
    BY <2>1, <2>3 DEF ValueArrives, Typed, connVars
  <2> QED BY <1>2, <2>2, <2>3, ValueCases
<1>3. ASSUME NEW c \in Cursor, SkipWhileClosing(c) PROVE Typed'
  <2>1. awaiting' \in [Cursor -> Nat] /\ link' \in [Gen -> {"up", "down", "eof"}]
    BY <1>3, ReadsType DEF SkipWhileClosing
  <2> QED BY <1>3, <2>1 DEF SkipWhileClosing, Typed, connVars, cursorVars
<1>4. ASSUME NEW g \in Gen, UnexpectedResponse(g) PROVE Typed'
  <2>1. faults' \in 0 .. MaxFaults
    BY <1>4, Types DEF UnexpectedResponse, Fault, Typed
  <2> QED BY <1>1, <1>4, <2>1, RaisesType DEF UnexpectedResponse, Typed, connVars, srvVars
<1>5. ASSUME NEW g \in Gen, ReadEnd(g) PROVE Typed'
  <2>1. awaiting' \in [Cursor -> Nat]
    BY <1>5 DEF ReadEnd, Typed
  <2> QED BY <1>1, <1>5, <2>1, RaisesType DEF ReadEnd, Typed, connVars, srvVars
<1>6. ASSUME NEW g \in Gen, Drop(g) \/ Eof(g) PROVE Typed'
  <2>1. faults' \in 0 .. MaxFaults
    BY <1>6, Types DEF Drop, Eof, Fault, Typed
  <2>2. link' \in [Gen -> {"up", "down", "eof"}]
    BY <1>6 DEF Drop, Eof, Typed
  <2> QED BY <1>6, <2>1, <2>2 DEF Drop, Eof, Typed, connVars, instVars, cursorVars
<1> QED BY <1>2, <1>3, <1>4, <1>5, <1>6

LEMMA TypeStep == Typed /\ [Next]_vars => Typed'
<1> SUFFICES ASSUME Typed, [Next]_vars PROVE Typed'
  OBVIOUS
<1>1. CASE \E u \in Task : Call(u) \/ Resume(u)
  <2>1. PICK u \in Task : Call(u) \/ Resume(u)
    BY <1>1
  <2>2. CASE Refused(u)
    BY <2>2 DEF Refused, vars, Typed, connVars, instVars, cursorVars, srvVars
  <2> QED BY <2>1, <2>2, TypeCalls, TypeConnect DEF Call, Resume
<1>2. CASE \E k \in conts : ContinueRuns(k)
  BY <1>2, TypeContinue
<1>3. CASE \E g \in Gen : ReadResponse(g) \/ UnexpectedResponse(g) \/ Drop(g) \/ Eof(g)
  BY <1>3, TypeBatch, TypeStream, TypeRead DEF ReadResponse
<1>4. CASE UNCHANGED vars
  BY <1>4 DEF vars, Typed, connVars, instVars, cursorVars, srvVars
<1> QED BY <1>1, <1>2, <1>3, <1>4 DEF Next

-----------------------------------------------------------------------------
(* What a step does to the tasks: those it does not move on stay where     *)
(* they are, return, or are woken; one task at most begins to wait or goes *)
(* on in connect().                                                        *)
Settles(u) ==
  \/ task'[u] = task[u]
  \/ task'[u].pc \notin {"connect", "handshake", "wait", "next", "flush", "flushed"}
  \/ task'[u].pc = "next" /\ task[u].pc = "wait" /\ task'[u].c = task[u].c
  \/ task'[u].pc = "flushed" /\ task[u].pc = "flush" /\ task'[u].c = task[u].c
  \/ task'[u].pc = "flush" /\ closing'[task'[u].c[1]]

MovesOn(u) ==
  \/ \E c \in Cursor : NextCall(u, c)
  \/ NextWait(u)
  \/ \E ok \in BOOLEAN : OpenConnection(u, ok)
  \/ Shut(u) /\ NewInstance(u)
  \/ ReconnectDetached(u)

LEMMA WokenSettles ==
  ASSUME Typed, NEW g, NEW cache, NEW err, NEW pending,
         task' = Woken(g, cache, err, pending)
  PROVE  \A u \in Task : Settles(u)
BY WakeType, IdleType DEF Settles

LEMMA RaisesSettles ==
  ASSUME Typed, NEW g, NEW cache, NEW err, NEW out, Raises(g, cache, err, out)
  PROVE  \A u \in Task : Settles(u)
<1>1. CASE closing[g]
  BY <1>1 DEF Raises, Settles
<1>2. CASE ~closing[g]
  BY <1>2, WokenSettles DEF Raises
<1> QED BY <1>1, <1>2

LEMMA ReturnSettles ==
  ASSUME Typed, NEW u \in Task,
         Return(u) \/ \E pc \in {"run", "shut"}, op \in Op, c \in Cursor : At(u, pc, op, c) \/ Goto(u, pc)
  PROVE  \A v \in Task : Settles(v)
<1>1. task \in [Task -> TaskType] /\ Idle.pc = "idle"
  BY IdleType DEF Typed
<1>2. CASE Return(u)
  BY <1>1, <1>2 DEF Return, Settles
<1>3. CASE \E pc \in {"run", "shut"}, op \in Op, c \in Cursor : At(u, pc, op, c) \/ Goto(u, pc)
  BY <1>1, <1>3 DEF At, Goto, Settles, TaskType
<1> QED BY <1>2, <1>3

LEMMA TaskCases ==
  ASSUME Typed, [Next]_vars
  PROVE  (\A u \in Task : Settles(u)) \/ (\E u \in Task : MovesOn(u))
<1>1. ASSUME NEW u \in Task, Call(u), ~MovesOn(u) PROVE \A v \in Task : Settles(v)
  <2>1. CASE Refused(u)
    BY <2>1 DEF Refused, vars, Settles
  <2>2. CASE \E op \in {"start", "plain"} : Run(u, op)
    <3>1. PICK op \in {"start", "plain"} : Run(u, op)
      BY <2>2
    <3>2. <<instance, next_token>> \in Cursor
      BY <3>1, GenType DEF Run, Usable, Typed
    <3>3. At(u, "run", op, <<instance, next_token>>) /\ op \in Op
      BY <3>1 DEF Run, Op
    <3> QED BY <3>2, <3>3, ReturnSettles
  <2>3. CASE \E c \in Cursor : NextCall(u, c) \/ CursorClose(u, c)
    BY <1>1, <2>3 DEF MovesOn, CursorClose, Settles
  <2>4. CASE \E op \in {"close", "reconnect"}, noreply_wait \in BOOLEAN : Close(u, op, noreply_wait)
    <3>1. PICK op \in {"close", "reconnect"}, noreply_wait \in BOOLEAN : Close(u, op, noreply_wait)
      BY <2>4
    <3> DEFINE W == Woken(instance, cached, error, Pending(instance))
    <3>2. \E x : /\ x.pc \in {"idle", "shut"} \/ (x.pc = "flush" /\ x.c[1] = instance)
                 /\ task' = [W EXCEPT ![u] = x]
      BY <3>1, IdleType DEF Close
    <3>3. closing'[instance]
      BY <3>1, GenType DEF Close, Detach, Typed
    <3> QED BY <3>2, <3>3, WakeType, IdleType DEF Settles
  <2>5. CASE ReconnectDetached(u)
    BY <1>1, <2>5 DEF MovesOn
  <2>6. CASE Cancel(u) \/ NextTimeout(u)
    BY <2>6, ReturnSettles DEF Cancel, NextTimeout
  <2> QED BY <1>1, <2>1, <2>2, <2>3, <2>4, <2>5, <2>6 DEF Call
<1>2. ASSUME NEW u \in Task, Resume(u), ~MovesOn(u) PROVE \A v \in Task : Settles(v)
  <2>1. CASE NextItem(u) \/ NextError(u) \/ HandshakeDone(u)
    BY <2>1, ReturnSettles DEF NextItem, NextError, HandshakeDone
  <2>2. CASE CloseStream(u)
    <3>1. Goto(u, "shut") /\ <<1, 0>> \in Cursor /\ "none" \in Op
      BY <2>2, Types DEF CloseStream, Op
    <3> QED BY <3>1, ReturnSettles
  <2>3. CASE Shut(u)
    BY <1>2, <2>3, ReturnSettles DEF Shut, MovesOn
  <2>4. CASE HandshakeFails(u)
    <3> DEFINE W == Woken(task[u].c[1], cached, error, Pending(task[u].c[1]))
    <3>1. task' = [W EXCEPT ![u] = Idle]
      BY <2>4 DEF HandshakeFails
    <3> QED BY <3>1, WakeType, IdleType DEF Settles
  <2> QED BY <1>2, <2>1, <2>2, <2>3, <2>4 DEF Resume, MovesOn
<1>3. ASSUME NEW g \in Gen, NEW c \in Cursor, NEW r \in Response, ReadBatch(c, r) \/ ReadStream(c, r)
      PROVE  \A v \in Task : Settles(v)
  <2>1. CASE ReadBatch(c, r)
    <3>1. (\E out : Raises(c[1], cached, error, out)) \/ Wake(c)
      BY <2>1, BatchCases DEF BatchFails, BatchArrives
    <3> QED BY <3>1, RaisesSettles, WakeCases DEF Settles
  <2>2. CASE ReadStream(c, r)
    <3>1. \/ \E cache, err : task' = Woken(c[1], cache, err, {})
          \/ \E cache, err, out : Raises(c[1], cache, err, out)
          \/ task' = [u \in Task |-> IF task[u].pc = "run" /\ task[u].c = c THEN Idle ELSE task[u]]
      BY <2>2, StreamCases DEF BeginFails, BeginCancelled, BeginArrives
    <3> QED BY <3>1, RaisesSettles, WokenSettles, IdleType DEF Settles
  <2> QED BY <1>3, <2>1, <2>2
<1>4. ASSUME NEW c \in Cursor, ReadValue(c) PROVE \A v \in Task : Settles(v)
  BY <1>4, ValueCases, RaisesSettles, IdleType DEF Settles
<1>5. ASSUME NEW g \in Gen, UnexpectedResponse(g) \/ ReadEnd(g) PROVE \A v \in Task : Settles(v)
  BY <1>5, RaisesSettles DEF UnexpectedResponse, ReadEnd
<1>6. CASE \/ \E k \in conts : ContinueRuns(k)
           \/ \E c \in Cursor : SkipWhileClosing(c)
           \/ \E g \in Gen : Drop(g) \/ Eof(g)
           \/ UNCHANGED vars
  BY <1>6 DEF ContinueRuns, SkipWhileClosing, Drop, Eof, vars, Settles
<1> QED BY <1>1, <1>2, <1>3, <1>4, <1>5, <1>6 DEF Next, ReadResponse

-----------------------------------------------------------------------------
(* What a step does to the instances, their queries and their cursors.     *)
Quiet == UNCHANGED <<instance, next_token, gen, closing, reader, queries, cached, held, error>>

(* Instance g is closed, and takes its cursors and queries with it.        *)
Gone(g) ==
  /\ closing' = [closing EXCEPT ![g] = TRUE]
  /\ \A c \in Cursor : error'[c] = IF c[1] = g /\ c \in cached /\ error[c] = "None"
                                   THEN "Runtime" ELSE error[c]
  /\ cached' = {c \in cached : c[1] # g}
  /\ \A c \in Cursor : IF c[1] = g THEN queries'[c] \in {"none", "plain"}
                                   ELSE queries'[c] = queries[c]
  /\ \A c \in Cursor : queries[c] = "none" /\ queries'[c] # "none" =>
       c = <<instance, next_token>> /\ instance' = 0
  /\ \/ reader' = reader
     \/ reader[g] = "run" /\ \E end \in {"ended", "failed"} : reader' = [reader EXCEPT ![g] = end]
  /\ UNCHANGED <<gen, held>>
  /\ UNCHANGED <<instance, next_token>> \/ (instance = g /\ instance' = 0)

Ends(g) ==
  /\ closing[g] /\ reader[g] = "run" /\ reader' = [reader EXCEPT ![g] = "ended"]
  /\ UNCHANGED <<instance, next_token, gen, closing, queries, cached, held, error>>

LEMMA DetachGone ==
  ASSUME Typed, NEW g \in Gen, NEW out, Detach(g, cached, error, out),
         \/ Forget(g) /\ UNCHANGED <<instance, next_token>>
         \/ /\ instance = g /\ instance' = 0
            /\ Forget(g) \/ ForgetAllBut(g, <<g, next_token>>),
         UNCHANGED <<gen, held>>,
         \/ reader' = reader
         \/ reader[g] = "run" /\ \E end \in {"ended", "failed"} : reader' = [reader EXCEPT ![g] = end]
  PROVE  Gone(g)
<1>1. /\ closing' = [closing EXCEPT ![g] = TRUE]
      /\ \A c \in Cursor : error'[c] = IF c[1] = g /\ c \in cached /\ error[c] = "None"
                                       THEN "Runtime" ELSE error[c]
      /\ cached' = {c \in cached : c[1] # g}
  BY DEF Detach
<1>2. \A c \in Cursor : IF c[1] = g THEN queries'[c] \in {"none", "plain"}
                                    ELSE queries'[c] = queries[c]
  <2>1. CASE Forget(g)
    BY <2>1 DEF Forget
  <2>2. CASE ForgetAllBut(g, <<g, next_token>>)
    BY <2>2 DEF ForgetAllBut
  <2> QED BY <2>1, <2>2
<1>3. \A c \in Cursor : queries[c] = "none" /\ queries'[c] # "none" =>
       c = <<instance, next_token>> /\ instance' = 0
  <2>1. CASE Forget(g)
    BY <2>1 DEF Forget
  <2>2. CASE ForgetAllBut(g, <<g, next_token>>) /\ instance = g /\ instance' = 0
    BY <2>2 DEF ForgetAllBut
  <2> QED BY <2>1, <2>2
<1> QED BY <1>1, <1>2, <1>3 DEF Gone

LEMMA RaisesGone ==
  ASSUME Typed, NEW g \in Gen, NEW out, Raises(g, cached, error, out), reader[g] = "run",
         UNCHANGED <<instance, next_token, gen, held>>
  PROVE  Gone(g) \/ Ends(g)
<1>1. CASE closing[g]
  BY <1>1 DEF Raises, Ends
<1>2. CASE ~closing[g]
  <2>1. /\ Detach(g, cached, error, out) /\ Forget(g)
        /\ \E end \in {"ended", "failed"} : reader' = [reader EXCEPT ![g] = end]
    BY <1>2 DEF Raises
  <2> QED BY <2>1, DetachGone
<1> QED BY <1>1, <1>2

ConnStep ==
  \/ Quiet
  \/ \E u \in Task, op \in {"start", "plain"} : Run(u, op)
  \/ \E u \in Task, c \in Cursor : CursorClose(u, c)
  \/ \E g \in Gen : Gone(g) \/ Ends(g)
  \/ \E u \in Task : HandshakeDone(u)
  \/ \E u \in Task : NewInstance(u) /\ UNCHANGED <<next_token, instVars, error, cached, held>>
  \/ \E c \in Cursor, r \in Response : ReadBatch(c, r) /\ BatchArrives(c, r)
  \/ \E c \in Cursor, r \in Response : ReadStream(c, r)
  \/ \E c \in Cursor : ReadValue(c) /\ ValueArrives(c)

LEMMA ConnCases ==
  ASSUME Typed, [Next]_vars PROVE ConnStep
<1> USE DEF connVars, instVars, cursorVars
<1>1. ASSUME NEW u \in Task, Call(u) PROVE ConnStep
  <2>1. CASE Refused(u) \/ Cancel(u) \/ NextTimeout(u) \/ \E c \in Cursor : NextCall(u, c)
    <3>1. Quiet
      BY <2>1 DEF Refused, Cancel, NextTimeout, NextCall, Quiet, vars
    <3> QED BY <3>1 DEF ConnStep
  <2>2. CASE \E op \in {"close", "reconnect"}, noreply_wait \in BOOLEAN : Close(u, op, noreply_wait)
    <3>1. /\ Detach(instance, cached, error, outstanding) /\ instance \in Gen /\ instance' = 0
          /\ Forget(instance) \/ ForgetAllBut(instance, <<instance, next_token>>)
          /\ UNCHANGED <<gen, reader, held>>
      BY <2>2, GenType DEF Close
    <3>2. Gone(instance)
      BY <3>1, DetachGone
    <3> QED BY <3>1, <3>2 DEF ConnStep
  <2>3. CASE ReconnectDetached(u)
    BY <2>3 DEF ReconnectDetached, ConnStep
  <2> QED BY <1>1, <2>1, <2>2, <2>3 DEF Call, ConnStep
<1>2. ASSUME NEW u \in Task, Resume(u) PROVE ConnStep
  <2>1. CASE \/ NextItem(u) \/ NextError(u) \/ NextWait(u) \/ CloseStream(u)
             \/ \E ok \in BOOLEAN : OpenConnection(u, ok)
    <3>1. Quiet
      BY <2>1 DEF NextItem, NextError, NextWait, CloseStream, OpenConnection, Quiet
    <3> QED BY <3>1 DEF ConnStep
  <2>2. CASE Shut(u)
    <3>1. Quiet \/ (NewInstance(u) /\ UNCHANGED <<next_token, instVars, error, cached, held>>)
      BY <2>2 DEF Shut, Quiet
    <3> QED BY <3>1 DEF ConnStep
  <2>3. CASE HandshakeFails(u)
    <3>1. task[u].c[1] \in Gen
      BY Types DEF Typed, TaskType
    <3>2. Gone(task[u].c[1])
      BY <2>3, <3>1, DetachGone DEF HandshakeFails
    <3> QED BY <3>1, <3>2 DEF ConnStep
  <2> QED BY <1>2, <2>1, <2>2, <2>3 DEF Resume, ConnStep
<1>3. ASSUME NEW c \in Cursor, NEW r \in Response, ReadBatch(c, r) PROVE ConnStep
  <2>1. c[1] \in Gen /\ reader[c[1]] = "run" /\ UNCHANGED <<instance, next_token, gen, held>>
    BY <1>3, Types, BatchCases DEF Reads
  <2>2. CASE BatchFails(c)
    <3>1. Gone(c[1]) \/ Ends(c[1])
      BY <2>1, <2>2, RaisesGone DEF BatchFails
    <3> QED BY <2>1, <3>1 DEF ConnStep
  <2> QED BY <1>3, <2>2, BatchCases DEF ConnStep
<1>4. ASSUME NEW c \in Cursor, ReadValue(c) PROVE ConnStep
  <2>1. c[1] \in Gen /\ reader[c[1]] = "run" /\ UNCHANGED <<instance, next_token, gen, held>>
    BY <1>4, Types, ValueCases DEF Reads
  <2>2. CASE Raises(c[1], cached, error, outstanding)
    <3>1. Gone(c[1]) \/ Ends(c[1])
      BY <2>1, <2>2, RaisesGone
    <3> QED BY <2>1, <3>1 DEF ConnStep
  <2> QED BY <1>4, <2>2, ValueCases DEF ConnStep
<1>5. ASSUME NEW g \in Gen, UnexpectedResponse(g) \/ ReadEnd(g) PROVE ConnStep
  <2>1. Gone(g) \/ Ends(g)
    BY <1>5, RaisesGone DEF UnexpectedResponse, ReadEnd
  <2> QED BY <2>1 DEF ConnStep
<1>6. CASE \/ \E k \in conts : ContinueRuns(k)
           \/ \E c \in Cursor : SkipWhileClosing(c)
           \/ \E g \in Gen : Drop(g) \/ Eof(g)
           \/ UNCHANGED vars
  <2>1. Quiet
    BY <1>6 DEF ContinueRuns, SkipWhileClosing, Drop, Eof, vars, Quiet
  <2> QED BY <2>1 DEF ConnStep
<1> QED BY <1>1, <1>2, <1>3, <1>4, <1>5, <1>6 DEF Next, ReadResponse, ConnStep

-----------------------------------------------------------------------------
(* The invariant behind the cursors, whatever the calls of the application *)
(* overlap with.  An instance that is being connected has no reader, and   *)
(* one task; a cursor is waited for by a task that has a reference to it.  *)
Connecting(u) == task[u].pc \in {"connect", "handshake"}
Instance(u) == task[u].c[1]
TaskInv ==
  /\ \A g \in Gen : g > gen => reader[g] = "none"
  /\ \A u \in Task : Connecting(u) => reader[Instance(u)] = "none" /\ Instance(u) <= gen
  /\ \A u, v \in Task : Connecting(u) /\ Connecting(v) /\ Instance(u) = Instance(v) => u = v
  /\ \A u \in Task : task[u].pc \in {"next", "wait"} => task[u].c \in held

(* A token is used once.  A cursor is open only in the cache of an open    *)
(* instance that is read; and what a reader finds for a query is the first *)
(* that the cursor hears of.                                               *)
Fresh(c) == c[1] > gen \/ (c[1] = instance /\ c[2] >= next_token)
TokenInv ==
  \A c \in Cursor : Fresh(c) => error[c] = "Absent" /\ queries[c] = "none" /\ c \notin held
OpenInv ==
  /\ \A c \in Cursor : error[c] = "None" => c \in cached /\ reader[c[1]] = "run"
  /\ \A c \in cached : c \in held /\ ~closing[c[1]] /\ queries[c] = "none"
  /\ \A c \in held : error[c] # "Absent" /\ queries[c] # "start"
QueryInv ==
  \A c \in Cursor : queries[c] = "start" /\ reader[c[1]] \in {"none", "run"} =>
    ~closing[c[1]] /\ error[c] = "Absent"

BaseInv == TaskInv /\ TokenInv /\ OpenInv /\ QueryInv

LEMMA BaseInit == Init => BaseInv
BY IdleType DEF Init, BaseInv, TaskInv, TokenInv, OpenInv, QueryInv, Connecting

LEMMA ReaderCases ==
  ASSUME Typed, ConnStep, NEW g \in Gen, reader[g] = "none", reader'[g] # "none"
  PROVE  \E u \in Task : task[u].pc = "handshake" /\ Instance(u) = g /\ Return(u)
<1>1. reader \in [Gen -> {"none", "run", "ended", "failed"}]
  BY DEF Typed
<1>2. CASE \E u \in Task : HandshakeDone(u)
  BY <1>1, <1>2 DEF HandshakeDone, Instance
<1>3. CASE \E h \in Gen : Gone(h) \/ Ends(h)
  BY <1>1, <1>3 DEF Gone, Ends
<1>4. CASE \E c \in Cursor, r \in Response : ReadStream(c, r)
  <2>1. PICK c \in Cursor, r \in Response : ReadStream(c, r)
    BY <1>4
  <2>2. reader[c[1]] = "run"
    BY <2>1, StreamCases DEF Reads
  <2>3. reader' = reader \/ \E end : reader' = [reader EXCEPT ![c[1]] = end]
    BY <2>1, StreamCases DEF BeginFails, BeginCancelled, BeginArrives, Raises
  <2> QED BY <1>1, <2>2, <2>3
<1>5. CASE reader' = reader
  BY <1>5
<1> QED BY <1>2, <1>3, <1>4, <1>5
     DEF ConnStep, Quiet, Run, CursorClose, BatchArrives, ValueArrives, instVars

LEMMA Grows ==
  ASSUME Typed, Typed', ConnStep
  PROVE  /\ gen' = gen \/ gen' = gen + 1
         /\ \A g \in Gen : g > gen' => g > gen
         /\ \A g \in Gen : g <= gen => g <= gen'
         /\ held \subseteq held'
<1>1. gen' = gen \/ gen' = gen + 1
  BY StreamCases, BatchCases, ValueCases
     DEF ConnStep, Quiet, Run, CursorClose, Gone, Ends, HandshakeDone, NewInstance, connVars
<1>2. held \subseteq held'
  <2>1. CASE \E c \in Cursor, r \in Response : ReadStream(c, r)
    BY <2>1, StreamCases DEF BeginFails, BeginCancelled, BeginArrives
  <2>2. CASE \E c \in Cursor, r \in Response : ReadBatch(c, r)
    BY <2>2, BatchCases
  <2>3. CASE \E c \in Cursor : ReadValue(c)
    BY <2>3, ValueCases
  <2> QED BY <2>1, <2>2, <2>3
          DEF ConnStep, Quiet, Run, CursorClose, Gone, Ends, HandshakeDone, NewInstance, cursorVars
<1>3. gen \in Nat /\ \A g \in Gen : g \in Nat
  BY Types, GenType
<1> QED BY <1>1, <1>2, <1>3

LEMMA TaskStep ==
  ASSUME Typed, Typed', TaskInv, [Next]_vars
  PROVE  TaskInv'
<1>0. ConnStep
  BY ConnCases
<1>1. ASSUME NEW g \in Gen, reader[g] = "none",
             \A u \in Task : task[u].pc = "handshake" /\ Instance(u) = g => ~Return(u)
      PROVE  reader'[g] = "none"
  BY <1>0, <1>1, ReaderCases
<1>2. \A g \in Gen : g > gen' => reader'[g] = "none"
  <2> SUFFICES ASSUME NEW g \in Gen, g > gen' PROVE reader'[g] = "none"
    OBVIOUS
  <2>1. g > gen /\ g \in Nat /\ gen \in Nat
    BY <1>0, Grows, Types, GenType
  <2>2. reader[g] = "none" /\ \A u \in Task : Connecting(u) => Instance(u) # g
    BY <2>1 DEF TaskInv
  <2> QED BY <1>1, <2>2 DEF Connecting
<1>3. /\ \A u \in Task : Connecting(u) => Instance(u) \in Gen
      /\ \A u \in Task : Instance(u) \in Gen /\ Instance(u)' \in Gen
  BY Types DEF Typed, TaskType, Instance
<1>4. ASSUME NEW u \in Task, task'[u] = task[u], Connecting(u)
      PROVE  reader'[Instance(u)] = "none" /\ Instance(u) <= gen'
  <2>1. Instance(u) \in Gen /\ reader[Instance(u)] = "none" /\ Instance(u) <= gen
    BY <1>3, <1>4 DEF TaskInv
  <2>2. ASSUME NEW v \in Task, task[v].pc = "handshake", Instance(v) = Instance(u) PROVE ~Return(v)
    <3>1. v = u
      BY <1>4, <2>2 DEF TaskInv, Connecting
    <3>2. task'[v].pc # "idle"
      BY <1>4, <3>1 DEF Connecting
    <3> QED BY <3>2, IdleType DEF Return, Typed
  <2> QED BY <1>0, <1>1, <2>1, <2>2, Grows
<1>5. CASE \A u \in Task : Settles(u)
  <2>1. ASSUME NEW u \in Task, Connecting(u)' PROVE task'[u] = task[u] /\ Connecting(u)
    BY <1>5, <2>1 DEF Settles, Connecting
  <2>2. ASSUME NEW u \in Task, task'[u].pc \in {"next", "wait"}
        PROVE  task'[u].c = task[u].c /\ task[u].pc \in {"next", "wait"}
    BY <1>5, <2>2 DEF Settles
  <2>3. \A u \in Task : Connecting(u)' => reader'[Instance(u)'] = "none" /\ Instance(u)' <= gen'
    BY <1>4, <2>1 DEF Instance
  <2>4. \A u, v \in Task : Connecting(u)' /\ Connecting(v)' /\ Instance(u)' = Instance(v)' => u = v
    BY <2>1 DEF TaskInv, Instance
  <2>5. \A u \in Task : task'[u].pc \in {"next", "wait"} => task'[u].c \in held'
    BY <1>0, <2>2, Grows DEF TaskInv
  <2> QED BY <1>2, <2>3, <2>4, <2>5 DEF TaskInv
<1>6. CASE \E u \in Task : MovesOn(u)
  <2>1. PICK u \in Task : MovesOn(u)
    BY <1>6
  <2>2. /\ task \in [Task -> TaskType] /\ task[u].c \in Cursor
        /\ gen < MaxGen => gen + 1 \in Gen /\ <<gen + 1, 0>> \in Cursor
    BY GenType DEF Typed, TaskType
  <2>3. /\ \A v \in Task \ {u} : task'[v] = task[v]
        /\ task'[u].pc \in {"next", "wait"} => task'[u].c \in held
        /\ \/ task'[u].pc \notin {"connect", "handshake"}
           \/ /\ task'[u].pc = "handshake" /\ task[u].pc = "connect"
              /\ task'[u].c = task[u].c /\ UNCHANGED <<gen, reader>>
           \/ gen' = gen + 1 /\ task'[u].c = <<gen + 1, 0>> /\ reader' = reader /\ gen < MaxGen
    <3>1. CASE \E c \in Cursor : NextCall(u, c)
      BY <2>2, <3>1 DEF NextCall, At, TaskType
    <3>2. CASE NextWait(u)
      <4>1. Goto(u, "wait") \/ Return(u)
        BY <3>2 DEF NextWait
      <4>2. task[u].pc = "next" /\ task[u].c \in held
        BY <3>2 DEF NextWait, TaskInv
      <4> QED BY <2>2, <4>1, <4>2, IdleType DEF Goto, Return, TaskType
    <3>3. CASE \E ok \in BOOLEAN : OpenConnection(u, ok)
      <4>1. /\ task[u].pc = "connect" /\ (Goto(u, "handshake") \/ Return(u))
            /\ UNCHANGED <<gen, reader>>
        BY <3>3 DEF OpenConnection, connVars
      <4> QED BY <2>2, <4>1, IdleType DEF Goto, Return, TaskType
    <3>4. CASE NewInstance(u) /\ reader' = reader
      BY <2>2, <3>4 DEF NewInstance, At, TaskType
    <3> QED BY <2>1, <3>1, <3>2, <3>3, <3>4 DEF MovesOn, Shut, ReconnectDetached, instVars
  <2>4. ASSUME NEW v \in Task, Connecting(v)'
        PROVE  reader'[Instance(v)'] = "none" /\ Instance(v)' <= gen'
    <3>1. CASE v # u
      BY <1>4, <2>3, <2>4, <3>1 DEF Connecting, Instance
    <3>2. CASE v = u /\ gen' = gen + 1 /\ task'[u].c = <<gen + 1, 0>> /\ reader' = reader /\ gen < MaxGen
      <4>1. Instance(v)' = gen + 1 /\ gen + 1 > gen /\ gen + 1 <= gen'
        BY <3>2, GenType DEF Instance
      <4> QED BY <2>2, <3>2, <4>1 DEF TaskInv
    <3>3. CASE /\ v = u /\ task[u].pc = "connect" /\ task'[u].c = task[u].c
               /\ UNCHANGED <<gen, reader>>
      BY <3>3 DEF TaskInv, Connecting, Instance
    <3> QED BY <2>3, <2>4, <3>1, <3>2, <3>3 DEF Connecting
  <2>5. ASSUME NEW v \in Task \ {u}, Connecting(u)', Connecting(v)', Instance(u)' = Instance(v)' PROVE FALSE
    <3>1. Connecting(v) /\ Instance(v) = Instance(v)' /\ Instance(v) <= gen /\ Instance(v) \in Nat /\ gen \in Nat
      BY <1>3, <2>3, <2>5, Types, GenType DEF TaskInv, Connecting, Instance
    <3>2. CASE gen' = gen + 1 /\ task'[u].c = <<gen + 1, 0>>
      <4>1. Instance(u)' = gen + 1
        BY <3>2 DEF Instance
      <4> QED BY <2>5, <3>1, <4>1
    <3>3. CASE task[u].pc = "connect" /\ task'[u].c = task[u].c
      BY <2>5, <3>1, <3>3 DEF TaskInv, Connecting, Instance
    <3> QED BY <2>3, <2>5, <3>2, <3>3 DEF Connecting
  <2>6. \A v, w \in Task : Connecting(v)' /\ Connecting(w)' /\ Instance(v)' = Instance(w)' => v = w
    <3> SUFFICES ASSUME NEW v \in Task, NEW w \in Task, Connecting(v)', Connecting(w)',
                        Instance(v)' = Instance(w)', v # w
                 PROVE  FALSE
      OBVIOUS
    <3>1. CASE v = u \/ w = u
      BY <2>5, <3>1
    <3>2. CASE v # u /\ w # u
      <4>1. task'[v] = task[v] /\ task'[w] = task[w]
        BY <2>3, <3>2
      <4> QED BY <4>1 DEF TaskInv, Connecting, Instance
    <3> QED BY <3>1, <3>2
  <2>7. \A v \in Task : task'[v].pc \in {"next", "wait"} => task'[v].c \in held'
    BY <1>0, <2>3, Grows DEF TaskInv
  <2> QED BY <1>2, <2>4, <2>6, <2>7 DEF TaskInv
<1> QED BY <1>5, <1>6, TaskCases

(* A token that is unused after a step was unused before, and the cursors  *)
(* that the step touches have been used.                                   *)
LEMMA FreshStep ==
  ASSUME Typed, Typed', ConnStep, NEW c \in Cursor, Fresh(c)' PROVE Fresh(c)
<1>1. /\ c[1] \in Nat /\ c[2] \in Nat /\ c[1] # 0 /\ gen \in Nat /\ next_token \in Nat
      /\ instance \in Nat /\ instance <= gen
  BY Types, GenType DEF Gen
<1>2. CASE UNCHANGED <<instance, next_token, gen>>
  BY <1>2 DEF Fresh
<1>3. CASE \E u \in Task, op \in {"start", "plain"} : Run(u, op)
  BY <1>1, <1>3 DEF Run, Fresh
<1>4. CASE gen' = gen /\ instance' = 0
  BY <1>1, <1>4 DEF Fresh
<1>5. CASE \E u \in Task : NewInstance(u)
  BY <1>1, <1>5 DEF NewInstance, Fresh
<1> QED BY <1>2, <1>3, <1>4, <1>5, BatchCases, StreamCases, ValueCases
        DEF ConnStep, Quiet, CursorClose, Gone, Ends, HandshakeDone, connVars

LEMMA UsedCursor ==
  ASSUME Typed, TokenInv, OpenInv, NEW c \in Cursor, c \in held \/ queries[c] # "none"
  PROVE  ~Fresh(c)
BY DEF TokenInv

(* Every step but those of the reader that bring rows.                     *)
ConnInv == TokenInv /\ OpenInv /\ QueryInv

LEMMA ConnCalls ==
  ASSUME Typed, Typed', TaskInv, ConnInv, ConnStep
  PROVE  /\ Quiet => ConnInv'
         /\ \A u \in Task, op \in {"start", "plain"} : Run(u, op) => ConnInv'
         /\ \A u \in Task, c \in Cursor : CursorClose(u, c) => ConnInv'
         /\ \A u \in Task : HandshakeDone(u) => ConnInv'
         /\ \A u \in Task : NewInstance(u) /\ UNCHANGED <<next_token, instVars, error, cached, held>>
                            => ConnInv'
<1>1. \A c \in Cursor : Fresh(c)' => Fresh(c)
  BY FreshStep
<1>2. ASSUME Quiet PROVE ConnInv'
  BY <1>2 DEF Quiet, ConnInv, TokenInv, OpenInv, QueryInv, Fresh
<1>3. ASSUME NEW u \in Task, NEW op \in {"start", "plain"}, Run(u, op) PROVE ConnInv'
  <2>0. PICK c \in Cursor : c = <<instance, next_token>>
    BY <1>3, GenType DEF Run, Usable, Typed
  <2>1. Fresh(c) /\ ~Fresh(c)' /\ c[1] = instance /\ ~closing[instance]
    <3>1. /\ next_token \in Nat /\ instance \in Nat /\ instance <= gen /\ gen \in Nat
          /\ next_token' = next_token + 1 /\ UNCHANGED <<instance, gen>> /\ ~closing[instance]
      BY <1>3, GenType DEF Run, Usable, Typed
    <3> QED BY <2>0, <3>1 DEF Fresh
  <2>2. /\ queries' = [queries EXCEPT ![c] = op]
        /\ UNCHANGED <<closing, reader, cached, held, error>>
    BY <1>3, <2>0 DEF Run, cursorVars
  <2>3. /\ queries'[c] = op /\ \A d \in Cursor \ {c} : queries'[d] = queries[d]
        /\ error[c] = "Absent" /\ c \notin held /\ c \notin cached
    BY <2>1, <2>2 DEF Typed, ConnInv, TokenInv, OpenInv
  <2>4. TokenInv'
    BY <1>1, <2>1, <2>2, <2>3 DEF ConnInv, TokenInv
  <2>5. OpenInv'
    BY <2>2, <2>3 DEF ConnInv, OpenInv, Typed
  <2>6. QueryInv'
    BY <2>1, <2>2, <2>3 DEF ConnInv, QueryInv
  <2> QED BY <2>4, <2>5, <2>6 DEF ConnInv
<1>4. ASSUME NEW u \in Task, NEW c \in Cursor, CursorClose(u, c) PROVE ConnInv'
  <2>1. /\ error[c] = "None" /\ error'[c] = "Stopped" /\ c \in held
        /\ \A d \in Cursor \ {c} : error'[d] = error[d]
        /\ UNCHANGED <<instance, next_token, gen, closing, reader, queries, cached, held>>
    BY <1>4 DEF CursorClose, connVars, instVars, Typed
  <2>2. ~Fresh(c) /\ queries[c] = "none"
    BY <2>1 DEF ConnInv, TokenInv, OpenInv
  <2>3. TokenInv'
    BY <1>1, <2>1, <2>2 DEF ConnInv, TokenInv
  <2>4. OpenInv'
    BY <2>1 DEF ConnInv, OpenInv, Typed
  <2>5. QueryInv'
    BY <2>1, <2>2 DEF ConnInv, QueryInv
  <2> QED BY <2>3, <2>4, <2>5 DEF ConnInv
<1>5. ASSUME NEW u \in Task, HandshakeDone(u) PROVE ConnInv'
  <2> DEFINE g == Instance(u)
  <2>1. /\ reader' = [reader EXCEPT ![g] = "run"] /\ g \in Gen /\ reader[g] = "none"
        /\ UNCHANGED <<instance, next_token, gen, closing, queries, cached, held, error>>
    BY <1>5, Types DEF HandshakeDone, connVars, cursorVars, TaskInv, Connecting, Instance, Typed, TaskType
  <2>2. \A h \in Gen : reader'[h] = IF h = g THEN "run" ELSE reader[h]
    BY <2>1 DEF Typed
  <2>3. TokenInv'
    BY <1>1, <2>1 DEF ConnInv, TokenInv
  <2>4. OpenInv'
    BY <2>1, <2>2, Types DEF ConnInv, OpenInv
  <2>5. QueryInv'
    BY <2>1, <2>2, Types DEF ConnInv, QueryInv
  <2> QED BY <2>3, <2>4, <2>5 DEF ConnInv
<1>6. ASSUME NEW u \in Task, NewInstance(u), UNCHANGED <<next_token, instVars, error, cached, held>>
      PROVE  ConnInv'
  BY <1>1, <1>6 DEF instVars, ConnInv, TokenInv, OpenInv, QueryInv
<1> QED BY <1>2, <1>3, <1>4, <1>5, <1>6

LEMMA ConnGone ==
  ASSUME Typed, Typed', TaskInv, ConnInv, ConnStep, NEW g \in Gen, Gone(g) \/ Ends(g)
  PROVE  ConnInv'
<1>1. \A c \in Cursor : Fresh(c)' => Fresh(c)
  BY FreshStep
<1>2. CASE Gone(g)
  <2>1. /\ \A h \in Gen : closing'[h] = (h = g \/ closing[h])
        /\ \A h \in Gen : reader'[h] = reader[h] \/ (h = g /\ reader'[h] \in {"ended", "failed"})
        /\ held' = held /\ gen' = gen
        /\ \A c \in Cursor : error'[c] = IF c[1] = g /\ c \in cached /\ error[c] = "None"
                                         THEN "Runtime" ELSE error[c]
        /\ \A c \in Cursor : IF c[1] = g THEN queries'[c] \in {"none", "plain"}
                                         ELSE queries'[c] = queries[c]
        /\ \A c \in Cursor : c \in cached' <=> c \in cached /\ c[1] # g
    <3>1. /\ closing' = [closing EXCEPT ![g] = TRUE] /\ closing \in [Gen -> BOOLEAN]
          /\ reader \in [Gen -> {"none", "run", "ended", "failed"}]
          /\ reader' = reader \/ \E end \in {"ended", "failed"} : reader' = [reader EXCEPT ![g] = end]
      BY <1>2 DEF Gone, Typed
    <3>2. /\ \A h \in Gen : closing'[h] = (h = g \/ closing[h])
          /\ \A h \in Gen : reader'[h] = reader[h] \/ (h = g /\ reader'[h] \in {"ended", "failed"})
      BY <3>1
    <3> QED BY <1>2, <3>2 DEF Gone
  <2>2. ASSUME NEW c \in Cursor, Fresh(c)'
        PROVE  error'[c] = "Absent" /\ queries'[c] = "none" /\ c \notin held'
    <3>1. error[c] = "Absent" /\ queries[c] = "none" /\ c \notin held
      BY <1>1, <2>2 DEF ConnInv, TokenInv
    <3>2. ~(c = <<instance, next_token>> /\ instance' = 0)
      <4> SUFFICES ASSUME c = <<instance, next_token>>, instance' = 0 PROVE FALSE
        OBVIOUS
      <4>1. c[1] = instance /\ instance <= gen /\ instance \in Nat /\ gen \in Nat /\ c[1] # 0
        BY GenType, Types DEF Gen
      <4> QED BY <2>1, <2>2, <4>1 DEF Fresh
    <3>3. queries'[c] = "none"
      BY <1>2, <3>1, <3>2 DEF Gone
    <3> QED BY <2>1, <3>1, <3>3
  <2>3. TokenInv'
    BY <2>2 DEF TokenInv
  <2>4. OpenInv'
    <3>1. ASSUME NEW c \in Cursor, error'[c] = "None" PROVE c \in cached' /\ reader'[c[1]] = "run"
      <4>1. error[c] = "None" /\ c \in cached /\ reader[c[1]] = "run" /\ c[1] # g /\ c[1] \in Gen
        BY <2>1, <3>1, Types DEF ConnInv, OpenInv
      <4> QED BY <2>1, <4>1
    <3>2. ASSUME NEW c \in cached' PROVE c \in held' /\ ~closing'[c[1]] /\ queries'[c] = "none"
      <4>1. c \in Cursor /\ c \in cached /\ c[1] # g /\ c[1] \in Gen
        BY <2>1, <3>2, Types DEF Typed
      <4> QED BY <2>1, <4>1 DEF ConnInv, OpenInv
    <3>3. ASSUME NEW c \in held' PROVE error'[c] # "Absent" /\ queries'[c] # "start"
      <4>1. c \in Cursor /\ error[c] # "Absent" /\ queries[c] # "start"
        BY <2>1, <3>3 DEF ConnInv, OpenInv, Typed
      <4> QED BY <2>1, <4>1
    <3> QED BY <3>1, <3>2, <3>3 DEF OpenInv
  <2>5. QueryInv'
    <3> SUFFICES ASSUME NEW c \in Cursor, queries'[c] = "start", reader'[c[1]] \in {"none", "run"}
                 PROVE  ~closing'[c[1]] /\ error'[c] = "Absent"
      BY DEF QueryInv
    <3>1. c[1] # g /\ queries[c] = "start" /\ reader[c[1]] \in {"none", "run"} /\ c[1] \in Gen
      BY <2>1, Types
    <3> QED BY <2>1, <3>1 DEF ConnInv, QueryInv
  <2> QED BY <2>3, <2>4, <2>5 DEF ConnInv
<1>3. CASE Ends(g)
  <2>1. /\ closing[g] /\ reader[g] = "run" /\ \A h \in Gen : reader'[h] = IF h = g THEN "ended" ELSE reader[h]
        /\ UNCHANGED <<instance, next_token, gen, closing, queries, cached, held, error>>
    BY <1>3 DEF Ends, Typed
  <2>2. TokenInv'
    BY <1>1, <2>1 DEF ConnInv, TokenInv
  <2>3. OpenInv'
    <3>1. \A c \in Cursor : error[c] = "None" => c[1] # g /\ c[1] \in Gen
      BY <2>1, Types DEF ConnInv, OpenInv
    <3> QED BY <2>1, <3>1 DEF ConnInv, OpenInv
  <2>4. QueryInv'
    BY <2>1, Types DEF ConnInv, QueryInv
  <2> QED BY <2>2, <2>3, <2>4 DEF ConnInv
<1> QED BY <1>2, <1>3

(* The reader's steps that bring rows, or the answer of a plain query.     *)
LEMMA ConnBatch ==
  ASSUME Typed, Typed', ConnInv, ConnStep, NEW c \in Cursor, NEW r \in Response,
         ReadBatch(c, r), BatchArrives(c, r)
  PROVE  ConnInv'
<1>1. \A d \in Cursor : Fresh(d)' => Fresh(d)
  BY FreshStep
<1>2. /\ c \in cached /\ held' = held /\ EndOf(r) \in {"None", "Empty", "Server"}
      /\ UNCHANGED <<closing, queries, reader>>
  BY BatchCases, AnsweredType DEF BatchArrives
<1>3. c \in held /\ ~closing[c[1]] /\ queries[c] = "none" /\ error[c] # "Absent" /\ ~Fresh(c)
  BY <1>2 DEF ConnInv, OpenInv, TokenInv
<1>4. /\ error'[c] = IF error[c] = "None" THEN EndOf(r) ELSE error[c]
      /\ \A d \in Cursor \ {c} : error'[d] = error[d]
      /\ cached' \subseteq cached /\ \A d \in cached \ cached' : d = c /\ error'[c] # "None"
  BY DEF BatchArrives, Typed
<1>5. TokenInv'
  BY <1>1, <1>2, <1>3, <1>4 DEF ConnInv, TokenInv
<1>6. OpenInv'
  <2>1. ASSUME NEW d \in Cursor, error'[d] = "None" PROVE d \in cached' /\ reader'[d[1]] = "run"
    <3>1. error[d] = "None"
      BY <1>4, <2>1
    <3> QED BY <1>2, <1>4, <2>1, <3>1 DEF ConnInv, OpenInv
  <2>2. \A d \in held : error'[d] # "Absent" /\ queries'[d] # "start"
    BY <1>2, <1>3, <1>4 DEF ConnInv, OpenInv, Typed
  <2> QED BY <1>2, <1>4, <2>1, <2>2 DEF ConnInv, OpenInv
<1>7. QueryInv'
  BY <1>2, <1>3, <1>4 DEF ConnInv, QueryInv
<1> QED BY <1>5, <1>6, <1>7 DEF ConnInv

LEMMA ConnStream ==
  ASSUME Typed, Typed', ConnInv, ConnStep, NEW c \in Cursor, NEW r \in Response, ReadStream(c, r)
  PROVE  ConnInv'
<1> DEFINE g == c[1]
<1>1. /\ c \notin cached /\ queries[c] = "start" /\ r.type # "ERROR" /\ Reads(c)
      /\ UNCHANGED connVars
      /\ BeginFails(c) \/ BeginCancelled(c, r) \/ BeginArrives(c, r)
      /\ EndOf(r) \in {"None", "Empty"} /\ reader[g] = "run" /\ g \in Gen
  BY StreamCases, Types DEF Reads, EndOf, Response
<1>2. ~closing[g] /\ error[c] = "Absent" /\ ~Fresh(c) /\ c \notin held
  BY <1>1 DEF ConnInv, QueryInv, OpenInv, TokenInv
<1>3. \A d \in Cursor : Fresh(d)' => Fresh(d) /\ d # c
  BY <1>2, FreshStep
<1>4. CASE BeginFails(c) \/ BeginCancelled(c, r)
  <2>1. /\ \A h \in Gen : closing'[h] = (h = g \/ closing[h])
        /\ \A h \in Gen : h # g => reader'[h] = reader[h]
        /\ reader'[g] \in {"ended", "failed"} /\ held' = held
        /\ \A d \in Cursor \ {c} : error'[d] = IF d[1] = g /\ d \in cached /\ error[d] = "None"
                                               THEN "Runtime" ELSE error[d]
        /\ error'[c] \in {"Runtime", "Empty"}
        /\ \A d \in Cursor : queries'[d] \in {"none", queries[d]}
        /\ \A d \in Cursor : d \in cached' <=> d \in cached /\ d[1] # g
    <3>1. PICK err : /\ Detach(g, cached \cup {c}, err, [outstanding EXCEPT ![c] = 1])
                     /\ err \in [Cursor -> CursorError] /\ err[c] \in {"None", "Empty"}
                     /\ \A d \in Cursor \ {c} : err[d] = error[d]
      <4> DEFINE begun == [error EXCEPT ![c] = "None"]
                 first == [error EXCEPT ![c] = EndOf(r)]
      <4>1. /\ begun \in [Cursor -> CursorError] /\ begun[c] = "None"
            /\ \A d \in Cursor \ {c} : begun[d] = error[d]
        BY DEF Typed, CursorError
      <4>2. /\ first \in [Cursor -> CursorError] /\ first[c] \in {"None", "Empty"}
            /\ \A d \in Cursor \ {c} : first[d] = error[d]
        BY <1>1 DEF Typed, CursorError
      <4>3. \/ Detach(g, cached \cup {c}, begun, [outstanding EXCEPT ![c] = 1])
            \/ Detach(g, cached \cup {c}, first, [outstanding EXCEPT ![c] = 1])
        BY <1>2, <1>4 DEF BeginFails, BeginCancelled, Raises
      <4> HIDE DEF begun, first
      <4> QED BY <4>1, <4>2, <4>3
    <3>2. held' = held /\ ((UNCHANGED queries) \/ Forget(g))
      BY <1>2, <1>4 DEF BeginFails, BeginCancelled, Raises
    <3>3. \E end \in {"ended", "failed"} : reader' = [reader EXCEPT ![g] = end]
      BY <1>2, <1>4 DEF BeginFails, BeginCancelled, Raises
    <3>4. \A d \in Cursor : queries'[d] \in {"none", queries[d]}
      BY <3>2 DEF Forget
    <3>5. /\ \A h \in Gen : h # g => reader'[h] = reader[h]
          /\ reader'[g] \in {"ended", "failed"}
      BY <1>1, <3>3 DEF Typed
    <3>6. \A h \in Gen : closing'[h] = (h = g \/ closing[h])
      BY <3>1 DEF Detach, Typed
    <3>7. \A d \in Cursor : /\ error'[d] = IF d[1] = g /\ (d \in cached \/ d = c) /\ err[d] = "None"
                                           THEN "Runtime" ELSE err[d]
                            /\ d \in cached' <=> (d \in cached \/ d = c) /\ d[1] # g
      BY <3>1 DEF Detach
    <3> QED BY <3>1, <3>2, <3>4, <3>5, <3>6, <3>7
  <2>2. TokenInv'
    BY <1>3, <2>1 DEF ConnInv, TokenInv
  <2>3. OpenInv'
    <3>1. ASSUME NEW d \in Cursor, error'[d] = "None" PROVE d \in cached' /\ reader'[d[1]] = "run"
      <4>1. d # c /\ error[d] = "None"
        BY <2>1, <3>1
      <4>2. d \in cached /\ reader[d[1]] = "run" /\ d[1] \in Gen
        BY <4>1, Types DEF ConnInv, OpenInv
      <4>3. d[1] # g
        BY <2>1, <3>1, <4>1, <4>2
      <4> QED BY <2>1, <4>2, <4>3
    <3>2. ASSUME NEW d \in cached' PROVE d \in held' /\ ~closing'[d[1]] /\ queries'[d] = "none"
      <4>1. d \in Cursor /\ d \in cached /\ d[1] # g /\ d[1] \in Gen
        BY <2>1, <3>2, Types DEF Typed
      <4> QED BY <2>1, <4>1 DEF ConnInv, OpenInv
    <3>3. ASSUME NEW d \in held' PROVE error'[d] # "Absent" /\ queries'[d] # "start"
      <4>1. d \in Cursor /\ d # c /\ error[d] # "Absent" /\ queries[d] # "start"
        BY <1>2, <2>1, <3>3 DEF ConnInv, OpenInv, Typed
      <4> QED BY <2>1, <4>1
    <3> QED BY <3>1, <3>2, <3>3 DEF OpenInv
  <2>4. QueryInv'
    <3> SUFFICES ASSUME NEW d \in Cursor, queries'[d] = "start", reader'[d[1]] \in {"none", "run"}
                 PROVE  ~closing'[d[1]] /\ error'[d] = "Absent"
      BY DEF QueryInv
    <3>1. d[1] # g /\ d # c /\ d[1] \in Gen /\ queries[d] = "start"
      BY <2>1, Types
    <3> QED BY <2>1, <3>1 DEF ConnInv, QueryInv
  <2> QED BY <2>2, <2>3, <2>4 DEF ConnInv
<1>5. CASE BeginArrives(c, r)
  <2>1. /\ error'[c] \in {"None", "Empty"} /\ queries'[c] = "none"
        /\ \A d \in Cursor \ {c} : error'[d] = error[d] /\ queries'[d] = queries[d]
        /\ cached' = cached \cup {c} /\ held' = held \cup {c}
        /\ UNCHANGED <<closing, reader>>
    BY <1>1, <1>5 DEF BeginArrives, Typed
  <2>2. TokenInv'
    BY <1>3, <2>1 DEF ConnInv, TokenInv
  <2>3. OpenInv'
    BY <1>1, <1>2, <2>1 DEF ConnInv, OpenInv, Typed
  <2>4. QueryInv'
    BY <2>1 DEF ConnInv, QueryInv
  <2> QED BY <2>2, <2>3, <2>4 DEF ConnInv
<1> QED BY <1>1, <1>4, <1>5

LEMMA BaseStep ==
  ASSUME Typed, BaseInv, [Next]_vars
  PROVE  BaseInv'
<1>1. Typed'
  BY TypeStep
<1>2. ConnStep /\ TaskInv'
  BY <1>1, ConnCases, TaskStep DEF BaseInv
<1>3. ASSUME NEW c \in Cursor, ReadValue(c), ValueArrives(c) PROVE ConnInv'
  <2>1. \A d \in Cursor : Fresh(d)' => Fresh(d)
    BY <1>1, <1>2, FreshStep
  <2>2. /\ queries'[c] = "none" /\ \A d \in Cursor \ {c} : queries'[d] = queries[d]
        /\ UNCHANGED <<closing, reader, error, cached, held>>
    BY <1>3, ValueCases DEF ValueArrives, Typed
  <2>3. TokenInv'
    BY <2>1, <2>2 DEF BaseInv, TokenInv
  <2>4. OpenInv'
    BY <2>2 DEF BaseInv, OpenInv, Typed
  <2>5. QueryInv'
    BY <2>2 DEF BaseInv, QueryInv
  <2> QED BY <2>3, <2>4, <2>5 DEF ConnInv
<1>4. ConnInv'
  BY <1>1, <1>2, <1>3, ConnCalls, ConnGone, ConnBatch, ConnStream DEF ConnStep, BaseInv, ConnInv
<1> QED BY <1>2, <1>4 DEF BaseInv, ConnInv

(* Types and the invariant behind the cursors hold in every state.         *)
LEMMA Based == Spec => [](Typed /\ BaseInv)
<1>1. Init => Typed /\ BaseInv
  BY InitTyped, BaseInit
<1>2. Typed /\ BaseInv /\ [Next]_vars => (Typed /\ BaseInv)'
  BY TypeStep, BaseStep
<1> QED BY <1>1, <1>2, PTL DEF Spec

-----------------------------------------------------------------------------
(* A CONTINUE is scheduled for a cursor of an open instance.               *)
LEMMA ContCases ==
  ASSUME Typed, BaseInv, [Next]_vars
  PROVE  \/ conts' \subseteq conts
         \/ \E c \in Cursor : /\ conts' = conts \cup {<<instance, c>>}
                             /\ ~closing[c[1]] /\ c[1] <= gen
<1> DEFINE Continues == \/ conts' \subseteq conts
                        \/ \E c \in Cursor : /\ conts' = conts \cup {<<instance, c>>}
                                            /\ ~closing[c[1]] /\ c[1] <= gen
<1>0. \A c \in Cursor : c \in cached \/ queries[c] = "start" => c[1] <= gen
  <2>1. \A c \in Cursor : c \in cached \/ queries[c] = "start" => ~Fresh(c)
    BY UsedCursor DEF BaseInv, OpenInv
  <2>2. \A c \in Cursor : c[1] \in Nat /\ gen \in Nat
    BY Types, GenType
  <2> QED BY <2>1, <2>2 DEF Fresh
<1> USE DEF connVars, instVars, cursorVars, srvVars
<1>1. ASSUME NEW u \in Task, Call(u) PROVE Continues
  BY <1>1 DEF Call, Refused, Run, NextCall, CursorClose, Close, ReconnectDetached, Cancel,
              NextTimeout, vars
<1>2. ASSUME NEW u \in Task, Resume(u) PROVE Continues
  <2>1. CASE NextWait(u)
    <3>1. task[u].c \in Cursor
      BY DEF Typed, TaskType
    <3>2. ~closing[task[u].c[1]] /\ task[u].c[1] <= gen
      BY <1>0, <2>1, <3>1 DEF NextWait, BaseInv, OpenInv
    <3> QED BY <2>1, <3>1, <3>2 DEF NextWait
  <2> QED BY <1>2, <2>1 DEF Resume, NextItem, NextError, CloseStream, Shut, OpenConnection,
                            HandshakeDone, HandshakeFails
<1>3. ASSUME NEW c \in Cursor, NEW r \in Response, ReadBatch(c, r) PROVE Continues
  BY <1>0, <1>3, BatchCases DEF BatchFails, BatchArrives, BaseInv, OpenInv
<1>4. ASSUME NEW c \in Cursor, NEW r \in Response, ReadStream(c, r) PROVE Continues
  <2>1. ~closing[c[1]] /\ c[1] <= gen
    BY <1>0, <1>4, StreamCases DEF Reads, BaseInv, QueryInv
  <2> QED BY <1>4, <2>1, StreamCases DEF BeginFails, BeginCancelled, BeginArrives, Begins
<1>5. ASSUME NEW c \in Cursor, ReadValue(c) \/ SkipWhileClosing(c) PROVE Continues
  BY <1>5, ValueCases DEF SkipWhileClosing
<1>6. CASE \/ \E k \in conts : ContinueRuns(k)
           \/ \E g \in Gen : UnexpectedResponse(g) \/ ReadEnd(g) \/ Drop(g) \/ Eof(g)
           \/ UNCHANGED vars
  BY <1>6 DEF ContinueRuns, UnexpectedResponse, ReadEnd, Drop, Eof, vars
<1> QED BY <1>1, <1>2, <1>3, <1>4, <1>5, <1>6 DEF Next, ReadResponse

(* Whatever the tasks overlap with each other, with the reader and with    *)
(* the loss of connections: a CONTINUE that leaves on another connection   *)
(* than its cursor's was scheduled while that one was still open.          *)
THEOREM ContinueGoesHome == Spec => ContinuesOwnStream
<1>1. Typed /\ BaseInv /\ [Next]_vars =>
        [\A k \in conts' \ conts : k[1] = k[2][1] \/ ~closing[k[2][1]]]_vars
  BY ContCases
<1> QED BY <1>1, Based, PTL DEF Spec, ContinuesOwnStream

-----------------------------------------------------------------------------
(* What a step does to the rows.                                           *)
Fails(d) == error'[d] = error[d] \/ (error[d] = "None" /\ error'[d] = "Runtime")

Arrives(c, r) ==
  /\ (c \in held /\ error[c] = "None") \/ (c \notin held /\ error[c] = "Absent" /\ r.type # "ERROR")
  /\ held' = held \cup {c}
  /\ error' = [error EXCEPT ![c] = EndOf(r)]
  /\ items' = [items EXCEPT ![c] = IF c \in held THEN items[c] + r.rows ELSE r.rows]

Misses(c, r) ==
  /\ held' = held
  /\ \A d \in Cursor \ {c} : Fails(d) /\ items'[d] = items[d]
  /\ \/ c \in held /\ Fails(c) /\ error'[c] # "None" /\ items'[c] = items[c]
     \/ /\ c \notin held /\ error[c] = "Absent" /\ error'[c] \in {"Runtime", "Empty"}
        /\ items'[c] \in {items[c], r.rows}

RowStep ==
  \/ UNCHANGED <<error, items, held, got, sent, done>>
  \/ \E c \in held : /\ items[c] > 0
                     /\ items' = [items EXCEPT ![c] = items[c] - 1]
                     /\ got' = [got EXCEPT ![c] = got[c] + 1]
                     /\ UNCHANGED <<error, held, sent, done>>
  \/ \E u \in Task, c \in Cursor : CursorClose(u, c)
  \/ (\A d \in Cursor : Fails(d)) /\ UNCHANGED <<items, held, got, sent, done>>
  \/ \E c \in Cursor, r \in Response :
       MayAnswer(c, r) /\ Answered(c, r) /\ got' = got /\ (Arrives(c, r) \/ Misses(c, r))

LEMMA DetachFails ==
  ASSUME NEW g, NEW out, NEW cache \in SUBSET Cursor, NEW err \in [Cursor -> CursorError],
         Detach(g, cache, err, out)
  PROVE  /\ \A d \in Cursor : \/ error'[d] = err[d]
                              \/ err[d] = "None" /\ error'[d] = "Runtime"
         /\ \A d \in cache : d[1] = g => error'[d] # "None"
BY DEF Detach, CursorError

LEMMA RaisesFails ==
  ASSUME NEW g, NEW out, NEW cache \in SUBSET Cursor, NEW err \in [Cursor -> CursorError],
         Raises(g, cache, err, out)
  PROVE  /\ \A d \in Cursor : \/ error'[d] = err[d]
                              \/ err[d] = "None" /\ error'[d] = "Runtime"
         /\ ~closing[g] => \A d \in cache : d[1] = g => error'[d] # "None"
<1>1. (error' = err /\ closing[g]) \/ Detach(g, cache, err, out)
  BY DEF Raises
<1> QED BY <1>1, DetachFails

LEMMA RowBatch ==
  ASSUME Typed, BaseInv, NEW c \in Cursor, NEW r \in Response, ReadBatch(c, r)
  PROVE  RowStep
<1>1. /\ c \in cached /\ MayAnswer(c, r) /\ Answered(c, r) /\ UNCHANGED <<held, got>>
      /\ c \in held /\ ~closing[c[1]]
      /\ BatchFails(c) \/ BatchArrives(c, r)
  BY BatchCases DEF BaseInv, OpenInv
<1>2. cached \in SUBSET Cursor /\ error \in [Cursor -> CursorError]
  BY DEF Typed
<1>3. CASE BatchFails(c)
  <2>1. Raises(c[1], cached, error, Counted(c)) /\ items' = items
    BY <1>3 DEF BatchFails
  <2>2. (\A d \in Cursor : Fails(d)) /\ error'[c] # "None"
    BY <1>1, <1>2, <2>1, RaisesFails DEF Fails
  <2>3. Misses(c, r)
    BY <1>1, <2>1, <2>2 DEF Misses
  <2> QED BY <1>1, <2>3 DEF RowStep
<1>4. CASE BatchArrives(c, r)
  <2>1. CASE error[c] = "None"
    <3>1. Arrives(c, r)
      BY <1>1, <1>4, <2>1 DEF BatchArrives, Arrives
    <3> QED BY <1>1, <3>1 DEF RowStep
  <2>2. CASE error[c] # "None"
    <3>1. Misses(c, r)
      BY <1>1, <1>2, <1>4, <2>2 DEF BatchArrives, Misses, Fails, Typed
    <3> QED BY <1>1, <3>1 DEF RowStep
  <2> QED BY <2>1, <2>2
<1> QED BY <1>1, <1>3, <1>4

LEMMA RowStream ==
  ASSUME Typed, BaseInv, NEW c \in Cursor, NEW r \in Response, ReadStream(c, r)
  PROVE  RowStep
<1> DEFINE begun == [error EXCEPT ![c] = "None"]
           first == [error EXCEPT ![c] = EndOf(r)]
           cache == cached \cup {c}
<1>1. /\ MayAnswer(c, r) /\ Answered(c, r) /\ got' = got /\ r.type # "ERROR"
      /\ BeginFails(c) \/ BeginCancelled(c, r) \/ BeginArrives(c, r)
      /\ queries[c] = "start" /\ reader[c[1]] = "run" /\ EndOf(r) \in {"None", "Empty"}
  BY StreamCases DEF Reads, EndOf, Response
<1>2. c \notin held /\ error[c] = "Absent" /\ ~closing[c[1]]
  BY <1>1 DEF BaseInv, OpenInv, QueryInv
<1>3. CASE BeginFails(c) \/ BeginCancelled(c, r)
  <2>1. /\ begun \in [Cursor -> CursorError] /\ begun[c] = "None"
        /\ first \in [Cursor -> CursorError] /\ first[c] \in {"None", "Empty"}
        /\ \A d \in Cursor \ {c} : begun[d] = error[d] /\ first[d] = error[d]
        /\ cache \in SUBSET Cursor /\ c \in cache
    BY <1>1 DEF Typed, CursorError
  <2>2. /\ held' = held
        /\ items' = items \/ items' = [items EXCEPT ![c] = r.rows]
        /\ \/ Detach(c[1], cache, begun, [outstanding EXCEPT ![c] = 1])
           \/ Raises(c[1], cache, first, [outstanding EXCEPT ![c] = 1])
    BY <1>3 DEF BeginFails, BeginCancelled, Begins
  <2> HIDE DEF begun, first, cache
  <2>3. (\A d \in Cursor \ {c} : Fails(d)) /\ error'[c] \in {"Runtime", "Empty"}
    <3>1. CASE Detach(c[1], cache, begun, [outstanding EXCEPT ![c] = 1])
      BY <1>2, <2>1, <3>1, DetachFails DEF Fails
    <3>2. CASE Raises(c[1], cache, first, [outstanding EXCEPT ![c] = 1])
      BY <1>2, <2>1, <3>2, RaisesFails DEF Fails
    <3> QED BY <2>2, <3>1, <3>2
  <2>4. items'[c] \in {items[c], r.rows} /\ \A d \in Cursor \ {c} : items'[d] = items[d]
    BY <2>2 DEF Typed
  <2>5. Misses(c, r)
    BY <1>2, <2>2, <2>3, <2>4 DEF Misses
  <2> QED BY <1>1, <2>5 DEF RowStep
<1>4. CASE BeginArrives(c, r)
  <2>1. Arrives(c, r)
    BY <1>1, <1>2, <1>4 DEF BeginArrives, Begins, Arrives
  <2> QED BY <1>1, <2>1 DEF RowStep
<1> QED BY <1>1, <1>3, <1>4

LEMMA RowCases ==
  ASSUME Typed, BaseInv, [Next]_vars
  PROVE  RowStep
<1> DEFINE Same == UNCHANGED <<error, items, held, got, sent, done>>
           Lose == (\A d \in Cursor : Fails(d)) /\ UNCHANGED <<items, held, got, sent, done>>
<1> USE DEF connVars, instVars, cursorVars, srvVars
<1>0. cached \in SUBSET Cursor /\ error \in [Cursor -> CursorError]
  BY DEF Typed
<1>1. ASSUME NEW u \in Task, Call(u) PROVE RowStep
  <2>1. CASE \E op \in {"close", "reconnect"}, noreply_wait \in BOOLEAN : Close(u, op, noreply_wait)
    <3>1. /\ Detach(instance, cached, error, outstanding)
          /\ UNCHANGED <<items, held, got, sent, done>>
      BY <2>1 DEF Close
    <3>2. Lose
      BY <1>0, <3>1, DetachFails DEF Fails
    <3> QED BY <3>2 DEF RowStep
  <2>2. CASE \E c \in Cursor : CursorClose(u, c)
    BY <2>2 DEF RowStep
  <2>3. CASE \/ Refused(u) \/ Cancel(u) \/ NextTimeout(u) \/ ReconnectDetached(u)
             \/ \E op \in {"start", "plain"} : Run(u, op)
             \/ \E c \in Cursor : NextCall(u, c)
    <3>1. Same
      BY <2>3 DEF Refused, Run, NextCall, Cancel, NextTimeout, ReconnectDetached, vars
    <3> QED BY <3>1 DEF RowStep
  <2> QED BY <1>1, <2>1, <2>2, <2>3 DEF Call
<1>2. ASSUME NEW u \in Task, Resume(u) PROVE RowStep
  <2>1. CASE NextItem(u)
    <3>1. task[u].c \in held
      BY <2>1 DEF NextItem, BaseInv, TaskInv
    <3>2. items[task[u].c] > 0 /\ UNCHANGED <<error, held, sent, done>>
      BY <2>1 DEF NextItem
    <3>3. \/ /\ items' = [items EXCEPT ![task[u].c] = items[task[u].c] - 1]
             /\ got' = [got EXCEPT ![task[u].c] = got[task[u].c] + 1]
          \/ UNCHANGED <<items, got>>
      BY <2>1 DEF NextItem
    <3> QED BY <3>1, <3>2, <3>3 DEF RowStep
  <2>2. CASE HandshakeFails(u)
    <3>1. /\ Detach(task[u].c[1], cached, error, outstanding)
          /\ UNCHANGED <<items, held, got, sent, done>>
      BY <2>2 DEF HandshakeFails
    <3>2. Lose
      BY <1>0, <3>1, DetachFails DEF Fails
    <3> QED BY <3>2 DEF RowStep
  <2>3. CASE \/ NextError(u) \/ NextWait(u) \/ CloseStream(u) \/ Shut(u) \/ HandshakeDone(u)
             \/ \E ok \in BOOLEAN : OpenConnection(u, ok)
    <3>1. Same
      BY <2>3 DEF NextError, NextWait, CloseStream, Shut, HandshakeDone, OpenConnection
    <3> QED BY <3>1 DEF RowStep
  <2> QED BY <1>2, <2>1, <2>2, <2>3 DEF Resume
<1>3. ASSUME NEW g \in Gen, UnexpectedResponse(g) \/ ReadEnd(g) PROVE RowStep
  <2>1. /\ Raises(g, cached, error, outstanding)
        /\ UNCHANGED <<items, held, got, sent, done>>
    BY <1>3 DEF UnexpectedResponse, ReadEnd
  <2>2. Lose
    BY <1>0, <2>1, RaisesFails DEF Fails
  <2> QED BY <2>2 DEF RowStep
<1>4. ASSUME NEW c \in Cursor, ReadValue(c) PROVE RowStep
  <2>1. /\ UNCHANGED <<items, held, got, sent, done>>
        /\ Raises(c[1], cached, error, outstanding) \/ ValueArrives(c)
    BY <1>4, ValueCases
  <2>2. Lose
    BY <1>0, <2>1, RaisesFails DEF Fails, ValueArrives
  <2> QED BY <2>2 DEF RowStep
<1>5. CASE \/ \E k \in conts : ContinueRuns(k)
           \/ \E c \in Cursor : SkipWhileClosing(c)
           \/ \E g \in Gen : Drop(g) \/ Eof(g)
           \/ UNCHANGED vars
  <2>1. Same
    BY <1>5 DEF ContinueRuns, SkipWhileClosing, Drop, Eof, vars
  <2> QED BY <2>1 DEF RowStep
<1> QED BY <1>1, <1>2, <1>3, <1>4, <1>5, RowBatch, RowStream DEF Next, ReadResponse

(* The rows an open cursor has are those that were sent; a query that has  *)
(* not been answered has sent none.                                        *)
RowsInv ==
  \A c \in Cursor :
    /\ got[c] + items[c] <= sent[c]
    /\ error[c] = "None" => got[c] + items[c] = sent[c]
    /\ error[c] = "Absent" => sent[c] = 0 /\ ~done[c]
    /\ c \notin held => got[c] = 0

LEMMA RowsInit == Init => RowsInv
BY DEF Init, RowsInv

LEMMA RowsStep ==
  ASSUME Typed, Typed', BaseInv, RowsInv, RowStep
  PROVE  RowsInv'
<1> DEFINE Rows(c) == /\ got[c] + items[c] <= sent[c]
                      /\ error[c] = "None" => got[c] + items[c] = sent[c]
                      /\ error[c] = "Absent" => sent[c] = 0 /\ ~done[c]
                      /\ c \notin held => got[c] = 0
<1>1. \A c \in Cursor : Rows(c) /\ got[c] \in Nat /\ items[c] \in Nat /\ sent[c] \in Nat
  BY DEF RowsInv, Typed
<1>2. ASSUME NEW c \in Cursor, Fails(c), items'[c] = items[c], got'[c] = got[c],
             sent'[c] = sent[c], done'[c] = done[c], held' = held
      PROVE  Rows(c)'
  BY <1>1, <1>2 DEF Fails
<1>3. CASE UNCHANGED <<error, items, held, got, sent, done>>
  BY <1>2, <1>3 DEF RowsInv, Fails
<1>4. ASSUME NEW c \in held, items[c] > 0, items' = [items EXCEPT ![c] = items[c] - 1],
             got' = [got EXCEPT ![c] = got[c] + 1], UNCHANGED <<error, held, sent, done>>
      PROVE  RowsInv'
  <2>1. c \in Cursor /\ items'[c] = items[c] - 1 /\ got'[c] = got[c] + 1
    BY <1>4 DEF Typed
  <2>2. \A d \in Cursor \ {c} : items'[d] = items[d] /\ got'[d] = got[d]
    BY <1>4 DEF Typed
  <2>3. Rows(c)'
    BY <1>1, <1>4, <2>1
  <2>4. \A d \in Cursor \ {c} : Rows(d)'
    BY <1>2, <1>4, <2>2 DEF Fails
  <2> QED BY <2>3, <2>4 DEF RowsInv
<1>5. ASSUME NEW u \in Task, NEW c \in Cursor, CursorClose(u, c) PROVE RowsInv'
  <2>1. /\ error'[c] = "Stopped" /\ \A d \in Cursor \ {c} : error'[d] = error[d]
        /\ UNCHANGED <<items, held, got, sent, done>>
    BY <1>5 DEF CursorClose, srvVars, Typed
  <2>2. \A d \in Cursor : Rows(d)'
    BY <1>1, <2>1
  <2> QED BY <2>2 DEF RowsInv
<1>6. CASE (\A d \in Cursor : Fails(d)) /\ UNCHANGED <<items, held, got, sent, done>>
  BY <1>2, <1>6 DEF RowsInv
<1>7. ASSUME NEW c \in Cursor, NEW r \in Response, MayAnswer(c, r), Answered(c, r), got' = got,
             Arrives(c, r) \/ Misses(c, r)
      PROVE  RowsInv'
  <2>1. /\ sent'[c] = sent[c] + r.rows /\ r.rows \in Nat
        /\ \A d \in Cursor \ {c} : sent'[d] = sent[d] /\ done'[d] = done[d]
    BY <1>7, AnsweredType
  <2>2. CASE Arrives(c, r)
    <3>1. /\ held' = held \cup {c} /\ items'[c] = (IF c \in held THEN items[c] ELSE 0) + r.rows
          /\ \A d \in Cursor \ {c} : items'[d] = items[d] /\ error'[d] = error[d]
          /\ error'[c] # "Absent"
      BY <1>1, <2>1, <2>2, <1>7, AnsweredType DEF Arrives, Typed
    <3>2. got[c] + items[c] = sent[c] /\ (c \notin held => got[c] = 0 /\ items[c] = 0)
      BY <1>1, <2>2 DEF Arrives
    <3>3. Rows(c)'
      BY <1>1, <1>7, <2>1, <3>1, <3>2
    <3>4. ASSUME NEW d \in Cursor \ {c} PROVE Rows(d)'
      BY <1>1, <1>7, <2>1, <3>1
    <3> QED BY <3>3, <3>4 DEF RowsInv
  <2>3. CASE Misses(c, r)
    <3>1. ASSUME NEW d \in Cursor \ {c} PROVE Rows(d)'
      BY <1>2, <1>7, <2>1, <2>3 DEF Misses
    <3>2. Rows(c)'
      <4>1. got'[c] = got[c] /\ held' = held
        BY <1>7, <2>3 DEF Misses
      <4>2. CASE c \in held /\ Fails(c) /\ error'[c] # "None" /\ items'[c] = items[c]
        <5>1. error[c] # "Absent"
          BY <4>2 DEF BaseInv, OpenInv
        <5>2. error'[c] # "Absent"
          BY <4>2, <5>1 DEF Fails
        <5> QED BY <1>1, <2>1, <4>1, <4>2, <5>2
      <4>3. CASE c \notin held /\ error[c] = "Absent" /\ error'[c] \in {"Runtime", "Empty"}
                 /\ items'[c] \in {items[c], r.rows}
        BY <1>1, <2>1, <4>1, <4>3
      <4> QED BY <2>3, <4>2, <4>3 DEF Misses
    <3> QED BY <3>1, <3>2 DEF RowsInv
  <2> QED BY <1>7, <2>2, <2>3
<1> QED BY <1>3, <1>4, <1>5, <1>6, <1>7 DEF RowStep

-----------------------------------------------------------------------------
(* The refinement: what the tasks see of the cursors.                      *)
StreamStatus(e) == CASE e = "None"    -> "open"
                     [] e = "Empty"   -> "complete"
                     [] e = "Stopped" -> "closed"
                     [] OTHER         -> "failed"
Statuses  == {"absent", "open", "complete", "closed", "failed"}
Available == [c \in Cursor |-> IF c \in held THEN got[c] + items[c] ELSE 0]
Status    == [c \in Cursor |->
  IF c \notin held THEN "absent"
  ELSE CASE error[c] = "None"    -> "open"
         [] error[c] = "Empty"   -> "complete"
         [] error[c] = "Stopped" -> "closed"
         [] OTHER                -> "failed"]
Last(r) == r.type # "SUCCESS_PARTIAL"

LEMMA StatusType ==
  /\ Status \in [Cursor -> Statuses]
  /\ \A c \in Cursor : Status[c] = IF c \notin held THEN "absent" ELSE StreamStatus(error[c])
  /\ \A c \in Cursor : Status'[c] = IF c \notin held' THEN "absent" ELSE StreamStatus(error'[c])
  /\ StreamStatus("None") = "open" /\ StreamStatus("Empty") = "complete"
  /\ StreamStatus("Stopped") = "closed" /\ StreamStatus("Runtime") = "failed"
  /\ StreamStatus("Server") = "failed"
<1>1. Status \in [Cursor -> Statuses]
  BY DEF Status, Statuses
<1>2. \A c \in Cursor : Status[c] = IF c \notin held THEN "absent" ELSE StreamStatus(error[c])
  BY DEF Status, StreamStatus
<1>3. \A c \in Cursor : Status'[c] = IF c \notin held' THEN "absent" ELSE StreamStatus(error'[c])
  BY DEF Status, StreamStatus
<1>4. /\ StreamStatus("None") = "open" /\ StreamStatus("Empty") = "complete"
      /\ StreamStatus("Stopped") = "closed" /\ StreamStatus("Runtime") = "failed"
      /\ StreamStatus("Server") = "failed"
  BY DEF StreamStatus
<1> QED BY <1>1, <1>2, <1>3, <1>4

LEMMA RefineStarts == Init => Stream!Init
BY DEF Init, Stream!Init

LEMMA RefineSend ==
  ASSUME Typed, NEW c \in Cursor, NEW r \in Response, MayAnswer(c, r), Answered(c, r)
  PROVE  Stream!Send(c, r.rows, Last(r)) /\ r.rows \in 0 .. MaxRows /\ Last(r) \in BOOLEAN
BY DEF MayAnswer, Answered, Stream!Send, Last, Response

(* Whoever keeps its reference and its rows, or loses its connection.      *)
LEMMA FailedStatus ==
  ASSUME NEW c \in Cursor, Fails(c), held' = held
  PROVE  Status'[c] # Status[c] => Status[c] = "open" /\ Status'[c] = "failed"
BY StatusType DEF Fails, Status

LEMMA RefineFail ==
  ASSUME \A c \in Cursor : Fails(c), UNCHANGED <<items, held, got, sent, done>>
  PROVE  Stream!Fail
<1>1. \A c \in Cursor : Status'[c] # Status[c] => Status[c] = "open" /\ Status'[c] = "failed"
  BY FailedStatus
<1>2. Status' \in [Cursor -> Statuses]
  BY DEF Status, Statuses
<1>3. Available' = Available
  BY DEF Available
<1> QED BY <1>1, <1>2, <1>3 DEF Stream!Fail, Stream!Breaks, Available, Status, Statuses

LEMMA RefineDeliver ==
  ASSUME Typed, NEW c \in held, items[c] > 0, items' = [items EXCEPT ![c] = items[c] - 1],
         got' = [got EXCEPT ![c] = got[c] + 1], UNCHANGED <<error, held, sent, done>>
  PROVE  Stream!Deliver(c)
<1>1. /\ c \in Cursor /\ items[c] \in Nat /\ got[c] \in Nat
      /\ items'[c] = items[c] - 1 /\ got'[c] = got[c] + 1
      /\ \A d \in Cursor \ {c} : items'[d] = items[d] /\ got'[d] = got[d]
  BY DEF Typed
<1>2. Available' = Available
  <2>1. \A d \in Cursor : got'[d] + items'[d] = got[d] + items[d]
    BY <1>1
  <2> QED BY <2>1 DEF Available
<1>3. Available[c] = got[c] + items[c] /\ got[c] < got[c] + items[c]
  BY <1>1 DEF Available
<1>4. Status' = Status
  BY DEF Status
<1> QED BY <1>2, <1>3, <1>4 DEF Stream!Deliver, Available, Status

LEMMA RefineClose ==
  ASSUME Typed, NEW u \in Task, NEW c \in Cursor, CursorClose(u, c)
  PROVE  Stream!Close(c)
<1>1. /\ error[c] = "None" /\ error' = [error EXCEPT ![c] = "Stopped"] /\ c \in held
      /\ UNCHANGED <<items, held, got, sent, done>> /\ error \in [Cursor -> CursorError]
  BY DEF CursorClose, srvVars, Typed
<1>2. Status[c] = "open" /\ Status' = [Status EXCEPT ![c] = "closed"]
  <2>1. Status[c] = "open" /\ Status'[c] = "closed"
    BY <1>1, StatusType
  <2>2. \A d \in Cursor \ {c} : Status'[d] = Status[d]
    BY <1>1, StatusType
  <2>3. Status' = [d \in Cursor |-> Status'[d]]
    BY DEF Status
  <2> QED BY <2>1, <2>2, <2>3, StatusType
<1>3. Available' = Available
  BY <1>1 DEF Available
<1> QED BY <1>1, <1>2, <1>3 DEF Stream!Close, Available, Status

LEMMA RefineArrives ==
  ASSUME Typed, RowsInv, NEW c \in Cursor, NEW r \in Response,
         MayAnswer(c, r), Answered(c, r), got' = got, Arrives(c, r)
  PROVE  Stream!Arrive(c, r.rows, Last(r))
<1>1. /\ held' = held \cup {c} /\ error'[c] = EndOf(r)
      /\ items'[c] = IF c \in held THEN items[c] + r.rows ELSE r.rows
      /\ \A d \in Cursor \ {c} : items'[d] = items[d] /\ error'[d] = error[d]
  BY DEF Arrives, Typed
<1>2. items[c] \in Nat /\ got[c] \in Nat /\ sent[c] \in Nat /\ r.rows \in Nat
  BY AnsweredType DEF Typed
<1>3. Status[c] \in {"absent", "open"} /\ Available[c] = sent[c]
  BY StatusType DEF Arrives, Available, RowsInv, Status
<1>4. Available' = [Available EXCEPT ![c] = @ + r.rows]
  <2>1. Available'[c] = Available[c] + r.rows
    BY <1>1, <1>2 DEF Available, RowsInv
  <2>2. \A d \in Cursor \ {c} : Available'[d] = Available[d]
    BY <1>1 DEF Available
  <2>3. Available \in [Cursor -> {Available[d] : d \in Cursor}] /\ DOMAIN Available' = Cursor
    BY DEF Available
  <2> QED BY <2>1, <2>2, <2>3 DEF Available
<1>5. /\ Status'[c] \in {IF Last(r) THEN "complete" ELSE "open", "failed"}
      /\ \A d \in Cursor \ {c} : Status'[d] = Status[d]
  <2>1. \/ EndOf(r) = "None" /\ ~Last(r)
        \/ EndOf(r) \in {"Empty", "Server"} /\ Last(r)
    BY AnsweredType DEF Last
  <2>2. Status'[c] = StreamStatus(EndOf(r))
    BY <1>1, StatusType
  <2>3. \A d \in Cursor \ {c} : Status'[d] = Status[d]
    BY <1>1, StatusType
  <2> QED BY <2>1, <2>2, <2>3, StatusType
<1>6. Status' \in [Cursor -> Statuses]
  BY DEF Status, Statuses
<1> QED BY <1>3, <1>4, <1>5, <1>6, RefineSend DEF Stream!Arrive, Available, Status, Statuses

LEMMA RefineMisses ==
  ASSUME Typed, NEW c \in Cursor, NEW r \in Response,
         MayAnswer(c, r), Answered(c, r), got' = got, Misses(c, r)
  PROVE  Stream!Miss(c, r.rows, Last(r))
<1>1. held' = held /\ \A d \in Cursor : d \in held => Fails(d) /\ items'[d] = items[d]
  BY DEF Misses
<1>2. \A d \in Cursor : Status'[d] # Status[d] => Status[d] = "open" /\ Status'[d] = "failed"
  <2>1. \A d \in Cursor : d \notin held => Status'[d] = Status[d]
    BY <1>1 DEF Status
  <2> QED BY <1>1, <2>1, FailedStatus
<1>3. Available' = Available
  BY <1>1 DEF Available
<1>4. Status' \in [Cursor -> Statuses]
  BY DEF Status, Statuses
<1> QED BY <1>2, <1>3, <1>4, RefineSend DEF Stream!Miss, Stream!Breaks, Available, Status, Statuses

LEMMA RefineStep ==
  ASSUME Typed, RowsInv, RowStep
  PROVE  [Stream!Next]_(Stream!vars)
<1>1. CASE UNCHANGED <<error, items, held, got, sent, done>>
  BY <1>1 DEF Stream!vars
<1>2. CASE \E c \in held : /\ items[c] > 0
                           /\ items' = [items EXCEPT ![c] = items[c] - 1]
                           /\ got' = [got EXCEPT ![c] = got[c] + 1]
                           /\ UNCHANGED <<error, held, sent, done>>
  <2>1. PICK c \in held : Stream!Deliver(c)
    BY <1>2, RefineDeliver
  <2>2. c \in Cursor
    BY DEF Typed
  <2> QED BY <2>1, <2>2 DEF Stream!Next
<1>3. CASE \E u \in Task, c \in Cursor : CursorClose(u, c)
  BY <1>3, RefineClose DEF Stream!Next
<1>4. CASE (\A d \in Cursor : Fails(d)) /\ UNCHANGED <<items, held, got, sent, done>>
  BY <1>4, RefineFail DEF Stream!Next
<1>5. CASE \E c \in Cursor, r \in Response :
             MayAnswer(c, r) /\ Answered(c, r) /\ got' = got /\ (Arrives(c, r) \/ Misses(c, r))
  <2>1. PICK c \in Cursor, r \in Response :
          MayAnswer(c, r) /\ Answered(c, r) /\ got' = got /\ (Arrives(c, r) \/ Misses(c, r))
    BY <1>5
  <2>2. Stream!Arrive(c, r.rows, Last(r)) \/ Stream!Miss(c, r.rows, Last(r))
    BY <2>1, RefineArrives, RefineMisses
  <2>3. r.rows \in 0 .. MaxRows /\ Last(r) \in BOOLEAN
    BY <2>1, RefineSend
  <2> QED BY <2>2, <2>3 DEF Stream!Next
<1> QED BY <1>1, <1>2, <1>3, <1>4, <1>5 DEF RowStep

(* What the tasks see of the cursors is a gapless result stream: rows in   *)
(* order and without a gap, "complete" only when all of it has arrived,    *)
(* and no further row after an end, whatever the tasks, the reader and the *)
(* network do at the same time.                                            *)
THEOREM AsyncioStreams == Spec => ImplementsResultStream
<1>1. Init => RowsInv /\ Stream!Init
  BY RowsInit, RefineStarts
<1>2. /\ Typed /\ BaseInv /\ (Typed /\ BaseInv)' /\ RowsInv /\ [Next]_vars
      => RowsInv' /\ [Stream!Next]_(Stream!vars)
  BY RowCases, RowsStep, RefineStep
<1> QED BY <1>1, <1>2, Based, PTL DEF Spec, ImplementsResultStream, Stream!Spec

-----------------------------------------------------------------------------
(* Requests are counted exactly as long as no open instance is replaced.   *)
Replaces == instance' # instance /\ instance # 0 /\ ~closing'[instance]

(* Only the current instance is open.  A stream that is closed or a reader *)
(* that has ended belongs to a closed instance, and so does a NOREPLY_WAIT *)
(* of close(); a CONTINUE is for its cursor's own connection.              *)
InstInv ==
  /\ \A g \in Gen : g <= gen /\ g # instance => closing[g]
  /\ \A g \in Gen : stream[g] = "closed" \/ reader[g] \in {"ended", "failed"} => closing[g]
  /\ \A g \in Gen : reader[g] # "none" => stream[g] # "none"
  /\ \A u \in Task : task[u].pc = "handshake" => stream[Instance(u)] # "none"
  /\ \A u \in Task : task[u].pc \in {"flush", "flushed"} => closing[Instance(u)]
  /\ \A c \in cached : reader[c[1]] = "run"
  /\ \A k \in conts : k[1] = k[2][1]

LEMMA InstInit == Init => InstInv
BY IdleType, Types, AsyncioAssumption DEF Init, InstInv, Gen

LEMMA MoveCases ==
  ASSUME Typed, NEW u \in Task, MovesOn(u)
  PROVE  /\ \A v \in Task \ {u} : task'[v] = task[v]
         /\ task'[u].pc \in {"idle", "next", "wait", "handshake", "connect"}
         /\ task'[u].pc = "handshake" => task'[u].c = task[u].c /\ stream'[Instance(u)] = "open"
         /\ task'[u].pc = "wait" => NextWait(u) /\ task'[u].c = task[u].c
<1>1. /\ task \in [Task -> TaskType] /\ stream \in [Gen -> {"none", "open", "closed"}]
      /\ Instance(u) \in Gen /\ Idle.pc = "idle"
  BY Types, IdleType DEF Typed, TaskType, Instance
<1>2. CASE \E c \in Cursor : NextCall(u, c)
  BY <1>1, <1>2 DEF NextCall, At, TaskType
<1>3. CASE NextWait(u)
  <2>1. Goto(u, "wait") \/ Return(u)
    BY <1>3 DEF NextWait
  <2> QED BY <1>1, <1>3, <2>1 DEF Goto, Return, TaskType
<1>4. CASE \E ok \in BOOLEAN : OpenConnection(u, ok)
  <2>1. \/ Goto(u, "handshake") /\ stream' = [stream EXCEPT ![Instance(u)] = "open"]
        \/ Return(u)
    BY <1>4 DEF OpenConnection, Instance
  <2> QED BY <1>1, <2>1 DEF Goto, Return, TaskType
<1>5. CASE NewInstance(u)
  BY <1>1, <1>5 DEF NewInstance, At, TaskType
<1> QED BY <1>2, <1>3, <1>4, <1>5 DEF MovesOn, ReconnectDetached

(* What a step does to the streams, the closing flags and the readers.     *)
Shuts(g) == closing'[g] \/ \E u \in Task : task[u].pc = "flushed" /\ Instance(u) = g
InstStep ==
  /\ \A g \in Gen : closing[g] => closing'[g]
  /\ \A g \in Gen : stream'[g] = "closed" => stream[g] = "closed" \/ Shuts(g)
  /\ \A g \in Gen : stream'[g] = "none" => stream[g] = "none"
  /\ \A g \in Gen : reader'[g] = reader[g] \/ closing'[g] \/ reader'[g] = "run"

LEMMA RaisesInst ==
  ASSUME Typed, NEW g \in Gen, NEW cache, NEW err, NEW out, Raises(g, cache, err, out)
  PROVE  InstStep
<1>1. PICK end : reader' = [reader EXCEPT ![g] = end]
  BY DEF Raises
<1>2. \/ closing[g] /\ UNCHANGED <<closing, stream>>
      \/ closing' = [closing EXCEPT ![g] = TRUE] /\ stream' = [stream EXCEPT ![g] = "closed"]
  BY DEF Raises, Detach
<1> QED BY <1>1, <1>2 DEF InstStep, Shuts, Typed

LEMMA InstCases ==
  ASSUME Typed, [Next]_vars PROVE InstStep
<1> USE DEF connVars, instVars
<1>0. /\ \A u \in Task : Instance(u) \in Gen
      /\ closing \in [Gen -> BOOLEAN] /\ stream \in [Gen -> {"none", "open", "closed"}]
      /\ reader \in [Gen -> {"none", "run", "ended", "failed"}]
  BY Types DEF Typed, TaskType, Instance
<1>1. ASSUME UNCHANGED <<closing, stream, reader>> PROVE InstStep
  BY <1>1 DEF InstStep
<1>2. ASSUME NEW u \in Task, Call(u) PROVE InstStep
  <2>1. CASE \E op \in {"close", "reconnect"}, noreply_wait \in BOOLEAN : Close(u, op, noreply_wait)
    <3>1. /\ instance \in Gen /\ closing' = [closing EXCEPT ![instance] = TRUE] /\ reader' = reader
          /\ stream' = stream \/ stream' = [stream EXCEPT ![instance] = "closed"]
      BY <2>1, GenType DEF Close, Detach
    <3> QED BY <1>0, <3>1 DEF InstStep, Shuts
  <2> QED BY <1>1, <1>2, <2>1
          DEF Call, Refused, Run, NextCall, CursorClose, ReconnectDetached, Cancel, NextTimeout, vars
<1>3. ASSUME NEW u \in Task, Resume(u) PROVE InstStep
  <2>1. CASE CloseStream(u)
    <3>1. /\ task[u].pc = "flushed" /\ stream' = [stream EXCEPT ![Instance(u)] = "closed"]
          /\ UNCHANGED <<closing, reader>>
      BY <2>1 DEF CloseStream, Instance
    <3> QED BY <1>0, <3>1 DEF InstStep, Shuts
  <2>2. CASE \E ok \in BOOLEAN : OpenConnection(u, ok)
    <3>1. /\ stream' = stream \/ stream' = [stream EXCEPT ![Instance(u)] = "open"]
          /\ UNCHANGED <<closing, reader>>
      BY <2>2 DEF OpenConnection, Instance
    <3> QED BY <1>0, <3>1 DEF InstStep
  <2>3. CASE HandshakeDone(u)
    <3>1. reader' = [reader EXCEPT ![Instance(u)] = "run"] /\ UNCHANGED <<closing, stream>>
      BY <2>3 DEF HandshakeDone, Instance
    <3> QED BY <1>0, <3>1 DEF InstStep
  <2>4. CASE HandshakeFails(u)
    <3>1. /\ closing' = [closing EXCEPT ![Instance(u)] = TRUE] /\ reader' = reader
          /\ stream' = [stream EXCEPT ![Instance(u)] = "closed"]
      BY <2>4 DEF HandshakeFails, Instance, Detach
    <3> QED BY <1>0, <3>1 DEF InstStep, Shuts
  <2> QED BY <1>1, <1>3, <2>1, <2>2, <2>3, <2>4 DEF Resume, NextItem, NextError, NextWait, Shut
<1>4. ASSUME NEW c \in Cursor, NEW r \in Response, ReadBatch(c, r) PROVE InstStep
  BY <1>1, <1>4, BatchCases, RaisesInst, Types DEF BatchFails, BatchArrives
<1>5. ASSUME NEW c \in Cursor, NEW r \in Response, ReadStream(c, r) PROVE InstStep
  <2>1. CASE BeginFails(c)
    <3>1. /\ closing' = [closing EXCEPT ![c[1]] = TRUE] /\ stream' = stream
          /\ reader' = [reader EXCEPT ![c[1]] = "failed"] /\ c[1] \in Gen
      BY <2>1, Types DEF BeginFails, Detach
    <3> QED BY <1>0, <3>1 DEF InstStep
  <2> QED BY <1>1, <1>5, <2>1, StreamCases, RaisesInst, Types DEF BeginCancelled, BeginArrives
<1>6. ASSUME NEW c \in Cursor, ReadValue(c) PROVE InstStep
  BY <1>1, <1>6, ValueCases, RaisesInst, Types DEF ValueArrives
<1>7. ASSUME NEW g \in Gen, UnexpectedResponse(g) \/ ReadEnd(g) PROVE InstStep
  BY <1>7, RaisesInst DEF UnexpectedResponse, ReadEnd
<1>8. CASE \/ \E k \in conts : ContinueRuns(k)
           \/ \E c \in Cursor : SkipWhileClosing(c)
           \/ \E g \in Gen : Drop(g) \/ Eof(g)
           \/ UNCHANGED vars
  BY <1>1, <1>8 DEF ContinueRuns, SkipWhileClosing, Drop, Eof, vars
<1> QED BY <1>2, <1>3, <1>4, <1>5, <1>6, <1>7, <1>8 DEF Next, ReadResponse

(* The cursors that are cached after a step.                               *)
LEMMA CacheGrows ==
  ASSUME Typed, ConnStep, NEW c \in cached', c \notin cached
  PROVE  reader[c[1]] = "run"
<1>1. CASE \E d \in Cursor, r \in Response : ReadStream(d, r)
  <2>1. PICK d \in Cursor, r \in Response : ReadStream(d, r)
    BY <1>1
  <2>2. cached' \subseteq cached \cup {d} /\ reader[d[1]] = "run"
    BY <2>1, StreamCases DEF BeginFails, BeginCancelled, BeginArrives, Raises, Detach, Reads
  <2> QED BY <2>2
<1>2. CASE \E d \in Cursor, r \in Response : ReadBatch(d, r) /\ BatchArrives(d, r)
  BY <1>2 DEF BatchArrives
<1> QED BY <1>1, <1>2 DEF ConnStep, Quiet, Run, CursorClose, Gone, Ends, HandshakeDone,
                          ValueArrives, instVars

LEMMA NewGen ==
  ASSUME Typed, ConnStep
  PROVE  gen' = gen \/ (gen' = gen + 1 /\ instance' = gen + 1)
BY StreamCases, BatchCases, ValueCases
   DEF ConnStep, Quiet, Run, CursorClose, Gone, Ends, HandshakeDone, NewInstance, connVars

LEMMA InstInvStep ==
  ASSUME Typed, BaseInv, InstInv, [Next]_vars, ~Replaces
  PROVE  InstInv'
<1>0. ConnStep /\ InstStep /\ Typed' /\ BaseInv'
  BY ConnCases, InstCases, TypeStep, BaseStep
<1>1. /\ gen \in Nat /\ instance \in Nat /\ \A g \in Gen : g \in Nat /\ g # 0
      /\ \A u \in Task : Instance(u) \in Gen /\ Instance(u)' \in Gen
  <2>1. \A u \in Task : task[u].c \in Cursor /\ task'[u].c \in Cursor
    BY <1>0 DEF Typed, TaskType
  <2> QED BY <2>1, GenType, Types DEF Instance, Gen
<1>2. ASSUME NEW g \in Gen, g <= gen', g # instance' PROVE closing'[g]
  <2>1. g <= gen
    BY <1>0, <1>1, <1>2, NewGen
  <2>2. CASE g # instance
    BY <1>0, <2>1, <2>2 DEF InstInv, InstStep
  <2>3. CASE g = instance
    BY <1>1, <1>2, <2>3 DEF Replaces
  <2> QED BY <2>2, <2>3
<1>3. ASSUME NEW g \in Gen, stream'[g] = "closed" \/ reader'[g] \in {"ended", "failed"}
      PROVE  closing'[g]
  BY <1>0, <1>3 DEF InstInv, InstStep, Shuts
<1>4. ASSUME NEW g \in Gen, reader'[g] # "none" PROVE stream'[g] # "none"
  <2>1. CASE reader[g] # "none"
    BY <1>0, <1>4, <2>1 DEF InstInv, InstStep
  <2>2. CASE reader[g] = "none"
    <3>1. \E u \in Task : task[u].pc = "handshake" /\ Instance(u) = g
      BY <1>0, <1>4, <2>2, ReaderCases
    <3> QED BY <1>0, <3>1 DEF InstInv, InstStep
  <2> QED BY <2>1, <2>2
<1>5. /\ \A u \in Task : task'[u].pc = "handshake" => stream'[Instance(u)'] # "none"
      /\ \A u \in Task : task'[u].pc \in {"flush", "flushed"} => closing'[Instance(u)']
  <2>1. ASSUME NEW u \in Task, task'[u] = task[u]
        PROVE  /\ task'[u].pc = "handshake" => stream'[Instance(u)'] # "none"
               /\ task'[u].pc \in {"flush", "flushed"} => closing'[Instance(u)']
    BY <1>0, <1>1, <2>1 DEF InstInv, InstStep, Instance
  <2>2. CASE \A u \in Task : Settles(u)
    <3> SUFFICES ASSUME NEW u \in Task, task'[u] # task[u]
                 PROVE  /\ task'[u].pc # "handshake"
                        /\ task'[u].pc \in {"flush", "flushed"} => closing'[Instance(u)']
      BY <2>1
    <3> QED BY <1>0, <1>1, <2>2 DEF Settles, InstInv, InstStep, Instance
  <2>3. CASE \E u \in Task : MovesOn(u)
    <3>1. PICK u \in Task : MovesOn(u)
      BY <2>3
    <3> QED BY <2>1, <3>1, MoveCases DEF Instance
  <2> QED BY <2>2, <2>3, TaskCases
<1>6. ASSUME NEW c \in cached' PROVE reader'[c[1]] = "run"
  <2>1. c[1] \in Gen /\ ~closing'[c[1]]
    BY <1>0, <1>6, Types DEF Typed, BaseInv, OpenInv
  <2>2. reader[c[1]] = "run"
    BY <1>0, CacheGrows DEF InstInv
  <2> QED BY <1>0, <2>1, <2>2 DEF InstStep
<1>7. ASSUME NEW k \in conts' PROVE k[1] = k[2][1]
  <2>1. CASE k \in conts
    BY <2>1 DEF InstInv
  <2>2. CASE k \notin conts
    <3>1. PICK c \in Cursor : k = <<instance, c>> /\ ~closing[c[1]] /\ c[1] <= gen
      BY <1>7, <2>2, ContCases
    <3> QED BY <3>1, Types DEF InstInv
  <2> QED BY <2>1, <2>2
<1> QED BY <1>2, <1>3, <1>4, <1>5, <1>6, <1>7 DEF InstInv

(* What a cursor is owed: requests the server has, and scheduled CONTINUEs.*)
Request(c) == <<c[1], c>>
Scheduled(c) == IF Request(c) \in conts THEN 1 ELSE 0
Owed(c) == awaiting[c] + Scheduled(c)

CountOf(c) ==
  /\ outstanding[c] \in -1 .. 2 /\ Owed(c) <= 2
  /\ Fresh(c) => Owed(c) = 0
  /\ c \in cached => /\ Owed(c) <= outstanding[c]
                     /\ link[c[1]] = "up" => Owed(c) = outstanding[c]
  /\ error[c] = "None" => outstanding[c] \in 0 .. 1 /\ (outstanding[c] = 1 \/ threshold[c] > 0)
  /\ c \notin cached /\ ~closing[c[1]] =>
       Owed(c) <= 1 /\ Scheduled(c) = 0 /\ (awaiting[c] > 0 => queries[c] # "none")
CountInv == \A c \in Cursor : CountOf(c)

LEMMA CountInit == Init => CountInv
BY DEF Init, CountInv, CountOf, Owed, Scheduled

(* The requests of a cursor are not touched, unless its instance closes.   *)
Still(d) ==
  /\ link'[d[1]] = "up" => link[d[1]] = "up"
  /\ closing[d[1]] => closing'[d[1]]
  /\ Scheduled(d)' = Scheduled(d)
  /\ \/ /\ awaiting'[d] = awaiting[d] /\ outstanding'[d] = outstanding[d]
        /\ threshold'[d] = threshold[d] /\ (d \in cached' <=> d \in cached)
        /\ error'[d] = "None" => error[d] = "None"
        /\ d \notin cached => queries'[d] = queries[d]
     \/ /\ awaiting'[d] <= awaiting[d] /\ closing'[d[1]] /\ d \notin cached' /\ error'[d] # "None"
        /\ \/ outstanding'[d] = outstanding[d]
           \/ error[d] = "None" /\ outstanding'[d] = outstanding[d] - 1

LEMMA StillCounts ==
  ASSUME Typed, Typed', NEW d \in Cursor, CountOf(d), Still(d), Fresh(d)' => Fresh(d)
  PROVE  CountOf(d)'
<1>1. /\ awaiting[d] \in Nat /\ awaiting'[d] \in Nat /\ Scheduled(d) \in {0, 1}
      /\ outstanding[d] \in -1 .. 2 /\ outstanding'[d] \in Int
  BY DEF Typed, Scheduled, CountOf
<1>2. Scheduled(d)' = Scheduled(d)
  BY DEF Still
<1>3. CASE /\ awaiting'[d] = awaiting[d] /\ outstanding'[d] = outstanding[d]
           /\ threshold'[d] = threshold[d] /\ (d \in cached' <=> d \in cached)
           /\ error'[d] = "None" => error[d] = "None"
           /\ d \notin cached => queries'[d] = queries[d]
  <2>1. Owed(d)' = Owed(d)
    BY <1>2, <1>3 DEF Owed
  <2> QED BY <1>2, <1>3, <2>1 DEF Still, CountOf
<1>4. CASE /\ awaiting'[d] <= awaiting[d] /\ closing'[d[1]] /\ d \notin cached' /\ error'[d] # "None"
           /\ \/ outstanding'[d] = outstanding[d]
              \/ error[d] = "None" /\ outstanding'[d] = outstanding[d] - 1
  <2>1. Owed(d)' <= Owed(d) /\ Owed(d) \in Nat /\ Owed(d)' \in Nat
    BY <1>1, <1>2, <1>4 DEF Owed
  <2>2. outstanding'[d] \in -1 .. 2
    BY <1>1, <1>4 DEF CountOf
  <2>3. Owed(d)' <= 2 /\ (Fresh(d)' => Owed(d)' = 0)
    BY <2>1 DEF CountOf
  <2> QED BY <1>4, <2>2, <2>3 DEF CountOf
<1> QED BY <1>3, <1>4 DEF Still

(* Instance g closes: its cursors fail, and nobody else's.                 *)
LEMMA DetachStill ==
  ASSUME Typed, BaseInv, NEW g \in Gen, Detach(g, cached, error, outstanding),
         \A d \in Cursor : d[1] = g => awaiting'[d] <= awaiting[d],
         \A d \in Cursor : d[1] # g => awaiting'[d] = awaiting[d] /\ queries'[d] = queries[d],
         \A h \in Gen : link'[h] = "up" => link[h] = "up",
         UNCHANGED <<conts, threshold>>
  PROVE  \A d \in Cursor : Still(d)
<1> SUFFICES ASSUME NEW d \in Cursor PROVE Still(d)
  OBVIOUS
<1>1. /\ d[1] \in Gen /\ Scheduled(d)' = Scheduled(d) /\ (link'[d[1]] = "up" => link[d[1]] = "up")
      /\ outstanding[d] \in Int
  BY Types DEF Scheduled, Typed
<1>2. /\ closing'[d[1]] <=> closing[d[1]] \/ d[1] = g
      /\ d \in cached' <=> d \in cached /\ d[1] # g
      /\ IF d \in cached /\ d[1] = g /\ error[d] = "None"
         THEN error'[d] = "Runtime" /\ outstanding'[d] = outstanding[d] - 1
         ELSE error'[d] = error[d] /\ outstanding'[d] = outstanding[d]
  BY <1>1 DEF Detach, Typed
<1>3. error[d] = "None" => d \in cached
  BY DEF BaseInv, OpenInv
<1>4. CASE d[1] = g
  BY <1>1, <1>2, <1>3, <1>4 DEF Still
<1>5. CASE d[1] # g
  BY <1>1, <1>2, <1>5 DEF Still
<1> QED BY <1>4, <1>5

LEMMA RaisesStill ==
  ASSUME Typed, BaseInv, NEW g \in Gen, Raises(g, cached, error, outstanding),
         \A d \in Cursor : d[1] = g => awaiting'[d] <= awaiting[d],
         \A d \in Cursor : d[1] # g => awaiting'[d] = awaiting[d],
         \A h \in Gen : link'[h] = "up" => link[h] = "up",
         UNCHANGED <<conts, threshold>>
  PROVE  \A d \in Cursor : Still(d)
<1>1. CASE ~closing[g]
  <2>1. Detach(g, cached, error, outstanding) /\ Forget(g)
    BY <1>1 DEF Raises
  <2>2. \A d \in Cursor : d[1] # g => queries'[d] = queries[d]
    BY <2>1 DEF Forget
  <2> QED BY <2>1, <2>2, DetachStill
<1>2. CASE closing[g]
  <2>1. UNCHANGED <<error, outstanding, cached, closing, queries>>
    BY <1>2 DEF Raises
  <2>2. \A d \in Cursor : d[1] = g => d \notin cached /\ error[d] # "None"
    BY <1>2 DEF BaseInv, OpenInv
  <2>3. ASSUME NEW d \in Cursor PROVE Still(d)
    <3>1. d[1] \in Gen /\ Scheduled(d)' = Scheduled(d)
      BY Types DEF Scheduled
    <3> QED BY <1>2, <2>1, <2>2, <3>1 DEF Still
  <2> QED BY <2>3
<1> QED BY <1>1, <1>2

(* A cursor of an open instance: the instance is the current one, and a    *)
(* request of the cursor reaches the server unless the link is dead.       *)
LEMMA OpenCursor ==
  ASSUME Typed, BaseInv, InstInv, NEW c \in cached
  PROVE  /\ c \in Cursor /\ c = <<instance, c[2]>> /\ ~closing[instance] /\ ~Fresh(c)
         /\ stream[instance] = "open" /\ reader[instance] = "run" /\ instance # 0
         /\ Usable(link) <=> link[instance] # "eof"
         /\ Deliver(c) = IF link[instance] = "up" THEN [awaiting EXCEPT ![c] = @ + 1] ELSE awaiting
<1>1. c \in Cursor /\ c \in held /\ ~closing[c[1]] /\ c[1] \in Gen /\ c = <<c[1], c[2]>>
  BY Types DEF Typed, BaseInv, OpenInv
<1>2. ~Fresh(c)
  BY <1>1, UsedCursor DEF BaseInv
<1>3. c[1] <= gen /\ c[1] # 0
  BY <1>1, <1>2, Types, GenType DEF Fresh, Gen
<1>4. c[1] = instance
  BY <1>1, <1>3 DEF InstInv
<1>5. stream[instance] = "open" /\ reader[instance] = "run"
  BY <1>1, <1>4 DEF InstInv, Typed
<1> QED BY <1>1, <1>2, <1>3, <1>4, <1>5 DEF Usable, Deliver

(* The steps at one cursor; the others' requests are left alone.           *)
LEMMA OneCursor ==
  ASSUME Typed, Typed', ConnStep, CountInv, NEW c \in Cursor, CountOf(c)',
         \A d \in Cursor \ {c} : Still(d)
  PROVE  CountInv'
<1>1. ASSUME NEW d \in Cursor PROVE CountOf(d)'
  <2>1. CASE d = c
    BY <2>1
  <2>2. CASE d # c
    BY <2>2, FreshStep, StillCounts DEF CountInv
  <2> QED BY <2>1, <2>2
<1> QED BY <1>1 DEF CountInv

LEMMA AllStill ==
  ASSUME Typed, Typed', ConnStep, CountInv, \A d \in Cursor : Still(d)
  PROVE  CountInv'
BY FreshStep, StillCounts DEF CountInv

LEMMA CountQuiet ==
  ASSUME \A g \in Gen : link'[g] = "up" => link[g] = "up",
         UNCHANGED <<closing, cached, queries, error, outstanding, threshold, conts, awaiting>>
  PROVE  \A d \in Cursor : Still(d)
BY Types DEF Still, Scheduled

LEMMA CountRun ==
  ASSUME Typed, Typed', BaseInv, InstInv, ConnStep, CountInv,
         NEW u \in Task, NEW op \in {"start", "plain"}, Run(u, op)
  PROVE  CountInv'
<1>0. PICK c \in Cursor : c = <<instance, next_token>>
  BY GenType DEF Run, Usable, Typed
<1>1. /\ Fresh(c) /\ ~Fresh(c)' /\ op # "none"
  <2>1. /\ next_token \in Nat /\ instance \in Nat /\ instance <= gen /\ gen \in Nat
        /\ next_token' = next_token + 1 /\ UNCHANGED <<instance, gen>>
    BY GenType DEF Run
  <2> QED BY <1>0, <2>1 DEF Fresh
<1>2. /\ queries'[c] = op /\ \A d \in Cursor \ {c} : queries'[d] = queries[d]
      /\ awaiting' = Deliver(c)
      /\ UNCHANGED <<closing, cached, error, outstanding, threshold, conts, link>>
  BY <1>0 DEF Run, cursorVars, srvVars, Typed
<1>3. /\ awaiting'[c] \in {awaiting[c], awaiting[c] + 1} /\ awaiting[c] \in Nat
      /\ \A d \in Cursor \ {c} : awaiting'[d] = awaiting[d]
  BY <1>2, DeliverType DEF Typed
<1>4. c \notin cached /\ error[c] = "Absent"
  BY <1>1 DEF BaseInv, TokenInv, OpenInv
<1>5. Scheduled(c) = 0 /\ awaiting[c] = 0 /\ outstanding[c] \in -1 .. 2
  <2>1. Owed(c) = 0 /\ Scheduled(c) \in {0, 1} /\ outstanding[c] \in -1 .. 2
    BY <1>1 DEF CountInv, CountOf, Scheduled
  <2> QED BY <1>3, <2>1 DEF Owed
<1>6. Scheduled(c)' = 0 /\ awaiting'[c] \in {0, 1}
  BY <1>2, <1>3, <1>5 DEF Scheduled
<1>7. CountOf(c)'
  BY <1>1, <1>2, <1>4, <1>5, <1>6 DEF CountOf, Owed
<1>8. \A d \in Cursor \ {c} : Still(d)
  BY <1>2, <1>3 DEF Still, Scheduled
<1> QED BY <1>7, <1>8, OneCursor

LEMMA CountCursorClose ==
  ASSUME Typed, Typed', BaseInv, InstInv, ConnStep, CountInv,
         NEW u \in Task, NEW c \in Cursor, CursorClose(u, c)
  PROVE  CountInv'
<1>1. /\ error[c] = "None" /\ error'[c] = "Stopped"
      /\ \A d \in Cursor \ {c} : error'[d] = error[d]
      /\ UNCHANGED <<closing, cached, queries, threshold, conts, link>>
  BY DEF CursorClose, instVars, srvVars, Typed
<1>2. c \in cached /\ outstanding[c] \in 0 .. 1 /\ awaiting[c] \in Nat
  BY <1>1 DEF BaseInv, OpenInv, CountInv, CountOf, Typed
<1>3. \/ UNCHANGED <<outstanding, awaiting>> /\ link[c[1]] = "eof"
      \/ /\ outstanding' = [outstanding EXCEPT ![c] = outstanding[c] + 1]
         /\ awaiting' = IF link[c[1]] = "up" THEN [awaiting EXCEPT ![c] = awaiting[c] + 1]
                        ELSE awaiting
  <2>1. CASE link[c[1]] = "eof"
    BY <2>1 DEF CursorClose
  <2>2. CASE link[c[1]] # "eof"
    <3>1. c[1] = instance /\ Usable(link) /\ ~closing[c[1]]
      BY <1>2, <2>2, OpenCursor
    <3>2. /\ outstanding' = [outstanding EXCEPT ![c] = outstanding[c] + 1]
          /\ awaiting' = Deliver(c)
      BY <1>2, <2>2, <3>1, OpenCursor DEF CursorClose
    <3> QED BY <1>2, <3>1, <3>2, OpenCursor
  <2> QED BY <2>1, <2>2
<1>4. \A d \in Cursor \ {c} : Still(d)
  <2>1. \A d \in Cursor \ {c} : outstanding'[d] = outstanding[d] /\ awaiting'[d] = awaiting[d]
    BY <1>3 DEF Typed
  <2> QED BY <1>1, <2>1 DEF Still, Scheduled
<1>5. ~Fresh(c)'
  BY <1>2, OpenCursor, FreshStep
<1>6. Scheduled(c)' = Scheduled(c) /\ Scheduled(c) \in {0, 1}
  BY <1>1 DEF Scheduled
<1>7. Owed(c) <= outstanding[c] /\ (link[c[1]] = "up" => Owed(c) = outstanding[c])
  BY <1>2 DEF CountInv, CountOf
<1>8. /\ outstanding'[c] \in 0 .. 2 /\ Owed(c)' <= outstanding'[c]
      /\ link[c[1]] = "up" => Owed(c)' = outstanding'[c]
  <2>1. CASE UNCHANGED <<outstanding, awaiting>> /\ link[c[1]] = "eof"
    BY <1>2, <1>6, <1>7, <2>1 DEF Owed
  <2>2. CASE /\ outstanding'[c] = outstanding[c] + 1
             /\ awaiting'[c] = IF link[c[1]] = "up" THEN awaiting[c] + 1 ELSE awaiting[c]
    BY <1>2, <1>6, <1>7, <2>2 DEF Owed
  <2> QED BY <1>3, <2>1, <2>2 DEF Typed
<1>9. Owed(c)' \in Nat
  <2>1. awaiting'[c] \in Nat
    BY DEF Typed
  <2> QED BY <1>6, <2>1 DEF Owed
<1>10. CountOf(c)'
  BY <1>1, <1>2, <1>5, <1>8, <1>9 DEF CountOf
<1> QED BY <1>4, <1>10, OneCursor

LEMMA CountNextWait ==
  ASSUME Typed, Typed', BaseInv, InstInv, ConnStep, CountInv, NEW u \in Task, NextWait(u)
  PROVE  CountInv'
<1>0. PICK c \in Cursor : c = task[u].c
  BY DEF Typed, TaskType
<1>1. /\ error[c] = "None" /\ items[c] = 0
      /\ UNCHANGED <<closing, cached, queries, error, threshold, awaiting, link>>
  BY <1>0 DEF NextWait, instVars, srvVars
<1>2. /\ c \in cached /\ outstanding[c] \in 0 .. 1 /\ awaiting[c] \in Nat
      /\ outstanding[c] = 1 \/ threshold[c] > 0 
      /\ Owed(c) <= outstanding[c] /\ (link[c[1]] = "up" => Owed(c) = outstanding[c])
      /\ Scheduled(c) \in {0, 1}
  BY <1>1 DEF BaseInv, OpenInv, CountInv, CountOf, Typed, Scheduled
<1>3. CASE ~WantsBatch(c, outstanding[c])
  <2>1. outstanding' = outstanding /\ conts' = conts
    BY <1>0, <1>3 DEF NextWait, Typed
  <2>2. \A d \in Cursor : Still(d)
    BY <1>1, <2>1 DEF Still, Scheduled
  <2> QED BY <2>2, AllStill
<1>4. CASE WantsBatch(c, outstanding[c])
  <2>1. /\ outstanding[c] = 0 /\ outstanding'[c] = 1
        /\ \A d \in Cursor \ {c} : outstanding'[d] = outstanding[d]
    BY <1>0, <1>4 DEF NextWait, WantsBatch, Typed
  <2>2. awaiting[c] = 0 /\ Scheduled(c) = 0
    BY <1>2, <2>1 DEF Owed
  <2>3. \/ conts' = conts \cup {Request(c)}
        \/ conts' = conts /\ link[c[1]] # "up"
    <3>1. c[1] = instance
      BY <1>2, OpenCursor
    <3>2. Request(c) = <<instance, c>>
      BY <3>1 DEF Request
    <3>3. IF Usable(link) THEN conts' = conts \cup {<<instance, c>>} ELSE conts' = conts
      BY <1>0, <1>4 DEF NextWait
    <3>4. link[c[1]] = "up" => Usable(link)
      BY <1>2, <3>1, OpenCursor
    <3> QED BY <3>2, <3>3, <3>4
  <2>4. \A d \in Cursor \ {c} : Scheduled(d)' = Scheduled(d)
    BY <2>3 DEF Scheduled, Request
  <2>5. \A d \in Cursor \ {c} : Still(d)
    BY <1>1, <2>1, <2>4 DEF Still
  <2>6. ~Fresh(c)'
    BY <1>2, OpenCursor, FreshStep
  <2>7. /\ awaiting'[c] = 0 /\ Scheduled(c)' \in {0, 1}
        /\ link[c[1]] = "up" => Scheduled(c)' = 1
    BY <1>1, <2>2, <2>3 DEF Scheduled
  <2>8. CountOf(c)'
    BY <1>1, <1>2, <2>1, <2>6, <2>7 DEF CountOf, Owed
  <2> QED BY <2>5, <2>8, OneCursor
<1> QED BY <1>3, <1>4

LEMMA CountContinue ==
  ASSUME Typed, Typed', BaseInv, InstInv, ConnStep, CountInv, NEW k \in conts, ContinueRuns(k)
  PROVE  CountInv'
<1>0. PICK c \in Cursor : k = Request(c) /\ c = <<k[1], k[2][2]>>
  <2>1. k[2] \in Cursor /\ k = <<k[1], k[2]>> /\ k[1] = k[2][1] /\ k[2] = <<k[2][1], k[2][2]>>
    BY Types DEF Typed, InstInv
  <2> QED BY <2>1 DEF Request
<1>1. /\ conts' = conts \ {Request(c)} /\ Request(c) \in conts /\ awaiting' = Deliver(c)
      /\ UNCHANGED <<closing, cached, queries, error, outstanding, threshold, link>>
  BY <1>0 DEF ContinueRuns, instVars, cursorVars, srvVars
<1>2. /\ awaiting'[c] \in {awaiting[c], awaiting[c] + 1} /\ awaiting[c] \in Nat
      /\ \A d \in Cursor \ {c} : awaiting'[d] = awaiting[d]
  BY <1>1, DeliverType DEF Typed
<1>3. \A d \in Cursor \ {c} : Still(d)
  <2>1. \A d \in Cursor \ {c} : Scheduled(d)' = Scheduled(d)
    BY <1>1 DEF Scheduled, Request
  <2> QED BY <1>1, <1>2, <2>1 DEF Still
<1>4. Scheduled(c) = 1 /\ Scheduled(c)' = 0
  BY <1>1 DEF Scheduled
<1>5. Owed(c)' <= Owed(c) /\ Owed(c) > 0
  BY <1>2, <1>4 DEF Owed
<1>6. ~Fresh(c)'
  BY <1>5, FreshStep DEF CountInv, CountOf
<1>7. ASSUME c \in cached PROVE link[c[1]] = "up" => Owed(c)' = Owed(c)
  <2> SUFFICES ASSUME link[c[1]] = "up" PROVE Owed(c)' = Owed(c)
    OBVIOUS
  <2>1. c[1] = instance
    BY <1>7, OpenCursor
  <2>2. awaiting'[c] = awaiting[c] + 1
    BY <1>1, <1>7, <2>1, OpenCursor DEF Typed
  <2> QED BY <1>2, <1>4, <2>2 DEF Owed
<1>8. Owed(c) \in Nat /\ Owed(c)' \in Nat /\ outstanding[c] \in -1 .. 2
  BY <1>2, <1>4 DEF Owed, CountInv, CountOf
<1>9. c \notin cached => closing[c[1]]
  BY <1>4 DEF CountInv, CountOf
<1>10. CountOf(c)'
  BY <1>1, <1>5, <1>6, <1>7, <1>8, <1>9 DEF CountInv, CountOf
<1> QED BY <1>3, <1>10, OneCursor

LEMMA CountClose ==
  ASSUME Typed, Typed', BaseInv, ConnStep, CountInv,
         NEW u \in Task, NEW op \in {"close", "reconnect"}, NEW noreply_wait \in BOOLEAN,
         Close(u, op, noreply_wait)
  PROVE  CountInv'
<1>0. /\ instance \in Gen /\ Detach(instance, cached, error, outstanding)
      /\ UNCHANGED <<conts, threshold, link, gen>> /\ instance' = 0 /\ next_token \in Nat
      /\ instance # 0
  BY GenType DEF Close, srvVars
<1>1. PICK c \in Cursor : c = <<instance, next_token>>
  BY <1>0, GenType DEF Typed
<1>2. \A d \in Cursor : d[1] # instance => queries'[d] = queries[d]
  BY DEF Close, Forget, ForgetAllBut
<1>3. CASE awaiting' = awaiting
  <2>1. \A d \in Cursor : awaiting'[d] <= awaiting[d] /\ awaiting'[d] = awaiting[d]
    BY <1>3 DEF Typed
  <2>2. \A d \in Cursor : Still(d)
    BY <1>0, <1>2, <2>1, DetachStill
  <2> QED BY <2>2, AllStill
<1>4. CASE awaiting' = Deliver(c)
  <2>1. Fresh(c) /\ ~Fresh(c)'
    BY <1>0, <1>1, GenType DEF Fresh, Gen
  <2>2. /\ awaiting'[c] \in {awaiting[c], awaiting[c] + 1} /\ awaiting[c] \in Nat
        /\ \A d \in Cursor \ {c} : awaiting'[d] = awaiting[d] /\ awaiting[d] \in Nat
    BY <1>4, DeliverType DEF Typed
  <2>3. awaiting[c] = 0 /\ Scheduled(c) = 0 /\ outstanding[c] \in -1 .. 2
    <3>1. Owed(c) = 0 /\ Scheduled(c) \in {0, 1} /\ outstanding[c] \in -1 .. 2
      BY <2>1 DEF CountInv, CountOf, Scheduled
    <3> QED BY <2>2, <3>1 DEF Owed
  <2>4. /\ closing'[instance] /\ c[1] = instance /\ c \notin cached'
        /\ error'[c] # "None" /\ outstanding'[c] = outstanding[c]
    <3>1. error[c] = "Absent"
      BY <2>1 DEF BaseInv, TokenInv
    <3> QED BY <1>0, <1>1, <3>1 DEF Detach, Typed
  <2>5. Scheduled(c)' = 0
    BY <1>0, <2>3 DEF Scheduled
  <2>6. CountOf(c)'
    BY <2>1, <2>2, <2>3, <2>4, <2>5 DEF CountOf, Owed
  <2>7. ASSUME NEW d \in Cursor \ {c} PROVE CountOf(d)'
    <3>1. /\ d[1] \in Gen /\ Scheduled(d)' = Scheduled(d) /\ outstanding[d] \in Int
          /\ awaiting'[d] = awaiting[d] /\ link' = link
      BY <1>0, <2>2, Types DEF Scheduled, Typed
    <3>2. /\ closing'[d[1]] <=> closing[d[1]] \/ d[1] = instance
          /\ d \in cached' <=> d \in cached /\ d[1] # instance
          /\ IF d \in cached /\ d[1] = instance /\ error[d] = "None"
             THEN error'[d] = "Runtime" /\ outstanding'[d] = outstanding[d] - 1
             ELSE error'[d] = error[d] /\ outstanding'[d] = outstanding[d]
      BY <1>0, <3>1 DEF Detach, Typed
    <3>3. error[d] = "None" => d \in cached
      BY DEF BaseInv, OpenInv
    <3>4. CASE d[1] = instance
      <4>1. Still(d)
        BY <2>2, <3>1, <3>2, <3>3, <3>4 DEF Still
      <4> QED BY <4>1, FreshStep, StillCounts DEF CountInv
    <3>5. CASE d[1] # instance
      <4>1. Still(d)
        BY <1>0, <1>2, <3>1, <3>2, <3>5 DEF Still
      <4> QED BY <4>1, FreshStep, StillCounts DEF CountInv
    <3> QED BY <3>4, <3>5
  <2> QED BY <2>6, <2>7 DEF CountInv
<1> QED BY <1>1, <1>3, <1>4 DEF Close

(* The link of a connection does not come up again.                        *)
LEMMA ReadsLink ==
  ASSUME Typed, NEW c \in Cursor, Reads(c)
  PROVE  /\ \A h \in Gen : link'[h] = "up" => link[h] = "up"
         /\ reader[c[1]] = "run" /\ awaiting[c] \in Nat /\ awaiting[c] > 0
         /\ Left(c)[c] = awaiting[c] - 1
         /\ \A d \in Cursor \ {c} : Left(c)[d] = awaiting[d] /\ awaiting[d] \in Nat
<1>1. link' = link \/ link' = [link EXCEPT ![c[1]] = "eof"]
  BY DEF Reads
<1>2. \A h \in Gen : link'[h] = "up" => link[h] = "up"
  BY <1>1 DEF Typed
<1> QED BY <1>2, ReadsType DEF Reads, Typed

LEMMA CountRead ==
  ASSUME Typed, Typed', BaseInv, ConnStep, CountInv, NEW c \in Cursor, Reads(c), awaiting' = Left(c),
         Raises(c[1], cached, error, outstanding), UNCHANGED <<conts, threshold>>
  PROVE  CountInv'
<1>1. /\ c[1] \in Gen /\ \A d \in Cursor : awaiting'[d] <= awaiting[d]
      /\ \A d \in Cursor : d[1] # c[1] => awaiting'[d] = awaiting[d]
  <2>1. c[1] \in Gen /\ \A d \in Cursor : awaiting[d] \in Nat
    BY Types DEF Typed
  <2>2. awaiting'[c] = awaiting[c] - 1 /\ \A d \in Cursor \ {c} : awaiting'[d] = awaiting[d]
    BY ReadsLink
  <2>3. ASSUME NEW d \in Cursor PROVE awaiting'[d] <= awaiting[d]
    BY <2>1, <2>2
  <2> QED BY <2>1, <2>2, <2>3
<1>2. \A d \in Cursor : Still(d)
  BY <1>1, ReadsLink, RaisesStill
<1> QED BY <1>2, AllStill

LEMMA CountBatch ==
  ASSUME Typed, Typed', BaseInv, InstInv, ConnStep, CountInv,
         NEW c \in Cursor, NEW r \in Response, ReadBatch(c, r)
  PROVE  CountInv'
<1>1. /\ c \in cached /\ MayAnswer(c, r) /\ Reads(c) /\ Answered(c, r) /\ awaiting' = Left(c)
      /\ BatchFails(c) \/ BatchArrives(c, r)
  BY BatchCases
<1>2. CASE BatchFails(c)
  <2>1. Counted(c) = outstanding
    BY <1>2, CountedType DEF BatchFails, WantsBatch, Typed
  <2> QED BY <1>1, <1>2, <2>1, CountRead DEF BatchFails
<1>3. CASE BatchArrives(c, r)
  <2> DEFINE wants == WantsBatch(c, outstanding[c] - 1)
  <2>1. /\ outstanding'[c] = IF wants THEN 1 ELSE outstanding[c] - 1
        /\ \A d \in Cursor \ {c} : outstanding'[d] = outstanding[d]
        /\ IF wants THEN conts' = conts \cup {Request(c)} ELSE conts' = conts
        /\ wants => outstanding[c] = 1
    BY <1>1, <1>3, CountedType, OpenCursor DEF BatchArrives, Request, WantsBatch, Typed
  <2>2. /\ awaiting[c] \in Nat /\ awaiting[c] > 0 /\ awaiting'[c] = awaiting[c] - 1
        /\ \A d \in Cursor \ {c} : awaiting'[d] = awaiting[d]
        /\ Scheduled(c) \in {0, 1} /\ outstanding[c] \in -1 .. 2
        /\ Owed(c) <= outstanding[c] /\ (link[c[1]] = "up" => Owed(c) = outstanding[c])
    BY <1>1, ReadsLink DEF CountInv, CountOf, Scheduled
  <2>3. /\ UNCHANGED <<closing, queries>> /\ c[1] \in Gen
        /\ \A d \in Cursor \ {c} : /\ error'[d] = error[d] /\ threshold'[d] = threshold[d]
                                   /\ d \in cached' <=> d \in cached
        /\ c \notin cached' => outstanding'[c] = 0
    <3>1. /\ cached' = cached \/ (outstanding'[c] = 0 /\ cached' = cached \ {c})
          /\ UNCHANGED <<closing, queries>>
      BY <1>3 DEF BatchArrives
    <3>2. \A d \in Cursor \ {c} : error'[d] = error[d] /\ threshold'[d] = threshold[d]
      BY <1>3 DEF BatchArrives, Typed
    <3> QED BY <1>1, <3>1, <3>2, Types
  <2>4. \A d \in Cursor \ {c} : Scheduled(d)' = Scheduled(d)
    BY <2>1 DEF Scheduled, Request
  <2>5. \A d \in Cursor \ {c} : Still(d)
    BY <1>1, <2>1, <2>2, <2>3, <2>4, ReadsLink, Types DEF Still
  <2>6. /\ outstanding'[c] \in 0 .. 1 /\ Owed(c)' <= outstanding'[c]
        /\ link[c[1]] = "up" => Owed(c)' = outstanding'[c]
    <3>1. CASE wants
      <4>1. awaiting[c] = 1 /\ Scheduled(c) = 0
        BY <2>1, <2>2, <3>1 DEF Owed
      <4>2. Scheduled(c)' = 1
        BY <2>1, <3>1 DEF Scheduled
      <4> QED BY <2>1, <2>2, <3>1, <4>1, <4>2 DEF Owed
    <3>2. CASE ~wants
      <4>1. Scheduled(c)' = Scheduled(c) /\ outstanding'[c] = outstanding[c] - 1
        BY <2>1, <3>2 DEF Scheduled
      <4> QED BY <2>1, <2>2, <3>2, <4>1 DEF Owed
    <3> QED BY <3>1, <3>2
  <2>7. Owed(c)' \in Nat /\ awaiting'[c] \in Nat /\ Scheduled(c)' \in {0, 1}
    BY <2>2 DEF Owed, Scheduled
  <2>8. error'[c] = "None" => outstanding'[c] = 1 \/ threshold'[c] > 0
    <3> SUFFICES ASSUME error'[c] = "None", outstanding'[c] = 0 PROVE threshold'[c] > 0
      BY <2>6
    <3>1. error[c] = "None" /\ EndOf(r) = "None"
      BY <1>3 DEF BatchArrives, Typed
    <3>2. r.type = "SUCCESS_PARTIAL" /\ r.rows > 0
      BY <1>1, <3>1, AnsweredType DEF MayAnswer
    <3>3. threshold'[c] = DataLen(r)
      BY <1>3 DEF BatchArrives, Typed
    <3> QED BY <3>2, <3>3 DEF DataLen
  <2>9. ~Fresh(c)' /\ (link'[c[1]] = "up" => link[c[1]] = "up")
    BY <1>1, <2>3, OpenCursor, FreshStep, ReadsLink
  <2>10. CountOf(c)'
    <3>1. c \notin cached' => awaiting'[c] = 0 /\ Scheduled(c)' = 0
      BY <2>3, <2>6, <2>7 DEF Owed
    <3> QED BY <2>6, <2>7, <2>8, <2>9, <3>1 DEF CountOf
  <2> QED BY <2>5, <2>10, OneCursor
<1> QED BY <1>1, <1>2, <1>3

LEMMA CountStream ==
  ASSUME Typed, Typed', BaseInv, InstInv, ConnStep, CountInv,
         NEW c \in Cursor, NEW r \in Response, ReadStream(c, r)
  PROVE  CountInv'
<1> DEFINE g == c[1]
           cache == cached \cup {c}
           begun == [error EXCEPT ![c] = "None"]
           first == [error EXCEPT ![c] = EndOf(r)]
           out   == [outstanding EXCEPT ![c] = 1]
<1>1. /\ c \notin cached /\ queries[c] = "start" /\ r.type # "ERROR" /\ MayAnswer(c, r) /\ Reads(c)
      /\ awaiting' = Left(c) /\ UNCHANGED <<instance, gen>>
      /\ BeginFails(c) \/ BeginCancelled(c, r) \/ BeginArrives(c, r)
  BY StreamCases DEF connVars
<1>2. /\ \A h \in Gen : link'[h] = "up" => link[h] = "up"
      /\ reader[g] = "run" /\ awaiting[c] \in Nat /\ awaiting[c] > 0
      /\ awaiting'[c] = awaiting[c] - 1
      /\ \A d \in Cursor \ {c} : awaiting'[d] = awaiting[d] /\ awaiting[d] \in Nat
      /\ g \in Gen
  BY <1>1, ReadsLink, Types
<1>3. ~closing[g] /\ error[c] = "Absent" /\ ~Fresh(c)
  BY <1>1, <1>2 DEF BaseInv, QueryInv, TokenInv
<1>4. awaiting'[c] = 0 /\ Scheduled(c) = 0 /\ outstanding[c] \in -1 .. 2
  <2>1. Owed(c) <= 1 /\ Scheduled(c) = 0 /\ outstanding[c] \in -1 .. 2
    BY <1>1, <1>3 DEF CountInv, CountOf
  <2> QED BY <1>2, <2>1 DEF Owed
<1>5. g = instance
  <2>1. g <= gen
    BY <1>2, <1>3, Types, GenType DEF Fresh
  <2> QED BY <1>2, <1>3, <2>1 DEF InstInv
<1>6. ~Fresh(c)'
  BY <1>3, FreshStep
<1>7. /\ begun \in [Cursor -> CursorError] /\ first \in [Cursor -> CursorError]
      /\ begun[c] = "None" /\ first[c] = EndOf(r) /\ first[c] \in {"None", "Empty"}
      /\ \A d \in Cursor \ {c} : begun[d] = error[d] /\ first[d] = error[d]
      /\ out[c] = 1 /\ \A d \in Cursor \ {c} : out[d] = outstanding[d] /\ outstanding[d] \in Int
  BY <1>1 DEF Typed, CursorError, EndOf, Response
<1>8. CASE BeginFails(c) \/ BeginCancelled(c, r)
  <2>1. PICK err : /\ Detach(g, cache, err, out) /\ err[c] \in {"None", "Empty"}
                   /\ \A d \in Cursor \ {c} : err[d] = error[d]
    <3>1. Detach(g, cache, begun, out) \/ Detach(g, cache, first, out)
      BY <1>3, <1>8 DEF BeginFails, BeginCancelled, Raises
    <3> HIDE DEF begun, first
    <3> QED BY <1>7, <3>1
  <2>2. UNCHANGED queries \/ Forget(g)
    BY <1>3, <1>8 DEF BeginFails, BeginCancelled, Raises
  <2>3. conts' = conts \/ conts' = conts \cup {Request(c)}
    BY <1>5, <1>8 DEF BeginFails, BeginCancelled, Begins, Request
  <2>4. \A d \in Cursor \ {c} : threshold'[d] = threshold[d]
    BY <1>8 DEF BeginFails, BeginCancelled, Begins, Typed
  <2>5. \A d \in Cursor \ {c} : Scheduled(d)' = Scheduled(d)
    BY <2>3 DEF Scheduled, Request
  <2>6. Scheduled(c)' \in {0, 1}
    BY DEF Scheduled
  <2>7. /\ closing'[g] /\ \A h \in Gen : h # g => closing'[h] = closing[h]
        /\ c \notin cached' /\ error'[c] # "None" /\ outstanding'[c] \in {0, 1}
    BY <1>2, <1>7, <2>1 DEF Detach, Typed
  <2>8. CountOf(c)'
    BY <1>4, <1>6, <2>6, <2>7 DEF CountOf, Owed
  <2>9. ASSUME NEW d \in Cursor \ {c} PROVE Still(d)
    <3>1. /\ d \in cached' <=> d \in cached /\ d[1] # g
          /\ IF d \in cached /\ d[1] = g /\ error[d] = "None"
             THEN error'[d] = "Runtime" /\ outstanding'[d] = outstanding[d] - 1
             ELSE error'[d] = error[d] /\ outstanding'[d] = outstanding[d]
      BY <1>7, <2>1 DEF Detach
    <3>2. error[d] = "None" => d \in cached
      BY DEF BaseInv, OpenInv
    <3>3. d[1] \in Gen
      BY Types
    <3>4. CASE d[1] = g
      BY <1>2, <2>5, <2>7, <3>1, <3>2, <3>3, <3>4 DEF Still
    <3>5. CASE d[1] # g
      <4>1. queries'[d] = queries[d]
        BY <2>2, <3>5 DEF Forget
      <4> QED BY <1>2, <2>4, <2>5, <2>7, <3>1, <3>3, <3>5, <4>1 DEF Still
    <3> QED BY <3>4, <3>5
  <2> QED BY <2>8, <2>9, OneCursor
<1>9. CASE BeginArrives(c, r)
  <2>1. /\ conts' = conts \cup {Request(c)} /\ outstanding' = out /\ cached' = cache
        /\ error' = first /\ closing' = closing
        /\ \A d \in Cursor \ {c} : threshold'[d] = threshold[d] /\ queries'[d] = queries[d]
    BY <1>5, <1>9 DEF BeginArrives, Begins, Request, Typed
  <2>2. \A d \in Cursor \ {c} : Scheduled(d)' = Scheduled(d)
    BY <2>1 DEF Scheduled, Request
  <2>3. Scheduled(c)' = 1
    BY <2>1 DEF Scheduled
  <2>4. CountOf(c)'
    BY <1>4, <1>6, <1>7, <2>1, <2>3 DEF CountOf, Owed
  <2>5. \A d \in Cursor \ {c} : Still(d)
    <3> HIDE DEF first, out
    <3> QED BY <1>2, <1>7, <2>1, <2>2, Types DEF Still
  <2> QED BY <2>4, <2>5, OneCursor
<1> QED BY <1>1, <1>8, <1>9

LEMMA CountValue ==
  ASSUME Typed, Typed', BaseInv, ConnStep, CountInv,
         NEW c \in Cursor, ReadValue(c) \/ SkipWhileClosing(c)
  PROVE  CountInv'
<1>1. /\ Reads(c) /\ awaiting' = Left(c) /\ c \notin cached /\ UNCHANGED <<conts, threshold>>
  BY ValueCases DEF SkipWhileClosing, cursorVars
<1>2. CASE Raises(c[1], cached, error, outstanding)
  BY <1>1, <1>2, CountRead
<1>3. CASE /\ \A d \in Cursor \ {c} : queries'[d] = queries[d]
           /\ UNCHANGED <<closing, error, outstanding, cached>>
  <2>1. /\ \A h \in Gen : link'[h] = "up" => link[h] = "up"
        /\ awaiting[c] \in Nat /\ awaiting[c] > 0 /\ awaiting'[c] = awaiting[c] - 1
        /\ \A d \in Cursor \ {c} : awaiting'[d] = awaiting[d]
    BY <1>1, ReadsLink
  <2>2. \A d \in Cursor : Scheduled(d)' = Scheduled(d) /\ Scheduled(d) \in {0, 1}
    BY <1>1 DEF Scheduled
  <2>3. \A d \in Cursor \ {c} : Still(d)
    BY <1>1, <1>3, <2>1, <2>2, Types DEF Still
  <2>4. /\ Owed(c)' = Owed(c) - 1 /\ Owed(c) \in Nat /\ Owed(c) > 0 /\ Owed(c)' \in Nat
        /\ awaiting'[c] <= Owed(c)'
    BY <2>1, <2>2 DEF Owed
  <2>5. ~Fresh(c)' /\ error[c] # "None"
    BY <1>1, <2>4, FreshStep DEF CountInv, CountOf, BaseInv, OpenInv
  <2>6. CountOf(c)'
    BY <1>1, <1>3, <2>1, <2>2, <2>4, <2>5 DEF CountInv, CountOf
  <2> QED BY <2>3, <2>6, OneCursor
<1> QED BY <1>2, <1>3, ValueCases DEF SkipWhileClosing, ValueArrives, Typed, cursorVars

LEMMA CountStep ==
  ASSUME Typed, BaseInv, InstInv, CountInv, [Next]_vars
  PROVE  CountInv'
<1> USE DEF connVars, instVars, cursorVars, srvVars
<1>0. Typed' /\ ConnStep
  BY TypeStep, ConnCases
<1>1. ASSUME \A g \in Gen : link'[g] = "up" => link[g] = "up",
             UNCHANGED <<closing, cached, queries, error, outstanding, threshold, conts, awaiting>>
      PROVE  CountInv'
  BY <1>0, <1>1, CountQuiet, AllStill
<1>2. ASSUME NEW u \in Task, Call(u) PROVE CountInv'
  <2>1. CASE \E op \in {"start", "plain"} : Run(u, op)
    BY <1>0, <2>1, CountRun
  <2>2. CASE \E c \in Cursor : CursorClose(u, c)
    BY <1>0, <2>2, CountCursorClose
  <2>3. CASE \E op \in {"close", "reconnect"}, noreply_wait \in BOOLEAN : Close(u, op, noreply_wait)
    BY <1>0, <2>3, CountClose
  <2>4. CASE \/ Refused(u) \/ ReconnectDetached(u) \/ Cancel(u) \/ NextTimeout(u)
             \/ \E c \in Cursor : NextCall(u, c)
    BY <1>1, <2>4 DEF Refused, ReconnectDetached, Cancel, NextTimeout, NextCall, vars
  <2> QED BY <1>2, <2>1, <2>2, <2>3, <2>4 DEF Call
<1>3. ASSUME NEW u \in Task, Resume(u) PROVE CountInv'
  <2>1. CASE NextWait(u)
    BY <1>0, <2>1, CountNextWait
  <2>2. CASE HandshakeFails(u)
    <3>1. /\ Instance(u) \in Gen /\ Detach(Instance(u), cached, error, outstanding)
          /\ \A d \in Cursor : d[1] # Instance(u) => queries'[d] = queries[d]
          /\ UNCHANGED <<conts, threshold, link, awaiting>>
      BY <2>2, Types DEF HandshakeFails, Instance, Forget, Typed, TaskType
    <3>2. \A d \in Cursor : awaiting[d] <= awaiting[d]
      BY DEF Typed
    <3>3. \A d \in Cursor : Still(d)
      BY <3>1, <3>2, DetachStill
    <3> QED BY <1>0, <3>3, AllStill
  <2>3. CASE \/ NextItem(u) \/ NextError(u) \/ CloseStream(u) \/ Shut(u) \/ HandshakeDone(u)
             \/ \E ok \in BOOLEAN : OpenConnection(u, ok)
    BY <1>1, <2>3 DEF NextItem, NextError, CloseStream, Shut, HandshakeDone, OpenConnection
  <2> QED BY <1>3, <2>1, <2>2, <2>3 DEF Resume
<1>4. ASSUME NEW g \in Gen, UnexpectedResponse(g) \/ ReadEnd(g) PROVE CountInv'
  <2>1. /\ Raises(g, cached, error, outstanding) /\ UNCHANGED <<conts, threshold, link>>
        /\ \A d \in Cursor : awaiting'[d] = awaiting[d] \/ (d[1] = g /\ awaiting'[d] = 0)
    BY <1>4 DEF UnexpectedResponse, ReadEnd
  <2>2. \A d \in Cursor : awaiting[d] \in Nat
    BY DEF Typed
  <2>3. \A d \in Cursor : awaiting'[d] <= awaiting[d]
    BY <2>1, <2>2
  <2>4. \A d \in Cursor : Still(d)
    BY <2>1, <2>3, RaisesStill
  <2> QED BY <1>0, <2>4, AllStill
<1>5. CASE \E g \in Gen : Drop(g) \/ Eof(g)
  <2>1. \A h \in Gen : link'[h] = "up" => link[h] = "up"
    BY <1>5 DEF Drop, Eof, Typed
  <2> QED BY <1>1, <1>5, <2>1 DEF Drop, Eof
<1>6. CASE UNCHANGED vars
  BY <1>1, <1>6 DEF vars
<1> QED BY <1>0, <1>2, <1>3, <1>4, <1>5, <1>6, CountContinue, CountBatch, CountStream, CountValue
        DEF Next, ReadResponse

-----------------------------------------------------------------------------
(* Who waits for a cursor waits for rows that have been asked for.         *)
WaitInv ==
  \A u \in Task : task[u].pc = "wait" =>
    items[task[u].c] = 0 /\ (error[task[u].c] = "None" => outstanding[task[u].c] > 0)

LEMMA DetachKeeps ==
  ASSUME NEW g, NEW cache, NEW err, NEW out, NEW d \in Cursor, Detach(g, cache, err, out),
         error'[d] = "None"
  PROVE  err[d] = "None" /\ outstanding'[d] = out[d]
BY DEF Detach

LEMMA RaisesKeeps ==
  ASSUME NEW g, NEW cache, NEW err, NEW out, NEW d \in Cursor, Raises(g, cache, err, out),
         error'[d] = "None"
  PROVE  err[d] = "None" /\ outstanding'[d] = out[d]
BY DetachKeeps DEF Raises

LEMMA WaitKept ==
  ASSUME Typed, BaseInv, CountInv, [Next]_vars, NEW d \in held, items[d] = 0
  PROVE  \/ Wake(d)
         \/ /\ items'[d] = 0
            /\ error'[d] = "None" => error[d] = "None" /\ outstanding'[d] >= outstanding[d]
<1> DEFINE Kept == /\ items'[d] = 0
                   /\ error'[d] = "None" => error[d] = "None" /\ outstanding'[d] >= outstanding[d]
<1> USE DEF connVars, instVars, cursorVars, srvVars
<1>0. d \in Cursor /\ outstanding[d] \in Int /\ items \in [Cursor -> Nat]
  BY DEF Typed
<1>1. ASSUME items'[d] = items[d], error'[d] = error[d], outstanding'[d] = outstanding[d] PROVE Kept
  BY <1>0, <1>1
<1>2. ASSUME items'[d] = items[d],
             error'[d] = "None" => error[d] = "None" /\ outstanding'[d] = outstanding[d]
      PROVE  Kept
  BY <1>0, <1>2
<1>3. ASSUME NEW u \in Task, Call(u) PROVE Kept
  <2>1. CASE \E op \in {"close", "reconnect"}, noreply_wait \in BOOLEAN : Close(u, op, noreply_wait)
    <3>1. items' = items /\ Detach(instance, cached, error, outstanding)
      BY <2>1 DEF Close
    <3> QED BY <1>0, <1>2, <3>1, DetachKeeps
  <2>2. CASE \E c \in Cursor : CursorClose(u, c)
    <3>1. PICK c \in Cursor : CursorClose(u, c)
      BY <2>2
    <3>2. /\ items' = items /\ error' = [error EXCEPT ![c] = "Stopped"]
          /\ outstanding' = outstanding \/ outstanding' = [outstanding EXCEPT ![c] = @ + 1]
      BY <3>1 DEF CursorClose
    <3>3. error'[d] = "None" => error[d] = "None" /\ outstanding'[d] = outstanding[d]
      BY <1>0, <3>2 DEF Typed
    <3> QED BY <1>2, <3>2, <3>3
  <2>3. CASE \/ Refused(u) \/ Cancel(u) \/ NextTimeout(u) \/ ReconnectDetached(u)
             \/ \E op \in {"start", "plain"} : Run(u, op)
             \/ \E c \in Cursor : NextCall(u, c)
    BY <1>1, <2>3 DEF Refused, Run, NextCall, Cancel, NextTimeout, ReconnectDetached, vars
  <2> QED BY <1>3, <2>1, <2>2, <2>3 DEF Call
<1>4. ASSUME NEW u \in Task, Resume(u) PROVE Kept
  <2>1. CASE NextItem(u)
    <3>1. items[task[u].c] > 0 /\ UNCHANGED <<error, outstanding>>
      BY <2>1 DEF NextItem
    <3>2. items' = items \/ items' = [items EXCEPT ![task[u].c] = @ - 1]
      BY <2>1 DEF NextItem
    <3>3. task[u].c # d
      BY <3>1
    <3>4. items'[d] = items[d]
      BY <1>0, <3>2, <3>3
    <3> QED BY <1>1, <3>1, <3>4
  <2>2. CASE NextWait(u)
    <3>1. /\ UNCHANGED <<items, error>>
          /\ outstanding' = [outstanding EXCEPT ![task[u].c] =
               IF WantsBatch(task[u].c, outstanding[task[u].c]) THEN 1 ELSE @]
      BY <2>2 DEF NextWait
    <3>2. outstanding'[d] >= outstanding[d]
      BY <1>0, <3>1 DEF Typed, WantsBatch
    <3> QED BY <3>1, <3>2
  <2>3. CASE HandshakeFails(u)
    <3>1. items' = items /\ Detach(task[u].c[1], cached, error, outstanding)
      BY <2>3 DEF HandshakeFails
    <3> QED BY <1>0, <1>2, <3>1, DetachKeeps
  <2>4. CASE \/ NextError(u) \/ CloseStream(u) \/ Shut(u) \/ HandshakeDone(u)
             \/ \E ok \in BOOLEAN : OpenConnection(u, ok)
    BY <1>1, <2>4 DEF NextError, CloseStream, Shut, HandshakeDone, OpenConnection
  <2> QED BY <1>4, <2>1, <2>2, <2>3, <2>4 DEF Resume
<1>5. ASSUME NEW c \in Cursor, NEW r \in Response, ReadBatch(c, r) PROVE Wake(d) \/ Kept
  <2>1. CASE BatchFails(c)
    <3>1. Counted(c) = outstanding
      BY <2>1, CountedType DEF BatchFails, WantsBatch, Typed
    <3>2. items' = items /\ Raises(c[1], cached, error, outstanding)
      BY <2>1, <3>1 DEF BatchFails
    <3> QED BY <1>0, <1>2, <3>2, RaisesKeeps
  <2>2. CASE BatchArrives(c, r) /\ c = d
    BY <2>2 DEF BatchArrives
  <2>3. CASE BatchArrives(c, r) /\ c # d
    <3>1. items'[d] = items[d] /\ error'[d] = error[d] /\ outstanding'[d] = outstanding[d]
      BY <1>0, <2>3, CountedType DEF BatchArrives, Typed
    <3> QED BY <1>1, <3>1
  <2> QED BY <1>5, <2>1, <2>2, <2>3, BatchCases
<1>6. ASSUME NEW c \in Cursor, NEW r \in Response, ReadStream(c, r) PROVE Kept
  <2> DEFINE begun == [error EXCEPT ![c] = "None"]
             first == [error EXCEPT ![c] = EndOf(r)]
             out   == [outstanding EXCEPT ![c] = 1]
  <2>1. c # d
    BY <1>6, StreamCases DEF BaseInv, OpenInv
  <2>2. /\ begun[d] = error[d] /\ first[d] = error[d] /\ out[d] = outstanding[d]
    BY <1>0, <2>1 DEF Typed
  <2>3. items'[d] = items[d]
    <3>1. items' = items \/ items' = [items EXCEPT ![c] = r.rows]
      BY <1>6, StreamCases DEF BeginFails, BeginCancelled, BeginArrives, Begins
    <3> QED BY <1>0, <2>1, <3>1
  <2>4. \/ Detach(c[1], cached \cup {c}, begun, out)
        \/ Raises(c[1], cached \cup {c}, first, out)
        \/ error' = first /\ outstanding' = out
    BY <1>6, StreamCases DEF BeginFails, BeginCancelled, BeginArrives
  <2> HIDE DEF begun, first, out
  <2>5. error'[d] = "None" => error[d] = "None" /\ outstanding'[d] = outstanding[d]
    <3> SUFFICES ASSUME error'[d] = "None"
                 PROVE  error[d] = "None" /\ outstanding'[d] = outstanding[d]
      OBVIOUS
    <3>1. CASE Detach(c[1], cached \cup {c}, begun, out)
      <4>1. begun[d] = "None" /\ outstanding'[d] = out[d]
        BY <1>0, <3>1, DetachKeeps
      <4> QED BY <2>2, <4>1
    <3>2. CASE Raises(c[1], cached \cup {c}, first, out)
      <4>1. first[d] = "None" /\ outstanding'[d] = out[d]
        BY <1>0, <3>2, RaisesKeeps
      <4> QED BY <2>2, <4>1
    <3>3. CASE error' = first /\ outstanding' = out
      BY <2>2, <3>3
    <3> QED BY <2>4, <3>1, <3>2, <3>3
  <2> QED BY <1>2, <2>3, <2>5
<1>7. ASSUME NEW c \in Cursor, ReadValue(c) PROVE Kept
  BY <1>0, <1>2, <1>7, ValueCases, RaisesKeeps DEF ValueArrives
<1>8. ASSUME NEW g \in Gen, UnexpectedResponse(g) \/ ReadEnd(g) PROVE Kept
  <2>1. items' = items /\ Raises(g, cached, error, outstanding)
    BY <1>8 DEF UnexpectedResponse, ReadEnd
  <2> QED BY <1>0, <1>2, <2>1, RaisesKeeps
<1>9. CASE \/ \E k \in conts : ContinueRuns(k)
           \/ \E c \in Cursor : SkipWhileClosing(c)
           \/ \E g \in Gen : Drop(g) \/ Eof(g)
           \/ UNCHANGED vars
  BY <1>1, <1>9 DEF ContinueRuns, SkipWhileClosing, Drop, Eof, vars
<1> QED BY <1>3, <1>4, <1>5, <1>6, <1>7, <1>8, <1>9 DEF Next, ReadResponse

LEMMA WaitStep ==
  ASSUME Typed, BaseInv, CountInv, WaitInv, [Next]_vars
  PROVE  WaitInv'
<1> SUFFICES ASSUME NEW u \in Task, task'[u].pc = "wait"
             PROVE  /\ items'[task'[u].c] = 0
                    /\ error'[task'[u].c] = "None" => outstanding'[task'[u].c] > 0
  BY DEF WaitInv
<1>1. CASE task'[u] = task[u]
  <2>1. PICK d \in held : d = task[u].c
    BY <1>1 DEF BaseInv, TaskInv
  <2>2. items[d] = 0 /\ (error[d] = "None" => outstanding[d] > 0)
    BY <1>1, <2>1 DEF WaitInv
  <2>3. d \in Cursor /\ outstanding[d] \in Int /\ outstanding'[d] \in Int
    BY TypeStep DEF Typed
  <2>4. ~Wake(d)
    BY <1>1, <2>1, <2>3, WakeCases
  <2> QED BY <1>1, <2>1, <2>2, <2>3, <2>4, WaitKept
<1>2. CASE task'[u] # task[u]
  <2>1. NextWait(u) /\ task'[u].c = task[u].c
    <3>1. CASE \A v \in Task : Settles(v)
      BY <1>2, <3>1 DEF Settles
    <3>2. CASE \E v \in Task : MovesOn(v)
      <4>1. PICK v \in Task : MovesOn(v)
        BY <3>2
      <4> QED BY <1>2, <4>1, MoveCases
    <3> QED BY <3>1, <3>2, TaskCases
  <2>2. PICK c \in Cursor : c = task[u].c
    BY DEF Typed, TaskType
  <2>3. /\ items'[c] = 0 /\ error[c] = "None"
        /\ outstanding'[c] = IF WantsBatch(c, outstanding[c]) THEN 1 ELSE outstanding[c]
    BY <2>1, <2>2 DEF NextWait, Typed
  <2>4. ~WantsBatch(c, outstanding[c]) => outstanding[c] = 1
    <3>1. items[c] = 0
      BY <2>1, <2>2 DEF NextWait
    <3>2. outstanding[c] \in 0 .. 1 /\ (outstanding[c] = 1 \/ threshold[c] > 0)
      BY <2>3 DEF CountInv, CountOf
    <3> QED BY <2>3, <3>1, <3>2 DEF WantsBatch
  <2> QED BY <2>1, <2>2, <2>3, <2>4
<1> QED BY <1>1, <1>2

-----------------------------------------------------------------------------
(* The inductive invariant of the driver, and what it implies.             *)
Inv == Typed /\ BaseInv /\ RowsInv /\ InstInv /\ CountInv /\ WaitInv

LEMMA InvInit == Init => Inv
BY InitTyped, BaseInit, RowsInit, InstInit, CountInit, IdleType DEF Inv, WaitInv, Init

LEMMA InvStep == Inv /\ [Next]_vars /\ ~Replaces => Inv'
<1> SUFFICES ASSUME Inv, [Next]_vars, ~Replaces PROVE Inv'
  OBVIOUS
<1>1. Typed' /\ BaseInv' /\ RowsInv'
  BY TypeStep, BaseStep, RowCases, RowsStep DEF Inv
<1> QED BY <1>1, InstInvStep, CountStep, WaitStep DEF Inv

LEMMA ImpliesTypeOK == Inv => TypeOK
<1> SUFFICES ASSUME Inv PROVE TypeOK
  OBVIOUS
<1>1. \A c \in Cursor :
        /\ items[c] \in 0 .. MaxRows /\ got[c] \in 0 .. MaxRows
        /\ awaiting[c] \in 0 .. 2 /\ outstanding[c] \in -1 .. 2
  <2> SUFFICES ASSUME NEW c \in Cursor
               PROVE  /\ items[c] \in 0 .. MaxRows /\ got[c] \in 0 .. MaxRows
                      /\ awaiting[c] \in 0 .. 2 /\ outstanding[c] \in -1 .. 2
    OBVIOUS
  <2>1. /\ items[c] \in Nat /\ got[c] \in Nat /\ sent[c] \in 0 .. MaxRows /\ awaiting[c] \in Nat
        /\ got[c] + items[c] <= sent[c] /\ Owed(c) <= 2 /\ outstanding[c] \in -1 .. 2
        /\ Scheduled(c) \in {0, 1} /\ MaxRows \in Nat
    BY Types DEF Inv, Typed, RowsInv, CountInv, CountOf, Scheduled
  <2>2. awaiting[c] <= 2
    BY <2>1 DEF Owed
  <2>3. items[c] <= MaxRows /\ got[c] <= MaxRows
    BY <2>1
  <2>4. items[c] \in 0 .. MaxRows /\ got[c] \in 0 .. MaxRows
    BY <2>1, <2>3
  <2>5. awaiting[c] \in 0 .. 2
    <3>1. awaiting[c] \in Nat
      BY DEF Inv, Typed
    <3>2. \A n \in Nat : n <= 2 => n \in 0 .. 2
      OBVIOUS
    <3> QED BY <2>2, <3>1, <3>2
  <2> QED BY <2>1, <2>4, <2>5, Zenon
<1>2. /\ outstanding \in [Cursor -> -1 .. 2] /\ awaiting \in [Cursor -> 0 .. 2]
      /\ items \in [Cursor -> 0 .. MaxRows] /\ got \in [Cursor -> 0 .. MaxRows]
  <2>1. /\ outstanding \in [Cursor -> Int] /\ awaiting \in [Cursor -> Nat]
        /\ items \in [Cursor -> Nat] /\ got \in [Cursor -> Nat]
    BY DEF Inv, Typed
  <2> QED BY <1>1, <2>1
<1>3. \A c \in cached \cup held : error[c] # "Absent"
  BY DEF Inv, BaseInv, OpenInv
<1> QED BY <1>2, <1>3 DEF Inv, Typed, TypeOK, TaskType

(* The CONTINUEs of a cursor are one request, or none.                     *)
LEMMA CountedOnce ==
  ASSUME Typed, InstInv, NEW c \in Cursor
  PROVE  Cardinality({k \in conts : k[2] = c}) = Scheduled(c)
<1> DEFINE S == {k \in conts : k[2] = c}
<1>1. S = IF Request(c) \in conts THEN {Request(c)} ELSE {}
  <2>1. \A k \in conts : k = <<k[1], k[2]>> /\ k[1] = k[2][1]
    BY DEF Typed, InstInv
  <2> QED BY <2>1 DEF Request
<1>2. CASE Request(c) \in conts
  BY <1>1, <1>2, FS_Singleton DEF Scheduled
<1>3. CASE Request(c) \notin conts
  BY <1>1, <1>3, FS_EmptySet DEF Scheduled
<1> QED BY <1>2, <1>3

LEMMA ImpliesAsyncioInv == Inv => AsyncioInv
<1> SUFFICES ASSUME Inv PROVE AsyncioInv
  OBVIOUS
<1>1. TypeOK
  BY ImpliesTypeOK
<1>2. NoUnexpectedResponse
  BY DEF NoUnexpectedResponse, Inv, CountInv, CountOf
<1>3. RequestsAccounted
  <2> SUFFICES ASSUME NEW c \in cached, link[c[1]] = "up"
               PROVE  outstanding[c] = awaiting[c] + Cardinality({k \in conts : k[2] = c})
    BY DEF RequestsAccounted
  <2>1. c \in Cursor
    BY DEF Inv, Typed
  <2>2. Owed(c) = outstanding[c]
    BY <2>1 DEF Inv, CountInv, CountOf
  <2>3. Cardinality({k \in conts : k[2] = c}) = Scheduled(c)
    BY <2>1, CountedOnce DEF Inv
  <2> QED BY <2>2, <2>3 DEF Owed
<1>4. WaiterHasRequest
  <2> SUFFICES ASSUME NEW u \in Task, task[u].pc = "wait"
               PROVE  /\ items[task[u].c] = 0
                      /\ error[task[u].c] = "None" => /\ task[u].c \in cached
                                                      /\ reader[task[u].c[1]] = "run"
                                                      /\ outstanding[task[u].c] > 0
    BY DEF WaiterHasRequest
  <2>1. task[u].c \in Cursor
    BY DEF Inv, Typed, TaskType
  <2> QED BY <2>1 DEF Inv, WaitInv, BaseInv, OpenInv
<1> QED BY <1>1, <1>2, <1>3, <1>4 DEF AsyncioInv

(* As long as no open connection is replaced, every answer of the server   *)
(* has an owner, outstanding_requests counts exactly what a cursor is      *)
(* owed, and a task that waits for a cursor has something to wait for:     *)
(* whatever the tasks cancel, time out on, close and reconnect, and        *)
(* whichever connections fail meanwhile.                                   *)
THEOREM AsyncioCorrect == Spec /\ NoOverlap => []AsyncioInv
<1>1. Inv /\ [Next]_vars /\ [instance' # instance => instance = 0 \/ closing'[instance]]_vars => Inv'
  <2> SUFFICES ASSUME Inv, [Next]_vars,
                      [instance' # instance => instance = 0 \/ closing'[instance]]_vars
               PROVE  Inv'
    OBVIOUS
  <2>1. ~Replaces
    BY DEF Replaces, vars, connVars
  <2> QED BY <2>1, InvStep
<1> QED BY <1>1, InvInit, ImpliesAsyncioInv, PTL DEF Spec, NoOverlap
=============================================================================
