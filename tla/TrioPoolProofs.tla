--------------------------- MODULE TrioPoolProofs ---------------------------
(***************************************************************************)
(* Proofs about TrioPool, for any number of connections and tasks and any  *)
(* size of the pool.                                                       *)
(***************************************************************************)
EXTENDS TrioPool, SequenceTheorems, TLAPS

(* What the invariants rest on: the connections each task has in hand, ... *)
InHand ==
  \A u \in Task :
    /\ task[u].pc \notin {"make", "use"} => task[u].with = {}
    /\ task[u].pc = "make" => \E c \in Conn : task[u].with = {c} /\ conn[c] = "making"
    /\ task[u].pc = "use" => \E c \in Conn : task[u].with = {c}

(* ... that those the pool knows have been made, that nobody waits for the *)
(* end of one that is open, ...                                            *)
Existing(c) == conn[c] \notin {"unmade", "making"}
Known ==
  /\ \A c \in Members(idle) \cup lent : Existing(c)
  /\ \A u \in Task : \A c \in task[u].todo : Existing(c)
  /\ \A u \in Task : \A c \in task[u].waits : Existing(c) /\ ~IsOpen(c)

(* ... and that close() has scheduled the close() of all that are open.    *)
Scheduled ==
  \A u \in Task : task[u].pc = "close" =>
    \A c \in Conn : IsOpen(c) /\ c \notin late => c \in task[u].todo

IInv == PoolInv /\ InHand /\ Known /\ Scheduled /\ ClosedMeansClosed

-----------------------------------------------------------------------------
(* The deque without its first i connections.                              *)
LEMMA PopLeft ==
  ASSUME idle \in Seq(Conn), NEW i \in 1 .. Len(idle)
  PROVE  LET q == SubSeq(idle, i + 1, Len(idle)) IN
         /\ q \in Seq(Conn) /\ Len(q) = Len(idle) - i
         /\ \A k \in 1 .. Len(q) : q[k] = idle[i + k]
<1>1. i + 1 \in 1 .. Len(idle) + 1 /\ Len(idle) \in Nat
  BY LenProperties
<1>2. SubSeq(idle, i + 1, Len(idle)) = [k \in 1 .. Len(idle) - i |-> idle[i + k]]
  BY <1>1, SubSeqProperties
<1> QED BY <1>1, <1>2, SMT

LEMMA InitPool == Init => IInv
<1> SUFFICES ASSUME Init PROVE IInv
  OBVIOUS
<1> USE DEF Init, Idle
<1>1. TypeOK
  <2>1. idle \in Seq(Conn) /\ Len(idle) = 0
    BY EmptySeq, SMT
  <2>2. Len(idle) <= MaxIdle
    BY <2>1, TrioPoolAssumption DEF TrioPoolAssumption
  <2>3. conn \in [Conn -> ConnState] /\ task \in [Task -> TaskType]
    BY DEF ConnState, TaskType
  <2> QED BY <2>1, <2>2, <2>3 DEF TypeOK
<1>2. Members(idle) = {} /\ lent = {} /\ \A c \in Conn : ~IsOpen(c)
  BY DEF Members, IsOpen
<1>3. OneOwner
  BY DEF OneOwner
<1>4. NothingLost /\ ClosedMeansClosed
  BY <1>2 DEF NothingLost, ClosedMeansClosed
<1>5. InHand /\ Known /\ Scheduled
  BY <1>2 DEF InHand, Known, Scheduled
<1> QED BY <1>1, <1>3, <1>4, <1>5 DEF IInv, PoolInv

LEMMA AcquireIdleStep == ASSUME IInv, NEW u \in Task, AcquireIdle(u) PROVE IInv'
<1> USE DEF IInv, PoolInv
<1>1. PICK i \in 1 .. Len(idle) :
         /\ IsOpen(idle[i])
         /\ \A j \in 1 .. i - 1 : ~IsOpen(idle[j])
         /\ idle' = SubSeq(idle, i + 1, Len(idle))
         /\ lent' = lent \cup {idle[i]}
         /\ task' = [task EXCEPT ![u] = [pc |-> "use", with |-> {idle[i]},
                                         todo |-> {}, waits |-> {}]]
  BY DEF AcquireIdle, Enter
<1> DEFINE d == idle[i]
<1>2. conn' = conn /\ closed' = closed /\ late' = late /\ task[u] = Idle /\ ~closed
  BY DEF AcquireIdle
<1>3. /\ idle' \in Seq(Conn) /\ Len(idle') = Len(idle) - i /\ Len(idle) \in Nat
      /\ \A k \in 1 .. Len(idle') : idle'[k] = idle[i + k]
  BY <1>1, PopLeft, LenProperties DEF TypeOK
<1>4. d \in Conn /\ d \notin lent /\ d \in Members(idle)
  BY ElementOfSeq DEF TypeOK, OneOwner, Members
<1>5. \A k \in 1 .. Len(idle') : i + k \in 1 .. Len(idle) /\ i + k # i
  BY <1>3
<1>6. Members(idle') \subseteq Members(idle) /\ d \notin Members(idle')
  BY <1>3, <1>5 DEF Members, OneOwner
<1>7. \A c \in Members(idle) : IsOpen(c) => c \in Members(idle') \cup {d}
  <2> SUFFICES ASSUME NEW k \in 1 .. Len(idle), IsOpen(idle[k]), k # i
               PROVE  idle[k] \in Members(idle')
    BY DEF Members
  <2>1. k > i
    BY <1>1
  <2>2. k - i \in 1 .. Len(idle') /\ idle'[k - i] = idle[k]
    BY <2>1, <1>3
  <2> QED BY <2>2 DEF Members
<1>8. \A c \in Conn : IsOpen(c)' = IsOpen(c)
  BY <1>2 DEF IsOpen
<1>9. \A v \in Task : d \notin task[v].with
  BY <1>4, <1>2 DEF InHand, OneOwner, Known, Existing
<1>10. TypeOK'
  BY <1>1, <1>2, <1>3, <1>4, TrioPoolAssumption DEF TypeOK, TaskType, TrioPoolAssumption
<1>11. task'[u].pc = "use" /\ task'[u].with = {d} /\ task[u].with = {}
       /\ task[u].pc = "idle"
       /\ \A v \in Task \ {u} : task'[v] = task[v]
  BY <1>1, <1>2 DEF TypeOK, Idle
<1>12. OneOwner'
  <2>1. \A j, k \in 1 .. Len(idle') : idle'[j] = idle'[k] => j = k
    BY <1>3, <1>5 DEF OneOwner
  <2>2. \A k \in 1 .. Len(idle') : idle'[k] \notin lent'
    BY <1>1, <1>3, <1>5, <1>6 DEF OneOwner, Members
  <2>3. \A c \in Conn : c \in lent' <=>
             \E v \in Task : task'[v].pc = "use" /\ c \in task'[v].with
    BY <1>1, <1>11 DEF OneOwner
  <2>4. \A v, w \in Task : v # w => task'[v].with \cap task'[w].with = {}
    BY <1>9, <1>11 DEF OneOwner
  <2> QED BY <2>1, <2>2, <2>3, <2>4 DEF OneOwner
<1>13. NothingLost' /\ ClosedMeansClosed'
  BY <1>1, <1>2, <1>7, <1>8 DEF NothingLost, ClosedMeansClosed
<1>14. InHand'
  BY <1>2, <1>4, <1>11 DEF InHand
<1>15. Known'
  <2>1. \A c \in Conn : Existing(c)' = Existing(c)
    BY <1>2 DEF Existing
  <2>2. task'[u].todo = {} /\ task'[u].waits = {}
    BY <1>1 DEF TypeOK
  <2>3. \A c \in Members(idle') \cup lent' : Existing(c)'
    BY <1>1, <1>2, <1>4, <1>6 DEF Known, Existing
  <2>4. \A v \in Task : /\ \A c \in task'[v].todo : Existing(c)'
                        /\ \A c \in task'[v].waits : Existing(c)' /\ ~IsOpen(c)'
    BY <2>2, <1>2, <1>11 DEF Known, Existing, IsOpen
  <2> QED BY <2>3, <2>4 DEF Known
<1>16. Scheduled'
  BY <1>2, <1>8, <1>11 DEF Scheduled
<1> QED BY <1>10, <1>12, <1>13, <1>14, <1>15, <1>16

LEMMA AcquireNewStep == ASSUME IInv, NEW u \in Task, AcquireNew(u) PROVE IInv'
<1> USE DEF IInv, PoolInv
<1>1. PICK d \in Conn :
         /\ conn[d] = "unmade"
         /\ conn' = [conn EXCEPT ![d] = "making"]
         /\ task' = [task EXCEPT ![u] = [pc |-> "make", with |-> {d},
                                         todo |-> {}, waits |-> {}]]
  BY DEF AcquireNew, Enter
<1>2. /\ idle' = <<>> /\ lent' = lent /\ closed' = closed /\ late' = late
      /\ task[u] = Idle
      /\ \A k \in 1 .. Len(idle) : ~IsOpen(idle[k])
  BY DEF AcquireNew
<1>3. idle' \in Seq(Conn) /\ Len(idle') = 0 /\ Members(idle') = {}
  BY <1>2, EmptySeq DEF Members
<1>4. \A c \in Members(idle) : ~IsOpen(c)
  BY <1>2 DEF Members
<1>5. conn'[d] = "making" /\ \A c \in Conn \ {d} : conn'[c] = conn[c]
  BY <1>1 DEF TypeOK
<1>6. \A c \in Conn : IsOpen(c)' = IsOpen(c)
  BY <1>1, <1>5 DEF IsOpen
<1>7. /\ task'[u].pc = "make" /\ task'[u].with = {d} /\ task[u].with = {}
      /\ task'[u].todo = {} /\ task'[u].waits = {} /\ task[u].pc = "idle"
      /\ \A v \in Task \ {u} : task'[v] = task[v]
  BY <1>1, <1>2 DEF TypeOK, Idle
<1>8. d \notin lent /\ \A v \in Task : d \notin task[v].with
  <2>1. d \notin lent
    BY <1>1 DEF Known, Existing
  <2>2. ASSUME NEW v \in Task, d \in task[v].with PROVE FALSE
    BY <1>1, <2>1, <2>2 DEF InHand, OneOwner
  <2> QED BY <2>1, <2>2
<1>9. TypeOK'
  BY <1>1, <1>2, <1>3, TrioPoolAssumption DEF TypeOK, TaskType, ConnState, TrioPoolAssumption
<1>10. OneOwner'
  <2>1. \A c \in Conn : c \in lent' <=>
             \E v \in Task : task'[v].pc = "use" /\ c \in task'[v].with
    BY <1>2, <1>7 DEF OneOwner
  <2>2. \A v, w \in Task : v # w => task'[v].with \cap task'[w].with = {}
    BY <1>7, <1>8 DEF OneOwner
  <2> QED BY <1>3, <2>1, <2>2 DEF OneOwner
<1>11. NothingLost' /\ ClosedMeansClosed'
  BY <1>2, <1>4, <1>6 DEF NothingLost, ClosedMeansClosed
<1>12. InHand'
  BY <1>5, <1>7, <1>8 DEF InHand
<1>13. Known'
  <2>1. \A c \in Conn : Existing(c) => c # d /\ Existing(c)'
    BY <1>1, <1>5 DEF Existing
  <2>2. \A c \in Members(idle') \cup lent' : Existing(c)'
    BY <1>2, <1>3, <2>1 DEF Known, TypeOK
  <2>3. \A v \in Task : task[v].todo \subseteq Conn /\ task[v].waits \subseteq Conn
    BY DEF TypeOK, TaskType
  <2>4. \A v \in Task : /\ \A c \in task'[v].todo : Existing(c)'
                        /\ \A c \in task'[v].waits : Existing(c)' /\ ~IsOpen(c)'
    BY <1>6, <1>7, <2>1, <2>3 DEF Known
  <2> QED BY <2>2, <2>4 DEF Known
<1>14. Scheduled'
  BY <1>2, <1>6, <1>7 DEF Scheduled
<1> QED BY <1>9, <1>10, <1>11, <1>12, <1>13, <1>14

LEMMA MadeStep == ASSUME IInv, NEW u \in Task, Made(u) PROVE IInv'
<1> USE DEF IInv, PoolInv
<1>1. PICK d \in task[u].with :
         /\ conn' = [conn EXCEPT ![d] = "open"]
         /\ lent' = lent \cup {d}
         /\ task' = [task EXCEPT ![u] = [pc |-> "use", with |-> {d},
                                         todo |-> {}, waits |-> {}]]
         /\ late' = IF closed \/ \E v \in Task : task[v].pc = "close"
                    THEN late \cup {d} ELSE late
  BY DEF Made, Enter
<1>2. task[u].pc = "make" /\ idle' = idle /\ closed' = closed
  BY DEF Made
<1>3. d \in Conn /\ conn[d] = "making" /\ task[u].with = {d}
  BY <1>1, <1>2 DEF InHand
<1>4. conn'[d] = "open" /\ \A c \in Conn \ {d} : conn'[c] = conn[c]
  BY <1>1, <1>3 DEF TypeOK
<1>5. /\ task'[u].pc = "use" /\ task'[u].with = {d}
      /\ task'[u].todo = {} /\ task'[u].waits = {}
      /\ \A v \in Task \ {u} : task'[v] = task[v]
  BY <1>1 DEF TypeOK
<1>6. d \notin Members(idle) /\ d \notin lent
  BY <1>3 DEF Known, Existing
<1>7. Members(idle') = Members(idle)
  BY <1>2
<1>8. TypeOK'
  BY <1>1, <1>2, <1>3 DEF TypeOK, TaskType, ConnState
<1>9. OneOwner'
  <2>1. \A c \in Conn : c \in lent' <=>
             \E v \in Task : task'[v].pc = "use" /\ c \in task'[v].with
    BY <1>1, <1>2, <1>5 DEF OneOwner
  <2>2. \A v, w \in Task : v # w => task'[v].with \cap task'[w].with = {}
    BY <1>3, <1>5 DEF OneOwner
  <2>3. \A k \in 1 .. Len(idle') : idle'[k] \notin lent'
    BY <1>1, <1>2, <1>6 DEF OneOwner, Members
  <2> QED BY <1>2, <2>1, <2>2, <2>3 DEF OneOwner
<1>10. \A c \in Conn : IsOpen(c)' => IsOpen(c) \/ c = d
  BY <1>4 DEF IsOpen
<1>11. NothingLost' /\ ClosedMeansClosed'
  BY <1>1, <1>2, <1>7, <1>10 DEF NothingLost, ClosedMeansClosed
<1>12. InHand'
  <2> SUFFICES ASSUME NEW v \in Task, v # u
               PROVE  /\ task[v].pc \notin {"make", "use"} => task[v].with = {}
                      /\ task[v].pc = "make" => \E c \in Conn : task[v].with = {c} /\ conn'[c] = "making"
                      /\ task[v].pc = "use" => \E c \in Conn : task[v].with = {c}
    BY <1>3, <1>5 DEF InHand
  <2>1. d \notin task[v].with
    BY <1>3 DEF OneOwner
  <2> QED BY <1>4, <2>1 DEF InHand
<1>13. Known'
  <2>1. \A c \in Conn : Existing(c) => c # d
    BY <1>3 DEF Existing
  <2>2. \A c \in Conn : Existing(c) => Existing(c)' /\ (IsOpen(c)' = IsOpen(c))
    BY <1>4, <2>1 DEF Existing, IsOpen
  <2>3. Existing(d)'
    BY <1>4 DEF Existing
  <2>4. \A c \in Members(idle') \cup lent' : Existing(c)'
    BY <1>1, <1>7, <2>2, <2>3, ElementOfSeq DEF Known, TypeOK, Members
  <2>5. \A v \in Task : task[v].todo \subseteq Conn /\ task[v].waits \subseteq Conn
    BY DEF TypeOK, TaskType
  <2>6. \A v \in Task : /\ \A c \in task'[v].todo : Existing(c)'
                        /\ \A c \in task'[v].waits : Existing(c)' /\ ~IsOpen(c)'
    BY <1>5, <2>2, <2>5 DEF Known
  <2> QED BY <2>4, <2>6 DEF Known
<1>14. Scheduled'
  <2> SUFFICES ASSUME NEW v \in Task, task'[v].pc = "close",
                      NEW c \in Conn, IsOpen(c)', c \notin late'
               PROVE  c \in task'[v].todo
    BY DEF Scheduled
  <2>1. v # u /\ task[v].pc = "close" /\ task'[v] = task[v]
    BY <1>5
  <2>2. c # d /\ c \notin late
    BY <1>1, <2>1
  <2> QED BY <1>10, <2>1, <2>2 DEF Scheduled
<1> QED BY <1>8, <1>9, <1>11, <1>12, <1>13, <1>14

(* A step after which u has nothing in its hands, and that opens nothing.  *)
LEMMA LetGo ==
  ASSUME IInv, NEW u \in Task, TypeOK',
         idle' = idle, late' = late, lent' = lent \ task[u].with,
         \A v \in Task \ {u} : task'[v] = task[v],
         task'[u].with = {}, task'[u].pc \notin {"make", "use"},
         \A c \in Conn : IsOpen(c)' => IsOpen(c),
         \A c \in task[u].with : ~IsOpen(c)',
         \A c \in Conn : Existing(c) => Existing(c)',
         \A c \in Conn : c \notin task[u].with /\ conn[c] = "making" => conn'[c] = "making",
         task'[u].todo \subseteq task[u].todo \cup Members(idle) \cup lent,
         \A c \in task'[u].waits : Existing(c)' /\ ~IsOpen(c)',
         task'[u].pc = "close" =>
            \A c \in Conn : IsOpen(c)' /\ c \notin late => c \in task'[u].todo,
         closed' => closed \/ \A c \in Conn : IsOpen(c)' => c \in late
  PROVE  IInv'
<1> USE DEF IInv, PoolInv
<1>1. OneOwner'
  <2>1. \A c \in Conn : c \in lent' <=>
             \E v \in Task : task'[v].pc = "use" /\ c \in task'[v].with
    <3> TAKE c \in Conn
    <3>1. ASSUME c \in lent'
          PROVE  \E v \in Task : task'[v].pc = "use" /\ c \in task'[v].with
      <4>1. PICK v \in Task : task[v].pc = "use" /\ c \in task[v].with
        BY <3>1 DEF OneOwner
      <4>2. v # u
        BY <3>1, <4>1
      <4> QED BY <4>1, <4>2
    <3>2. ASSUME NEW v \in Task, task'[v].pc = "use", c \in task'[v].with
          PROVE  c \in lent'
      <4>1. v # u /\ task[v].pc = "use" /\ c \in task[v].with
        BY <3>2
      <4>2. c \in lent /\ c \notin task[u].with
        BY <4>1 DEF OneOwner
      <4> QED BY <4>2
    <3> QED BY <3>1, <3>2
  <2>2. \A v, w \in Task : v # w => task'[v].with \cap task'[w].with = {}
    BY DEF OneOwner
  <2> QED BY <2>1, <2>2 DEF OneOwner
<1>2. Members(idle') = Members(idle)
  OBVIOUS
<1>3. NothingLost' /\ ClosedMeansClosed'
  BY <1>2 DEF NothingLost, ClosedMeansClosed
<1>4. InHand'
  <2> SUFFICES ASSUME NEW v \in Task, v # u
               PROVE  /\ task[v].pc \notin {"make", "use"} => task[v].with = {}
                      /\ task[v].pc = "make" => \E c \in Conn : task[v].with = {c} /\ conn'[c] = "making"
                      /\ task[v].pc = "use" => \E c \in Conn : task[v].with = {c}
    BY DEF InHand
  <2>1. task[v].with \cap task[u].with = {}
    BY DEF OneOwner
  <2> QED BY <2>1 DEF InHand
<1>5. Known'
  <2>1. \A c \in Members(idle) \cup lent : c \in Conn
    BY ElementOfSeq DEF TypeOK, Members
  <2>2. \A v \in Task : task[v].todo \subseteq Conn /\ task[v].waits \subseteq Conn
    BY DEF TypeOK, TaskType
  <2>3. \A c \in Members(idle') \cup lent' : Existing(c)'
    BY <1>2, <2>1 DEF Known
  <2>4. \A v \in Task : /\ \A c \in task'[v].todo : Existing(c)'
                        /\ \A c \in task'[v].waits : Existing(c)' /\ ~IsOpen(c)'
    BY <2>1, <2>2 DEF Known
  <2> QED BY <2>3, <2>4 DEF Known
<1>6. Scheduled'
  BY DEF Scheduled
<1> QED BY <1>1, <1>3, <1>4, <1>5, <1>6

(* Connection.close, and its cancellation, never open a connection.        *)
LEMMA CloseStates ==
  ASSUME NEW s \in ConnState
  PROVE  LET closed_(x) == x \notin {"unmade", "making", "open", "eof"} IN
         /\ Begins(s) \in ConnState /\ Abandons(s) \in ConnState /\ CutShort(s) \in ConnState
         /\ s \notin {"unmade", "making"} =>
                /\ closed_(Begins(s)) /\ closed_(CutShort(s))
                /\ s \notin {"open", "eof"} => closed_(Abandons(s))
  BY DEF Begins, Abandons, CutShort, Awaits, ConnState

LEMMA ReleaseStep == ASSUME IInv, NEW u \in Task, Release(u) PROVE IInv'
<1> USE DEF IInv, PoolInv
<1>1. PICK d \in task[u].with :
         /\ lent' = lent \ {d}
         /\ IF Len(idle) < MaxIdle
            THEN idle' = Append(idle, d) /\ Return(u) /\ UNCHANGED conn
            ELSE /\ conn' = [conn EXCEPT ![d] = Begins(@)]
                 /\ IF Awaits(conn[d]) THEN Enter(u, "release", {}, {}, {d}) ELSE Return(u)
                 /\ UNCHANGED idle
  BY DEF Release
<1>2. task[u].pc = "use" /\ closed' = closed /\ late' = late
  BY DEF Release
<1>3. d \in Conn /\ task[u].with = {d} /\ d \in lent /\ Existing(d)
  BY <1>1, <1>2 DEF InHand, OneOwner, Known
<1>4. CASE Len(idle) >= MaxIdle
  <2>1. /\ conn' = [conn EXCEPT ![d] = Begins(@)] /\ idle' = idle
        /\ IF Awaits(conn[d]) THEN Enter(u, "release", {}, {}, {d}) ELSE Return(u)
    BY <1>1, <1>4, LenProperties, TrioPoolAssumption DEF TypeOK, TrioPoolAssumption
  <2>2. conn'[d] = Begins(conn[d]) /\ \A c \in Conn \ {d} : conn'[c] = conn[c]
    BY <1>3, <2>1 DEF TypeOK
  <2>3. conn'[d] \notin {"unmade", "making", "open", "eof"} /\ conn'[d] \in ConnState
    BY <1>3, <2>2, CloseStates DEF TypeOK, Existing
  <2>4. /\ task'[u].with = {} /\ task'[u].todo = {} /\ task'[u].waits \subseteq {d}
        /\ task'[u].pc \in {"idle", "release"}
        /\ \A v \in Task \ {u} : task'[v] = task[v]
        /\ task' \in [Task -> TaskType]
    BY <1>3, <2>1 DEF TypeOK, TaskType, Enter, Return, Idle
  <2>5. TypeOK'
    BY <1>1, <1>2, <2>1, <2>3, <2>4 DEF TypeOK
  <2>6. /\ \A c \in Conn : IsOpen(c)' => IsOpen(c)
        /\ ~IsOpen(d)' /\ Existing(d)'
        /\ \A c \in Conn : Existing(c) => Existing(c)'
        /\ \A c \in Conn : c \notin task[u].with /\ conn[c] = "making" => conn'[c] = "making"
    BY <1>3, <2>2, <2>3 DEF IsOpen, Existing
  <2> QED BY <1>1, <1>2, <1>3, <2>1, <2>4, <2>5, <2>6, LetGo
<1>5. CASE Len(idle) < MaxIdle
  <2>1. /\ idle' = Append(idle, d) /\ conn' = conn
        /\ task' = [task EXCEPT ![u] = Idle]
    BY <1>1, <1>5 DEF Return
  <2>2. /\ idle' \in Seq(Conn) /\ Len(idle') = Len(idle) + 1 /\ Len(idle) \in Nat
        /\ \A k \in 1 .. Len(idle) : idle'[k] = idle[k]
        /\ idle'[Len(idle) + 1] = d
    BY <1>3, <2>1, AppendProperties, LenProperties DEF TypeOK
  <2>3. Members(idle') = Members(idle) \cup {d}
    <3>1. \A k \in 1 .. Len(idle') : k \in 1 .. Len(idle) \/ k = Len(idle) + 1
      BY <2>2
    <3>2. \A k \in 1 .. Len(idle) : k \in 1 .. Len(idle')
      BY <2>2
    <3>3. Len(idle) + 1 \in 1 .. Len(idle')
      BY <2>2
    <3> QED BY <2>2, <3>1, <3>2, <3>3 DEF Members
  <2>4. /\ task'[u] = Idle
        /\ \A v \in Task \ {u} : task'[v] = task[v]
    BY <2>1 DEF TypeOK
  <2>5. TypeOK'
    BY <1>1, <1>2, <1>3, <1>5, <2>1, <2>2, TrioPoolAssumption
    DEF TypeOK, TaskType, Idle, TrioPoolAssumption
  <2>6. d \notin Members(idle)
    BY <1>3 DEF OneOwner, Members
  <2>7. OneOwner'
    <3>1. \A j, k \in 1 .. Len(idle') : idle'[j] = idle'[k] => j = k
      <4>1. \A k \in 1 .. Len(idle) : idle'[k] # d
        BY <2>2, <2>6 DEF Members
      <4> QED BY <2>2, <4>1 DEF OneOwner
    <3>2. \A k \in 1 .. Len(idle') : idle'[k] \notin lent'
      BY <1>1, <2>2 DEF OneOwner
    <3>3. \A c \in Conn : c \in lent' <=>
             \E v \in Task : task'[v].pc = "use" /\ c \in task'[v].with
      BY <1>1, <1>2, <1>3, <2>4 DEF OneOwner, Idle
    <3>4. \A v, w \in Task : v # w => task'[v].with \cap task'[w].with = {}
      BY <2>4 DEF OneOwner, Idle
    <3> QED BY <3>1, <3>2, <3>3, <3>4 DEF OneOwner
  <2>8. \A c : (IsOpen(c)' = IsOpen(c)) /\ (Existing(c)' = Existing(c))
    BY <2>1 DEF IsOpen, Existing
  <2>9. NothingLost' /\ ClosedMeansClosed'
    BY <1>1, <1>2, <2>3, <2>8 DEF NothingLost, ClosedMeansClosed
  <2>10. InHand' /\ Scheduled'
    BY <1>2, <2>1, <2>4, <2>8 DEF InHand, Scheduled, Idle
  <2>11. Known'
    BY <1>1, <1>3, <2>3, <2>4, <2>8 DEF Known, Idle
  <2> QED BY <2>5, <2>7, <2>9, <2>10, <2>11
<1> QED BY <1>4, <1>5, LenProperties, TrioPoolAssumption DEF TypeOK, TrioPoolAssumption

LEMMA MakeEnds ==
  ASSUME IInv, NEW u \in Task, task[u].pc = "make", NEW end \in {"closed", "leaked"},
         conn' = [c \in Conn |-> IF c \in task[u].with THEN end ELSE conn[c]],
         Return(u), UNCHANGED <<idle, lent, closed, late>>
  PROVE  IInv'
<1> USE DEF IInv, PoolInv
<1>1. PICK d \in Conn : task[u].with = {d} /\ conn[d] = "making"
  BY DEF InHand
<1>2. conn'[d] = end /\ \A c \in Conn \ {d} : conn'[c] = conn[c]
  BY <1>1
<1>3. task'[u] = Idle /\ \A v \in Task \ {u} : task'[v] = task[v]
  BY DEF Return, TypeOK
<1>4. TypeOK'
  BY DEF TypeOK, TaskType, ConnState, Return, Idle
<1>5. d \notin lent
  BY <1>1 DEF Known, Existing
<1>6. /\ \A c \in Conn : IsOpen(c)' => IsOpen(c)
      /\ ~IsOpen(d)'
      /\ \A c \in Conn : Existing(c) => Existing(c)'
      /\ \A c \in Conn : c \notin task[u].with /\ conn[c] = "making" => conn'[c] = "making"
  BY <1>1, <1>2 DEF IsOpen, Existing
<1> QED BY <1>1, <1>3, <1>4, <1>5, <1>6, LetGo DEF Idle

(* The rest of the methods, which have nothing in their hands.             *)
LEMMA CloseStep == ASSUME IInv, NEW u \in Task, Close(u) PROVE IInv'
<1> USE DEF IInv, PoolInv
<1>1. /\ task[u] = Idle /\ UNCHANGED <<conn, idle, lent, closed, late>>
      /\ task' = [task EXCEPT ![u] = [pc |-> "close", with |-> {},
                                      todo |-> Members(idle) \cup lent, waits |-> {}]]
  BY DEF Close, Enter
<1>2. /\ task'[u] = [pc |-> "close", with |-> {}, todo |-> Members(idle) \cup lent, waits |-> {}]
      /\ \A v \in Task \ {u} : task'[v] = task[v]
      /\ task[u].with = {}
  BY <1>1 DEF TypeOK, Idle
<1>3. Members(idle) \subseteq Conn
  BY ElementOfSeq DEF TypeOK, Members
<1>4. TypeOK'
  BY <1>1, <1>3 DEF TypeOK, TaskType
<1>5. \A c : (IsOpen(c)' = IsOpen(c)) /\ (Existing(c)' = Existing(c))
  BY <1>1 DEF IsOpen, Existing
<1>6. \A c \in Conn : IsOpen(c)' => c \in task'[u].todo
  BY <1>2, <1>5 DEF NothingLost
<1> QED BY <1>1, <1>2, <1>4, <1>5, <1>6, LetGo

LEMMA CloseConnStep == ASSUME IInv, NEW u \in Task, CloseConn(u) PROVE IInv'
<1> USE DEF IInv, PoolInv
<1>1. PICK d \in task[u].todo :
         /\ conn' = [conn EXCEPT ![d] = Begins(@)]
         /\ task' = [task EXCEPT ![u] =
               [pc |-> "close", with |-> {}, todo |-> task[u].todo \ {d},
                waits |-> IF Awaits(conn[d]) THEN task[u].waits \cup {d} ELSE task[u].waits]]
  BY DEF CloseConn, Enter
<1>2. task[u].pc = "close" /\ UNCHANGED <<idle, lent, closed, late>>
  BY DEF CloseConn
<1>3. task[u].todo \subseteq Conn /\ task[u].waits \subseteq Conn /\ task[u].with = {}
  BY <1>2 DEF TypeOK, TaskType, InHand
<1>4. d \in Conn /\ Existing(d)
  BY <1>1, <1>3 DEF Known
<1>5. conn'[d] = Begins(conn[d]) /\ \A c \in Conn \ {d} : conn'[c] = conn[c]
  BY <1>1, <1>4 DEF TypeOK
<1>6. conn'[d] \notin {"unmade", "making", "open", "eof"} /\ conn'[d] \in ConnState
  BY <1>4, <1>5, CloseStates DEF TypeOK, Existing
<1>7. /\ \A c \in Conn : IsOpen(c)' => IsOpen(c) /\ c # d
      /\ ~IsOpen(d)' /\ Existing(d)'
      /\ \A c \in Conn : Existing(c) => Existing(c)'
      /\ \A c \in Conn : conn[c] = "making" => conn'[c] = "making"
  BY <1>4, <1>5, <1>6 DEF IsOpen, Existing
<1>8. /\ task'[u].pc = "close" /\ task'[u].with = {} /\ task'[u].todo = task[u].todo \ {d}
      /\ task'[u].waits \subseteq task[u].waits \cup {d}
      /\ \A v \in Task \ {u} : task'[v] = task[v]
  BY <1>1 DEF TypeOK
<1>9. TypeOK'
  <2>1. task' \in [Task -> TaskType]
    BY <1>1, <1>3, <1>4 DEF TypeOK, TaskType
  <2>2. conn' \in [Conn -> ConnState]
    BY <1>1, <1>4, <1>5, <1>6 DEF TypeOK
  <2> QED BY <1>2, <2>1, <2>2 DEF TypeOK
<1>10. \A c \in task'[u].waits : Existing(c)' /\ ~IsOpen(c)'
  BY <1>3, <1>7, <1>8 DEF Known
<1>11. \A c \in Conn : IsOpen(c)' /\ c \notin late => c \in task'[u].todo
  BY <1>2, <1>7, <1>8 DEF Scheduled
<1> QED BY <1>2, <1>3, <1>7, <1>8, <1>9, <1>10, <1>11, LetGo

LEMMA ReturnStep == ASSUME IInv, NEW u \in Task, Awaited(u) \/ Returns(u) PROVE IInv'
<1> USE DEF IInv, PoolInv
<1>1. task[u].pc \in {"release", "close"} /\ UNCHANGED <<conn, idle, lent, late>>
  BY DEF Awaited, Returns
<1>2. task[u].with = {} /\ lent' = lent \ task[u].with
  BY <1>1 DEF InHand
<1>3. \A c : (IsOpen(c)' = IsOpen(c)) /\ (Existing(c)' = Existing(c))
  BY <1>1 DEF IsOpen, Existing
<1>4. CASE Awaited(u)
  <2>1. PICK d : closed' = closed /\ task' = [task EXCEPT ![u].waits = @ \ {d}]
    BY <1>4 DEF Awaited
  <2>2. /\ task'[u].pc = task[u].pc /\ task'[u].with = {} /\ task'[u].todo = task[u].todo
        /\ task'[u].waits \subseteq task[u].waits
        /\ \A v \in Task \ {u} : task'[v] = task[v]
    BY <1>2, <2>1 DEF TypeOK, TaskType
  <2>3. TypeOK'
    BY <1>1, <2>1 DEF TypeOK, TaskType
  <2>4. /\ \A c \in task'[u].waits : Existing(c)' /\ ~IsOpen(c)'
        /\ task'[u].pc = "close" =>
              \A c \in Conn : IsOpen(c)' /\ c \notin late => c \in task'[u].todo
    BY <1>3, <2>2 DEF Known, Scheduled
  <2> QED BY <1>1, <1>2, <1>3, <2>1, <2>2, <2>3, <2>4, LetGo
<1>5. CASE Returns(u)
  <2>1. /\ task[u].todo = {} /\ closed' = (closed \/ task[u].pc = "close")
        /\ task' = [task EXCEPT ![u] = Idle]
    BY <1>5 DEF Returns, Return
  <2>2. task'[u] = Idle /\ \A v \in Task \ {u} : task'[v] = task[v]
    BY <2>1 DEF TypeOK
  <2>3. TypeOK'
    <3>1. closed' \in BOOLEAN
      BY <2>1 DEF TypeOK
    <3>2. task' \in [Task -> TaskType]
      BY <2>1 DEF TypeOK, TaskType, Idle
    <3> QED BY <1>1, <3>1, <3>2 DEF TypeOK
  <2>4. closed' => closed \/ \A c \in Conn : IsOpen(c)' => c \in late
    BY <1>3, <2>1 DEF Scheduled
  <2> QED BY <1>1, <1>2, <1>3, <2>2, <2>3, <2>4, LetGo DEF Idle
<1> QED BY <1>4, <1>5

LEMMA CancelStep == ASSUME IInv, NEW u \in Task, Cancel(u) PROVE IInv'
<1> USE DEF IInv, PoolInv
<1>1. CASE task[u].pc = "make"
  BY <1>1, MakeEnds DEF Cancel
<1>2. CASE task[u].pc # "make"
  <2> DEFINE W == task[u].waits
             T == task[u].todo
  <2>1. /\ task' = [task EXCEPT ![u] = Idle] /\ UNCHANGED <<idle, closed, late>>
        /\ lent' = lent \ task[u].with
    BY <1>2 DEF Cancel, Return, InHand
  <2>2. \A c \in Conn :
           \/ conn'[c] = conn[c] /\ c \notin task[u].with
           \/ conn'[c] = CutShort(conn[c]) /\ Existing(c)
           \/ conn'[c] = Abandons(conn[c]) /\ Existing(c) /\ ~IsOpen(c)
    <3>1. CASE task[u].pc = "use"
      <4>1. \A c \in task[u].with : c \in lent /\ Existing(c)
        <5>1. task[u].with \subseteq Conn
          BY DEF TypeOK, TaskType
        <5> QED BY <3>1, <5>1 DEF OneOwner, Known
      <4>2. conn' = [c \in Conn |-> IF c \in task[u].with THEN CutShort(conn[c]) ELSE conn[c]]
        BY <3>1 DEF Cancel
      <4> QED BY <4>1, <4>2
    <3>2. CASE task[u].pc \in {"release", "close"}
      <4>1. task[u].with = {}
        BY <3>2 DEF InHand
      <4>2. conn' = [c \in Conn |-> CASE c \in W -> Abandons(conn[c])
                                     [] c \in T -> CutShort(conn[c])
                                     [] OTHER   -> conn[c]]
        BY <3>2 DEF Cancel
      <4> QED BY <4>1, <4>2 DEF Known
    <3> QED BY <1>2, <3>1, <3>2 DEF Cancel
  <2>3. \A c \in Conn :
           /\ conn'[c] \in ConnState
           /\ \/ conn'[c] = conn[c] /\ c \notin task[u].with
              \/ conn'[c] \notin {"unmade", "making", "open", "eof"} /\ Existing(c)
    <3> SUFFICES ASSUME NEW c \in Conn
                 PROVE  /\ conn'[c] \in ConnState
                        /\ \/ conn'[c] = conn[c] /\ c \notin task[u].with
                           \/ conn'[c] \notin {"unmade", "making", "open", "eof"} /\ Existing(c)
      OBVIOUS
    <3>1. conn[c] \in ConnState
      BY DEF TypeOK
    <3> QED BY <2>2, <3>1, CloseStates DEF Existing, IsOpen
  <2>4. task[u].with \subseteq Conn
    BY DEF TypeOK, TaskType
  <2>5. conn' \in [Conn -> ConnState]
    <3>1. conn' = [c \in Conn |-> conn'[c]]
      BY <1>2 DEF Cancel
    <3> QED BY <2>3, <3>1
  <2>6. TypeOK'
    BY <2>1, <2>5 DEF TypeOK, TaskType, Idle
  <2>7. task'[u] = Idle /\ \A v \in Task \ {u} : task'[v] = task[v]
    BY <2>1 DEF TypeOK
  <2>8. /\ \A c \in Conn : IsOpen(c)' => IsOpen(c)
        /\ \A c \in task[u].with : ~IsOpen(c)'
        /\ \A c \in Conn : Existing(c) => Existing(c)'
        /\ \A c \in Conn : c \notin task[u].with /\ conn[c] = "making" => conn'[c] = "making"
    BY <2>3, <2>4 DEF IsOpen, Existing
  <2> QED BY <2>1, <2>6, <2>7, <2>8, LetGo DEF Idle
<1> QED BY <1>1, <1>2

(* What happens to a connection.                                           *)
LEMMA ConnStep ==
  ASSUME IInv, NEW d \in Conn, Closes(d) \/ \E s \in {"eof", "broken", "hung"} : Breaks(d, s)
  PROVE  IInv'
<1> USE DEF IInv, PoolInv
<1>1. UNCHANGED <<idle, lent, closed, task, late>>
  BY DEF Closes, Breaks
<1>2. PICK s \in {"eof", "broken", "hung", "closed"} :
         /\ conn' = [conn EXCEPT ![d] = s]
         /\ conn[d] \in {"open", "eof"} \/ (conn[d] = "closing" /\ s # "eof")
  BY DEF Closes, Breaks
<1>3. conn'[d] = s /\ \A c \in Conn \ {d} : conn'[c] = conn[c]
  BY <1>2 DEF TypeOK
<1>4. /\ \A c \in Conn : IsOpen(c)' => IsOpen(c)
      /\ \A c \in Conn : Existing(c)' = Existing(c)
      /\ \A c \in Conn : conn[c] = "making" => conn'[c] = "making"
  BY <1>2, <1>3 DEF IsOpen, Existing
<1>5. Members(idle') = Members(idle) /\ Members(idle) \subseteq Conn
  BY <1>1, ElementOfSeq DEF Members, TypeOK
<1>6. \A u \in Task : task[u].todo \subseteq Conn /\ task[u].waits \subseteq Conn
  BY DEF TypeOK, TaskType
<1>7. TypeOK' /\ OneOwner'
  BY <1>1, <1>2 DEF TypeOK, OneOwner, ConnState
<1>8. NothingLost' /\ ClosedMeansClosed'
  BY <1>1, <1>4, <1>5 DEF NothingLost, ClosedMeansClosed
<1>9. InHand'
  BY <1>1, <1>4 DEF InHand
<1>10. Known'
  <2>1. lent \subseteq Conn
    BY DEF TypeOK
  <2> QED BY <1>1, <1>4, <1>5, <1>6, <2>1 DEF Known
<1>11. Scheduled'
  BY <1>1, <1>4 DEF Scheduled
<1> QED BY <1>7, <1>8, <1>9, <1>10, <1>11

LEMMA NextPool == IInv /\ [Next]_vars => IInv'
<1> SUFFICES ASSUME IInv, [Next]_vars PROVE IInv'
  OBVIOUS
<1>1. CASE UNCHANGED vars
  BY <1>1 DEF vars, IInv, PoolInv, TypeOK, OneOwner, NothingLost, InHand, Known, Scheduled,
              ClosedMeansClosed, Existing, IsOpen, Members
<1>2. ASSUME NEW u \in Task,
             \/ AcquireIdle(u) \/ AcquireNew(u) \/ Made(u) \/ MakeFails(u) \/ Release(u)
             \/ Close(u) \/ CloseConn(u) \/ Awaited(u) \/ Returns(u) \/ Cancel(u)
      PROVE  IInv'
  <2>1. CASE MakeFails(u)
    BY <2>1, MakeEnds DEF MakeFails
  <2> QED BY <1>2, <2>1, AcquireIdleStep, AcquireNewStep, MadeStep, ReleaseStep, CloseStep,
             CloseConnStep, ReturnStep, CancelStep
<1>3. ASSUME NEW c \in Conn, Closes(c) \/ \E s \in {"eof", "broken", "hung"} : Breaks(c, s)
      PROVE  IInv'
  BY <1>3, ConnStep
<1> QED BY <1>1, <1>2, <1>3 DEF Next

(* No connection of the pool has two owners, and none that is open gets    *)
(* lost between deque, borrowers and makers (TrioConnectionPool.acquire    *)
(* and release), whatever is cancelled and whatever breaks.                *)
THEOREM PoolInvariant == Spec => []PoolInv
<1>1. Init => IInv
  BY InitPool
<1>2. IInv /\ [Next]_vars => IInv'
  BY NextPool
<1>3. IInv => PoolInv
  BY DEF IInv
<1> QED BY <1>1, <1>2, <1>3, PTL DEF Spec

(* TrioConnectionPool.close leaves no connection open but those that       *)
(* acquire() finished making after it had been called.                     *)
THEOREM CloseCloses == Spec => []ClosedMeansClosed
<1>1. Init => IInv
  BY InitPool
<1>2. IInv /\ [Next]_vars => IInv'
  BY NextPool
<1>3. IInv => ClosedMeansClosed
  BY DEF IInv
<1> QED BY <1>1, <1>2, <1>3, PTL DEF Spec
=============================================================================
