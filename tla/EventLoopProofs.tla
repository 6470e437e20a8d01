-------------------------- MODULE EventLoopProofs ---------------------------
(***************************************************************************)
(* Proofs about EventLoop, for each of its four drivers, any tasks and any *)
(* numbers of queries, of rows and of faults.                              *)
(***************************************************************************)
EXTENDS EventLoop, FiniteSetTheorems, SequenceTheorems, TLAPS

(* TypeOK without the bounds on what is counted.                           *)
Error == {"Absent", "None", "Empty", "Stopped", "Runtime", "Server"}
Cur == [error : Error, outstanding : Int, threshold : 0 .. MaxRows + 1, items : Nat, got : Nat,
        waiting : Seq(Task), stale : BOOLEAN, getters : Seq(Task)]
Op == {"none", "connect", "start", "plain", "stop", "close", "next"}
TaskState == [pc : Place, op : Op, t : Token]

Typed ==
  /\ driver \in Driver
  /\ conn \in ConnType /\ conn.next_token \in Token
  /\ queries \in [Token -> {"none", "start", "plain"}]
  /\ cached \in SUBSET Token /\ held \in SUBSET Token /\ conts \in SUBSET Token
  /\ cursor \in [Token -> Cur]
  /\ link \in {"up", "eof", "reset"}
  /\ awaiting \in [Token -> Nat]
  /\ sent \in [Token -> 0 .. MaxRows] /\ done \in [Token -> BOOLEAN]
  /\ faults \in 0 .. MaxFaults
  /\ task \in [Task -> TaskState]

-----------------------------------------------------------------------------
(* Types.                                                                  *)
LEMMA Constants ==
  /\ MaxToken \in Nat /\ MaxStream \in Nat /\ MaxRows \in Nat /\ MaxFaults \in Nat
  /\ IsFiniteSet(Task) /\ 0 \in Token /\ Token \subseteq Nat
  /\ Driver \subseteq {"trio", "twisted", "tornado", "gevent"}
BY EventLoopAssumption DEF EventLoopAssumption, Token

LEMMA IdleType == Idle \in TaskState /\ Idle.pc = "idle" /\ Idle.op = "none"
BY Constants DEF Idle, TaskState, Place, Op

LEMMA InitTyped == Init => Typed
BY Constants, IdleType DEF Init, Typed, ConnType, Token, Cur, Error

LEMMA RowsType ==
  ASSUME NEW c \in Cur
  PROVE  /\ Rows(c) \in Nat /\ Rows(c) <= c.items /\ Rows(c) <= Len(c.getters)
         /\ c.items - Rows(c) \in Nat /\ Rows(c) + 1 \in Nat /\ Ready(c) \in BOOLEAN
<1>1. c.items \in Nat /\ Len(c.getters) \in Nat
  BY DEF Cur
<1> QED BY <1>1 DEF Rows, Ready

LEMMA ServedIs ==
  ASSUME NEW c \in Cur
  PROVE  /\ Served(c) \in Cur
         /\ Served(c).error = c.error /\ Served(c).outstanding = c.outstanding
         /\ Served(c).threshold = c.threshold /\ Served(c).got = c.got
         /\ Served(c).stale = c.stale /\ Served(c).items = c.items - Rows(c)
         /\ Served(c).getters = IF c.error # "None" THEN <<>>
                                ELSE SubSeq(c.getters, Rows(c) + 1, Len(c.getters))
<1> DEFINE g == IF c.error # "None" THEN <<>> ELSE SubSeq(c.getters, Rows(c) + 1, Len(c.getters))
           w == IF Ready(c) \/ c.stale THEN <<>> ELSE c.waiting
           i == c.items - Rows(c)
<1>1. i \in Nat
  BY RowsType
<1>2. c.getters \in Seq(Task) /\ c.waiting \in Seq(Task)
  BY DEF Cur
<1>3. g \in Seq(Task)
  <2>1. \A k \in Rows(c) + 1 .. Len(c.getters) : c.getters[k] \in Task
    BY <1>2, RowsType
  <2> QED BY <1>2, <2>1, RowsType, SubSeqProperties
<1>4. w \in Seq(Task)
  BY <1>2
<1>5. Served(c) = [c EXCEPT !.items = i, !.getters = g, !.waiting = w]
  BY DEF Served
<1> HIDE DEF i, g, w
<1>6. Served(c) \in Cur
  BY <1>1, <1>3, <1>4, <1>5 DEF Cur
<1>7. /\ Served(c).items = i /\ Served(c).getters = g
      /\ Served(c).error = c.error /\ Served(c).outstanding = c.outstanding
      /\ Served(c).threshold = c.threshold /\ Served(c).got = c.got /\ Served(c).stale = c.stale
  BY <1>5 DEF Cur
<1> QED BY <1>6, <1>7 DEF i, g

LEMMA CountedIs ==
  ASSUME NEW c \in Cur, NEW wants \in BOOLEAN
  PROVE  /\ Counted(c, wants) \in Cur
         /\ Counted(c, wants).outstanding = IF wants THEN 1 ELSE c.outstanding
         /\ Counted(c, wants).error = c.error /\ Counted(c, wants).items = c.items
         /\ Counted(c, wants).got = c.got /\ Counted(c, wants).getters = c.getters
         /\ Counted(c, wants).stale = c.stale /\ Counted(c, wants).threshold = c.threshold
         /\ Counted(c, wants).waiting = c.waiting
BY DEF Counted, Cur

LEMMA ExtendedIs ==
  ASSUME NEW c \in Cur, NEW r \in Response
  PROVE  /\ ExtendInternal(c, r) \in Cur
         /\ ExtendInternal(c, r).outstanding = c.outstanding
         /\ ExtendInternal(c, r).error = IF c.error = "None" THEN EndOf(r) ELSE c.error
         /\ ExtendInternal(c, r).items = IF c.error = "None" THEN c.items + r.rows ELSE c.items
         /\ ExtendInternal(c, r).got = c.got /\ ExtendInternal(c, r).getters = c.getters
         /\ ExtendInternal(c, r).stale = c.stale
<1> DEFINE h == IF r.type = "ERROR" THEN 1 ELSE r.rows
           i == IF c.error = "None" THEN c.items + r.rows ELSE c.items
           e == IF c.error = "None" THEN EndOf(r) ELSE c.error
<1>1. EndOf(r) \in {"None", "Empty", "Server"} /\ r.rows \in 0 .. MaxRows
  BY DEF EndOf, Response
<1>2. h \in 0 .. MaxRows + 1 /\ i \in Nat /\ e \in Error
  BY <1>1, Constants DEF Cur, Error
<1>3. ExtendInternal(c, r) = [c EXCEPT !.threshold = h, !.items = i, !.error = e]
  BY DEF ExtendInternal, Cur
<1> HIDE DEF h, i, e
<1>4. /\ ExtendInternal(c, r) \in Cur
      /\ ExtendInternal(c, r).items = i /\ ExtendInternal(c, r).error = e
      /\ ExtendInternal(c, r).outstanding = c.outstanding /\ ExtendInternal(c, r).got = c.got
      /\ ExtendInternal(c, r).getters = c.getters /\ ExtendInternal(c, r).stale = c.stale
  BY <1>2, <1>3 DEF Cur
<1> QED BY <1>4 DEF i, e

Failed(c) == [c EXCEPT !.error = "Runtime", !.outstanding = @ - 1]
LEMMA FailedIs ==
  ASSUME NEW c \in Cur
  PROVE  /\ Failed(c) \in Cur /\ Failed(c).error = "Runtime"
         /\ Failed(c).outstanding = c.outstanding - 1
         /\ Failed(c).items = c.items /\ Failed(c).got = c.got
         /\ Failed(c).getters = c.getters /\ Failed(c).stale = c.stale
         /\ Rows(Failed(c)) = Rows(c)
<1>1. "Runtime" \in Error /\ c.outstanding - 1 \in Int
  BY DEF Cur, Error
<1>2. /\ Failed(c) \in Cur /\ Failed(c).error = "Runtime"
      /\ Failed(c).outstanding = c.outstanding - 1
      /\ Failed(c).items = c.items /\ Failed(c).got = c.got
      /\ Failed(c).getters = c.getters /\ Failed(c).stale = c.stale
  BY <1>1 DEF Failed, Cur
<1> QED BY <1>2 DEF Rows

(* What it does to a task when a cursor is extended or told.               *)
Waits(x) == x.pc \in {"wait", "get", "fetch"}
LEMMA ResumedIs ==
  ASSUME NEW x \in TaskState, NEW v, NEW c, Waits(x)
  PROVE  /\ Resumed(x, v, c) \in TaskState
         /\ \/ Resumed(x, v, c) = x /\ x.pc # "wait"
            \/ Resumed(x, v, c) = Idle /\ x.pc # "wait"
            \/ Resumed(x, v, c).pc = "next" /\ x.pc = "wait"
            \/ Resumed(x, v, c).pc = "taken" /\ x.pc = "get"
         /\ Resumed(x, v, c) # Idle => Resumed(x, v, c).op = x.op /\ Resumed(x, v, c).t = x.t
BY IdleType DEF Resumed, TaskState, Place, Waits

(* A task that is woken, or not.                                           *)
Wakes(x, y) ==
  \/ y = x
  \/ y = Idle /\ x.pc \in {"get", "fetch"}
  \/ /\ y.op = x.op /\ y.t = x.t
     /\ (y.pc = "next" /\ x.pc = "wait") \/ (y.pc = "taken" /\ x.pc = "get")

LEMMA WokenIs ==
  ASSUME NEW tk \in [Task -> TaskState], NEW S, NEW cur
  PROVE  /\ Woken(tk, S, cur) \in [Task -> TaskState]
         /\ \A v \in Task : Wakes(tk[v], Woken(tk, S, cur)[v])
         /\ \A v \in Task : Woken(tk, S, cur)[v] =
              IF tk[v].t \in S /\ Waits(tk[v]) THEN Resumed(tk[v], v, cur[tk[v].t]) ELSE tk[v]
<1>1. Woken(tk, S, cur) = [v \in Task |->
        IF tk[v].t \in S /\ Waits(tk[v]) THEN Resumed(tk[v], v, cur[tk[v].t]) ELSE tk[v]]
  BY DEF Woken, Waits
<1>2. ASSUME NEW v \in Task
      PROVE  Woken(tk, S, cur)[v] \in TaskState /\ Wakes(tk[v], Woken(tk, S, cur)[v])
  <2>1. CASE tk[v].t \in S /\ Waits(tk[v])
    <3> DEFINE y == Resumed(tk[v], v, cur[tk[v].t])
    <3>1. Woken(tk, S, cur)[v] = y
      BY <1>1, <2>1
    <3>2. /\ y \in TaskState
          /\ \/ y = tk[v] /\ tk[v].pc # "wait"
             \/ y = Idle /\ tk[v].pc # "wait"
             \/ y.pc = "next" /\ tk[v].pc = "wait"
             \/ y.pc = "taken" /\ tk[v].pc = "get"
          /\ y # Idle => y.op = tk[v].op /\ y.t = tk[v].t
      BY <2>1, ResumedIs
    <3>3. Idle.pc = "idle" /\ tk[v].pc \in {"wait", "get", "fetch"}
      BY <2>1, IdleType DEF Waits
    <3> HIDE DEF y
    <3> QED BY <3>1, <3>2, <3>3 DEF Wakes
  <2>2. CASE ~(tk[v].t \in S /\ Waits(tk[v]))
    BY <1>1, <2>2 DEF Wakes
  <2> QED BY <2>1, <2>2
<1> QED BY <1>1, <1>2

LEMMA TellingsAre ==
  ASSUME NEW cache \in SUBSET Token, NEW cur, NEW w \in Tellings(cache, cur)
  PROVE  /\ w.told \in SUBSET cache /\ w.whole \in BOOLEAN
         /\ \A t \in w.told : cur[t].error = "None"
         /\ w.whole => \A t \in cache : cur[t].error = "None" => t \in w.told
         /\ ~w.whole => \E t \in w.told : cur[t].stale
<1> DEFINE live == {t \in cache : cur[t].error = "None"}
           stale == {t \in live : cur[t].stale}
<1>0. Tellings(cache, cur) = IF stale = {} THEN {[told |-> live, whole |-> TRUE]}
            ELSE {[told |-> S \cup {t}, whole |-> FALSE] : S \in SUBSET (live \ stale), t \in stale}
  BY DEF Tellings
<1>1. CASE stale = {}
  <2>1. w = [told |-> live, whole |-> TRUE]
    BY <1>0, <1>1
  <2> QED BY <2>1
<1>2. CASE stale # {}
  <2>1. PICK S \in SUBSET (live \ stale), t \in stale : w = [told |-> S \cup {t}, whole |-> FALSE]
    <3> HIDE DEF live, stale
    <3> QED BY <1>0, <1>2
  <2> QED BY <2>1
<1> QED BY <1>1, <1>2

LEMMA TellIs ==
  ASSUME Typed, NEW w, w.told \in SUBSET Token, w.whole \in BOOLEAN,
         NEW cur \in [Token -> Cur], NEW cache \in SUBSET Token, NEW tk \in [Task -> TaskState],
         NEW pending, Tell(w, cur, cache, tk, pending)
  PROVE  /\ cursor' \in [Token -> Cur] /\ cached' \in SUBSET Token
         /\ queries' \in [Token -> {"none", "start", "plain"}] /\ task' \in [Task -> TaskState]
         /\ \A t \in Token : cursor'[t] = IF t \in w.told THEN Served(Failed(cur[t])) ELSE cur[t]
         /\ cached' = IF w.whole THEN {}
                      ELSE {t \in cache : t \in w.told => cur[t].outstanding # 1}
         /\ queries' = IF w.whole
                       THEN [t \in Token |-> IF t \in pending THEN "plain" ELSE "none"] ELSE queries
         /\ \A v \in Task : \/ Wakes(tk[v], task'[v])
                            \/ /\ task'[v] = Idle /\ w.whole
                               /\ tk[v].pc \in {"run", "flush"} /\ queries[tk[v].t] # "none"
<1> DEFINE failed == [t \in Token |-> IF t \in w.told THEN Failed(cur[t]) ELSE cur[t]]
           woken == Woken(tk, w.told, failed)
<1>1. /\ cursor' = [t \in Token |-> IF t \in w.told THEN Served(failed[t]) ELSE cur[t]]
      /\ cached' = IF w.whole THEN {} ELSE {t \in cache : t \in w.told => failed[t].outstanding # 0}
      /\ queries' = IF w.whole
                    THEN [t \in Token |-> IF t \in pending THEN "plain" ELSE "none"] ELSE queries
      /\ task' = [v \in Task |->
                   IF w.whole /\ tk[v].pc \in {"run", "flush"} /\ queries[tk[v].t] # "none"
                   THEN Idle ELSE woken[v]]
  BY DEF Tell, Failed
<1>2. failed \in [Token -> Cur] /\ \A t \in w.told : failed[t] = Failed(cur[t])
  BY FailedIs
<1>3. woken \in [Task -> TaskState] /\ \A v \in Task : Wakes(tk[v], woken[v])
  BY WokenIs
<1>4. /\ cursor' \in [Token -> Cur]
      /\ \A t \in Token : cursor'[t] = IF t \in w.told THEN Served(Failed(cur[t])) ELSE cur[t]
  <2>1. \A t \in w.told : Served(failed[t]) \in Cur
    BY <1>2, ServedIs
  <2> HIDE DEF failed
  <2> QED BY <1>1, <1>2, <2>1
<1>5. \A t \in w.told : failed[t].outstanding # 0 <=> cur[t].outstanding # 1
  <2> SUFFICES ASSUME NEW t \in w.told
               PROVE  Failed(cur[t]).outstanding # 0 <=> cur[t].outstanding # 1
    BY <1>2
  <2>1. Failed(cur[t]).outstanding = cur[t].outstanding - 1 /\ cur[t].outstanding \in Int
    BY FailedIs DEF Cur
  <2> QED BY <2>1
<1> HIDE DEF woken, failed
<1>6. cached' = IF w.whole THEN {} ELSE {t \in cache : t \in w.told => cur[t].outstanding # 1}
  BY <1>1, <1>5
<1>7. queries' \in [Token -> {"none", "start", "plain"}]
  BY <1>1 DEF Typed
<1>8. task' \in [Task -> TaskState]
  BY <1>1, <1>3, IdleType
<1> QED BY <1>1, <1>3, <1>4, <1>6, <1>7, <1>8

LEMMA ShutdownIs ==
  ASSUME NEW cn \in ConnType
  PROVE  /\ Shutdown(cn) \in ConnType /\ Shutdown(cn).stream # "open"
         /\ Shutdown(cn).stream = cn.stream \/ (cn.stream = "open" /\ Shutdown(cn).stream \in {"closed", "draining"})
         /\ Shutdown(cn).next_token = cn.next_token /\ Shutdown(cn).attached = cn.attached
         /\ Shutdown(cn).stage = cn.stage /\ Shutdown(cn).closing = cn.closing
         /\ Shutdown(cn).closed = cn.closed /\ Shutdown(cn).timer = cn.timer
         /\ Shutdown(cn).cut = cn.cut /\ Shutdown(cn).reader = cn.reader
BY DEF Shutdown, ConnType

LEMMA WrittenIs ==
  ASSUME NEW cn \in ConnType, NEW ok \in BOOLEAN
  PROVE  /\ Written(cn, ok) \in ConnType
         /\ Written(cn, ok).next_token = cn.next_token /\ Written(cn, ok).attached = cn.attached
         /\ Written(cn, ok).stage = cn.stage /\ Written(cn, ok).closing = cn.closing
         /\ Written(cn, ok).timer = cn.timer /\ Written(cn, ok).cut = cn.cut
         /\ Written(cn, ok).reader = cn.reader
         /\ ok => Written(cn, ok) = cn
         /\ ~ok /\ driver = "trio" => Written(cn, ok).closed /\ Written(cn, ok).stream = cn.stream
         /\ ~ok /\ driver # "trio" => /\ Written(cn, ok).stream = "closed"
                                      /\ Written(cn, ok).closed = cn.closed
<1>1. CASE ok
  BY <1>1 DEF Written
<1>2. CASE ~ok /\ driver = "trio"
  <2>1. Written(cn, ok) = [cn EXCEPT !.closed = TRUE]
    BY <1>2 DEF Written
  <2> QED BY <1>2, <2>1 DEF ConnType
<1>3. CASE ~ok /\ driver # "trio"
  <2>1. Written(cn, ok) = [cn EXCEPT !.stream = "closed"]
    BY <1>3 DEF Written
  <2> QED BY <1>3, <2>1 DEF ConnType
<1> QED BY <1>1, <1>2, <1>3

LEMMA DeliverIs ==
  ASSUME NEW left \in [Token -> Nat], NEW t \in Token, NEW ok \in BOOLEAN
  PROVE  /\ Deliver(left, t, ok) \in [Token -> Nat]
         /\ Deliver(left, t, ok)[t] \in {left[t], left[t] + 1}
         /\ Deliver(left, t, ok)[t] = left[t] + 1 <=> ok /\ conn.stream = "open" /\ link = "up"
         /\ \A d \in Token \ {t} : Deliver(left, t, ok)[d] = left[d]
BY DEF Deliver

LEMMA FetchIs ==
  ASSUME Typed, NEW left \in [Token -> Nat], NEW t \in Token, NEW wants \in BOOLEAN,
         NEW cn, NEW raised \in BOOLEAN, Fetch(left, t, wants, cn, raised)
  PROVE  /\ awaiting' \in [Token -> Nat] /\ conts' \in SUBSET Token
         /\ cn \in ConnType /\ cn.next_token = conn.next_token
         /\ \A d \in Token \ {t} : awaiting'[d] = left[d] /\ (d \in conts' <=> d \in conts)
         /\ awaiting'[t] + (IF t \in conts' THEN 1 ELSE 0)
              <= left[t] + (IF t \in conts THEN 1 ELSE 0) + (IF wants THEN 1 ELSE 0)
         /\ awaiting'[t] # left[t] => wants /\ Usable
         /\ conts' # conts => wants /\ Usable /\ conts' = conts \cup {t}
         /\ cn = conn \/ (wants /\ Usable /\ driver # "trio" /\ cn = [conn EXCEPT !.stream = "closed"])
         /\ raised => /\ wants /\ driver \in {"trio", "gevent"}
                      /\ cn.stream = "closed" \/ (~Usable /\ cn = conn)
         /\ wants /\ Usable /\ conn.stream = "open" /\ link = "up" =>
              /\ ~raised /\ cn = conn
              /\ \/ conts' = conts \cup {t} /\ awaiting' = left
                 \/ conts' = conts /\ awaiting'[t] = left[t] + 1
         /\ ~wants => awaiting' = left /\ conts' = conts
         /\ awaiting'[t] \in {left[t], left[t] + 1}
         /\ conts' # conts => driver = "trio"
<1>0. conn \in ConnType /\ conts \in SUBSET Token
  BY DEF Typed
<1>1. CASE ~wants /\ ~raised /\ cn = conn /\ awaiting' = left /\ conts' = conts
  BY <1>0, <1>1
<1>2. CASE /\ wants /\ ~Usable /\ (raised => driver \in {"trio", "gevent"}) /\ cn = conn
           /\ awaiting' = left /\ conts' = conts
  BY <1>0, <1>2
<1>3. CASE /\ wants /\ Usable /\ driver = "trio" /\ ~raised /\ cn = conn
           /\ conts' = conts \cup {t} /\ awaiting' = left
  BY <1>0, <1>3
<1>4. ASSUME wants, Usable, driver # "trio", conts' = conts, NEW ok \in BOOLEAN, Writes(ok),
             awaiting' = Deliver(left, t, ok), cn = Written(conn, ok), raised = (~ok /\ driver = "gevent")
      PROVE  /\ awaiting' \in [Token -> Nat] /\ cn \in ConnType /\ cn.next_token = conn.next_token
             /\ \A d \in Token \ {t} : awaiting'[d] = left[d]
             /\ awaiting'[t] \in {left[t], left[t] + 1}
             /\ cn = conn \/ cn = [conn EXCEPT !.stream = "closed"]
             /\ raised => driver = "gevent" /\ cn.stream = "closed"
             /\ conn.stream = "open" /\ link = "up" =>
                  ~raised /\ cn = conn /\ awaiting'[t] = left[t] + 1
  <2>1. cn \in ConnType /\ cn.next_token = conn.next_token
    BY <1>0, <1>4, WrittenIs
  <2>2. conn.stream = "open" /\ link = "up" => ok
    BY <1>4 DEF Writes
  <2>3. /\ ok => cn = conn
        /\ ~ok => cn = [conn EXCEPT !.stream = "closed"] /\ cn.stream = "closed"
    BY <1>0, <1>4, WrittenIs DEF Written
  <2>4. /\ awaiting' \in [Token -> Nat] /\ awaiting'[t] \in {left[t], left[t] + 1}
        /\ \A d \in Token \ {t} : awaiting'[d] = left[d]
        /\ ok /\ conn.stream = "open" /\ link = "up" => awaiting'[t] = left[t] + 1
    BY <1>4, DeliverIs
  <2> QED BY <1>4, <2>1, <2>2, <2>3, <2>4
<1> QED
  <2>1. left[t] \in Nat
    OBVIOUS
  <2>2. CASE wants /\ Usable /\ driver # "trio"
    <3>1. PICK ok \in BOOLEAN : /\ Writes(ok) /\ awaiting' = Deliver(left, t, ok)
                                /\ cn = Written(conn, ok) /\ raised = (~ok /\ driver = "gevent")
      BY <2>2 DEF Fetch
    <3>2. conts' = conts
      BY <2>2 DEF Fetch
    <3> HIDE DEF Fetch
    <3> QED BY <1>0, <1>4, <2>1, <2>2, <3>1, <3>2
  <2> QED BY <1>1, <1>2, <1>3, <2>2 DEF Fetch

(* What an exception does to a cursor and to a task.                       *)
Reported(cur, cache, t) ==
  \/ cursor'[t] = cur[t]
  \/ /\ ~conn.closing /\ cur[t].error = "None" /\ t \in cache
     /\ cursor'[t] = Served(Failed(cur[t])) /\ (t \in cached' => cur[t].outstanding # 1)

Freed(tk, v) ==
  \/ Wakes(tk[v], task'[v])
  \/ /\ task'[v] = Idle /\ ~conn.closing
     /\ tk[v].pc \in {"run", "flush"} /\ queries[tk[v].t] # "none"

LEMMA RaisesIs ==
  ASSUME Typed, NEW cur \in [Token -> Cur], NEW cache \in SUBSET Token,
         NEW tk \in [Task -> TaskState], NEW cn \in ConnType, cn.next_token \in Token,
         Raises(cur, cache, tk, cn)
  PROVE  /\ cursor' \in [Token -> Cur] /\ cached' \in SUBSET Token
         /\ queries' \in [Token -> {"none", "start", "plain"}] /\ task' \in [Task -> TaskState]
         /\ conn' \in ConnType /\ conn'.next_token = cn.next_token
         /\ \A t \in Token : Reported(cur, cache, t)
         /\ cached' \in SUBSET cache
         /\ conn.closing => cursor' = cur /\ cached' = cache /\ task' = tk /\ queries' = queries
         /\ conn'.attached = cn.attached /\ conn'.stage = cn.stage /\ conn'.timer = cn.timer
         /\ conn'.cut = cn.cut /\ conn'.closed = cn.closed
         /\ conn'.closing <=> cn.closing \/ ~conn.closing
         /\ conn.closing => conn'.stream = cn.stream
         /\ ~conn.closing => conn'.stream = Shutdown(cn).stream
         /\ conn'.reader \in {"ended", "stuck", cn.reader}
         /\ conn'.reader = cn.reader => (driver = "twisted" /\ conn.closing) \/ cn.reader # "run"
         /\ conn'.reader = "stuck" => ~conn.closing \/ cn.reader = "stuck"
         /\ \A v \in Task : Freed(tk, v)
         /\ queries' # queries => ~conn.closing /\ queries' = [t \in Token |-> "none"]
<1>1. CASE conn.closing
  <2>1. /\ cursor' = cur /\ cached' = cache /\ task' = tk /\ queries' = queries
        /\ conn' = [cn EXCEPT !.reader = IF driver = "twisted" THEN @ ELSE "ended"]
    BY <1>1 DEF Raises
  <2>2. queries \in [Token -> {"none", "start", "plain"}] /\ conn.closing \in BOOLEAN
    BY DEF Typed, ConnType
  <2>3. /\ conn' \in ConnType /\ conn'.next_token = cn.next_token
        /\ conn'.attached = cn.attached /\ conn'.stage = cn.stage /\ conn'.timer = cn.timer
        /\ conn'.cut = cn.cut /\ conn'.closed = cn.closed /\ conn'.closing = cn.closing
        /\ conn'.stream = cn.stream /\ conn'.reader = IF driver = "twisted" THEN cn.reader ELSE "ended"
    BY <2>1 DEF ConnType
  <2>4. \A v \in Task : Freed(tk, v)
    BY <2>1 DEF Wakes, Freed
  <2>7. \A t \in Token : Reported(cur, cache, t)
    BY <2>1 DEF Reported
  <2>5. conn'.closing <=> cn.closing \/ ~conn.closing
    BY <1>1, <2>3
  <2>6. /\ conn'.reader \in {"ended", "stuck", cn.reader}
        /\ conn'.reader = cn.reader => (driver = "twisted" /\ conn.closing) \/ cn.reader # "run"
        /\ conn'.reader = "stuck" => cn.reader = "stuck"
    BY <1>1, <2>3
  <2> QED BY <1>1, <2>1, <2>2, <2>3, <2>4, <2>5, <2>6, <2>7
<1>2. CASE ~conn.closing
  <2>1. PICK w \in Tellings(cache, cur) : Tell(w, cur, cache, tk, {})
    BY <1>2 DEF Raises
  <2>2. conn' = [Shutdown(cn) EXCEPT !.closing = TRUE,
                        !.reader = IF driver = "trio" THEN "stuck" ELSE "ended"]
    BY <1>2 DEF Raises
  <2>3. /\ w.told \in SUBSET cache /\ w.whole \in BOOLEAN
        /\ \A t \in w.told : cur[t].error = "None"
    BY <2>1, TellingsAre
  <2>4. w.told \in SUBSET Token
    BY <2>3
  <2>5. /\ cursor' \in [Token -> Cur] /\ cached' \in SUBSET Token
        /\ queries' \in [Token -> {"none", "start", "plain"}] /\ task' \in [Task -> TaskState]
        /\ \A t \in Token : cursor'[t] = IF t \in w.told THEN Served(Failed(cur[t])) ELSE cur[t]
        /\ cached' = IF w.whole THEN {}
                     ELSE {t \in cache : t \in w.told => cur[t].outstanding # 1}
        /\ queries' = IF w.whole
                      THEN [t \in Token |-> IF t \in {} THEN "plain" ELSE "none"] ELSE queries
        /\ \A v \in Task : \/ Wakes(tk[v], task'[v])
                           \/ /\ task'[v] = Idle /\ w.whole
                              /\ tk[v].pc \in {"run", "flush"} /\ queries[tk[v].t] # "none"
    BY <2>1, <2>3, <2>4, TellIs
  <2>6. queries' # queries => queries' = [t \in Token |-> "none"]
    BY <2>5
  <2>7. /\ conn' \in ConnType /\ conn'.next_token = cn.next_token
        /\ conn'.attached = cn.attached /\ conn'.stage = cn.stage /\ conn'.timer = cn.timer
        /\ conn'.cut = cn.cut /\ conn'.closed = cn.closed /\ conn'.closing = TRUE
        /\ conn'.stream = Shutdown(cn).stream /\ conn'.reader \in {"stuck", "ended"}
    <3> DEFINE sd == Shutdown(cn)
    <3>1. conn' = [sd EXCEPT !.closing = TRUE, !.reader = IF driver = "trio" THEN "stuck" ELSE "ended"]
      BY <2>2
    <3>2. /\ sd \in ConnType /\ sd.next_token = cn.next_token
          /\ sd.attached = cn.attached /\ sd.stage = cn.stage /\ sd.timer = cn.timer
          /\ sd.cut = cn.cut /\ sd.closed = cn.closed
      BY ShutdownIs
    <3> HIDE DEF sd
    <3>3. /\ conn' \in ConnType /\ conn'.next_token = sd.next_token
          /\ conn'.attached = sd.attached /\ conn'.stage = sd.stage /\ conn'.timer = sd.timer
          /\ conn'.cut = sd.cut /\ conn'.closed = sd.closed /\ conn'.closing = TRUE
          /\ conn'.stream = sd.stream /\ conn'.reader \in {"stuck", "ended"}
      BY <3>1, <3>2 DEF ConnType
    <3> QED BY <3>2, <3>3 DEF sd
  <2>8. cached' \in SUBSET cache
    BY <2>5
  <2>9. \A t \in Token : Reported(cur, cache, t)
    BY <1>2, <2>3, <2>5 DEF Reported
  <2>11. \A v \in Task : Freed(tk, v)
    BY <1>2, <2>5 DEF Freed
  <2>10. conn'.reader = cn.reader => cn.reader # "run"
    BY <2>7
  <2> QED BY <1>2, <2>5, <2>6, <2>7, <2>8, <2>9, <2>10, <2>11
<1> QED BY <1>1, <1>2

(* What an exception leaves of the connection.                             *)
Broken(cn) ==
  /\ conn'.next_token = cn.next_token /\ conn'.attached = cn.attached /\ conn'.stage = cn.stage
  /\ conn'.timer = cn.timer /\ conn'.cut = cn.cut /\ conn'.closed = cn.closed
  /\ conn'.closing <=> cn.closing \/ ~conn.closing
  /\ conn.closing => conn'.stream = cn.stream
  /\ ~conn.closing => conn'.stream = Shutdown(cn).stream
  /\ conn'.reader \in {"ended", "stuck", cn.reader}
  /\ conn'.reader = cn.reader => (driver = "twisted" /\ conn.closing) \/ cn.reader # "run"

LEMMA RaisesBroken ==
  ASSUME Typed, NEW cur \in [Token -> Cur], NEW cache \in SUBSET Token,
         NEW tk \in [Task -> TaskState], NEW cn \in ConnType, Raises(cur, cache, tk, cn)
  PROVE  Broken(cn)
<1>1. CASE conn.closing
  <2>1. conn' = [cn EXCEPT !.reader = IF driver = "twisted" THEN @ ELSE "ended"]
    BY <1>1 DEF Raises
  <2>2. /\ conn'.next_token = cn.next_token /\ conn'.attached = cn.attached
        /\ conn'.stage = cn.stage /\ conn'.timer = cn.timer /\ conn'.cut = cn.cut
        /\ conn'.closed = cn.closed /\ conn'.closing = cn.closing /\ conn'.stream = cn.stream
        /\ conn'.reader = IF driver = "twisted" THEN cn.reader ELSE "ended"
    BY <2>1 DEF ConnType
  <2> QED BY <1>1, <2>2 DEF Broken
<1>2. CASE ~conn.closing
  <2> DEFINE sd == Shutdown(cn)
  <2>1. conn' = [sd EXCEPT !.closing = TRUE, !.reader = IF driver = "trio" THEN "stuck" ELSE "ended"]
    BY <1>2 DEF Raises
  <2>2. /\ sd \in ConnType /\ sd.next_token = cn.next_token /\ sd.attached = cn.attached
        /\ sd.stage = cn.stage /\ sd.timer = cn.timer /\ sd.cut = cn.cut /\ sd.closed = cn.closed
    BY ShutdownIs
  <2> HIDE DEF sd
  <2>3. /\ conn'.next_token = sd.next_token /\ conn'.attached = sd.attached
        /\ conn'.stage = sd.stage /\ conn'.timer = sd.timer /\ conn'.cut = sd.cut
        /\ conn'.closed = sd.closed /\ conn'.closing = TRUE /\ conn'.stream = sd.stream
        /\ conn'.reader \in {"stuck", "ended"}
    BY <2>1, <2>2 DEF ConnType
  <2> QED BY <1>2, <2>2, <2>3 DEF Broken, sd
<1> QED BY <1>1, <1>2

-----------------------------------------------------------------------------
(* Every step keeps the types.                                             *)
LEMMA TaskIs ==
  ASSUME Typed, NEW u \in Task, NEW pc \in Place, NEW op \in Op, NEW t \in Token
  PROVE  /\ At(u, pc, op, t) => /\ task' \in [Task -> TaskState]
                                /\ task'[u].pc = pc /\ task'[u].op = op /\ task'[u].t = t
                                /\ \A v \in Task \ {u} : task'[v] = task[v]
         /\ Goto(u, pc) => /\ task' \in [Task -> TaskState]
                           /\ task'[u].pc = pc /\ task'[u].op = task[u].op /\ task'[u].t = task[u].t
                           /\ \A v \in Task \ {u} : task'[v] = task[v]
         /\ Return(u) => /\ task' \in [Task -> TaskState] /\ task'[u] = Idle
                         /\ \A v \in Task \ {u} : task'[v] = task[v]
<1>1. task \in [Task -> TaskState]
  BY DEF Typed
<1>2. At(u, pc, op, t) => /\ task' \in [Task -> TaskState]
                          /\ task'[u].pc = pc /\ task'[u].op = op /\ task'[u].t = t
                          /\ \A v \in Task \ {u} : task'[v] = task[v]
  BY <1>1 DEF At, TaskState
<1>3. Goto(u, pc) => /\ task' \in [Task -> TaskState]
                     /\ task'[u].pc = pc /\ task'[u].op = task[u].op /\ task'[u].t = task[u].t
                     /\ \A v \in Task \ {u} : task'[v] = task[v]
  BY <1>1 DEF Goto, TaskState
<1>4. Return(u) => /\ task' \in [Task -> TaskState] /\ task'[u] = Idle
                   /\ \A v \in Task \ {u} : task'[v] = task[v]
  BY <1>1, IdleType DEF Return
<1> QED BY <1>2, <1>3, <1>4

LEMMA FaultIs == Typed /\ Fault => faults' \in 0 .. MaxFaults
BY Constants DEF Typed, Fault

LEMMA TypeConnect ==
  ASSUME Typed, NEW u \in Task,
         \/ ConnectCall(u) \/ HandshakeDone(u) \/ HandshakeFails(u)
         \/ \E ok \in BOOLEAN : OpenStream(u, ok)
  PROVE  Typed'
<1>0. conn \in ConnType /\ task \in [Task -> TaskState] /\ {"connect", "handshake"} \subseteq Place
      /\ "connect" \in Op /\ 0 \in Token
  BY Constants DEF Typed, Place, Op
<1>1. CASE ConnectCall(u)
  <2>1. conn' \in ConnType /\ conn'.next_token = conn.next_token
    BY <1>0, <1>1 DEF ConnectCall, ConnType
  <2>2. task' \in [Task -> TaskState]
    BY <1>0, <1>1, TaskIs DEF ConnectCall
  <2> QED BY <1>1, <2>1, <2>2 DEF ConnectCall, Typed, srvVars
<1>2. CASE HandshakeDone(u)
  <2>1. conn' \in ConnType /\ conn'.next_token = conn.next_token
    BY <1>0, <1>2 DEF HandshakeDone, ConnType
  <2>2. task' \in [Task -> TaskState]
    BY <1>0, <1>2, TaskIs DEF HandshakeDone
  <2> QED BY <1>2, <2>1, <2>2 DEF HandshakeDone, Typed, srvVars
<1>3. CASE HandshakeFails(u)
  <2>1. conn' \in ConnType /\ conn'.next_token = conn.next_token
    <3> DEFINE sd == Shutdown(conn)
    <3>1. sd \in ConnType /\ sd.next_token = conn.next_token
      BY <1>0, ShutdownIs
    <3>2. \/ conn' = [conn EXCEPT !.stage = "failed"]
          \/ conn' = [sd EXCEPT !.stage = "failed", !.closing = TRUE]
          \/ conn' = [sd EXCEPT !.stage = "failed", !.closing = FALSE]
      <4>1. CASE driver = "twisted"
        BY <1>3, <4>1 DEF HandshakeFails
      <4>2. CASE driver # "twisted"
        <5>1. conn' = [sd EXCEPT !.stage = "failed", !.closing = (driver = "trio")]
          BY <1>3, <4>2 DEF HandshakeFails
        <5>2. CASE driver = "trio"
          BY <5>1, <5>2
        <5>3. CASE driver # "trio"
          BY <5>1, <5>3
        <5> QED BY <5>2, <5>3
      <4> QED BY <4>1, <4>2
    <3> HIDE DEF sd
    <3> QED BY <1>0, <3>1, <3>2 DEF ConnType
  <2>2. task' \in [Task -> TaskState]
    BY <1>0, <1>3, TaskIs DEF HandshakeFails
  <2> QED BY <1>3, <2>1, <2>2 DEF HandshakeFails, Typed, srvVars
<1>4. ASSUME NEW ok \in BOOLEAN, OpenStream(u, ok) PROVE Typed'
  <2>1. conn' \in ConnType /\ conn'.next_token = conn.next_token
    <3>1. CASE ok
      <4>1. \/ conn' = [conn EXCEPT !.stage = "handshake", !.stream = "open", !.timer = TRUE]
            \/ conn' = [conn EXCEPT !.stage = "handshake", !.stream = "open", !.timer = FALSE]
        <5>1. CASE driver = "twisted"
          BY <1>4, <3>1, <5>1 DEF OpenStream
        <5>2. CASE driver # "twisted"
          BY <1>4, <3>1, <5>2 DEF OpenStream
        <5> QED BY <5>1, <5>2
      <4> QED BY <1>0, <4>1 DEF ConnType
    <3>2. CASE ~ok
      BY <1>0, <1>4, <3>2 DEF OpenStream, ConnType
    <3> QED BY <3>1, <3>2
  <2>2. task' \in [Task -> TaskState]
    BY <1>0, <1>4, TaskIs DEF OpenStream
  <2> QED BY <1>4, <2>1, <2>2 DEF OpenStream, Typed, srvVars
<1> QED BY <1>1, <1>2, <1>3, <1>4

LEMMA CursorSet ==
  ASSUME Typed, NEW t \in Token, NEW c \in Cur, cursor' = [cursor EXCEPT ![t] = c]
  PROVE  /\ cursor' \in [Token -> Cur] /\ cursor'[t] = c
         /\ \A d \in Token \ {t} : cursor'[d] = cursor[d]
BY DEF Typed

LEMMA TypeQuery ==
  ASSUME Typed, NEW u \in Task,
         \/ \E op \in {"start", "plain"} : Run(u, op)
         \/ Send(u) \/ Register(u) \/ Cancel(u) \/ CloseStream(u) \/ Shut(u)
  PROVE  Typed'
<1>0. /\ conn \in ConnType /\ conn.next_token \in Token /\ task \in [Task -> TaskState]
      /\ {"send", "run", "sent", "flush", "shut"} \subseteq Place
      /\ {"start", "plain", "stop"} \subseteq Op /\ awaiting \in [Token -> Nat] /\ task[u].t \in Token
      /\ queries \in [Token -> {"none", "start", "plain"}] /\ 0 \in Token
  BY Constants DEF Typed, Place, Op, TaskState
<1>1. ASSUME NEW op \in {"start", "plain"}, Run(u, op) PROVE Typed'
  <2> DEFINE cn == [conn EXCEPT !.next_token = @ + 1]
             t == conn.next_token
  <2>1. t + 1 \in Token /\ t + 1 \in 0 .. MaxToken + 1
    BY <1>0, <1>1, Constants DEF Run, Token
  <2>2. cn \in ConnType /\ cn.next_token \in Token
    BY <1>0, <2>1 DEF ConnType
  <2> HIDE DEF cn
  <2>3. CASE driver = "trio"
    <3>1. /\ At(u, "send", op, t) /\ conn' = cn
          /\ UNCHANGED <<driver, queries, awaiting, cached, cursor, held, conts, link, sent, done, faults>>
      BY <1>1, <2>3 DEF Run, srvVars, cn
    <3>2. task' \in [Task -> TaskState]
      BY <1>0, <3>1, TaskIs
    <3> QED BY <2>2, <3>1, <3>2 DEF Typed
  <2>4. CASE driver # "trio"
    <3>1. PICK ok \in BOOLEAN :
            /\ conn' = Written(cn, ok)
            /\ awaiting' = Deliver(awaiting, t, ok)
            /\ IF ok THEN /\ queries' = [queries EXCEPT ![t] = op]
                          /\ At(u, "run", op, t)
                     ELSE UNCHANGED <<queries, task>>
      BY <1>1, <2>4 DEF Run, cn
    <3>2. UNCHANGED <<driver, cached, cursor, held, conts, link, sent, done, faults>>
      BY <1>1 DEF Run, srvVars
    <3>3. conn' \in ConnType /\ conn'.next_token \in Token
      BY <2>2, <3>1, WrittenIs
    <3>4. awaiting' \in [Token -> Nat]
      BY <1>0, <3>1, DeliverIs
    <3>5. task' \in [Task -> TaskState] /\ queries' \in [Token -> {"none", "start", "plain"}]
      BY <1>0, <3>1, TaskIs
    <3> QED BY <3>2, <3>3, <3>4, <3>5 DEF Typed
  <2> QED BY <2>3, <2>4
<1>2. ASSUME NEW t \in Token, UNCHANGED <<driver, queries, cached, cursor, held, link, sent, done, faults>>,
             NEW ok \in BOOLEAN, conn' = Written(conn, ok), awaiting' = Deliver(awaiting, t, ok),
             conts' \in SUBSET Token, task' \in [Task -> TaskState]
      PROVE  Typed'
  <2>1. conn' \in ConnType /\ conn'.next_token \in Token
    BY <1>0, <1>2, WrittenIs
  <2>2. awaiting' \in [Token -> Nat]
    BY <1>0, <1>2, DeliverIs
  <2> QED BY <1>2, <2>1, <2>2 DEF Typed
<1>3. CASE Send(u)
  <2>1. task' \in [Task -> TaskState]
    BY <1>0, <1>3, TaskIs DEF Send
  <2>2. conts' \in SUBSET Token
    BY <1>3 DEF Send, Typed
  <2> QED BY <1>0, <1>2, <1>3, <2>1, <2>2 DEF Send, srvVars
<1>4. CASE Register(u)
  <2>1. task' \in [Task -> TaskState]
    BY <1>0, <1>4, TaskIs DEF Register
  <2>2. queries' \in [Token -> {"none", "start", "plain"}]
    BY <1>0, <1>4 DEF Register
  <2> QED BY <1>4, <2>1, <2>2 DEF Register, Typed, srvVars
<1>5. CASE Cancel(u)
  <2>1. task' \in [Task -> TaskState]
    BY <1>0, <1>5, TaskIs DEF Cancel
  <2>2. conn' \in ConnType /\ conn'.next_token = conn.next_token
    <3> DEFINE shaken == task[u].pc = "handshake"
               closes == task[u].op = "close" /\ task[u].pc # "shut"
               sd == Shutdown(conn)
    <3>1. sd \in ConnType /\ sd.next_token = conn.next_token
      BY <1>0, ShutdownIs
    <3>2. conn' = IF shaken /\ driver = "gevent" THEN [sd EXCEPT !.stage = "failed"]
                  ELSE IF closes /\ driver = "twisted" THEN sd
                  ELSE [conn EXCEPT !.stage = IF shaken THEN "failed" ELSE @,
                                    !.cut = @ \/ shaken \/ closes]
      BY <1>5 DEF Cancel
    <3> DEFINE ct == conn.cut \/ shaken \/ closes
               st == IF shaken THEN "failed" ELSE conn.stage
    <3>3. ct \in BOOLEAN /\ st \in {"new", "connecting", "handshake", "ready", "failed"}
      BY <1>0 DEF ConnType
    <3>4. \/ conn' = [sd EXCEPT !.stage = "failed"] \/ conn' = sd
          \/ conn' = [conn EXCEPT !.stage = st, !.cut = ct]
      BY <3>2
    <3> HIDE DEF ct, st, sd
    <3> QED BY <1>0, <3>1, <3>3, <3>4 DEF ConnType
  <2>3. faults' \in 0 .. MaxFaults
    BY <1>5, FaultIs DEF Cancel
  <2> QED BY <1>5, <2>1, <2>2, <2>3 DEF Cancel, Typed, srvVars
<1>6. CASE CloseStream(u)
  <2>1. task' \in [Task -> TaskState]
    BY <1>0, <1>6, TaskIs DEF CloseStream
  <2>2. conn' \in ConnType /\ conn'.next_token = conn.next_token
    BY <1>0, <1>6, ShutdownIs DEF CloseStream
  <2> QED BY <1>6, <2>1, <2>2 DEF CloseStream, Typed, srvVars
<1>7. CASE Shut(u)
  <2>1. task' \in [Task -> TaskState]
    BY <1>0, <1>7, TaskIs DEF Shut
  <2> QED BY <1>7, <2>1 DEF Shut, Typed, srvVars
<1> QED BY <1>1, <1>3, <1>4, <1>5, <1>6, <1>7

LEMMA TypeOthers ==
  ASSUME Typed, TimerFires \/ HandshakeLate \/ \E t \in Token : ContinueRuns(t)
  PROVE  Typed'
<1>0. conn \in ConnType /\ task \in [Task -> TaskState]
      /\ conn.next_token \in Token /\ awaiting \in [Token -> Nat]
  BY DEF Typed
<1>1. CASE TimerFires
  <2>1. conn' \in ConnType /\ conn'.next_token = conn.next_token
    <3> DEFINE sd == Shutdown(conn)
    <3>1. sd \in ConnType /\ sd.next_token = conn.next_token
      BY <1>0, ShutdownIs
    <3>2. conn' = [sd EXCEPT !.timer = FALSE, !.stage = "failed"]
      BY <1>1 DEF TimerFires
    <3> HIDE DEF sd
    <3> QED BY <3>1, <3>2 DEF ConnType
  <2>2. task' \in [Task -> TaskState]
    BY <1>0, <1>1, IdleType DEF TimerFires
  <2> QED BY <1>1, <2>1, <2>2 DEF TimerFires, Typed, srvVars
<1>2. CASE HandshakeLate
  <2>1. conn' \in ConnType /\ conn'.next_token = conn.next_token
    BY <1>0, <1>2 DEF HandshakeLate, ConnType
  <2> QED BY <1>2, <2>1 DEF HandshakeLate, Typed, srvVars
<1>3. ASSUME NEW t \in Token, ContinueRuns(t) PROVE Typed'
  <2>1. PICK ok \in BOOLEAN : conn' = Written(conn, ok) /\ awaiting' = Deliver(awaiting, t, ok)
    BY <1>3 DEF ContinueRuns
  <2>2. conn' \in ConnType /\ conn'.next_token \in Token
    BY <1>0, <2>1, WrittenIs
  <2>3. awaiting' \in [Token -> Nat] /\ conts' \in SUBSET Token
    BY <1>0, <1>3, <2>1, DeliverIs DEF ContinueRuns, Typed
  <2> QED BY <1>3, <2>2, <2>3 DEF ContinueRuns, Typed, srvVars
<1> QED BY <1>1, <1>2, <1>3

LEMMA RemoveType ==
  ASSUME NEW w \in Seq(Task), NEW i \in 1 .. Len(w)
  PROVE  RemoveAt(w, i) \in Seq(Task) /\ SubSeq(w, 1, i - 1) \in Seq(Task)
<1>1. /\ SubSeq(w, 1, i - 1) \in Seq(Task) /\ SubSeq(w, i + 1, Len(w)) \in Seq(Task)
  BY SubSeqProperties
<1> QED BY <1>1, ConcatProperties DEF RemoveAt

LEMMA PositionIs ==
  ASSUME NEW w \in Seq(Task), NEW u \in ToSet(w)
  PROVE  Position(w, u) \in 1 .. Len(w) /\ w[Position(w, u)] = u
BY DEF Position, ToSet

LEMMA TypeCursor ==
  ASSUME Typed, NEW u \in Task,
         \/ \E t \in Token : NextCall(u, t) \/ CursorClose(u, t)
                             \/ \E pc \in {"get", "fetch"} : TwistedNext(u, t, pc)
         \/ NextItem(u) \/ NextError(u) \/ NextWait(u) \/ TakeRow(u) \/ NextTimeout(u)
  PROVE  Typed'
<1>0. /\ conn \in ConnType /\ conn.next_token \in Token /\ task \in [Task -> TaskState]
      /\ {"next", "wait", "get", "fetch", "send"} \subseteq Place /\ {"next", "stop"} \subseteq Op
      /\ awaiting \in [Token -> Nat] /\ task[u].t \in Token /\ cursor \in [Token -> Cur]
  BY DEF Typed, Place, Op, TaskState
<1>1. ASSUME NEW t \in Token, NextCall(u, t) PROVE Typed'
  <2> DEFINE wants == driver = "gevent" /\ WantsBatch(cursor[t])
  <2>1. wants \in BOOLEAN
    BY DEF WantsBatch
  <2>2. PICK cn \in Outcomes, raised \in BOOLEAN :
          /\ Fetch(awaiting, t, wants, cn, raised)
          /\ conn' = cn
          /\ IF raised THEN UNCHANGED task ELSE At(u, "next", "next", t)
    BY <1>1 DEF NextCall
  <2>3. cursor' = [cursor EXCEPT ![t] = Counted(cursor[t], wants)]
    BY <1>1 DEF NextCall
  <2> HIDE DEF wants
  <2>4. awaiting' \in [Token -> Nat] /\ conts' \in SUBSET Token
        /\ conn' \in ConnType /\ conn'.next_token = conn.next_token
    BY <1>0, <2>1, <2>2, FetchIs
  <2>5. task' \in [Task -> TaskState]
    BY <1>0, <2>2, TaskIs
  <2>6. cursor' \in [Token -> Cur]
    BY <1>0, <2>1, <2>3, CountedIs
  <2> QED BY <1>1, <2>4, <2>5, <2>6 DEF NextCall, Typed, srvVars
<1>2. ASSUME NEW t \in Token, CursorClose(u, t) PROVE Typed'
  <2>1. cursor' \in [Token -> Cur]
    <3> DEFINE o == IF IsOpen THEN cursor[t].outstanding + 1 ELSE cursor[t].outstanding
               c == cursor[t]
    <3>1. cursor' = [cursor EXCEPT ![t].error = "Stopped", ![t].outstanding = o]
      BY <1>2 DEF CursorClose
    <3>0. c \in Cur /\ c.outstanding \in Int
      BY <1>0 DEF Cur
    <3>2. o \in Int /\ c \in Cur /\ "Stopped" \in Error
      <4>1. o \in {c.outstanding, c.outstanding + 1}
        OBVIOUS
      <4> HIDE DEF o, c
      <4> QED BY <3>0, <4>1 DEF Error
    <3> HIDE DEF o
    <3>3. cursor' = [cursor EXCEPT ![t] = [c EXCEPT !.error = "Stopped", !.outstanding = o]]
      BY <1>0, <3>1
    <3> HIDE DEF c
    <3>4. [c EXCEPT !.error = "Stopped", !.outstanding = o] \in Cur
      BY <3>2 DEF Cur
    <3> QED BY <1>0, <3>3, <3>4
  <2>2. /\ \/ task' = task \/ At(u, "send", "stop", t)
        /\ \/ conn' = conn /\ awaiting' = awaiting
           \/ \E ok \in BOOLEAN : conn' = Written(conn, ok) /\ awaiting' = Deliver(awaiting, t, ok)
    BY <1>2 DEF CursorClose
  <2>3. task' \in [Task -> TaskState]
    BY <1>0, <2>2, TaskIs
  <2>4. conn' \in ConnType /\ conn'.next_token \in Token /\ awaiting' \in [Token -> Nat]
    BY <1>0, <2>2, WrittenIs, DeliverIs
  <2> QED BY <1>2, <2>1, <2>3, <2>4 DEF CursorClose, Typed, srvVars
<1>3. ASSUME NEW t \in Token, NEW pc \in {"get", "fetch"}, TwistedNext(u, t, pc) PROVE Typed'
  <2> DEFINE c == cursor[t]
             after == IF pc = "fetch" THEN [c EXCEPT !.waiting = IF c.stale THEN @ ELSE Append(@, u)]
                      ELSE IF c.items > 0 THEN [c EXCEPT !.items = @ - 1, !.got = @ + 1]
                      ELSE [c EXCEPT !.getters = Append(@, u)]
             wants == WantsBatch(after)
  <2>1. /\ Fetch(awaiting, t, wants, conn, FALSE)
        /\ cursor' = [cursor EXCEPT ![t] = Counted(after, wants)]
        /\ c.items > 0 => task' = task
        /\ ~(c.items > 0) => At(u, pc, "next", t)
        /\ UNCHANGED <<driver, conn, queries, cached, held, link, sent, done, faults>>
    BY <1>3 DEF TwistedNext, srvVars
  <2>2. c \in Cur
    BY <1>0
  <2>3. after \in Cur
    <3> HIDE DEF c
    <3>1. Append(c.waiting, u) \in Seq(Task) /\ Append(c.getters, u) \in Seq(Task)
      BY <2>2 DEF Cur
    <3>2. c.items > 0 => c.items - 1 \in Nat /\ c.got + 1 \in Nat
      BY <2>2 DEF Cur
    <3>3. CASE pc = "fetch"
      <4>1. \/ after = [c EXCEPT !.waiting = c.waiting] \/ after = [c EXCEPT !.waiting = Append(c.waiting, u)]
        BY <3>3
      <4> QED BY <2>2, <3>1, <4>1 DEF Cur
    <3>4. CASE pc # "fetch" /\ c.items > 0
      BY <2>2, <3>2, <3>4 DEF Cur
    <3>5. CASE pc # "fetch" /\ ~(c.items > 0)
      BY <2>2, <3>1, <3>5 DEF Cur
    <3> QED BY <3>3, <3>4, <3>5
  <2>4. wants \in BOOLEAN
    BY DEF WantsBatch
  <2> HIDE DEF c, after, wants
  <2>5. cursor' \in [Token -> Cur]
    BY <1>0, <2>1, <2>3, <2>4, CountedIs
  <2>6. awaiting' \in [Token -> Nat] /\ conts' \in SUBSET Token
    BY <1>0, <2>1, <2>4, FetchIs
  <2>7. task' \in [Task -> TaskState]
    BY <1>0, <2>1, TaskIs
  <2> QED BY <2>1, <2>5, <2>6, <2>7 DEF Typed
<1>4. CASE NextItem(u)
  <2>1. task' \in [Task -> TaskState]
    BY <1>0, <1>4, TaskIs DEF NextItem
  <2>2. cursor' \in [Token -> Cur]
    <3> DEFINE t == task[u].t
    <3>1. cursor[t].items \in Nat /\ cursor[t].got \in Nat /\ cursor[t] \in Cur /\ t \in Token
      BY <1>0 DEF Cur
    <3>2. /\ cursor[t].items > 0
          /\ \/ cursor' = cursor
             \/ cursor' = [cursor EXCEPT ![t] = [cursor[t] EXCEPT !.items = cursor[t].items - 1,
                                                                  !.got = cursor[t].got + 1]]
      BY <1>0, <1>4 DEF NextItem
    <3> HIDE DEF t
    <3>3. cursor[t].items - 1 \in Nat /\ cursor[t].got + 1 \in Nat
      BY <3>1, <3>2
    <3>4. [cursor[t] EXCEPT !.items = cursor[t].items - 1, !.got = cursor[t].got + 1] \in Cur
      BY <3>1, <3>3 DEF Cur
    <3> QED BY <1>0, <3>1, <3>2, <3>4
  <2> QED BY <1>4, <2>1, <2>2 DEF NextItem, Typed, srvVars
<1>5. CASE NextError(u)
  <2>1. task' \in [Task -> TaskState]
    BY <1>0, <1>5, TaskIs DEF NextError
  <2> QED BY <1>5, <2>1 DEF NextError, Typed, srvVars
<1>6. CASE NextWait(u)
  <2> DEFINE t == task[u].t
             wants == driver # "gevent" /\ WantsBatch(cursor[t])
  <2>1. wants \in BOOLEAN
    BY DEF WantsBatch
  <2>2. PICK cn \in Outcomes, raised \in BOOLEAN :
          /\ Fetch(awaiting, t, wants, cn, raised)
          /\ conn' = cn
          /\ IF raised THEN Return(u) ELSE Goto(u, "wait")
    BY <1>6 DEF NextWait
  <2>3. cursor' = [cursor EXCEPT ![t] = Counted(cursor[t], wants)]
    BY <1>6 DEF NextWait
  <2> HIDE DEF wants
  <2>4. awaiting' \in [Token -> Nat] /\ conts' \in SUBSET Token
        /\ conn' \in ConnType /\ conn'.next_token = conn.next_token
    BY <1>0, <2>1, <2>2, FetchIs
  <2>5. task' \in [Task -> TaskState]
    BY <1>0, <2>2, TaskIs
  <2>6. cursor' \in [Token -> Cur]
    BY <1>0, <2>1, <2>3, CountedIs
  <2> QED BY <1>6, <2>4, <2>5, <2>6 DEF NextWait, Typed, srvVars
<1>7. CASE TakeRow(u)
  <2>1. task' \in [Task -> TaskState]
    BY <1>0, <1>7, TaskIs DEF TakeRow
  <2>2. cursor' \in [Token -> Cur]
    <3> DEFINE t == task[u].t
    <3>0. cursor[t] \in Cur /\ t \in Token
      BY <1>0
    <3>1. cursor[t].got + 1 \in Nat /\ cursor[t] \in Cur /\ t \in Token
      <4> HIDE DEF t
      <4> QED BY <3>0 DEF Cur
    <3>2. cursor' = [cursor EXCEPT ![t] = [cursor[t] EXCEPT !.got = cursor[t].got + 1]]
      BY <1>0, <1>7 DEF TakeRow
    <3> HIDE DEF t
    <3>4. [cursor[t] EXCEPT !.got = cursor[t].got + 1] \in Cur
      BY <3>1 DEF Cur
    <3> QED BY <1>0, <3>1, <3>2, <3>4
  <2> QED BY <1>7, <2>1, <2>2 DEF TakeRow, Typed, srvVars
<1>8. CASE NextTimeout(u)
  <2>1. task' \in [Task -> TaskState]
    BY <1>0, <1>8, TaskIs DEF NextTimeout
  <2>2. cursor' \in [Token -> Cur]
    <3> DEFINE t == task[u].t
               c == cursor[t]
    <3>1. cursor' = [cursor EXCEPT ![t] =
          IF u \in ToSet(c.getters)
          THEN [c EXCEPT !.getters = RemoveAt(c.getters, Position(c.getters, u))]
          ELSE IF u \in ToSet(c.waiting)
          THEN [c EXCEPT !.waiting = SubSeq(c.waiting, 1, Position(c.waiting, u) - 1), !.stale = TRUE]
          ELSE c]
      BY <1>8 DEF NextTimeout
    <3>2. c \in Cur /\ t \in Token
      BY <1>0
    <3> HIDE DEF t, c
    <3>3. c.getters \in Seq(Task) /\ c.waiting \in Seq(Task)
      BY <3>2 DEF Cur
    <3>4. CASE u \in ToSet(c.getters)
      <4>1. RemoveAt(c.getters, Position(c.getters, u)) \in Seq(Task)
        BY <3>3, <3>4, PositionIs, RemoveType
      <4> QED BY <1>0, <3>1, <3>2, <3>4, <4>1 DEF Cur
    <3>5. CASE u \notin ToSet(c.getters) /\ u \in ToSet(c.waiting)
      <4>1. SubSeq(c.waiting, 1, Position(c.waiting, u) - 1) \in Seq(Task)
        BY <3>3, <3>5, PositionIs, RemoveType
      <4> QED BY <1>0, <3>1, <3>2, <3>5, <4>1 DEF Cur
    <3>6. CASE u \notin ToSet(c.getters) /\ u \notin ToSet(c.waiting)
      BY <1>0, <3>1, <3>2, <3>6
    <3> QED BY <3>4, <3>5, <3>6
  <2> QED BY <1>8, <2>1, <2>2 DEF NextTimeout, Typed, srvVars
<1> QED BY <1>1, <1>2, <1>3, <1>4, <1>5, <1>6, <1>7, <1>8

-----------------------------------------------------------------------------
(* The parts of ReadBatch and of ReadStream.                               *)
Fewer(t) == [cursor[t] EXCEPT !.outstanding = @ - 1]
Asked(t) == Counted(Fewer(t), WantsBatch(Fewer(t)))
Longer(t, r) == ExtendInternal(Asked(t), r)
Again(t, r) ==
  /\ Longer(t, r).waiting # <<>> /\ ~Ready(Longer(t, r))
  /\ WantsBatch(Served(Longer(t, r)))
Wanted(t, r) == WantsBatch(Fewer(t)) \/ Again(t, r)
After(t, r) == Counted(Served(Longer(t, r)), Again(t, r))
Kept(t, r) ==
  IF Longer(t, r).outstanding = 0 /\ Longer(t, r).error # "None" THEN cached \ {t} ELSE cached
Roused(t, r) == Woken(task, {t}, [cursor EXCEPT ![t] = Longer(t, r)])

LEMMA BatchParts ==
  ASSUME Typed, NEW t \in Token, NEW r \in Response
  PROVE  /\ cursor[t] \in Cur /\ Asked(t) \in Cur /\ Longer(t, r) \in Cur /\ After(t, r) \in Cur
         /\ [cursor EXCEPT ![t] = Asked(t)] \in [Token -> Cur]
         /\ [cursor EXCEPT ![t] = After(t, r)] \in [Token -> Cur]
         /\ Kept(t, r) \in SUBSET Token /\ Wanted(t, r) \in BOOLEAN
         /\ Roused(t, r) \in [Task -> TaskState]
         /\ Asked(t).error = cursor[t].error /\ Asked(t).items = cursor[t].items
         /\ Asked(t).got = cursor[t].got /\ Asked(t).getters = cursor[t].getters
         /\ Asked(t).stale = cursor[t].stale
         /\ Asked(t).outstanding = IF WantsBatch(Fewer(t)) THEN 1 ELSE cursor[t].outstanding - 1
         /\ WantsBatch(Fewer(t)) => cursor[t].error = "None" /\ cursor[t].outstanding = 1
         /\ Longer(t, r).outstanding = Asked(t).outstanding
         /\ Longer(t, r).error = IF cursor[t].error = "None" THEN EndOf(r) ELSE cursor[t].error
         /\ Longer(t, r).items = IF cursor[t].error = "None" THEN cursor[t].items + r.rows
                                 ELSE cursor[t].items
         /\ Longer(t, r).got = cursor[t].got /\ Longer(t, r).getters = cursor[t].getters
         /\ Longer(t, r).stale = cursor[t].stale
         /\ After(t, r).error = Longer(t, r).error
         /\ After(t, r).items = Served(Longer(t, r)).items
         /\ After(t, r).got = Longer(t, r).got
         /\ After(t, r).getters = Served(Longer(t, r)).getters
         /\ After(t, r).stale = cursor[t].stale
         /\ After(t, r).outstanding = IF Wanted(t, r) THEN 1 ELSE cursor[t].outstanding - 1
         /\ Wanted(t, r) => cursor[t].error = "None" /\ cursor[t].outstanding = 1
<1> DEFINE f == Fewer(t)
           W == WantsBatch(f)
           c == cursor[t]
<1>1. c \in Cur /\ c.outstanding - 1 \in Int
  BY DEF Typed, Cur
<1>2. f \in Cur /\ f.outstanding = c.outstanding - 1
      /\ f.error = c.error /\ f.items = c.items /\ f.got = c.got
      /\ f.getters = c.getters /\ f.stale = c.stale /\ f.threshold = c.threshold
  <2>1. f = [c EXCEPT !.outstanding = c.outstanding - 1]
    BY DEF Fewer
  <2> HIDE DEF f, c
  <2> QED BY <1>1, <2>1 DEF Cur
<1>3. W \in BOOLEAN /\ (W => c.error = "None" /\ c.outstanding = 1)
  <2>1. W => f.error = "None" /\ f.outstanding = 0
    BY DEF WantsBatch
  <2>2. c.outstanding \in Int
    BY <1>1 DEF Cur
  <2>3. W \in BOOLEAN
    BY DEF WantsBatch
  <2> HIDE DEF W, c
  <2> QED BY <1>2, <2>1, <2>2, <2>3
<1> DEFINE a == Asked(t)
<1>4. /\ a \in Cur /\ a.error = c.error /\ a.items = c.items /\ a.got = c.got
      /\ a.getters = c.getters /\ a.stale = c.stale
      /\ a.outstanding = IF W THEN 1 ELSE c.outstanding - 1
  <2>1. a = Counted(f, W)
    BY DEF Asked
  <2> HIDE DEF a, f, W, c
  <2> QED BY <1>2, <1>3, <2>1, CountedIs
<1> DEFINE l == Longer(t, r)
<1>5. /\ l \in Cur /\ l.outstanding = a.outstanding
      /\ l.error = IF c.error = "None" THEN EndOf(r) ELSE c.error
      /\ l.items = IF c.error = "None" THEN c.items + r.rows ELSE c.items
      /\ l.got = c.got /\ l.getters = c.getters /\ l.stale = c.stale
  <2>1. l = ExtendInternal(a, r)
    BY DEF Longer
  <2> HIDE DEF a, l, c
  <2> QED BY <1>4, <2>1, ExtendedIs
<1> DEFINE s == Served(l)
           G == Again(t, r)
<1>6. /\ s \in Cur /\ s.error = l.error /\ s.outstanding = l.outstanding /\ s.got = l.got
      /\ s.stale = l.stale
  <2> HIDE DEF l
  <2> QED BY <1>5, ServedIs
<1>7. G \in BOOLEAN /\ (G => s.error = "None" /\ s.outstanding = 0)
  BY DEF Again, WantsBatch
<1>8. /\ After(t, r) \in Cur /\ After(t, r).outstanding = (IF G THEN 1 ELSE s.outstanding)
      /\ After(t, r).error = s.error /\ After(t, r).items = s.items /\ After(t, r).got = s.got
      /\ After(t, r).getters = s.getters /\ After(t, r).stale = s.stale
  <2>1. After(t, r) = Counted(s, G)
    BY DEF After
  <2> HIDE DEF s, G
  <2> QED BY <1>6, <1>7, <2>1, CountedIs
<1>9. Wanted(t, r) \in BOOLEAN /\ (Wanted(t, r) <=> W \/ G)
  BY <1>3, <1>7 DEF Wanted
<1>10. G => c.error = "None" /\ c.outstanding = 1 /\ ~W
  <2>1. c.outstanding \in Int /\ EndOf(r) \in {"None", "Empty", "Server"}
    BY <1>1 DEF Cur, EndOf
  <2> HIDE DEF G, s, l, a, W, c
  <2> QED BY <1>4, <1>5, <1>6, <1>7, <2>1
<1>11. Kept(t, r) \in SUBSET Token
  BY DEF Kept, Typed
<1>12. Roused(t, r) \in [Task -> TaskState]
  BY WokenIs DEF Roused, Typed
<1>13. /\ [cursor EXCEPT ![t] = a] \in [Token -> Cur]
       /\ [cursor EXCEPT ![t] = After(t, r)] \in [Token -> Cur]
  <2> HIDE DEF a
  <2> QED BY <1>4, <1>8 DEF Typed
<1>14. After(t, r).outstanding = IF W \/ G THEN 1 ELSE c.outstanding - 1
  <2> HIDE DEF G, s, l, a, W, c
  <2> QED BY <1>4, <1>5, <1>6, <1>8, <1>10
<1> HIDE DEF G, s, l, a, W, c
<1>15. Wanted(t, r) => c.error = "None" /\ c.outstanding = 1
  BY <1>3, <1>9, <1>10
<1>16. After(t, r).outstanding = IF Wanted(t, r) THEN 1 ELSE c.outstanding - 1
  BY <1>9, <1>14
<1>17. After(t, r).error = l.error /\ After(t, r).got = l.got /\ After(t, r).stale = c.stale
  BY <1>5, <1>6, <1>8
<1> QED BY <1>1, <1>3, <1>4, <1>5, <1>8, <1>9, <1>11, <1>12, <1>13, <1>15, <1>16, <1>17
        DEF a, l, c, W, f, s

LEMMA LeftType == Typed => \A t \in Token : awaiting[t] > 0 =>
  /\ Left(t) \in [Token -> Nat] /\ Left(t)[t] = awaiting[t] - 1
  /\ \A d \in Token \ {t} : Left(t)[d] = awaiting[d]
BY DEF Typed, Left

LEMMA OutcomeType == Typed => \A cn \in Outcomes : cn \in ConnType /\ cn.next_token = conn.next_token
BY DEF Typed, Outcomes, ConnType

LEMMA AnsweredIs ==
  ASSUME Typed, NEW t \in Token, NEW r \in Response, MayAnswer(t, r), Answered(t, r)
  PROVE  /\ sent' \in [Token -> 0 .. MaxRows] /\ done' \in [Token -> BOOLEAN] /\ link' = link
         /\ sent'[t] = sent[t] + r.rows /\ r.rows \in Nat
         /\ done'[t] = (done[t] \/ r.type # "SUCCESS_PARTIAL")
         /\ \A d \in Token \ {t} : sent'[d] = sent[d] /\ done'[d] = done[d]
         /\ done[t] => r.rows = 0
         /\ r.type = "ERROR" => r.rows = 0
<1>1. r.rows \in 0 .. MaxRows /\ sent[t] \in 0 .. MaxRows /\ MaxRows \in Nat
  BY Constants DEF Response, Typed
<1>2. sent[t] + r.rows \in 0 .. MaxRows
  BY <1>1 DEF MayAnswer
<1> QED BY <1>1, <1>2 DEF Answered, Typed, MayAnswer

LEMMA BatchIs ==
  ASSUME Typed, NEW t \in Token, NEW r \in Response, ReadBatch(t, r)
  PROVE  \E cn \in ConnType, raised \in BOOLEAN :
           /\ cn.next_token = conn.next_token
           /\ Fetch(Left(t), t, Wanted(t, r), cn, raised)
           /\ \/ raised /\ Raises([cursor EXCEPT ![t] = Asked(t)], cached, task, cn)
              \/ /\ ~raised /\ Longer(t, r).stale
                 /\ Raises([cursor EXCEPT ![t] = After(t, r)], Kept(t, r), Roused(t, r), cn)
              \/ /\ ~raised /\ ~Longer(t, r).stale
                 /\ cursor' = [cursor EXCEPT ![t] = After(t, r)] /\ cached' = Kept(t, r)
                 /\ task' = Roused(t, r) /\ conn' = cn /\ queries' = queries
<1>1. PICK cn \in Outcomes, raised \in BOOLEAN :
           /\ Fetch(Left(t), t, Wanted(t, r), cn, raised)
           /\ CASE raised -> Raises([cursor EXCEPT ![t] = Asked(t)], cached, task, cn)
                [] ~raised /\ Longer(t, r).stale ->
                     Raises([cursor EXCEPT ![t] = After(t, r)], Kept(t, r), Roused(t, r), cn)
                [] OTHER -> /\ cursor' = [cursor EXCEPT ![t] = After(t, r)] /\ cached' = Kept(t, r)
                            /\ task' = Roused(t, r) /\ conn' = cn /\ UNCHANGED queries
  BY DEF ReadBatch, Wanted, Asked, Longer, Again, After, Kept, Roused, Fewer
<1>2. cn \in ConnType /\ cn.next_token = conn.next_token
  BY OutcomeType
<1> QED BY <1>1, <1>2

Begun(t) == [cursor EXCEPT ![t].error = "None", ![t].outstanding = 1]
First(t, r) == [cursor EXCEPT ![t] = ExtendInternal([Begun(t)[t] EXCEPT !.items = 0], r)]
Alive(t) == {s \in cached \cup {t} : Begun(t)[s].error = "None"}
Users(t) == {u \in Task : task[u].pc = "run" /\ task[u].t = t}

LEMMA StreamParts ==
  ASSUME Typed, NEW t \in Token, NEW r \in Response
  PROVE  /\ Begun(t) \in [Token -> Cur] /\ First(t, r) \in [Token -> Cur]
         /\ \A d \in Token \ {t} : Begun(t)[d] = cursor[d] /\ First(t, r)[d] = cursor[d]
         /\ Begun(t)[t].error = "None" /\ Begun(t)[t].outstanding = 1
         /\ Begun(t)[t].items = cursor[t].items /\ Begun(t)[t].got = cursor[t].got
         /\ Begun(t)[t].getters = cursor[t].getters /\ Begun(t)[t].stale = cursor[t].stale
         /\ First(t, r)[t].error = EndOf(r) /\ First(t, r)[t].outstanding = 1
         /\ First(t, r)[t].items = r.rows /\ First(t, r)[t].got = cursor[t].got
         /\ First(t, r)[t].getters = cursor[t].getters /\ First(t, r)[t].stale = cursor[t].stale
<1> DEFINE c == cursor[t]
           b == [c EXCEPT !.error = "None", !.outstanding = 1]
           z == [b EXCEPT !.items = 0]
           x == ExtendInternal(z, r)
<1>1. c \in Cur /\ "None" \in Error /\ cursor \in [Token -> Cur]
  BY DEF Typed, Error
<1>2. Begun(t) = [cursor EXCEPT ![t] = b]
  <2>1. Begun(t) = [d \in Token |-> IF d = t THEN b ELSE cursor[d]]
    BY <1>1 DEF Begun
  <2> HIDE DEF b
  <2> QED BY <1>1, <2>1
<1>3. /\ b \in Cur /\ b.error = "None" /\ b.outstanding = 1 /\ b.items = c.items /\ b.got = c.got
      /\ b.getters = c.getters /\ b.stale = c.stale
  <2>1. c \in Cur /\ "None" \in Error /\ 1 \in Int
    BY <1>1
  <2> HIDE DEF c
  <2> QED BY <2>1 DEF Cur
<1>4. /\ z \in Cur /\ z.error = "None" /\ z.outstanding = 1 /\ z.items = 0 /\ z.got = c.got
      /\ z.getters = c.getters /\ z.stale = c.stale
  <2> HIDE DEF b, c
  <2> QED BY <1>3 DEF Cur
<1>5. r.rows \in Nat
  BY Constants DEF Response
<1>6. /\ x \in Cur /\ x.error = EndOf(r) /\ x.outstanding = 1 /\ x.items = r.rows /\ x.got = c.got
      /\ x.getters = c.getters /\ x.stale = c.stale
  <2> HIDE DEF z, c
  <2> QED BY <1>4, <1>5, ExtendedIs
<1>7. Begun(t)[t] = b
  BY <1>1, <1>2
<1>8. First(t, r) = [cursor EXCEPT ![t] = x]
  BY <1>7 DEF First
<1> HIDE DEF x, z, b
<1> QED BY <1>1, <1>2, <1>3, <1>6, <1>8 DEF c

LEMMA StreamIs ==
  ASSUME Typed, NEW t \in Token, NEW r \in Response, ReadStream(t, r)
  PROVE  \E cn \in ConnType, raised \in BOOLEAN :
           /\ cn.next_token = conn.next_token
           /\ Fetch(Left(t), t, TRUE, cn, raised)
           /\ \/ /\ raised /\ driver = "gevent" /\ held' = held
                 /\ Tell([told |-> Alive(t), whole |-> FALSE], Begun(t), cached \cup {t}, task, {})
                 /\ conn' = [cn EXCEPT !.closing = TRUE, !.reader = "ended"]
              \/ /\ raised /\ driver # "gevent" /\ held' = held
                 /\ Raises(Begun(t), cached \cup {t}, task, cn)
              \/ /\ ~raised /\ cursor' = First(t, r) /\ cached' = cached \cup {t} /\ conn' = cn
                 /\ queries' = [queries EXCEPT ![t] = "none"]
                 /\ held' = IF Users(t) = {} THEN held ELSE held \cup {t}
                 /\ task' = [u \in Task |-> IF u \in Users(t) THEN Idle ELSE task[u]]
<1>1. PICK cn \in Outcomes, raised \in BOOLEAN :
          /\ Fetch(Left(t), t, TRUE, cn, raised)
          /\ CASE raised /\ driver = "gevent" ->
                     /\ Tell([told |-> Alive(t), whole |-> FALSE], Begun(t), cached \cup {t}, task, {})
                     /\ conn' = [cn EXCEPT !.closing = TRUE, !.reader = "ended"]
                     /\ UNCHANGED held
               [] raised /\ driver # "gevent" ->
                     /\ Raises(Begun(t), cached \cup {t}, task, cn)
                     /\ UNCHANGED held
               [] OTHER ->
                     /\ cursor' = First(t, r) /\ cached' = cached \cup {t} /\ conn' = cn
                     /\ queries' = [queries EXCEPT ![t] = "none"]
                     /\ held' = IF Users(t) = {} THEN held ELSE held \cup {t}
                     /\ task' = [u \in Task |-> IF u \in Users(t) THEN Idle ELSE task[u]]
  BY DEF ReadStream, Begun, First, Alive, Users
<1>2. cn \in ConnType /\ cn.next_token = conn.next_token
  BY OutcomeType
<1> QED BY <1>1, <1>2

(* close() up to its NOREPLY_WAIT: what becomes of the caller, whether the *)
(* NOREPLY_WAIT is registered, and what becomes of the stream.             *)
OnItsWay(u, pc) == [task EXCEPT ![u] = [pc |-> pc, op |-> "close", t |-> conn.next_token]]
LEMMA CloseIs ==
  ASSUME Typed, NEW u \in Task, NEW noreply_wait \in BOOLEAN, Close(u, noreply_wait)
  PROVE  /\ task[u] = Idle /\ conn.attached /\ conn.stage = "ready"
         /\ UNCHANGED <<driver, held, conts, link, sent, done, faults>>
         /\ conn' \in ConnType /\ ~conn'.attached /\ conn'.next_token = 0 /\ conn'.closing
         /\ conn'.stage = conn.stage /\ conn'.timer = conn.timer /\ conn'.cut = conn.cut
         /\ conn'.reader = conn.reader /\ conn'.closed = conn.closed
         /\ \E w \in Tellings(cached, cursor), tk \in [Task -> TaskState],
               pending \in SUBSET {conn.next_token} :
              /\ Tell(w, cursor, cached, tk, pending)
              /\ \/ ~w.whole /\ tk = task /\ pending = {} /\ conn'.stream = conn.stream
                    /\ awaiting' = awaiting
                 \/ w.whole /\ driver = "trio" /\ tk = OnItsWay(u, "shut") /\ pending = {}
                    /\ conn'.stream # "open" /\ awaiting' = awaiting
                 \/ w.whole /\ driver # "trio" /\ tk = task /\ pending = {}
                    /\ conn'.stream # "open" /\ awaiting' = awaiting
                 \/ w.whole /\ driver = "trio" /\ tk = OnItsWay(u, "send") /\ pending = {}
                    /\ conn'.stream = conn.stream /\ awaiting' = awaiting
                 \/ w.whole /\ driver # "trio" /\ tk = OnItsWay(u, "flush")
                    /\ pending = {conn.next_token} /\ conn'.stream = conn.stream
                    /\ awaiting' = Deliver(awaiting, conn.next_token, TRUE)
         /\ conn.stream # "none" => conn'.stream # "none"
         /\ conn'.stream = "open" => conn.stream = "open"
<1> DEFINE t == conn.next_token
           cn == [conn EXCEPT !.attached = FALSE, !.next_token = 0, !.closing = TRUE]
<1>1. /\ conn \in ConnType /\ t \in Token /\ task \in [Task -> TaskState]
      /\ {"shut", "send", "flush"} \subseteq Place /\ "close" \in Op /\ 0 \in Token
  BY Constants DEF Typed, Place, Op
<1>2. /\ cn \in ConnType /\ ~cn.attached /\ cn.next_token = 0 /\ cn.closing
      /\ cn.stage = conn.stage /\ cn.timer = conn.timer /\ cn.cut = conn.cut
      /\ cn.reader = conn.reader /\ cn.closed = conn.closed /\ cn.stream = conn.stream
  <2>1. conn \in ConnType /\ 0 \in 0 .. MaxToken + 1
    BY <1>1, Constants
  <2> QED BY <2>1 DEF ConnType
<1>3. \A pc \in {"shut", "send", "flush"} : OnItsWay(u, pc) \in [Task -> TaskState]
  BY <1>1 DEF OnItsWay, TaskState
<1>4. /\ task[u] = Idle /\ conn.attached /\ conn.stage = "ready"
      /\ UNCHANGED <<driver, held, conts, link, sent, done, faults>>
  BY DEF Close, srvVars
<1>5. PICK w \in Tellings(cached, cursor) :
          \/ /\ ~w.whole
             /\ Tell(w, cursor, cached, task, {})
             /\ conn' = cn /\ UNCHANGED awaiting
          \/ /\ w.whole /\ ~noreply_wait
             /\ Tell(w, cursor, cached,
                     IF driver = "trio" THEN OnItsWay(u, "shut") ELSE task, {})
             /\ conn' = Shutdown(cn) /\ UNCHANGED awaiting
          \/ /\ w.whole /\ noreply_wait /\ driver = "trio"
             /\ Tell(w, cursor, cached, OnItsWay(u, "send"), {})
             /\ conn' = cn /\ UNCHANGED awaiting
          \/ /\ w.whole /\ noreply_wait /\ driver # "trio"
             /\ \E ok \in BOOLEAN :
                   /\ Writes(ok)
                   /\ Tell(w, cursor, cached, IF ok THEN OnItsWay(u, "flush") ELSE task,
                           IF ok THEN {t} ELSE {})
                   /\ conn' = Written(cn, ok)
                   /\ awaiting' = Deliver(awaiting, t, ok)
  BY DEF Close, OnItsWay
<1> DEFINE Fields == /\ conn' \in ConnType /\ ~conn'.attached /\ conn'.next_token = 0 /\ conn'.closing
                     /\ conn'.stage = conn.stage /\ conn'.timer = conn.timer /\ conn'.cut = conn.cut
                     /\ conn'.reader = conn.reader /\ conn'.closed = conn.closed
                     /\ conn.stream # "none" => conn'.stream # "none"
                     /\ conn'.stream = "open" => conn.stream = "open"
<1> HIDE DEF cn
<1>6. conn' = cn => Fields /\ conn'.stream = conn.stream
  BY <1>2
<1>7. conn' = Shutdown(cn) => Fields /\ conn'.stream # "open"
  BY <1>2, ShutdownIs
<1>8. CASE ~w.whole /\ Tell(w, cursor, cached, task, {}) /\ conn' = cn /\ UNCHANGED awaiting
  BY <1>1, <1>4, <1>6, <1>8
<1>9. CASE /\ w.whole /\ ~noreply_wait
           /\ Tell(w, cursor, cached, IF driver = "trio" THEN OnItsWay(u, "shut") ELSE task, {})
           /\ conn' = Shutdown(cn) /\ UNCHANGED awaiting
  <2>1. CASE driver = "trio"
    <3>1. Tell(w, cursor, cached, OnItsWay(u, "shut"), {})
      BY <1>9, <2>1
    <3> QED BY <1>3, <1>4, <1>7, <1>9, <2>1, <3>1
  <2>2. CASE driver # "trio"
    <3>1. Tell(w, cursor, cached, task, {})
      BY <1>9, <2>2
    <3> QED BY <1>1, <1>4, <1>7, <1>9, <2>2, <3>1
  <2> QED BY <2>1, <2>2
<1>10. CASE /\ w.whole /\ noreply_wait /\ driver = "trio"
            /\ Tell(w, cursor, cached, OnItsWay(u, "send"), {})
            /\ conn' = cn /\ UNCHANGED awaiting
  BY <1>3, <1>4, <1>6, <1>10
<1>11. ASSUME w.whole, driver # "trio", NEW ok \in BOOLEAN, Writes(ok),
              Tell(w, cursor, cached, IF ok THEN OnItsWay(u, "flush") ELSE task,
                   IF ok THEN {t} ELSE {}),
              conn' = Written(cn, ok), awaiting' = Deliver(awaiting, t, ok)
       PROVE  /\ Fields
              /\ \E tk \in [Task -> TaskState], pending \in SUBSET {t} :
                 /\ Tell(w, cursor, cached, tk, pending)
                 /\ \/ tk = task /\ pending = {} /\ conn'.stream # "open" /\ awaiting' = awaiting
                    \/ /\ tk = OnItsWay(u, "flush") /\ pending = {t} /\ conn'.stream = conn.stream
                       /\ awaiting' = Deliver(awaiting, t, TRUE)
  <2>1. CASE ok = TRUE
    <3>1. Tell(w, cursor, cached, OnItsWay(u, "flush"), {t})
      BY <1>11, <2>1
    <3>2. conn' = cn
      BY <1>2, <1>11, <2>1, WrittenIs
    <3> QED BY <1>3, <1>6, <1>11, <2>1, <3>1, <3>2
  <2>2. CASE ok = FALSE
    <3>1. Tell(w, cursor, cached, task, {})
      BY <1>11, <2>2
    <3>2. Fields /\ conn'.stream = "closed"
      BY <1>2, <1>11, <2>2, WrittenIs
    <3>3. awaiting' = awaiting
      BY <1>11, <2>2 DEF Deliver
    <3> QED BY <1>1, <3>1, <3>2, <3>3
  <2> QED BY <2>1, <2>2
<1>12. CASE /\ w.whole /\ noreply_wait /\ driver # "trio"
            /\ \E ok \in BOOLEAN :
                   /\ Writes(ok)
                   /\ Tell(w, cursor, cached, IF ok THEN OnItsWay(u, "flush") ELSE task,
                           IF ok THEN {t} ELSE {})
                   /\ conn' = Written(cn, ok)
                   /\ awaiting' = Deliver(awaiting, t, ok)
  <2>1. PICK ok \in BOOLEAN :
                   /\ Writes(ok)
                   /\ Tell(w, cursor, cached, IF ok THEN OnItsWay(u, "flush") ELSE task,
                           IF ok THEN {t} ELSE {})
                   /\ conn' = Written(cn, ok)
                   /\ awaiting' = Deliver(awaiting, t, ok)
    BY <1>12
  <2>2. /\ Fields
        /\ \E tk \in [Task -> TaskState], pending \in SUBSET {t} :
                 /\ Tell(w, cursor, cached, tk, pending)
                 /\ \/ tk = task /\ pending = {} /\ conn'.stream # "open" /\ awaiting' = awaiting
                    \/ /\ tk = OnItsWay(u, "flush") /\ pending = {t} /\ conn'.stream = conn.stream
                       /\ awaiting' = Deliver(awaiting, t, TRUE)
    BY <1>11, <1>12, <2>1
  <2> QED BY <1>4, <1>12, <2>2
<1> QED BY <1>5, <1>8, <1>9, <1>10, <1>12

LEMMA TypeClose ==
  ASSUME Typed, NEW u \in Task, NEW noreply_wait \in BOOLEAN, Close(u, noreply_wait)
  PROVE  Typed'
<1>1. /\ UNCHANGED <<driver, held, conts, link, sent, done, faults>>
      /\ conn' \in ConnType /\ conn'.next_token = 0
      /\ \E w \in Tellings(cached, cursor), tk \in [Task -> TaskState],
            pending \in SUBSET {conn.next_token} :
              /\ Tell(w, cursor, cached, tk, pending)
              /\ \/ awaiting' = awaiting
                 \/ awaiting' = Deliver(awaiting, conn.next_token, TRUE)
  BY CloseIs
<1>2. PICK w \in Tellings(cached, cursor), tk \in [Task -> TaskState],
           pending \in SUBSET {conn.next_token} :
              /\ Tell(w, cursor, cached, tk, pending)
              /\ \/ awaiting' = awaiting
                 \/ awaiting' = Deliver(awaiting, conn.next_token, TRUE)
  BY <1>1
<1>3. /\ cached \in SUBSET Token /\ cursor \in [Token -> Cur] /\ awaiting \in [Token -> Nat]
      /\ conn.next_token \in Token
  BY DEF Typed
<1>4. w.told \in SUBSET Token /\ w.whole \in BOOLEAN
  BY <1>3, TellingsAre
<1>5. /\ cursor' \in [Token -> Cur] /\ cached' \in SUBSET Token
      /\ queries' \in [Token -> {"none", "start", "plain"}] /\ task' \in [Task -> TaskState]
  BY <1>2, <1>3, <1>4, TellIs
<1>6. awaiting' \in [Token -> Nat]
  <2>1. TRUE \in BOOLEAN
    OBVIOUS
  <2>2. Deliver(awaiting, conn.next_token, TRUE) \in [Token -> Nat]
    BY <1>3, <2>1, DeliverIs
  <2> QED BY <1>2, <1>3, <2>2
<1> QED BY <1>1, <1>5, <1>6, Constants DEF Typed

LEMMA TypeBatch ==
  ASSUME Typed, NEW t \in Token, NEW r \in Response, ReadBatch(t, r)
  PROVE  Typed'
<1>1. PICK cn \in ConnType, raised \in BOOLEAN :
           /\ cn.next_token = conn.next_token
           /\ Fetch(Left(t), t, Wanted(t, r), cn, raised)
           /\ \/ raised /\ Raises([cursor EXCEPT ![t] = Asked(t)], cached, task, cn)
              \/ /\ ~raised /\ Longer(t, r).stale
                 /\ Raises([cursor EXCEPT ![t] = After(t, r)], Kept(t, r), Roused(t, r), cn)
              \/ /\ ~raised /\ ~Longer(t, r).stale
                 /\ cursor' = [cursor EXCEPT ![t] = After(t, r)] /\ cached' = Kept(t, r)
                 /\ task' = Roused(t, r) /\ conn' = cn /\ queries' = queries
  BY BatchIs
<1>2. /\ [cursor EXCEPT ![t] = Asked(t)] \in [Token -> Cur]
      /\ [cursor EXCEPT ![t] = After(t, r)] \in [Token -> Cur]
      /\ Kept(t, r) \in SUBSET Token /\ Wanted(t, r) \in BOOLEAN
      /\ Roused(t, r) \in [Task -> TaskState]
  BY BatchParts
<1>3. /\ cached \in SUBSET Token /\ task \in [Task -> TaskState] /\ conn.next_token \in Token
      /\ queries \in [Token -> {"none", "start", "plain"}] /\ driver \in Driver
      /\ held \in SUBSET Token /\ faults \in 0 .. MaxFaults /\ link \in {"up", "eof", "reset"}
  BY DEF Typed
<1>4. /\ awaiting[t] > 0 /\ UNCHANGED <<driver, held, faults>>
      /\ MayAnswer(t, r) /\ Answered(t, r)
  BY DEF ReadBatch, Reads
<1>5. Left(t) \in [Token -> Nat]
  BY <1>4, LeftType
<1>6. awaiting' \in [Token -> Nat] /\ conts' \in SUBSET Token
  BY <1>1, <1>2, <1>5, FetchIs
<1>7. /\ cursor' \in [Token -> Cur] /\ cached' \in SUBSET Token
      /\ queries' \in [Token -> {"none", "start", "plain"}] /\ task' \in [Task -> TaskState]
      /\ conn' \in ConnType /\ conn'.next_token = cn.next_token
  <2>1. CASE Raises([cursor EXCEPT ![t] = Asked(t)], cached, task, cn)
    BY <1>1, <1>2, <1>3, <2>1, RaisesIs
  <2>2. CASE Raises([cursor EXCEPT ![t] = After(t, r)], Kept(t, r), Roused(t, r), cn)
    <3> DEFINE cur == [cursor EXCEPT ![t] = After(t, r)]
    <3>1. /\ cur \in [Token -> Cur] /\ cn.next_token \in Token
          /\ Raises(cur, Kept(t, r), Roused(t, r), cn)
      BY <1>1, <1>2, <1>3, <2>2
    <3> HIDE DEF cur
    <3> QED BY <1>2, <3>1, RaisesIs
  <2>3. CASE /\ cursor' = [cursor EXCEPT ![t] = After(t, r)] /\ cached' = Kept(t, r)
             /\ task' = Roused(t, r) /\ conn' = cn /\ queries' = queries
    BY <1>2, <1>3, <2>3
  <2> QED BY <1>1, <2>1, <2>2, <2>3
<1>8. sent' \in [Token -> 0 .. MaxRows] /\ done' \in [Token -> BOOLEAN] /\ link' = link
  BY <1>4, AnsweredIs
<1> QED BY <1>1, <1>3, <1>4, <1>6, <1>7, <1>8 DEF Typed

LEMMA TypeStream ==
  ASSUME Typed, NEW t \in Token, NEW r \in Response, ReadStream(t, r)
  PROVE  Typed'
<1>1. PICK cn \in ConnType, raised \in BOOLEAN :
           /\ cn.next_token = conn.next_token
           /\ Fetch(Left(t), t, TRUE, cn, raised)
           /\ \/ /\ raised /\ driver = "gevent" /\ held' = held
                 /\ Tell([told |-> Alive(t), whole |-> FALSE], Begun(t), cached \cup {t}, task, {})
                 /\ conn' = [cn EXCEPT !.closing = TRUE, !.reader = "ended"]
              \/ /\ raised /\ driver # "gevent" /\ held' = held
                 /\ Raises(Begun(t), cached \cup {t}, task, cn)
              \/ /\ ~raised /\ cursor' = First(t, r) /\ cached' = cached \cup {t} /\ conn' = cn
                 /\ queries' = [queries EXCEPT ![t] = "none"]
                 /\ held' = IF Users(t) = {} THEN held ELSE held \cup {t}
                 /\ task' = [u \in Task |-> IF u \in Users(t) THEN Idle ELSE task[u]]
  BY StreamIs
<1>2. Begun(t) \in [Token -> Cur] /\ First(t, r) \in [Token -> Cur]
  BY StreamParts
<1>3. /\ cached \cup {t} \in SUBSET Token /\ task \in [Task -> TaskState]
      /\ queries \in [Token -> {"none", "start", "plain"}] /\ driver \in Driver
      /\ held \in SUBSET Token /\ faults \in 0 .. MaxFaults /\ link \in {"up", "eof", "reset"}
      /\ conn.next_token \in Token
  BY DEF Typed
<1>4. /\ awaiting[t] > 0 /\ UNCHANGED <<driver, faults>>
      /\ MayAnswer(t, r) /\ Answered(t, r)
  BY DEF ReadStream, Reads
<1>5. Left(t) \in [Token -> Nat]
  BY <1>4, LeftType
<1>6. awaiting' \in [Token -> Nat] /\ conts' \in SUBSET Token
  <2>1. Fetch(Left(t), t, TRUE, cn, raised) /\ TRUE \in BOOLEAN
    BY <1>1
  <2> QED BY <1>5, <2>1, FetchIs
<1>7. /\ cursor' \in [Token -> Cur] /\ cached' \in SUBSET Token /\ held' \in SUBSET Token
      /\ queries' \in [Token -> {"none", "start", "plain"}] /\ task' \in [Task -> TaskState]
      /\ conn' \in ConnType /\ conn'.next_token = cn.next_token
  <2>1. CASE /\ held' = held
             /\ Tell([told |-> Alive(t), whole |-> FALSE], Begun(t), cached \cup {t}, task, {})
             /\ conn' = [cn EXCEPT !.closing = TRUE, !.reader = "ended"]
    <3> DEFINE w == [told |-> Alive(t), whole |-> FALSE]
    <3>1. w.told \in SUBSET Token /\ w.whole \in BOOLEAN
      BY <1>3 DEF Alive
    <3>2. Tell(w, Begun(t), cached \cup {t}, task, {})
      BY <2>1
    <3> HIDE DEF w
    <3>3. conn' \in ConnType /\ conn'.next_token = cn.next_token
      BY <2>1 DEF ConnType
    <3> QED BY <1>2, <1>3, <2>1, <3>1, <3>2, <3>3, TellIs
  <2>2. CASE held' = held /\ Raises(Begun(t), cached \cup {t}, task, cn)
    BY <1>1, <1>2, <1>3, <2>2, RaisesIs
  <2>3. CASE /\ cursor' = First(t, r) /\ cached' = cached \cup {t} /\ conn' = cn
             /\ queries' = [queries EXCEPT ![t] = "none"]
             /\ held' = IF Users(t) = {} THEN held ELSE held \cup {t}
             /\ task' = [u \in Task |-> IF u \in Users(t) THEN Idle ELSE task[u]]
    BY <1>2, <1>3, <2>3, IdleType
  <2> QED BY <1>1, <2>1, <2>2, <2>3
<1>8. sent' \in [Token -> 0 .. MaxRows] /\ done' \in [Token -> BOOLEAN] /\ link' = link
  BY <1>4, AnsweredIs
<1> QED BY <1>1, <1>3, <1>4, <1>6, <1>7, <1>8 DEF Typed

LEMMA TypeReader ==
  ASSUME Typed,
         \/ \E t \in Token : ReadValue(t) \/ SkipWhileClosing(t) \/ UnexpectedResponse(t)
         \/ ReadNothing \/ ReadEnd \/ ConnectionLost \/ StreamEnds
         \/ \E end \in {"eof", "reset"} : Drop(end)
  PROVE  Typed'
<1>0. /\ conn \in ConnType /\ conn.next_token \in Token /\ task \in [Task -> TaskState]
      /\ queries \in [Token -> {"none", "start", "plain"}] /\ cached \in SUBSET Token
      /\ cursor \in [Token -> Cur] /\ awaiting \in [Token -> Nat]
  BY DEF Typed
<1>1. ASSUME NEW t \in Token, ReadValue(t) PROVE Typed'
  <2>1. awaiting' \in [Token -> Nat]
    BY <1>1, LeftType DEF ReadValue, Reads
  <2>2. task' \in [Task -> TaskState]
    <3>1. "flushed" \in Place
      BY DEF Place
    <3>2. \A x \in TaskState : [x EXCEPT !.pc = "flushed"] \in TaskState
      BY <3>1 DEF TaskState
    <3>3. task' = [u \in Task |->
              IF task[u].pc = "run" /\ task[u].t = t THEN Idle
              ELSE IF task[u].pc = "flush" /\ task[u].t = t THEN [task[u] EXCEPT !.pc = "flushed"]
              ELSE task[u]]
      BY <1>1 DEF ReadValue
    <3> QED BY <1>0, <3>2, <3>3, IdleType
  <2>3. queries' \in [Token -> {"none", "start", "plain"}]
    BY <1>0, <1>1 DEF ReadValue
  <2> QED BY <1>1, <2>1, <2>2, <2>3 DEF ReadValue, Typed, srvVars
<1>2. ASSUME NEW t \in Token, SkipWhileClosing(t) PROVE Typed'
  <2>1. awaiting' \in [Token -> Nat]
    BY <1>2, LeftType DEF SkipWhileClosing, Reads
  <2> QED BY <1>2, <2>1 DEF SkipWhileClosing, Typed, srvVars
<1>3. ASSUME NEW t \in Token, UnexpectedResponse(t) PROVE Typed'
  <2>1. awaiting' \in [Token -> Nat] /\ faults' \in 0 .. MaxFaults
    BY <1>0, <1>3, LeftType, FaultIs DEF UnexpectedResponse, Typed
  <2>2. Raises(cursor, cached, task, conn) /\ UNCHANGED <<driver, held, conts, link, sent, done>>
    BY <1>3 DEF UnexpectedResponse, srvVars
  <2>3. /\ cursor' \in [Token -> Cur] /\ cached' \in SUBSET Token
        /\ queries' \in [Token -> {"none", "start", "plain"}] /\ task' \in [Task -> TaskState]
        /\ conn' \in ConnType /\ conn'.next_token \in Token
    BY <1>0, <2>2, RaisesIs
  <2> QED BY <2>1, <2>2, <2>3 DEF Typed
<1>4. CASE ReadNothing
  <2>1. conn' \in ConnType /\ conn'.next_token = conn.next_token
    BY <1>0, <1>4 DEF ReadNothing, ConnType
  <2> QED BY <1>4, <2>1 DEF ReadNothing, Nothing, Typed, srvVars
<1>5. CASE ReadEnd
  <2> DEFINE cn == IF driver = "trio" THEN [conn EXCEPT !.closed = TRUE]
                                      ELSE [conn EXCEPT !.stream = "closed"]
  <2>1. Raises(cursor, cached, task, cn) /\ Nothing /\ UNCHANGED <<driver, held, conts, link, sent, done, faults>>
    BY <1>5 DEF ReadEnd, srvVars
  <2>2. cn \in ConnType /\ cn.next_token \in Token
    BY <1>0 DEF ConnType
  <2> HIDE DEF cn
  <2>3. /\ cursor' \in [Token -> Cur] /\ cached' \in SUBSET Token
        /\ queries' \in [Token -> {"none", "start", "plain"}] /\ task' \in [Task -> TaskState]
        /\ conn' \in ConnType /\ conn'.next_token \in Token
    BY <1>0, <2>1, <2>2, RaisesIs
  <2>4. awaiting' \in [Token -> Nat]
    BY <2>1 DEF Nothing
  <2> QED BY <2>1, <2>3, <2>4 DEF Typed
<1>6. CASE ConnectionLost
  <2>1. conn' \in ConnType /\ conn'.next_token = conn.next_token
    <3>1. \/ conn' = [conn EXCEPT !.stream = "closed", !.reader = "ended"]
          \/ conn' = [conn EXCEPT !.stream = "closed", !.reader = conn.reader]
      BY <1>6 DEF ConnectionLost
    <3> QED BY <1>0, <3>1 DEF ConnType
  <2> QED BY <1>6, <2>1 DEF ConnectionLost, Nothing, Typed, srvVars
<1>7. CASE StreamEnds
  <2>1. conn' \in ConnType /\ conn'.next_token = conn.next_token
    BY <1>0, <1>7 DEF StreamEnds, ConnType
  <2> QED BY <1>7, <2>1 DEF StreamEnds, Typed, srvVars
<1>8. ASSUME NEW end \in {"eof", "reset"}, Drop(end) PROVE Typed'
  <2>1. faults' \in 0 .. MaxFaults
    BY <1>8, FaultIs DEF Drop, Typed
  <2> QED BY <1>8, <2>1 DEF Drop, Typed
<1> QED BY <1>1, <1>2, <1>3, <1>4, <1>5, <1>6, <1>7, <1>8

LEMMA TypeStep == Typed /\ [Next]_vars => Typed'
<1> SUFFICES ASSUME Typed, [Next]_vars PROVE Typed'
  OBVIOUS
<1>1. CASE UNCHANGED vars
  BY <1>1 DEF vars, srvVars, Typed
<1>2. ASSUME NEW u \in Task, Call(u) \/ Resume(u) \/ HandshakeFails(u) PROVE Typed'
  <2>1. CASE \/ ConnectCall(u) \/ HandshakeDone(u) \/ HandshakeFails(u)
             \/ \E ok \in BOOLEAN : OpenStream(u, ok)
    BY <2>1, TypeConnect
  <2>2. CASE \/ \E op \in {"start", "plain"} : Run(u, op)
             \/ Send(u) \/ Register(u) \/ Cancel(u) \/ CloseStream(u) \/ Shut(u)
    BY <2>2, TypeQuery
  <2>3. CASE \/ \E t \in Token : NextCall(u, t) \/ CursorClose(u, t)
                             \/ \E pc \in {"get", "fetch"} : TwistedNext(u, t, pc)
             \/ NextItem(u) \/ NextError(u) \/ NextWait(u) \/ TakeRow(u) \/ NextTimeout(u)
    BY <2>3, TypeCursor
  <2>4. CASE \E noreply_wait \in BOOLEAN : Close(u, noreply_wait)
    BY <2>4, TypeClose
  <2> QED BY <1>2, <2>1, <2>2, <2>3, <2>4 DEF Call, Resume
<1>3. CASE \/ \E t \in Token : ReadValue(t) \/ SkipWhileClosing(t) \/ UnexpectedResponse(t)
           \/ ReadNothing \/ ReadEnd \/ ConnectionLost \/ StreamEnds
           \/ \E end \in {"eof", "reset"} : Drop(end)
  BY <1>3, TypeReader
<1>4. CASE \E t \in Token, r \in Response : ReadBatch(t, r) \/ ReadStream(t, r)
  BY <1>4, TypeBatch, TypeStream
<1>5. CASE TimerFires \/ HandshakeLate \/ \E t \in Token : ContinueRuns(t)
  BY <1>5, TypeOthers
<1> QED BY <1>1, <1>2, <1>3, <1>4, <1>5 DEF Next, ReadResponse

-----------------------------------------------------------------------------
(* The invariants.  First, the connection: where its tasks are, in which   *)
(* stages it has a stream, and who still has to close it.                  *)
OpOf(pc) ==
  CASE pc = "idle"                           -> {"none"}
    [] pc \in {"connect", "handshake"}       -> {"connect"}
    [] pc = "send"                           -> {"start", "plain", "stop", "close"}
    [] pc = "sent"                           -> {"start", "plain", "close"}
    [] pc = "run"                            -> {"start", "plain"}
    [] pc \in {"flush", "flushed", "shut"}   -> {"close"}
    [] pc \in {"next", "wait", "get", "fetch", "taken"} -> {"next"}

PlaceInv ==
  /\ \A u \in Task : /\ task[u].op \in OpOf(task[u].pc)
                     /\ task[u].pc \in {"send", "sent", "shut"} => driver = "trio"
  /\ conts # {} => driver = "trio"

Connecting(u) == task[u].pc \in {"connect", "handshake"}
StageInv ==
  /\ \A u \in Task : /\ task[u].pc = "connect" => conn.stage = "connecting"
                     /\ task[u].pc = "handshake" => conn.stage = "handshake"
                     /\ task[u].pc = "shut" => conn.stream # "open"
                     /\ task[u].op = "close" => ~conn.attached
  /\ \A u, v \in Task : Connecting(u) /\ Connecting(v) => u = v
  /\ conn.stage \in {"new", "connecting"} => conn.stream = "none"
  /\ conn.stage \in {"handshake", "ready"} => conn.stream # "none"
  /\ conn.stage \in {"new", "connecting", "handshake"} => conn.attached /\ ~conn.closing
  /\ conn.stage = "ready" <=> conn.reader # "none"
  /\ conn.timer => conn.stage \in {"handshake", "failed"}
  /\ driver = "twisted" /\ conn.stage = "handshake" => conn.timer
  /\ ~conn.attached => conn.closing
  /\ conn.closed => driver = "trio"
  /\ conn.cut => conn.stage \in {"ready", "failed"}

OpenInv ==
  /\ conn.closing /\ conn.attached /\ conn.stage = "ready" => conn.stream # "open"
  /\ conn.reader \in {"spin", "stuck", "ended"} =>
       conn.closing \/ link # "up" \/ conn.stream # "open"

ConnInv == PlaceInv /\ StageInv /\ OpenInv /\ NothingLeftOpen

(* What all steps do to the connection but those of connect(): it only     *)
(* declines.                                                               *)
Deserted ==
  \/ conn'.stream # "open"
  \/ /\ ~conn'.attached
     /\ (\E u \in Task : task'[u].op = "close") \/ (\E t \in Token : cursor'[t].stale)

Declines ==
  /\ driver' = driver /\ conn'.stage = conn.stage /\ conn'.timer = conn.timer
  /\ conn.cut => conn'.cut
  /\ conn'.cut => conn.cut \/ conn.stage \in {"ready", "failed"}
  /\ \/ conn'.stream = conn.stream
     \/ conn.stream # "none" /\ conn'.stream \in {"closed", "draining"}
  /\ conn'.closed => conn.closed \/ driver = "trio"
  /\ conn.closing => conn'.closing
  /\ conn'.closing => conn.closing \/ (conn.stage = "ready" /\ Deserted)
  /\ conn'.attached => conn.attached
  /\ ~conn'.attached => ~conn.attached \/ conn'.closing
  /\ \/ conn'.reader = conn.reader
     \/ /\ conn.reader # "none" /\ conn'.reader # "none"
        /\ conn'.closing \/ link' # "up" \/ conn'.stream # "open"
  /\ link' = "up" => link = "up"
  /\ conts' # {} => conts # {} \/ driver = "trio"
  /\ \A t \in Token : cursor[t].stale => cursor'[t].stale

Settles(v) ==
  \/ task'[v] = task[v]
  \/ task'[v] = Idle /\ (task[v].op # "close" \/ conn'.cut \/ conn'.stream # "open")
  \/ /\ task'[v].op \in OpOf(task'[v].pc) /\ task'[v].pc \notin {"connect", "handshake", "idle"}
     /\ task'[v].pc \in {"send", "sent"} => driver = "trio"
     /\ \/ /\ task'[v].op = task[v].op /\ task'[v].pc # "shut"
        \/ /\ task'[v].op # "close" /\ task[v].op # "close"
        \/ /\ task'[v].op = "close" /\ ~conn'.attached
           /\ task'[v].pc = "shut" => conn'.stream # "open" /\ driver = "trio"

LEMMA DeclineStep ==
  ASSUME Typed, Typed', ConnInv, Declines, \A v \in Task : Settles(v)
  PROVE  ConnInv'
<1>0. /\ conn \in ConnType /\ conn' \in ConnType /\ task \in [Task -> TaskState]
      /\ task' \in [Task -> TaskState]
  BY DEF Typed
<1>1. PlaceInv'
  <2>1. driver' = driver /\ (conts' # {} => driver' = "trio")
    BY DEF Declines, ConnInv, PlaceInv
  <2>2. ASSUME NEW v \in Task
        PROVE  /\ task'[v].op \in OpOf(task'[v].pc)
               /\ task'[v].pc \in {"send", "sent", "shut"} => driver' = "trio"
    <3>1. Settles(v)
      OBVIOUS
    <3>2. CASE task'[v] = task[v]
      BY <2>1, <3>2 DEF ConnInv, PlaceInv
    <3>3. CASE task'[v] = Idle
      BY <3>3, IdleType DEF OpOf
    <3>4. CASE task'[v] # task[v] /\ task'[v] # Idle
      <4>1. /\ task'[v].op \in OpOf(task'[v].pc)
            /\ task'[v].pc \in {"send", "sent"} => driver = "trio"
            /\ task'[v].pc = "shut" => driver = "trio" \/ task'[v].op # "close"
        BY <3>1, <3>4 DEF Settles
      <4>2. task'[v].pc = "shut" => task'[v].op = "close"
        BY <4>1 DEF OpOf
      <4> QED BY <2>1, <4>1, <4>2
    <3> QED BY <3>2, <3>3, <3>4
  <2> QED BY <2>1, <2>2 DEF PlaceInv
<1>2. ASSUME NEW v \in Task
      PROVE  /\ task'[v].pc \in {"connect", "handshake"} => task'[v] = task[v]
             /\ task'[v].pc = "shut" => task[v].pc = "shut" \/ conn'.stream # "open"
             /\ task'[v].op = "close" => task[v].op = "close" \/ ~conn'.attached
             /\ task[v].op = "close" =>
                  task'[v].op = "close" \/ conn'.cut \/ conn'.stream # "open"
  <2>1. Settles(v) /\ Idle.pc = "idle" /\ Idle.op = "none"
    BY IdleType
  <2>2. task'[v].pc = "shut" => task'[v].op = "close"
    BY <1>1 DEF PlaceInv, OpOf
  <2> QED BY <2>1, <2>2 DEF Settles
<1>3. StageInv'
  <2>1. ASSUME NEW v \in Task
        PROVE  /\ task'[v].pc = "connect" => conn'.stage = "connecting"
               /\ task'[v].pc = "handshake" => conn'.stage = "handshake"
               /\ task'[v].pc = "shut" => conn'.stream # "open"
               /\ task'[v].op = "close" => ~conn'.attached
    BY <1>2 DEF Declines, ConnInv, StageInv
  <2>2. \A u, v \in Task : Connecting(u)' /\ Connecting(v)' => u = v
    BY <1>2 DEF ConnInv, StageInv, Connecting
  <2>3. /\ conn'.stage \in {"new", "connecting"} => conn'.stream = "none"
        /\ conn'.stage \in {"handshake", "ready"} => conn'.stream # "none"
        /\ conn'.stage \in {"new", "connecting", "handshake"} => conn'.attached /\ ~conn'.closing
        /\ conn'.stage = "ready" <=> conn'.reader # "none"
        /\ conn'.timer => conn'.stage \in {"handshake", "failed"}
        /\ driver' = "twisted" /\ conn'.stage = "handshake" => conn'.timer
        /\ ~conn'.attached => conn'.closing
        /\ conn'.closed => driver' = "trio"
        /\ conn'.cut => conn'.stage \in {"ready", "failed"}
    BY <1>0 DEF Declines, ConnInv, StageInv, ConnType
  <2> QED BY <2>1, <2>2, <2>3 DEF StageInv
<1>4. OpenInv'
  <2>1. conn'.closing /\ conn'.attached /\ conn'.stage = "ready" => conn'.stream # "open"
    BY DEF Declines, Deserted, ConnInv, OpenInv
  <2>2. conn'.reader \in {"spin", "stuck", "ended"} =>
          conn'.closing \/ link' # "up" \/ conn'.stream # "open"
    BY DEF Declines, ConnInv, OpenInv
  <2> QED BY <2>1, <2>2 DEF OpenInv
<1>5. NothingLeftOpen'
  <2>1. conn'.stage = "failed" => conn'.stream # "open" \/ conn'.timer \/ conn'.cut
    BY DEF Declines, ConnInv, NothingLeftOpen
  <2>2. ASSUME conn'.closing, conn'.stage = "ready", conn'.stream = "open"
        PROVE  \/ conn'.cut
               \/ \E u \in Task : task'[u].op = "close"
               \/ \E t \in Token : cursor'[t].stale
    <3>1. CASE conn.closing
      <4>1. \/ conn.cut
            \/ \E u \in Task : task[u].op = "close"
            \/ \E t \in Token : cursor[t].stale
        BY <2>2, <3>1 DEF Declines, ConnInv, NothingLeftOpen
      <4> QED BY <1>2, <2>2, <4>1 DEF Declines
    <3>2. CASE ~conn.closing
      BY <2>2, <3>2 DEF Declines, Deserted
    <3> QED BY <3>1, <3>2
  <2> QED BY <2>1, <2>2 DEF NothingLeftOpen
<1> QED BY <1>1, <1>3, <1>4, <1>5 DEF ConnInv

(* The steps of connect().                                                 *)
Connects(v) ==
  \/ task'[v] = task[v]
  \/ /\ Connecting(v) \/ task[v] = Idle
     /\ \/ task'[v] = Idle
        \/ task'[v].op = "connect" /\ task'[v].pc \in {"connect", "handshake"}

LEMMA ConnectKeeps ==
  ASSUME Typed, Typed', ConnInv, \A v \in Task : Connects(v),
         UNCHANGED <<driver, link, conts, cursor>>,
         conn'.attached = conn.attached, conn.cut => conn'.cut,
         conn'.closing => conn.closing \/ conn'.stage = "failed",
         conn'.stream = "open" => conn.stream = "open" \/ conn.stage = "connecting",
         \A v \in Task : /\ task'[v].pc = "connect" => conn'.stage = "connecting"
                         /\ task'[v].pc = "handshake" => conn'.stage = "handshake",
         \A v, w \in Task : Connecting(v)' /\ Connecting(w)' => v = w,
         conn'.stage \in {"new", "connecting"} => conn'.stream = "none",
         conn'.stage \in {"handshake", "ready"} => conn'.stream # "none",
         conn'.stage \in {"new", "connecting", "handshake"} => conn'.attached /\ ~conn'.closing,
         conn'.stage = "ready" <=> conn'.reader # "none",
         conn'.reader \in {"none", "run"},
         conn'.timer => conn'.stage \in {"handshake", "failed"},
         conn'.stage = "ready" => ~conn'.closing,
         driver' = "twisted" /\ conn'.stage = "handshake" => conn'.timer,
         conn.closing => conn'.closing,
         conn'.closed = conn.closed,
         conn'.cut => conn'.stage \in {"ready", "failed"},
         conn'.stage = "failed" => conn'.stream # "open" \/ conn'.timer \/ conn'.cut
  PROVE  ConnInv'
<1>0. /\ conn \in ConnType /\ conn' \in ConnType
  BY DEF Typed
<1>1. ASSUME NEW v \in Task
      PROVE  /\ task'[v].op \in OpOf(task'[v].pc)
             /\ task'[v].pc \in {"send", "sent", "shut"} => driver' = "trio"
             /\ task'[v].pc = "shut" => conn'.stream # "open"
             /\ task'[v].op = "close" => ~conn'.attached
  <2>0. Connects(v)
    OBVIOUS
  <2>1. CASE task'[v] = task[v]
    <3>1. /\ task[v].op \in OpOf(task[v].pc)
          /\ task[v].pc \in {"send", "sent", "shut"} => driver = "trio"
          /\ task[v].pc = "shut" => conn.stream # "open"
          /\ task[v].op = "close" => ~conn.attached
      BY DEF ConnInv, PlaceInv, StageInv
    <3>2. task[v].pc = "shut" => task[v].op = "close"
      BY <3>1 DEF OpOf
    <3>3. task[v].op = "close" => conn.stage # "connecting"
      BY <3>1 DEF ConnInv, StageInv
    <3> QED BY <2>1, <3>1, <3>2, <3>3
  <2>2. CASE task'[v] = Idle
    BY <2>2, IdleType DEF OpOf
  <2>3. CASE task'[v].op = "connect" /\ task'[v].pc \in {"connect", "handshake"}
    BY <2>3 DEF OpOf
  <2> QED BY <2>0, <2>1, <2>2, <2>3 DEF Connects
<1>2. PlaceInv'
  BY <1>1 DEF PlaceInv, ConnInv
<1>3. StageInv'
  BY <1>1 DEF StageInv, ConnInv
<1>4. OpenInv'
  BY DEF OpenInv
<1>5. NothingLeftOpen'
  BY DEF NothingLeftOpen
<1> QED BY <1>2, <1>3, <1>4, <1>5 DEF ConnInv

LEMMA ConnectConn ==
  ASSUME Typed, Typed', ConnInv, NEW u \in Task,
         \/ ConnectCall(u) \/ HandshakeDone(u) \/ HandshakeFails(u)
         \/ \E ok \in BOOLEAN : OpenStream(u, ok)
  PROVE  ConnInv'
<1>0. /\ conn \in ConnType /\ conn' \in ConnType /\ task \in [Task -> TaskState]
      /\ {"connect", "handshake"} \subseteq Place /\ "connect" \in Op /\ 0 \in Token
      /\ Idle.pc = "idle" /\ Idle.op = "none"
  BY Constants, IdleType DEF Typed, Place, Op
<1>1. /\ task[u].pc = "connect" => conn.stage = "connecting" /\ task[u].op = "connect"
      /\ task[u].pc = "handshake" => conn.stage = "handshake" /\ task[u].op = "connect"
      /\ \A v \in Task : Connecting(u) /\ Connecting(v) => u = v
      /\ conn.stage \in {"new", "connecting"} => conn.stream = "none"
      /\ conn.stage \in {"handshake"} => conn.stream # "none"
      /\ conn.stage \in {"new", "connecting", "handshake"} =>
           conn.attached /\ ~conn.closing /\ ~conn.cut /\ conn.reader = "none"
      /\ conn.timer => conn.stage \in {"handshake", "failed"}
      /\ driver = "twisted" /\ conn.stage = "handshake" => conn.timer
      /\ conn.stage = "new" => \A v \in Task : ~Connecting(v)
  <2>1. \A v \in Task : task[v].pc \in {"connect", "handshake"} => task[v].op = "connect"
    BY DEF ConnInv, PlaceInv, OpOf
  <2> QED BY <2>1 DEF ConnInv, StageInv, Connecting
<1>2. CASE ConnectCall(u)
  <2>1. task' \in [Task -> TaskState]
        /\ task'[u].pc = "connect" /\ task'[u].op = "connect" /\ task[u] = Idle
        /\ \A v \in Task \ {u} : task'[v] = task[v]
    BY <1>0, <1>2, TaskIs DEF ConnectCall
  <2>2. /\ conn.stage = "new" /\ conn'.stage = "connecting" /\ conn'.stream = conn.stream
        /\ conn'.attached = conn.attached /\ conn'.closing = conn.closing /\ conn'.cut = conn.cut
        /\ conn'.reader = conn.reader /\ conn'.timer = conn.timer /\ conn'.closed = conn.closed
    BY <1>0, <1>2 DEF ConnectCall, ConnType
  <2>3. UNCHANGED <<driver, link, conts, cursor>>
    BY <1>2 DEF ConnectCall, srvVars
  <2>4. \A v \in Task : Connects(v)
    BY <2>1 DEF Connects
  <2>5. \A v \in Task : Connecting(v)' => v = u
    BY <1>1, <2>1, <2>2 DEF Connecting
  <2>6. \A v \in Task : /\ task'[v].pc = "connect" => conn'.stage = "connecting"
                        /\ task'[v].pc = "handshake" => conn'.stage = "handshake"
    BY <2>1, <2>2, <2>5 DEF Connecting
  <2> QED BY <1>0, <1>1, <2>2, <2>3, <2>4, <2>5, <2>6, ConnectKeeps
<1>3. ASSUME task' \in [Task -> TaskState], \A v \in Task \ {u} : task'[v] = task[v],
             task'[u] = Idle, Connecting(u)
      PROVE  /\ \A v \in Task : Connects(v)
             /\ \A v \in Task : ~Connecting(v)'
  BY <1>0, <1>1, <1>3 DEF Connects, Connecting
<1>4. ASSUME NEW ok \in BOOLEAN, OpenStream(u, ok) PROVE ConnInv'
  <2>0. conn.stage = "connecting" /\ Connecting(u) /\ UNCHANGED <<driver, link, conts, cursor>>
    BY <1>1, <1>4 DEF OpenStream, srvVars, Connecting
  <2>1. CASE ok = TRUE
    <3>1. /\ conn'.stage = "handshake" /\ conn'.stream = "open"
          /\ conn'.attached = conn.attached /\ conn'.closing = conn.closing /\ conn'.cut = conn.cut
          /\ conn'.reader = conn.reader /\ conn'.closed = conn.closed
          /\ driver = "twisted" => conn'.timer
      <4>1. CASE driver = "twisted"
        <5>1. conn' = [conn EXCEPT !.stage = "handshake", !.stream = "open", !.timer = TRUE]
          BY <1>4, <2>1, <4>1 DEF OpenStream
        <5> QED BY <1>0, <5>1 DEF ConnType
      <4>2. CASE driver # "twisted"
        <5>1. conn' = [conn EXCEPT !.stage = "handshake", !.stream = "open", !.timer = FALSE]
          BY <1>4, <2>1, <4>2 DEF OpenStream
        <5> QED BY <1>0, <4>2, <5>1 DEF ConnType
      <4> QED BY <4>1, <4>2
    <3>2. task'[u].pc = "handshake" /\ task'[u].op = "connect"
          /\ \A v \in Task \ {u} : task'[v] = task[v]
      BY <1>0, <1>1, <1>4, <2>1, TaskIs DEF OpenStream
    <3>3. \A v \in Task : Connects(v)
      BY <2>0, <3>2 DEF Connects
    <3>4. \A v \in Task : Connecting(v)' => v = u
      BY <1>1, <2>0, <3>2 DEF Connecting
    <3>5. \A v \in Task : /\ task'[v].pc = "connect" => conn'.stage = "connecting"
                          /\ task'[v].pc = "handshake" => conn'.stage = "handshake"
      BY <3>1, <3>2, <3>4 DEF Connecting
    <3> QED BY <1>1, <2>0, <3>1, <3>3, <3>4, <3>5, ConnectKeeps
  <2>2. CASE ok = FALSE
    <3>1. /\ conn'.stage = "failed" /\ conn'.stream = conn.stream
          /\ conn'.attached = conn.attached /\ conn'.closing = conn.closing /\ conn'.cut = conn.cut
          /\ conn'.reader = conn.reader /\ conn'.closed = conn.closed
      BY <1>0, <1>4, <2>2 DEF OpenStream, ConnType
    <3>2. task' \in [Task -> TaskState] /\ task'[u] = Idle
          /\ \A v \in Task \ {u} : task'[v] = task[v]
      BY <1>0, <1>4, <2>2, TaskIs DEF OpenStream
    <3> QED BY <1>1, <1>3, <2>0, <3>1, <3>2, ConnectKeeps DEF Connecting
  <2> QED BY <2>1, <2>2
<1>5. CASE HandshakeDone(u)
  <2>0. conn.stage = "handshake" /\ Connecting(u) /\ UNCHANGED <<driver, link, conts, cursor>>
    BY <1>1, <1>5 DEF HandshakeDone, srvVars, Connecting
  <2>1. /\ conn'.stage = "ready" /\ conn'.stream = conn.stream /\ conn'.reader = "run"
        /\ conn'.attached = conn.attached /\ conn'.closing = conn.closing /\ conn'.cut = conn.cut
        /\ ~conn'.timer /\ conn'.closed = conn.closed
    BY <1>0, <1>5 DEF HandshakeDone, ConnType
  <2>2. task' \in [Task -> TaskState] /\ task'[u] = Idle
        /\ \A v \in Task \ {u} : task'[v] = task[v]
    BY <1>0, <1>5, TaskIs DEF HandshakeDone
  <2> QED BY <1>1, <1>3, <2>0, <2>1, <2>2, ConnectKeeps DEF Connecting
<1>6. CASE HandshakeFails(u)
  <2>0. conn.stage = "handshake" /\ Connecting(u) /\ UNCHANGED <<driver, link, conts, cursor>>
    BY <1>1, <1>6 DEF HandshakeFails, srvVars, Connecting
  <2>1. /\ conn'.stage = "failed" /\ conn'.reader = conn.reader
        /\ conn'.attached = conn.attached /\ conn'.cut = conn.cut
        /\ conn'.timer = conn.timer /\ conn'.closed = conn.closed
        /\ driver # "twisted" => conn'.stream # "open"
        /\ driver = "twisted" => conn'.stream = conn.stream
    <3>1. CASE driver = "twisted"
      <4>1. conn' = [conn EXCEPT !.stage = "failed"]
        BY <1>6, <3>1 DEF HandshakeFails
      <4> QED BY <1>0, <3>1, <4>1 DEF ConnType
    <3>2. CASE driver # "twisted"
      <4> DEFINE sd == Shutdown(conn)
                 cl == driver = "trio"
      <4>1. conn' = [sd EXCEPT !.stage = "failed", !.closing = cl]
        BY <1>6, <3>2 DEF HandshakeFails
      <4>2. /\ sd \in ConnType /\ sd.stream # "open" /\ sd.reader = conn.reader
            /\ sd.attached = conn.attached /\ sd.cut = conn.cut
            /\ sd.timer = conn.timer /\ sd.closed = conn.closed
        BY <1>0, ShutdownIs
      <4> HIDE DEF sd, cl
      <4> QED BY <3>2, <4>1, <4>2 DEF ConnType
    <3> QED BY <3>1, <3>2
  <2>2. task' \in [Task -> TaskState] /\ task'[u] = Idle
        /\ \A v \in Task \ {u} : task'[v] = task[v]
    BY <1>0, <1>6, TaskIs DEF HandshakeFails
  <2> QED BY <1>1, <1>3, <2>0, <2>1, <2>2, ConnectKeeps DEF Connecting
<1> QED BY <1>2, <1>4, <1>5, <1>6

LEMMA TimerConn ==
  ASSUME Typed, Typed', ConnInv, TimerFires \/ HandshakeLate
  PROVE  ConnInv'
<1>0. /\ conn \in ConnType /\ conn' \in ConnType /\ task \in [Task -> TaskState]
      /\ Idle.pc = "idle" /\ UNCHANGED <<driver, link, conts, cursor>> /\ conn.timer
  BY IdleType DEF Typed, TimerFires, HandshakeLate, srvVars
<1>1. /\ conn.stage \in {"handshake", "failed"} /\ conn.reader = "none"
      /\ \A v \in Task : task[v].pc # "connect"
      /\ \A v \in Task : Connecting(v) => conn.stage = "handshake" /\ task[v].pc = "handshake"
  BY <1>0 DEF ConnInv, StageInv, Connecting
<1>2. CASE TimerFires
  <2> DEFINE sd == Shutdown(conn)
  <2>1. /\ sd \in ConnType /\ sd.stream # "open" /\ sd.reader = conn.reader
        /\ sd.attached = conn.attached /\ sd.cut = conn.cut
        /\ sd.closing = conn.closing /\ sd.closed = conn.closed
    BY <1>0, ShutdownIs
  <2>2. conn' = [sd EXCEPT !.timer = FALSE, !.stage = "failed"]
    BY <1>2 DEF TimerFires
  <2> HIDE DEF sd
  <2>3. /\ conn'.stage = "failed" /\ conn'.stream # "open" /\ conn'.reader = conn.reader
        /\ conn'.attached = conn.attached /\ conn'.cut = conn.cut
        /\ conn'.closing = conn.closing /\ conn'.closed = conn.closed
    BY <2>1, <2>2 DEF ConnType
  <2>4. \A v \in Task : task'[v] = IF task[v].pc = "handshake" THEN Idle ELSE task[v]
    BY <1>2 DEF TimerFires
  <2>5. \A v \in Task : Connects(v) /\ ~Connecting(v)'
    BY <1>0, <1>1, <2>4 DEF Connects, Connecting
  <2>6. ~conn'.timer
    BY <2>1, <2>2 DEF ConnType
  <2> QED BY <1>0, <1>1, <2>3, <2>5, <2>6, ConnectKeeps DEF Connecting, ConnInv, StageInv
<1>3. CASE HandshakeLate
  <2>1. /\ conn'.stage = conn.stage /\ conn'.stream = conn.stream /\ conn'.reader = conn.reader
        /\ conn'.attached = conn.attached /\ conn'.cut = conn.cut /\ ~conn'.timer
        /\ conn'.closing = conn.closing /\ conn'.closed = conn.closed /\ conn.cut
    BY <1>0, <1>3 DEF HandshakeLate, ConnType
  <2>3. conn.stage = "failed"
    BY <1>0, <1>1, <2>1 DEF ConnInv, StageInv
  <2>2. \A v \in Task : Connects(v) /\ task'[v] = task[v] /\ ~Connecting(v)'
    BY <1>1, <1>3, <2>3 DEF HandshakeLate, Connects, Connecting
  <2> QED BY <1>0, <1>1, <2>1, <2>2, <2>3, ConnectKeeps DEF Connecting, ConnInv, StageInv
<1> QED BY <1>2, <1>3

(* All other steps.                                                        *)
LEMMA ConnFacts ==
  ASSUME Typed, ConnInv
  PROVE  /\ conn.stage = "ready" => conn.stream # "none" /\ conn.reader # "none"
         /\ conn.reader # "none" => conn.stage = "ready"
         /\ Usable => conn.stage = "ready" /\ conn.stream # "none" /\ conn.attached
         /\ ~conn.attached => conn.closing /\ conn.stage \in {"ready", "failed"}
         /\ \A u \in Task : /\ task[u].op = "close" => ~conn.attached
                            /\ task[u].pc \in {"wait", "get", "fetch", "next", "taken"} =>
                                 task[u].op = "next"
                            /\ task[u].pc = "run" => task[u].op # "close"
                            /\ task[u].pc \in {"handshake", "connect"} => task[u].op = "connect"
                            /\ task[u].pc \in {"flush", "flushed", "shut"} => task[u].op = "close"
<1>1. \A u \in Task : task[u].op \in OpOf(task[u].pc)
  BY DEF ConnInv, PlaceInv
<1>2. \A u \in Task : /\ task[u].op = "close" => ~conn.attached
                      /\ task[u].pc \in {"wait", "get", "fetch", "next", "taken"} =>
                           task[u].op = "next"
                      /\ task[u].pc = "run" => task[u].op # "close"
                      /\ task[u].pc \in {"handshake", "connect"} => task[u].op = "connect"
                      /\ task[u].pc \in {"flush", "flushed", "shut"} => task[u].op = "close"
  BY <1>1 DEF ConnInv, StageInv, OpOf
<1>3. conn.stage \in {"new", "connecting", "handshake", "ready", "failed"}
  BY DEF Typed, ConnType
<1> QED BY <1>2, <1>3 DEF ConnInv, StageInv, Usable

LEMMA WakesTrans ==
  ASSUME NEW x, NEW y, NEW z, Wakes(x, y), Wakes(y, z)
  PROVE  Wakes(x, z)
BY IdleType DEF Wakes

LEMMA WakesSettle ==
  ASSUME Typed, ConnInv, NEW v \in Task, Wakes(task[v], task'[v])
  PROVE  Settles(v)
<1>1. /\ task[v].pc \in {"wait", "get", "fetch"} => task[v].op = "next"
      /\ Idle.op = "none"
  BY ConnFacts, IdleType
<1> QED BY <1>1 DEF Wakes, Settles, OpOf

Steady ==
  /\ driver' = driver
  /\ link' = "up" => link = "up"
  /\ conts' # {} => conts # {} \/ driver = "trio"
  /\ \A t \in Token : cursor[t].stale => cursor'[t].stale

LEMMA QuietDeclines == Steady /\ conn' = conn => Declines
BY DEF Steady, Declines

LEMMA WriteDeclines ==
  ASSUME Typed, ConnInv, Steady, NEW cn \in ConnType, NEW ok \in BOOLEAN, conn' = Written(cn, ok),
         cn.stage = conn.stage, cn.timer = conn.timer, cn.cut = conn.cut, cn.stream = conn.stream,
         cn.closed = conn.closed, cn.closing = conn.closing, cn.attached = conn.attached,
         cn.reader = conn.reader, driver = "trio" \/ conn.stream # "none"
  PROVE  Declines
<1>1. /\ conn'.attached = cn.attached
      /\ conn'.stage = cn.stage /\ conn'.closing = cn.closing
      /\ conn'.timer = cn.timer /\ conn'.cut = cn.cut
      /\ conn'.reader = cn.reader
      /\ conn'.stream = cn.stream \/ (driver # "trio" /\ conn'.stream = "closed")
      /\ conn'.closed = cn.closed \/ driver = "trio"
  BY WrittenIs
<1> QED BY <1>1 DEF Steady, Declines, ConnInv, StageInv

LEMMA OutcomeDeclines ==
  ASSUME Typed, ConnInv, Steady,
         conn' = conn \/ (Usable /\ conn' = [conn EXCEPT !.stream = "closed"])
  PROVE  Declines
<1>1. CASE conn' = conn
  BY <1>1, QuietDeclines
<1>2. CASE Usable /\ conn' = [conn EXCEPT !.stream = "closed"]
  <2>1. conn.stream # "none" /\ conn \in ConnType
    BY <1>2, ConnFacts DEF Typed
  <2>2. /\ conn'.attached = conn.attached
        /\ conn'.stage = conn.stage /\ conn'.closing = conn.closing
        /\ conn'.timer = conn.timer /\ conn'.cut = conn.cut
        /\ conn'.reader = conn.reader /\ conn'.stream = "closed" /\ conn'.closed = conn.closed
    BY <1>2, <2>1 DEF ConnType
  <2> QED BY <2>1, <2>2 DEF Steady, Declines, ConnInv, StageInv
<1> QED BY <1>1, <1>2

(* What a reader may have done before it raises.                           *)
Weakens(cn) ==
  /\ driver' = driver /\ link' = link /\ (conts' # {} => conts # {} \/ driver = "trio")
  /\ cn.stage = conn.stage /\ cn.timer = conn.timer /\ cn.cut = conn.cut
  /\ cn.stream = conn.stream \/ cn.stream = "closed"
  /\ cn.closed => conn.closed \/ driver = "trio"
  /\ cn.closing = conn.closing /\ cn.attached = conn.attached
  /\ cn.reader = conn.reader /\ conn.reader # "none"

Stirs(cur, tk) ==
  /\ \A t \in Token : cursor[t].stale => cur[t].stale
  /\ \A v \in Task : Wakes(task[v], tk[v])

LEMMA RaisesDeclines ==
  ASSUME Typed, ConnInv, NEW cur \in [Token -> Cur], NEW cache \in SUBSET Token,
         NEW tk \in [Task -> TaskState], NEW cn \in ConnType, cn.next_token \in Token,
         Raises(cur, cache, tk, cn),
         Weakens(cn), Stirs(cur, tk)
  PROVE  Declines /\ \A v \in Task : Settles(v)
<1>1. /\ \A t \in Token : Reported(cur, cache, t)
      /\ conn'.attached = cn.attached /\ conn'.stage = cn.stage /\ conn'.timer = cn.timer
      /\ conn'.cut = cn.cut /\ conn'.closed = cn.closed
      /\ conn'.closing <=> cn.closing \/ ~conn.closing
      /\ conn.closing => conn'.stream = cn.stream
      /\ ~conn.closing => conn'.stream = Shutdown(cn).stream
      /\ conn'.reader \in {"ended", "stuck", cn.reader}
      /\ \A v \in Task : Freed(tk, v)
  <2>1. /\ \A t \in Token : Reported(cur, cache, t)
        /\ \A v \in Task : Freed(tk, v)
    BY RaisesIs
  <2>2. /\ conn'.attached = cn.attached /\ conn'.stage = cn.stage /\ conn'.timer = cn.timer
        /\ conn'.cut = cn.cut /\ conn'.closed = cn.closed
        /\ conn'.closing <=> cn.closing \/ ~conn.closing
    BY RaisesBroken DEF Broken
  <2>3. /\ conn.closing => conn'.stream = cn.stream
        /\ ~conn.closing => conn'.stream = Shutdown(cn).stream
        /\ conn'.reader \in {"ended", "stuck", cn.reader}
    BY RaisesBroken DEF Broken
  <2> QED BY <2>1, <2>2, <2>3
<1>2. \A t \in Token : cursor[t].stale => cursor'[t].stale
  <2> SUFFICES ASSUME NEW t \in Token, cursor[t].stale PROVE cursor'[t].stale
    OBVIOUS
  <2>1. cur[t] \in Cur /\ cur[t].stale
    BY DEF Stirs
  <2>2. Served(Failed(cur[t])).stale = cur[t].stale
    <3>1. Failed(cur[t]) \in Cur /\ Failed(cur[t]).stale = cur[t].stale
      BY <2>1, FailedIs
    <3> QED BY <3>1, ServedIs
  <2> QED BY <1>1, <2>1, <2>2 DEF Reported
<1>3. conn.stage = "ready" /\ conn.stream # "none"
  BY ConnFacts DEF Weakens
<1>4. Shutdown(cn).stream # "open" /\ Shutdown(cn).stream \in {cn.stream, "closed", "draining"}
  BY ShutdownIs
<1>5. conn.closing \in BOOLEAN /\ conn'.closing
  BY <1>1 DEF Typed, ConnType, Weakens
<1>6. \/ conn'.stream = conn.stream
      \/ conn'.stream \in {"closed", "draining"}
  BY <1>1, <1>4, <1>5 DEF Weakens
<1>7. Declines
  BY <1>1, <1>2, <1>3, <1>4, <1>5, <1>6 DEF Declines, Deserted, Weakens
<1>8. ASSUME NEW v \in Task PROVE Settles(v)
  <2>1. CASE Wakes(tk[v], task'[v])
    BY <2>1, WakesTrans, WakesSettle DEF Stirs
  <2>2. CASE task'[v] = Idle /\ ~conn.closing /\ tk[v].pc \in {"run", "flush"}
    <3>1. task[v].op # "close"
      <4>1. task[v] = tk[v]
        BY <2>2, IdleType DEF Stirs, Wakes
      <4> QED BY <2>2, <4>1, ConnFacts
    <3> QED BY <2>2, <3>1 DEF Settles
  <2> QED BY <1>1, <2>1, <2>2 DEF Freed
<1> QED BY <1>7, <1>8

LEMMA MovesSettle ==
  ASSUME Typed, ConnInv, NEW u \in Task, NEW pc \in Place, NEW op \in Op, NEW t \in Token,
         op \in OpOf(pc), pc \notin {"idle", "connect", "handshake", "shut"},
         pc \in {"send", "sent"} => driver = "trio"
  PROVE  /\ task' = task => \A v \in Task : Settles(v)
         /\ At(u, pc, op, t) /\ op # "close" /\ task[u].op # "close" => \A v \in Task : Settles(v)
         /\ Goto(u, pc) /\ task[u].op = op => \A v \in Task : Settles(v)
<1>1. CASE At(u, pc, op, t) /\ op # "close" /\ task[u].op # "close"
  <2>1. /\ task'[u].pc = pc /\ task'[u].op = op
        /\ \A v \in Task \ {u} : task'[v] = task[v]
    BY <1>1, TaskIs
  <2> QED BY <1>1, <2>1 DEF Settles
<1>2. CASE Goto(u, pc) /\ task[u].op = op
  <2>1. /\ task'[u].pc = pc /\ task'[u].op = task[u].op
        /\ \A v \in Task \ {u} : task'[v] = task[v]
    BY <1>2, TaskIs
  <2> QED BY <1>2, <2>1 DEF Settles
<1> QED BY <1>1, <1>2 DEF Settles

LEMMA ReturnSettles ==
  ASSUME Typed, NEW u \in Task, Return(u),
         task[u].op # "close" \/ conn'.cut \/ conn'.stream # "open"
  PROVE  \A v \in Task : Settles(v)
<1>1. task'[u] = Idle /\ \A v \in Task \ {u} : task'[v] = task[v]
  BY Constants, TaskIs DEF Place, Op
<1> QED BY <1>1 DEF Settles

LEMMA QueryConn ==
  ASSUME Typed, Typed', ConnInv, NEW u \in Task,
         \/ \E op \in {"start", "plain"} : Run(u, op)
         \/ Send(u) \/ Register(u) \/ CloseStream(u) \/ Shut(u)
  PROVE  Declines /\ \A v \in Task : Settles(v)
<1>0. /\ conn \in ConnType /\ conn.next_token \in Token /\ task \in [Task -> TaskState]
      /\ {"send", "run", "sent", "flush", "shut"} \subseteq Place
      /\ {"start", "plain", "stop", "close", "none"} \subseteq Op /\ 0 \in Token
      /\ task[u].op \in Op /\ task[u].op \in OpOf(task[u].pc)
  BY Constants DEF Typed, Place, Op, TaskState, ConnInv, PlaceInv
<1>1. ASSUME NEW op \in {"start", "plain"}, Run(u, op)
      PROVE  Declines /\ \A v \in Task : Settles(v)
  <2> DEFINE cn == [conn EXCEPT !.next_token = @ + 1]
             t == conn.next_token
  <2>1. t + 1 \in 0 .. MaxToken + 1
    BY <1>0, <1>1, Constants DEF Run, Token
  <2>2. /\ cn \in ConnType
        /\ cn.stage = conn.stage /\ cn.timer = conn.timer /\ cn.cut = conn.cut
        /\ cn.stream = conn.stream /\ cn.closed = conn.closed /\ cn.closing = conn.closing
        /\ cn.attached = conn.attached /\ cn.reader = conn.reader
    BY <1>0, <2>1 DEF ConnType
  <2>3. Steady /\ task[u] = Idle /\ conn.stream # "none"
    BY <1>1, ConnFacts DEF Run, Steady, srvVars
  <2>4. op \in OpOf("send") /\ op \in OpOf("run") /\ Idle.op = "none"
    BY IdleType DEF OpOf
  <2>5. CASE driver = "trio"
    <3>1. At(u, "send", op, t) /\ conn' = cn
      BY <1>1, <2>5 DEF Run
    <3>2. \A v \in Task : Settles(v)
      BY <1>0, <2>3, <2>4, <2>5, <3>1, MovesSettle
    <3>3. Declines
      <4>1. conn' = Written(cn, TRUE) /\ TRUE \in BOOLEAN
        BY <3>1 DEF Written
      <4> HIDE DEF cn
      <4> QED BY <2>2, <2>3, <4>1, WriteDeclines
    <3> QED BY <3>2, <3>3
  <2>6. CASE driver # "trio"
    <3>1. PICK ok \in BOOLEAN : conn' = Written(cn, ok) /\ (At(u, "run", op, t) \/ task' = task)
      BY <1>1, <2>6 DEF Run
    <3>2. \A v \in Task : Settles(v)
      BY <1>0, <2>3, <2>4, <2>6, <3>1, MovesSettle
    <3>3. Declines
      <4> HIDE DEF cn
      <4> QED BY <2>2, <2>3, <3>1, WriteDeclines
    <3> QED BY <3>2, <3>3
  <2> QED BY <2>5, <2>6
<1>2. CASE Send(u)
  <2>1. PICK ok \in BOOLEAN : conn' = Written(conn, ok)
    BY <1>2 DEF Send
  <2>2. Steady /\ driver = "trio"
    BY <1>2 DEF Send, Steady, srvVars, ConnInv, PlaceInv
  <2>3. Declines
    BY <1>0, <2>1, <2>2, WriteDeclines
  <2>4. \A v \in Task : Settles(v)
    <3>1. CASE task[u].op = "stop"
      BY <1>2, <3>1, ReturnSettles DEF Send
    <3>2. CASE task[u].op # "stop"
      <4>1. task[u].op \in OpOf("sent") /\ Goto(u, "sent")
        BY <1>0, <1>2, <3>2 DEF Send, OpOf
      <4> QED BY <1>0, <2>2, <4>1, MovesSettle
    <3> QED BY <3>1, <3>2
  <2> QED BY <2>3, <2>4
<1>3. CASE Register(u)
  <2>1. Steady /\ conn' = conn
    BY <1>3 DEF Register, Steady, srvVars
  <2>2. \A v \in Task : Settles(v)
    <3>1. CASE task[u].op = "close"
      <4>1. task[u].op \in OpOf("flush") /\ Goto(u, "flush")
        BY <1>3, <3>1 DEF Register, OpOf
      <4> QED BY <1>0, <4>1, MovesSettle
    <3>2. CASE task[u].op # "close"
      <4>1. task[u].op \in OpOf("run") /\ Goto(u, "run")
        BY <1>0, <1>3, <3>2 DEF Register, OpOf
      <4> QED BY <1>0, <4>1, MovesSettle
    <3> QED BY <3>1, <3>2
  <2> QED BY <2>1, <2>2, QuietDeclines
<1>4. CASE CloseStream(u)
  <2>1. task[u].op = "close" /\ ~conn.attached /\ conn.closing
        /\ conn.stage \in {"ready", "failed"}
    BY <1>4, ConnFacts DEF CloseStream
  <2>2. Steady /\ conn' = Shutdown(conn)
    BY <1>4 DEF CloseStream, Steady, srvVars
  <2>3. /\ conn'.stream # "open"
        /\ conn'.stream = conn.stream \/ (conn.stream = "open" /\ conn'.stream \in {"closed", "draining"})
        /\ conn'.attached = conn.attached
        /\ conn'.stage = conn.stage /\ conn'.closing = conn.closing
        /\ conn'.closed = conn.closed /\ conn'.timer = conn.timer
        /\ conn'.cut = conn.cut /\ conn'.reader = conn.reader
    BY <1>0, <2>2, ShutdownIs
  <2>4. Declines
    BY <2>1, <2>2, <2>3 DEF Declines, Steady
  <2>5. \A v \in Task : Settles(v)
    <3>1. CASE driver = "trio"
      <4>1. Goto(u, "shut")
        BY <1>4, <3>1 DEF CloseStream
      <4>2. /\ task'[u].pc = "shut" /\ task'[u].op = "close"
            /\ \A v \in Task \ {u} : task'[v] = task[v]
        BY <1>0, <2>1, <4>1, TaskIs
      <4> QED BY <2>1, <2>3, <3>1, <4>2 DEF Settles, OpOf
    <3>2. CASE driver # "trio"
      BY <1>4, <2>3, <3>2, ReturnSettles DEF CloseStream
    <3> QED BY <3>1, <3>2
  <2> QED BY <2>4, <2>5
<1>5. CASE Shut(u)
  <2>1. Steady /\ conn' = conn /\ Return(u) /\ task[u].pc = "shut"
    BY <1>5 DEF Shut, Steady, srvVars
  <2>2. conn'.stream # "open"
    BY <2>1 DEF ConnInv, StageInv
  <2> QED BY <2>1, <2>2, QuietDeclines, ReturnSettles
<1> QED BY <1>1, <1>2, <1>3, <1>4, <1>5

LEMMA ContinueConn ==
  ASSUME Typed, ConnInv, NEW t \in Token, ContinueRuns(t)
  PROVE  Declines /\ \A v \in Task : Settles(v)
<1>1. PICK ok \in BOOLEAN : conn' = Written(conn, ok)
  BY DEF ContinueRuns
<1>2. Steady /\ driver = "trio" /\ conn \in ConnType
  BY DEF ContinueRuns, Steady, srvVars, ConnInv, PlaceInv, Typed
<1>3. \A v \in Task : Settles(v)
  BY DEF ContinueRuns, Settles
<1> QED BY <1>1, <1>2, <1>3, WriteDeclines

(* A task that is cancelled.                                               *)
LEMMA CancelConn ==
  ASSUME Typed, Typed', ConnInv, NEW u \in Task, Cancel(u)
  PROVE  ConnInv'
<1> DEFINE shaken == task[u].pc = "handshake"
           closes == task[u].op = "close" /\ task[u].pc # "shut"
           sd == Shutdown(conn)
<1>0. /\ conn \in ConnType /\ conn' \in ConnType /\ task \in [Task -> TaskState]
      /\ UNCHANGED <<driver, link, conts, cursor>> /\ Return(u) /\ driver # "tornado"
      /\ Steady /\ Idle.pc = "idle"
  BY IdleType DEF Typed, Cancel, srvVars, Steady
<1>1. conn' = IF shaken /\ driver = "gevent" THEN [sd EXCEPT !.stage = "failed"]
              ELSE IF closes /\ driver = "twisted" THEN sd
              ELSE [conn EXCEPT !.stage = IF shaken THEN "failed" ELSE @,
                                !.cut = @ \/ shaken \/ closes]
  BY DEF Cancel
<1>2. task'[u] = Idle /\ \A v \in Task \ {u} : task'[v] = task[v]
  BY <1>0, Constants, TaskIs DEF Place, Op
<1>3. /\ sd \in ConnType /\ sd.stream # "open"
      /\ sd.stream = conn.stream \/ (conn.stream = "open" /\ sd.stream \in {"closed", "draining"})
      /\ sd.attached = conn.attached /\ sd.stage = conn.stage /\ sd.closing = conn.closing
      /\ sd.closed = conn.closed /\ sd.timer = conn.timer
      /\ sd.cut = conn.cut /\ sd.reader = conn.reader
  BY <1>0, ShutdownIs
<1>4. shaken => task[u].op = "connect"
  BY ConnFacts
<1>5. CASE shaken
  <2>1. /\ conn.stage = "handshake" /\ conn.stream # "none" /\ conn.reader = "none"
        /\ ~conn.closing /\ conn.attached /\ Connecting(u)
    BY <1>5 DEF ConnInv, StageInv, Connecting
  <2>2. /\ conn'.stage = "failed" /\ conn'.reader = conn.reader
        /\ conn'.attached = conn.attached /\ conn'.closing = conn.closing
        /\ conn'.closed = conn.closed /\ conn'.timer = conn.timer
        /\ conn'.stream # "open" \/ (conn'.stream = conn.stream /\ conn'.cut)
        /\ conn.cut => conn'.cut
    <3>1. CASE driver = "gevent"
      <4>1. conn' = [sd EXCEPT !.stage = "failed"]
        BY <1>1, <1>5, <3>1
      <4> HIDE DEF sd
      <4> QED BY <1>3, <4>1 DEF ConnType
    <3>2. CASE driver # "gevent"
      <4>1. conn' = [conn EXCEPT !.stage = "failed", !.cut = TRUE]
        <5>1. ~closes
          BY <1>4, <1>5
        <5>2. conn' = [conn EXCEPT !.stage = "failed", !.cut = conn.cut \/ shaken \/ closes]
          BY <1>1, <1>5, <3>2, <5>1
        <5> QED BY <1>5, <5>2
      <4> QED BY <1>0, <4>1 DEF ConnType
    <3> QED BY <3>1, <3>2
  <2>3. \A v \in Task : Connects(v) /\ ~Connecting(v)'
    BY <1>0, <1>2, <2>1 DEF Connects, Connecting, ConnInv, StageInv
  <2> QED BY <1>0, <2>1, <2>2, <2>3, ConnectKeeps DEF Connecting
<1>6. CASE ~shaken
  <2>1. CASE closes /\ driver = "twisted"
    <3>1. conn' = sd
      BY <1>1, <1>6, <2>1
    <3>2. Declines
      BY <1>0, <1>3, <3>1 DEF Declines, Steady
    <3>3. \A v \in Task : Settles(v)
      BY <1>0, <1>3, <3>1, ReturnSettles
    <3> QED BY <3>2, <3>3, DeclineStep
  <2>2. CASE ~(closes /\ driver = "twisted")
    <3> DEFINE ct == conn.cut \/ shaken \/ closes
    <3>1. conn' = [conn EXCEPT !.cut = ct]
      <4>1. conn' = [conn EXCEPT !.stage = conn.stage, !.cut = ct]
        BY <1>1, <1>6, <2>2
      <4> HIDE DEF ct
      <4> QED BY <1>0, <4>1 DEF ConnType
    <3>2. ct \in BOOLEAN /\ (conn.cut => ct) /\ (closes => ct)
          /\ (ct => conn.cut \/ conn.stage \in {"ready", "failed"})
      BY <1>0, <1>6, ConnFacts DEF ConnType
    <3> HIDE DEF ct
    <3>3. /\ conn'.stream = conn.stream /\ conn'.stage = conn.stage /\ conn'.reader = conn.reader
          /\ conn'.attached = conn.attached /\ conn'.closing = conn.closing
          /\ conn'.closed = conn.closed /\ conn'.timer = conn.timer /\ conn'.cut = ct
      BY <1>0, <3>1, <3>2 DEF ConnType
    <3>4. Declines
      BY <1>0, <3>2, <3>3 DEF Declines, Steady
    <3>5. task[u].op # "close" \/ conn'.cut \/ conn'.stream # "open"
      BY <3>2, <3>3 DEF ConnInv, StageInv
    <3>6. \A v \in Task : Settles(v)
      BY <1>0, <3>5, ReturnSettles
    <3> QED BY <3>4, <3>6, DeclineStep
  <2> QED BY <2>1, <2>2
<1> QED BY <1>5, <1>6

(* The steps of next() and fetch_next(): those that may ask for a batch,   *)
(* and those that touch rows and waiters only.                             *)
Counts(t, wants) ==
  /\ \A d \in Token \ {t} : cursor'[d] = cursor[d]
  /\ cursor'[t].outstanding = IF wants THEN 1 ELSE cursor[t].outstanding
  /\ cursor'[t].error = cursor[t].error /\ cursor'[t].stale = cursor[t].stale

Proceeds(u, t) ==
  /\ \A v \in Task \ {u} : task'[v] = task[v]
  /\ \/ task'[u] = task[u]
     \/ task'[u] = Idle /\ task[u].pc = "next"
     \/ /\ task'[u].pc \in {"next", "wait", "get", "fetch"} /\ task'[u].op = "next"
        /\ task'[u].t = t /\ task[u] = Idle
     \/ task'[u].pc = "wait" /\ task'[u].op = task[u].op /\ task'[u].t = t /\ task[u].pc = "next"
        /\ task[u].t = t

LEMMA FetchStep ==
  ASSUME Typed, NEW u \in Task,
         \/ NextWait(u)
         \/ \E t \in Token : NextCall(u, t) \/ \E pc \in {"get", "fetch"} : TwistedNext(u, t, pc)
  PROVE  /\ UNCHANGED <<driver, queries, cached, held, link, sent, done, faults>>
         /\ \E t \in Token, wants \in BOOLEAN, raised \in BOOLEAN :
              /\ Fetch(awaiting, t, wants, conn', raised)
              /\ wants => cursor[t].error = "None" /\ cursor[t].outstanding = 0
              /\ Counts(t, wants) /\ Proceeds(u, t)
<1>0. /\ cursor \in [Token -> Cur] /\ task \in [Task -> TaskState] /\ task[u].t \in Token
      /\ {"next", "wait", "get", "fetch"} \subseteq Place /\ "next" \in Op
  BY DEF Typed, TaskState, Place, Op
<1>1. ASSUME NEW t \in Token, NEW wants \in BOOLEAN,
             cursor' = [cursor EXCEPT ![t] = Counted(cursor[t], wants)]
      PROVE  Counts(t, wants)
  <2>1. Counted(cursor[t], wants) \in Cur
        /\ Counted(cursor[t], wants).outstanding = (IF wants THEN 1 ELSE cursor[t].outstanding)
        /\ Counted(cursor[t], wants).error = cursor[t].error
        /\ Counted(cursor[t], wants).stale = cursor[t].stale
    BY <1>0, CountedIs
  <2> QED BY <1>0, <1>1, <2>1, CursorSet DEF Counts
<1>2. CASE NextWait(u)
  <2> DEFINE t == task[u].t
             wants == driver # "gevent" /\ WantsBatch(cursor[t])
  <2>1. wants \in BOOLEAN /\ (wants => cursor[t].error = "None" /\ cursor[t].outstanding = 0)
    BY DEF WantsBatch
  <2>2. PICK cn \in Outcomes, raised \in BOOLEAN :
          /\ Fetch(awaiting, t, wants, cn, raised)
          /\ conn' = cn
          /\ IF raised THEN Return(u) ELSE Goto(u, "wait")
    BY <1>2 DEF NextWait
  <2>3. cursor' = [cursor EXCEPT ![t] = Counted(cursor[t], wants)] /\ task[u].pc = "next"
    BY <1>2 DEF NextWait
  <2> HIDE DEF wants
  <2>4. Counts(t, wants)
    BY <1>0, <1>1, <2>1, <2>3
  <2>5. Proceeds(u, t)
    BY <1>0, <2>2, <2>3, TaskIs DEF Proceeds
  <2>6. Fetch(awaiting, t, wants, conn', raised)
    BY <2>2
  <2>7. UNCHANGED <<driver, queries, cached, held, link, sent, done, faults>>
    BY <1>2 DEF NextWait, srvVars
  <2> QED BY <1>0, <2>1, <2>4, <2>5, <2>6, <2>7
<1>3. ASSUME NEW t \in Token, NextCall(u, t)
      PROVE  \E wants \in BOOLEAN, raised \in BOOLEAN :
              /\ Fetch(awaiting, t, wants, conn', raised)
              /\ wants => cursor[t].error = "None" /\ cursor[t].outstanding = 0
              /\ Counts(t, wants) /\ Proceeds(u, t)
  <2> DEFINE wants == driver = "gevent" /\ WantsBatch(cursor[t])
  <2>1. wants \in BOOLEAN /\ (wants => cursor[t].error = "None" /\ cursor[t].outstanding = 0)
    BY DEF WantsBatch
  <2>2. PICK cn \in Outcomes, raised \in BOOLEAN :
          /\ Fetch(awaiting, t, wants, cn, raised)
          /\ conn' = cn
          /\ IF raised THEN UNCHANGED task ELSE At(u, "next", "next", t)
    BY <1>3 DEF NextCall
  <2>3. cursor' = [cursor EXCEPT ![t] = Counted(cursor[t], wants)] /\ task[u] = Idle
    BY <1>3 DEF NextCall
  <2> HIDE DEF wants
  <2>4. Counts(t, wants)
    BY <1>0, <1>1, <2>1, <2>3
  <2>5. Proceeds(u, t)
    BY <1>0, <2>2, <2>3, TaskIs DEF Proceeds
  <2>6. Fetch(awaiting, t, wants, conn', raised)
    BY <2>2
  <2> QED BY <1>0, <2>1, <2>4, <2>5, <2>6
<1>4. ASSUME NEW t \in Token, NEW pc \in {"get", "fetch"}, TwistedNext(u, t, pc)
      PROVE  \E wants \in BOOLEAN, raised \in BOOLEAN :
              /\ Fetch(awaiting, t, wants, conn', raised)
              /\ wants => cursor[t].error = "None" /\ cursor[t].outstanding = 0
              /\ Counts(t, wants) /\ Proceeds(u, t)
  <2> DEFINE c == cursor[t]
             after == IF pc = "fetch" THEN [c EXCEPT !.waiting = IF c.stale THEN @ ELSE Append(@, u)]
                      ELSE IF c.items > 0 THEN [c EXCEPT !.items = @ - 1, !.got = @ + 1]
                      ELSE [c EXCEPT !.getters = Append(@, u)]
             wants == WantsBatch(after)
  <2>1. /\ Fetch(awaiting, t, wants, conn, FALSE) /\ conn' = conn /\ task[u] = Idle
        /\ cursor' = [cursor EXCEPT ![t] = Counted(after, wants)]
        /\ task' = task \/ At(u, pc, "next", t)
    BY <1>4 DEF TwistedNext, srvVars
  <2>2. c \in Cur
    BY <1>0
  <2>3. after \in Cur /\ after.error = c.error /\ after.outstanding = c.outstanding
        /\ after.stale = c.stale
    <3> HIDE DEF c
    <3>1. Append(c.waiting, u) \in Seq(Task) /\ Append(c.getters, u) \in Seq(Task)
      BY <2>2 DEF Cur
    <3>2. c.items > 0 => c.items - 1 \in Nat /\ c.got + 1 \in Nat
      BY <2>2 DEF Cur
    <3>3. CASE pc = "fetch"
      <4>1. \/ after = [c EXCEPT !.waiting = c.waiting] \/ after = [c EXCEPT !.waiting = Append(c.waiting, u)]
        BY <3>3
      <4> QED BY <2>2, <3>1, <4>1 DEF Cur
    <3>4. CASE pc # "fetch" /\ c.items > 0
      BY <2>2, <3>2, <3>4 DEF Cur
    <3>5. CASE pc # "fetch" /\ ~(c.items > 0)
      BY <2>2, <3>1, <3>5 DEF Cur
    <3> QED BY <3>3, <3>4, <3>5
  <2>4. wants \in BOOLEAN /\ (wants => after.error = "None" /\ after.outstanding = 0)
    BY DEF WantsBatch
  <2> HIDE DEF after, wants, c
  <2>5. /\ Counted(after, wants) \in Cur
        /\ Counted(after, wants).outstanding = (IF wants THEN 1 ELSE after.outstanding)
        /\ Counted(after, wants).error = after.error /\ Counted(after, wants).stale = after.stale
    BY <2>3, <2>4, CountedIs
  <2>6. Counts(t, wants)
    BY <2>1, <2>3, <2>5, CursorSet DEF Counts, c
  <2>7. Proceeds(u, t)
    BY <1>0, <2>1, TaskIs DEF Proceeds
  <2>8. Fetch(awaiting, t, wants, conn', FALSE) /\ FALSE \in BOOLEAN
    BY <2>1
  <2>9. wants => cursor[t].error = "None" /\ cursor[t].outstanding = 0
    BY <2>3, <2>4 DEF c
  <2> QED BY <2>4, <2>6, <2>7, <2>8, <2>9
<1>5. UNCHANGED <<driver, queries, cached, held, link, sent, done, faults>>
  BY <1>2 DEF NextWait, NextCall, TwistedNext, srvVars
<1> QED BY <1>2, <1>3, <1>4, <1>5

LEMMA RowStep ==
  ASSUME Typed, NEW u \in Task,
         NextItem(u) \/ NextError(u) \/ TakeRow(u) \/ NextTimeout(u)
  PROVE  /\ UNCHANGED <<driver, conn, queries, cached, held, conts, link, sent, done, awaiting, faults>>
         /\ task[u].pc \in {"next", "taken", "wait", "get", "fetch"} /\ Return(u)
         /\ \A t \in Token : /\ cursor'[t].error = cursor[t].error
                             /\ cursor'[t].outstanding = cursor[t].outstanding
                             /\ cursor[t].stale => cursor'[t].stale
<1>0. /\ cursor \in [Token -> Cur] /\ task[u].t \in Token
  BY DEF Typed, TaskState
<1>1. CASE NextItem(u)
  <2> DEFINE t == task[u].t
             c == cursor[t]
  <2>1. \/ cursor' = cursor
        \/ cursor' = [cursor EXCEPT ![t] = [c EXCEPT !.items = c.items - 1, !.got = c.got + 1]]
    BY <1>0, <1>1 DEF NextItem
  <2>2. c \in Cur /\ t \in Token
    BY <1>0
  <2> HIDE DEF t, c
  <2>3. \A d \in Token : cursor'[d] = cursor[d] \/ (d = t /\ cursor'[d] =
                           [c EXCEPT !.items = c.items - 1, !.got = c.got + 1])
    BY <1>0, <2>1
  <2>4. [c EXCEPT !.items = c.items - 1, !.got = c.got + 1].error = c.error
        /\ [c EXCEPT !.items = c.items - 1, !.got = c.got + 1].outstanding = c.outstanding
        /\ [c EXCEPT !.items = c.items - 1, !.got = c.got + 1].stale = c.stale
    BY <2>2 DEF Cur
  <2>5. \A d \in Token : /\ cursor'[d].error = cursor[d].error
                         /\ cursor'[d].outstanding = cursor[d].outstanding
                         /\ cursor[d].stale => cursor'[d].stale
    BY <2>3, <2>4 DEF c
  <2> QED BY <1>1, <2>5 DEF NextItem, srvVars
<1>2. CASE NextError(u)
  BY <1>2 DEF NextError, srvVars
<1>3. CASE TakeRow(u)
  <2> DEFINE t == task[u].t
             c == cursor[t]
  <2>1. cursor' = [cursor EXCEPT ![t] = [c EXCEPT !.got = c.got + 1]]
    BY <1>0, <1>3 DEF TakeRow
  <2>2. c \in Cur /\ t \in Token
    BY <1>0
  <2> HIDE DEF t, c
  <2>3. \A d \in Token : cursor'[d] = cursor[d] \/ (d = t /\ cursor'[d] = [c EXCEPT !.got = c.got + 1])
    BY <1>0, <2>1
  <2>4. [c EXCEPT !.got = c.got + 1].error = c.error
        /\ [c EXCEPT !.got = c.got + 1].outstanding = c.outstanding
        /\ [c EXCEPT !.got = c.got + 1].stale = c.stale
    BY <2>2 DEF Cur
  <2>5. \A d \in Token : /\ cursor'[d].error = cursor[d].error
                         /\ cursor'[d].outstanding = cursor[d].outstanding
                         /\ cursor[d].stale => cursor'[d].stale
    BY <2>3, <2>4 DEF c
  <2> QED BY <1>3, <2>5 DEF TakeRow, srvVars
<1>4. CASE NextTimeout(u)
  <2> DEFINE t == task[u].t
             c == cursor[t]
             g == RemoveAt(c.getters, Position(c.getters, u))
             w == SubSeq(c.waiting, 1, Position(c.waiting, u) - 1)
  <2>1. cursor' = [cursor EXCEPT ![t] =
          IF u \in ToSet(c.getters) THEN [c EXCEPT !.getters = g]
          ELSE IF u \in ToSet(c.waiting) THEN [c EXCEPT !.waiting = w, !.stale = TRUE]
          ELSE c]
    BY <1>4 DEF NextTimeout
  <2>2. c \in Cur /\ t \in Token
    BY <1>0
  <2> HIDE DEF t, c, g, w
  <2>3. \A d \in Token : \/ cursor'[d] = cursor[d]
                         \/ d = t /\ cursor'[d] \in {[c EXCEPT !.getters = g], c,
                                                     [c EXCEPT !.waiting = w, !.stale = TRUE]}
    BY <1>0, <2>1
  <2>4. \A x \in {[c EXCEPT !.getters = g], c, [c EXCEPT !.waiting = w, !.stale = TRUE]} :
          x.error = c.error /\ x.outstanding = c.outstanding /\ (c.stale => x.stale)
    BY <2>2 DEF Cur
  <2>5. \A d \in Token : /\ cursor'[d].error = cursor[d].error
                         /\ cursor'[d].outstanding = cursor[d].outstanding
                         /\ cursor[d].stale => cursor'[d].stale
    BY <2>3, <2>4 DEF c
  <2> QED BY <1>4, <2>5 DEF NextTimeout, srvVars
<1> QED BY <1>1, <1>2, <1>3, <1>4

LEMMA StopIs ==
  ASSUME Typed, NEW u \in Task, NEW t \in Token, CursorClose(u, t)
  PROVE  /\ task[u] = Idle /\ t \in held /\ cursor[t].error = "None"
         /\ UNCHANGED <<driver, queries, cached, held, conts, link, sent, done, faults>>
         /\ \A d \in Token \ {t} : cursor'[d] = cursor[d]
         /\ cursor'[t].error = "Stopped" /\ cursor'[t].stale = cursor[t].stale
         /\ cursor'[t].items = cursor[t].items /\ cursor'[t].got = cursor[t].got
         /\ cursor'[t].getters = cursor[t].getters
         /\ cursor'[t].outstanding = IF IsOpen THEN cursor[t].outstanding + 1
                                     ELSE cursor[t].outstanding
         /\ \/ /\ IsOpen /\ driver = "trio" /\ At(u, "send", "stop", t)
               /\ conn' = conn /\ awaiting' = awaiting
            \/ /\ task' = task /\ (IsOpen => driver # "trio")
               /\ \/ conn' = conn /\ awaiting' = awaiting
                  \/ /\ IsOpen /\ Usable
                     /\ \E ok \in BOOLEAN : /\ Writes(ok) /\ conn' = Written(conn, ok)
                                            /\ awaiting' = Deliver(awaiting, t, ok)
<1> DEFINE o == IF IsOpen THEN cursor[t].outstanding + 1 ELSE cursor[t].outstanding
           c == cursor[t]
<1>1. cursor' = [cursor EXCEPT ![t].error = "Stopped", ![t].outstanding = o]
  BY DEF CursorClose
<1>2. c \in Cur /\ cursor \in [Token -> Cur]
  BY DEF Typed
<1> HIDE DEF o
<1>3. cursor' = [d \in Token |-> IF d = t THEN [c EXCEPT !.error = "Stopped", !.outstanding = o]
                                 ELSE cursor[d]]
  BY <1>1, <1>2
<1> HIDE DEF c
<1>4. /\ \A d \in Token \ {t} : cursor'[d] = cursor[d]
      /\ cursor'[t].error = "Stopped" /\ cursor'[t].stale = c.stale
      /\ cursor'[t].items = c.items /\ cursor'[t].got = c.got
      /\ cursor'[t].getters = c.getters /\ cursor'[t].outstanding = o
  BY <1>2, <1>3 DEF Cur
<1>5. /\ task[u] = Idle /\ t \in held /\ cursor[t].error = "None"
      /\ UNCHANGED <<driver, queries, cached, held, conts, link, sent, done, faults>>
      /\ \/ /\ IsOpen /\ driver = "trio" /\ At(u, "send", "stop", t)
            /\ conn' = conn /\ awaiting' = awaiting
         \/ /\ task' = task /\ (IsOpen => driver # "trio")
            /\ \/ conn' = conn /\ awaiting' = awaiting
               \/ /\ IsOpen /\ Usable
                  /\ \E ok \in BOOLEAN : /\ Writes(ok) /\ conn' = Written(conn, ok)
                                         /\ awaiting' = Deliver(awaiting, t, ok)
  BY DEF CursorClose, srvVars
<1> QED BY <1>4, <1>5 DEF c, o

LEMMA FetchConn ==
  ASSUME Typed, ConnInv, NEW u \in Task, NEW t \in Token, NEW wants \in BOOLEAN,
         NEW raised \in BOOLEAN, Fetch(awaiting, t, wants, conn', raised),
         driver' = driver, link' = link, Counts(t, wants), Proceeds(u, t)
  PROVE  Declines /\ \A v \in Task : Settles(v)
<1>1. awaiting \in [Token -> Nat]
  BY DEF Typed
<1>2. /\ conts' # conts => driver = "trio"
      /\ conn' = conn \/ (Usable /\ conn' = [conn EXCEPT !.stream = "closed"])
  BY <1>1, FetchIs
<1>3. Steady
  BY <1>2 DEF Steady, Counts
<1>4. ASSUME NEW v \in Task PROVE Settles(v)
  <2>1. /\ task[u].pc = "next" => task[u].op = "next"
        /\ Idle.op = "none"
    BY ConnFacts, IdleType
  <2> QED BY <2>1 DEF Proceeds, Settles, OpOf
<1> QED BY <1>2, <1>3, <1>4, OutcomeDeclines

LEMMA CursorConn ==
  ASSUME Typed, ConnInv, NEW u \in Task,
         \/ \E t \in Token : NextCall(u, t) \/ CursorClose(u, t)
                             \/ \E pc \in {"get", "fetch"} : TwistedNext(u, t, pc)
         \/ NextItem(u) \/ NextError(u) \/ NextWait(u) \/ TakeRow(u) \/ NextTimeout(u)
  PROVE  Declines /\ \A v \in Task : Settles(v)
<1>1. CASE \/ NextWait(u)
           \/ \E t \in Token : NextCall(u, t) \/ \E pc \in {"get", "fetch"} : TwistedNext(u, t, pc)
  <2>1. /\ UNCHANGED <<driver, queries, cached, held, link, sent, done, faults>>
        /\ \E t \in Token, wants \in BOOLEAN, raised \in BOOLEAN :
              /\ Fetch(awaiting, t, wants, conn', raised)
              /\ wants => cursor[t].error = "None" /\ cursor[t].outstanding = 0
              /\ Counts(t, wants) /\ Proceeds(u, t)
    BY <1>1, FetchStep
  <2> QED BY <2>1, FetchConn
<1>2. CASE NextItem(u) \/ NextError(u) \/ TakeRow(u) \/ NextTimeout(u)
  <2>1. /\ UNCHANGED <<driver, conn, queries, cached, held, conts, link, sent, done, awaiting, faults>>
        /\ task[u].pc \in {"next", "taken", "wait", "get", "fetch"} /\ Return(u)
        /\ \A t \in Token : /\ cursor'[t].error = cursor[t].error
                            /\ cursor'[t].outstanding = cursor[t].outstanding
                            /\ cursor[t].stale => cursor'[t].stale
    BY <1>2, RowStep
  <2>2. Steady
    BY <2>1 DEF Steady
  <2>3. task[u].op # "close"
    BY <2>1, ConnFacts
  <2> QED BY <2>1, <2>2, <2>3, QuietDeclines, ReturnSettles
<1>3. ASSUME NEW t \in Token, CursorClose(u, t)
      PROVE  Declines /\ \A v \in Task : Settles(v)
  <2>1. /\ task[u] = Idle
        /\ UNCHANGED <<driver, conts, link>>
        /\ \A d \in Token \ {t} : cursor'[d] = cursor[d]
        /\ cursor'[t].stale = cursor[t].stale
        /\ \/ /\ driver = "trio" /\ At(u, "send", "stop", t) /\ conn' = conn
           \/ /\ task' = task
              /\ \/ conn' = conn
                 \/ Usable /\ \E ok \in BOOLEAN : conn' = Written(conn, ok)
    BY <1>3, StopIs
  <2>2. Steady /\ conn \in ConnType
    BY <2>1 DEF Steady, Typed
  <2>3. Declines
    <3>1. CASE conn' = conn
      BY <2>2, <3>1, QuietDeclines
    <3>2. CASE Usable /\ \E ok \in BOOLEAN : conn' = Written(conn, ok)
      BY <2>2, <3>2, WriteDeclines, ConnFacts
    <3> QED BY <2>1, <3>1, <3>2
  <2>4. \A v \in Task : Settles(v)
    <3>1. "stop" \in OpOf("send") /\ "send" \in Place /\ "stop" \in Op /\ Idle.op = "none"
      BY IdleType DEF OpOf, Place, Op
    <3>2. CASE task' = task
      BY <3>2 DEF Settles
    <3>3. CASE driver = "trio" /\ At(u, "send", "stop", t)
      BY <2>1, <3>1, <3>3, MovesSettle
    <3> QED BY <2>1, <3>2, <3>3
  <2> QED BY <2>3, <2>4
<1> QED BY <1>1, <1>2, <1>3

(* No task uses the next token yet.                                        *)
Asks(u) == task[u].pc \in {"send", "sent"}
FreshInv ==
  conn.attached => \A t \in Token : t >= conn.next_token =>
    /\ cursor[t].error = "Absent" /\ queries[t] = "none" /\ awaiting[t] = 0
    /\ \A u \in Task : Asks(u) => task[u].t # t

(* What becomes of everything when a connection tells its cursors.        *)
Told(w, cur, cache, tk, pending) ==
  /\ w.told \in SUBSET cache /\ w.whole \in BOOLEAN
  /\ \A t \in w.told : cur[t].error = "None"
  /\ ~w.whole => \E t \in w.told : cur[t].stale
  /\ \A t \in Token : cursor'[t] = IF t \in w.told THEN Served(Failed(cur[t])) ELSE cur[t]
  /\ cached' = IF w.whole THEN {} ELSE {t \in cache : t \in w.told => cur[t].outstanding # 1}
  /\ queries' = IF w.whole
                THEN [t \in Token |-> IF t \in pending THEN "plain" ELSE "none"] ELSE queries
  /\ \A v \in Task : \/ Wakes(tk[v], task'[v])
                     \/ /\ task'[v] = Idle /\ w.whole
                        /\ tk[v].pc \in {"run", "flush"} /\ queries[tk[v].t] # "none"

LEMMA TellTold ==
  ASSUME Typed, NEW cur \in [Token -> Cur], NEW cache \in SUBSET Token, NEW w \in Tellings(cache, cur),
         NEW tk \in [Task -> TaskState], NEW pending, Tell(w, cur, cache, tk, pending)
  PROVE  Told(w, cur, cache, tk, pending)
<1>1. /\ w.told \in SUBSET cache /\ w.whole \in BOOLEAN
      /\ \A t \in w.told : cur[t].error = "None"
      /\ ~w.whole => \E t \in w.told : cur[t].stale
  BY TellingsAre
<1>2. w.told \in SUBSET Token
  BY <1>1
<1>3. /\ \A t \in Token : cursor'[t] = IF t \in w.told THEN Served(Failed(cur[t])) ELSE cur[t]
      /\ cached' = IF w.whole THEN {}
                   ELSE {t \in cache : t \in w.told => cur[t].outstanding # 1}
      /\ queries' = IF w.whole
                    THEN [t \in Token |-> IF t \in pending THEN "plain" ELSE "none"] ELSE queries
      /\ \A v \in Task : \/ Wakes(tk[v], task'[v])
                         \/ /\ task'[v] = Idle /\ w.whole
                            /\ tk[v].pc \in {"run", "flush"} /\ queries[tk[v].t] # "none"
  BY <1>1, <1>2, TellIs
<1> QED BY <1>1, <1>3 DEF Told

(* What close() does with its caller, the NOREPLY_WAIT and the stream.     *)
Closes(u, w, tk, pending) ==
  \/ /\ ~w.whole /\ tk = task /\ pending = {} /\ conn'.stream = conn.stream
     /\ awaiting' = awaiting
  \/ /\ w.whole /\ driver = "trio" /\ tk = OnItsWay(u, "shut") /\ pending = {}
     /\ conn'.stream # "open" /\ awaiting' = awaiting
  \/ /\ w.whole /\ driver # "trio" /\ tk = task /\ pending = {}
     /\ conn'.stream # "open" /\ awaiting' = awaiting
  \/ /\ w.whole /\ driver = "trio" /\ tk = OnItsWay(u, "send") /\ pending = {}
     /\ conn'.stream = conn.stream /\ awaiting' = awaiting
  \/ /\ w.whole /\ driver # "trio" /\ tk = OnItsWay(u, "flush")
     /\ pending = {conn.next_token} /\ conn'.stream = conn.stream
     /\ awaiting' = Deliver(awaiting, conn.next_token, TRUE)

LEMMA CloseTold ==
  ASSUME Typed, NEW u \in Task, NEW noreply_wait \in BOOLEAN, Close(u, noreply_wait)
  PROVE  \E w \in Tellings(cached, cursor), tk \in [Task -> TaskState],
            pending \in SUBSET {conn.next_token} :
              /\ Told(w, cursor, cached, tk, pending) /\ Closes(u, w, tk, pending)
              /\ Tell(w, cursor, cached, tk, pending)
<1>1. \E w \in Tellings(cached, cursor), tk \in [Task -> TaskState],
         pending \in SUBSET {conn.next_token} :
              Tell(w, cursor, cached, tk, pending) /\ Closes(u, w, tk, pending)
  BY CloseIs DEF Closes
<1>2. PICK w \in Tellings(cached, cursor), tk \in [Task -> TaskState],
           pending \in SUBSET {conn.next_token} :
              Tell(w, cursor, cached, tk, pending) /\ Closes(u, w, tk, pending)
  BY <1>1
<1>3. cached \in SUBSET Token /\ cursor \in [Token -> Cur]
  BY DEF Typed
<1>4. Told(w, cursor, cached, tk, pending)
  BY <1>2, <1>3, TellTold
<1> QED BY <1>2, <1>4

(* What Close does to the connection.                                      *)
Departs(u) ==
  /\ task[u] = Idle /\ conn.attached /\ conn.stage = "ready"
  /\ UNCHANGED <<driver, held, conts, link, sent, done, faults>>
  /\ ~conn'.attached /\ conn'.next_token = 0 /\ conn'.closing
  /\ conn'.stage = conn.stage /\ conn'.timer = conn.timer /\ conn'.cut = conn.cut
  /\ conn'.reader = conn.reader /\ conn'.closed = conn.closed
  /\ conn'.stream = "open" => conn.stream = "open"

LEMMA CloseDeparts ==
  ASSUME Typed, NEW u \in Task, NEW noreply_wait \in BOOLEAN, Close(u, noreply_wait)
  PROVE  Departs(u) /\ (conn.stream # "none" => conn'.stream # "none")
BY CloseIs DEF Departs

LEMMA OnItsWayIs ==
  ASSUME Typed, NEW u \in Task, NEW pc
  PROVE  /\ OnItsWay(u, pc)[u].pc = pc /\ OnItsWay(u, pc)[u].op = "close"
         /\ OnItsWay(u, pc)[u].t = conn.next_token
         /\ \A v \in Task \ {u} : OnItsWay(u, pc)[v] = task[v]
BY DEF OnItsWay, Typed

(* The caller of Close afterwards.                                         *)
LEMMA CloseCaller ==
  ASSUME Typed, NEW u \in Task, task[u] = Idle, queries[conn.next_token] = "none",
         NEW w, NEW tk, NEW pending, Told(w, cursor, cached, tk, pending),
         Closes(u, w, tk, pending)
  PROVE  /\ \A v \in Task \ {u} : tk[v] = task[v]
         /\ \/ tk = task /\ (~w.whole \/ conn'.stream # "open")
            \/ /\ task'[u] = tk[u] /\ tk[u].op = "close" /\ tk[u].t = conn.next_token
               /\ \/ tk[u].pc = "shut" /\ conn'.stream # "open" /\ driver = "trio"
                  \/ tk[u].pc = "send" /\ driver = "trio"
                  \/ tk[u].pc = "flush" /\ driver # "trio"
<1>1. CASE tk = task
  <2>1. ~w.whole \/ conn'.stream # "open"
    <3> SUFFICES ASSUME w.whole, conn'.stream = "open" PROVE FALSE
      OBVIOUS
    <3>1. \E pc : tk = OnItsWay(u, pc)
      BY DEF Closes
    <3>2. task[u].op = "close"
      BY <1>1, <3>1, OnItsWayIs
    <3> QED BY <3>2, IdleType
  <2> QED BY <1>1, <2>1
<1>2. CASE tk # task
  <2>1. PICK pc : /\ tk = OnItsWay(u, pc)
                  /\ \/ pc = "shut" /\ conn'.stream # "open" /\ driver = "trio"
                     \/ pc = "send" /\ driver = "trio"
                     \/ pc = "flush" /\ driver # "trio"
    BY <1>2 DEF Closes
  <2>2. /\ tk[u].pc = pc /\ tk[u].op = "close" /\ tk[u].t = conn.next_token
        /\ \A v \in Task \ {u} : tk[v] = task[v]
    BY <2>1, OnItsWayIs
  <2>3. task'[u] = tk[u]
    <3>1. \/ Wakes(tk[u], task'[u])
          \/ tk[u].pc \in {"run", "flush"} /\ queries[tk[u].t] # "none"
      BY DEF Told
    <3>2. queries[tk[u].t] = "none"
      BY <2>2
    <3> QED BY <2>1, <2>2, <3>1, <3>2 DEF Wakes
  <2> QED BY <2>1, <2>2, <2>3
<1> QED BY <1>1, <1>2

LEMMA ToldStale ==
  ASSUME Typed, NEW w, NEW tk, NEW pending, Told(w, cursor, cached, tk, pending)
  PROVE  /\ \A t \in Token : cursor'[t].stale <=> cursor[t].stale
         /\ ~w.whole => \E t \in Token : cursor'[t].stale
<1>1. cursor \in [Token -> Cur] /\ cached \in SUBSET Token
  BY DEF Typed
<1>2. ASSUME NEW t \in Token PROVE cursor'[t].stale <=> cursor[t].stale
  <2>1. Failed(cursor[t]) \in Cur /\ Failed(cursor[t]).stale = cursor[t].stale
    BY <1>1, FailedIs
  <2>2. Served(Failed(cursor[t])).stale = cursor[t].stale
    BY <2>1, ServedIs
  <2>3. cursor'[t] = Served(Failed(cursor[t])) \/ cursor'[t] = cursor[t]
    BY DEF Told
  <2> QED BY <2>2, <2>3
<1>3. ~w.whole => \E t \in Token : cursor[t].stale
  BY <1>1 DEF Told
<1> QED BY <1>2, <1>3

LEMMA CloseConn ==
  ASSUME Typed, Typed', ConnInv, FreshInv, NEW u \in Task, NEW noreply_wait \in BOOLEAN,
         Close(u, noreply_wait)
  PROVE  Declines /\ \A v \in Task : Settles(v)
<1>1. Departs(u) /\ (conn.stream # "none" => conn'.stream # "none")
  BY CloseDeparts
<1>2. PICK w, tk, pending : Told(w, cursor, cached, tk, pending) /\ Closes(u, w, tk, pending)
  BY CloseTold
<1>3. /\ conn.next_token \in Token /\ queries[conn.next_token] = "none" /\ task[u] = Idle
      /\ conn.stage = "ready" /\ conn.attached
  <2>1. conn.next_token \in Token /\ conn.next_token >= conn.next_token
    BY Constants DEF Typed, Token
  <2> QED BY <1>1, <2>1 DEF FreshInv, Departs
<1>4. /\ \A v \in Task \ {u} : tk[v] = task[v]
      /\ \/ tk = task /\ (~w.whole \/ conn'.stream # "open")
         \/ /\ task'[u] = tk[u] /\ tk[u].op = "close"
            /\ \/ tk[u].pc = "shut" /\ conn'.stream # "open" /\ driver = "trio"
               \/ tk[u].pc = "send" /\ driver = "trio"
               \/ tk[u].pc = "flush" /\ driver # "trio"
  BY <1>2, <1>3, CloseCaller
<1>5. /\ \A t \in Token : cursor'[t].stale <=> cursor[t].stale
      /\ ~w.whole => \E t \in Token : cursor'[t].stale
  BY <1>2, ToldStale
<1>6. Deserted
  BY <1>1, <1>4, <1>5 DEF Deserted, Departs
<1>7. /\ conn.stream \in {"open", "draining", "closed"}
      /\ conn'.stream \in {"open", "draining", "closed"}
      /\ conn.stream # "open" => conn'.stream = conn.stream \/ conn'.stream # "open"
  BY <1>1, <1>3, ConnFacts DEF Typed, ConnType, Departs
<1>8. Declines
  BY <1>1, <1>5, <1>6, <1>7 DEF Declines, Departs
<1>9. ASSUME NEW v \in Task PROVE Settles(v)
  <2>1. task[v].op # "close" /\ ~conn'.attached
    BY <1>1, <1>3, ConnFacts DEF Departs
  <2>2. CASE tk[v] = task[v]
    <3>1. Wakes(task[v], task'[v]) \/ task'[v] = Idle
      BY <1>2, <2>2 DEF Told
    <3> QED BY <2>1, <3>1, WakesSettle DEF Settles
  <2>3. CASE tk[v] # task[v]
    <3>1. /\ v = u /\ task'[v].op = "close"
          /\ \/ task'[v].pc = "shut" /\ conn'.stream # "open" /\ driver = "trio"
             \/ task'[v].pc = "send" /\ driver = "trio"
             \/ task'[v].pc = "flush" /\ driver # "trio"
      BY <1>4, <2>3
    <3> QED BY <2>1, <3>1 DEF Settles, OpOf
  <2> QED BY <2>2, <2>3
<1> QED BY <1>8, <1>9

(* What the reader asks for with a CONTINUE, before it may raise.          *)
LEMMA FetchWeakens ==
  ASSUME Typed, ConnInv, NEW left \in [Token -> Nat], NEW t \in Token, NEW wants \in BOOLEAN,
         NEW cn, NEW raised \in BOOLEAN, Fetch(left, t, wants, cn, raised),
         driver' = driver, link' = link, conn.reader # "none"
  PROVE  /\ Weakens(cn) /\ cn \in ConnType /\ cn.next_token \in Token
         /\ conts' # {} => conts # {} \/ driver = "trio"
         /\ cn = conn \/ (Usable /\ cn = [conn EXCEPT !.stream = "closed"])
         /\ raised => cn.stream = "closed" \/ (~Usable /\ cn = conn)
<1>1. /\ conts' # conts => driver = "trio"
      /\ cn = conn \/ (Usable /\ cn = [conn EXCEPT !.stream = "closed"])
      /\ cn \in ConnType /\ cn.next_token = conn.next_token
      /\ raised => cn.stream = "closed" \/ (~Usable /\ cn = conn)
  BY FetchIs
<1>2. conn.next_token \in Token /\ conn \in ConnType
  BY DEF Typed
<1>3. /\ cn.stage = conn.stage /\ cn.timer = conn.timer /\ cn.cut = conn.cut
      /\ cn.stream = conn.stream \/ cn.stream = "closed"
      /\ cn.closed = conn.closed
      /\ cn.closing = conn.closing /\ cn.attached = conn.attached
      /\ cn.reader = conn.reader
  BY <1>1, <1>2 DEF ConnType
<1> QED BY <1>1, <1>2, <1>3 DEF Weakens

LEMMA StirsSelf ==
  ASSUME Typed
  PROVE  Stirs(cursor, task)
BY DEF Stirs, Wakes

LEMMA BatchStirs ==
  ASSUME Typed, NEW t \in Token, NEW r \in Response
  PROVE  /\ Stirs([cursor EXCEPT ![t] = Asked(t)], task)
         /\ Stirs([cursor EXCEPT ![t] = After(t, r)], Roused(t, r))
<1>1. Asked(t).stale = cursor[t].stale /\ After(t, r).stale = cursor[t].stale
  BY BatchParts
<1>2. \A v \in Task : Wakes(task[v], Roused(t, r)[v])
  BY WokenIs DEF Typed, Roused
<1>3. \A v \in Task : Wakes(task[v], task[v])
  BY DEF Wakes
<1>4. cursor \in [Token -> Cur]
  BY DEF Typed
<1> QED BY <1>1, <1>2, <1>3, <1>4 DEF Stirs

LEMMA ReadsRun == ASSUME NEW t, Reads(t) PROVE conn.reader = "run" /\ awaiting[t] > 0
BY DEF Reads, Reading

LEMMA BatchConn ==
  ASSUME Typed, Typed', ConnInv, NEW t \in Token, NEW r \in Response, ReadBatch(t, r)
  PROVE  Declines /\ \A v \in Task : Settles(v)
<1>1. PICK cn \in ConnType, raised \in BOOLEAN :
           /\ cn.next_token = conn.next_token
           /\ Fetch(Left(t), t, Wanted(t, r), cn, raised)
           /\ \/ raised /\ Raises([cursor EXCEPT ![t] = Asked(t)], cached, task, cn)
              \/ /\ ~raised /\ Longer(t, r).stale
                 /\ Raises([cursor EXCEPT ![t] = After(t, r)], Kept(t, r), Roused(t, r), cn)
              \/ /\ ~raised /\ ~Longer(t, r).stale
                 /\ cursor' = [cursor EXCEPT ![t] = After(t, r)] /\ cached' = Kept(t, r)
                 /\ task' = Roused(t, r) /\ conn' = cn /\ queries' = queries
  BY BatchIs
<1>2. /\ [cursor EXCEPT ![t] = Asked(t)] \in [Token -> Cur]
      /\ [cursor EXCEPT ![t] = After(t, r)] \in [Token -> Cur]
      /\ Kept(t, r) \in SUBSET Token /\ Wanted(t, r) \in BOOLEAN
      /\ Roused(t, r) \in [Task -> TaskState]
      /\ cached \in SUBSET Token /\ task \in [Task -> TaskState]
  BY BatchParts DEF Typed
<1>3. Stirs([cursor EXCEPT ![t] = Asked(t)], task)
      /\ Stirs([cursor EXCEPT ![t] = After(t, r)], Roused(t, r))
  BY BatchStirs
<1>4. /\ driver' = driver /\ link' = link /\ conn.reader = "run"
      /\ Left(t) \in [Token -> Nat]
  <2>1. driver' = driver /\ Reads(t) /\ link' = link
    BY DEF ReadBatch, Answered
  <2> QED BY <2>1, ReadsRun, LeftType
<1>5. /\ Weakens(cn) /\ cn.next_token \in Token
      /\ conts' # {} => conts # {} \/ driver = "trio"
      /\ cn = conn \/ (Usable /\ cn = [conn EXCEPT !.stream = "closed"])
  BY <1>1, <1>2, <1>4, FetchWeakens
<1>6. CASE Raises([cursor EXCEPT ![t] = Asked(t)], cached, task, cn)
  <2> DEFINE cur == [cursor EXCEPT ![t] = Asked(t)]
  <2>1. cur \in [Token -> Cur] /\ Raises(cur, cached, task, cn) /\ Stirs(cur, task)
    BY <1>2, <1>3, <1>6
  <2> HIDE DEF cur
  <2> QED BY <1>2, <1>5, <2>1, RaisesDeclines
<1>7. CASE Raises([cursor EXCEPT ![t] = After(t, r)], Kept(t, r), Roused(t, r), cn)
  <2> DEFINE cur == [cursor EXCEPT ![t] = After(t, r)]
  <2>1. cur \in [Token -> Cur] /\ Raises(cur, Kept(t, r), Roused(t, r), cn)
        /\ Stirs(cur, Roused(t, r))
    BY <1>2, <1>3, <1>7
  <2> HIDE DEF cur
  <2> QED BY <1>2, <1>5, <2>1, RaisesDeclines
<1>8. CASE /\ cursor' = [cursor EXCEPT ![t] = After(t, r)]
           /\ task' = Roused(t, r) /\ conn' = cn
  <2>1. Steady
    BY <1>3, <1>4, <1>5, <1>8 DEF Steady, Stirs
  <2>2. Declines
    BY <1>5, <1>8, <2>1, OutcomeDeclines
  <2>3. \A v \in Task : Settles(v)
    BY <1>3, <1>8, WakesSettle DEF Stirs
  <2> QED BY <2>2, <2>3
<1> QED BY <1>1, <1>6, <1>7, <1>8

(* What gevent leaves of a cursor whose first CONTINUE raised, and of the  *)
(* others.                                                                 *)
Aborted(t, cn) ==
  /\ \A d \in Token : cursor'[d] = IF d \in Alive(t) THEN Served(Failed(Begun(t)[d]))
                                   ELSE Begun(t)[d]
  /\ cached' = {d \in cached \cup {t} : d \in Alive(t) => Begun(t)[d].outstanding # 1}
  /\ queries' = queries
  /\ \A v \in Task : Wakes(task[v], task'[v])
  /\ conn'.attached = cn.attached /\ conn'.next_token = cn.next_token /\ conn'.stage = cn.stage
  /\ conn'.timer = cn.timer /\ conn'.cut = cn.cut /\ conn'.closed = cn.closed
  /\ conn'.stream = cn.stream /\ conn'.closing /\ conn'.reader = "ended"

LEMMA AbortIs ==
  ASSUME Typed, NEW t \in Token, NEW r \in Response, NEW cn \in ConnType,
         Tell([told |-> Alive(t), whole |-> FALSE], Begun(t), cached \cup {t}, task, {}),
         conn' = [cn EXCEPT !.closing = TRUE, !.reader = "ended"]
  PROVE  Aborted(t, cn)
<1> DEFINE w == [told |-> Alive(t), whole |-> FALSE]
           cache == cached \cup {t}
           cur == Begun(t)
<1>1. /\ w.told = Alive(t) /\ w.whole = FALSE /\ w.told \in SUBSET Token /\ w.whole \in BOOLEAN
      /\ cache \in SUBSET Token /\ cur \in [Token -> Cur] /\ task \in [Task -> TaskState]
      /\ Tell(w, cur, cache, task, {})
  BY StreamParts DEF Typed, Alive
<1>2. /\ conn'.attached = cn.attached /\ conn'.next_token = cn.next_token /\ conn'.stage = cn.stage
      /\ conn'.timer = cn.timer /\ conn'.cut = cn.cut /\ conn'.closed = cn.closed
      /\ conn'.stream = cn.stream /\ conn'.closing /\ conn'.reader = "ended"
  BY DEF ConnType
<1>3. /\ \A d \in Token : cursor'[d] = IF d \in w.told THEN Served(Failed(cur[d])) ELSE cur[d]
      /\ cached' = {d \in cache : d \in w.told => cur[d].outstanding # 1}
      /\ queries' = queries
      /\ \A v \in Task : Wakes(task[v], task'[v])
  <2> HIDE DEF w, cache, cur
  <2> QED BY <1>1, TellIs
<1> QED BY <1>1, <1>2, <1>3 DEF Aborted

LEMMA AbortStale ==
  ASSUME Typed, NEW t \in Token, NEW r \in Response, NEW cn, Aborted(t, cn), NEW d \in Token
  PROVE  cursor'[d].stale <=> cursor[d].stale
<1>1. Begun(t)[d] \in Cur /\ Begun(t)[d].stale = cursor[d].stale
  <2>1. CASE d = t
    BY <2>1, StreamParts
  <2>2. CASE d # t
    BY <2>2, StreamParts
  <2> QED BY <2>1, <2>2
<1>2. Failed(Begun(t)[d]) \in Cur /\ Failed(Begun(t)[d]).stale = cursor[d].stale
  BY <1>1, FailedIs
<1>3. Served(Failed(Begun(t)[d])).stale = cursor[d].stale
  BY <1>2, ServedIs
<1>4. cursor'[d] = Served(Failed(Begun(t)[d])) \/ cursor'[d] = Begun(t)[d]
  BY DEF Aborted
<1> QED BY <1>1, <1>3, <1>4

LEMMA StreamConn ==
  ASSUME Typed, Typed', ConnInv, NEW t \in Token, NEW r \in Response, ReadStream(t, r)
  PROVE  Declines /\ \A v \in Task : Settles(v)
<1>1. PICK cn \in ConnType, raised \in BOOLEAN :
           /\ cn.next_token = conn.next_token
           /\ Fetch(Left(t), t, TRUE, cn, raised)
           /\ \/ /\ raised /\ driver = "gevent" /\ held' = held
                 /\ Tell([told |-> Alive(t), whole |-> FALSE], Begun(t), cached \cup {t}, task, {})
                 /\ conn' = [cn EXCEPT !.closing = TRUE, !.reader = "ended"]
              \/ /\ raised /\ driver # "gevent" /\ held' = held
                 /\ Raises(Begun(t), cached \cup {t}, task, cn)
              \/ /\ ~raised /\ cursor' = First(t, r) /\ cached' = cached \cup {t} /\ conn' = cn
                 /\ queries' = [queries EXCEPT ![t] = "none"]
                 /\ held' = IF Users(t) = {} THEN held ELSE held \cup {t}
                 /\ task' = [u \in Task |-> IF u \in Users(t) THEN Idle ELSE task[u]]
  BY StreamIs
<1>2. /\ driver' = driver /\ link' = link /\ conn.reader = "run"
      /\ Left(t) \in [Token -> Nat] /\ TRUE \in BOOLEAN
  <2>1. driver' = driver /\ Reads(t) /\ link' = link
    BY DEF ReadStream, Answered
  <2> QED BY <2>1, ReadsRun, LeftType
<1>3. /\ Weakens(cn) /\ cn.next_token \in Token
      /\ conts' # {} => conts # {} \/ driver = "trio"
      /\ cn = conn \/ (Usable /\ cn = [conn EXCEPT !.stream = "closed"])
      /\ raised => cn.stream = "closed" \/ (~Usable /\ cn = conn)
  <2>1. Fetch(Left(t), t, TRUE, cn, raised) /\ TRUE \in BOOLEAN
    BY <1>1
  <2>2. PICK wants \in BOOLEAN : Fetch(Left(t), t, wants, cn, raised)
    BY <2>1, Zenon
  <2>3. driver' = driver /\ link' = link /\ conn.reader # "none" /\ Left(t) \in [Token -> Nat]
    BY <1>2
  <2> QED BY <2>2, <2>3, FetchWeakens
<1>4. raised => cn.stream = "closed" \/ (~Usable /\ cn = conn)
  BY <1>3
<1>5. /\ Begun(t) \in [Token -> Cur] /\ First(t, r) \in [Token -> Cur]
      /\ \A d \in Token : Begun(t)[d].stale = cursor[d].stale
      /\ \A d \in Token : First(t, r)[d].stale = cursor[d].stale
  BY StreamParts
<1>6. CASE raised /\ driver # "gevent" /\ Raises(Begun(t), cached \cup {t}, task, cn)
  <2>1. cached \cup {t} \in SUBSET Token /\ task \in [Task -> TaskState]
    BY DEF Typed
  <2>2. Stirs(Begun(t), task)
    BY <1>5 DEF Stirs, Wakes
  <2> QED BY <1>3, <1>5, <1>6, <2>1, <2>2, RaisesDeclines
<1>7. CASE /\ ~raised /\ cursor' = First(t, r) /\ conn' = cn
           /\ task' = [u \in Task |-> IF u \in Users(t) THEN Idle ELSE task[u]]
  <2>1. Steady
    BY <1>2, <1>3, <1>5, <1>7 DEF Steady
  <2>2. Declines
    BY <1>3, <1>7, <2>1, OutcomeDeclines
  <2>3. ASSUME NEW v \in Task PROVE Settles(v)
    <3>1. task'[v] = task[v] \/ (task'[v] = Idle /\ task[v].pc = "run")
      BY <1>7 DEF Users
    <3> QED BY <3>1, ConnFacts DEF Settles
  <2> QED BY <2>2, <2>3
<1>8. CASE /\ raised /\ driver = "gevent"
           /\ Tell([told |-> Alive(t), whole |-> FALSE], Begun(t), cached \cup {t}, task, {})
           /\ conn' = [cn EXCEPT !.closing = TRUE, !.reader = "ended"]
  <2>1. Aborted(t, cn)
    BY <1>8, AbortIs
  <2>2. \A d \in Token : cursor[d].stale => cursor'[d].stale
    BY <2>1, AbortStale
  <2>3. \A v \in Task : Settles(v)
    BY <2>1, WakesSettle DEF Aborted
  <2>4. conn.stage = "ready" /\ conn.stream # "none"
    BY <1>2, ConnFacts
  <2>5. conn.closing \/ conn'.stream # "open"
    <3>1. CASE cn.stream = "closed"
      BY <2>1, <3>1 DEF Aborted
    <3>2. CASE ~Usable /\ cn = conn
      <4>1. ~conn.attached => conn.closing
        BY ConnFacts
      <4>2. Usable <=> conn.attached /\ conn.stream = "open"
        BY <1>8, <2>4 DEF Usable, IsOpen
      <4> QED BY <2>1, <3>2, <4>1, <4>2 DEF Aborted
    <3> QED BY <1>4, <1>8, <3>1, <3>2
  <2>6. Declines
    BY <1>2, <1>3, <2>1, <2>2, <2>4, <2>5 DEF Declines, Deserted, Weakens, Aborted
  <2> QED BY <2>3, <2>6
<1> QED BY <1>1, <1>6, <1>7, <1>8

(* The reader at the end of the stream, and the network.                   *)
LEMMA ReaderConn ==
  ASSUME Typed, Typed', ConnInv,
         \/ \E t \in Token : ReadValue(t) \/ SkipWhileClosing(t) \/ UnexpectedResponse(t)
         \/ ReadNothing \/ ReadEnd \/ ConnectionLost \/ StreamEnds
         \/ \E end \in {"eof", "reset"} : Drop(end)
  PROVE  Declines /\ \A v \in Task : Settles(v)
<1>0. /\ conn \in ConnType /\ conn.next_token \in Token /\ task \in [Task -> TaskState]
      /\ cached \in SUBSET Token /\ cursor \in [Token -> Cur]
  BY DEF Typed
<1>1. ASSUME NEW t \in Token, ReadValue(t) PROVE Declines /\ \A v \in Task : Settles(v)
  <2>1. Steady /\ conn' = conn
    BY <1>1 DEF ReadValue, Steady, srvVars
  <2>2. ASSUME NEW v \in Task PROVE Settles(v)
    <3>1. CASE task[v].pc = "run" /\ task[v].t = t
      <4>1. task'[v] = Idle /\ task[v].op # "close"
        BY <1>0, <1>1, <3>1, ConnFacts DEF ReadValue
      <4> QED BY <4>1 DEF Settles
    <3>2. CASE task[v].pc = "flush" /\ task[v].t = t
      <4>1. task'[v] = [task[v] EXCEPT !.pc = "flushed"] /\ task[v].op = "close"
        BY <1>0, <1>1, <3>2, ConnFacts DEF ReadValue
      <4>2. task'[v].pc = "flushed" /\ task'[v].op = task[v].op
        BY <1>0, <4>1 DEF TaskState
      <4> QED BY <4>1, <4>2 DEF Settles, OpOf
    <3>3. CASE ~(task[v].pc = "run" /\ task[v].t = t) /\ ~(task[v].pc = "flush" /\ task[v].t = t)
      BY <1>0, <1>1, <3>3 DEF ReadValue, Settles
    <3> QED BY <3>1, <3>2, <3>3
  <2> QED BY <2>1, <2>2, QuietDeclines
<1>2. ASSUME NEW t \in Token, SkipWhileClosing(t) PROVE Declines /\ \A v \in Task : Settles(v)
  <2>1. Steady /\ conn' = conn /\ task' = task
    BY <1>2 DEF SkipWhileClosing, Steady, srvVars
  <2> QED BY <2>1, QuietDeclines DEF Settles
<1>3. ASSUME NEW t \in Token, UnexpectedResponse(t) PROVE Declines /\ \A v \in Task : Settles(v)
  <2>1. Raises(cursor, cached, task, conn) /\ Stirs(cursor, task)
    BY <1>3, StirsSelf DEF UnexpectedResponse
  <2>2. Weakens(conn)
    BY <1>3 DEF UnexpectedResponse, srvVars, Weakens, Reading
  <2> QED BY <1>0, <2>1, <2>2, RaisesDeclines
<1>4. CASE ReadNothing
  <2>1. Steady /\ task' = task /\ conn.reader = "run" /\ link' = "eof"
    BY <1>4 DEF ReadNothing, Steady, srvVars
  <2>2. /\ conn'.attached = conn.attached
        /\ conn'.stage = conn.stage /\ conn'.closing = conn.closing
        /\ conn'.timer = conn.timer /\ conn'.cut = conn.cut
        /\ conn'.reader = "spin" /\ conn'.stream = conn.stream /\ conn'.closed = conn.closed
    BY <1>0, <1>4 DEF ReadNothing, ConnType
  <2>3. Declines
    BY <2>1, <2>2 DEF Steady, Declines, ConnInv, StageInv
  <2> QED BY <2>1, <2>3 DEF Settles
<1>5. CASE ReadEnd
  <2> DEFINE cn == IF driver = "trio" THEN [conn EXCEPT !.closed = TRUE]
                   ELSE [conn EXCEPT !.stream = "closed"]
  <2>1. Raises(cursor, cached, task, cn) /\ Stirs(cursor, task) /\ conn.reader # "none"
        /\ driver' = driver /\ link' = link /\ conts' = conts
    BY <1>5, StirsSelf DEF ReadEnd, srvVars
  <2>2. /\ cn \in ConnType /\ cn.next_token = conn.next_token /\ cn.attached = conn.attached
        /\ cn.stage = conn.stage /\ cn.closing = conn.closing
        /\ cn.timer = conn.timer /\ cn.cut = conn.cut
        /\ cn.reader = conn.reader /\ (cn.stream = conn.stream \/ cn.stream = "closed")
        /\ cn.closed = conn.closed \/ driver = "trio"
    BY <1>0 DEF ConnType
  <2> HIDE DEF cn
  <2>3. Weakens(cn) /\ cn.next_token \in Token
    BY <1>0, <2>1, <2>2 DEF Weakens
  <2> QED BY <1>0, <2>1, <2>2, <2>3, RaisesDeclines
<1>6. CASE ConnectionLost
  <2>1. Steady /\ task' = task /\ conn.stream # "none"
    BY <1>6 DEF ConnectionLost, Steady, srvVars
  <2>2. /\ conn'.attached = conn.attached
        /\ conn'.stage = conn.stage /\ conn'.closing = conn.closing
        /\ conn'.timer = conn.timer /\ conn'.cut = conn.cut
        /\ conn'.stream = "closed" /\ conn'.closed = conn.closed
        /\ conn'.reader = conn.reader \/ (conn.reader = "run" /\ conn'.reader = "ended")
    BY <1>0, <1>6 DEF ConnectionLost, ConnType
  <2>3. Declines
    BY <2>1, <2>2 DEF Steady, Declines, ConnInv, StageInv
  <2> QED BY <2>1, <2>3 DEF Settles
<1>7. CASE StreamEnds
  <2>1. Steady /\ task' = task /\ conn.stream # "none"
    BY <1>7 DEF StreamEnds, Steady, srvVars
  <2>2. /\ conn'.attached = conn.attached
        /\ conn'.stage = conn.stage /\ conn'.closing = conn.closing
        /\ conn'.timer = conn.timer /\ conn'.cut = conn.cut
        /\ conn'.stream = "closed" /\ conn'.closed = conn.closed
        /\ conn'.reader = conn.reader
    BY <1>0, <1>7 DEF StreamEnds, ConnType
  <2>3. Declines
    BY <2>1, <2>2 DEF Steady, Declines, ConnInv, StageInv
  <2> QED BY <2>1, <2>3 DEF Settles
<1>8. ASSUME NEW end \in {"eof", "reset"}, Drop(end) PROVE Declines /\ \A v \in Task : Settles(v)
  <2>1. Steady /\ conn' = conn /\ task' = task
    BY <1>8 DEF Drop, Steady
  <2> QED BY <2>1, QuietDeclines DEF Settles
<1> QED BY <1>1, <1>2, <1>3, <1>4, <1>5, <1>6, <1>7, <1>8

LEMMA ConnStep ==
  ASSUME Typed, Typed', ConnInv, FreshInv, [Next]_vars
  PROVE  ConnInv'
<1>1. CASE UNCHANGED vars
  <2>1. Steady /\ conn' = conn /\ task' = task
    BY <1>1 DEF vars, srvVars, Steady
  <2>2. Declines /\ \A v \in Task : Settles(v)
    BY <2>1, QuietDeclines DEF Settles
  <2> QED BY <2>2, DeclineStep
<1>2. ASSUME NEW u \in Task, Call(u) \/ Resume(u) \/ HandshakeFails(u) PROVE ConnInv'
  <2>1. CASE \/ ConnectCall(u) \/ HandshakeDone(u) \/ HandshakeFails(u)
             \/ \E ok \in BOOLEAN : OpenStream(u, ok)
    BY <2>1, ConnectConn
  <2>2. CASE \/ \E op \in {"start", "plain"} : Run(u, op)
             \/ Send(u) \/ Register(u) \/ CloseStream(u) \/ Shut(u)
    BY <2>2, QueryConn, DeclineStep
  <2>3. CASE Cancel(u)
    BY <2>3, CancelConn
  <2>4. CASE \/ \E t \in Token : NextCall(u, t) \/ CursorClose(u, t)
                             \/ \E pc \in {"get", "fetch"} : TwistedNext(u, t, pc)
             \/ NextItem(u) \/ NextError(u) \/ NextWait(u) \/ TakeRow(u) \/ NextTimeout(u)
    BY <2>4, CursorConn, DeclineStep
  <2>5. CASE \E noreply_wait \in BOOLEAN : Close(u, noreply_wait)
    BY <2>5, CloseConn, DeclineStep
  <2> QED BY <1>2, <2>1, <2>2, <2>3, <2>4, <2>5 DEF Call, Resume
<1>3. CASE \/ \E t \in Token : ReadValue(t) \/ SkipWhileClosing(t) \/ UnexpectedResponse(t)
           \/ ReadNothing \/ ReadEnd \/ ConnectionLost \/ StreamEnds
           \/ \E end \in {"eof", "reset"} : Drop(end)
  BY <1>3, ReaderConn, DeclineStep
<1>4. CASE \E t \in Token, r \in Response : ReadBatch(t, r) \/ ReadStream(t, r)
  BY <1>4, BatchConn, StreamConn, DeclineStep
<1>5. CASE TimerFires \/ HandshakeLate
  BY <1>5, TimerConn
<1>6. CASE \E t \in Token : ContinueRuns(t)
  BY <1>6, ContinueConn, DeclineStep
<1> QED BY <1>1, <1>2, <1>3, <1>4, <1>5, <1>6 DEF Next, ReadResponse

-----------------------------------------------------------------------------
(* The invariants of a token.  CacheOf: which cursors are in the cache;    *)
(* AskOf: the task between the allocation of a token and the registration  *)
(* of the query; CountOf: the requests that are owed to a token, in the    *)
(* hands of a task, of the nursery or of the server, and what its cursor   *)
(* knows of them.                                                          *)
Serving == conn.reader \in {"none", "run"}
Working == Serving /\ ~conn.closing
Exact   == Working /\ ~conn.closed /\ conn.stream \in {"none", "open"} /\ link = "up"

SendsAt(t) == \E u \in Task : task[u].pc = "send" /\ task[u].t = t
SentAt(t)  == \E u \in Task : task[u].pc = "sent" /\ task[u].t = t
One(b)     == IF b THEN 1 ELSE 0
Owed(t)    == awaiting[t] + One(SendsAt(t)) + One(t \in conts)

CacheOf(t) ==
  /\ cursor[t].error = "None" => t \in cached
  /\ cursor[t].error = "Absent" => t \notin cached /\ t \notin conts /\ t \notin held
  /\ cursor[t].error # "Absent" => conn.reader # "none"
  /\ queries[t] = "start" /\ Serving => cursor[t].error = "Absent"

AskOf(t) ==
  /\ \A u \in Task : Asks(u) /\ task[u].t = t =>
        IF task[u].op = "stop" THEN cursor[t].error \notin {"Absent", "None"}
        ELSE cursor[t].error = "Absent" /\ queries[t] = "none"
  /\ \A u, v \in Task : Asks(u) /\ Asks(v) /\ task[u].t = t /\ task[v].t = t => u = v

CountOf(t) ==
  /\ cursor[t].outstanding \in -1 .. 2 /\ Owed(t) <= 2
  /\ cursor[t].error = "Absent" => Owed(t) <= 1
  /\ cursor[t].error = "None" => cursor[t].outstanding \in 0 .. 1
  /\ t \in cached => Owed(t) <= cursor[t].outstanding \/ Owed(t) = 0
  /\ cursor[t].error = "None" /\ Exact => Owed(t) = cursor[t].outstanding
  /\ t \notin cached /\ Working /\ cursor[t].error # "Absent" => Owed(t) = 0
  /\ cursor[t].error = "Absent" /\ Working /\ awaiting[t] > 0 => queries[t] # "none" \/ SentAt(t)

OwnOf(t) == CacheOf(t) /\ AskOf(t) /\ CountOf(t)
OwnInv == \A t \in Token : OwnOf(t)

(* A connection only gets older, ...                                       *)
Ages ==
  /\ conn'.attached => conn.attached /\ conn'.next_token >= conn.next_token
  /\ Serving' => Serving
  /\ conn'.reader = "none" => conn.reader = "none"
  /\ conn.closing => conn'.closing
  /\ conn.closed => conn'.closed
  /\ conn'.stream \in {"none", "open"} => conn.stream \in {"none", "open"}
  /\ link' = "up" => link = "up"

(* ... and what may happen to a token that a step is not about: its cursor *)
(* is told of the end, or its answers do not come.                         *)
StillTold(d) ==
  \/ cursor'[d].error = cursor[d].error /\ cursor'[d].outstanding = cursor[d].outstanding
  \/ /\ d \in cached /\ cursor[d].error = "None" /\ cursor'[d].error = "Runtime"
     /\ cursor'[d].outstanding = cursor[d].outstanding - 1
     /\ d \in cached' => cursor[d].outstanding # 1
     /\ ~Working'

StillKept(d) ==
  /\ d \in cached' => d \in cached
  /\ d \in cached => d \in cached' \/ (cursor'[d].error # "None" /\ ~Working')
  /\ queries'[d] = queries[d] \/ (queries'[d] = "none" /\ ~Working')
  /\ awaiting'[d] = awaiting[d] \/ (awaiting'[d] < awaiting[d] /\ ~Exact')
  /\ d \in conts' <=> d \in conts
  /\ d \in held' <=> d \in held

StillAsks(d) ==
  /\ \A v \in Task : Asks(v)' /\ task'[v].t = d => task'[v] = task[v]
  /\ \A v \in Task : task[v].pc = "sent" /\ task[v].t = d => task'[v] = task[v]

Still(d) == StillTold(d) /\ StillKept(d) /\ StillAsks(d)

LEMMA OneIs == ASSUME NEW b PROVE One(b) \in {0, 1}
BY DEF One

LEMMA StillOwed ==
  ASSUME Typed, Typed', NEW d \in Token, OwnOf(d), Still(d)
  PROVE  /\ Owed(d) \in Nat /\ Owed(d)' \in Nat /\ Owed(d)' <= Owed(d)
         /\ cursor[d].error = "None" /\ Exact' => Owed(d)' = Owed(d)
         /\ SentAt(d) => SentAt(d)'
<1>1. awaiting[d] \in Nat /\ awaiting'[d] \in Nat /\ awaiting'[d] <= awaiting[d]
      /\ (Exact' => awaiting'[d] = awaiting[d])
  BY DEF Typed, Still, StillKept
<1>2. One(d \in conts) = One(d \in conts') /\ One(d \in conts) \in {0, 1}
  BY OneIs DEF Still, StillKept, One
<1>3. /\ One(SendsAt(d)) \in {0, 1} /\ One(SendsAt(d)') \in {0, 1}
      /\ SendsAt(d)' => SendsAt(d)
      /\ cursor[d].error = "None" => ~SendsAt(d)
  <2>1. SendsAt(d)' => SendsAt(d)
    BY DEF SendsAt, Still, StillAsks, Asks
  <2>2. cursor[d].error = "None" => ~SendsAt(d)
    BY DEF OwnOf, AskOf, SendsAt, Asks
  <2> QED BY <2>1, <2>2, OneIs
<1>4. /\ One(SendsAt(d)') <= One(SendsAt(d))
      /\ cursor[d].error = "None" => One(SendsAt(d)') = One(SendsAt(d))
  BY <1>3 DEF One
<1>5. SentAt(d) => SentAt(d)'
  BY DEF SentAt, Still, StillAsks
<1>6. Owed(d)' = awaiting'[d] + One(SendsAt(d)') + One(d \in conts')
  BY DEF Owed, One
<1> QED BY <1>1, <1>2, <1>3, <1>4, <1>5, <1>6 DEF Owed

LEMMA AgesIs == Ages => (Working' => Working) /\ (Exact' => Exact)
BY DEF Ages, Working, Exact

LEMMA StillOwn ==
  ASSUME Typed, Typed', Ages, NEW d \in Token, OwnOf(d), Still(d)
  PROVE  OwnOf(d)'
<1>1. /\ Owed(d) \in Nat /\ Owed(d)' \in Nat /\ Owed(d)' <= Owed(d)
      /\ cursor[d].error = "None" /\ Exact' => Owed(d)' = Owed(d)
      /\ SentAt(d) => SentAt(d)'
  BY StillOwed
<1>2. (Working' => Working) /\ (Exact' => Exact) /\ (Serving' => Serving) /\ (Exact' => Working')
  BY AgesIs DEF Ages, Exact
<1>3. cursor[d].outstanding \in Int /\ cursor'[d].outstanding \in Int
      /\ awaiting[d] \in Nat /\ awaiting'[d] \in Nat
  BY DEF Typed, Cur
<1>4. CacheOf(d)'
  BY <1>2 DEF OwnOf, CacheOf, Still, StillTold, StillKept, Ages
<1>5. AskOf(d)'
  <2>1. cursor'[d].error = cursor[d].error \/ (cursor[d].error = "None" /\ cursor'[d].error = "Runtime")
    BY DEF Still, StillTold
  <2>2. queries[d] = "none" => queries'[d] = "none"
    BY DEF Still, StillKept
  <2>3. \A v \in Task : Asks(v)' /\ task'[v].t = d => task'[v] = task[v] /\ Asks(v)
    BY DEF Still, StillAsks, Asks
  <2> QED BY <2>1, <2>2, <2>3 DEF OwnOf, AskOf
<1>6. CountOf(d)'
  <2>1. CASE cursor'[d].error = cursor[d].error /\ cursor'[d].outstanding = cursor[d].outstanding
    <3>1. d \in cached' => d \in cached
      BY DEF Still, StillKept
    <3>2. d \notin cached' /\ Working' => d \notin cached
      BY DEF Still, StillKept
    <3>3. Working' => queries'[d] = queries[d]
      BY DEF Still, StillKept
    <3>4. awaiting'[d] > 0 => awaiting[d] > 0
      BY <1>3 DEF Still, StillKept
    <3> QED BY <1>1, <1>2, <1>3, <2>1, <3>1, <3>2, <3>3, <3>4 DEF OwnOf, CountOf
  <2>2. CASE /\ d \in cached /\ cursor[d].error = "None" /\ cursor'[d].error = "Runtime"
             /\ cursor'[d].outstanding = cursor[d].outstanding - 1
             /\ d \in cached' => cursor[d].outstanding # 1
             /\ ~Working'
    <3>1. cursor[d].outstanding \in 0 .. 1 /\ Owed(d) <= 2
          /\ (Owed(d) <= cursor[d].outstanding \/ Owed(d) = 0)
      BY <2>2 DEF OwnOf, CountOf
    <3> QED BY <1>1, <1>2, <1>3, <2>2, <3>1 DEF CountOf
  <2> QED BY <2>1, <2>2 DEF Still, StillTold
<1> QED BY <1>4, <1>5, <1>6 DEF OwnOf

(* Every token is left alone, or has been handed out and keeps its         *)
(* invariants.                                                             *)
Handled(d) == Still(d) \/ (OwnOf(d)' /\ (conn'.attached => d < conn'.next_token))

LEMMA HandledStep ==
  ASSUME Typed, Typed', OwnInv, FreshInv, Ages, \A d \in Token : Handled(d)
  PROVE  OwnInv' /\ FreshInv'
<1>1. ASSUME NEW d \in Token PROVE OwnOf(d)'
  BY StillOwn DEF OwnInv, Handled
<1>2. ASSUME NEW d \in Token, conn'.attached, d >= conn'.next_token
      PROVE  /\ cursor'[d].error = "Absent" /\ queries'[d] = "none" /\ awaiting'[d] = 0
             /\ \A u \in Task : Asks(u)' => task'[u].t # d
  <2>1. conn'.next_token \in Nat /\ d \in Nat /\ conn.next_token \in Nat
    BY Constants DEF Typed, Token
  <2>2. Still(d) /\ conn.attached /\ d >= conn.next_token
    BY <1>2, <2>1 DEF Handled, Ages
  <2>3. /\ cursor[d].error = "Absent" /\ queries[d] = "none" /\ awaiting[d] = 0
        /\ \A u \in Task : Asks(u) => task[u].t # d
    BY <2>2 DEF FreshInv
  <2>4. awaiting'[d] \in Nat
    BY DEF Typed
  <2>5. cursor'[d].error = "Absent" /\ queries'[d] = "none" /\ awaiting'[d] = 0
    BY <2>2, <2>3, <2>4 DEF Still, StillTold, StillKept
  <2>6. \A u \in Task : Asks(u)' => task'[u].t # d
    BY <2>2, <2>3 DEF Still, StillAsks, Asks
  <2> QED BY <2>5, <2>6
<1> QED BY <1>1, <1>2 DEF OwnInv, FreshInv

LEMMA InitOwn == Init => OwnInv /\ FreshInv
<1> SUFFICES ASSUME Init PROVE OwnInv /\ FreshInv
  OBVIOUS
<1>1. \A u \in Task : ~Asks(u)
  BY IdleType DEF Init, Asks
<1>2. ASSUME NEW t \in Token
      PROVE /\ cursor[t].error = "Absent" /\ cursor[t].outstanding = 0 /\ queries[t] = "none"
            /\ awaiting[t] = 0 /\ t \notin cached /\ t \notin conts /\ t \notin held
  BY DEF Init
<1>3. ASSUME NEW t \in Token PROVE OwnOf(t)
  <2>1. Owed(t) = 0
    BY <1>1, <1>2 DEF Owed, One, SendsAt, Asks
  <2>2. CountOf(t)
    BY <1>2, <2>1 DEF CountOf
  <2>3. CacheOf(t)
    BY <1>2 DEF CacheOf
  <2>4. AskOf(t)
    BY <1>1 DEF AskOf
  <2> QED BY <2>2, <2>3, <2>4 DEF OwnOf
<1> QED BY <1>1, <1>2, <1>3 DEF OwnInv, FreshInv

-----------------------------------------------------------------------------
(* Every step lets the connection age.                                     *)
LEMMA SameAges ==
  ASSUME Typed, NEW cn, conn' = cn, link' = "up" => link = "up",
         cn.attached => conn.attached, cn.next_token = conn.next_token,
         cn.reader = conn.reader, conn.closing => cn.closing, conn.closed => cn.closed,
         cn.stream = conn.stream \/ cn.stream \in {"closed", "draining"}
  PROVE  Ages
<1>1. conn.next_token \in Nat
  BY Constants DEF Typed, Token
<1> QED BY <1>1 DEF Ages, Serving

LEMMA WriteAges ==
  ASSUME Typed, NEW cn \in ConnType, NEW ok \in BOOLEAN, conn' = Written(cn, ok), link' = link,
         cn.attached = conn.attached, cn.next_token \in {conn.next_token, conn.next_token + 1},
         cn.reader = conn.reader, cn.closing = conn.closing, cn.closed = conn.closed,
         cn.stream = conn.stream
  PROVE  Ages
<1>1. conn.next_token \in Nat
  BY Constants DEF Typed, Token
<1>2. /\ conn'.attached = cn.attached /\ conn'.next_token = cn.next_token
      /\ conn'.closing = cn.closing /\ conn'.reader = cn.reader
      /\ conn'.stream = cn.stream \/ conn'.stream = "closed"
      /\ cn.closed => conn'.closed
  BY WrittenIs DEF ConnType
<1> QED BY <1>1, <1>2 DEF Ages, Serving

LEMMA FetchAges ==
  ASSUME Typed, link' = link,
         conn' = conn \/ conn' = [conn EXCEPT !.stream = "closed"]
  PROVE  Ages
<1>1. /\ conn'.attached = conn.attached /\ conn'.next_token = conn.next_token
      /\ conn'.closing = conn.closing /\ conn'.reader = conn.reader
      /\ conn'.stream = conn.stream \/ conn'.stream = "closed"
      /\ conn'.closed = conn.closed
  BY DEF Typed, ConnType
<1> QED BY <1>1, SameAges

LEMMA RaiseAges ==
  ASSUME Typed, NEW cur \in [Token -> Cur], NEW cache \in SUBSET Token,
         NEW tk \in [Task -> TaskState], NEW cn \in ConnType, cn.next_token = conn.next_token,
         Raises(cur, cache, tk, cn), link' = link,
         cn.attached = conn.attached, cn.reader = conn.reader, cn.closing = conn.closing,
         conn.closed => cn.closed, cn.stream = conn.stream \/ cn.stream = "closed"
  PROVE  Ages /\ ~Working'
<1>1. conn.next_token \in Nat /\ cn.next_token \in Token
  BY Constants DEF Typed, Token
<1>2. Broken(cn)
  BY <1>1, RaisesBroken
<1>3. Shutdown(cn).stream \in {cn.stream, "closed", "draining"}
  BY ShutdownIs
<1>4. conn'.closing /\ conn.closing \in BOOLEAN
  BY <1>2 DEF Typed, ConnType, Broken
<1> QED BY <1>1, <1>2, <1>3, <1>4 DEF Ages, Serving, Working, Broken

LEMMA ConnectAges ==
  ASSUME Typed, Typed', ConnInv,
         \/ \E u \in Task : \/ ConnectCall(u) \/ HandshakeDone(u) \/ HandshakeFails(u)
                            \/ Cancel(u) \/ CloseStream(u)
                            \/ \E ok \in BOOLEAN : OpenStream(u, ok)
         \/ TimerFires \/ HandshakeLate
  PROVE  Ages
<1> DEFINE sd == Shutdown(conn)
<1>0. /\ conn \in ConnType /\ link' = link /\ conn.next_token \in Nat
      /\ sd \in ConnType /\ sd.next_token = conn.next_token /\ sd.attached = conn.attached
      /\ sd.closing = conn.closing /\ sd.closed = conn.closed /\ sd.reader = conn.reader
      /\ sd.stream \in {conn.stream, "closed", "draining"}
  <2>1. conn \in ConnType /\ conn.next_token \in Nat
    BY Constants DEF Typed, Token
  <2>2. link' = link
    BY DEF ConnectCall, HandshakeDone, HandshakeFails, Cancel, CloseStream, OpenStream, TimerFires,
           HandshakeLate, srvVars
  <2> QED BY <2>1, <2>2, ShutdownIs
<1> HIDE DEF sd
<1>1. ASSUME NEW u \in Task, \/ ConnectCall(u) \/ HandshakeDone(u)
                             \/ \E ok \in BOOLEAN : OpenStream(u, ok)
      PROVE  Ages
  <2>1. /\ task[u].pc = "connect" => conn.stage = "connecting"
        /\ task[u].pc = "handshake" => conn.stage = "handshake"
        /\ conn.stage = "connecting" => conn.stream = "none"
        /\ conn.stage = "handshake" => conn.reader = "none"
    BY DEF ConnInv, StageInv
  <2>2. /\ conn'.attached = conn.attached /\ conn'.next_token = conn.next_token
        /\ conn'.closing = conn.closing /\ conn'.closed = conn.closed
        /\ conn'.stream = conn.stream \/ conn.stream = "none"
        /\ conn'.reader = conn.reader \/ conn.reader = "none"
    <3>1. CASE ConnectCall(u)
      BY <1>0, <3>1 DEF ConnectCall, ConnType
    <3>2. CASE HandshakeDone(u)
      BY <1>0, <2>1, <3>2 DEF HandshakeDone, ConnType
    <3>3. ASSUME NEW ok \in BOOLEAN, OpenStream(u, ok)
          PROVE  /\ conn'.attached = conn.attached /\ conn'.next_token = conn.next_token
                 /\ conn'.closing = conn.closing /\ conn'.closed = conn.closed
                 /\ conn'.stream = conn.stream \/ conn.stream = "none"
                 /\ conn'.reader = conn.reader
      <4> DEFINE twisted == driver = "twisted"
      <4>1. \/ conn' = [conn EXCEPT !.stage = "handshake", !.stream = "open", !.timer = twisted]
            \/ conn' = [conn EXCEPT !.stage = "failed"]
        BY <3>3 DEF OpenStream
      <4>2. conn.stream = "none"
        BY <2>1, <3>3 DEF OpenStream
      <4> HIDE DEF twisted
      <4> QED BY <1>0, <4>1, <4>2 DEF ConnType
    <3> QED BY <1>1, <3>1, <3>2, <3>3
  <2> QED BY <1>0, <2>2 DEF Ages, Serving
<1>2. ASSUME NEW u \in Task, HandshakeFails(u) PROVE Ages
  <2>1. conn' = [conn EXCEPT !.stage = "failed"]
        \/ conn' = [sd EXCEPT !.stage = "failed", !.closing = (driver = "trio")]
    BY <1>2 DEF HandshakeFails, sd
  <2>2. conn.closing = FALSE
    <3>1. conn.stage = "handshake"
      BY <1>2 DEF HandshakeFails, ConnInv, StageInv
    <3> QED BY <1>0, <3>1 DEF ConnInv, StageInv, ConnType
  <2>3. /\ conn'.attached = conn.attached /\ conn'.next_token = conn.next_token
        /\ conn'.closed = conn.closed
        /\ conn'.stream \in {conn.stream, "closed", "draining"}
        /\ conn'.reader = conn.reader
    BY <1>0, <2>1 DEF ConnType
  <2> QED BY <1>0, <2>2, <2>3, SameAges
<1>3. ASSUME NEW u \in Task, Cancel(u) PROVE Ages
  <2> DEFINE shaken == task[u].pc = "handshake"
             closes == task[u].op = "close" /\ task[u].pc # "shut"
             ct == conn.cut \/ shaken \/ closes
             st == IF shaken THEN "failed" ELSE conn.stage
  <2>1. \/ conn' = [sd EXCEPT !.stage = "failed"]
        \/ conn' = sd
        \/ conn' = [conn EXCEPT !.stage = st, !.cut = ct]
    BY <1>3 DEF Cancel, sd
  <2>2. /\ conn'.attached = conn.attached /\ conn'.next_token = conn.next_token
        /\ conn'.closing = conn.closing /\ conn'.closed = conn.closed
        /\ conn'.stream \in {conn.stream, "closed", "draining"}
        /\ conn'.reader = conn.reader
    <3>1. CASE conn' = [conn EXCEPT !.stage = st, !.cut = ct]
      <4> HIDE DEF ct, st
      <4> QED BY <1>0, <3>1 DEF ConnType
    <3>2. CASE conn' = [sd EXCEPT !.stage = "failed"]
      BY <1>0, <3>2 DEF ConnType
    <3>3. CASE conn' = sd
      BY <1>0, <3>3
    <3> HIDE DEF ct, st
    <3> QED BY <2>1, <3>1, <3>2, <3>3
  <2> QED BY <1>0, <2>2, SameAges
<1>4. ASSUME NEW u \in Task, CloseStream(u) PROVE Ages
  <2>1. conn' = sd
    BY <1>4 DEF CloseStream, sd
  <2> QED BY <1>0, <2>1, SameAges
<1>5. CASE TimerFires \/ HandshakeLate
  <2>1. conn' = [sd EXCEPT !.timer = FALSE, !.stage = "failed"] \/ conn' = [conn EXCEPT !.timer = FALSE]
    BY <1>5 DEF TimerFires, HandshakeLate, sd
  <2>2. /\ conn'.attached = conn.attached /\ conn'.next_token = conn.next_token
        /\ conn'.closing = conn.closing /\ conn'.closed = conn.closed
        /\ conn'.stream \in {conn.stream, "closed", "draining"}
        /\ conn'.reader = conn.reader
    <3>1. CASE conn' = [sd EXCEPT !.timer = FALSE, !.stage = "failed"]
      BY <1>0, <3>1 DEF ConnType
    <3>2. CASE conn' = [conn EXCEPT !.timer = FALSE]
      BY <1>0, <3>2 DEF ConnType
    <3> QED BY <2>1, <3>1, <3>2
  <2> QED BY <1>0, <2>2, SameAges
<1> QED BY <1>1, <1>2, <1>3, <1>4, <1>5

-----------------------------------------------------------------------------
(* The steps that are about no token.                                      *)
Idles(v) == task'[v] = task[v] \/ (task[v].pc # "sent" /\ ~Asks(v)')

LEMMA QuietStill ==
  ASSUME UNCHANGED <<queries, cached, held, conts>>, NEW d,
         cursor'[d].error = cursor[d].error, cursor'[d].outstanding = cursor[d].outstanding,
         awaiting'[d] = awaiting[d] \/ (awaiting'[d] < awaiting[d] /\ ~Exact'),
         \A v \in Task : Idles(v)
  PROVE  Still(d)
BY DEF Still, StillTold, StillKept, StillAsks, Idles

LEMMA ReturnIdles ==
  ASSUME Typed, NEW u \in Task, Return(u), task[u].pc # "sent"
  PROVE  \A v \in Task : Idles(v)
<1>1. /\ task'[u] = Idle /\ Idle.pc = "idle" /\ \A v \in Task \ {u} : task'[v] = task[v]
  BY IdleType DEF Typed, Return
<1> QED BY <1>1 DEF Idles, Asks

LEMMA ConnectStill ==
  ASSUME Typed,
         \/ \E u \in Task : \/ ConnectCall(u) \/ HandshakeDone(u) \/ HandshakeFails(u)
                            \/ Cancel(u) \/ CloseStream(u)
                            \/ \E ok \in BOOLEAN : OpenStream(u, ok)
         \/ TimerFires \/ HandshakeLate
  PROVE  \A d \in Token : Still(d)
<1>1. UNCHANGED <<queries, cached, held, conts, cursor, awaiting>>
  BY DEF ConnectCall, HandshakeDone, HandshakeFails, Cancel, CloseStream, OpenStream, TimerFires,
         HandshakeLate
<1>2. task \in [Task -> TaskState] /\ Idle.pc = "idle" /\ 0 \in Token
      /\ {"connect", "handshake", "shut"} \subseteq Place /\ "connect" \in Op
  BY Constants, IdleType DEF Typed, Place, Op, Token
<1>3. ASSUME NEW u \in Task, \/ HandshakeDone(u) \/ HandshakeFails(u) \/ Cancel(u)
      PROVE  \A v \in Task : Idles(v)
  <2>1. Return(u) /\ task[u].pc # "sent"
    BY <1>3 DEF HandshakeDone, HandshakeFails, Cancel
  <2> QED BY <2>1, ReturnIdles
<1>4. ASSUME NEW u \in Task, ConnectCall(u) PROVE \A v \in Task : Idles(v)
  <2>1. At(u, "connect", "connect", 0) /\ task[u] = Idle
    BY <1>4 DEF ConnectCall
  <2>2. task'[u].pc = "connect" /\ \A v \in Task \ {u} : task'[v] = task[v]
    BY <1>2, <2>1, TaskIs
  <2> QED BY <1>2, <2>1, <2>2 DEF Idles, Asks
<1>5. ASSUME NEW u \in Task, CloseStream(u) PROVE \A v \in Task : Idles(v)
  <2>1. (Goto(u, "shut") \/ Return(u)) /\ task[u].pc = "flushed"
    BY <1>5 DEF CloseStream
  <2>2. CASE Goto(u, "shut")
    <3>1. task'[u].pc = "shut" /\ \A v \in Task \ {u} : task'[v] = task[v]
      BY <1>2, <2>2, TaskIs
    <3> QED BY <2>1, <3>1 DEF Idles, Asks
  <2> QED BY <2>1, <2>2, ReturnIdles
<1>6. ASSUME NEW u \in Task, NEW ok \in BOOLEAN, OpenStream(u, ok) PROVE \A v \in Task : Idles(v)
  <2>1. (Goto(u, "handshake") \/ Return(u)) /\ task[u].pc = "connect"
    BY <1>6 DEF OpenStream
  <2>2. CASE Goto(u, "handshake")
    <3>1. task'[u].pc = "handshake" /\ \A v \in Task \ {u} : task'[v] = task[v]
      BY <1>2, <2>2, TaskIs
    <3> QED BY <2>1, <3>1 DEF Idles, Asks
  <2> QED BY <2>1, <2>2, ReturnIdles
<1>7. CASE TimerFires \/ HandshakeLate
  <2>1. \A v \in Task : task'[v] = task[v] \/ (task'[v] = Idle /\ task[v].pc = "handshake")
    BY <1>7 DEF TimerFires, HandshakeLate
  <2>2. \A v \in Task : Idles(v)
    BY <1>2, <2>1 DEF Idles, Asks
  <2> QED BY <1>1, <2>2, QuietStill
<1> QED BY <1>1, <1>3, <1>4, <1>5, <1>6, <1>7, QuietStill

LEMMA RowStill ==
  ASSUME Typed, NEW u \in Task,
         NextItem(u) \/ NextError(u) \/ TakeRow(u) \/ NextTimeout(u) \/ Shut(u)
  PROVE  Ages /\ \A d \in Token : Still(d)
<1>1. CASE NextItem(u) \/ NextError(u) \/ TakeRow(u) \/ NextTimeout(u)
  <2>1. /\ UNCHANGED <<driver, conn, queries, cached, held, conts, link, awaiting>>
        /\ task[u].pc \in {"next", "taken", "wait", "get", "fetch"} /\ Return(u)
        /\ \A t \in Token : /\ cursor'[t].error = cursor[t].error
                            /\ cursor'[t].outstanding = cursor[t].outstanding
    BY <1>1, RowStep
  <2>2. \A v \in Task : Idles(v)
    BY <2>1, ReturnIdles
  <2>3. Ages
    BY <2>1, FetchAges
  <2> QED BY <2>1, <2>2, <2>3, QuietStill
<1>2. CASE Shut(u)
  <2>1. /\ UNCHANGED <<driver, conn, queries, cached, held, conts, link, awaiting, cursor>>
        /\ task[u].pc = "shut" /\ Return(u)
    BY <1>2 DEF Shut, srvVars
  <2>2. \A v \in Task : Idles(v)
    BY <2>1, ReturnIdles
  <2>3. Ages
    BY <2>1, FetchAges
  <2> QED BY <2>1, <2>2, <2>3, QuietStill
<1> QED BY <1>1, <1>2

LEMMA NetworkStill ==
  ASSUME Typed,
         \/ \E t \in Token : SkipWhileClosing(t)
         \/ ReadNothing \/ ConnectionLost \/ StreamEnds
         \/ \E end \in {"eof", "reset"} : Drop(end)
  PROVE  Ages /\ \A d \in Token : Still(d)
<1>0. /\ UNCHANGED <<queries, cached, held, conts, cursor, task>>
      /\ conn \in ConnType /\ conn.next_token \in Nat
      /\ \A v \in Task : Idles(v)
  <2>1. UNCHANGED <<queries, cached, held, conts, cursor, task>>
    BY DEF SkipWhileClosing, ReadNothing, ConnectionLost, StreamEnds, Drop, srvVars
  <2> QED BY <2>1, Constants DEF Typed, Token, Idles
<1>1. ASSUME NEW t \in Token, SkipWhileClosing(t) PROVE Ages /\ \A d \in Token : Still(d)
  <2>1. awaiting' = Left(t) /\ awaiting[t] > 0 /\ conn' = conn /\ link' = link /\ conn.closing
    BY <1>1 DEF SkipWhileClosing, Reads, srvVars
  <2>2. \A d \in Token : awaiting[d] \in Nat
    BY DEF Typed
  <2>3. \A d \in Token : awaiting'[d] = awaiting[d] \/ awaiting'[d] < awaiting[d]
    BY <2>1, <2>2, LeftType
  <2>4. ~Exact'
    BY <2>1 DEF Exact, Working
  <2> QED BY <1>0, <2>1, <2>3, <2>4, QuietStill, FetchAges
<1>2. ASSUME Nothing, ~Exact' PROVE \A d \in Token : Still(d)
  <2>1. \A d \in Token : awaiting'[d] = awaiting[d] \/ awaiting'[d] < awaiting[d]
    BY <1>2 DEF Nothing, Typed
  <2> QED BY <1>0, <1>2, <2>1, QuietStill
<1>3. CASE ReadNothing
  <2>1. /\ conn'.attached = conn.attached /\ conn'.next_token = conn.next_token
        /\ conn'.closing = conn.closing /\ conn'.closed = conn.closed
        /\ conn'.stream = conn.stream /\ conn'.reader = "spin" /\ link' = link
    BY <1>0, <1>3 DEF ReadNothing, ConnType, srvVars
  <2>2. Nothing /\ ~Exact'
    BY <1>3, <2>1 DEF ReadNothing, Exact, Working, Serving
  <2> QED BY <1>0, <1>2, <2>1, <2>2 DEF Ages, Serving
<1>4. CASE ConnectionLost
  <2>1. /\ conn'.attached = conn.attached /\ conn'.next_token = conn.next_token
        /\ conn'.closing = conn.closing /\ conn'.closed = conn.closed
        /\ conn'.stream = "closed" /\ link' = link
        /\ conn'.reader = conn.reader \/ conn'.reader = "ended"
    BY <1>0, <1>4 DEF ConnectionLost, ConnType, srvVars
  <2>2. Nothing /\ ~Exact'
    BY <1>4, <2>1 DEF ConnectionLost, Exact
  <2> QED BY <1>0, <1>2, <2>1, <2>2 DEF Ages, Serving
<1>5. CASE StreamEnds
  <2>1. awaiting' = awaiting /\ link' = link /\ conn' = [conn EXCEPT !.stream = "closed"]
    BY <1>5 DEF StreamEnds, srvVars
  <2> QED BY <1>0, <2>1, QuietStill, FetchAges
<1>6. ASSUME NEW end \in {"eof", "reset"}, Drop(end) PROVE Ages /\ \A d \in Token : Still(d)
  <2>1. awaiting' = awaiting /\ conn' = conn /\ link' # "up"
    BY <1>6 DEF Drop
  <2> QED BY <1>0, <2>1, QuietStill, SameAges
<1> QED BY <1>1, <1>3, <1>4, <1>5, <1>6

-----------------------------------------------------------------------------
(* What an exception leaves of the tokens.                                 *)
Spared(cur, cache, tk) ==
  /\ \A t \in Token : Reported(cur, cache, t)
  /\ cached' \in SUBSET cache
  /\ \A t \in cache : t \in cached' \/ cursor'[t].error # "None"
  /\ \A v \in Task : Freed(tk, v)
  /\ queries' = queries \/ queries' = [t \in Token |-> "none"]

LEMMA RaisesSpare ==
  ASSUME Typed, NEW cur \in [Token -> Cur], NEW cache \in SUBSET Token,
         NEW tk \in [Task -> TaskState], NEW cn \in ConnType, cn.next_token \in Token,
         Raises(cur, cache, tk, cn)
  PROVE  Spared(cur, cache, tk)
<1>1. \A t \in Token : Reported(cur, cache, t)
  BY RaisesIs, ZenonT(40)
<1>2. cached' \in SUBSET cache
  BY RaisesIs, ZenonT(40)
<1>3. \A v \in Task : Freed(tk, v)
  BY RaisesIs, ZenonT(40)
<1>4. queries' = queries \/ queries' = [t \in Token |-> "none"]
  <2>1. queries' # queries => ~conn.closing /\ queries' = [t \in Token |-> "none"]
    BY RaisesIs, ZenonT(40)
  <2> QED BY <2>1
<1>5. ASSUME NEW t \in cache PROVE t \in cached' \/ cursor'[t].error # "None"
  <2>1. CASE conn.closing
    BY <2>1 DEF Raises
  <2>2. CASE ~conn.closing
    <3>1. PICK w \in Tellings(cache, cur) : Tell(w, cur, cache, tk, {})
      BY <2>2 DEF Raises
    <3>2. Told(w, cur, cache, tk, {})
      BY <3>1, TellTold
    <3>3. /\ w.whole => (cur[t].error = "None" => t \in w.told)
      BY <3>1, TellingsAre
    <3>4. t \in w.told => cursor'[t].error = "Runtime"
      <4>1. cur[t] \in Cur
        OBVIOUS
      <4>2. Failed(cur[t]) \in Cur /\ Failed(cur[t]).error = "Runtime"
        BY <4>1, FailedIs
      <4>3. Served(Failed(cur[t])).error = "Runtime"
        BY <4>2, ServedIs
      <4> QED BY <3>2, <4>3 DEF Told
    <3>5. t \notin w.told => cursor'[t] = cur[t] /\ (~w.whole => t \in cached')
      BY <3>2 DEF Told
    <3> QED BY <3>3, <3>4, <3>5
  <2> QED BY <2>1, <2>2
<1> QED BY <1>1, <1>2, <1>3, <1>4, <1>5 DEF Spared

LEMMA WakesAsks ==
  ASSUME \A v \in Task : Wakes(task[v], task'[v])
  PROVE  \A d \in Token : StillAsks(d)
<1>1. ASSUME NEW v \in Task, Asks(v)' \/ task[v].pc = "sent" PROVE task'[v] = task[v]
  BY <1>1, IdleType DEF Wakes, Asks
<1> QED BY <1>1 DEF StillAsks

LEMMA SparedAsks ==
  ASSUME NEW cur, NEW cache, NEW tk \in [Task -> TaskState], Spared(cur, cache, tk),
         \A v \in Task : Wakes(task[v], tk[v])
  PROVE  \A d \in Token : StillAsks(d)
<1>1. ASSUME NEW v \in Task, Asks(v)' \/ task[v].pc = "sent" PROVE task'[v] = task[v]
  <2>1. Wakes(task[v], tk[v]) /\ Freed(tk, v) /\ Idle.pc = "idle"
    BY IdleType DEF Spared
  <2>2. tk[v].pc = task[v].pc \/ (tk[v].pc \in {"idle", "next", "taken"} /\ task[v].pc \in {"wait", "get", "fetch"})
    BY <2>1 DEF Wakes
  <2>3. Wakes(tk[v], task'[v])
    BY <1>1, <2>1, <2>2 DEF Freed, Asks
  <2> QED BY <1>1, <2>1, <2>3 DEF Wakes, Asks
<1> QED BY <1>1 DEF StillAsks

LEMMA SparedStill ==
  ASSUME Typed, NEW cur \in [Token -> Cur], NEW cache \in SUBSET Token,
         NEW tk \in [Task -> TaskState], Spared(cur, cache, tk), ~Working', NEW d \in Token,
         cur[d].error = cursor[d].error, cur[d].outstanding = cursor[d].outstanding,
         d \in cache <=> d \in cached, d \in conts' <=> d \in conts, d \in held' <=> d \in held,
         awaiting'[d] = awaiting[d] \/ awaiting'[d] < awaiting[d],
         \A v \in Task : Wakes(task[v], tk[v])
  PROVE  Still(d)
<1>1. StillTold(d)
  <2>1. Reported(cur, cache, d)
    BY DEF Spared
  <2>2. Served(Failed(cur[d])).error = "Runtime"
        /\ Served(Failed(cur[d])).outstanding = cur[d].outstanding - 1
    <3>1. Failed(cur[d]) \in Cur /\ Failed(cur[d]).error = "Runtime"
          /\ Failed(cur[d]).outstanding = cur[d].outstanding - 1
      BY FailedIs
    <3> QED BY <3>1, ServedIs
  <2> QED BY <2>1, <2>2 DEF Reported, StillTold
<1>2. StillKept(d)
  <2>1. ~Exact'
    BY DEF Exact
  <2>2. queries'[d] = queries[d] \/ queries'[d] = "none"
    BY DEF Spared
  <2> QED BY <2>1, <2>2 DEF Spared, StillKept
<1>3. StillAsks(d)
  BY SparedAsks
<1> QED BY <1>1, <1>2, <1>3 DEF Still

(* A reader that is raised at with nothing done to any token.              *)
LEMMA EndStill ==
  ASSUME Typed, ReadEnd \/ \E t \in Token : UnexpectedResponse(t)
  PROVE  Ages /\ \A d \in Token : Still(d)
<1>0. /\ conn \in ConnType /\ conn.next_token \in Token /\ task \in [Task -> TaskState]
      /\ cached \in SUBSET Token /\ cursor \in [Token -> Cur]
      /\ \A v \in Task : Wakes(task[v], task[v])
      /\ \A d \in Token : awaiting[d] \in Nat
  BY DEF Typed, Wakes
<1>1. UNCHANGED <<held, conts, link>>
  BY DEF ReadEnd, UnexpectedResponse, srvVars
<1>2. \A d \in Token : awaiting'[d] = awaiting[d] \/ awaiting'[d] < awaiting[d]
  <2>1. CASE ReadEnd
    BY <1>0, <2>1 DEF ReadEnd, Nothing
  <2>2. ASSUME NEW t \in Token, UnexpectedResponse(t)
        PROVE \A d \in Token : awaiting'[d] = awaiting[d] \/ awaiting'[d] < awaiting[d]
    <3>1. awaiting' = awaiting \/ (awaiting' = Left(t) /\ awaiting[t] > 0)
      BY <2>2 DEF UnexpectedResponse
    <3> QED BY <1>0, <3>1, LeftType
  <2> QED BY <2>1, <2>2
<1>3. PICK cn \in ConnType :
        /\ Raises(cursor, cached, task, cn)
        /\ cn.next_token = conn.next_token /\ cn.attached = conn.attached
        /\ cn.reader = conn.reader /\ cn.closing = conn.closing
        /\ conn.closed => cn.closed
        /\ cn.stream = conn.stream \/ cn.stream = "closed"
  <2>1. CASE ReadEnd
    <3> DEFINE cn == IF driver = "trio" THEN [conn EXCEPT !.closed = TRUE]
                     ELSE [conn EXCEPT !.stream = "closed"]
    <3>1. Raises(cursor, cached, task, cn)
      BY <2>1 DEF ReadEnd
    <3>2. /\ cn \in ConnType /\ cn.next_token = conn.next_token /\ cn.attached = conn.attached
          /\ cn.reader = conn.reader /\ cn.closing = conn.closing
          /\ conn.closed => cn.closed
          /\ cn.stream = conn.stream \/ cn.stream = "closed"
      BY <1>0 DEF ConnType
    <3> HIDE DEF cn
    <3> QED BY <3>1, <3>2
  <2>2. CASE \E t \in Token : UnexpectedResponse(t)
    BY <1>0, <2>2 DEF UnexpectedResponse
  <2> QED BY <2>1, <2>2
<1>4. Ages /\ ~Working'
  BY <1>0, <1>1, <1>3, RaiseAges
<1>5. Spared(cursor, cached, task)
  BY <1>0, <1>3, RaisesSpare
<1>6. ASSUME NEW d \in Token PROVE Still(d)
  BY <1>0, <1>1, <1>2, <1>4, <1>5, SparedStill
<1> QED BY <1>4, <1>6

-----------------------------------------------------------------------------
(* The life of a request that is not a CONTINUE.                           *)
LEMMA OwedIs ==
  ASSUME Typed, Typed', NEW t \in Token
  PROVE  /\ Owed(t) = awaiting[t] + One(SendsAt(t)) + One(t \in conts)
         /\ Owed(t)' = awaiting'[t] + One(SendsAt(t)') + One(t \in conts')
         /\ awaiting[t] \in Nat /\ awaiting'[t] \in Nat
         /\ Owed(t) \in Nat /\ Owed(t)' \in Nat
         /\ One(SendsAt(t)) \in {0, 1} /\ One(SendsAt(t)') \in {0, 1}
         /\ One(t \in conts) \in {0, 1} /\ One(t \in conts') \in {0, 1}
         /\ SendsAt(t) <=> One(SendsAt(t)) = 1
         /\ SendsAt(t)' <=> One(SendsAt(t)') = 1
         /\ t \in conts <=> One(t \in conts) = 1
         /\ t \in conts' <=> One(t \in conts') = 1
         /\ cursor[t].outstanding \in Int /\ cursor'[t].outstanding \in Int
<1>1. /\ Owed(t) = awaiting[t] + One(SendsAt(t)) + One(t \in conts)
      /\ Owed(t)' = awaiting'[t] + One(SendsAt(t)') + One(t \in conts')
  BY DEF Owed, One
<1>2. awaiting[t] \in Nat /\ awaiting'[t] \in Nat
      /\ cursor[t].outstanding \in Int /\ cursor'[t].outstanding \in Int
  BY DEF Typed, Cur
<1>3. /\ One(SendsAt(t)) \in {0, 1} /\ (SendsAt(t) <=> One(SendsAt(t)) = 1)
      /\ One(SendsAt(t)') \in {0, 1} /\ (SendsAt(t)' <=> One(SendsAt(t)') = 1)
  BY DEF One
<1>4. /\ One(t \in conts) \in {0, 1} /\ (t \in conts <=> One(t \in conts) = 1)
      /\ One(t \in conts') \in {0, 1} /\ (t \in conts' <=> One(t \in conts') = 1)
  BY DEF One
<1>5. Owed(t) \in Nat /\ Owed(t)' \in Nat
  BY <1>1, <1>2, <1>3, <1>4
<1> QED BY <1>1, <1>2, <1>3, <1>4, <1>5

(* What a token that is not known yet looks like.                          *)
LEMMA FreshIs ==
  ASSUME Typed, OwnInv, FreshInv, conn.attached, NEW t, t = conn.next_token
  PROVE  /\ t \in Token /\ t \in Nat /\ cursor[t].error = "Absent" /\ queries[t] = "none"
         /\ awaiting[t] = 0
         /\ t \notin cached /\ t \notin conts /\ t \notin held
         /\ \A u \in Task : Asks(u) => task[u].t # t
         /\ ~SendsAt(t) /\ cursor[t].outstanding \in -1 .. 2
<1>1. t \in Token /\ t \in Nat /\ t >= t
  BY Constants DEF Typed, Token
<1>2. /\ cursor[t].error = "Absent" /\ queries[t] = "none" /\ awaiting[t] = 0
      /\ \A u \in Task : Asks(u) => task[u].t # t
  BY <1>1 DEF FreshInv
<1>3. OwnOf(t)
  BY <1>1 DEF OwnInv
<1> QED BY <1>1, <1>2, <1>3 DEF OwnOf, CacheOf, CountOf, SendsAt, Asks

LEMMA KnownIs ==
  ASSUME Typed, FreshInv, NEW t \in Token,
         \/ cursor[t].error # "Absent" \/ awaiting[t] > 0 \/ queries[t] # "none"
         \/ \E u \in Task : Asks(u) /\ task[u].t = t
  PROVE  conn.attached => t < conn.next_token
<1>1. t \in Nat /\ conn.next_token \in Nat /\ awaiting[t] \in Nat
  BY Constants DEF Typed, Token
<1> QED BY <1>1 DEF FreshInv

LEMMA RunOwn ==
  ASSUME Typed, Typed', OwnInv, FreshInv, NEW u \in Task, NEW op \in {"start", "plain"}, Run(u, op)
  PROVE  Ages /\ \A d \in Token : Handled(d)
<1>0. PICK t, cn : t = conn.next_token /\ cn = [conn EXCEPT !.next_token = @ + 1]
  OBVIOUS
<1>1. /\ task[u] = Idle /\ conn.attached /\ UNCHANGED <<driver, cached, cursor, held, conts, link>>
      /\ Idle.pc = "idle"
  BY IdleType DEF Run, Usable, srvVars
<1>2. /\ t \in Token /\ t \in Nat /\ cursor[t].error = "Absent" /\ queries[t] = "none"
      /\ awaiting[t] = 0
      /\ t \notin cached /\ t \notin conts /\ t \notin held
      /\ \A v \in Task : Asks(v) => task[v].t # t
      /\ ~SendsAt(t) /\ cursor[t].outstanding \in -1 .. 2
  BY <1>0, <1>1, FreshIs
<1>3. /\ cn.next_token = t + 1 /\ cn.attached = conn.attached /\ cn.reader = conn.reader
      /\ cn.closing = conn.closing /\ cn.closed = conn.closed /\ cn.stream = conn.stream
  BY <1>0, <1>2 DEF Typed, ConnType
<1>4. cn \in ConnType
  BY <1>0, <1>2, Constants DEF Run, Typed, ConnType
<1>5. {"send", "run"} \subseteq Place /\ op \in Op /\ queries \in [Token -> {"none", "start", "plain"}]
      /\ awaiting \in [Token -> Nat]
  BY DEF Place, Op, Typed
<1>6. CASE driver = "trio"
  <2>1. At(u, "send", op, t) /\ conn' = cn /\ queries' = queries /\ awaiting' = awaiting
    BY <1>0, <1>6 DEF Run
  <2>2. /\ task'[u].pc = "send" /\ task'[u].op = op /\ task'[u].t = t
        /\ \A v \in Task \ {u} : task'[v] = task[v]
    BY <1>2, <1>5, <2>1, TaskIs
  <2>3. Ages
    BY <1>0, <1>1, <1>2, <1>3, <2>1 DEF Ages, Serving
  <2>4. ASSUME NEW d \in Token, d # t PROVE Still(d)
    BY <1>1, <2>1, <2>2, <2>4 DEF Still, StillTold, StillKept, StillAsks, Asks
  <2>5. \A v \in Task : Asks(v)' /\ task'[v].t = t => v = u
    BY <1>2, <2>2 DEF Asks
  <2>6. AskOf(t)'
    BY <1>1, <1>2, <2>1, <2>2, <2>5 DEF AskOf, Asks
  <2>7. CacheOf(t)'
    BY <1>1, <1>2, <2>1 DEF CacheOf
  <2>8. Owed(t)' \in 0 .. 1 /\ awaiting'[t] = 0
    BY <1>1, <1>2, <2>1, OwedIs
  <2>9. CountOf(t)'
    BY <1>1, <1>2, <2>8 DEF CountOf
  <2>10. OwnOf(t)'
    BY <2>6, <2>7, <2>9 DEF OwnOf
  <2>11. conn'.attached => t < conn'.next_token
    BY <1>2, <1>3, <2>1
  <2> QED BY <2>3, <2>4, <2>10, <2>11 DEF Handled
<1>7. CASE driver # "trio"
  <2>1. PICK ok \in BOOLEAN :
          /\ conn' = Written(cn, ok) /\ awaiting' = Deliver(awaiting, t, ok)
          /\ IF ok THEN queries' = [queries EXCEPT ![t] = op] /\ At(u, "run", op, t)
                   ELSE queries' = queries /\ task' = task
    BY <1>0, <1>7 DEF Run
  <2>2. /\ task'[u].pc \in {"run", "idle"} /\ \A v \in Task \ {u} : task'[v] = task[v]
    <3>1. CASE ok
      BY <1>2, <1>5, <2>1, <3>1, TaskIs
    <3>2. CASE ~ok
      BY <1>1, <2>1, <3>2
    <3> QED BY <3>1, <3>2
  <2>3. Ages
    BY <1>0, <1>1, <1>3, <1>4, <2>1, WriteAges
  <2>4. /\ awaiting'[t] \in {0, 1} /\ (awaiting'[t] = 1 => ok)
        /\ \A d \in Token \ {t} : awaiting'[d] = awaiting[d]
    BY <1>2, <1>5, <2>1, DeliverIs
  <2>5. /\ \A d \in Token \ {t} : queries'[d] = queries[d]
        /\ ok => queries'[t] = op
    BY <1>2, <1>5, <2>1
  <2>6. ASSUME NEW d \in Token, d # t PROVE Still(d)
    BY <1>1, <2>2, <2>4, <2>5, <2>6 DEF Still, StillTold, StillKept, StillAsks, Asks
  <2>7. \A v \in Task : Asks(v)' => task'[v].t # t
    BY <1>2, <2>2 DEF Asks
  <2>8. AskOf(t)' /\ ~SendsAt(t)'
    BY <2>7 DEF AskOf, SendsAt, Asks
  <2>9. CacheOf(t)'
    BY <1>1, <1>2 DEF CacheOf
  <2>10. Owed(t)' \in 0 .. 1
    BY <1>1, <1>2, <2>4, <2>8, OwedIs
  <2>11. CountOf(t)'
    BY <1>1, <1>2, <2>4, <2>5, <2>10 DEF CountOf
  <2>12. conn'.next_token = t + 1
    BY <1>3, <1>4, <2>1, WrittenIs
  <2> QED BY <1>2, <2>3, <2>6, <2>8, <2>9, <2>11, <2>12 DEF Handled, OwnOf
<1> QED BY <1>6, <1>7

(* A write that does not fail, on a connection that works, reaches the     *)
(* server.                                                                 *)
LEMMA WriteCounts ==
  ASSUME Typed, NEW left \in [Token -> Nat], NEW t \in Token, NEW ok \in BOOLEAN, Writes(ok),
         awaiting' = Deliver(left, t, ok), link' = link, NEW cn \in ConnType,
         conn' = Written(cn, ok), cn.stream = conn.stream,
         driver = "twisted" => conn.stream \notin {"none"},
         driver = "trio" => conn.stream \notin {"none"}
  PROVE  /\ awaiting'[t] \in {left[t], left[t] + 1}
         /\ \A d \in Token \ {t} : awaiting'[d] = left[d]
         /\ Exact' => awaiting'[t] = left[t] + 1
<1>1. /\ awaiting'[t] \in {left[t], left[t] + 1}
      /\ awaiting'[t] = left[t] + 1 <=> ok /\ conn.stream = "open" /\ link = "up"
      /\ \A d \in Token \ {t} : awaiting'[d] = left[d]
  BY DeliverIs
<1>2. /\ ok => conn' = cn
      /\ ~ok /\ driver = "trio" => conn'.closed
      /\ ~ok /\ driver # "trio" => conn'.stream = "closed"
  BY WrittenIs
<1>3. conn'.stream = "none" \/ conn'.stream = "open" => (conn.stream = "open" \/ ~ok \/ conn.stream = "none")
  BY <1>2
<1>4. ASSUME Exact' PROVE ok /\ conn.stream = "open" /\ link = "up"
  <2>1. ok
    BY <1>2, <1>4 DEF Exact
  <2>2. link = "up" /\ conn.stream \in {"none", "open"}
    BY <1>2, <1>4, <2>1 DEF Exact
  <2>3. driver # "twisted" /\ conn.stream # "open" => ~ok
    BY DEF Writes
  <2> QED BY <2>1, <2>2, <2>3
<1> QED BY <1>1, <1>4

LEMMA SendOwn ==
  ASSUME Typed, Typed', ConnInv, OwnInv, FreshInv, NEW u \in Task, Send(u)
  PROVE  Ages /\ \A d \in Token : Handled(d)
<1>0. PICK t : t = task[u].t
  OBVIOUS
<1>1. /\ task[u].pc = "send" /\ UNCHANGED <<driver, queries, cached, cursor, held, conts, link>>
      /\ Idle.pc = "idle" /\ t \in Token /\ driver = "trio" /\ Asks(u)
      /\ awaiting \in [Token -> Nat] /\ conn \in ConnType /\ "sent" \in Place
      /\ "none" \in Op
  BY <1>0, IdleType DEF Send, srvVars, Typed, TaskState, ConnInv, PlaceInv, Asks, Place, Op
<1>2. PICK ok \in BOOLEAN : /\ Writes(ok) /\ conn' = Written(conn, ok)
                            /\ awaiting' = Deliver(awaiting, t, ok)
  BY <1>0 DEF Send
<1>3. /\ \A v \in Task \ {u} : task'[v] = task[v]
      /\ \/ task[u].op = "stop" /\ task'[u] = Idle
         \/ task[u].op # "stop" /\ task'[u].pc = "sent" /\ task'[u].op = task[u].op /\ task'[u].t = t
  <2>1. CASE task[u].op = "stop"
    BY <1>1, <2>1 DEF Send, Return, Typed
  <2>2. CASE task[u].op # "stop"
    <3>1. Goto(u, "sent")
      BY <2>2 DEF Send
    <3>2. task'[u].pc = "sent" /\ task'[u].op = task[u].op /\ task'[u].t = task[u].t
          /\ \A v \in Task \ {u} : task'[v] = task[v]
      BY <1>1, <3>1, TaskIs
    <3> QED BY <1>0, <2>2, <3>2
  <2> QED BY <2>1, <2>2
<1>4. Ages
  BY <1>1, <1>2, WriteAges
<1>5. /\ awaiting'[t] \in {awaiting[t], awaiting[t] + 1}
      /\ \A d \in Token \ {t} : awaiting'[d] = awaiting[d]
  BY <1>1, <1>2, DeliverIs
<1>6. OwnOf(t) /\ SendsAt(t)
  BY <1>0, <1>1 DEF OwnInv, SendsAt
<1>7. \A v \in Task : Asks(v) /\ task[v].t = t => v = u
  BY <1>0, <1>1, <1>6 DEF OwnOf, AskOf
<1>8. \A v \in Task : Asks(v)' /\ task'[v].t = t => v = u /\ task'[u].pc = "sent" /\ task[u].op # "stop"
                                                 /\ task'[u].op = task[u].op
  BY <1>1, <1>3, <1>7 DEF Asks
<1>9. ~SendsAt(t)'
  BY <1>8 DEF SendsAt, Asks
<1>10. Owed(t)' <= Owed(t) /\ Owed(t) > 0
  BY <1>1, <1>5, <1>6, <1>9, OwedIs
<1>11. /\ task[u].op = "stop" => cursor[t].error \notin {"Absent", "None"}
       /\ task[u].op # "stop" => cursor[t].error = "Absent" /\ queries[t] = "none" /\ SentAt(t)'
  BY <1>0, <1>1, <1>3, <1>6 DEF OwnOf, AskOf, SentAt
<1>12. CacheOf(t)'
  BY <1>1, <1>4, <1>6 DEF OwnOf, CacheOf, Ages
<1>13. AskOf(t)'
  BY <1>1, <1>8, <1>11 DEF AskOf
<1>14. CountOf(t)'
  <2>1. Owed(t) \in Nat /\ Owed(t)' \in Nat /\ cursor[t].outstanding \in Int
    BY <1>1, OwedIs
  <2>2. Working' => Working
    BY <1>4, AgesIs
  <2> QED BY <1>1, <1>6, <1>10, <1>11, <2>1, <2>2 DEF OwnOf, CountOf
<1>15. ASSUME NEW d \in Token, d # t PROVE Still(d)
  <2>1. \A v \in Task : Asks(v)' /\ task'[v].t = d => task'[v] = task[v]
    BY <1>1, <1>3, <1>15 DEF Asks
  <2>2. \A v \in Task : task[v].pc = "sent" /\ task[v].t = d => task'[v] = task[v]
    BY <1>0, <1>1, <1>3
  <2> QED BY <1>1, <1>5, <1>15, <2>1, <2>2 DEF Still, StillTold, StillKept, StillAsks
<1>16. conn'.attached => t < conn'.next_token
  <2>1. conn'.attached = conn.attached /\ conn'.next_token = conn.next_token
    BY <1>1, <1>2, WrittenIs
  <2> QED BY <1>0, <1>1, <2>1, KnownIs
<1> QED BY <1>4, <1>12, <1>13, <1>14, <1>15, <1>16 DEF Handled, OwnOf

LEMMA RegisterOwn ==
  ASSUME Typed, Typed', ConnInv, OwnInv, FreshInv, NEW u \in Task, Register(u)
  PROVE  Ages /\ \A d \in Token : Handled(d)
<1>0. PICK t : t = task[u].t
  OBVIOUS
<1>1. /\ task[u].pc = "sent" /\ UNCHANGED <<conn, cached, cursor, held, conts, link, awaiting>>
      /\ t \in Token /\ Asks(u) /\ {"flush", "run"} \subseteq Place /\ "none" \in Op
      /\ queries \in [Token -> {"none", "start", "plain"}]
  BY <1>0 DEF Register, srvVars, Typed, TaskState, Asks, Place, Op
<1>2. queries' = [queries EXCEPT ![t] = IF task[u].op = "start" THEN "start" ELSE "plain"]
  BY <1>0 DEF Register
<1>3. /\ \A v \in Task \ {u} : task'[v] = task[v]
      /\ task'[u].pc \in {"flush", "run"}
  <2>1. PICK pc \in {"flush", "run"} : Goto(u, pc)
    BY DEF Register
  <2> QED BY <1>1, <2>1, TaskIs
<1>4. Ages
  BY <1>1, FetchAges
<1>5. OwnOf(t) /\ task[u].op \in {"start", "plain", "close"}
  BY <1>0, <1>1 DEF OwnInv, ConnInv, PlaceInv, OpOf
<1>6. \A v \in Task : Asks(v) /\ task[v].t = t => v = u
  BY <1>0, <1>1, <1>5 DEF OwnOf, AskOf
<1>7. ~(\E v \in Task : Asks(v)' /\ task'[v].t = t)
  BY <1>1, <1>3, <1>6 DEF Asks
<1>8. ~SendsAt(t)' /\ ~SendsAt(t)
  BY <1>0, <1>1, <1>6, <1>7 DEF SendsAt, Asks
<1>9. Owed(t)' = Owed(t)
  BY <1>1, <1>8, OwedIs
<1>10. cursor[t].error = "Absent" /\ queries'[t] # "none"
  BY <1>0, <1>1, <1>2, <1>5 DEF OwnOf, AskOf
<1>11. CacheOf(t)' /\ AskOf(t)'
  BY <1>1, <1>5, <1>7, <1>10 DEF OwnOf, CacheOf, AskOf
<1>12. CountOf(t)'
  BY <1>1, <1>5, <1>9, <1>10 DEF OwnOf, CountOf
<1>13. ASSUME NEW d \in Token, d # t PROVE Still(d)
  <2>1. queries'[d] = queries[d]
    BY <1>1, <1>2, <1>13
  <2>2. \A v \in Task : Asks(v)' /\ task'[v].t = d => task'[v] = task[v]
    BY <1>1, <1>3 DEF Asks
  <2>3. \A v \in Task : task[v].pc = "sent" /\ task[v].t = d => task'[v] = task[v]
    BY <1>0, <1>3, <1>13
  <2> QED BY <1>1, <2>1, <2>2, <2>3 DEF Still, StillTold, StillKept, StillAsks
<1>14. conn'.attached => t < conn'.next_token
  BY <1>0, <1>1, KnownIs
<1> QED BY <1>4, <1>11, <1>12, <1>13, <1>14 DEF Handled, OwnOf

LEMMA ValueOwn ==
  ASSUME Typed, Typed', ConnInv, OwnInv, FreshInv, NEW t \in Token, ReadValue(t)
  PROVE  Ages /\ \A d \in Token : Handled(d)
<1>1. /\ UNCHANGED <<conn, cached, cursor, held, conts, link>>
      /\ t \notin cached /\ queries[t] # "none" /\ awaiting[t] > 0 /\ awaiting' = Left(t)
      /\ queries' = [queries EXCEPT ![t] = "none"]
      /\ queries \in [Token -> {"none", "start", "plain"}] /\ task \in [Task -> TaskState]
  BY DEF ReadValue, srvVars, Typed, Reads
<1>2. \A v \in Task : \/ task'[v] = task[v]
                      \/ task'[v].pc \in {"idle", "flushed"} /\ task[v].pc \in {"run", "flush"}
  BY <1>1, IdleType DEF ReadValue, TaskState
<1>3. Ages
  BY <1>1, FetchAges
<1>4. /\ awaiting'[t] = awaiting[t] - 1 /\ \A d \in Token \ {t} : awaiting'[d] = awaiting[d]
  BY <1>1, LeftType
<1>5. OwnOf(t)
  BY DEF OwnInv
<1>6. StillAsks(t) /\ (SendsAt(t) <=> SendsAt(t)')
  BY <1>2 DEF StillAsks, Asks, SendsAt
<1>7. Owed(t)' = Owed(t) - 1 /\ Owed(t) \in Nat /\ Owed(t)' \in Nat /\ awaiting'[t] <= Owed(t)'
      /\ cursor[t].outstanding \in Int /\ Owed(t) > 0
  BY <1>1, <1>4, <1>6, OwedIs
<1>8. queries'[t] = "none" /\ \A d \in Token \ {t} : queries'[d] = queries[d]
  BY <1>1
<1>9. CacheOf(t)'
  BY <1>1, <1>3, <1>5, <1>8 DEF OwnOf, CacheOf
<1>10. AskOf(t)'
  BY <1>1, <1>5, <1>6, <1>8 DEF OwnOf, AskOf, StillAsks, Asks
<1>11. CountOf(t)'
  <2>1. Working' => Working
    BY <1>3, AgesIs
  <2>2. cursor[t].error = "Absent" => awaiting'[t] = 0
    BY <1>5, <1>7, OwedIs DEF OwnOf, CountOf
  <2>3. cursor[t].error # "None"
    BY <1>1, <1>5 DEF OwnOf, CacheOf
  <2> QED BY <1>1, <1>5, <1>7, <2>1, <2>2, <2>3 DEF OwnOf, CountOf
<1>12. ASSUME NEW d \in Token, d # t PROVE Still(d)
  <2>1. StillAsks(d)
    BY <1>2 DEF StillAsks, Asks
  <2> QED BY <1>1, <1>4, <1>8, <1>12, <2>1 DEF Still, StillTold, StillKept
<1>13. conn'.attached => t < conn'.next_token
  BY <1>1, KnownIs
<1> QED BY <1>3, <1>9, <1>10, <1>11, <1>12, <1>13 DEF Handled, OwnOf

-----------------------------------------------------------------------------
(* The life of a CONTINUE and of a STOP.                                   *)

(* On a connection that works, whoever has a cursor can use it.            *)
LEMMA ExactUsable ==
  ASSUME Typed, ConnInv, NEW t \in Token, OwnOf(t), cursor[t].error # "Absent"
  PROVE  /\ Exact => Usable /\ conn.stream = "open" /\ link = "up"
         /\ conn.stream # "none"
<1>1. conn.reader # "none" /\ conn.stage = "ready" /\ conn.stream # "none"
  BY ConnFacts DEF OwnOf, CacheOf
<1>2. ~conn.attached => conn.closing
  BY ConnFacts
<1>3. conn.attached \in BOOLEAN
  BY DEF Typed, ConnType
<1>4. ASSUME Exact PROVE Usable /\ conn.stream = "open" /\ link = "up"
  <2>1. ~conn.closing /\ ~conn.closed /\ conn.stream = "open" /\ link = "up"
    BY <1>1, <1>4 DEF Exact, Working
  <2>2. conn.attached
    BY <1>2, <1>3, <2>1
  <2> QED BY <1>1, <2>1, <2>2 DEF Usable, IsOpen
<1> QED BY <1>1, <1>4

LEMMA ContinueOwn ==
  ASSUME Typed, Typed', ConnInv, OwnInv, FreshInv, NEW t \in Token, ContinueRuns(t)
  PROVE  Ages /\ \A d \in Token : Handled(d)
<1>1. /\ UNCHANGED <<driver, queries, cached, cursor, held, link, task>>
      /\ t \in conts /\ conts' = conts \ {t}
      /\ awaiting \in [Token -> Nat] /\ conn \in ConnType
  BY DEF ContinueRuns, srvVars, Typed
<1>2. PICK ok \in BOOLEAN : /\ Writes(ok) /\ conn' = Written(conn, ok)
                            /\ awaiting' = Deliver(awaiting, t, ok)
  BY DEF ContinueRuns
<1>3. Ages
  BY <1>1, <1>2, WriteAges
<1>4. OwnOf(t) /\ cursor[t].error # "Absent"
  BY <1>1 DEF OwnInv, OwnOf, CacheOf
<1>5. conn.stream # "none"
  BY <1>4, ExactUsable
<1>6. /\ awaiting'[t] \in {awaiting[t], awaiting[t] + 1}
      /\ \A d \in Token \ {t} : awaiting'[d] = awaiting[d]
      /\ Exact' => awaiting'[t] = awaiting[t] + 1
  BY <1>1, <1>2, <1>5, WriteCounts
<1>7. SendsAt(t) <=> SendsAt(t)'
  BY <1>1 DEF SendsAt
<1>8. /\ Owed(t)' <= Owed(t) /\ (Exact' => Owed(t)' = Owed(t)) /\ Owed(t) > 0
      /\ Owed(t) \in Nat /\ Owed(t)' \in Nat /\ cursor[t].outstanding \in Int
  BY <1>1, <1>6, <1>7, OwedIs
<1>9. CacheOf(t)' /\ AskOf(t)'
  BY <1>1, <1>3, <1>4 DEF OwnOf, CacheOf, AskOf, Ages, Asks
<1>10. CountOf(t)'
  <2>1. (Working' => Working) /\ (Exact' => Exact)
    BY <1>3, AgesIs
  <2> QED BY <1>1, <1>4, <1>8, <2>1 DEF OwnOf, CountOf
<1>11. ASSUME NEW d \in Token, d # t PROVE Still(d)
  BY <1>1, <1>6, <1>11 DEF Still, StillTold, StillKept, StillAsks, Asks
<1>12. conn'.attached => t < conn'.next_token
  <2>1. conn'.attached = conn.attached /\ conn'.next_token = conn.next_token
    BY <1>1, <1>2, WrittenIs
  <2> QED BY <1>4, <2>1, KnownIs
<1> QED BY <1>3, <1>9, <1>10, <1>11, <1>12 DEF Handled, OwnOf

(* next() and fetch_next(), which may ask for a batch.                     *)
LEMMA NextOwn ==
  ASSUME Typed, Typed', ConnInv, OwnInv, FreshInv, NEW u \in Task,
         \/ NextWait(u)
         \/ \E t \in Token : NextCall(u, t) \/ \E pc \in {"get", "fetch"} : TwistedNext(u, t, pc)
  PROVE  Ages /\ \A d \in Token : Handled(d)
<1>1. PICK t \in Token, wants \in BOOLEAN, raised \in BOOLEAN :
              /\ Fetch(awaiting, t, wants, conn', raised)
              /\ wants => cursor[t].error = "None" /\ cursor[t].outstanding = 0
              /\ Counts(t, wants) /\ Proceeds(u, t)
  BY FetchStep
<1>2. UNCHANGED <<driver, queries, cached, held, link, sent, done, faults>>
  BY FetchStep
<1>3. awaiting \in [Token -> Nat] /\ conn \in ConnType
  BY DEF Typed
<1>4. Fetch(awaiting, t, wants, conn', raised)
  BY <1>1
<1>5. /\ \A d \in Token \ {t} : awaiting'[d] = awaiting[d] /\ (d \in conts' <=> d \in conts)
      /\ conn' = conn \/ (Usable /\ conn' = [conn EXCEPT !.stream = "closed"])
      /\ awaiting'[t] + (IF t \in conts' THEN 1 ELSE 0)
              <= awaiting[t] + (IF t \in conts THEN 1 ELSE 0) + (IF wants THEN 1 ELSE 0)
      /\ wants /\ Usable /\ conn.stream = "open" /\ link = "up" =>
              /\ conn' = conn
              /\ \/ conts' = conts \cup {t} /\ awaiting' = awaiting
                 \/ conts' = conts /\ awaiting'[t] = awaiting[t] + 1
      /\ ~wants => awaiting' = awaiting /\ conts' = conts
  BY <1>3, <1>4, FetchIs
<1>6. Ages
  BY <1>2, <1>5, FetchAges
<1>7. \A v \in Task : Idles(v)
  BY <1>1, IdleType DEF Proceeds, Idles, Asks
<1>8. \A d \in Token : StillAsks(d) /\ (SendsAt(d) => SendsAt(d)' \/ \E v \in Task : Asks(v) /\ task[v].t = d)
  BY <1>7 DEF StillAsks, Idles, Asks, SendsAt
<1>9. ASSUME NEW d \in Token, d # t \/ ~wants PROVE Still(d)
  <2>1. cursor'[d].error = cursor[d].error /\ cursor'[d].outstanding = cursor[d].outstanding
    BY <1>1, <1>9 DEF Counts
  <2>2. awaiting'[d] = awaiting[d] /\ (d \in conts' <=> d \in conts)
    BY <1>5, <1>9
  <2> QED BY <1>2, <1>8, <2>1, <2>2 DEF Still, StillTold, StillKept
<1>10. CASE ~wants
  BY <1>6, <1>9, <1>10 DEF Handled
<1>11. CASE wants
  <2>1. /\ cursor[t].error = "None" /\ cursor[t].outstanding = 0
        /\ cursor'[t].error = "None" /\ cursor'[t].outstanding = 1
    BY <1>1, <1>11 DEF Counts
  <2>2. OwnOf(t)
    BY DEF OwnInv
  <2>3. t \in cached /\ Owed(t) <= 0
    BY <2>1, <2>2 DEF OwnOf, CacheOf, CountOf
  <2>4. /\ Owed(t) = 0 /\ awaiting[t] = 0 /\ t \notin conts /\ ~SendsAt(t)
    BY <2>3, OwedIs
  <2>5. ~SendsAt(t)'
    BY <1>8, <2>4 DEF StillAsks, SendsAt, Asks
  <2>6. Owed(t)' = awaiting'[t] + One(t \in conts')
    BY <2>5, OwedIs
  <2>7. Owed(t)' <= 1
    BY <1>5, <1>11, <2>4, <2>6 DEF One
  <2>8. Exact' => Owed(t)' = 1
    <3>1. Exact' => Exact
      BY <1>6, AgesIs
    <3>2. Exact => Usable /\ conn.stream = "open" /\ link = "up"
      BY <2>1, <2>2, ExactUsable
    <3>3. ASSUME Exact' PROVE \/ conts' = conts \cup {t} /\ awaiting' = awaiting
                              \/ conts' = conts /\ awaiting'[t] = awaiting[t] + 1
      BY <1>5, <1>11, <3>1, <3>2, <3>3
    <3> QED BY <2>4, <2>6, <3>3 DEF One
  <2>9. CacheOf(t)'
    BY <1>2, <1>6, <2>1, <2>2, <2>3 DEF OwnOf, CacheOf, Ages
  <2>10. AskOf(t)'
    <3>1. ~\E v \in Task : Asks(v) /\ task[v].t = t
      BY <2>1, <2>2 DEF OwnOf, AskOf
    <3> QED BY <1>8, <3>1 DEF AskOf, StillAsks, Asks
  <2>11. CountOf(t)'
    <3>1. Owed(t)' \in Nat
      BY OwedIs
    <3> QED BY <1>2, <2>1, <2>3, <2>7, <2>8, <3>1 DEF CountOf
  <2>12. conn'.attached => t < conn'.next_token
    <3>1. conn'.attached = conn.attached /\ conn'.next_token = conn.next_token
      BY <1>3, <1>5 DEF ConnType
    <3> QED BY <2>1, <3>1, KnownIs
  <2> QED BY <1>6, <1>9, <2>9, <2>10, <2>11, <2>12 DEF Handled, OwnOf
<1> QED BY <1>10, <1>11

LEMMA StopOwn ==
  ASSUME Typed, Typed', ConnInv, OwnInv, FreshInv, NEW u \in Task, NEW t \in Token, CursorClose(u, t)
  PROVE  Ages /\ \A d \in Token : Handled(d)
<1>1. /\ task[u] = Idle /\ t \in held /\ cursor[t].error = "None"
      /\ UNCHANGED <<driver, queries, cached, held, conts, link, sent, done, faults>>
      /\ \A d \in Token \ {t} : cursor'[d] = cursor[d]
      /\ cursor'[t].error = "Stopped"
      /\ cursor'[t].outstanding = IF IsOpen THEN cursor[t].outstanding + 1
                                  ELSE cursor[t].outstanding
      /\ \/ /\ IsOpen /\ driver = "trio" /\ At(u, "send", "stop", t)
            /\ conn' = conn /\ awaiting' = awaiting
         \/ /\ task' = task
            /\ \/ conn' = conn /\ awaiting' = awaiting
               \/ /\ IsOpen
                  /\ \E ok \in BOOLEAN : /\ conn' = Written(conn, ok)
                                         /\ awaiting' = Deliver(awaiting, t, ok)
  BY StopIs
<1>2. /\ conn \in ConnType /\ awaiting \in [Token -> Nat] /\ "send" \in Place /\ "stop" \in Op
      /\ Idle.pc = "idle"
  BY IdleType DEF Typed, Place, Op
<1>3. OwnOf(t) /\ t \in cached /\ cursor[t].outstanding \in 0 .. 1
  BY <1>1 DEF OwnInv, OwnOf, CacheOf, CountOf
<1>4. ~\E v \in Task : Asks(v) /\ task[v].t = t
  BY <1>1, <1>3 DEF OwnOf, AskOf
<1>5. Ages
  <2>1. CASE conn' = conn
    BY <1>1, <2>1, FetchAges
  <2>2. CASE \E ok \in BOOLEAN : conn' = Written(conn, ok)
    BY <1>1, <1>2, <2>2, WriteAges
  <2> QED BY <1>1, <2>1, <2>2
<1>6. conn'.attached => t < conn'.next_token
  <2>1. conn'.attached = conn.attached /\ conn'.next_token = conn.next_token
    BY <1>1, <1>2, WrittenIs
  <2> QED BY <1>1, <2>1, KnownIs
<1>7. \A d \in Token \ {t} : awaiting'[d] = awaiting[d]
  BY <1>1, <1>2, DeliverIs
<1>8. \/ task' = task
      \/ /\ task'[u].pc = "send" /\ task'[u].op = "stop" /\ task'[u].t = t
         /\ \A v \in Task \ {u} : task'[v] = task[v]
  BY <1>1, <1>2, TaskIs
<1>9. ASSUME NEW d \in Token, d # t PROVE Still(d)
  <2>1. StillAsks(d)
    BY <1>1, <1>2, <1>8, <1>9 DEF StillAsks, Asks
  <2> QED BY <1>1, <1>7, <1>9, <2>1 DEF Still, StillTold, StillKept
<1>10. Owed(t)' <= Owed(t) + 1 /\ (~IsOpen => Owed(t)' = Owed(t))
  <2>1. ~SendsAt(t)
    BY <1>4 DEF SendsAt, Asks
  <2>2. CASE task' = task
    <3>1. ~SendsAt(t)'
      BY <2>1, <2>2 DEF SendsAt
    <3>2. awaiting'[t] \in {awaiting[t], awaiting[t] + 1} /\ (~IsOpen => awaiting' = awaiting)
      BY <1>1, <1>2, DeliverIs
    <3> QED BY <1>1, <2>1, <3>1, <3>2, OwedIs
  <2>3. CASE task' # task
    <3>1. IsOpen /\ awaiting' = awaiting
      BY <1>1, <2>3
    <3> QED BY <1>1, <2>1, <3>1, OwedIs
  <2> QED BY <2>2, <2>3
<1>11. CacheOf(t)'
  BY <1>1, <1>3, <1>5 DEF OwnOf, CacheOf, Ages
<1>12. AskOf(t)'
  <2>1. \A v \in Task : Asks(v)' /\ task'[v].t = t => v = u /\ task'[u].op = "stop"
    BY <1>4, <1>8 DEF Asks
  <2> QED BY <1>1, <2>1 DEF AskOf
<1>13. CountOf(t)'
  <2>1. Owed(t) \in Nat /\ Owed(t)' \in Nat /\ (Owed(t) <= cursor[t].outstanding \/ Owed(t) = 0)
    BY <1>3, OwedIs DEF OwnOf, CountOf
  <2>2. /\ cursor'[t].outstanding \in 0 .. 2 /\ (Owed(t)' <= cursor'[t].outstanding \/ Owed(t)' = 0)
        /\ Owed(t)' <= 2
    <3>1. CASE IsOpen
      BY <1>1, <1>3, <1>10, <2>1, <3>1
    <3>2. CASE ~IsOpen
      BY <1>1, <1>3, <1>10, <2>1, <3>2
    <3> QED BY <3>1, <3>2
  <2> QED BY <1>1, <1>3, <2>1, <2>2 DEF CountOf
<1> QED BY <1>5, <1>6, <1>9, <1>11, <1>12, <1>13 DEF Handled, OwnOf

(* A cursor that is told, or not.                                          *)
LEMMA ToldStill ==
  ASSUME Typed, NEW w, NEW tk, NEW pending, Told(w, cursor, cached, tk, pending), ~Working',
         NEW d \in Token
  PROVE  /\ StillTold(d)
         /\ d \in cached' => d \in cached
         /\ (w.whole => (d \in cached /\ cursor[d].error = "None" => d \in w.told)) =>
              (d \in cached => d \in cached' \/ cursor'[d].error # "None")
         /\ d \notin cached => cursor'[d] = cursor[d]
<1>1. cursor[d] \in Cur
  BY DEF Typed
<1>2. Served(Failed(cursor[d])).error = "Runtime"
      /\ Served(Failed(cursor[d])).outstanding = cursor[d].outstanding - 1
  <2>1. Failed(cursor[d]) \in Cur /\ Failed(cursor[d]).error = "Runtime"
        /\ Failed(cursor[d]).outstanding = cursor[d].outstanding - 1
    BY <1>1, FailedIs
  <2> QED BY <2>1, ServedIs
<1>3. /\ w.told \in SUBSET cached /\ \A t \in w.told : cursor[t].error = "None"
      /\ cursor'[d] = IF d \in w.told THEN Served(Failed(cursor[d])) ELSE cursor[d]
      /\ cached' = IF w.whole THEN {} ELSE {t \in cached : t \in w.told => cursor[t].outstanding # 1}
  BY DEF Told
<1> QED BY <1>2, <1>3 DEF StillTold

LEMMA CloseOwn ==
  ASSUME Typed, Typed', ConnInv, OwnInv, FreshInv, NEW u \in Task, NEW noreply_wait \in BOOLEAN,
         Close(u, noreply_wait)
  PROVE  Ages /\ \A d \in Token : Handled(d)
<1>1. Departs(u) /\ (conn.stream # "none" => conn'.stream # "none")
  BY CloseDeparts
<1>2. PICK w \in Tellings(cached, cursor), tk \in [Task -> TaskState],
           pending \in SUBSET {conn.next_token} :
        Told(w, cursor, cached, tk, pending) /\ Closes(u, w, tk, pending)
  BY CloseTold
<1>3. PICK t : t = conn.next_token
  OBVIOUS
<1>4. /\ t \in Token /\ cursor[t].error = "Absent" /\ queries[t] = "none" /\ awaiting[t] = 0
      /\ t \notin cached /\ t \notin conts /\ t \notin held
      /\ \A v \in Task : Asks(v) => task[v].t # t
      /\ cursor[t].outstanding \in -1 .. 2
  BY <1>1, <1>3, FreshIs DEF Departs
<1>5. /\ \A v \in Task \ {u} : tk[v] = task[v]
      /\ \/ tk = task
         \/ task'[u] = tk[u] /\ tk[u].op = "close" /\ tk[u].t = t
  BY <1>1, <1>2, <1>3, <1>4, CloseCaller DEF Departs
<1>6. /\ ~conn'.attached /\ conn'.closing /\ UNCHANGED <<held, conts, link>>
      /\ conn'.reader = conn.reader /\ conn'.closed = conn.closed
      /\ conn'.stream \in {"none", "open"} => conn.stream \in {"none", "open"}
      /\ task[u] = Idle /\ Idle.pc = "idle"
  <2>1. conn'.stream \in {"none", "open"} => conn.stream \in {"none", "open"}
    <3>1. conn.stage = "ready"
      BY <1>1 DEF Departs
    <3>2. conn.stream # "none"
      BY <3>1, ConnFacts
    <3> QED BY <1>1, <3>2 DEF Departs
  <2> QED BY <1>1, <2>1, IdleType DEF Departs
<1>7. Ages /\ ~Working'
  BY <1>6 DEF Ages, Serving, Working
<1>8. /\ awaiting'[t] \in {0, 1} /\ \A d \in Token \ {t} : awaiting'[d] = awaiting[d]
      /\ awaiting'[t] = 1 => tk[u].pc = "flush"
      /\ tk[u].pc = "send" => pending = {}
  <2>1. /\ OnItsWay(u, "flush")[u].pc = "flush" /\ task[u].pc = "idle"
        /\ OnItsWay(u, "shut")[u].pc = "shut" /\ OnItsWay(u, "send")[u].pc = "send"
    BY <1>6, OnItsWayIs
  <2>2. awaiting \in [Token -> Nat] /\ TRUE \in BOOLEAN /\ t \in Token
    BY <1>4 DEF Typed
  <2>3. /\ Deliver(awaiting, t, TRUE)[t] \in {awaiting[t], awaiting[t] + 1}
        /\ \A d \in Token \ {t} : Deliver(awaiting, t, TRUE)[d] = awaiting[d]
    BY <2>2, DeliverIs
  <2>4. PICK left : /\ left = Deliver(awaiting, t, TRUE)
                    /\ left[t] \in {awaiting[t], awaiting[t] + 1}
                    /\ \A d \in Token \ {t} : left[d] = awaiting[d]
    BY <2>3
  <2>5. \/ awaiting' = awaiting /\ (tk[u].pc = "send" => pending = {})
        \/ awaiting' = left /\ tk[u].pc = "flush"
    BY <1>2, <1>3, <2>1, <2>4 DEF Closes
  <2>6. awaiting[t] = 0 /\ awaiting[t] + 1 = 1
    BY <1>4
  <2>7. CASE awaiting' = awaiting /\ (tk[u].pc = "send" => pending = {})
    BY <2>6, <2>7
  <2>8. CASE awaiting' = left /\ tk[u].pc = "flush"
    BY <2>4, <2>6, <2>8
  <2> QED BY <2>5, <2>7, <2>8
<1>9. w.whole => \A d \in cached : cursor[d].error = "None" => d \in w.told
  BY <1>2, TellingsAre DEF Typed
<1>10. \A d \in Token : queries'[d] = queries[d] \/ (queries'[d] = "none" /\ d \notin pending)
                        \/ (queries'[d] = "plain" /\ d = t /\ t \in pending)
  BY <1>2, <1>3 DEF Told
<1>11. \A v \in Task : \/ Wakes(tk[v], task'[v])
                       \/ task'[v] = Idle /\ tk[v].pc \in {"run", "flush"}
  BY <1>2 DEF Told
<1>12. \A v \in Task : \/ Idles(v)
                       \/ v = u /\ task'[u] = tk[u] /\ tk[u].op = "close" /\ tk[u].t = t
  <2> SUFFICES ASSUME NEW v \in Task, tk[v] = task[v] PROVE Idles(v)
    BY <1>5
  <2>1. \/ Wakes(task[v], task'[v])
        \/ task'[v] = Idle /\ task[v].pc \in {"run", "flush"}
    BY <1>11
  <2> QED BY <1>6, <2>1 DEF Wakes, Idles, Asks
<1>13. ASSUME NEW d \in Token, d # t PROVE Still(d)
  <2>1. /\ StillTold(d) /\ (d \in cached' => d \in cached)
        /\ d \in cached => d \in cached' \/ cursor'[d].error # "None"
    BY <1>2, <1>7, <1>9, ToldStill
  <2>2. StillKept(d)
    BY <1>6, <1>7, <1>8, <1>10, <1>13, <2>1 DEF StillKept
  <2>3. StillAsks(d)
    BY <1>6, <1>12, <1>13 DEF StillAsks, Idles, Asks
  <2> QED BY <2>1, <2>2, <2>3 DEF Still
<1>14. cursor'[t] = cursor[t] /\ t \notin cached'
  BY <1>2, <1>4, <1>7, ToldStill
<1>15. queries'[t] \in {"none", "plain"} /\ (pending = {} => queries'[t] = "none")
  BY <1>4, <1>10
<1>16. \A v \in Task : Asks(v)' /\ task'[v].t = t => v = u /\ task'[u] = tk[u] /\ tk[u].op = "close"
  BY <1>4, <1>12 DEF Idles, Asks
<1>17. tk \in [Task -> TaskState] /\ (Asks(u)' /\ task'[u] = tk[u] => tk[u].pc = "send")
  <2>1. tk[u].pc # "sent"
    <3>1. \A pc : OnItsWay(u, pc)[u].pc = pc
      BY OnItsWayIs
    <3> QED BY <1>2, <1>6, <3>1 DEF Closes
  <2> QED BY <1>2, <2>1 DEF Asks
<1>18. AskOf(t)'
  BY <1>4, <1>8, <1>14, <1>15, <1>16, <1>17 DEF AskOf
<1>19. CacheOf(t)'
  BY <1>4, <1>6, <1>14, <1>15 DEF CacheOf
<1>20. Owed(t)' \in 0 .. 1
  <2>1. SendsAt(t)' => tk[u].pc = "send"
    BY <1>16, <1>17 DEF SendsAt, Asks
  <2>2. t \in Token /\ t \notin conts'
    BY <1>4, <1>6
  <2>3. /\ Owed(t)' = awaiting'[t] + One(SendsAt(t)') + One(t \in conts')
        /\ One(SendsAt(t)') \in {0, 1} /\ (SendsAt(t)' <=> One(SendsAt(t)') = 1)
        /\ One(t \in conts') = 0
    BY <2>2, OwedIs
  <2>4. awaiting'[t] = 0 \/ One(SendsAt(t)') = 0
    BY <1>8, <2>1, <2>3
  <2> QED BY <1>8, <2>3, <2>4
<1>21. CountOf(t)'
  BY <1>4, <1>7, <1>14, <1>20 DEF CountOf
<1> QED BY <1>6, <1>7, <1>13, <1>18, <1>19, <1>21 DEF Handled, OwnOf

-----------------------------------------------------------------------------
(* The answers of a stream.                                                *)
LEMMA RaisedFetch ==
  ASSUME Typed, NEW left \in [Token -> Nat], NEW t \in Token, NEW wants \in BOOLEAN,
         NEW cn, NEW raised \in BOOLEAN, Fetch(left, t, wants, cn, raised), raised
  PROVE  awaiting' = left /\ conts' = conts
<1>1. Deliver(left, t, FALSE) = left
  BY DEF Deliver
<1>2. CASE conts' = conts /\ awaiting' = left
  BY <1>2
<1>3. CASE /\ UNCHANGED conts
           /\ \E ok \in BOOLEAN : awaiting' = Deliver(left, t, ok) /\ raised = (~ok /\ driver = "gevent")
  <2>1. PICK ok \in BOOLEAN : awaiting' = Deliver(left, t, ok) /\ raised = (~ok /\ driver = "gevent")
    BY <1>3
  <2>2. ok = FALSE
    BY <2>1
  <2> QED BY <1>1, <1>3, <2>1, <2>2
<1> QED BY <1>2, <1>3 DEF Fetch

(* One request less at the server, and perhaps one more.                   *)
LEMMA AnswerOwed ==
  ASSUME Typed, Typed', ConnInv, Ages, NEW t \in Token, OwnOf(t), awaiting[t] > 0, StillAsks(t),
         NEW wants \in BOOLEAN, NEW cn, NEW raised \in BOOLEAN,
         Fetch(Left(t), t, wants, cn, raised)
  PROVE  /\ Owed(t) \in Nat /\ Owed(t)' \in Nat /\ Owed(t) >= 1
         /\ Owed(t)' <= Owed(t) - 1 + One(wants)
         /\ raised => Owed(t)' <= Owed(t) - 1
         /\ cursor[t].error = "None" /\ Exact' => Owed(t)' = Owed(t) - 1 + One(wants)
         /\ \A d \in Token \ {t} : awaiting'[d] = awaiting[d] /\ (d \in conts' <=> d \in conts)
<1>0. Left(t) \in [Token -> Nat] /\ Left(t)[t] = awaiting[t] - 1
      /\ \A d \in Token \ {t} : Left(t)[d] = awaiting[d]
  BY LeftType
<1>1. /\ \A d \in Token \ {t} : awaiting'[d] = Left(t)[d] /\ (d \in conts' <=> d \in conts)
      /\ awaiting'[t] + (IF t \in conts' THEN 1 ELSE 0)
              <= Left(t)[t] + (IF t \in conts THEN 1 ELSE 0) + (IF wants THEN 1 ELSE 0)
  BY <1>0, FetchIs
<1>2. /\ wants /\ Usable /\ conn.stream = "open" /\ link = "up" =>
              \/ conts' = conts \cup {t} /\ awaiting' = Left(t)
              \/ conts' = conts /\ awaiting'[t] = Left(t)[t] + 1
      /\ ~wants => awaiting' = Left(t) /\ conts' = conts
  BY <1>0, FetchIs
<1>3. raised => awaiting' = Left(t) /\ conts' = conts
  BY <1>0, RaisedFetch
<1>4. SendsAt(t)' => SendsAt(t)
  BY DEF StillAsks, SendsAt, Asks
<1>5. One(SendsAt(t)') <= One(SendsAt(t))
  BY <1>4 DEF One
<1>6. /\ Owed(t) \in Nat /\ Owed(t)' \in Nat /\ Owed(t) >= 1
      /\ Owed(t) = awaiting[t] + One(SendsAt(t)) + One(t \in conts)
      /\ Owed(t)' = awaiting'[t] + One(SendsAt(t)') + One(t \in conts')
      /\ awaiting[t] \in Nat /\ awaiting'[t] \in Nat
      /\ One(SendsAt(t)) \in {0, 1} /\ One(SendsAt(t)') \in {0, 1}
      /\ One(t \in conts) \in {0, 1} /\ One(t \in conts') \in {0, 1}
  BY OwedIs
<1>7. Owed(t)' <= Owed(t) - 1 + One(wants)
  <2>1. awaiting'[t] + One(t \in conts') <= awaiting[t] - 1 + One(t \in conts) + One(wants)
    BY <1>0, <1>1 DEF One
  <2>2. One(wants) \in {0, 1}
    BY OneIs
  <2> QED BY <1>5, <1>6, <2>1, <2>2
<1>8. raised => Owed(t)' <= Owed(t) - 1
  BY <1>0, <1>3, <1>5, <1>6
<1>9. ASSUME cursor[t].error = "None", Exact'
      PROVE  Owed(t)' = Owed(t) - 1 + One(wants)
  <2>1. ~\E v \in Task : Asks(v) /\ task[v].t = t
    BY <1>9 DEF OwnOf, AskOf
  <2>2. ~SendsAt(t) /\ ~SendsAt(t)'
    BY <1>4, <2>1 DEF SendsAt, Asks
  <2>3. One(SendsAt(t)) = 0 /\ One(SendsAt(t)') = 0
    BY <2>2 DEF One
  <2>4. Exact /\ Usable /\ conn.stream = "open" /\ link = "up"
    BY <1>9, AgesIs, ExactUsable
  <2>5. t \notin conts
    <3>1. Owed(t) <= 1
      BY <1>6, <1>9, <2>4 DEF OwnOf, CountOf
    <3>2. One(t \in conts) = 0
      BY <1>6, <3>1, <2>3
    <3> QED BY <3>2 DEF One
  <2>6. awaiting'[t] + One(t \in conts') = awaiting[t] - 1 + One(wants)
    <3>1. CASE wants
      <4>1. CASE conts' = conts \cup {t} /\ awaiting' = Left(t)
        BY <1>0, <3>1, <4>1, <1>6 DEF One
      <4>2. CASE conts' = conts /\ awaiting'[t] = Left(t)[t] + 1
        BY <1>0, <2>5, <3>1, <4>2, <1>6 DEF One
      <4> QED BY <1>2, <2>4, <3>1, <4>1, <4>2
    <3>2. CASE ~wants
      BY <1>0, <1>2, <2>5, <3>2, <1>6 DEF One
    <3> QED BY <3>1, <3>2
  <2>7. One(t \in conts) = 0
    BY <2>5 DEF One
  <2> QED BY <1>6, <2>3, <2>6, <2>7
<1> QED BY <1>0, <1>1, <1>6, <1>7, <1>8, <1>9

(* A cursor with error e that is owed at most the k requests it counts,    *)
(* and may then be told of the end.                                        *)
LEMMA AnswerOwn ==
  ASSUME Typed, Typed', Ages, NEW t \in Token, OwnOf(t), t \in cached, StillAsks(t),
         NEW e \in Error, NEW k \in 0 .. 1,
         e # "Absent", cursor[t].error # "None" => e # "None",
         Owed(t)' <= k, Exact' /\ e = "None" => Owed(t)' = k,
         \/ cursor'[t].error = e /\ cursor'[t].outstanding = k
         \/ /\ e = "None" /\ cursor'[t].error = "Runtime" /\ cursor'[t].outstanding = k - 1
            /\ (t \in cached' => k # 1) /\ ~Working',
         t \in cached' \/ cursor'[t].error # "None",
         t \notin cached' => ~Working' \/ Owed(t)' = 0,
         queries'[t] = queries[t] \/ queries'[t] = "none"
  PROVE  OwnOf(t)'
<1>1. cursor[t].error # "Absent" /\ (cursor'[t].error = "None" => e = "None")
      /\ cursor'[t].error # "Absent"
  BY DEF OwnOf, CacheOf
<1>2. CacheOf(t)'
  BY <1>1 DEF OwnOf, CacheOf, Ages
<1>3. AskOf(t)'
  BY <1>1 DEF OwnOf, AskOf, StillAsks, Asks
<1>4. CountOf(t)'
  <2>1. Owed(t)' \in Nat /\ (Exact' => Working')
    BY OwedIs DEF Exact
  <2>2. CASE cursor'[t].error = e /\ cursor'[t].outstanding = k
    BY <1>1, <2>1, <2>2 DEF CountOf
  <2>3. CASE /\ e = "None" /\ cursor'[t].error = "Runtime" /\ cursor'[t].outstanding = k - 1
             /\ (t \in cached' => k # 1) /\ ~Working'
    BY <1>1, <2>1, <2>3 DEF CountOf
  <2> QED BY <2>2, <2>3
<1> QED BY <1>2, <1>3, <1>4 DEF OwnOf

LEMMA KnownAges ==
  ASSUME Typed, Typed', FreshInv, Ages, NEW t \in Token,
         \/ cursor[t].error # "Absent" \/ awaiting[t] > 0 \/ queries[t] # "none"
         \/ \E u \in Task : Asks(u) /\ task[u].t = t
  PROVE  conn'.attached => t < conn'.next_token
<1>1. t \in Nat /\ conn.next_token \in Nat /\ conn'.next_token \in Nat
  BY Constants DEF Typed, Token
<1>2. conn.attached => t < conn.next_token
  BY KnownIs
<1> QED BY <1>1, <1>2 DEF Ages

(* What an exception does to a cursor.                                     *)
LEMMA SparedTo ==
  ASSUME NEW cur, NEW cache, NEW tk, Spared(cur, cache, tk), ~Working',
         NEW t \in Token, cur[t] \in Cur
  PROVE  /\ \/ cursor'[t].error = cur[t].error /\ cursor'[t].outstanding = cur[t].outstanding
            \/ /\ cur[t].error = "None" /\ cursor'[t].error = "Runtime"
               /\ cursor'[t].outstanding = cur[t].outstanding - 1
               /\ (t \in cached' => cur[t].outstanding # 1) /\ ~Working'
         /\ queries'[t] = queries[t] \/ queries'[t] = "none"
         /\ t \in cache => t \in cached' \/ cursor'[t].error # "None"
<1>1. Failed(cur[t]) \in Cur /\ Failed(cur[t]).error = "Runtime"
      /\ Failed(cur[t]).outstanding = cur[t].outstanding - 1
  BY FailedIs
<1>2. Served(Failed(cur[t])).error = "Runtime"
      /\ Served(Failed(cur[t])).outstanding = cur[t].outstanding - 1
  BY <1>1, ServedIs
<1> QED BY <1>2 DEF Spared, Reported

LEMMA BatchOwn ==
  ASSUME Typed, Typed', ConnInv, OwnInv, FreshInv, NEW t \in Token, NEW r \in Response,
         ReadBatch(t, r)
  PROVE  Ages /\ \A d \in Token : Handled(d)
<1>1. PICK cn \in ConnType, raised \in BOOLEAN :
           /\ cn.next_token = conn.next_token
           /\ Fetch(Left(t), t, Wanted(t, r), cn, raised)
           /\ \/ raised /\ Raises([cursor EXCEPT ![t] = Asked(t)], cached, task, cn)
              \/ /\ ~raised /\ Longer(t, r).stale
                 /\ Raises([cursor EXCEPT ![t] = After(t, r)], Kept(t, r), Roused(t, r), cn)
              \/ /\ ~raised /\ ~Longer(t, r).stale
                 /\ cursor' = [cursor EXCEPT ![t] = After(t, r)] /\ cached' = Kept(t, r)
                 /\ task' = Roused(t, r) /\ conn' = cn /\ queries' = queries
  BY BatchIs
<1>2. /\ UNCHANGED <<driver, held, link>> /\ t \in cached /\ awaiting[t] > 0
      /\ Left(t) \in [Token -> Nat] /\ OwnOf(t)
  <2>1. UNCHANGED <<driver, held, link>> /\ t \in cached /\ Reads(t)
    BY DEF ReadBatch, Answered
  <2> QED BY <2>1, ReadsRun, LeftType DEF OwnInv
<1>3. /\ [cursor EXCEPT ![t] = Asked(t)] \in [Token -> Cur]
      /\ [cursor EXCEPT ![t] = After(t, r)] \in [Token -> Cur]
      /\ Kept(t, r) \in SUBSET Token /\ Wanted(t, r) \in BOOLEAN
      /\ Roused(t, r) \in [Task -> TaskState]
      /\ cached \in SUBSET Token /\ task \in [Task -> TaskState]
      /\ cursor \in [Token -> Cur] /\ conn \in ConnType /\ conn.next_token \in Token
  BY BatchParts DEF Typed
<1>4. \A v \in Task : Wakes(task[v], task[v]) /\ Wakes(task[v], Roused(t, r)[v])
  BY BatchStirs DEF Stirs, Wakes
<1>5. /\ cn = conn \/ cn = [conn EXCEPT !.stream = "closed"]
      /\ cn.next_token \in Token /\ cn.attached = conn.attached /\ cn.reader = conn.reader
      /\ cn.closing = conn.closing /\ (conn.closed => cn.closed)
      /\ cn.stream = conn.stream \/ cn.stream = "closed"
  <2>1. cn = conn \/ cn = [conn EXCEPT !.stream = "closed"]
    BY <1>1, <1>2, <1>3, FetchIs
  <2> QED BY <1>1, <1>3, <2>1 DEF ConnType
<1>6. \/ /\ raised /\ Raises([cursor EXCEPT ![t] = Asked(t)], cached, task, cn)
         /\ Ages /\ ~Working' /\ Spared([cursor EXCEPT ![t] = Asked(t)], cached, task)
      \/ /\ ~raised
         /\ Raises([cursor EXCEPT ![t] = After(t, r)], Kept(t, r), Roused(t, r), cn)
         /\ Ages /\ ~Working'
         /\ Spared([cursor EXCEPT ![t] = After(t, r)], Kept(t, r), Roused(t, r))
      \/ /\ ~raised /\ cursor' = [cursor EXCEPT ![t] = After(t, r)] /\ cached' = Kept(t, r)
         /\ task' = Roused(t, r) /\ queries' = queries /\ Ages
  <2>1. ASSUME NEW cur \in [Token -> Cur], NEW cache \in SUBSET Token,
               NEW tk \in [Task -> TaskState], Raises(cur, cache, tk, cn)
        PROVE  Ages /\ ~Working' /\ Spared(cur, cache, tk)
    <3>1. Ages /\ ~Working'
      BY <1>1, <1>2, <1>5, <2>1, RaiseAges
    <3>2. Spared(cur, cache, tk)
      BY <1>5, <2>1, RaisesSpare
    <3> QED BY <3>1, <3>2
  <2>2. conn' = cn => Ages
    BY <1>2, <1>5, FetchAges
  <2> HIDE DEF Ages
  <2> QED BY <1>1, <1>3, <2>1, <2>2
<1>7. Ages
  BY <1>6
<1>8. \A d \in Token : StillAsks(d)
  <2>1. CASE task' = Roused(t, r)
    BY <1>4, <2>1, WakesAsks
  <2>2. CASE Spared([cursor EXCEPT ![t] = Asked(t)], cached, task)
    BY <1>3, <1>4, <2>2, SparedAsks
  <2>3. CASE Spared([cursor EXCEPT ![t] = After(t, r)], Kept(t, r), Roused(t, r))
    BY <1>3, <1>4, <2>3, SparedAsks
  <2> QED BY <1>6, <2>1, <2>2, <2>3
<1>9. /\ Owed(t) \in Nat /\ Owed(t)' \in Nat /\ Owed(t) >= 1
      /\ Owed(t)' <= Owed(t) - 1 + One(Wanted(t, r))
      /\ raised => Owed(t)' <= Owed(t) - 1
      /\ cursor[t].error = "None" /\ Exact' => Owed(t)' = Owed(t) - 1 + One(Wanted(t, r))
      /\ \A d \in Token \ {t} : awaiting'[d] = awaiting[d] /\ (d \in conts' <=> d \in conts)
  <2>1. PICK wants \in BOOLEAN : wants = Wanted(t, r)
    BY <1>3
  <2>2. Fetch(Left(t), t, wants, cn, raised)
    BY <1>1, <2>1
  <2>3. StillAsks(t)
    BY <1>8
  <2>4. /\ Owed(t) \in Nat /\ Owed(t)' \in Nat /\ Owed(t) >= 1
        /\ Owed(t)' <= Owed(t) - 1 + One(wants)
        /\ raised => Owed(t)' <= Owed(t) - 1
        /\ cursor[t].error = "None" /\ Exact' => Owed(t)' = Owed(t) - 1 + One(wants)
        /\ \A d \in Token \ {t} : awaiting'[d] = awaiting[d] /\ (d \in conts' <=> d \in conts)
    BY <1>2, <1>7, <2>2, <2>3, AnswerOwed
  <2> QED BY <2>1, <2>4
<1>10. /\ cursor[t].outstanding \in 1 .. 2 /\ Owed(t) <= cursor[t].outstanding
       /\ cursor[t].error # "Absent"
       /\ cursor[t].error = "None" => cursor[t].outstanding = 1
       /\ cursor[t].error = "None" /\ Exact => Owed(t) = cursor[t].outstanding
  BY <1>2, <1>9 DEF OwnOf, CountOf, CacheOf
<1>11. /\ Asked(t).error = cursor[t].error
       /\ Asked(t).outstanding \in {1, cursor[t].outstanding - 1}
       /\ Asked(t).outstanding \in 0 .. 1 /\ Asked(t).error \in Error
  <2>1. /\ Asked(t).error = cursor[t].error /\ Asked(t) \in Cur
        /\ Asked(t).outstanding = IF WantsBatch(Fewer(t)) THEN 1 ELSE cursor[t].outstanding - 1
    BY BatchParts
  <2> QED BY <1>10, <2>1 DEF Cur
<1>12. /\ After(t, r).error \in Error
       /\ After(t, r).error = IF cursor[t].error = "None" THEN EndOf(r) ELSE cursor[t].error
       /\ After(t, r).outstanding = cursor[t].outstanding - 1 + One(Wanted(t, r))
       /\ After(t, r).outstanding \in 0 .. 1 /\ After(t, r).error # "Absent"
  <2>1. /\ After(t, r) \in Cur
        /\ After(t, r).error = IF cursor[t].error = "None" THEN EndOf(r) ELSE cursor[t].error
        /\ After(t, r).outstanding = IF Wanted(t, r) THEN 1 ELSE cursor[t].outstanding - 1
        /\ Wanted(t, r) => cursor[t].outstanding = 1
    BY BatchParts
  <2>2. EndOf(r) # "Absent"
    BY DEF EndOf
  <2> QED BY <1>10, <2>1, <2>2 DEF Cur, One
<1>13. /\ t \in Kept(t, r) \/ (After(t, r).outstanding = 0 /\ After(t, r).error # "None")
       /\ \A d \in Token \ {t} : d \in Kept(t, r) <=> d \in cached
       /\ Kept(t, r) \in SUBSET cached
  <2>1. /\ Longer(t, r).error = After(t, r).error
        /\ Longer(t, r).outstanding = 0 => ~WantsBatch(Fewer(t))
        /\ Longer(t, r).outstanding = IF WantsBatch(Fewer(t)) THEN 1 ELSE cursor[t].outstanding - 1
        /\ After(t, r).outstanding = IF Wanted(t, r) THEN 1 ELSE cursor[t].outstanding - 1
    BY BatchParts
  <2>2. ASSUME Longer(t, r).error # "None" PROVE ~Again(t, r)
    BY <2>2 DEF Again, Ready
  <2>3. Longer(t, r).outstanding = 0 /\ Longer(t, r).error # "None" =>
          After(t, r).outstanding = 0 /\ After(t, r).error # "None"
    BY <2>1, <2>2 DEF Wanted
  <2> QED BY <1>2, <2>3 DEF Kept
<1>14. ASSUME NEW d \in Token, d # t PROVE Still(d)
  <2>1. CASE Spared([cursor EXCEPT ![t] = Asked(t)], cached, task) /\ ~Working'
    <3> DEFINE cur == [cursor EXCEPT ![t] = Asked(t)]
    <3>1. cur \in [Token -> Cur] /\ cur[d] = cursor[d] /\ Spared(cur, cached, task)
      BY <1>3, <1>14, <2>1
    <3> HIDE DEF cur
    <3> QED BY <1>2, <1>3, <1>4, <1>9, <1>14, <2>1, <3>1, SparedStill
  <2>2. CASE Spared([cursor EXCEPT ![t] = After(t, r)], Kept(t, r), Roused(t, r)) /\ ~Working'
    <3> DEFINE cur == [cursor EXCEPT ![t] = After(t, r)]
    <3>1. cur \in [Token -> Cur] /\ cur[d] = cursor[d] /\ Spared(cur, Kept(t, r), Roused(t, r))
      BY <1>3, <1>14, <2>2
    <3> HIDE DEF cur
    <3> QED BY <1>2, <1>3, <1>4, <1>9, <1>13, <1>14, <2>2, <3>1, SparedStill
  <2>3. CASE /\ cursor' = [cursor EXCEPT ![t] = After(t, r)] /\ cached' = Kept(t, r)
             /\ queries' = queries
    <3>1. cursor'[d] = cursor[d] /\ (d \in cached' <=> d \in cached)
      BY <1>3, <1>13, <1>14, <2>3
    <3> QED BY <1>2, <1>8, <1>9, <1>14, <2>3, <3>1 DEF Still, StillTold, StillKept
  <2> QED BY <1>6, <2>1, <2>2, <2>3
<1>15. OwnOf(t)'
  <2>1. StillAsks(t)
    BY <1>8
  <2>2. CASE raised /\ Spared([cursor EXCEPT ![t] = Asked(t)], cached, task) /\ ~Working'
    <3> DEFINE cur == [cursor EXCEPT ![t] = Asked(t)]
               e == Asked(t).error
               k == Asked(t).outstanding
    <3>1. cur[t] = Asked(t) /\ cur[t] \in Cur /\ Spared(cur, cached, task)
      BY <1>3, <2>2, BatchParts
    <3> HIDE DEF cur
    <3>2. /\ \/ cursor'[t].error = e /\ cursor'[t].outstanding = k
             \/ /\ e = "None" /\ cursor'[t].error = "Runtime" /\ cursor'[t].outstanding = k - 1
                /\ (t \in cached' => k # 1) /\ ~Working'
          /\ t \in cached' \/ cursor'[t].error # "None"
          /\ queries'[t] = queries[t] \/ queries'[t] = "none"
      BY <1>2, <2>2, <3>1, SparedTo
    <3>3. Owed(t)' <= k
      BY <1>9, <1>10, <1>11, <2>2
    <3>4. ~Exact'
      BY <2>2 DEF Exact
    <3> HIDE DEF e, k
    <3>5. e \in Error /\ e # "Absent" /\ k \in 0 .. 1 /\ (cursor[t].error # "None" => e # "None")
      BY <1>10, <1>11 DEF e, k
    <3> QED BY <1>2, <1>7, <2>1, <2>2, <3>2, <3>3, <3>4, <3>5, AnswerOwn
  <2> DEFINE e == After(t, r).error
             k == After(t, r).outstanding
  <2>3. Owed(t)' <= k
    <3>1. One(Wanted(t, r)) \in {0, 1}
      BY OneIs
    <3> QED BY <1>9, <1>10, <1>12, <3>1
  <2>4. Exact' /\ e = "None" => Owed(t)' = k
    <3>1. Exact' => Exact
      BY <1>7, AgesIs
    <3>2. e = "None" => cursor[t].error = "None"
      BY <1>12
    <3> QED BY <1>9, <1>10, <1>12, <3>1, <3>2
  <2>5. e \in Error /\ e # "Absent" /\ k \in 0 .. 1 /\ (cursor[t].error # "None" => e # "None")
    BY <1>12
  <2>6. CASE Spared([cursor EXCEPT ![t] = After(t, r)], Kept(t, r), Roused(t, r)) /\ ~Working'
    <3> DEFINE cur == [cursor EXCEPT ![t] = After(t, r)]
    <3>1. cur[t] = After(t, r) /\ cur[t] \in Cur /\ Spared(cur, Kept(t, r), Roused(t, r))
      BY <1>3, <2>6, BatchParts
    <3> HIDE DEF cur
    <3>2. /\ \/ cursor'[t].error = e /\ cursor'[t].outstanding = k
             \/ /\ e = "None" /\ cursor'[t].error = "Runtime" /\ cursor'[t].outstanding = k - 1
                /\ (t \in cached' => k # 1) /\ ~Working'
          /\ queries'[t] = queries[t] \/ queries'[t] = "none"
          /\ t \in Kept(t, r) => t \in cached' \/ cursor'[t].error # "None"
      BY <2>6, <3>1, SparedTo
    <3>3. t \in cached' \/ cursor'[t].error # "None"
      BY <1>13, <3>2
    <3> HIDE DEF e, k
    <3> QED BY <1>2, <1>7, <2>1, <2>3, <2>4, <2>5, <2>6, <3>2, <3>3, AnswerOwn
  <2>7. CASE /\ cursor' = [cursor EXCEPT ![t] = After(t, r)] /\ cached' = Kept(t, r)
             /\ queries' = queries
    <3>1. cursor'[t].error = e /\ cursor'[t].outstanding = k /\ queries'[t] = queries[t]
      BY <1>3, <2>7
    <3>2. t \in cached' \/ (k = 0 /\ cursor'[t].error # "None")
      BY <1>13, <2>7, <3>1
    <3>3. t \notin cached' => Owed(t)' = 0
      BY <1>9, <2>3, <3>2
    <3> HIDE DEF e, k
    <3> QED BY <1>2, <1>7, <2>1, <2>3, <2>4, <2>5, <3>1, <3>2, <3>3, AnswerOwn
  <2> QED BY <1>6, <2>2, <2>6, <2>7
<1>16. conn'.attached => t < conn'.next_token
  BY <1>7, <1>10, KnownAges
<1> QED BY <1>7, <1>14, <1>15, <1>16 DEF Handled

LEMMA FetchSends ==
  ASSUME Typed, NEW left \in [Token -> Nat], NEW t \in Token, NEW wants \in BOOLEAN,
         NEW cn, NEW raised \in BOOLEAN, Fetch(left, t, wants, cn, raised)
  PROVE  /\ wants /\ Usable /\ conn.stream = "open" /\ link = "up" =>
              \/ conts' = conts \cup {t} /\ awaiting' = left
              \/ conts' = conts /\ awaiting'[t] = left[t] + 1
         /\ raised => driver \in {"trio", "gevent"}
BY FetchIs

(* A query that is answered for the first time, and the CONTINUE that goes *)
(* out at once.                                                            *)
LEMMA FirstOwed ==
  ASSUME Typed, Typed', ConnInv, Ages, NEW t \in Token, OwnOf(t), awaiting[t] > 0, StillAsks(t),
         conn.reader = "run", queries[t] = "start",
         NEW wants \in BOOLEAN, One(wants) = 1, NEW cn, NEW raised \in BOOLEAN,
         Fetch(Left(t), t, wants, cn, raised)
  PROVE  /\ cursor[t].error = "Absent" /\ t \notin cached
         /\ Owed(t)' \in 0 .. 1 /\ (raised => Owed(t)' = 0)
         /\ ~raised /\ Exact' => Owed(t)' = 1
         /\ \A v \in Task : Asks(v)' => task'[v].t # t
         /\ \A d \in Token \ {t} : awaiting'[d] = awaiting[d] /\ (d \in conts' <=> d \in conts)
<1>0. Left(t) \in [Token -> Nat] /\ Left(t)[t] = awaiting[t] - 1
      /\ \A d \in Token \ {t} : Left(t)[d] = awaiting[d]
  BY LeftType
<1>1. cursor[t].error = "Absent" /\ t \notin cached /\ t \notin conts /\ Owed(t) <= 1
  BY DEF OwnOf, CacheOf, CountOf, Serving
<1>2. \A v \in Task : ~(Asks(v) /\ task[v].t = t)
  BY <1>1 DEF OwnOf, AskOf
<1>3. \A v \in Task : Asks(v)' => task'[v].t # t
  BY <1>2 DEF StillAsks, Asks
<1>4. ~SendsAt(t) /\ ~SendsAt(t)'
  BY <1>2, <1>3 DEF SendsAt, Asks
<1>5. Owed(t) = awaiting[t] /\ Owed(t)' = awaiting'[t] + One(t \in conts') /\ Owed(t)' \in Nat
      /\ awaiting[t] \in Nat /\ awaiting'[t] \in Nat
  BY <1>1, <1>4, OwedIs
<1>6. awaiting[t] = 1 /\ Left(t)[t] = 0
  BY <1>0, <1>1, <1>5
<1>7. /\ \A d \in Token \ {t} : awaiting'[d] = Left(t)[d] /\ (d \in conts' <=> d \in conts)
      /\ awaiting'[t] + (IF t \in conts' THEN 1 ELSE 0)
              <= Left(t)[t] + (IF t \in conts THEN 1 ELSE 0) + (IF wants THEN 1 ELSE 0)
  BY <1>0, FetchIs
<1>8. wants /\ Usable /\ conn.stream = "open" /\ link = "up" =>
              \/ conts' = conts \cup {t} /\ awaiting' = Left(t)
              \/ conts' = conts /\ awaiting'[t] = Left(t)[t] + 1
  BY <1>0, FetchSends
<1>9. Owed(t)' <= 1 /\ wants
  BY <1>1, <1>5, <1>6, <1>7 DEF One
<1>10. ASSUME raised PROVE Owed(t)' = 0
  <2>1. awaiting' = Left(t) /\ conts' = conts
    BY <1>0, <1>10, RaisedFetch
  <2> QED BY <1>1, <1>5, <1>6, <2>1 DEF One
<1>11. ASSUME Exact' PROVE Owed(t)' = 1
  <2>1. Exact
    BY <1>11, AgesIs
  <2>2. ~conn.closing /\ ~conn.closed /\ conn.stream = "open" /\ link = "up"
        /\ conn.stage = "ready" /\ (~conn.attached => conn.closing)
    BY <2>1, ConnFacts DEF Exact, Working
  <2>3. Usable
    BY <2>2 DEF Usable, IsOpen, Typed, ConnType
  <2>4. CASE conts' = conts \cup {t} /\ awaiting' = Left(t)
    BY <1>5, <1>6, <2>4 DEF One
  <2>5. CASE conts' = conts /\ awaiting'[t] = Left(t)[t] + 1
    BY <1>1, <1>5, <1>6, <2>5 DEF One
  <2> QED BY <1>8, <1>9, <2>2, <2>3, <2>4, <2>5
<1> QED BY <1>0, <1>1, <1>3, <1>5, <1>7, <1>9, <1>10, <1>11

(* The first batch: a cursor that is told of the end at once, or not.      *)
LEMMA FirstOwn ==
  ASSUME Typed, Typed', NEW t \in Token, cursor'[t].error # "Absent", conn'.reader # "none",
         Owed(t)' \in 0 .. 1, \A v \in Task : Asks(v)' => task'[v].t # t,
         queries'[t] # "start" \/ ~Serving',
         \/ /\ t \in cached' /\ cursor'[t].outstanding = 1
            /\ cursor'[t].error = "None" /\ Exact' => Owed(t)' = 1
         \/ /\ cursor'[t].error # "None" /\ cursor'[t].outstanding = 0 /\ Owed(t)' = 0
  PROVE  OwnOf(t)'
<1>1. CacheOf(t)'
  BY DEF CacheOf
<1>2. AskOf(t)'
  BY DEF AskOf
<1>3. CountOf(t)'
  BY DEF CountOf
<1> QED BY <1>1, <1>2, <1>3 DEF OwnOf

LEMMA StreamOwn ==
  ASSUME Typed, Typed', ConnInv, OwnInv, FreshInv, NEW t \in Token, NEW r \in Response,
         ReadStream(t, r)
  PROVE  Ages /\ \A d \in Token : Handled(d)
<1>1. PICK cn \in ConnType, raised \in BOOLEAN :
           /\ cn.next_token = conn.next_token
           /\ Fetch(Left(t), t, TRUE, cn, raised)
           /\ \/ /\ raised /\ driver = "gevent" /\ held' = held
                 /\ Tell([told |-> Alive(t), whole |-> FALSE], Begun(t), cached \cup {t}, task, {})
                 /\ conn' = [cn EXCEPT !.closing = TRUE, !.reader = "ended"]
              \/ /\ raised /\ driver # "gevent" /\ held' = held
                 /\ Raises(Begun(t), cached \cup {t}, task, cn)
              \/ /\ ~raised /\ cursor' = First(t, r) /\ cached' = cached \cup {t} /\ conn' = cn
                 /\ queries' = [queries EXCEPT ![t] = "none"]
                 /\ held' = IF Users(t) = {} THEN held ELSE held \cup {t}
                 /\ task' = [u \in Task |-> IF u \in Users(t) THEN Idle ELSE task[u]]
  BY StreamIs
<1>2. /\ UNCHANGED <<driver, link>> /\ conn.reader = "run" /\ awaiting[t] > 0
      /\ Left(t) \in [Token -> Nat] /\ OwnOf(t) /\ queries[t] = "start" /\ t \notin cached
  <2>1. UNCHANGED <<driver, link>> /\ Reads(t) /\ queries[t] = "start" /\ t \notin cached
    BY DEF ReadStream, Answered
  <2> QED BY <2>1, ReadsRun, LeftType DEF OwnInv
<1>3. PICK wants \in BOOLEAN : One(wants) = 1 /\ Fetch(Left(t), t, wants, cn, raised)
  <2>1. Fetch(Left(t), t, TRUE, cn, raised) /\ TRUE \in BOOLEAN /\ One(TRUE) = 1
    BY <1>1 DEF One
  <2> QED BY <2>1, Zenon
<1>4. /\ Begun(t) \in [Token -> Cur] /\ cached \cup {t} \in SUBSET Token
      /\ task \in [Task -> TaskState] /\ queries \in [Token -> {"none", "start", "plain"}]
      /\ \A v \in Task : Wakes(task[v], task[v])
      /\ \A d \in Token \ {t} : Begun(t)[d] = cursor[d] /\ First(t, r)[d] = cursor[d]
      /\ Begun(t)[t].error = "None" /\ Begun(t)[t].outstanding = 1 /\ Begun(t)[t] \in Cur
      /\ First(t, r)[t].error = EndOf(r) /\ First(t, r)[t].outstanding = 1
      /\ conn \in ConnType /\ conn.next_token \in Token
  BY StreamParts DEF Typed, Wakes
<1>5. /\ cn.next_token \in Token /\ cn.attached = conn.attached /\ cn.reader = conn.reader
      /\ cn.closing = conn.closing /\ (conn.closed => cn.closed)
      /\ cn.stream = conn.stream \/ cn.stream = "closed"
      /\ cn = conn \/ cn = [conn EXCEPT !.stream = "closed"]
      /\ raised => driver \in {"trio", "gevent"}
  <2>1. cn = conn \/ cn = [conn EXCEPT !.stream = "closed"]
    BY <1>2, <1>3, FetchIs
  <2>2. raised => driver \in {"trio", "gevent"}
    BY <1>2, <1>3, FetchSends
  <2> QED BY <1>1, <1>4, <2>1, <2>2 DEF ConnType
<1>6. CASE /\ raised /\ driver = "gevent" /\ held' = held
           /\ Tell([told |-> Alive(t), whole |-> FALSE], Begun(t), cached \cup {t}, task, {})
           /\ conn' = [cn EXCEPT !.closing = TRUE, !.reader = "ended"]
  <2>1. Aborted(t, cn)
    BY <1>6, AbortIs
  <2>2. Ages /\ ~Working' /\ conn'.reader = "ended"
    BY <1>1, <1>2, <1>4, <1>5, <2>1 DEF Aborted, Ages, Serving, Working, ConnType, Token
  <2>3. \A d \in Token : StillAsks(d)
    BY <2>1, WakesAsks DEF Aborted
  <2>4. /\ cursor[t].error = "Absent" /\ Owed(t)' \in 0 .. 1 /\ Owed(t)' = 0
        /\ \A v \in Task : Asks(v)' => task'[v].t # t
        /\ \A d \in Token \ {t} : awaiting'[d] = awaiting[d] /\ (d \in conts' <=> d \in conts)
    <3>1. raised /\ StillAsks(t)
      BY <1>6, <2>3
    <3> QED BY <1>2, <1>3, <2>2, <3>1, FirstOwed
  <2>5. ASSUME NEW d \in Token
        PROVE  /\ Served(Failed(Begun(t)[d])).error = "Runtime"
               /\ Served(Failed(Begun(t)[d])).outstanding = Begun(t)[d].outstanding - 1
    <3>1. Failed(Begun(t)[d]) \in Cur /\ Failed(Begun(t)[d]).error = "Runtime"
          /\ Failed(Begun(t)[d]).outstanding = Begun(t)[d].outstanding - 1
      BY <1>4, FailedIs
    <3> QED BY <3>1, ServedIs
  <2>6. cursor'[t].error = "Runtime" /\ cursor'[t].outstanding = 0
    BY <1>4, <2>1, <2>5 DEF Aborted, Alive
  <2>7. OwnOf(t)'
    BY <2>2, <2>4, <2>6, FirstOwn DEF Serving
  <2>8. ASSUME NEW d \in Token, d # t PROVE Still(d)
    <3>1. Begun(t)[d] = cursor[d] /\ (d \in Alive(t) <=> d \in cached /\ cursor[d].error = "None")
      BY <1>4, <2>8 DEF Alive
    <3>2. /\ cursor'[d] = IF d \in Alive(t) THEN Served(Failed(Begun(t)[d])) ELSE cursor[d]
          /\ d \in cached' <=> d \in cached /\ (d \in Alive(t) => cursor[d].outstanding # 1)
          /\ queries' = queries
      BY <2>1, <2>8, <3>1 DEF Aborted
    <3>3. StillTold(d)
      BY <2>2, <2>5, <2>8, <3>1, <3>2 DEF StillTold
    <3>4. StillKept(d)
      BY <1>6, <2>2, <2>4, <2>5, <2>8, <3>1, <3>2 DEF StillKept
    <3> QED BY <2>3, <3>3, <3>4 DEF Still
  <2>9. conn'.attached => t < conn'.next_token
    BY <1>2, <2>2, KnownAges
  <2> QED BY <2>2, <2>7, <2>8, <2>9 DEF Handled
<1>7. CASE raised /\ driver # "gevent" /\ held' = held /\ Raises(Begun(t), cached \cup {t}, task, cn)
  <2> DEFINE cache == cached \cup {t}
  <2>0. cache \in SUBSET Token /\ Raises(Begun(t), cache, task, cn) /\ t \in cache
        /\ \A d \in Token \ {t} : d \in cache <=> d \in cached
    BY <1>4, <1>7
  <2> HIDE DEF cache
  <2>1. Ages /\ ~Working'
    BY <1>1, <1>2, <1>4, <1>5, <2>0, RaiseAges
  <2>2. Spared(Begun(t), cache, task)
    BY <1>4, <1>5, <2>0, RaisesSpare
  <2>3. \A d \in Token : StillAsks(d)
    BY <1>4, <2>2, SparedAsks
  <2>4. /\ cursor[t].error = "Absent" /\ Owed(t)' \in 0 .. 1 /\ Owed(t)' = 0
        /\ \A v \in Task : Asks(v)' => task'[v].t # t
        /\ \A d \in Token \ {t} : awaiting'[d] = awaiting[d] /\ (d \in conts' <=> d \in conts)
    BY <1>2, <1>3, <1>7, <2>1, <2>3, FirstOwed
  <2>5. conn'.reader \in {"ended", "stuck"}
    <3>1. driver # "twisted"
      BY <1>5, <1>7
    <3>2. Broken(cn)
      BY <1>4, <1>5, <2>0, RaisesBroken
    <3> QED BY <1>2, <1>5, <3>1, <3>2 DEF Broken
  <2>6. /\ \/ cursor'[t].error = "None" /\ cursor'[t].outstanding = 1
           \/ cursor'[t].error = "Runtime" /\ cursor'[t].outstanding = 0
        /\ t \in cached' \/ cursor'[t].error # "None"
    BY <1>4, <2>0, <2>1, <2>2, SparedTo
  <2>7. OwnOf(t)'
    <3>1. ~Serving' /\ ~Exact'
      BY <2>1, <2>5 DEF Serving, Exact
    <3> QED BY <2>4, <2>5, <2>6, <3>1, FirstOwn
  <2>8. ASSUME NEW d \in Token, d # t PROVE Still(d)
    <3>1. Begun(t)[d] = cursor[d]
      BY <1>4, <2>8
    <3> QED BY <1>4, <1>7, <2>0, <2>1, <2>2, <2>4, <2>8, <3>1, SparedStill
  <2>9. conn'.attached => t < conn'.next_token
    BY <1>2, <2>1, KnownAges
  <2> QED BY <2>1, <2>7, <2>8, <2>9 DEF Handled
<1>8. CASE /\ ~raised /\ cursor' = First(t, r) /\ cached' = cached \cup {t} /\ conn' = cn
           /\ queries' = [queries EXCEPT ![t] = "none"]
           /\ held' = IF Users(t) = {} THEN held ELSE held \cup {t}
           /\ task' = [u \in Task |-> IF u \in Users(t) THEN Idle ELSE task[u]]
  <2>1. Ages
    BY <1>2, <1>5, <1>8, FetchAges
  <2>2. \A v \in Task : task'[v] = task[v] \/ (task'[v] = Idle /\ task[v].pc = "run")
    BY <1>8 DEF Users
  <2>3. \A d \in Token : StillAsks(d)
    BY <2>2, IdleType DEF StillAsks, Asks
  <2>4. /\ Owed(t)' \in 0 .. 1 /\ (Exact' => Owed(t)' = 1)
        /\ \A v \in Task : Asks(v)' => task'[v].t # t
        /\ \A d \in Token \ {t} : awaiting'[d] = awaiting[d] /\ (d \in conts' <=> d \in conts)
    BY <1>2, <1>3, <1>8, <2>1, <2>3, FirstOwed
  <2>5. cursor'[t].error # "Absent" /\ cursor'[t].outstanding = 1 /\ t \in cached'
        /\ queries'[t] = "none" /\ conn'.reader # "none"
    BY <1>2, <1>4, <1>5, <1>8 DEF EndOf
  <2>6. OwnOf(t)'
    BY <2>4, <2>5, FirstOwn
  <2>7. ASSUME NEW d \in Token, d # t PROVE Still(d)
    <3>1. /\ cursor'[d] = cursor[d] /\ queries'[d] = queries[d]
          /\ (d \in cached' <=> d \in cached) /\ (d \in held' <=> d \in held)
      BY <1>4, <1>8, <2>7
    <3> QED BY <2>3, <2>4, <2>7, <3>1 DEF Still, StillTold, StillKept
  <2>8. conn'.attached => t < conn'.next_token
    BY <1>2, <2>1, KnownAges
  <2> QED BY <2>1, <2>6, <2>7, <2>8 DEF Handled
<1> QED BY <1>1, <1>6, <1>7, <1>8

-----------------------------------------------------------------------------
LEMMA OwnStep ==
  ASSUME Typed, Typed', ConnInv, OwnInv, FreshInv, [Next]_vars
  PROVE  OwnInv' /\ FreshInv'
<1>1. CASE UNCHANGED vars
  <2>1. Ages
    BY <1>1, FetchAges DEF vars, srvVars
  <2>2. \A d \in Token : Still(d)
    BY <1>1 DEF vars, srvVars, Still, StillTold, StillKept, StillAsks
  <2> QED BY <2>1, <2>2, HandledStep DEF Handled
<1>2. CASE \/ \E u \in Task : \/ ConnectCall(u) \/ HandshakeDone(u) \/ HandshakeFails(u)
                              \/ Cancel(u) \/ CloseStream(u)
                              \/ \E ok \in BOOLEAN : OpenStream(u, ok)
           \/ TimerFires \/ HandshakeLate
  BY <1>2, ConnectAges, ConnectStill, HandledStep DEF Handled
<1>3. ASSUME NEW u \in Task, NextItem(u) \/ NextError(u) \/ TakeRow(u) \/ NextTimeout(u) \/ Shut(u)
      PROVE  OwnInv' /\ FreshInv'
  BY <1>3, RowStill, HandledStep DEF Handled
<1>4. CASE \/ \E t \in Token : SkipWhileClosing(t)
           \/ ReadNothing \/ ConnectionLost \/ StreamEnds
           \/ \E end \in {"eof", "reset"} : Drop(end)
  BY <1>4, NetworkStill, HandledStep DEF Handled
<1>5. CASE ReadEnd \/ \E t \in Token : UnexpectedResponse(t)
  BY <1>5, EndStill, HandledStep DEF Handled
<1>6. ASSUME NEW u \in Task,
             \/ \E op \in {"start", "plain"} : Run(u, op)
             \/ Send(u) \/ Register(u)
      PROVE  OwnInv' /\ FreshInv'
  BY <1>6, RunOwn, SendOwn, RegisterOwn, HandledStep
<1>7. ASSUME NEW u \in Task,
             \/ NextWait(u)
             \/ \E t \in Token : NextCall(u, t) \/ \E pc \in {"get", "fetch"} : TwistedNext(u, t, pc)
             \/ \E t \in Token : CursorClose(u, t)
      PROVE  OwnInv' /\ FreshInv'
  BY <1>7, NextOwn, StopOwn, HandledStep
<1>8. ASSUME NEW u \in Task, NEW noreply_wait \in BOOLEAN, Close(u, noreply_wait)
      PROVE  OwnInv' /\ FreshInv'
  BY <1>8, CloseOwn, HandledStep
<1>9. ASSUME NEW t \in Token,
             ReadValue(t) \/ ContinueRuns(t) \/ \E r \in Response : ReadBatch(t, r) \/ ReadStream(t, r)
      PROVE  OwnInv' /\ FreshInv'
  BY <1>9, ValueOwn, ContinueOwn, BatchOwn, StreamOwn, HandledStep
<1>10. ASSUME NEW u \in Task, Call(u) \/ Resume(u) \/ HandshakeFails(u)
       PROVE  OwnInv' /\ FreshInv'
  BY <1>2, <1>3, <1>6, <1>7, <1>8, <1>10 DEF Call, Resume
<1>11. CASE ReadResponse
  BY <1>4, <1>5, <1>9, <1>11 DEF ReadResponse
<1> QED BY <1>1, <1>2, <1>4, <1>5, <1>9, <1>10, <1>11 DEF Next

LEMMA InitConn == Init => ConnInv
<1> SUFFICES ASSUME Init PROVE ConnInv
  OBVIOUS
<1>1. /\ conn.attached = TRUE /\ conn.stage = "new" /\ conn.stream = "none"
      /\ conn.closing = FALSE /\ conn.closed = FALSE /\ conn.timer = FALSE /\ conn.cut = FALSE
      /\ conn.reader = "none" /\ conts = {}
  BY DEF Init
<1>2. \A u \in Task : task[u].pc = "idle" /\ task[u].op = "none"
  BY IdleType DEF Init
<1>3. PlaceInv
  BY <1>1, <1>2 DEF PlaceInv, OpOf
<1>4. StageInv
  BY <1>1, <1>2 DEF StageInv, Connecting
<1>5. OpenInv /\ NothingLeftOpen
  BY <1>1 DEF OpenInv, NothingLeftOpen
<1> QED BY <1>3, <1>4, <1>5 DEF ConnInv

(* What the invariants of the tokens say of the answers on their way.      *)
LEMMA AnswersExpected ==
  ASSUME Typed, ConnInv, OwnInv
  PROVE  NoUnexpectedResponse /\ RequestsAccounted
<1>1. ASSUME NEW t \in Token, awaiting[t] > 0, conn.reader = "run", ~conn.closing, t \notin cached
      PROVE  queries[t] # "none" \/ SentAt(t)
  <2>1. CountOf(t) /\ Working
    BY <1>1 DEF OwnInv, OwnOf, Working, Serving
  <2>2. Owed(t) >= awaiting[t] /\ awaiting[t] \in Nat /\ Owed(t) \in Nat
    <3>1. One(SendsAt(t)) \in {0, 1} /\ One(t \in conts) \in {0, 1} /\ awaiting[t] \in Nat
      BY OneIs DEF Typed
    <3> QED BY <3>1 DEF Owed
  <2> QED BY <1>1, <2>1, <2>2 DEF CountOf
<1>2. NoUnexpectedResponse
  BY <1>1 DEF NoUnexpectedResponse, SentAt
<1>3. ASSUME NEW t \in cached, cursor[t].error = "None", Usable, conn.stream = "open", link = "up"
      PROVE  cursor[t].outstanding = awaiting[t] + IF t \in conts THEN 1 ELSE 0
  <2>1. conn.closing \in BOOLEAN /\ conn.closed \in BOOLEAN /\ t \in Token
        /\ conn.reader \in {"none", "run", "spin", "stuck", "ended"} /\ awaiting[t] \in Nat
    BY DEF Typed, ConnType
  <2>2. ~conn.closing
    BY <1>3, <2>1 DEF ConnInv, OpenInv, Usable
  <2>3. Serving /\ ~conn.closed
    BY <1>3, <2>1, <2>2 DEF ConnInv, OpenInv, StageInv, Usable, IsOpen, Serving
  <2>4. Owed(t) = cursor[t].outstanding
    BY <1>3, <2>1, <2>2, <2>3 DEF OwnInv, OwnOf, CountOf, Exact, Working
  <2>5. One(SendsAt(t)) = 0
    BY <1>3, <2>1 DEF OwnInv, OwnOf, AskOf, SendsAt, Asks, One
  <2> QED BY <2>1, <2>4, <2>5 DEF Owed, One
<1>4. RequestsAccounted
  BY <1>3 DEF RequestsAccounted
<1> QED BY <1>2, <1>4

(* The connection, its tokens and what is owed to them, in one invariant.  *)
Base == Typed /\ ConnInv /\ OwnInv /\ FreshInv

LEMMA BaseInit == Init => Base
  BY InitTyped, InitConn, InitOwn DEF Base

LEMMA BaseStep == Base /\ [Next]_vars => Base'
<1> SUFFICES ASSUME Base, [Next]_vars PROVE Base'
  OBVIOUS
<1>1. Typed /\ ConnInv /\ OwnInv /\ FreshInv
  BY DEF Base
<1>2. Typed'
  BY <1>1, TypeStep
<1>3. ConnInv'
  BY <1>1, <1>2, ConnStep
<1>4. OwnInv' /\ FreshInv'
  BY <1>1, <1>2, OwnStep
<1> QED BY <1>2, <1>3, <1>4 DEF Base

-----------------------------------------------------------------------------
(* The rows of a cursor: those the application has taken, those that are   *)
(* queued, and those in the hands of a Deferred that has been called back. *)
(* Twisted's getters are the tasks that wait for one, each of them once.   *)
Gets(x, d)  == x.pc = "get" /\ x.t = d
Takes(x, d) == x.pc = "taken" /\ x.t = d
Getting(tk, d) == {u \in Task : Gets(tk[u], d)}
Taking(tk, d)  == {u \in Task : Takes(tk[u], d)}
Total(c, tk, d) == c.got + c.items + Cardinality(Taking(tk, d))
Lists(g, S) ==
  /\ \A i, j \in 1 .. Len(g) : g[i] = g[j] => i = j
  /\ \A u \in Task : u \in S <=> \E i \in 1 .. Len(g) : g[i] = u
Lined(c, tk, d) == Lists(c.getters, Getting(tk, d))

(* Taking is a finite set, so that rows in hand can be counted.            *)
LEMMA TakingIs ==
  ASSUME NEW tk, NEW d
  PROVE  IsFiniteSet(Taking(tk, d)) /\ Cardinality(Taking(tk, d)) \in Nat
<1>1. Taking(tk, d) \in SUBSET Task
  BY DEF Taking
<1> QED BY <1>1, Constants, FS_Subset, FS_CardinalityType

LEMMA TotalType ==
  ASSUME NEW c \in Cur, NEW tk, NEW d
  PROVE  Total(c, tk, d) \in Nat /\ c.got <= Total(c, tk, d) /\ c.items <= Total(c, tk, d)
         /\ (c.items > 0 => c.got < Total(c, tk, d))
<1>1. c.got \in Nat /\ c.items \in Nat
  BY DEF Cur
<1> QED BY <1>1, TakingIs DEF Total

(* The first n of a list without doubles are n.                            *)
LEMMA PrefixCard ==
  ASSUME NEW g \in Seq(Task), NEW n \in 0 .. Len(g),
         \A i, j \in 1 .. Len(g) : g[i] = g[j] => i = j
  PROVE  Cardinality({g[i] : i \in 1 .. n}) = n /\ IsFiniteSet({g[i] : i \in 1 .. n})
<1> DEFINE S == {g[i] : i \in 1 .. n}
           f == [i \in 1 .. n |-> g[i]]
<1>1. n \in Nat /\ 1 .. n \subseteq 1 .. Len(g)
  OBVIOUS
<1>2. f \in [1 .. n -> S]
  OBVIOUS
<1>3. \A i, j \in 1 .. n : f[i] = f[j] => i = j
  BY <1>1
<1>4. \A s \in S : \E i \in 1 .. n : f[i] = s
  OBVIOUS
<1>5. f \in Bijection(1 .. n, S)
  <2>0. DOMAIN f = 1 .. n
    OBVIOUS
  <2> HIDE DEF f, S
  <2>1. f \in Injection(1 .. n, S)
    BY <2>0, <1>2, <1>3 DEF Injection, IsInjective
  <2>2. f \in Surjection(1 .. n, S)
    BY <2>0, <1>2, <1>4 DEF Surjection
  <2> QED BY <2>1, <2>2 DEF Bijection
<1>6. ExistsBijection(1 .. n, S)
  BY <1>5 DEF ExistsBijection
<1>7. IsFiniteSet(1 .. n) /\ Cardinality(1 .. n) = n
  BY <1>1, FS_Interval
<1>8. Cardinality(S) = n /\ IsFiniteSet(S)
  <2> HIDE DEF S
  <2> QED BY <1>6, <1>7, FS_Bijection
<1> QED BY <1>8

(* What a step does to a task, seen from a cursor; and to the cursor and   *)
(* its tasks together.                                                     *)
RestsAt(x, y, d) == (Gets(x, d) <=> Gets(y, d)) /\ (Takes(x, d) <=> Takes(y, d))
Keeps(c, tk, c2, tk2, d) ==
  Lined(c, tk, d) => Lined(c2, tk2, d) /\ Total(c2, tk2, d) = Total(c, tk, d)

(* Rows kept by one half of a step and by the other are kept by both.      *)
LEMMA KeepsTrans ==
  ASSUME NEW c, NEW tk, NEW c2, NEW tk2, NEW c3, NEW tk3, NEW d,
         Keeps(c, tk, c2, tk2, d), Keeps(c2, tk2, c3, tk3, d)
  PROVE  Keeps(c, tk, c3, tk3, d)
BY DEF Keeps

(* A cursor is kept as it was if its tasks rest.                           *)
LEMMA RestKeeps ==
  ASSUME NEW c, NEW c2, NEW tk, NEW tk2, NEW d, \A v \in Task : RestsAt(tk[v], tk2[v], d),
         c2.getters = c.getters, c2.items = c.items, c2.got = c.got
  PROVE  Keeps(c, tk, c2, tk2, d)
<1>1. Getting(tk2, d) = Getting(tk, d) /\ Taking(tk2, d) = Taking(tk, d)
  BY DEF Getting, Taking, RestsAt
<1> QED BY <1>1 DEF Keeps, Lined, Total

(* The getters get the rows there are, the first ones first, or the error. *)
LEMMA ServeKeeps ==
  ASSUME NEW c \in Cur, NEW d, NEW tk \in [Task -> TaskState], NEW tk2 \in [Task -> TaskState],
         \A v \in Task : IF Gets(tk[v], d) THEN tk2[v] = Resumed(tk[v], v, c)
                         ELSE RestsAt(tk[v], tk2[v], d)
  PROVE  Keeps(c, tk, Served(c), tk2, d)
<1> SUFFICES ASSUME Lined(c, tk, d)
             PROVE  Lined(Served(c), tk2, d) /\ Total(Served(c), tk2, d) = Total(c, tk, d)
  BY DEF Keeps
<1>0. PICK g : g = c.getters
  OBVIOUS
<1>1. PICK n : n = Rows(c)
  OBVIOUS
<1> DEFINE F == {g[i] : i \in 1 .. n}
<1>2. g \in Seq(Task) /\ Len(g) \in Nat /\ n \in 0 .. Len(g) /\ n <= c.items /\ c.items \in Nat
      /\ c.got \in Nat
  BY <1>0, <1>1, RowsType DEF Cur
<1>3. /\ \A i, j \in 1 .. Len(g) : g[i] = g[j] => i = j
      /\ \A u \in Task : Gets(tk[u], d) <=> \E i \in 1 .. Len(g) : g[i] = u
  BY <1>0 DEF Lined, Lists, Getting
<1>4. \A v \in Task : v \in ToSet(SubSeq(g, 1, n)) <=> v \in F
  <2>1. \A i \in 1 .. n : g[i] \in Task
    BY <1>2
  <2>2. Len(SubSeq(g, 1, n)) = n /\ \A i \in 1 .. n : SubSeq(g, 1, n)[i] = g[i]
    BY <1>2, <2>1, SubSeqProperties
  <2>3. SubSeq(g, 1, n) \in Seq(Task)
    BY <1>2, <2>1, SubSeqProperties
  <2>4. DOMAIN SubSeq(g, 1, n) = 1 .. n
    BY <2>2, <2>3
  <2> QED BY <2>2, <2>4 DEF ToSet
<1>5. ASSUME NEW v \in Task, Gets(tk[v], d)
      PROVE  /\ v \in F => Takes(tk2[v], d) /\ ~Gets(tk2[v], d)
             /\ v \notin F => ~Takes(tk2[v], d) /\ (Gets(tk2[v], d) <=> c.error = "None")
  <2>1. tk[v] \in TaskState /\ tk[v].pc = "get" /\ tk[v].t = d /\ tk2[v] = Resumed(tk[v], v, c)
    BY <1>5 DEF Gets
  <2>2. CASE v \in F
    <3>1. tk2[v] = [tk[v] EXCEPT !.pc = "taken"]
      BY <1>0, <1>1, <1>4, <2>1, <2>2 DEF Resumed
    <3> QED BY <2>1, <2>2, <3>1 DEF Takes, Gets, TaskState
  <2>3. CASE v \notin F
    <3>1. tk2[v] = IF c.error # "None" THEN Idle ELSE tk[v]
      BY <1>0, <1>1, <1>4, <2>1, <2>3 DEF Resumed
    <3> QED BY <2>1, <2>3, <3>1, IdleType DEF Takes, Gets
  <2> QED BY <2>2, <2>3
<1>6. \A v \in F : v \in Task /\ Gets(tk[v], d)
  BY <1>2, <1>3
<1>7. Taking(tk2, d) = Taking(tk, d) \cup F /\ Taking(tk, d) \cap F = {}
  <2> HIDE DEF F
  <2>1. \A v \in Task : Gets(tk[v], d) => ~Takes(tk[v], d)
    BY DEF Gets, Takes
  <2>2. \A v \in Task : ~Gets(tk[v], d) => (Takes(tk[v], d) <=> Takes(tk2[v], d))
    BY DEF RestsAt
  <2> QED BY <1>5, <1>6, <2>1, <2>2 DEF Taking
<1>8. Cardinality(Taking(tk2, d)) = Cardinality(Taking(tk, d)) + n
  <2>1. Cardinality(F) = n /\ IsFiniteSet(F)
    BY <1>2, <1>3, PrefixCard
  <2> HIDE DEF F
  <2>2. IsFiniteSet(Taking(tk, d)) /\ Cardinality(Taking(tk, d)) \in Nat /\ n \in Nat
    BY <1>2, TakingIs
  <2>3. PICK G : G = Taking(tk, d)
    OBVIOUS
  <2>4. Cardinality(G \cup F) = Cardinality(G) + Cardinality(F) - Cardinality(G \cap F)
    BY <2>1, <2>2, <2>3, FS_Union
  <2>5. Cardinality(G \cap F) = 0
    <3>1. G \cap F = {}
      BY <1>7, <2>3
    <3> QED BY <3>1, FS_EmptySet, Zenon
  <2>6. Cardinality(G) \in Nat /\ Cardinality(F) = n
    BY <2>1, <2>2, <2>3
  <2>7. Cardinality(G \cup F) = Cardinality(G) + n
    BY <2>2, <2>4, <2>5, <2>6
  <2> QED BY <1>7, <2>3, <2>7
<1>9. Total(Served(c), tk2, d) = Total(c, tk, d)
  <2>1. Served(c).got = c.got /\ Served(c).items = c.items - n
    BY <1>1, ServedIs
  <2>2. Cardinality(Taking(tk, d)) \in Nat
    BY TakingIs
  <2> QED BY <1>2, <1>8, <2>1, <2>2 DEF Total
<1>10. CASE c.error # "None"
  <2>1. Served(c).getters = <<>>
    BY <1>10, ServedIs
  <2>2. \A v \in Task : ~Gets(tk2[v], d)
    BY <1>5, <1>10 DEF RestsAt
  <2> QED BY <1>9, <2>1, <2>2 DEF Lined, Lists, Getting
<1>11. CASE c.error = "None"
  <2> DEFINE h == SubSeq(g, n + 1, Len(g))
  <2>1. Served(c).getters = h
    BY <1>0, <1>1, <1>11, ServedIs
  <2>2. Len(h) = Len(g) - n /\ \A i \in 1 .. Len(g) - n : h[i] = g[n + i]
    <3>1. \A i \in n + 1 .. Len(g) : g[i] \in Task
      BY <1>2
    <3>2. /\ Len(h) = IF n + 1 <= Len(g) THEN Len(g) - (n + 1) + 1 ELSE 0
          /\ \A i \in 1 .. Len(g) - (n + 1) + 1 : h[i] = g[n + 1 + i - 1]
      BY <1>2, <3>1, SubSeqProperties
    <3> HIDE DEF h
    <3> QED BY <1>2, <3>2
  <2> HIDE DEF h
  <2>3. \A i, j \in 1 .. Len(h) : h[i] = h[j] => i = j
    <3> SUFFICES ASSUME NEW i \in 1 .. Len(h), NEW j \in 1 .. Len(h), h[i] = h[j] PROVE i = j
      OBVIOUS
    <3>1. g[n + i] = g[n + j] /\ n + i \in 1 .. Len(g) /\ n + j \in 1 .. Len(g)
      BY <1>2, <2>2
    <3>2. n + i = n + j
      BY <1>3, <3>1
    <3> QED BY <1>2, <3>2
  <2>4. ASSUME NEW u \in Task
        PROVE  Gets(tk2[u], d) <=> \E i \in 1 .. Len(h) : h[i] = u
    <3>1. Gets(tk2[u], d) <=> Gets(tk[u], d) /\ u \notin F
      BY <1>5, <1>6, <1>11 DEF RestsAt
    <3>2. ASSUME NEW i \in 1 .. Len(h), h[i] = u PROVE Gets(tk[u], d) /\ u \notin F
      <4>1. g[n + i] = u /\ n + i \in 1 .. Len(g)
        BY <1>2, <2>2, <3>2
      <4>2. \A j \in 1 .. n : g[j] # u
        <5> SUFFICES ASSUME NEW j \in 1 .. n, g[j] = u PROVE FALSE
          OBVIOUS
        <5>1. j \in 1 .. Len(g)
          BY <1>2
        <5>2. j = n + i
          BY <1>3, <4>1, <5>1
        <5> QED BY <1>2, <2>2, <5>2
      <4> QED BY <1>3, <4>1, <4>2
    <3>3. ASSUME Gets(tk[u], d), u \notin F PROVE \E i \in 1 .. Len(h) : h[i] = u
      <4>1. PICK j \in 1 .. Len(g) : g[j] = u
        BY <1>3, <3>3
      <4>2. j > n
        BY <1>2, <3>3, <4>1
      <4>3. j - n \in 1 .. Len(h) /\ n + (j - n) = j
        BY <1>2, <2>2, <4>2
      <4>4. h[j - n] = u
        BY <2>2, <4>1, <4>3
      <4> QED BY <4>3, <4>4
    <3> QED BY <3>1, <3>2, <3>3
  <2> QED BY <1>9, <2>1, <2>3, <2>4 DEF Lined, Lists, Getting
<1> QED BY <1>10, <1>11

(* A resumed task was not at this cursor, or waited at it; so with Woken.  *)
LEMMA ResumedRests ==
  ASSUME NEW x \in TaskState, NEW v, NEW c, Waits(x), NEW d, ~Gets(x, d)
  PROVE  RestsAt(x, Resumed(x, v, c), d)
<1>1. PICK y : y = Resumed(x, v, c)
  OBVIOUS
<1>2. /\ \/ y = x
         \/ y = Idle /\ x.pc # "wait"
         \/ y.pc = "next" /\ x.pc = "wait"
         \/ y.pc = "taken" /\ x.pc = "get"
      /\ y # Idle => y.t = x.t
  BY <1>1, ResumedIs
<1>3. x.pc \in {"wait", "get", "fetch"} /\ Idle.pc = "idle"
  BY IdleType DEF Waits
<1> QED BY <1>1, <1>2, <1>3 DEF RestsAt, Gets, Takes

LEMMA WokenRests ==
  ASSUME NEW tk \in [Task -> TaskState], NEW S, NEW cur, NEW d, NEW v \in Task
  PROVE  IF d \in S /\ Gets(tk[v], d) THEN Woken(tk, S, cur)[v] = Resumed(tk[v], v, cur[d])
         ELSE RestsAt(tk[v], Woken(tk, S, cur)[v], d)
<1>1. Woken(tk, S, cur)[v] =
        IF tk[v].t \in S /\ Waits(tk[v]) THEN Resumed(tk[v], v, cur[tk[v].t]) ELSE tk[v]
  BY WokenIs
<1>2. tk[v] \in TaskState
  OBVIOUS
<1>3. CASE d \in S /\ Gets(tk[v], d)
  BY <1>1, <1>3 DEF Gets, Waits
<1>4. CASE ~(d \in S /\ Gets(tk[v], d))
  <2>1. CASE tk[v].t \in S /\ Waits(tk[v])
    <3>1. ~Gets(tk[v], d)
      BY <1>4, <2>1 DEF Gets
    <3>2. RestsAt(tk[v], Resumed(tk[v], v, cur[tk[v].t]), d)
      BY <1>2, <2>1, <3>1, ResumedRests
    <3> QED BY <1>1, <1>4, <2>1, <3>2
  <2>2. CASE ~(tk[v].t \in S /\ Waits(tk[v]))
    BY <1>1, <1>4, <2>2 DEF RestsAt
  <2> QED BY <2>1, <2>2
<1> QED BY <1>3, <1>4

(* Telling cursors of the end neither loses nor makes up a row.            *)
Spares(cur, tk, d) ==
  /\ Keeps(cur[d], tk, cursor'[d], task', d)
  /\ cursor'[d].got = cur[d].got
  /\ cursor'[d].error = cur[d].error \/ (cur[d].error = "None" /\ cursor'[d].error = "Runtime")

LEMMA TellSpares ==
  ASSUME Typed, NEW w, w.told \in SUBSET Token, w.whole \in BOOLEAN,
         NEW cur \in [Token -> Cur], NEW cache \in SUBSET Token, NEW tk \in [Task -> TaskState],
         NEW pending, Tell(w, cur, cache, tk, pending), \A t \in w.told : cur[t].error = "None",
         NEW d \in Token
  PROVE  Spares(cur, tk, d)
<1>0. PICK failed : failed = [t \in Token |-> IF t \in w.told THEN Failed(cur[t]) ELSE cur[t]]
  OBVIOUS
<1>1. PICK woken : woken = Woken(tk, w.told, failed)
  OBVIOUS
<1>2. /\ cursor'[d] = IF d \in w.told THEN Served(failed[d]) ELSE cur[d]
      /\ \A v \in Task : task'[v] =
           IF w.whole /\ tk[v].pc \in {"run", "flush"} /\ queries[tk[v].t] # "none"
           THEN Idle ELSE woken[v]
  BY <1>0, <1>1 DEF Tell, Failed
<1>3. task' \in [Task -> TaskState] /\ cur[d] \in Cur
  BY TellIs
<1>4. ASSUME NEW v \in Task
      PROVE  IF d \in w.told /\ Gets(tk[v], d) THEN task'[v] = Resumed(tk[v], v, failed[d])
             ELSE RestsAt(tk[v], task'[v], d)
  <2>1. IF d \in w.told /\ Gets(tk[v], d) THEN woken[v] = Resumed(tk[v], v, failed[d])
        ELSE RestsAt(tk[v], woken[v], d)
    BY <1>1, WokenRests
  <2>2. CASE w.whole /\ tk[v].pc \in {"run", "flush"} /\ queries[tk[v].t] # "none"
    <3>1. task'[v] = Idle /\ Idle.pc = "idle"
      BY <1>2, <2>2, IdleType
    <3> QED BY <2>2, <3>1 DEF RestsAt, Gets, Takes
  <2>3. CASE ~(w.whole /\ tk[v].pc \in {"run", "flush"} /\ queries[tk[v].t] # "none")
    <3>1. task'[v] = woken[v]
      BY <1>2, <2>3
    <3> QED BY <2>1, <3>1
  <2> QED BY <2>2, <2>3
<1>5. CASE d \notin w.told
  <2>1. cursor'[d] = cur[d] /\ \A v \in Task : RestsAt(tk[v], task'[v], d)
    BY <1>2, <1>4, <1>5
  <2> QED BY <2>1, RestKeeps DEF Spares
<1>6. CASE d \in w.told
  <2>1. PICK c : c = Failed(cur[d])
    OBVIOUS
  <2>2. failed[d] = c /\ cursor'[d] = Served(c)
    BY <1>0, <1>2, <1>6, <2>1
  <2>3. /\ c \in Cur /\ c.error = "Runtime" /\ c.items = cur[d].items /\ c.got = cur[d].got
        /\ c.getters = cur[d].getters
    BY <1>3, <2>1, FailedIs
  <2>4. Keeps(c, tk, Served(c), task', d)
    <3>1. \A v \in Task : IF Gets(tk[v], d) THEN task'[v] = Resumed(tk[v], v, c)
                          ELSE RestsAt(tk[v], task'[v], d)
      BY <1>4, <1>6, <2>2
    <3> QED BY <1>3, <2>3, <3>1, ServeKeeps
  <2>5. Keeps(cur[d], tk, c, tk, d)
    <3>1. \A v \in Task : RestsAt(tk[v], tk[v], d)
      BY DEF RestsAt
    <3> QED BY <2>3, <3>1, RestKeeps
  <2>6. Keeps(cur[d], tk, Served(c), task', d)
    BY <2>4, <2>5, KeepsTrans
  <2>7. Served(c).got = c.got /\ Served(c).error = c.error
    BY <2>3, ServedIs
  <2> QED BY <1>6, <2>2, <2>3, <2>6, <2>7 DEF Spares
<1> QED BY <1>5, <1>6

(* A cursor no step touches is spared; and so are all when the reader      *)
(* ends, by an exception or by the end of the stream.                      *)
LEMMA SparesSelf ==
  ASSUME NEW cur, NEW tk, NEW d, cursor'[d] = cur[d], \A v \in Task : RestsAt(tk[v], task'[v], d)
  PROVE  Spares(cur, tk, d)
BY RestKeeps DEF Spares

LEMMA RaisesSpares ==
  ASSUME Typed, NEW cur \in [Token -> Cur], NEW cache \in SUBSET Token,
         NEW tk \in [Task -> TaskState], NEW cn \in ConnType, Raises(cur, cache, tk, cn)
  PROVE  /\ \A d \in Token : Spares(cur, tk, d)
         /\ \A v \in Task : task'[v] = tk[v] \/ task'[v] = Idle
                            \/ (task'[v].op = tk[v].op /\ task'[v].t = tk[v].t)
         /\ driver # "twisted" => ~Serving'
<1>1. CASE conn.closing
  <2>1. cursor' = cur /\ task' = tk
        /\ conn' = [cn EXCEPT !.reader = IF driver = "twisted" THEN @ ELSE "ended"]
    BY <1>1 DEF Raises
  <2>2. \A d \in Token : Spares(cur, tk, d)
    <3>1. \A d \in Token, v \in Task : RestsAt(tk[v], task'[v], d)
      BY <2>1 DEF RestsAt
    <3> QED BY <2>1, <3>1, SparesSelf
  <2>3. driver # "twisted" => ~Serving'
    BY <2>1 DEF Serving, ConnType
  <2> QED BY <2>1, <2>2, <2>3
<1>2. CASE ~conn.closing
  <2>1. PICK w \in Tellings(cache, cur) :
          /\ Tell(w, cur, cache, tk, {})
          /\ conn' = [Shutdown(cn) EXCEPT !.closing = TRUE,
                         !.reader = IF driver = "trio" THEN "stuck" ELSE "ended"]
    BY <1>2 DEF Raises
  <2>2. w.told \in SUBSET Token /\ w.whole \in BOOLEAN /\ \A t \in w.told : cur[t].error = "None"
    BY TellingsAre
  <2>3. \A d \in Token : Spares(cur, tk, d)
    BY <2>1, <2>2, TellSpares
  <2>4. ASSUME NEW v \in Task
        PROVE  task'[v] = tk[v] \/ task'[v] = Idle
               \/ (task'[v].op = tk[v].op /\ task'[v].t = tk[v].t)
    <3>1. \/ Wakes(tk[v], task'[v])
          \/ task'[v] = Idle
      BY <2>1, <2>2, TellIs
    <3> QED BY <3>1 DEF Wakes
  <2>5. ~Serving'
    <3>1. Shutdown(cn) \in ConnType
      BY ShutdownIs
    <3> QED BY <2>1, <3>1 DEF Serving, ConnType
  <2> QED BY <2>3, <2>4, <2>5
<1> QED BY <1>1, <1>2

-----------------------------------------------------------------------------
(* The invariant of the rows: an open cursor whose connection still reads  *)
(* has all rows that were sent; no cursor has others; and the tasks in     *)
(* next() and fetch_next() have been given their cursor.                   *)
RowsOf(d) ==
  /\ Lined(cursor[d], task, d)
  /\ Total(cursor[d], task, d) <= sent[d]
  /\ cursor[d].error = "None" /\ Serving => Total(cursor[d], task, d) = sent[d]
  /\ cursor[d].error = "Absent" => sent[d] = 0 /\ ~done[d]
  /\ d \notin held => cursor[d].got = 0
NextInv == \A u \in Task : task[u].op = "next" => task[u].t \in held
RowsInv == NextInv /\ \A d \in Token : RowsOf(d)

(* No rows have been sent, and no task waits.                              *)
LEMMA RowsInit == Init => RowsInv
<1> SUFFICES ASSUME Init PROVE RowsInv
  OBVIOUS
<1>1. \A u \in Task : task[u].op = "none" /\ task[u].pc = "idle"
  BY IdleType DEF Init
<1>2. ASSUME NEW d \in Token PROVE RowsOf(d)
  <2>1. /\ cursor[d].error = "Absent" /\ cursor[d].items = 0 /\ cursor[d].got = 0
        /\ cursor[d].getters = <<>> /\ sent[d] = 0 /\ ~done[d]
    BY DEF Init
  <2>2. Taking(task, d) = {} /\ Getting(task, d) = {}
    BY <1>1 DEF Taking, Getting, Takes, Gets
  <2>3. Total(cursor[d], task, d) = 0
    BY <2>1, <2>2, FS_EmptySet DEF Total
  <2>4. Lined(cursor[d], task, d)
    BY <2>1, <2>2 DEF Lined, Lists
  <2> QED BY <2>1, <2>3, <2>4 DEF RowsOf
<1> QED BY <1>1, <1>2 DEF RowsInv, NextInv

(* What a task does that has nothing to do with rows.                      *)
Pauses(v) ==
  \/ task'[v] = task[v]
  \/ /\ task[v].pc \notin {"get", "taken"} /\ task'[v].pc \notin {"get", "taken"}
     /\ task'[v].op # "next"
Follows(v) ==
  task'[v].op = "next" =>
    (task[v].op = "next" /\ task'[v].t = task[v].t) \/ task'[v].t \in held

LEMMA PausesRests ==
  ASSUME NEW v, Pauses(v) PROVE Follows(v) /\ \A d : RestsAt(task[v], task'[v], d)
BY DEF Pauses, Follows, RestsAt, Gets, Takes

(* The steps of a task between its queries leave the rows alone.           *)
LEMMA ReturnPauses ==
  ASSUME Typed, NEW u \in Task, Return(u), task[u].pc \notin {"get", "taken"}
  PROVE  \A v \in Task : Pauses(v)
<1>1. /\ task'[u] = Idle /\ Idle.pc = "idle" /\ Idle.op = "none"
      /\ \A v \in Task \ {u} : task'[v] = task[v]
  BY IdleType DEF Typed, Return
<1> QED BY <1>1 DEF Pauses

LEMMA GotoPauses ==
  ASSUME Typed, NEW u \in Task, NEW pc \in Place, Goto(u, pc), task[u].op # "next",
         pc \notin {"get", "taken"}, task[u].pc \notin {"get", "taken"}
  PROVE  \A v \in Task : Pauses(v)
<1>1. task[u].t \in Token /\ task[u].op \in Op
  BY DEF Typed, TaskState
<1>2. /\ task'[u].pc = pc /\ task'[u].op = task[u].op
      /\ \A v \in Task \ {u} : task'[v] = task[v]
  BY <1>1, TaskIs
<1> QED BY <1>2 DEF Pauses

LEMMA AtPauses ==
  ASSUME Typed, NEW u \in Task, NEW pc \in Place, NEW op \in Op, NEW t \in Token,
         At(u, pc, op, t), task[u].pc \notin {"get", "taken"}, pc \notin {"get", "taken"},
         op # "next"
  PROVE  \A v \in Task : Pauses(v)
<1>1. /\ task'[u].pc = pc /\ task'[u].op = op
      /\ \A v \in Task \ {u} : task'[v] = task[v]
  BY TaskIs
<1> QED BY <1>1 DEF Pauses

-----------------------------------------------------------------------------
(* What the steps do to the rows: nothing but an end; a row is handed out; *)
(* a cursor is closed; rows arrive at a cursor that wants them; or they    *)
(* do not arrive anywhere.                                                 *)
Rests(d) == Spares(cursor, task, d)
Stays(d) == Rests(d) /\ cursor'[d].error = cursor[d].error
Hands(t) ==
  /\ Keeps(cursor[t], task, cursor'[t], task', t)
  /\ cursor'[t].got = cursor[t].got + 1 /\ cursor[t].got < Total(cursor[t], task, t)
  /\ cursor'[t].error = cursor[t].error
Stops(t) ==
  /\ Keeps(cursor[t], task, cursor'[t], task', t)
  /\ cursor'[t].got = cursor[t].got
  /\ cursor[t].error = "None" /\ cursor'[t].error = "Stopped"
Arrives(t, r) ==
  /\ (t \in held /\ cursor[t].error = "None") \/ (t \notin held /\ cursor[t].error = "Absent")
  /\ held' = held \cup {t} /\ cursor'[t].got = cursor[t].got /\ Serving
  /\ cursor'[t].error = EndOf(r) \/ (EndOf(r) = "None" /\ cursor'[t].error = "Runtime")
  /\ Lined(cursor'[t], task', t)
  /\ Total(cursor'[t], task', t) = Total(cursor[t], task, t) + r.rows
Misses(t) == held' = held /\ RowsOf(t)' /\ (t \in held => Rests(t))

RowsMove ==
  /\ \A v \in Task : Follows(v)
  /\ \/ UNCHANGED <<held, sent, done>> /\ \A d \in Token : Rests(d)
     \/ /\ UNCHANGED <<held, sent, done>>
        /\ \E t \in held : (Hands(t) \/ Stops(t)) /\ \A d \in Token \ {t} : Stays(d)
     \/ \E t \in Token, r \in Response :
          /\ MayAnswer(t, r) /\ Answered(t, r) /\ (Arrives(t, r) \/ Misses(t))
          /\ \A d \in Token \ {t} : Rests(d)

(* A row moves from the queue to the application.                          *)
LEMMA SumKeeps ==
  ASSUME NEW c \in Cur, NEW c2 \in Cur, NEW tk, NEW tk2, NEW d,
         \A v \in Task : RestsAt(tk[v], tk2[v], d),
         c2.getters = c.getters, c2.got + c2.items = c.got + c.items
  PROVE  Keeps(c, tk, c2, tk2, d)
<1>1. Getting(tk2, d) = Getting(tk, d) /\ Taking(tk2, d) = Taking(tk, d)
  BY DEF Getting, Taking, RestsAt
<1>2. Total(c2, tk2, d) = Total(c, tk, d)
  BY <1>1 DEF Total
<1> QED BY <1>1, <1>2 DEF Keeps, Lined

(* A getter leaves the line when its wait has timed out; it joins at its   *)
(* end.                                                                    *)
LEMMA RemoveLists ==
  ASSUME NEW g \in Seq(Task), NEW S, NEW k \in 1 .. Len(g), Lists(g, S)
  PROVE  Lists(RemoveAt(g, k), S \ {g[k]})
<1> DEFINE h == RemoveAt(g, k)
           a == SubSeq(g, 1, k - 1)
           b == SubSeq(g, k + 1, Len(g))
<1>1. Len(g) \in Nat /\ k \in Nat /\ k - 1 \in Nat /\ Len(g) - k \in Nat
      /\ \A i \in 1 .. Len(g) : g[i] \in Task
  OBVIOUS
<1>2. a \in Seq(Task) /\ Len(a) = k - 1 /\ \A i \in 1 .. k - 1 : a[i] = g[i]
  <2>1. \A i \in 1 .. k - 1 : g[i] \in Task
    BY <1>1
  <2>2. a \in Seq(Task) /\ Len(a) = (IF 1 <= k - 1 THEN k - 1 - 1 + 1 ELSE 0)
        /\ \A i \in 1 .. k - 1 - 1 + 1 : a[i] = g[1 + i - 1]
    BY <1>1, <2>1, SubSeqProperties
  <2> HIDE DEF a
  <2> QED BY <1>1, <2>2
<1>3. b \in Seq(Task) /\ Len(b) = Len(g) - k /\ \A i \in 1 .. Len(g) - k : b[i] = g[k + i]
  <2>1. \A i \in k + 1 .. Len(g) : g[i] \in Task
    BY <1>1
  <2>2. b \in Seq(Task) /\ Len(b) = (IF k + 1 <= Len(g) THEN Len(g) - (k + 1) + 1 ELSE 0)
        /\ \A i \in 1 .. Len(g) - (k + 1) + 1 : b[i] = g[k + 1 + i - 1]
    BY <1>1, <2>1, SubSeqProperties
  <2> HIDE DEF b
  <2> QED BY <1>1, <2>2
<1>4. h = a \o b
  BY DEF RemoveAt
<1> HIDE DEF a, b, h
<1>5. Len(h) = Len(g) - 1
      /\ \A i \in 1 .. Len(g) - 1 : h[i] = IF i < k THEN g[i] ELSE g[i + 1]
  <2>1. Len(h) = Len(a) + Len(b)
        /\ \A i \in 1 .. Len(a) + Len(b) : h[i] = IF i <= Len(a) THEN a[i] ELSE b[i - Len(a)]
    BY <1>2, <1>3, <1>4, ConcatProperties
  <2>2. Len(h) = Len(g) - 1
    BY <1>1, <1>2, <1>3, <2>1
  <2>3. ASSUME NEW i \in 1 .. Len(g) - 1 PROVE h[i] = IF i < k THEN g[i] ELSE g[i + 1]
    <3>1. CASE i < k
      BY <1>1, <1>2, <1>3, <2>1, <3>1
    <3>2. CASE i >= k
      <4>0. PICK j : j = i - (k - 1)
        OBVIOUS
      <4>1. j \in 1 .. Len(g) - k /\ k + j = i + 1
        BY <1>1, <3>2, <4>0
      <4>2. h[i] = b[j]
        <5>1. i \in 1 .. Len(a) + Len(b) /\ ~(i <= Len(a)) /\ i - Len(a) = j
          BY <1>1, <1>2, <1>3, <3>2, <4>0
        <5>2. h[i] = IF i <= Len(a) THEN a[i] ELSE b[i - Len(a)]
          BY <2>1, <5>1
        <5> QED BY <5>1, <5>2
      <4>3. b[j] = g[k + j]
        BY <1>3, <4>1
      <4> QED BY <1>1, <3>2, <4>1, <4>2, <4>3
    <3> QED BY <1>1, <3>1, <3>2
  <2> QED BY <2>2, <2>3
<1>6. \A i, j \in 1 .. Len(g) : g[i] = g[j] => i = j
  BY DEF Lists
<1>7. ASSUME NEW i \in 1 .. Len(h), NEW j \in 1 .. Len(h), h[i] = h[j] PROVE i = j
  <2>1. PICK m : m = IF i < k THEN i ELSE i + 1
    OBVIOUS
  <2>2. PICK n : n = IF j < k THEN j ELSE j + 1
    OBVIOUS
  <2>3. m \in 1 .. Len(g) /\ n \in 1 .. Len(g) /\ h[i] = g[m] /\ h[j] = g[n]
    BY <1>1, <1>5, <2>1, <2>2
  <2>4. m = n
    BY <1>6, <1>7, <2>3
  <2> QED BY <1>1, <1>5, <2>1, <2>2, <2>4
<1>8. ASSUME NEW u \in Task PROVE u \in S \ {g[k]} <=> \E i \in 1 .. Len(h) : h[i] = u
  <2>1. u \in S <=> \E i \in 1 .. Len(g) : g[i] = u
    BY DEF Lists
  <2>2. ASSUME u \in S, u # g[k] PROVE \E i \in 1 .. Len(h) : h[i] = u
    <3>1. PICK m \in 1 .. Len(g) : g[m] = u
      BY <2>1, <2>2
    <3>2. CASE m < k
      <4>1. m \in 1 .. Len(h) /\ h[m] = u
        BY <1>1, <1>5, <3>1, <3>2
      <4> QED BY <4>1
    <3>3. CASE m > k
      <4>1. m - 1 \in 1 .. Len(h) /\ ~(m - 1 < k) /\ m - 1 + 1 = m
        BY <1>1, <1>5, <3>1, <3>3
      <4>2. h[m - 1] = u
        BY <1>5, <3>1, <4>1
      <4> QED BY <4>1, <4>2
    <3>4. m # k
      BY <2>2, <3>1
    <3> QED BY <1>1, <3>1, <3>2, <3>3, <3>4
  <2>3. ASSUME NEW i \in 1 .. Len(h), h[i] = u PROVE u \in S /\ u # g[k]
    <3>1. PICK m : m = IF i < k THEN i ELSE i + 1
      OBVIOUS
    <3>2. m \in 1 .. Len(g) /\ h[i] = g[m] /\ m # k
      BY <1>1, <1>5, <3>1
    <3>3. u # g[k]
      BY <1>6, <2>3, <3>2
    <3> QED BY <2>1, <2>3, <3>2, <3>3
  <2> QED BY <2>2, <2>3
<1>9. Lists(h, S \ {g[k]})
  BY <1>7, <1>8 DEF Lists
<1> QED BY <1>9 DEF h

LEMMA AppendLists ==
  ASSUME NEW g \in Seq(Task), NEW S, NEW u \in Task, Lists(g, S), u \notin S
  PROVE  Lists(Append(g, u), S \cup {u})
<1> DEFINE h == Append(g, u)
<1>1. /\ Len(g) \in Nat /\ Len(h) = Len(g) + 1 /\ h[Len(g) + 1] = u
      /\ \A i \in 1 .. Len(g) : h[i] = g[i]
  BY AppendProperties
<1> HIDE DEF h
<1>2. /\ \A i, j \in 1 .. Len(g) : g[i] = g[j] => i = j
      /\ \A v \in Task : v \in S <=> \E i \in 1 .. Len(g) : g[i] = v
  BY DEF Lists
<1>3. \A i \in 1 .. Len(g) : h[i] # u
  BY <1>1, <1>2
<1>4. ASSUME NEW i \in 1 .. Len(h), NEW j \in 1 .. Len(h), h[i] = h[j] PROVE i = j
  <2>1. CASE i \in 1 .. Len(g) /\ j \in 1 .. Len(g)
    BY <1>1, <1>2, <1>4, <2>1
  <2>2. CASE i = Len(g) + 1 \/ j = Len(g) + 1
    BY <1>1, <1>3, <1>4, <2>2
  <2> QED BY <1>1, <2>1, <2>2
<1>5. ASSUME NEW v \in Task PROVE v \in S \cup {u} <=> \E i \in 1 .. Len(h) : h[i] = v
  <2>1. Len(g) + 1 \in 1 .. Len(h) /\ 1 .. Len(g) \subseteq 1 .. Len(h)
    BY <1>1
  <2>2. \A i \in 1 .. Len(h) : i \in 1 .. Len(g) \/ i = Len(g) + 1
    BY <1>1
  <2>3. v \in S => \E i \in 1 .. Len(h) : h[i] = v
    BY <1>1, <1>2, <2>1
  <2>4. (\E i \in 1 .. Len(h) : h[i] = v) => v \in S \cup {u}
    BY <1>1, <1>2, <2>2
  <2> QED BY <1>1, <2>1, <2>3, <2>4
<1>6. Lists(h, S \cup {u})
  BY <1>4, <1>5 DEF Lists
<1> QED BY <1>6 DEF h

(* A step that changes no cursor.                                          *)
LEMMA StillMoves ==
  ASSUME UNCHANGED <<held, sent, done>>, \A d \in Token : cursor'[d] = cursor[d],
         \A v \in Task : Pauses(v)
  PROVE  RowsMove
<1>1. \A v \in Task : Follows(v) /\ \A d : RestsAt(task[v], task'[v], d)
  BY PausesRests
<1>2. \A d \in Token : Rests(d)
  BY <1>1, SparesSelf DEF Rests
<1> QED BY <1>1, <1>2 DEF RowsMove

(* Who leaves a cursor rests at all others.                                *)
LEMMA ReturnRests ==
  ASSUME Typed, NEW u \in Task, Return(u)
  PROVE  /\ \A v \in Task : Follows(v)
         /\ \A v \in Task, d \in Token :
              v # u \/ task[u].pc \notin {"get", "taken"} \/ task[u].t # d => RestsAt(task[v], task'[v], d)
         /\ ~Gets(task'[u], task[u].t) /\ ~Takes(task'[u], task[u].t)
<1>1. /\ task'[u] = Idle /\ Idle.pc = "idle" /\ Idle.op = "none"
      /\ \A v \in Task \ {u} : task'[v] = task[v]
  BY IdleType DEF Typed, Return
<1> QED BY <1>1 DEF Follows, RestsAt, Gets, Takes

(* next() finds a row; Deferred.callback() has brought one; or its time is *)
(* over before any came.                                                   *)
LEMMA ItemRows ==
  ASSUME Typed, Typed', RowsInv, ConnInv, NEW u \in Task, NextItem(u)
  PROVE  RowsMove
<1>0. PICK t : t = task[u].t
  OBVIOUS
<1>1. /\ t \in Token /\ cursor[t] \in Cur /\ cursor'[t] \in Cur /\ cursor \in [Token -> Cur]
      /\ task[u].pc = "next" /\ Return(u) /\ UNCHANGED <<held, sent, done>> /\ cursor[t].items > 0
      /\ \/ cursor' = [cursor EXCEPT ![t].items = @ - 1, ![t].got = @ + 1]
         \/ cursor' = cursor
  BY <1>0 DEF Typed, TaskState, NextItem, srvVars
<1>2. t \in held
  <2>1. task[u].op = "next"
    BY <1>1 DEF ConnInv, PlaceInv, OpOf
  <2> QED BY <1>0, <2>1 DEF RowsInv, NextInv
<1>3. /\ \A v \in Task : Follows(v)
      /\ \A v \in Task, d \in Token : RestsAt(task[v], task'[v], d)
  BY <1>1, ReturnRests
<1>4. CASE cursor' = cursor
  <2>1. \A d \in Token : Rests(d)
    BY <1>3, <1>4, SparesSelf DEF Rests
  <2> QED BY <1>1, <1>3, <2>1 DEF RowsMove
<1>5. CASE cursor' = [cursor EXCEPT ![t].items = @ - 1, ![t].got = @ + 1]
  <2>1. /\ cursor'[t].items = cursor[t].items - 1 /\ cursor'[t].got = cursor[t].got + 1
        /\ cursor'[t].error = cursor[t].error /\ cursor'[t].getters = cursor[t].getters
        /\ \A d \in Token \ {t} : cursor'[d] = cursor[d]
    BY <1>1, <1>5 DEF Cur
  <2>2. cursor[t].items \in Nat /\ cursor[t].got \in Nat
    BY <1>1 DEF Cur
  <2>3. cursor'[t].got + cursor'[t].items = cursor[t].got + cursor[t].items
    BY <2>1, <2>2
  <2>4. Keeps(cursor[t], task, cursor'[t], task', t)
    BY <1>1, <1>3, <2>1, <2>3, SumKeeps
  <2>5. cursor[t].got < Total(cursor[t], task, t)
    BY <1>1, TotalType
  <2>6. \A d \in Token \ {t} : Stays(d)
    BY <1>3, <2>1, SparesSelf DEF Rests, Stays
  <2> QED BY <1>1, <1>2, <1>3, <2>1, <2>4, <2>5, <2>6 DEF RowsMove, Hands
<1> QED BY <1>1, <1>4, <1>5

LEMMA TakeRows ==
  ASSUME Typed, Typed', RowsInv, ConnInv, NEW u \in Task, TakeRow(u)
  PROVE  RowsMove
<1>0. PICK t : t = task[u].t
  OBVIOUS
<1>1. /\ t \in Token /\ cursor[t] \in Cur /\ cursor'[t] \in Cur /\ cursor \in [Token -> Cur]
      /\ task[u].pc = "taken" /\ Return(u) /\ UNCHANGED <<held, sent, done>>
      /\ cursor' = [cursor EXCEPT ![t].got = @ + 1]
  BY <1>0 DEF Typed, TaskState, TakeRow, srvVars
<1>2. t \in held
  <2>1. task[u].op = "next"
    BY <1>1 DEF ConnInv, PlaceInv, OpOf
  <2> QED BY <1>0, <2>1 DEF RowsInv, NextInv
<1>3. /\ \A v \in Task : Follows(v)
      /\ \A v \in Task, d \in Token : v # u \/ t # d => RestsAt(task[v], task'[v], d)
      /\ ~Gets(task'[u], t) /\ ~Takes(task'[u], t)
  BY <1>0, <1>1, ReturnRests
<1>4. /\ cursor'[t].items = cursor[t].items /\ cursor'[t].got = cursor[t].got + 1
      /\ cursor'[t].error = cursor[t].error /\ cursor'[t].getters = cursor[t].getters
      /\ \A d \in Token \ {t} : cursor'[d] = cursor[d]
  BY <1>1 DEF Cur
<1>5. Taking(task', t) = Taking(task, t) \ {u} /\ u \in Taking(task, t)
      /\ Getting(task', t) = Getting(task, t)
  BY <1>0, <1>1, <1>3 DEF Taking, Getting, RestsAt, Takes, Gets
<1>6. PICK G : G = Taking(task, t)
  OBVIOUS
<1>7. IsFiniteSet(G) /\ Cardinality(G) \in Nat /\ u \in G
  BY <1>5, <1>6, TakingIs
<1>8. Cardinality(G \ {u}) = Cardinality(G) - 1 /\ Cardinality(G \ {u}) \in Nat
  BY <1>7, FS_RemoveElement, FS_CardinalityType
<1>9. Total(cursor'[t], task', t) = Total(cursor[t], task, t)
      /\ cursor[t].got < Total(cursor[t], task, t)
  <2>1. cursor[t].items \in Nat /\ cursor[t].got \in Nat
    BY <1>1 DEF Cur
  <2>2. /\ Total(cursor[t], task, t) = cursor[t].got + cursor[t].items + Cardinality(G)
        /\ Total(cursor'[t], task', t) = cursor'[t].got + cursor'[t].items + Cardinality(G \ {u})
    BY <1>5, <1>6 DEF Total
  <2> QED BY <1>4, <1>7, <1>8, <2>1, <2>2
<1>10. Keeps(cursor[t], task, cursor'[t], task', t)
  BY <1>4, <1>5, <1>9 DEF Keeps, Lined
<1>11. \A d \in Token \ {t} : Stays(d)
  BY <1>3, <1>4, SparesSelf DEF Rests, Stays
<1> QED BY <1>1, <1>2, <1>3, <1>4, <1>9, <1>10, <1>11 DEF RowsMove, Hands

LEMMA TimeoutRows ==
  ASSUME Typed, Typed', NEW u \in Task, NextTimeout(u)
  PROVE  RowsMove
<1>0. PICK t : t = task[u].t
  OBVIOUS
<1>1. PICK c : c = cursor[t]
  OBVIOUS
<1>2. /\ t \in Token /\ c \in Cur /\ cursor \in [Token -> Cur]
      /\ task[u].pc \in {"wait", "get", "fetch"} /\ Return(u) /\ UNCHANGED <<held, sent, done>>
      /\ cursor' = [cursor EXCEPT ![t] =
          IF u \in ToSet(c.getters)
          THEN [c EXCEPT !.getters = RemoveAt(@, Position(@, u))]
          ELSE IF u \in ToSet(c.waiting)
          THEN [c EXCEPT !.waiting = SubSeq(@, 1, Position(@, u) - 1), !.stale = TRUE]
          ELSE c]
  BY <1>0, <1>1 DEF Typed, TaskState, NextTimeout, srvVars
<1>3. /\ \A v \in Task : Follows(v)
      /\ \A v \in Task, d \in Token :
           v # u \/ task[u].pc # "get" \/ t # d => RestsAt(task[v], task'[v], d)
      /\ ~Gets(task'[u], t) /\ ~Takes(task'[u], t)
  BY <1>0, <1>2, ReturnRests
<1>4. /\ \A d \in Token \ {t} : cursor'[d] = cursor[d]
      /\ cursor'[t].error = c.error /\ cursor'[t].got = c.got /\ cursor'[t].items = c.items
      /\ cursor'[t].getters = IF u \in ToSet(c.getters)
                              THEN RemoveAt(c.getters, Position(c.getters, u)) ELSE c.getters
  BY <1>2 DEF Cur
<1>5. Keeps(c, task, cursor'[t], task', t)
  <2> SUFFICES ASSUME Lined(c, task, t)
               PROVE  Lined(cursor'[t], task', t) /\ Total(cursor'[t], task', t) = Total(c, task, t)
    BY DEF Keeps
  <2>1. c.getters \in Seq(Task)
    BY <1>2 DEF Cur
  <2>2. u \in ToSet(c.getters) <=> Gets(task[u], t)
    <3>1. Gets(task[u], t) <=> \E i \in 1 .. Len(c.getters) : c.getters[i] = u
      BY DEF Lined, Lists, Getting
    <3> QED BY <2>1, <3>1 DEF ToSet
  <2>3. CASE u \in ToSet(c.getters)
    <3>1. PICK g : g = c.getters
      OBVIOUS
    <3>2. PICK k : k = Position(g, u)
      OBVIOUS
    <3>3. k \in 1 .. Len(g) /\ g[k] = u /\ g \in Seq(Task)
      BY <2>1, <2>3, <3>1, <3>2, PositionIs
    <3>4. Lists(RemoveAt(g, k), Getting(task, t) \ {u})
      BY <3>1, <3>3, RemoveLists DEF Lined
    <3>5. Getting(task', t) = Getting(task, t) \ {u} /\ Taking(task', t) = Taking(task, t)
      <4>1. \A v \in Task \ {u} : RestsAt(task[v], task'[v], t)
        BY <1>2, <1>3
      <4>2. Gets(task[u], t) /\ ~Takes(task[u], t)
        BY <2>2, <2>3 DEF Gets, Takes
      <4> QED BY <1>3, <4>1, <4>2 DEF Getting, Taking, RestsAt
    <3> QED BY <1>4, <2>3, <3>1, <3>2, <3>4, <3>5 DEF Lined, Total
  <2>4. CASE u \notin ToSet(c.getters)
    <3>1. task[u].pc # "get"
      BY <1>0, <2>2, <2>4 DEF Gets
    <3>2. \A v \in Task : RestsAt(task[v], task'[v], t)
      BY <1>2, <1>3, <3>1
    <3>3. Keeps(c, task, cursor'[t], task', t)
      BY <1>4, <2>4, <3>2, RestKeeps
    <3> QED BY <3>3 DEF Keeps
  <2> QED BY <2>3, <2>4
<1>6. \A d \in Token \ {t} : Rests(d)
  <2> SUFFICES ASSUME NEW d \in Token \ {t} PROVE Rests(d)
    OBVIOUS
  <2>1. \A v \in Task : RestsAt(task[v], task'[v], d)
    BY <1>3
  <2> QED BY <1>4, <2>1, SparesSelf DEF Rests
<1>7. Rests(t)
  BY <1>1, <1>4, <1>5 DEF Rests, Spares
<1> QED BY <1>2, <1>3, <1>6, <1>7 DEF RowsMove

(* Connecting, querying and the loop's own turns move no row.              *)
LEMMA QuietConnect ==
  ASSUME Typed, ConnInv, NEW u \in Task,
         \/ ConnectCall(u) \/ HandshakeDone(u) \/ HandshakeFails(u) \/ Cancel(u)
         \/ \E ok \in BOOLEAN : OpenStream(u, ok)
         \/ CloseStream(u) \/ Shut(u) \/ NextError(u)
  PROVE  RowsMove
<1>0. /\ {"connect", "handshake", "shut"} \subseteq Place /\ "connect" \in Op /\ 0 \in Token
      /\ Idle.pc = "idle"
  BY Constants, IdleType DEF Place, Op
<1>1. UNCHANGED <<held, sent, done>> /\ \A d \in Token : cursor'[d] = cursor[d]
  BY DEF ConnectCall, HandshakeDone, HandshakeFails, Cancel, OpenStream, CloseStream, Shut,
         NextError, srvVars
<1>2. CASE At(u, "connect", "connect", 0) /\ task[u] = Idle
  BY <1>0, <1>1, <1>2, AtPauses, StillMoves
<1>3. CASE Goto(u, "handshake") /\ task[u].pc = "connect"
  <2>1. task[u].op # "next"
    BY <1>3 DEF ConnInv, PlaceInv, OpOf
  <2> QED BY <1>0, <1>1, <1>3, <2>1, GotoPauses, StillMoves
<1>4. CASE Goto(u, "shut") /\ task[u].pc = "flushed"
  <2>1. task[u].op # "next"
    BY <1>4 DEF ConnInv, PlaceInv, OpOf
  <2> QED BY <1>0, <1>1, <1>4, <2>1, GotoPauses, StillMoves
<1>5. CASE Return(u) /\ task[u].pc \notin {"get", "taken"}
  BY <1>1, <1>5, ReturnPauses, StillMoves
<1>6. CASE ConnectCall(u)
  BY <1>2, <1>6 DEF ConnectCall
<1>7. CASE HandshakeDone(u) \/ HandshakeFails(u) \/ Shut(u) \/ NextError(u)
  BY <1>5, <1>7 DEF HandshakeDone, HandshakeFails, Shut, NextError
<1>8. CASE Cancel(u)
  BY <1>5, <1>8 DEF Cancel
<1>9. CASE \E ok \in BOOLEAN : OpenStream(u, ok)
  BY <1>3, <1>5, <1>9 DEF OpenStream
<1>10. CASE CloseStream(u)
  BY <1>4, <1>5, <1>10 DEF CloseStream
<1> QED BY <1>6, <1>7, <1>8, <1>9, <1>10

LEMMA QuietQuery ==
  ASSUME Typed, ConnInv, NEW u \in Task,
         (\E op \in {"start", "plain"} : Run(u, op)) \/ Send(u) \/ Register(u)
  PROVE  RowsMove
<1>0. /\ {"send", "sent", "run", "flush"} \subseteq Place /\ {"start", "plain"} \subseteq Op
      /\ conn.next_token \in Token /\ Idle.pc = "idle"
  BY IdleType DEF Place, Op, Typed
<1>1. UNCHANGED <<held, sent, done>> /\ \A d \in Token : cursor'[d] = cursor[d]
  BY DEF Run, Send, Register, srvVars
<1>2. ASSUME NEW op \in {"start", "plain"}, Run(u, op) PROVE \A v \in Task : Pauses(v)
  <2>1. /\ task[u] = Idle
        /\ \/ At(u, "send", op, conn.next_token) \/ At(u, "run", op, conn.next_token)
           \/ task' = task
    BY <1>2 DEF Run
  <2>2. CASE task' = task
    BY <2>2 DEF Pauses
  <2> QED BY <1>0, <2>1, <2>2, AtPauses
<1>3. CASE Send(u)
  <2>1. task[u].pc = "send" /\ (Return(u) \/ Goto(u, "sent"))
    BY <1>3 DEF Send
  <2>2. task[u].op # "next"
    BY <2>1 DEF ConnInv, PlaceInv, OpOf
  <2>3. \A v \in Task : Pauses(v)
    BY <1>0, <2>1, <2>2, ReturnPauses, GotoPauses
  <2> QED BY <1>1, <2>3, StillMoves
<1>4. CASE Register(u)
  <2>1. task[u].pc = "sent" /\ (Goto(u, "flush") \/ Goto(u, "run"))
    BY <1>4 DEF Register
  <2>2. task[u].op # "next"
    BY <2>1 DEF ConnInv, PlaceInv, OpOf
  <2>3. \A v \in Task : Pauses(v)
    BY <1>0, <2>1, <2>2, GotoPauses
  <2> QED BY <1>1, <2>3, StillMoves
<1> QED BY <1>1, <1>2, <1>3, <1>4, StillMoves

LEMMA QuietLoop ==
  ASSUME Typed, ConnInv,
         \/ TimerFires \/ HandshakeLate \/ ReadNothing \/ ConnectionLost \/ StreamEnds
         \/ \E end \in {"eof", "reset"} : Drop(end)
         \/ \E t \in Token : ContinueRuns(t) \/ ReadValue(t) \/ SkipWhileClosing(t)
         \/ UNCHANGED vars
  PROVE  RowsMove
<1>1. UNCHANGED <<held, sent, done>> /\ \A d \in Token : cursor'[d] = cursor[d]
  BY DEF TimerFires, HandshakeLate, ReadNothing, ConnectionLost, StreamEnds, Drop, ContinueRuns,
         ReadValue, SkipWhileClosing, vars, srvVars
<1>2. CASE TimerFires
  <2>1. \A v \in Task : task'[v] = IF task[v].pc = "handshake" THEN Idle ELSE task[v]
    BY <1>2 DEF TimerFires
  <2>2. \A v \in Task : Pauses(v)
    BY <2>1, IdleType DEF Pauses
  <2> QED BY <1>1, <2>2, StillMoves
<1>3. ASSUME NEW t \in Token, ReadValue(t) PROVE \A v \in Task : Pauses(v)
  <2> SUFFICES ASSUME NEW v \in Task PROVE Pauses(v)
    OBVIOUS
  <2>1. task'[v] = CASE task[v].pc = "run" /\ task[v].t = t   -> Idle
            [] task[v].pc = "flush" /\ task[v].t = t -> [task[v] EXCEPT !.pc = "flushed"]
            [] OTHER                                 -> task[v]
    BY <1>3 DEF ReadValue
  <2>2. task[v] \in TaskState
    BY DEF Typed
  <2>3. CASE task[v].pc = "run" /\ task[v].t = t
    BY <2>1, <2>3, IdleType DEF Pauses
  <2>4. CASE task[v].pc = "flush" /\ task[v].t = t
    <3>1. task'[v] = [task[v] EXCEPT !.pc = "flushed"]
      BY <2>1, <2>4
    <3>2. task'[v].pc = "flushed" /\ task'[v].op = task[v].op
      BY <2>2, <3>1 DEF TaskState
    <3>3. task[v].op = "close"
      BY <2>4 DEF ConnInv, PlaceInv, OpOf
    <3> QED BY <2>4, <3>2, <3>3 DEF Pauses
  <2>5. CASE ~(task[v].pc = "run" /\ task[v].t = t) /\ ~(task[v].pc = "flush" /\ task[v].t = t)
    BY <2>1, <2>5 DEF Pauses
  <2> QED BY <2>3, <2>4, <2>5
<1>4. CASE task' = task
  BY <1>1, <1>4, StillMoves DEF Pauses
<1> QED BY <1>1, <1>2, <1>3, <1>4, StillMoves DEF HandshakeLate, ReadNothing, ConnectionLost,
      StreamEnds, Drop, ContinueRuns, SkipWhileClosing, vars

-----------------------------------------------------------------------------
LEMMA CountedKeeps ==
  ASSUME NEW c \in Cur, NEW wants, NEW tk, NEW tk2, NEW d,
         \A v \in Task : RestsAt(tk[v], tk2[v], d)
  PROVE  /\ Keeps(c, tk, Counted(c, wants), tk2, d)
         /\ Counted(c, wants).error = c.error /\ Counted(c, wants).got = c.got
<1>1. /\ Counted(c, wants).items = c.items /\ Counted(c, wants).got = c.got
      /\ Counted(c, wants).getters = c.getters /\ Counted(c, wants).error = c.error
  BY DEF Counted, Cur
<1> QED BY <1>1, RestKeeps

(* next() counts its wait and may ask for more; it takes no row yet.       *)
LEMMA CallRows ==
  ASSUME Typed, Typed', RowsInv, ConnInv, NEW u \in Task,
         NextWait(u) \/ \E t \in Token : NextCall(u, t)
  PROVE  RowsMove
<1>0. /\ {"next", "wait"} \subseteq Place /\ "next" \in Op /\ cursor \in [Token -> Cur]
      /\ task[u].t \in Token /\ task[u].op \in Op /\ Idle.pc = "idle" /\ Idle.op = "none"
  BY IdleType DEF Place, Op, Typed, TaskState
<1>1. UNCHANGED <<held, sent, done>>
  BY DEF NextWait, NextCall, srvVars
<1>2. PICK t \in Token, wants \in BOOLEAN :
        /\ cursor' = [cursor EXCEPT ![t] = Counted(cursor[t], wants)]
        /\ \/ task' = task
           \/ Return(u) /\ task[u].pc = "next"
           \/ Goto(u, "wait") /\ task[u].pc = "next"
           \/ At(u, "next", "next", t) /\ task[u] = Idle /\ t \in held
  <2>1. CASE NextWait(u)
    <3> DEFINE t == task[u].t
               wants == driver # "gevent" /\ WantsBatch(cursor[t])
    <3>1. cursor' = [cursor EXCEPT ![t] = Counted(cursor[t], wants)] /\ task[u].pc = "next"
          /\ (Return(u) \/ Goto(u, "wait"))
      BY <2>1 DEF NextWait
    <3>2. t \in Token /\ wants \in BOOLEAN
      BY <1>0 DEF WantsBatch
    <3> HIDE DEF t, wants
    <3> QED BY <3>1, <3>2
  <2>2. ASSUME NEW t \in Token, NextCall(u, t)
        PROVE  \E wants \in BOOLEAN :
          /\ cursor' = [cursor EXCEPT ![t] = Counted(cursor[t], wants)]
          /\ task' = task \/ (At(u, "next", "next", t) /\ task[u] = Idle /\ t \in held)
    <3> DEFINE wants == driver = "gevent" /\ WantsBatch(cursor[t])
    <3>1. cursor' = [cursor EXCEPT ![t] = Counted(cursor[t], wants)] /\ task[u] = Idle
          /\ t \in held /\ (task' = task \/ At(u, "next", "next", t))
      BY <2>2 DEF NextCall
    <3>2. wants \in BOOLEAN
      BY DEF WantsBatch
    <3> HIDE DEF wants
    <3> QED BY <3>1, <3>2
  <2> QED BY <2>1, <2>2
<1>3. \A v \in Task : Follows(v) /\ \A d \in Token : RestsAt(task[v], task'[v], d)
  <2>1. CASE task' = task
    BY <2>1 DEF Follows, RestsAt
  <2>2. CASE Return(u) /\ task[u].pc = "next"
    BY <2>2, ReturnRests
  <2>3. CASE Goto(u, "wait") /\ task[u].pc = "next"
    <3>1. /\ task'[u].pc = "wait" /\ task'[u].op = task[u].op /\ task'[u].t = task[u].t
          /\ \A v \in Task \ {u} : task'[v] = task[v]
      BY <1>0, <2>3, TaskIs
    <3> QED BY <2>3, <3>1 DEF Follows, RestsAt, Gets, Takes
  <2>4. CASE At(u, "next", "next", t) /\ task[u] = Idle /\ t \in held
    <3>1. /\ task'[u].pc = "next" /\ task'[u].t = t
          /\ \A v \in Task \ {u} : task'[v] = task[v]
      BY <1>0, <2>4, TaskIs
    <3> QED BY <1>0, <2>4, <3>1 DEF Follows, RestsAt, Gets, Takes
  <2> QED BY <1>2, <2>1, <2>2, <2>3, <2>4
<1>4. ASSUME NEW d \in Token PROVE Rests(d)
  <2>1. CASE d # t
    <3>1. cursor'[d] = cursor[d]
      BY <1>0, <1>2, <2>1
    <3> QED BY <1>3, <3>1, SparesSelf DEF Rests
  <2>2. CASE d = t
    <3>1. cursor'[t] = Counted(cursor[t], wants)
      BY <1>0, <1>2
    <3>2. cursor[t] \in Cur /\ \A v \in Task : RestsAt(task[v], task'[v], t)
      BY <1>0, <1>3
    <3>3. /\ Keeps(cursor[t], task, cursor'[t], task', t)
          /\ cursor'[t].error = cursor[t].error /\ cursor'[t].got = cursor[t].got
      BY <3>1, <3>2, CountedKeeps
    <3> QED BY <2>2, <3>3 DEF Rests, Spares
  <2> QED BY <2>1, <2>2
<1> QED BY <1>1, <1>3, <1>4 DEF RowsMove

(* Twisted's next() takes a row or joins the line; its fetch_next() does   *)
(* neither.                                                                *)
LEMMA TwistedRows ==
  ASSUME Typed, Typed', RowsInv, ConnInv, NEW u \in Task, NEW t \in Token,
         NEW pc \in {"get", "fetch"}, TwistedNext(u, t, pc)
  PROVE  RowsMove
<1>0. /\ {"get", "fetch"} \subseteq Place /\ "next" \in Op /\ cursor \in [Token -> Cur]
      /\ Idle.pc = "idle" /\ Idle.op = "none"
  BY IdleType DEF Place, Op, Typed
<1>1. PICK c : c = cursor[t]
  OBVIOUS
<1>2. PICK after :
        after = IF pc = "fetch" THEN [c EXCEPT !.waiting = IF c.stale THEN @ ELSE Append(@, u)]
                ELSE IF c.items > 0 THEN [c EXCEPT !.items = @ - 1, !.got = @ + 1]
                ELSE [c EXCEPT !.getters = Append(@, u)]
  OBVIOUS
<1>3. /\ UNCHANGED <<held, sent, done>> /\ task[u] = Idle /\ t \in held
      /\ IF c.items > 0 THEN pc = "get" ELSE c.error = "None"
      /\ cursor' = [cursor EXCEPT ![t] = Counted(after, WantsBatch(after))]
      /\ IF c.items > 0 THEN task' = task ELSE At(u, pc, "next", t)
  BY <1>1, <1>2 DEF TwistedNext, srvVars
<1>4. /\ \A d \in Token \ {t} : cursor'[d] = cursor[d]
      /\ cursor'[t] = Counted(after, WantsBatch(after)) /\ c \in Cur
  BY <1>0, <1>1, <1>3
<1>5. /\ cursor'[t].items = after.items /\ cursor'[t].got = after.got
      /\ cursor'[t].getters = after.getters /\ cursor'[t].error = after.error
  <2>1. after.items = after.items /\ DOMAIN after = DOMAIN c
    BY <1>2
  <2>2. DOMAIN c = {"error", "outstanding", "threshold", "items", "got", "waiting", "stale", "getters"}
    BY <1>4 DEF Cur
  <2>3. \A wants : /\ Counted(after, wants).items = after.items
                   /\ Counted(after, wants).got = after.got
                   /\ Counted(after, wants).getters = after.getters
                   /\ Counted(after, wants).error = after.error
    BY DEF Counted
  <2> QED BY <1>4, <2>3
<1>6. CASE c.items > 0
  <2>1. after = [c EXCEPT !.items = @ - 1, !.got = @ + 1] /\ task' = task
    BY <1>2, <1>3, <1>6
  <2>2. /\ after.items = c.items - 1 /\ after.got = c.got + 1 /\ after.getters = c.getters
        /\ after.error = c.error /\ c.items \in Nat /\ c.got \in Nat
    BY <1>4, <2>1 DEF Cur
  <2>3. \A v \in Task : Follows(v) /\ \A d \in Token : RestsAt(task[v], task'[v], d)
    BY <2>1 DEF Follows, RestsAt
  <2>4. cursor'[t].got + cursor'[t].items = c.got + c.items
    BY <1>5, <2>2
  <2>5. cursor'[t] \in Cur
    BY DEF Typed
  <2>6. Keeps(c, task, cursor'[t], task', t)
    BY <1>4, <1>5, <2>2, <2>3, <2>4, <2>5, SumKeeps
  <2>7. c.got < Total(c, task, t)
    BY <1>4, <1>6, TotalType
  <2>8. Hands(t)
    BY <1>1, <1>5, <2>2, <2>6, <2>7 DEF Hands
  <2>9. \A d \in Token \ {t} : Stays(d)
    BY <1>4, <2>3, SparesSelf DEF Rests, Stays
  <2> QED BY <1>3, <2>3, <2>8, <2>9 DEF RowsMove
<1>7. CASE ~(c.items > 0)
  <2>1. /\ task'[u].pc = pc /\ task'[u].op = "next" /\ task'[u].t = t
        /\ \A v \in Task \ {u} : task'[v] = task[v]
    BY <1>0, <1>3, <1>7, TaskIs
  <2>2. /\ \A v \in Task : Follows(v)
        /\ \A v \in Task, d \in Token : v # u \/ pc = "fetch" \/ d # t => RestsAt(task[v], task'[v], d)
    BY <1>0, <1>3, <2>1 DEF Follows, RestsAt, Gets, Takes
  <2>3. \A d \in Token \ {t} : Rests(d)
    <3> SUFFICES ASSUME NEW d \in Token \ {t} PROVE Rests(d)
      OBVIOUS
    <3>1. \A v \in Task : RestsAt(task[v], task'[v], d)
      BY <2>2
    <3> QED BY <1>4, <3>1, SparesSelf DEF Rests
  <2>4. after.items = c.items /\ after.got = c.got /\ after.error = c.error
        /\ after.getters = IF pc = "fetch" THEN c.getters ELSE Append(c.getters, u)
    BY <1>2, <1>4, <1>7 DEF Cur
  <2>5. Keeps(c, task, cursor'[t], task', t)
    <3>1. CASE pc = "fetch"
      <4>1. \A v \in Task : RestsAt(task[v], task'[v], t)
        BY <2>2, <3>1
      <4> QED BY <1>5, <2>4, <3>1, <4>1, RestKeeps
    <3>2. CASE pc = "get"
      <4>1. ~Gets(task[u], t) /\ ~Takes(task[u], t) /\ Gets(task'[u], t) /\ ~Takes(task'[u], t)
        BY <1>0, <1>3, <2>1, <3>2 DEF Gets, Takes
      <4>2. /\ Getting(task', t) = Getting(task, t) \cup {u} /\ u \notin Getting(task, t)
            /\ Taking(task', t) = Taking(task, t)
        BY <2>1, <4>1 DEF Getting, Taking
      <4>3. Total(cursor'[t], task', t) = Total(c, task, t)
        BY <1>5, <2>4, <4>2 DEF Total
      <4>4. ASSUME Lined(c, task, t) PROVE Lined(cursor'[t], task', t)
        <5>1. PICK g : g = c.getters
          OBVIOUS
        <5>2. g \in Seq(Task) /\ Lists(g, Getting(task, t)) /\ cursor'[t].getters = Append(g, u)
          BY <1>4, <1>5, <2>4, <3>2, <4>4, <5>1 DEF Cur, Lined
        <5>3. Lists(Append(g, u), Getting(task, t) \cup {u})
          BY <4>2, <5>2, AppendLists
        <5> QED BY <4>2, <5>2, <5>3 DEF Lined
      <4> QED BY <4>3, <4>4 DEF Keeps
    <3> QED BY <3>1, <3>2
  <2>6. Rests(t)
    BY <1>1, <1>5, <2>4, <2>5 DEF Rests, Spares
  <2> QED BY <1>3, <2>2, <2>3, <2>6 DEF RowsMove
<1> QED BY <1>6, <1>7

(* Cursor.close() drops the queue's future; Connection.close() ends every  *)
(* cursor; and an end of the reader does too.                              *)
LEMMA StopRows ==
  ASSUME Typed, Typed', NEW u \in Task, NEW t \in Token, CursorClose(u, t)
  PROVE  RowsMove
<1>1. /\ task[u] = Idle /\ t \in held /\ cursor[t].error = "None"
      /\ UNCHANGED <<held, sent, done>>
      /\ \A d \in Token \ {t} : cursor'[d] = cursor[d]
      /\ cursor'[t].error = "Stopped"
      /\ cursor'[t].items = cursor[t].items /\ cursor'[t].got = cursor[t].got
      /\ cursor'[t].getters = cursor[t].getters
      /\ At(u, "send", "stop", t) \/ task' = task
  BY StopIs
<1>2. "send" \in Place /\ "stop" \in Op /\ Idle.pc = "idle"
  BY IdleType DEF Place, Op
<1>3. \A v \in Task : Pauses(v)
  <2>1. CASE task' = task
    BY <2>1 DEF Pauses
  <2>2. CASE At(u, "send", "stop", t)
    BY <1>1, <1>2, <2>2, AtPauses
  <2> QED BY <1>1, <2>1, <2>2
<1>4. \A v \in Task : Follows(v) /\ \A d : RestsAt(task[v], task'[v], d)
  BY <1>3, PausesRests
<1>5. Keeps(cursor[t], task, cursor'[t], task', t)
  BY <1>1, <1>4, RestKeeps
<1>6. Stops(t)
  BY <1>1, <1>5 DEF Stops
<1>7. \A d \in Token \ {t} : Stays(d)
  BY <1>1, <1>4, SparesSelf DEF Rests, Stays
<1> QED BY <1>1, <1>4, <1>6, <1>7 DEF RowsMove

LEMMA CloseRows ==
  ASSUME Typed, Typed', FreshInv, NEW u \in Task, NEW noreply_wait \in BOOLEAN, Close(u, noreply_wait)
  PROVE  RowsMove
<1>1. PICK w \in Tellings(cached, cursor), tk \in [Task -> TaskState],
           pending \in SUBSET {conn.next_token} :
        /\ Told(w, cursor, cached, tk, pending) /\ Closes(u, w, tk, pending)
        /\ Tell(w, cursor, cached, tk, pending)
  BY CloseTold
<1>2. task[u] = Idle /\ Idle.pc = "idle" /\ Idle.op = "none" /\ UNCHANGED <<held, sent, done>>
  BY CloseIs, IdleType
<1>3. /\ \A v \in Task \ {u} : tk[v] = task[v]
      /\ tk[u].pc \notin {"get", "taken"} /\ tk[u].op # "next"
  <2>1. tk = task \/ \E pc \in {"shut", "send", "flush"} : tk = OnItsWay(u, pc)
    BY <1>1 DEF Closes
  <2>2. CASE tk = task
    BY <1>2, <2>2
  <2>3. ASSUME NEW pc \in {"shut", "send", "flush"}, tk = OnItsWay(u, pc)
        PROVE  /\ \A v \in Task \ {u} : tk[v] = task[v]
               /\ tk[u].pc \notin {"get", "taken"} /\ tk[u].op # "next"
    BY <2>3, OnItsWayIs
  <2> QED BY <2>1, <2>2, <2>3
<1>4. /\ w.told \in SUBSET Token /\ w.whole \in BOOLEAN /\ \A t \in w.told : cursor[t].error = "None"
      /\ cursor \in [Token -> Cur] /\ cached \in SUBSET Token
  BY TellingsAre DEF Typed
<1>5. ASSUME NEW d \in Token PROVE Rests(d)
  <2>1. Spares(cursor, tk, d)
    BY <1>1, <1>4, TellSpares
  <2>2. \A v \in Task : RestsAt(task[v], tk[v], d)
    BY <1>2, <1>3 DEF RestsAt, Gets, Takes
  <2>3. Keeps(cursor[d], task, cursor[d], tk, d)
    BY <2>2, RestKeeps
  <2>4. Keeps(cursor[d], task, cursor'[d], task', d)
    BY <2>1, <2>3, KeepsTrans DEF Spares
  <2> QED BY <2>1, <2>4 DEF Rests, Spares
<1>6. ASSUME NEW v \in Task PROVE Follows(v)
  <2>1. Wakes(tk[v], task'[v]) \/ task'[v] = Idle
    BY <1>1 DEF Told
  <2>2. CASE v = u
    BY <1>2, <1>3, <2>1, <2>2 DEF Wakes, Follows
  <2>3. CASE v # u
    BY <1>2, <1>3, <2>1, <2>3 DEF Wakes, Follows
  <2> QED BY <2>2, <2>3
<1> QED BY <1>2, <1>5, <1>6 DEF RowsMove

LEMMA EndRows ==
  ASSUME Typed, ReadEnd \/ \E t \in Token : UnexpectedResponse(t)
  PROVE  RowsMove
<1>1. UNCHANGED <<held, sent, done>>
  BY DEF ReadEnd, UnexpectedResponse, srvVars
<1>2. conn \in ConnType /\ cursor \in [Token -> Cur] /\ cached \in SUBSET Token
      /\ task \in [Task -> TaskState]
  BY DEF Typed
<1>3. \E cn \in ConnType : Raises(cursor, cached, task, cn)
  <2>1. CASE ReadEnd
    <3> DEFINE cn == IF driver = "trio" THEN [conn EXCEPT !.closed = TRUE]
                     ELSE [conn EXCEPT !.stream = "closed"]
    <3>1. Raises(cursor, cached, task, cn)
      BY <2>1 DEF ReadEnd
    <3>2. cn \in ConnType
      BY <1>2 DEF ConnType
    <3> HIDE DEF cn
    <3> QED BY <3>1, <3>2
  <2>2. CASE \E t \in Token : UnexpectedResponse(t)
    BY <1>2, <2>2 DEF UnexpectedResponse
  <2> QED BY <2>1, <2>2
<1>4. /\ \A d \in Token : Spares(cursor, task, d)
      /\ \A v \in Task : task'[v] = task[v] \/ task'[v] = Idle
                            \/ (task'[v].op = task[v].op /\ task'[v].t = task[v].t)
  BY <1>2, <1>3, RaisesSpares
<1>5. \A v \in Task : Follows(v)
  BY <1>4, IdleType DEF Follows
<1> QED BY <1>1, <1>4, <1>5 DEF RowsMove, Rests

(* Rows that come wake the getters of their cursor and no others.          *)
LEMMA RousedRests ==
  ASSUME Typed, NEW t \in Token, NEW r \in Response
  PROVE  /\ Keeps(Longer(t, r), task, After(t, r), Roused(t, r), t)
         /\ \A d \in Token \ {t}, v \in Task : RestsAt(task[v], Roused(t, r)[v], d)
<1>1. PICK L : L = Longer(t, r)
  OBVIOUS
<1>2. PICK cur : cur = [cursor EXCEPT ![t] = L]
  OBVIOUS
<1>3. /\ L \in Cur /\ cur[t] = L /\ Roused(t, r) = Woken(task, {t}, cur)
      /\ task \in [Task -> TaskState] /\ Roused(t, r) \in [Task -> TaskState]
  <2>1. cur = [cursor EXCEPT ![t] = Longer(t, r)]
    BY <1>1, <1>2, Zenon
  <2>2. Roused(t, r) = Woken(task, {t}, cur)
    BY <2>1, Zenon DEF Roused
  <2>3. L \in Cur /\ Roused(t, r) \in [Task -> TaskState]
    BY <1>1, BatchParts
  <2> QED BY <1>2, <2>2, <2>3 DEF Typed
<1>4. \A d \in Token, v \in Task :
        IF d \in {t} /\ Gets(task[v], d) THEN Roused(t, r)[v] = Resumed(task[v], v, cur[d])
        ELSE RestsAt(task[v], Roused(t, r)[v], d)
  <2>1. \A d \in Token, v \in Task :
          IF d \in {t} /\ Gets(task[v], d) THEN Woken(task, {t}, cur)[v] = Resumed(task[v], v, cur[d])
          ELSE RestsAt(task[v], Woken(task, {t}, cur)[v], d)
    <3> SUFFICES ASSUME NEW d \in Token, NEW v \in Task
                 PROVE  IF d \in {t} /\ Gets(task[v], d)
                        THEN Woken(task, {t}, cur)[v] = Resumed(task[v], v, cur[d])
                        ELSE RestsAt(task[v], Woken(task, {t}, cur)[v], d)
      OBVIOUS
    <3>1. task \in [Task -> TaskState]
      BY <1>3
    <3> QED BY <3>1, WokenRests
  <2>2. Roused(t, r) = Woken(task, {t}, cur)
    BY <1>3
  <2> QED BY <2>1, <2>2, Zenon
<1>5. Keeps(L, task, Served(L), Roused(t, r), t)
  <2>1. \A v \in Task : IF Gets(task[v], t) THEN Roused(t, r)[v] = Resumed(task[v], v, L)
                        ELSE RestsAt(task[v], Roused(t, r)[v], t)
    BY <1>3, <1>4
  <2> QED BY <1>3, <2>1, ServeKeeps
<1>6. /\ After(t, r).items = Served(L).items /\ After(t, r).got = Served(L).got
      /\ After(t, r).getters = Served(L).getters
  <2>1. Served(L).got = L.got
    BY <1>3, ServedIs
  <2> QED BY <1>1, <2>1, BatchParts
<1>7. Keeps(Served(L), Roused(t, r), After(t, r), Roused(t, r), t)
  BY <1>6, RestKeeps DEF RestsAt
<1>8. Keeps(L, task, After(t, r), Roused(t, r), t)
  BY <1>5, <1>7, KeepsTrans
<1>9. \A d \in Token \ {t}, v \in Task : RestsAt(task[v], Roused(t, r)[v], d)
  BY <1>4
<1> QED BY <1>1, <1>8, <1>9

(* A batch has arrived at a cursor, as c; an exception may have closed the *)
(* connection since.                                                       *)
Came(c, t) ==
  /\ Keeps(c, task, cursor'[t], task', t)
  /\ cursor'[t].got = c.got
  /\ cursor'[t].error = c.error \/ (c.error = "None" /\ cursor'[t].error = "Runtime")

(* What the reader makes of a batch, before it is known whether the cursor *)
(* wanted it.                                                              *)
LEMMA BatchSteps ==
  ASSUME Typed, NEW t \in Token, NEW r \in Response, ReadBatch(t, r)
  PROVE  /\ \A v \in Task : Follows(v)
         /\ \A d \in Token \ {t} : Rests(d)
         /\ \/ Came(Asked(t), t) /\ ~Serving'
            \/ Came(Longer(t, r), t)
<1>1. PICK cn \in ConnType, raised \in BOOLEAN :
           /\ cn.next_token = conn.next_token
           /\ Fetch(Left(t), t, Wanted(t, r), cn, raised)
           /\ \/ raised /\ Raises([cursor EXCEPT ![t] = Asked(t)], cached, task, cn)
              \/ /\ ~raised /\ Longer(t, r).stale
                 /\ Raises([cursor EXCEPT ![t] = After(t, r)], Kept(t, r), Roused(t, r), cn)
              \/ /\ ~raised /\ ~Longer(t, r).stale
                 /\ cursor' = [cursor EXCEPT ![t] = After(t, r)] /\ cached' = Kept(t, r)
                 /\ task' = Roused(t, r) /\ conn' = cn /\ queries' = queries
  BY BatchIs
<1>2. /\ [cursor EXCEPT ![t] = Asked(t)] \in [Token -> Cur]
      /\ [cursor EXCEPT ![t] = After(t, r)] \in [Token -> Cur]
      /\ Kept(t, r) \in SUBSET Token /\ Wanted(t, r) \in BOOLEAN
      /\ Roused(t, r) \in [Task -> TaskState]
      /\ cached \in SUBSET Token /\ task \in [Task -> TaskState]
      /\ cursor \in [Token -> Cur]
  BY BatchParts DEF Typed
<1>3. \A v \in Task : Wakes(task[v], Roused(t, r)[v])
  BY BatchStirs DEF Stirs
<1>4. Keeps(Longer(t, r), task, After(t, r), Roused(t, r), t)
      /\ \A d \in Token \ {t}, v \in Task : RestsAt(task[v], Roused(t, r)[v], d)
  BY RousedRests
<1>5. After(t, r).error = Longer(t, r).error /\ After(t, r).got = Longer(t, r).got
  BY BatchParts
<1>6. CASE raised /\ Raises([cursor EXCEPT ![t] = Asked(t)], cached, task, cn)
  <2>1. PICK cur \in [Token -> Cur] : cur = [cursor EXCEPT ![t] = Asked(t)]
    BY <1>2
  <2>2. Raises(cur, cached, task, cn)
    BY <1>6, <2>1
  <2>3. /\ \A d \in Token : Spares(cur, task, d)
        /\ \A v \in Task : task'[v] = task[v] \/ task'[v] = Idle
                            \/ (task'[v].op = task[v].op /\ task'[v].t = task[v].t)
        /\ driver # "twisted" => ~Serving'
    BY <1>2, <2>2, RaisesSpares
  <2>4. driver # "twisted"
    <3>1. awaiting[t] > 0
      BY ReadsRun DEF ReadBatch
    <3>2. Left(t) \in [Token -> Nat]
      BY <3>1, LeftType
    <3>3. Fetch(Left(t), t, Wanted(t, r), cn, raised) /\ Wanted(t, r) \in BOOLEAN
      BY <1>1, <1>2
    <3>4. driver \in {"trio", "gevent"}
      BY <1>6, <3>2, <3>3, FetchSends
    <3> QED BY <3>4
  <2>5. \A v \in Task : Follows(v)
    BY <2>3, IdleType DEF Follows
  <2>6. cur[t] = Asked(t) /\ \A d \in Token \ {t} : cur[d] = cursor[d]
    BY <1>2, <2>1
  <2>7. \A d \in Token \ {t} : Rests(d)
    BY <2>3, <2>6 DEF Rests, Spares
  <2>8. Came(Asked(t), t)
    BY <2>3, <2>6 DEF Spares, Came
  <2> QED BY <2>3, <2>4, <2>5, <2>7, <2>8
<1>7. ASSUME /\ \A d \in Token : Spares([cursor EXCEPT ![t] = After(t, r)], Roused(t, r), d)
             /\ \A v \in Task : task'[v] = Roused(t, r)[v] \/ task'[v] = Idle
                   \/ (task'[v].op = Roused(t, r)[v].op /\ task'[v].t = Roused(t, r)[v].t)
      PROVE  /\ \A v \in Task : Follows(v)
             /\ \A d \in Token \ {t} : Rests(d)
             /\ Came(Longer(t, r), t)
  <2>1. PICK cur \in [Token -> Cur] : cur = [cursor EXCEPT ![t] = After(t, r)]
    BY <1>2
  <2>2. PICK tk : tk = Roused(t, r)
    OBVIOUS
  <2>3. cur[t] = After(t, r) /\ \A d \in Token \ {t} : cur[d] = cursor[d]
    BY <1>2, <2>1
  <2>4. \A d \in Token : Spares(cur, tk, d)
    BY <1>7, <2>1, <2>2
  <2>5. ASSUME NEW v \in Task PROVE Follows(v)
    <3>1. Wakes(task[v], tk[v])
      BY <1>3, <2>2
    <3>2. task'[v] = tk[v] \/ task'[v] = Idle
          \/ (task'[v].op = tk[v].op /\ task'[v].t = tk[v].t)
      BY <1>7, <2>2
    <3> QED BY <3>1, <3>2, IdleType DEF Follows, Wakes
  <2>6. ASSUME NEW d \in Token \ {t} PROVE Rests(d)
    <3>1. Keeps(cursor[d], task, cursor[d], tk, d)
      BY <1>4, <2>2, RestKeeps
    <3>2. Keeps(cursor[d], tk, cursor'[d], task', d)
      BY <2>3, <2>4 DEF Spares
    <3>3. Keeps(cursor[d], task, cursor'[d], task', d)
      BY <3>1, <3>2, KeepsTrans
    <3>4. Spares(cur, tk, d) /\ cur[d] = cursor[d]
      BY <2>3, <2>4
    <3> QED BY <3>3, <3>4 DEF Rests, Spares
  <2>7. Came(Longer(t, r), t)
    <3>1. Keeps(Longer(t, r), task, cur[t], tk, t) /\ Spares(cur, tk, t)
      BY <1>4, <2>2, <2>3, <2>4
    <3>2. Keeps(Longer(t, r), task, cursor'[t], task', t)
      BY <3>1, KeepsTrans DEF Spares
    <3>3. cur[t].error = Longer(t, r).error /\ cur[t].got = Longer(t, r).got
      BY <1>5, <2>3
    <3> QED BY <3>1, <3>2, <3>3 DEF Spares, Came
  <2> QED BY <2>5, <2>6, <2>7
<1>8. CASE Raises([cursor EXCEPT ![t] = After(t, r)], Kept(t, r), Roused(t, r), cn)
  BY <1>2, <1>7, <1>8, RaisesSpares
<1>9. CASE cursor' = [cursor EXCEPT ![t] = After(t, r)] /\ task' = Roused(t, r)
  <2>1. \A d \in Token : Spares([cursor EXCEPT ![t] = After(t, r)], Roused(t, r), d)
    BY <1>9, SparesSelf DEF RestsAt
  <2> QED BY <1>7, <1>9, <2>1
<1> QED BY <1>1, <1>6, <1>8, <1>9

(* Rows that come are taken by a cursor that has no error, and dropped by  *)
(* one that has.                                                           *)
LEMMA BatchRows ==
  ASSUME Typed, Typed', OwnInv, RowsInv, NEW t \in Token, NEW r \in Response, ReadBatch(t, r)
  PROVE  RowsMove
<1>1. /\ t \in cached /\ MayAnswer(t, r) /\ Answered(t, r) /\ Reads(t) /\ held' = held
  BY DEF ReadBatch
<1>2. /\ cursor[t] \in Cur /\ cursor'[t] \in Cur /\ Longer(t, r) \in Cur /\ Asked(t) \in Cur
      /\ sent[t] \in Nat /\ sent'[t] = sent[t] + r.rows /\ r.rows \in Nat
  <2>1. cursor[t] \in Cur /\ cursor'[t] \in Cur /\ sent[t] \in Nat
    BY Constants DEF Typed
  <2>2. Longer(t, r) \in Cur /\ Asked(t) \in Cur
    BY BatchParts
  <2>3. sent'[t] = sent[t] + r.rows /\ r.rows \in Nat
    BY <1>1, AnsweredIs
  <2> QED BY <2>1, <2>2, <2>3
<1>3. PICK c \in Cur : c = cursor[t]
  BY <1>2
<1>4. PICK L \in Cur : L = Longer(t, r)
  BY <1>2
<1>5. PICK A \in Cur : A = Asked(t)
  BY <1>2
<1>6. /\ A.error = c.error /\ A.items = c.items /\ A.got = c.got /\ A.getters = c.getters
      /\ L.got = c.got /\ L.getters = c.getters
      /\ L.error = IF c.error = "None" THEN EndOf(r) ELSE c.error
      /\ L.items = IF c.error = "None" THEN c.items + r.rows ELSE c.items
  BY <1>3, <1>4, <1>5, BatchParts
<1>7. /\ \A v \in Task : Follows(v)
      /\ \A d \in Token \ {t} : Rests(d)
      /\ (Came(A, t) /\ ~Serving') \/ Came(L, t)
  BY <1>4, <1>5, BatchSteps
<1>8. /\ Lined(c, task, t) /\ Total(c, task, t) <= sent[t] /\ c.error # "Absent" /\ Serving
      /\ (c.error = "None" => Total(c, task, t) = sent[t])
      /\ (t \notin held => c.got = 0)
  <2>1. RowsOf(t) /\ CacheOf(t)
    BY DEF RowsInv, OwnInv, OwnOf
  <2>2. Serving
    BY <1>1, ReadsRun DEF Serving
  <2> QED BY <1>1, <1>3, <2>1, <2>2 DEF RowsOf, CacheOf
<1>9. /\ Total(c, task, t) \in Nat /\ Total(L, task, t) \in Nat
      /\ Total(A, task, t) = Total(c, task, t)
      /\ Total(L, task, t) = Total(c, task, t) + IF c.error = "None" THEN r.rows ELSE 0
      /\ Lined(A, task, t) /\ Lined(L, task, t)
  <2>1. /\ Total(c, task, t) \in Nat /\ Total(L, task, t) \in Nat
        /\ Lined(A, task, t) /\ Lined(L, task, t)
    BY <1>6, <1>8, TotalType DEF Lined
  <2>2. c.items \in Nat /\ c.got \in Nat /\ Cardinality(Taking(task, t)) \in Nat
    BY TakingIs DEF Cur
  <2>3. Total(A, task, t) = Total(c, task, t)
    BY <1>6 DEF Total
  <2>4. Total(L, task, t) = Total(c, task, t) + IF c.error = "None" THEN r.rows ELSE 0
    BY <1>2, <1>6, <2>2 DEF Total
  <2> QED BY <2>1, <2>3, <2>4
<1>10. ASSUME NEW x \in Cur, x = A \/ x = L, Came(x, t)
       PROVE  /\ Lined(cursor'[t], task', t) /\ Total(cursor'[t], task', t) = Total(x, task, t)
              /\ cursor'[t].got = c.got /\ cursor'[t].error # "Absent"
              /\ cursor'[t].error = x.error \/ (x.error = "None" /\ cursor'[t].error = "Runtime")
  <2>1. Lined(x, task, t) /\ x.got = c.got /\ x.error # "Absent"
    BY <1>6, <1>8, <1>9, <1>10 DEF EndOf
  <2> QED BY <1>10, <2>1 DEF Came, Keeps
<1>11. CASE Came(A, t) /\ ~Serving'
  <2>1. Rests(t)
    <3>1. Keeps(c, task, A, task, t)
      BY <1>6, RestKeeps DEF RestsAt
    <3>2. Keeps(A, task, cursor'[t], task', t)
      BY <1>11 DEF Came
    <3>3. Keeps(c, task, cursor'[t], task', t)
      BY <3>1, <3>2, KeepsTrans
    <3> QED BY <1>3, <1>6, <1>11, <3>3 DEF Rests, Spares, Came
  <2>2. RowsOf(t)'
    <3>1. Total(cursor'[t], task', t) <= sent'[t]
      BY <1>2, <1>8, <1>9, <1>10, <1>11
    <3> QED BY <1>1, <1>8, <1>10, <1>11, <3>1 DEF RowsOf
  <2>3. Misses(t)
    BY <1>1, <2>1, <2>2 DEF Misses
  <2> QED BY <1>1, <1>7, <2>3 DEF RowsMove
<1>12. CASE Came(L, t) /\ c.error # "None"
  <2>1. Keeps(c, task, L, task, t)
    BY <1>6, <1>12, RestKeeps DEF RestsAt
  <2>2. Keeps(c, task, cursor'[t], task', t)
    BY <1>12, <2>1, KeepsTrans DEF Came
  <2>3. Rests(t)
    BY <1>3, <1>6, <1>12, <2>2 DEF Rests, Spares, Came
  <2>4. RowsOf(t)'
    <3>1. Total(cursor'[t], task', t) <= sent'[t]
      BY <1>2, <1>8, <1>9, <1>10, <1>12
    <3>2. cursor'[t].error \notin {"None", "Absent"} /\ cursor'[t].got = c.got
      BY <1>6, <1>8, <1>10, <1>12
    <3> QED BY <1>1, <1>8, <1>10, <1>12, <3>1, <3>2 DEF RowsOf
  <2>5. Misses(t)
    BY <1>1, <2>3, <2>4 DEF Misses
  <2> QED BY <1>1, <1>7, <2>5 DEF RowsMove
<1>13. CASE Came(L, t) /\ c.error = "None"
  <2>1. /\ Lined(cursor'[t], task', t) /\ Total(cursor'[t], task', t) = Total(c, task, t) + r.rows
        /\ cursor'[t].got = c.got /\ cursor'[t].error # "Absent"
        /\ cursor'[t].error = EndOf(r) \/ (EndOf(r) = "None" /\ cursor'[t].error = "Runtime")
    BY <1>6, <1>9, <1>10, <1>13
  <2>2. CASE t \in held
    <3>1. held' = held \cup {t}
      BY <1>1, <2>2
    <3>2. Arrives(t, r)
      BY <1>3, <1>8, <1>13, <2>1, <2>2, <3>1 DEF Arrives
    <3> QED BY <1>1, <1>7, <3>2 DEF RowsMove
  <2>3. CASE t \notin held
    <3>1. Total(cursor'[t], task', t) = sent'[t] /\ sent'[t] \in Nat
      BY <1>2, <1>8, <1>13, <2>1
    <3>2. RowsOf(t)'
      BY <1>1, <1>8, <2>1, <2>3, <3>1 DEF RowsOf
    <3>3. Misses(t)
      BY <1>1, <2>3, <3>2 DEF Misses
    <3> QED BY <1>1, <1>7, <3>3 DEF RowsMove
  <2> QED BY <2>2, <2>3
<1> QED BY <1>7, <1>11, <1>12, <1>13

(* The first batch of a stream makes the cursor, which takes it, unless an *)
(* exception comes first.                                                  *)
LEMMA StreamRows ==
  ASSUME Typed, Typed', OwnInv, RowsInv, NEW t \in Token, NEW r \in Response, ReadStream(t, r)
  PROVE  RowsMove
<1>1. /\ queries[t] = "start" /\ MayAnswer(t, r) /\ Answered(t, r) /\ conn.reader = "run" /\ Serving
      /\ awaiting[t] > 0 /\ Left(t) \in [Token -> Nat]
  <2>1. queries[t] = "start" /\ MayAnswer(t, r) /\ Answered(t, r) /\ Reads(t)
    BY DEF ReadStream
  <2>2. conn.reader = "run" /\ awaiting[t] > 0
    BY <2>1, ReadsRun
  <2> QED BY <2>1, <2>2, LeftType DEF Serving
<1>2. PICK c \in Cur : c = cursor[t]
  BY DEF Typed
<1>3. /\ c.error = "Absent" /\ t \notin held /\ sent[t] = 0 /\ c.got = 0 /\ c.items = 0
      /\ Lined(c, task, t) /\ Cardinality(Taking(task, t)) = 0 /\ Total(c, task, t) = 0
  <2>1. RowsOf(t) /\ CacheOf(t)
    BY DEF RowsInv, OwnInv, OwnOf
  <2>2. c.error = "Absent" /\ t \notin held /\ sent[t] = 0 /\ Lined(c, task, t)
        /\ Total(c, task, t) <= 0
    BY <1>1, <1>2, <2>1 DEF RowsOf, CacheOf
  <2>3. c.items \in Nat /\ c.got \in Nat /\ Cardinality(Taking(task, t)) \in Nat
    BY TakingIs DEF Cur
  <2>4. Total(c, task, t) = c.got + c.items + Cardinality(Taking(task, t))
    BY DEF Total
  <2> QED BY <2>2, <2>3, <2>4
<1>4. sent'[t] = r.rows /\ r.rows \in Nat
  BY <1>1, <1>3, AnsweredIs
<1>5. /\ Begun(t) \in [Token -> Cur] /\ cached \cup {t} \in SUBSET Token
      /\ task \in [Task -> TaskState] /\ First(t, r) \in [Token -> Cur]
      /\ \A d \in Token \ {t} : Begun(t)[d] = cursor[d] /\ First(t, r)[d] = cursor[d]
      /\ Begun(t)[t].error = "None"
      /\ Begun(t)[t].items = c.items /\ Begun(t)[t].got = c.got
      /\ Begun(t)[t].getters = c.getters
      /\ First(t, r)[t].error = EndOf(r)
      /\ First(t, r)[t].items = r.rows /\ First(t, r)[t].got = c.got
      /\ First(t, r)[t].getters = c.getters
  BY <1>2, StreamParts DEF Typed
<1>6. PICK cn \in ConnType, raised \in BOOLEAN :
           /\ cn.next_token = conn.next_token
           /\ Fetch(Left(t), t, TRUE, cn, raised)
           /\ \/ /\ raised /\ driver = "gevent" /\ held' = held
                 /\ Tell([told |-> Alive(t), whole |-> FALSE], Begun(t), cached \cup {t}, task, {})
                 /\ conn' = [cn EXCEPT !.closing = TRUE, !.reader = "ended"]
              \/ /\ raised /\ driver # "gevent" /\ held' = held
                 /\ Raises(Begun(t), cached \cup {t}, task, cn)
              \/ /\ ~raised /\ cursor' = First(t, r) /\ cached' = cached \cup {t} /\ conn' = cn
                 /\ queries' = [queries EXCEPT ![t] = "none"]
                 /\ held' = IF Users(t) = {} THEN held ELSE held \cup {t}
                 /\ task' = [u \in Task |-> IF u \in Users(t) THEN Idle ELSE task[u]]
  BY StreamIs
<1>7. ASSUME \A d \in Token : Spares(Begun(t), task, d), ~Serving', held' = held,
             \A v \in Task : Follows(v)
      PROVE  RowsMove
  <2>1. \A d \in Token \ {t} : Rests(d)
    BY <1>5, <1>7 DEF Spares, Rests
  <2>2. Lined(Begun(t)[t], task, t) /\ Total(Begun(t)[t], task, t) = 0
    BY <1>3, <1>5 DEF Lined, Total
  <2>3. /\ Lined(cursor'[t], task', t) /\ Total(cursor'[t], task', t) = 0
        /\ cursor'[t].got = 0 /\ cursor'[t].error # "Absent"
    BY <1>3, <1>5, <1>7, <2>2 DEF Spares, Keeps
  <2>4. RowsOf(t)'
    BY <1>4, <1>7, <2>3 DEF RowsOf
  <2>5. Misses(t)
    BY <1>3, <1>7, <2>4 DEF Misses
  <2> QED BY <1>1, <1>7, <2>1, <2>5 DEF RowsMove
<1>8. CASE /\ Tell([told |-> Alive(t), whole |-> FALSE], Begun(t), cached \cup {t}, task, {})
           /\ conn' = [cn EXCEPT !.closing = TRUE, !.reader = "ended"] /\ held' = held
  <2>1. PICK w : w = [told |-> Alive(t), whole |-> FALSE]
    OBVIOUS
  <2>2. /\ w.told \in SUBSET Token /\ w.whole \in BOOLEAN
        /\ \A s \in w.told : Begun(t)[s].error = "None"
    BY <1>5, <2>1 DEF Alive
  <2>3. Tell(w, Begun(t), cached \cup {t}, task, {})
    BY <1>8, <2>1
  <2>4. \A d \in Token : Spares(Begun(t), task, d)
    BY <1>5, <2>2, <2>3, TellSpares
  <2>5. \A v \in Task : Wakes(task[v], task'[v]) \/ task'[v] = Idle
    BY <1>5, <2>2, <2>3, TellIs
  <2>6. \A v \in Task : Follows(v)
    BY <2>5, IdleType DEF Follows, Wakes
  <2>7. ~Serving'
    BY <1>6, <1>8 DEF Serving, ConnType
  <2> QED BY <1>7, <1>8, <2>4, <2>6, <2>7
<1>9. CASE raised /\ driver # "gevent" /\ Raises(Begun(t), cached \cup {t}, task, cn) /\ held' = held
  <2>1. /\ \A d \in Token : Spares(Begun(t), task, d)
        /\ \A v \in Task : task'[v] = task[v] \/ task'[v] = Idle
                            \/ (task'[v].op = task[v].op /\ task'[v].t = task[v].t)
        /\ driver # "twisted" => ~Serving'
    BY <1>5, <1>9, RaisesSpares
  <2>2. driver # "twisted"
    <3>1. TRUE \in BOOLEAN /\ Fetch(Left(t), t, TRUE, cn, raised)
      BY <1>6
    <3> QED BY <1>1, <1>9, <3>1, FetchSends
  <2>3. \A v \in Task : Follows(v)
    BY <2>1, IdleType DEF Follows
  <2> QED BY <1>7, <1>9, <2>1, <2>2, <2>3
<1>10. CASE /\ cursor' = First(t, r)
            /\ held' = IF Users(t) = {} THEN held ELSE held \cup {t}
            /\ task' = [u \in Task |-> IF u \in Users(t) THEN Idle ELSE task[u]]
  <2>1. \A v \in Task : Pauses(v)
    <3> SUFFICES ASSUME NEW v \in Task PROVE Pauses(v)
      OBVIOUS
    <3>1. task'[v] = IF v \in Users(t) THEN Idle ELSE task[v]
      BY <1>10
    <3> QED BY <3>1, IdleType DEF Pauses, Users
  <2>2. \A v \in Task : Follows(v) /\ \A d : RestsAt(task[v], task'[v], d)
    BY <2>1, PausesRests
  <2>3. \A d \in Token \ {t} : Rests(d)
    BY <1>5, <1>10, <2>2, SparesSelf DEF Rests
  <2>4. /\ Lined(cursor'[t], task', t) /\ Total(cursor'[t], task', t) = r.rows
        /\ cursor'[t].got = 0 /\ cursor'[t].error = EndOf(r)
    <3>1. Getting(task', t) = Getting(task, t) /\ Taking(task', t) = Taking(task, t)
      BY <2>2 DEF Getting, Taking, RestsAt
    <3>2. /\ cursor'[t].error = EndOf(r) /\ cursor'[t].items = r.rows /\ cursor'[t].got = 0
          /\ cursor'[t].getters = c.getters
      BY <1>3, <1>5, <1>10
    <3>3. Total(cursor'[t], task', t) = r.rows
      BY <1>3, <1>4, <3>1, <3>2 DEF Total
    <3> QED BY <1>3, <3>1, <3>2, <3>3 DEF Lined
  <2>5. CASE Users(t) = {}
    <3>1. held' = held
      BY <1>10, <2>5
    <3>2. RowsOf(t)'
      BY <1>4, <2>4 DEF RowsOf, EndOf
    <3>3. Misses(t)
      BY <1>3, <3>1, <3>2 DEF Misses
    <3> QED BY <1>1, <2>2, <2>3, <3>3 DEF RowsMove
  <2>6. CASE Users(t) # {}
    <3>1. held' = held \cup {t}
      BY <1>10, <2>6
    <3>2. Total(cursor'[t], task', t) = Total(c, task, t) + r.rows
      BY <1>3, <1>4, <2>4
    <3>3. Arrives(t, r)
      BY <1>1, <1>2, <1>3, <2>4, <3>1, <3>2 DEF Arrives
    <3> QED BY <1>1, <2>2, <2>3, <3>3 DEF RowsMove
  <2> QED BY <2>5, <2>6
<1> QED BY <1>6, <1>8, <1>9, <1>10

(* Every step.                                                             *)
LEMMA RowsSteps ==
  ASSUME Base, Base', RowsInv, [Next]_vars
  PROVE  RowsMove
<1>0. Typed /\ Typed' /\ ConnInv /\ OwnInv /\ FreshInv
  BY DEF Base
<1>1. ASSUME NEW u \in Task, Call(u) \/ Resume(u) \/ HandshakeFails(u) PROVE RowsMove
  <2>1. CASE \/ ConnectCall(u) \/ HandshakeDone(u) \/ HandshakeFails(u) \/ Cancel(u)
             \/ \E ok \in BOOLEAN : OpenStream(u, ok)
             \/ CloseStream(u) \/ Shut(u) \/ NextError(u)
    BY <1>0, <2>1, QuietConnect
  <2>2. CASE (\E op \in {"start", "plain"} : Run(u, op)) \/ Send(u) \/ Register(u)
    BY <1>0, <2>2, QuietQuery
  <2>3. CASE NextWait(u) \/ \E t \in Token : NextCall(u, t)
    BY <1>0, <2>3, CallRows
  <2>4. CASE NextItem(u) \/ TakeRow(u) \/ NextTimeout(u)
    BY <1>0, <2>4, ItemRows, TakeRows, TimeoutRows
  <2>5. CASE \E t \in Token : CursorClose(u, t) \/ \E pc \in {"get", "fetch"} : TwistedNext(u, t, pc)
    BY <1>0, <2>5, StopRows, TwistedRows
  <2>6. CASE \E noreply_wait \in BOOLEAN : Close(u, noreply_wait)
    BY <1>0, <2>6, CloseRows
  <2> QED BY <1>1, <2>1, <2>2, <2>3, <2>4, <2>5, <2>6 DEF Call, Resume
<1>2. CASE \/ TimerFires \/ HandshakeLate \/ ReadNothing \/ ConnectionLost \/ StreamEnds
           \/ \E end \in {"eof", "reset"} : Drop(end)
           \/ \E t \in Token : ContinueRuns(t) \/ ReadValue(t) \/ SkipWhileClosing(t)
           \/ UNCHANGED vars
  BY <1>0, <1>2, QuietLoop
<1>3. CASE ReadEnd \/ \E t \in Token : UnexpectedResponse(t)
  BY <1>0, <1>3, EndRows
<1>4. CASE \E t \in Token, r \in Response : ReadBatch(t, r) \/ ReadStream(t, r)
  BY <1>0, <1>4, BatchRows, StreamRows
<1> QED BY <1>1, <1>2, <1>3, <1>4 DEF Next, ReadResponse

(* Tokens, cursors and the life of the reader only grow older.             *)
LEMMA AgesStep ==
  ASSUME Typed, Typed', ConnInv, OwnInv, FreshInv, [Next]_vars
  PROVE  Ages
<1>1. CASE UNCHANGED vars
  BY <1>1, FetchAges DEF vars, srvVars
<1>2. CASE \/ \E u \in Task : \/ ConnectCall(u) \/ HandshakeDone(u) \/ HandshakeFails(u)
                              \/ Cancel(u) \/ CloseStream(u)
                              \/ \E ok \in BOOLEAN : OpenStream(u, ok)
           \/ TimerFires \/ HandshakeLate
  BY <1>2, ConnectAges
<1>3. ASSUME NEW u \in Task, NextItem(u) \/ NextError(u) \/ TakeRow(u) \/ NextTimeout(u) \/ Shut(u)
      PROVE  Ages
  BY <1>3, RowStill
<1>4. CASE \/ \E t \in Token : SkipWhileClosing(t)
           \/ ReadNothing \/ ConnectionLost \/ StreamEnds
           \/ \E end \in {"eof", "reset"} : Drop(end)
  BY <1>4, NetworkStill
<1>5. CASE ReadEnd \/ \E t \in Token : UnexpectedResponse(t)
  BY <1>5, EndStill
<1>6. ASSUME NEW u \in Task,
             \/ \E op \in {"start", "plain"} : Run(u, op)
             \/ Send(u) \/ Register(u)
      PROVE  Ages
  BY <1>6, RunOwn, SendOwn, RegisterOwn
<1>7. ASSUME NEW u \in Task,
             \/ NextWait(u)
             \/ \E t \in Token : NextCall(u, t) \/ \E pc \in {"get", "fetch"} : TwistedNext(u, t, pc)
             \/ \E t \in Token : CursorClose(u, t)
      PROVE  Ages
  BY <1>7, NextOwn, StopOwn
<1>8. ASSUME NEW u \in Task, NEW noreply_wait \in BOOLEAN, Close(u, noreply_wait)
      PROVE  Ages
  BY <1>8, CloseOwn
<1>9. ASSUME NEW t \in Token,
             ReadValue(t) \/ ContinueRuns(t) \/ \E r \in Response : ReadBatch(t, r) \/ ReadStream(t, r)
      PROVE  Ages
  BY <1>9, ValueOwn, ContinueOwn, BatchOwn, StreamOwn
<1>10. ASSUME NEW u \in Task, Call(u) \/ Resume(u) \/ HandshakeFails(u)
       PROVE  Ages
  BY <1>2, <1>3, <1>6, <1>7, <1>8, <1>10 DEF Call, Resume
<1>11. CASE ReadResponse
  BY <1>4, <1>5, <1>9, <1>11 DEF ReadResponse
<1> QED BY <1>1, <1>2, <1>4, <1>5, <1>9, <1>10, <1>11 DEF Next

(* A cursor that is told of the end at most still has the rows it had.     *)
LEMMA RestRows ==
  ASSUME NEW d \in Token, RowsOf(d), Rests(d), sent'[d] = sent[d], done'[d] = done[d],
         d \in held => d \in held', Serving' => Serving
  PROVE  RowsOf(d)'
<1>1. /\ Lined(cursor[d], task, d)
      /\ Lined(cursor'[d], task', d) /\ Total(cursor'[d], task', d) = Total(cursor[d], task, d)
      /\ cursor'[d].got = cursor[d].got
      /\ cursor'[d].error = cursor[d].error \/ (cursor[d].error = "None" /\ cursor'[d].error = "Runtime")
  BY DEF RowsOf, Rests, Spares, Keeps
<1>2. Total(cursor'[d], task', d) <= sent'[d]
  BY <1>1 DEF RowsOf
<1>3. cursor'[d].error = "None" /\ Serving' => Total(cursor'[d], task', d) = sent'[d]
  BY <1>1 DEF RowsOf
<1>4. cursor'[d].error = "Absent" => sent'[d] = 0 /\ ~done'[d]
  BY <1>1 DEF RowsOf
<1>5. d \notin held' => cursor'[d].got = 0
  BY <1>1 DEF RowsOf
<1> QED BY <1>1, <1>2, <1>3, <1>4, <1>5 DEF RowsOf

(* The five kinds of step preserve the invariant of the rows.              *)
LEMMA MovesRows ==
  ASSUME Typed, Typed', RowsInv, RowsMove, Serving' => Serving
  PROVE  RowsInv'
<1>1. held \in SUBSET Token /\ held' \in SUBSET Token /\ \A d \in Token : RowsOf(d)
  BY DEF Typed, RowsInv
<1>2. CASE UNCHANGED <<held, sent, done>> /\ \A d \in Token : Rests(d)
  <2>1. \A d \in Token : RowsOf(d)'
    BY <1>1, <1>2, RestRows
  <2>2. NextInv'
    BY <1>2 DEF RowsMove, Follows, RowsInv, NextInv
  <2> QED BY <2>1, <2>2 DEF RowsInv
<1>3. ASSUME UNCHANGED <<held, sent, done>>, NEW t \in held, Hands(t) \/ Stops(t),
             \A d \in Token \ {t} : Stays(d)
      PROVE  RowsInv'
  <2>1. \A d \in Token \ {t} : RowsOf(d)'
    BY <1>1, <1>3, RestRows DEF Stays
  <2>2. RowsOf(t)'
    <3>1. RowsOf(t)
      BY <1>1
    <3>2. /\ Lined(cursor'[t], task', t)
          /\ Total(cursor'[t], task', t) = Total(cursor[t], task, t)
          /\ cursor'[t].error = cursor[t].error \/ cursor'[t].error = "Stopped"
      BY <1>3, <3>1 DEF Hands, Stops, Keeps, RowsOf
    <3> QED BY <1>3, <3>1, <3>2 DEF RowsOf
  <2>3. NextInv'
    BY <1>3 DEF RowsMove, Follows, RowsInv, NextInv
  <2> QED BY <2>1, <2>2, <2>3 DEF RowsInv
<1>4. ASSUME NEW t \in Token, NEW r \in Response, MayAnswer(t, r), Answered(t, r),
             Arrives(t, r) \/ Misses(t), \A d \in Token \ {t} : Rests(d)
      PROVE  RowsInv'
  <2>1. /\ sent'[t] = sent[t] + r.rows /\ r.rows \in Nat
        /\ \A d \in Token \ {t} : sent'[d] = sent[d] /\ done'[d] = done[d]
    BY <1>4, AnsweredIs
  <2>2. held' = held \/ held' = held \cup {t}
    BY <1>4 DEF Arrives, Misses
  <2>3. \A d \in Token \ {t} : RowsOf(d)'
    BY <1>1, <1>4, <2>1, <2>2, RestRows
  <2>4. ASSUME Arrives(t, r) PROVE RowsOf(t)'
    <3>0. PICK c \in Cur : c = cursor[t]
      BY DEF Typed
    <3>1. RowsOf(t) /\ Total(c, task, t) \in Nat /\ sent[t] \in Nat
      BY <1>1, TotalType, Constants DEF Typed
    <3>2. Total(c, task, t) <= sent[t] /\ (c.error = "None" /\ Serving => Total(c, task, t) = sent[t])
          /\ (c.error = "Absent" => sent[t] = 0)
      BY <3>0, <3>1 DEF RowsOf
    <3>3. /\ c.error \in {"None", "Absent"} /\ Serving /\ t \in held' /\ cursor'[t].error # "Absent"
          /\ Lined(cursor'[t], task', t) /\ Total(cursor'[t], task', t) = Total(c, task, t) + r.rows
      BY <2>4, <3>0 DEF Arrives, EndOf
    <3>4. Total(cursor'[t], task', t) = sent'[t] /\ sent'[t] <= sent'[t]
      BY <2>1, <3>1, <3>2, <3>3
    <3> QED BY <3>3, <3>4 DEF RowsOf
  <2>5. ASSUME Misses(t) PROVE RowsOf(t)'
    BY <2>5 DEF Misses
  <2>6. RowsOf(t)'
    BY <1>4, <2>4, <2>5
  <2>7. NextInv'
    BY <2>2 DEF RowsMove, Follows, RowsInv, NextInv
  <2> QED BY <2>3, <2>6, <2>7 DEF RowsInv
<1> QED BY <1>2, <1>3, <1>4 DEF RowsMove

(* Every step preserves it.                                                *)
LEMMA RowsStep ==
  ASSUME Base, Base', RowsInv, [Next]_vars
  PROVE  RowsMove /\ RowsInv'
<1>1. Typed /\ Typed' /\ ConnInv /\ OwnInv /\ FreshInv
  BY DEF Base
<1>2. Ages
  BY <1>1, AgesStep
<1>3. Serving' => Serving
  BY <1>2 DEF Ages
<1>4. RowsMove
  BY RowsSteps
<1> QED BY <1>1, <1>3, <1>4, MovesRows

-----------------------------------------------------------------------------
(* The counts stay within their bounds: no more than two requests are owed *)
(* to a token, and no cursor has more rows than its stream.                *)
LEMMA LoopBounded ==
  ASSUME Base, RowsInv
  PROVE  LoopInv
<1>1. Typed /\ ConnInv /\ OwnInv
  BY DEF Base
<1>2. ASSUME NEW t \in Token
      PROVE  /\ cursor[t].outstanding \in -1 .. 2 /\ cursor[t].error \in Error
             /\ cursor[t].threshold \in 0 .. MaxRows + 1
             /\ cursor[t].items \in 0 .. MaxRows /\ cursor[t].got \in 0 .. MaxRows
             /\ awaiting[t] \in 0 .. 2
  <2>1. RowsOf(t) /\ CountOf(t)
    BY <1>1 DEF RowsInv, OwnInv, OwnOf
  <2>2. cursor[t] \in Cur /\ awaiting[t] \in Nat /\ sent[t] \in 0 .. MaxRows /\ MaxRows \in Nat
    BY <1>1, Constants DEF Typed
  <2>3. cursor[t].items \in Nat /\ cursor[t].got \in Nat /\ cursor[t].error \in Error
        /\ cursor[t].threshold \in 0 .. MaxRows + 1
    BY <2>2 DEF Cur
  <2>4. cursor[t].items <= sent[t] /\ cursor[t].got <= sent[t]
    <3>1. /\ Total(cursor[t], task, t) \in Nat /\ cursor[t].got <= Total(cursor[t], task, t)
          /\ cursor[t].items <= Total(cursor[t], task, t)
      BY <2>2, TotalType
    <3>2. Total(cursor[t], task, t) <= sent[t]
      BY <2>1 DEF RowsOf
    <3> QED BY <2>2, <2>3, <3>1, <3>2
  <2>5. awaiting[t] <= 2
    <3>1. One(SendsAt(t)) \in {0, 1} /\ One(t \in conts) \in {0, 1}
      BY OneIs
    <3>2. Owed(t) <= 2
      BY <2>1 DEF CountOf
    <3> QED BY <2>2, <3>1, <3>2 DEF Owed
  <2>6. cursor[t].outstanding \in -1 .. 2
    BY <2>1 DEF CountOf
  <2> QED BY <2>2, <2>3, <2>4, <2>5, <2>6
<1>3. TypeOK
  <2>1. awaiting \in [Token -> 0 .. 2]
    BY <1>1, <1>2 DEF Typed
  <2>2. \A u \in Task : task[u].pc \in Place /\ task[u].t \in Token
    BY <1>1 DEF Typed, TaskState
  <2> QED BY <1>1, <1>2, <2>1, <2>2 DEF Typed, TypeOK, Error
<1> QED BY <1>1, <1>3, AnswersExpected DEF LoopInv, ConnInv

(* Whatever the tasks of the application do and cancel, and whenever the   *)
(* link breaks: every answer on its way is expected, outstanding_requests  *)
(* of a cursor counts what its server owes it, close() and a failed        *)
(* connect() leave no stream open but in the ways NothingLeftOpen names,   *)
(* no cursor is owed more than two batches, and none ever holds a row that *)
(* was not sent to it.                                                     *)
THEOREM LoopCorrect == Spec => []LoopInv
<1>1. Init => Base /\ RowsInv
  BY BaseInit, RowsInit
<1>2. Base /\ RowsInv /\ [Next]_vars => Base' /\ RowsInv'
  BY BaseStep, RowsStep
<1>3. Base /\ RowsInv => LoopInv
  BY LoopBounded
<1> QED BY <1>1, <1>2, <1>3, PTL DEF Spec

-----------------------------------------------------------------------------
(* The refinement: what the application sees of the cursors.               *)
StreamStatus(e) == CASE e = "None"    -> "open"
                     [] e = "Empty"   -> "complete"
                     [] e = "Stopped" -> "closed"
                     [] OTHER         -> "failed"
Statuses  == {"absent", "open", "complete", "closed", "failed"}
Available == [t \in Token |->
  IF t \in held
  THEN cursor[t].got + cursor[t].items
         + Cardinality({u \in Task : task[u].pc = "taken" /\ task[u].t = t})
  ELSE 0]
Delivered == [t \in Token |-> cursor[t].got]
Status    == [t \in Token |->
  IF t \notin held THEN "absent"
  ELSE CASE cursor[t].error = "None"     -> "open"
         [] cursor[t].error = "Empty"    -> "complete"
         [] cursor[t].error = "Stopped"  -> "closed"
         [] OTHER                        -> "failed"]
LastBatch(r) == r.type # "SUCCESS_PARTIAL"

(* What the refinement mapping sees, in terms of the invariant.            *)
LEMMA SeenIs ==
  ASSUME NEW t \in Token
  PROVE  /\ Available[t] = IF t \in held THEN Total(cursor[t], task, t) ELSE 0
         /\ Available'[t] = IF t \in held' THEN Total(cursor'[t], task', t) ELSE 0
         /\ Delivered[t] = cursor[t].got /\ Delivered'[t] = cursor'[t].got
         /\ Status[t] = IF t \notin held THEN "absent" ELSE StreamStatus(cursor[t].error)
         /\ Status'[t] = IF t \notin held' THEN "absent" ELSE StreamStatus(cursor'[t].error)
<1>1. Available[t] = IF t \in held THEN Total(cursor[t], task, t) ELSE 0
  BY DEF Available, Total, Taking, Takes
<1>2. Available'[t] = IF t \in held' THEN Total(cursor'[t], task', t) ELSE 0
  BY DEF Available, Total, Taking, Takes
<1>3. Delivered[t] = cursor[t].got /\ Delivered'[t] = cursor'[t].got
  BY DEF Delivered
<1>4. Status[t] = IF t \notin held THEN "absent" ELSE StreamStatus(cursor[t].error)
  BY DEF Status, StreamStatus
<1>5. Status'[t] = IF t \notin held' THEN "absent" ELSE StreamStatus(cursor'[t].error)
  BY DEF Status, StreamStatus
<1> QED BY <1>1, <1>2, <1>3, <1>4, <1>5

LEMMA SeenType ==
  /\ Available = [t \in Token |-> Available[t]] /\ Available' = [t \in Token |-> Available'[t]]
  /\ Delivered = [t \in Token |-> Delivered[t]] /\ Delivered' = [t \in Token |-> Delivered'[t]]
  /\ Status \in [Token -> Statuses] /\ Status' \in [Token -> Statuses]
<1>1. Available = [t \in Token |-> Available[t]] /\ Available' = [t \in Token |-> Available'[t]]
  BY DEF Available
<1>2. Delivered = [t \in Token |-> Delivered[t]] /\ Delivered' = [t \in Token |-> Delivered'[t]]
  BY DEF Delivered
<1>3. Status \in [Token -> Statuses]
  BY DEF Status, Statuses
<1>4. Status' \in [Token -> Statuses]
  BY DEF Status, Statuses
<1> QED BY <1>1, <1>2, <1>3, <1>4

LEMMA StatusOf ==
  /\ StreamStatus("None") = "open" /\ StreamStatus("Empty") = "complete"
  /\ StreamStatus("Stopped") = "closed" /\ StreamStatus("Runtime") = "failed"
  /\ StreamStatus("Server") = "failed"
BY DEF StreamStatus

(* The initial states are initial states of ResultStream.                  *)
LEMMA RefineStarts == Init => Stream!Init
<1> SUFFICES ASSUME Init PROVE Stream!Init
  OBVIOUS
<1>1. Available = [t \in Token |-> 0] /\ Status = [t \in Token |-> "absent"]
  BY DEF Init, Available, Status
<1>2. Delivered = [t \in Token |-> 0]
  BY DEF Init, Delivered
<1> QED BY <1>1, <1>2 DEF Init, Stream!Init, Available, Status, Delivered

(* A cursor that rests looks the same, but for an end.                     *)
LEMMA RestSeen ==
  ASSUME RowsInv, NEW t \in Token, t \in held => Rests(t), t \in held <=> t \in held'
  PROVE  /\ Available'[t] = Available[t]
         /\ Status'[t] # Status[t] => Status[t] = "open" /\ Status'[t] = "failed"
<1>1. RowsOf(t)
  BY DEF RowsInv
<1>2. CASE t \in held
  <2>1. /\ Total(cursor'[t], task', t) = Total(cursor[t], task, t)
        /\ cursor'[t].error = cursor[t].error
           \/ (cursor[t].error = "None" /\ cursor'[t].error = "Runtime")
    BY <1>1, <1>2 DEF RowsOf, Rests, Spares, Keeps
  <2> QED BY <1>2, <2>1, SeenIs, StatusOf
<1>3. CASE t \notin held
  BY <1>3, SeenIs
<1> QED BY <1>2, <1>3

(* An end of the connection fails open cursors and does nothing else.      *)
LEMMA RefineFail ==
  ASSUME RowsInv, UNCHANGED <<held, sent, done>>, \A d \in Token : Rests(d)
  PROVE  Stream!Fail
<1>1. \A t \in Token : /\ Available'[t] = Available[t]
                       /\ Status'[t] # Status[t] => Status[t] = "open" /\ Status'[t] = "failed"
  BY RestSeen
<1>2. Available' = Available
  BY <1>1, SeenType
<1>3. Delivered' = Delivered
  <2>1. \A t \in Token : Delivered'[t] = Delivered[t]
    BY SeenIs DEF Rests, Spares
  <2> QED BY <2>1, SeenType
<1>4. Status' \in [Token -> Statuses]
  BY SeenType
<1> QED BY <1>1, <1>2, <1>3, <1>4
        DEF Stream!Fail, Stream!Breaks, Available, Status, Statuses, Delivered

(* A row is handed out, or a cursor closed; all others stay as they were.  *)
LEMMA RefineOne ==
  ASSUME Typed, RowsInv, NEW t \in held, UNCHANGED <<held, sent, done>>, Hands(t) \/ Stops(t),
         \A d \in Token \ {t} : Stays(d)
  PROVE  Stream!Deliver(t) \/ Stream!Close(t)
<1>1. t \in Token /\ RowsOf(t)
  BY DEF Typed, RowsInv
<1>2. ASSUME NEW d \in Token, d # t
      PROVE  Available'[d] = Available[d] /\ Status'[d] = Status[d] /\ Delivered'[d] = Delivered[d]
  <2>1. Rests(d) /\ cursor'[d].error = cursor[d].error
    BY <1>2 DEF Stays
  <2>2. Available'[d] = Available[d]
    BY <2>1, RestSeen
  <2> QED BY <2>1, <2>2, SeenIs DEF Rests, Spares
<1>3. Available'[t] = Available[t] /\ Available[t] = Total(cursor[t], task, t)
  <2>1. Total(cursor'[t], task', t) = Total(cursor[t], task, t)
    BY <1>1 DEF Hands, Stops, Keeps, RowsOf
  <2> QED BY <1>1, <2>1, SeenIs
<1>4. Available' = Available
  <2>1. \A d \in Token : Available'[d] = Available[d]
    BY <1>2, <1>3
  <2> QED BY <2>1, SeenType
<1>5. CASE Hands(t)
  <2>1. Delivered[t] < Available[t] /\ Delivered'[t] = Delivered[t] + 1 /\ Status'[t] = Status[t]
    BY <1>1, <1>3, <1>5, SeenIs DEF Hands
  <2>2. Status' = Status
    <3>1. \A d \in Token : Status'[d] = Status[d]
      BY <1>2, <2>1
    <3> QED BY <3>1, SeenType
  <2>3. Delivered' = [Delivered EXCEPT ![t] = @ + 1]
    BY <1>2, <2>1, SeenType
  <2> QED BY <1>4, <2>1, <2>2, <2>3 DEF Stream!Deliver, Available, Status, Delivered
<1>6. CASE Stops(t)
  <2>1. Status[t] = "open" /\ Status'[t] = "closed" /\ Delivered'[t] = Delivered[t]
    BY <1>1, <1>6, SeenIs, StatusOf DEF Stops
  <2>2. Delivered' = Delivered
    <3>1. \A d \in Token : Delivered'[d] = Delivered[d]
      BY <1>2, <2>1
    <3> QED BY <3>1, SeenType
  <2>3. Status' = [Status EXCEPT ![t] = "closed"]
    <3>1. Status' = [d \in Token |-> Status'[d]] /\ Status = [d \in Token |-> Status[d]]
      BY SeenType
    <3> QED BY <1>2, <2>1, <3>1
  <2> QED BY <1>4, <2>1, <2>2, <2>3 DEF Stream!Close, Available, Status, Delivered
<1> QED BY <1>5, <1>6

(* The server sends.                                                       *)
LEMMA RefineSend ==
  ASSUME Typed, NEW t \in Token, NEW r \in Response, MayAnswer(t, r), Answered(t, r)
  PROVE  Stream!Send(t, r.rows, LastBatch(r)) /\ r.rows \in 0 .. MaxRows /\ LastBatch(r) \in BOOLEAN
BY DEF MayAnswer, Answered, Stream!Send, LastBatch, Response

(* A batch arrives, or it does not.                                        *)
LEMMA RefineAnswer ==
  ASSUME Typed, RowsInv, RowsInv', NEW t \in Token, NEW r \in Response,
         MayAnswer(t, r), Answered(t, r), Arrives(t, r) \/ Misses(t),
         \A d \in Token \ {t} : Rests(d)
  PROVE  Stream!Arrive(t, r.rows, LastBatch(r)) \/ Stream!Miss(t, r.rows, LastBatch(r))
<1>1. held' = held \/ held' = held \cup {t}
  BY DEF Arrives, Misses
<1>2. ASSUME NEW d \in Token, d # t
      PROVE  /\ Available'[d] = Available[d] /\ Delivered'[d] = Delivered[d]
             /\ Status'[d] # Status[d] => Status[d] = "open" /\ Status'[d] = "failed"
  <2>1. Rests(d) /\ (d \in held <=> d \in held')
    BY <1>1, <1>2
  <2> QED BY <2>1, RestSeen, SeenIs DEF Rests, Spares
<1>3. Delivered' = Delivered
  <2>1. RowsOf(t) /\ RowsOf(t)'
    BY DEF RowsInv
  <2>2. cursor'[t].got = cursor[t].got
    BY <2>1 DEF RowsOf, Arrives, Misses, Rests, Spares
  <2>3. \A d \in Token : Delivered'[d] = Delivered[d]
    BY <1>2, <2>2, SeenIs
  <2> QED BY <2>3, SeenType
<1>4. Status' \in [Token -> Statuses]
  BY SeenType
<1>5. Stream!Send(t, r.rows, LastBatch(r))
  BY RefineSend
<1>6. CASE Arrives(t, r)
  <2>0. PICK c \in Cur : c = cursor[t]
    BY DEF Typed
  <2>1. /\ c.error \in {"None", "Absent"} /\ (t \in held <=> c.error = "None") /\ Serving
        /\ t \in held' /\ Total(cursor'[t], task', t) = Total(c, task, t) + r.rows
        /\ cursor'[t].error = EndOf(r) \/ (EndOf(r) = "None" /\ cursor'[t].error = "Runtime")
    BY <1>6, <2>0 DEF Arrives
  <2>2. /\ Total(c, task, t) \in Nat /\ sent[t] \in Nat /\ Total(c, task, t) <= sent[t]
        /\ (c.error = "None" => Total(c, task, t) = sent[t])
        /\ (c.error = "Absent" => sent[t] = 0)
    BY <2>0, <2>1, TotalType, Constants DEF RowsInv, RowsOf, Typed
  <2>3. Total(c, task, t) = sent[t]
    BY <2>1, <2>2
  <2>4. Available[t] = sent[t]
    <3>1. Available[t] = IF t \in held THEN Total(c, task, t) ELSE 0
      BY <2>0, SeenIs
    <3> QED BY <2>1, <2>2, <2>3, <3>1
  <2>5. Available'[t] = Available[t] + r.rows
    BY <2>1, <2>3, <2>4, SeenIs
  <2>6. Available' = [Available EXCEPT ![t] = @ + r.rows]
    BY <1>2, <2>5, SeenType
  <2>7. Status[t] \in {"absent", "open"}
    BY <2>0, <2>1, SeenIs, StatusOf
  <2>8. Status'[t] \in {IF LastBatch(r) THEN "complete" ELSE "open", "failed"}
    <3>1. \/ EndOf(r) = "None" /\ ~LastBatch(r)
          \/ EndOf(r) \in {"Empty", "Server"} /\ LastBatch(r)
      BY DEF EndOf, LastBatch
    <3>2. Status'[t] = StreamStatus(cursor'[t].error)
      BY <2>1, SeenIs
    <3> QED BY <2>1, <3>1, <3>2, StatusOf
  <2>9. Stream!Arrive(t, r.rows, LastBatch(r))
    BY <1>2, <1>3, <1>4, <1>5, <2>4, <2>6, <2>7, <2>8
       DEF Stream!Arrive, Available, Status, Statuses, Delivered
  <2> QED BY <2>9
<1>7. CASE Misses(t)
  <2>1. held' = held /\ (t \in held => Rests(t))
    BY <1>7 DEF Misses
  <2>2. \A d \in Token : /\ Available'[d] = Available[d]
                         /\ Status'[d] # Status[d] => Status[d] = "open" /\ Status'[d] = "failed"
    BY <1>2, <2>1, RestSeen
  <2>3. Available' = Available
    BY <2>2, SeenType
  <2>4. Stream!Miss(t, r.rows, LastBatch(r))
    BY <1>3, <1>4, <1>5, <2>2, <2>3
       DEF Stream!Miss, Stream!Breaks, Available, Status, Statuses, Delivered
  <2> QED BY <2>4
<1> QED BY <1>6, <1>7

(* Every step is a step of ResultStream, or a stutter.                     *)
LEMMA RefineStep ==
  ASSUME Typed, RowsInv, RowsInv', RowsMove
  PROVE  [Stream!Next]_(Stream!vars)
<1>1. CASE UNCHANGED <<held, sent, done>> /\ \A d \in Token : Rests(d)
  BY <1>1, RefineFail DEF Stream!Next
<1>2. ASSUME UNCHANGED <<held, sent, done>>, NEW t \in held, Hands(t) \/ Stops(t),
             \A d \in Token \ {t} : Stays(d)
      PROVE  Stream!Next
  <2>1. t \in Token
    BY DEF Typed
  <2>2. Stream!Deliver(t) \/ Stream!Close(t)
    BY <1>2, RefineOne
  <2> QED BY <2>1, <2>2 DEF Stream!Next
<1>3. ASSUME NEW t \in Token, NEW r \in Response, MayAnswer(t, r), Answered(t, r),
             Arrives(t, r) \/ Misses(t), \A d \in Token \ {t} : Rests(d)
      PROVE  Stream!Next
  <2>1. Stream!Arrive(t, r.rows, LastBatch(r)) \/ Stream!Miss(t, r.rows, LastBatch(r))
    BY <1>3, RefineAnswer
  <2>2. r.rows \in 0 .. MaxRows /\ LastBatch(r) \in BOOLEAN
    BY <1>3, RefineSend
  <2> QED BY <2>1, <2>2 DEF Stream!Next
<1> QED BY <1>1, <1>2, <1>3 DEF RowsMove

(* Whichever driver runs: a cursor hands out the rows of its stream in     *)
(* order and without a gap, calls it complete only when all of it has      *)
(* arrived, and takes no further row after an end, whatever its tasks, the *)
(* reader, cancellation and the network do at the same time.               *)
THEOREM LoopStreams == Spec => ImplementsResultStream
<1>1. Init => Base /\ RowsInv /\ Stream!Init
  BY BaseInit, RowsInit, RefineStarts
<1>2. Base /\ RowsInv /\ [Next]_vars => Base' /\ RowsInv' /\ [Stream!Next]_(Stream!vars)
  <2> SUFFICES ASSUME Base, RowsInv, [Next]_vars
               PROVE  Base' /\ RowsInv' /\ [Stream!Next]_(Stream!vars)
    OBVIOUS
  <2>1. Base'
    BY BaseStep
  <2>2. RowsMove /\ RowsInv'
    BY <2>1, RowsStep
  <2>3. Typed
    BY DEF Base
  <2> QED BY <2>1, <2>2, <2>3, RefineStep
<1> QED BY <1>1, <1>2, PTL DEF Spec, ImplementsResultStream, Stream!Spec
=============================================================================
