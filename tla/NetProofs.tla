----------------------------- MODULE NetProofs -----------------------------
(* Proofs about Net, for every value of its bounds.                        *)
EXTENDS Net, SequenceTheorems, TLAPS

(* The data of a response is a sequence of row numbers.                    *)
LEMMA RowsType ==
    ASSUME sent \in [Cursor -> Nat], NEW c \in Cursor, NEW r \in Response
    PROVE  Rows(c, r) \in Seq(Nat) /\ DataLen(r) \in Nat /\ r.rows \in Nat
<1>1. r.rows \in Nat
  BY BoundsAssumption DEF Response
<1>2. Rows(c, r) \in [1 .. r.rows -> Nat]
  BY <1>1 DEF Rows
<1>3. Rows(c, r) \in Seq(Nat)
  BY <1>1, <1>2
<1> QED BY <1>1, <1>3 DEF DataLen

LEMMA ReturnType ==
    ASSUME NEW outcome \in Outcome, Return(outcome)
    PROVE  call' \in [op : Op, g : Gen, t : Token, deadline : BOOLEAN] /\ ret' \in Outcome
BY BoundsAssumption DEF Return, Idle, Op, Gen, Token

LEMMA BlockType ==
    ASSUME NEW op \in Op, NEW g \in Gen, NEW t \in Token, NEW d \in BOOLEAN,
           Block(op, g, t, d)
    PROVE  call' \in [op : Op, g : Gen, t : Token, deadline : BOOLEAN] /\ ret' \in Outcome
BY DEF Block, Outcome

LEMMA DeliverType ==
    ASSUME NEW aw \in [Token -> Nat], NEW t \in Token
    PROVE  Deliver(aw, t) \in [Token -> Nat]
BY DEF Deliver

LEMMA TypeInit == Init => TypeOK
<1> SUFFICES ASSUME Init PROVE TypeOK
  OBVIOUS
<1>1. items \in [Cursor -> Seq(Nat)]
  BY DEF Init
<1>2. call \in [op : Op, g : Gen, t : Token, deadline : BOOLEAN]
  BY BoundsAssumption DEF Init, Idle, Op, Gen, Token
<1>3. /\ instance \in {0, gen} /\ next_token \in Token
      /\ gen \in Gen /\ awaiting \in [Token -> Nat]
  BY BoundsAssumption DEF Init, Gen, Token, NoneAwaiting
<1>4. error \in [Cursor -> CursorError] /\ ret \in Outcome
  BY DEF Init, CursorError, Outcome
<1> QED
  BY <1>1, <1>2, <1>3, <1>4 DEF Init, TypeOK

LEMMA ErrorCursorsType ==
    ASSUME TypeOK, ErrorCursors
    PROVE  /\ items' \in [Cursor -> Seq(Nat)] /\ outstanding' \in [Cursor -> Int]
           /\ threshold' \in [Cursor -> Nat] /\ error' \in [Cursor -> CursorError]
           /\ held' \subseteq Cursor /\ got' \in [Cursor -> Nat] /\ cached' \subseteq Token
BY DEF TypeOK, ErrorCursors, CursorError

LEMMA ConnectType ==
    ASSUME TypeOK, NEW ok \in BOOLEAN, gen < MaxGen, Connect(ok)
    PROVE  /\ instance' \in {0, gen'} /\ next_token' \in Token /\ gen' \in Gen
           /\ sock' \in {"none", "open", "closed"} /\ blocking' \in BOOLEAN
           /\ closing' \in BOOLEAN /\ link' \in {"up", "down"}
           /\ awaiting' \in [Token -> Nat] /\ sent' \in [Cursor -> Nat]
           /\ done' \in [Cursor -> BOOLEAN] /\ unacked' \in Nat
<1>1. gen' \in Gen /\ 0 \in Token
  BY BoundsAssumption DEF TypeOK, Connect, Gen, Token
<1>2. NoneAwaiting \in [Token -> Nat]
  BY DEF NoneAwaiting
<1> QED
  BY <1>1, <1>2 DEF TypeOK, Connect

LEMMA SendAndBlockType ==
    ASSUME TypeOK, NEW op \in RunOps, next_token < MaxToken, SendAndBlock(op)
    PROVE  /\ next_token' \in Token /\ awaiting' \in [Token -> Nat]
           /\ blocking' \in BOOLEAN /\ sock' \in {"none", "open", "closed"}
           /\ call' \in [op : Op, g : Gen, t : Token, deadline : BOOLEAN] /\ ret' \in Outcome
<1>1. next_token' \in Token /\ next_token \in Token /\ gen \in Gen
  BY BoundsAssumption DEF TypeOK, SendAndBlock, Token
<1>2. NoneAwaiting \in [Token -> Nat]
  BY DEF NoneAwaiting
<1>3. Deliver(awaiting, next_token) \in [Token -> Nat]
  BY <1>1, DeliverType DEF TypeOK
<1>4. CASE Block(op, gen, next_token, FALSE) /\ UNCHANGED sock /\ blocking' = TRUE
           /\ awaiting' = Deliver(awaiting, next_token)
  <2>1. op \in Op
    BY DEF Op
  <2> QED
    BY <1>1, <1>3, <1>4, <2>1, BlockType DEF TypeOK
<1>5. CASE SocketClose /\ Return("ReqlDriverError") /\ UNCHANGED blocking
  <2>1. "ReqlDriverError" \in Outcome
    BY DEF Outcome
  <2> QED
    BY <1>1, <1>2, <1>5, <2>1, ReturnType DEF TypeOK, SocketClose
<1> QED
  BY <1>4, <1>5 DEF SendAndBlock

(* TypeOK is preserved, call by call.                                      *)
LEMMA TypeUserCall == TypeOK /\ UserCall => TypeOK'
<1> SUFFICES ASSUME TypeOK, UserCall PROVE TypeOK'
  OBVIOUS
<1>0. /\ {"AttributeError", "ReqlDriverError", "value", "closed", "connected"} \subseteq Outcome
      /\ NoneAwaiting \in [Token -> Nat]
  BY DEF Outcome, NoneAwaiting
<1> USE DEF connVars, instVars, cursorVars, srvVars
<1>1. CASE Refused
  <2>1. CheckOpenError \in Outcome
    BY <1>0 DEF CheckOpenError
  <2> QED
    BY <1>1, <2>1, ReturnType DEF Refused, TypeOK
<1>2. CASE Start
  <2>1. "start" \in RunOps
    BY DEF RunOps
  <2> QED
    BY <1>2, <2>1, SendAndBlockType DEF Start, TypeOK
<1>3. CASE StartNoreply
  <2>1. next_token' \in Token /\ unacked' \in Nat
    <3>1. next_token \in 0 .. MaxToken /\ unacked \in Nat
      BY DEF TypeOK, Token
    <3>2. next_token' = next_token + 1 /\ next_token < MaxToken
      BY <1>3 DEF StartNoreply
    <3>3. unacked' = unacked + 1 \/ unacked' = unacked
      BY <1>3 DEF StartNoreply
    <3> QED
      BY <3>1, <3>2, <3>3, BoundsAssumption DEF Token
  <2>2. call' \in [op : Op, g : Gen, t : Token, deadline : BOOLEAN] /\ ret' \in Outcome
    BY <1>0, <1>3, ReturnType DEF StartNoreply
  <2> QED
    BY <1>0, <1>3, <2>1, <2>2 DEF StartNoreply, SocketClose, TypeOK
<1>4. CASE NoreplyWaitOrServer
  <2> PICK op \in {"wait", "info"} : SendAndBlock(op)
    BY <1>4 DEF NoreplyWaitOrServer
  <2>1. op \in RunOps
    BY DEF RunOps
  <2> QED
    BY <1>4, <2>1, SendAndBlockType DEF NoreplyWaitOrServer, TypeOK
<1>5. ASSUME NEW c \in Cursor, NEW deadline \in BOOLEAN, NextCall(c, deadline)
      PROVE  TypeOK'
  <2>1. "check" \in Op /\ c[1] \in Gen /\ c[2] \in Token
    BY DEF Op, Cursor
  <2> QED
    BY <1>5, <2>1, BlockType DEF NextCall, TypeOK
<1>6. ASSUME NEW c \in Cursor, CursorClose(c)
      PROVE  TypeOK'
  <2>1. c[2] \in Token
    BY DEF Cursor
  <2>2. error' \in [Cursor -> CursorError] /\ outstanding' \in [Cursor -> Int]
    BY <1>6 DEF CursorClose, TypeOK, CursorError
  <2>3. awaiting' \in [Token -> Nat] /\ sock' \in {"none", "open", "closed"}
    <3>1. \/ awaiting' = Deliver(awaiting, c[2]) /\ sock' = sock
          \/ awaiting' = NoneAwaiting /\ sock' = "closed"
          \/ awaiting' = awaiting /\ sock' = sock
      BY <1>6 DEF CursorClose, SocketClose
    <3>2. Deliver(awaiting, c[2]) \in [Token -> Nat]
      BY <2>1, DeliverType DEF TypeOK
    <3> QED
      BY <1>0, <3>1, <3>2 DEF TypeOK
  <2>4. call' \in [op : Op, g : Gen, t : Token, deadline : BOOLEAN] /\ ret' \in Outcome
    BY <1>0, <1>6, ReturnType DEF CursorClose
  <2> QED
    BY <1>6, <2>2, <2>3, <2>4 DEF CursorClose, TypeOK
<1>7. ASSUME NEW op \in CloseOps, NEW noreply_wait \in BOOLEAN, CloseCall(op, noreply_wait)
      PROVE  TypeOK'
  <2>0. 0 \in Token /\ next_token \in Token /\ gen \in Gen /\ op \in Op
    BY BoundsAssumption DEF Token, TypeOK, Op
  <2>1. /\ items' \in [Cursor -> Seq(Nat)] /\ outstanding' \in [Cursor -> Int]
        /\ threshold' \in [Cursor -> Nat] /\ error' \in [Cursor -> CursorError]
        /\ held' \subseteq Cursor /\ got' \in [Cursor -> Nat] /\ cached' \subseteq Token
    BY <1>7, ErrorCursorsType DEF CloseCall
  <2>2. CASE \E ok \in BOOLEAN : /\ op = "reconnect" /\ Connect(ok)
                                 /\ Return(IF ok THEN "connected" ELSE "ReqlDriverError")
    <3> PICK ok \in BOOLEAN : /\ op = "reconnect" /\ Connect(ok)
                              /\ Return(IF ok THEN "connected" ELSE "ReqlDriverError")
      BY <2>2
    <3>1. call' \in [op : Op, g : Gen, t : Token, deadline : BOOLEAN] /\ ret' \in Outcome
      BY <1>0, ReturnType
    <3>2. gen < MaxGen
      BY <1>7 DEF CloseCall
    <3> QED
      BY <2>1, <3>1, <3>2, ConnectType DEF TypeOK
  <2>3. CASE /\ instance' = 0 /\ next_token' = 0 /\ closing' = TRUE
             /\ UNCHANGED <<gen, link, sent, done, unacked, blocking>>
             /\ UNCHANGED <<sock, awaiting>> \/ SocketClose
             /\ \E outcome \in {"AttributeError", "ReqlDriverError", "closed"} : Return(outcome)
    <3>1. call' \in [op : Op, g : Gen, t : Token, deadline : BOOLEAN] /\ ret' \in Outcome
      BY <1>0, <2>3, ReturnType
    <3> QED
      BY <1>0, <2>0, <2>1, <2>3, <3>1 DEF TypeOK, SocketClose
  <2>4. CASE /\ instance' = 0 /\ next_token' = 0 /\ closing' = TRUE
             /\ UNCHANGED <<gen, link, sent, done, unacked, sock>>
             /\ blocking' = TRUE /\ awaiting' = Deliver(awaiting, next_token)
             /\ Block(op, gen, next_token, FALSE)
    <3>1. call' \in [op : Op, g : Gen, t : Token, deadline : BOOLEAN] /\ ret' \in Outcome
      BY <2>0, <2>4, BlockType
    <3>2. awaiting' \in [Token -> Nat]
      BY <2>0, <2>4, DeliverType DEF TypeOK
    <3> QED
      BY <2>0, <2>1, <2>4, <3>1, <3>2 DEF TypeOK
  <2> QED
    BY <1>7, <2>2, <2>3, <2>4 DEF CloseCall
<1>8. CASE CloseDetached
  BY <1>0, <1>8, ReturnType DEF CloseDetached, TypeOK
<1>9. CASE ReconnectDetached
  <2> PICK ok \in BOOLEAN : Connect(ok) /\ Return(IF ok THEN "connected" ELSE "ReqlDriverError")
    BY <1>9 DEF ReconnectDetached
  <2>1. call' \in [op : Op, g : Gen, t : Token, deadline : BOOLEAN] /\ ret' \in Outcome
    BY <1>0, ReturnType
  <2> QED
    BY <1>9, <2>1, ConnectType DEF ReconnectDetached, TypeOK
<1> QED
  BY <1>1, <1>2, <1>3, <1>4, <1>5, <1>6, <1>7, <1>8, <1>9 DEF UserCall

LEMMA TypeGetNext == TypeOK /\ GetNext => TypeOK'
<1> SUFFICES ASSUME TypeOK, GetNext PROVE TypeOK'
  OBVIOUS
<1> USE DEF connVars, instVars, cursorVars, srvVars
<1>0. /\ Called \in Cursor /\ call.g \in Gen /\ call.t \in Token /\ call.deadline \in BOOLEAN
      /\ NoneAwaiting \in [Token -> Nat]
  BY DEF TypeOK, Called, Cursor, NoneAwaiting
<1>1. CASE GetNextItem
  <2>1. Head(items[Called]) \in Nat /\ Tail(items[Called]) \in Seq(Nat)
    BY <1>0, <1>1 DEF GetNextItem, TypeOK
  <2>2. call' \in [op : Op, g : Gen, t : Token, deadline : BOOLEAN] /\ ret' \in Outcome
    BY <1>1, ReturnType DEF GetNextItem, Outcome
  <2> QED
    BY <1>0, <1>1, <2>1, <2>2 DEF GetNextItem, TypeOK
<1>2. CASE GetNextError
  <2>1. \E outcome \in {"StopIteration", "ReqlRuntimeError", "ReqlServerError"} : Return(outcome)
    BY <1>2 DEF GetNextError
  <2>2. call' \in [op : Op, g : Gen, t : Token, deadline : BOOLEAN] /\ ret' \in Outcome
    BY <2>1, ReturnType DEF Outcome
  <2> QED
    BY <1>2, <2>2 DEF GetNextError, TypeOK
<1>3. CASE GetNextRead
  <2>1. outstanding' \in [Cursor -> Int]
    BY <1>0, <1>3 DEF GetNextRead, TypeOK
  <2>2. awaiting' \in [Token -> Nat] /\ sock' \in {"none", "open", "closed"}
    <3>1. \/ awaiting' = Deliver(awaiting, call.t) /\ sock' = sock
          \/ awaiting' = NoneAwaiting /\ sock' = "closed"
          \/ awaiting' = awaiting /\ sock' = sock
      BY <1>3 DEF GetNextRead, SocketClose
    <3>2. Deliver(awaiting, call.t) \in [Token -> Nat]
      BY <1>0, DeliverType DEF TypeOK
    <3> QED
      BY <1>0, <3>1, <3>2 DEF TypeOK
  <2>3. call' \in [op : Op, g : Gen, t : Token, deadline : BOOLEAN] /\ ret' \in Outcome
    <3>1. \/ \E outcome \in {"ReqlDriverError", "AttributeError"} : Return(outcome)
          \/ Block("read", call.g, call.t, call.deadline)
      BY <1>3 DEF GetNextRead, CheckOpenError
    <3>2. "read" \in Op /\ {"ReqlDriverError", "AttributeError"} \subseteq Outcome
      BY DEF Op, Outcome
    <3> QED
      BY <1>0, <3>1, <3>2, BlockType, ReturnType
  <2>4. blocking' \in BOOLEAN
    BY <1>3 DEF GetNextRead, TypeOK
  <2> QED
    BY <1>3, <2>1, <2>2, <2>3, <2>4 DEF GetNextRead, TypeOK
<1> QED
  BY <1>1, <1>2, <1>3 DEF GetNext

LEMMA AnsweredType ==
    ASSUME TypeOK, NEW c \in Cursor, NEW r \in Response, Answered(c, r)
    PROVE  sent' \in [Cursor -> Nat] /\ done' \in [Cursor -> BOOLEAN]
<1>1. sent[c] + r.rows \in Nat
  BY RowsType DEF TypeOK
<1> QED
  BY <1>1 DEF Answered, TypeOK

(* A response that arrives answers a request; one that the driver takes    *)
(* for the blocked query's carries its token.                              *)
LEMMA ArrivesOwed ==
    ASSUME TypeOK, NEW t \in Token, MayArrive(t)
    PROVE  awaiting[t] > 0
BY DEF TypeOK, MayArrive

LEMMA TypeReadCursorFrame ==
    ASSUME TypeOK, NEW t \in Token, NEW r \in Response, ReadCursorFrame(t, r)
    PROVE  TypeOK'
<1> DEFINE c    == Cur(t)
           n    == outstanding[c] - 1
           left == [awaiting EXCEPT ![t] = @ - 1]
<1> USE DEF connVars
<1>0. /\ c \in Cursor /\ n \in Int /\ call.g \in Gen /\ call.t \in Token
      /\ call.deadline \in BOOLEAN /\ r.rows \in Nat
      /\ NoneAwaiting \in [Token -> Nat]
  BY RowsType DEF TypeOK, Cur, Cursor, NoneAwaiting
<1>1. left \in [Token -> Nat]
  BY ArrivesOwed DEF ReadCursorFrame, TypeOK
<1>2. sent' \in [Cursor -> Nat] /\ done' \in [Cursor -> BOOLEAN]
  BY <1>0, AnsweredType DEF ReadCursorFrame
<1>3. CASE /\ outstanding' = [outstanding EXCEPT ![c] = IF WantsBatch(c, n) THEN 1 ELSE n]
           /\ awaiting' = IF WantsBatch(c, n) THEN Deliver(left, t) ELSE left
           /\ ExtendInternal(c, r, outstanding'[c])
           /\ Block("check", call.g, call.t, call.deadline) \/ UNCHANGED <<call, ret>>
           /\ UNCHANGED sock
  <2>1. outstanding' \in [Cursor -> Int] /\ awaiting' \in [Token -> Nat]
    <3>1. Deliver(left, t) \in [Token -> Nat]
      BY <1>1, DeliverType
    <3>2. awaiting' \in [Token -> Nat]
      BY <1>1, <1>3, <3>1
    <3> HIDE DEF c, n, left
    <3>3. outstanding' = [outstanding EXCEPT ![c] = 1] \/ outstanding' = [outstanding EXCEPT ![c] = n]
      BY <1>3
    <3>4. outstanding \in [Cursor -> Int] /\ c \in Cursor /\ n \in Int
      BY <1>0 DEF TypeOK
    <3> QED
      BY <3>2, <3>3, <3>4
  <2>2. threshold' \in [Cursor -> Nat] /\ items' \in [Cursor -> Seq(Nat)]
    <3>1. Rows(c, r) \in Seq(Nat) /\ DataLen(r) \in Nat
      BY <1>0, RowsType DEF TypeOK
    <3> HIDE DEF c
    <3>2. items[c] \o Rows(c, r) \in Seq(Nat)
      BY <1>0, <3>1 DEF TypeOK
    <3> QED
      BY <1>0, <1>3, <3>1, <3>2 DEF ExtendInternal, TypeOK
  <2>3. error' \in [Cursor -> CursorError] /\ cached' \subseteq Token
    <3>1. error' \in [Cursor -> CursorError]
      <4> HIDE DEF c
      <4>1. error[c] \in CursorError /\ {"None", "Empty", "Server"} \subseteq CursorError
        BY <1>0 DEF TypeOK, CursorError
      <4> QED
        BY <1>0, <1>3, <4>1 DEF ExtendInternal, TypeOK
    <3>2. cached' \subseteq cached
      BY <1>3 DEF ExtendInternal
    <3> QED
      BY <3>1, <3>2 DEF TypeOK
  <2>4. call' \in [op : Op, g : Gen, t : Token, deadline : BOOLEAN] /\ ret' \in Outcome
    <3>1. "check" \in Op
      BY DEF Op
    <3> QED
      BY <1>0, <1>3, <3>1, BlockType DEF TypeOK
  <2> QED
    BY <1>2, <1>3, <2>1, <2>2, <2>3, <2>4 DEF ReadCursorFrame, TypeOK
<1>4. CASE /\ SocketClose /\ Return("ReqlDriverError")
           /\ UNCHANGED <<outstanding, threshold, items, error, cached>>
  <2>1. call' \in [op : Op, g : Gen, t : Token, deadline : BOOLEAN] /\ ret' \in Outcome
    BY <1>4, ReturnType DEF Outcome
  <2> QED
    BY <1>0, <1>2, <1>4, <2>1 DEF ReadCursorFrame, SocketClose, TypeOK
<1> QED
  BY <1>3, <1>4 DEF ReadCursorFrame

LEMMA TypeReadStream ==
    ASSUME TypeOK, NEW t \in Token, NEW r \in Response, ReadStream(t, r)
    PROVE  TypeOK'
<1> DEFINE c    == Cur(call.t)
           left == [awaiting EXCEPT ![t] = @ - 1]
<1> USE DEF connVars
<1>0. /\ call.t \in Token /\ c \in Cursor /\ r.rows \in Nat
      /\ NoneAwaiting \in [Token -> Nat]
  BY RowsType DEF TypeOK, Cur, Cursor, NoneAwaiting
<1>1. left \in [Token -> Nat] /\ Deliver(left, call.t) \in [Token -> Nat]
  <2>1. left \in [Token -> Nat]
    BY ArrivesOwed DEF ReadStream, TypeOK
  <2> QED
    BY <1>0, <2>1, DeliverType
<1>2. sent' \in [Cursor -> Nat] /\ done' \in [Cursor -> BOOLEAN]
  BY <1>0, AnsweredType DEF ReadStream
<1>3. outstanding' \in [Cursor -> Int] /\ cached' \subseteq Token /\ held' \subseteq Cursor
  BY <1>0 DEF ReadStream, TypeOK
<1>4. call' \in [op : Op, g : Gen, t : Token, deadline : BOOLEAN] /\ ret' \in Outcome
  BY ReturnType DEF ReadStream, Outcome
<1>5. threshold' \in [Cursor -> Nat] /\ items' \in [Cursor -> Seq(Nat)]
  <2>1. Rows(c, r) \in Seq(Nat) /\ DataLen(r) \in Nat
    BY <1>0, RowsType DEF TypeOK
  <2>2. /\ threshold' = [threshold EXCEPT ![c] = DataLen(r)] \/ threshold' = threshold
        /\ items' = [items EXCEPT ![c] = Rows(c, r)] \/ items' = items
    BY DEF ReadStream
  <2> HIDE DEF c
  <2> QED
    BY <1>0, <2>1, <2>2 DEF TypeOK
<1>6. error' \in [Cursor -> CursorError]
  <2>1. {"None", "Empty"} \subseteq CursorError
    BY DEF CursorError
  <2> QED
    BY <1>0, <2>1 DEF ReadStream, TypeOK
<1>7. awaiting' \in [Token -> Nat] /\ sock' \in {"none", "open", "closed"}
  BY <1>0, <1>1 DEF ReadStream, SocketClose, TypeOK
<1> QED
  BY <1>2, <1>3, <1>4, <1>5, <1>6, <1>7 DEF ReadStream, TypeOK

LEMMA TypeRead == TypeOK /\ Read => TypeOK'
<1> SUFFICES ASSUME TypeOK, Read PROVE TypeOK'
  OBVIOUS
<1> USE DEF connVars, instVars, cursorVars
<1>0. /\ NoneAwaiting \in [Token -> Nat]
      /\ {"value", "flushed", "connected", "ReqlServerError", "ReqlDriverError"} \subseteq Outcome
  BY DEF NoneAwaiting, Outcome
<1>1. ASSUME NEW t \in Token, NEW r \in Response, ReadCursorFrame(t, r)
      PROVE  TypeOK'
  BY <1>1, TypeReadCursorFrame
<1>2. ASSUME NEW t \in Token, NEW r \in Response, ReadStream(t, r)
      PROVE  TypeOK'
  BY <1>2, TypeReadStream
<1>3. ASSUME NEW t \in Token, ReadValue(t) \/ ReadServerInfo(t) \/ ReadWaitComplete(t)
      PROVE  TypeOK'
  <2>1. call' \in [op : Op, g : Gen, t : Token, deadline : BOOLEAN] /\ ret' \in Outcome
    BY <1>0, <1>3, ReturnType DEF ReadValue, ReadServerInfo, ReadWaitComplete
  <2>2. awaiting[t] > 0 /\ awaiting' = [awaiting EXCEPT ![t] = @ - 1]
    BY <1>3, ArrivesOwed DEF ReadValue, ReadServerInfo, ReadWaitComplete, Take
  <2>3. awaiting' \in [Token -> Nat]
    BY <2>2 DEF TypeOK
  <2> QED
    BY <1>3, <2>1, <2>3 DEF ReadValue, ReadServerInfo, ReadWaitComplete, TypeOK
<1>4. ASSUME NEW t \in Token, CloseCompletes(t)
      PROVE  TypeOK'
  <2>1. call' \in [op : Op, g : Gen, t : Token, deadline : BOOLEAN] /\ ret' \in Outcome
    BY <1>0, <1>4, ReturnType DEF CloseCompletes
  <2> QED
    BY <1>0, <1>4, <2>1 DEF CloseCompletes, SocketClose, TypeOK
<1>5. ASSUME NEW t \in Token, ReconnectCompletes(t)
      PROVE  TypeOK'
  <2> PICK ok \in BOOLEAN : Connect(ok) /\ Return(IF ok THEN "connected" ELSE "ReqlDriverError")
    BY <1>5 DEF ReconnectCompletes
  <2>1. call' \in [op : Op, g : Gen, t : Token, deadline : BOOLEAN] /\ ret' \in Outcome
    BY <1>0, ReturnType
  <2> QED
    BY <1>5, <2>1, ConnectType DEF ReconnectCompletes, TypeOK
<1>6. ASSUME NEW t \in Token, SkipWhileClosing(t)
      PROVE  TypeOK'
  BY <1>6, ArrivesOwed DEF SkipWhileClosing, Take, TypeOK
<1>7. CASE ConnectionLost
  <2>1. call' \in [op : Op, g : Gen, t : Token, deadline : BOOLEAN] /\ ret' \in Outcome
    BY <1>0, <1>7, ReturnType DEF ConnectionLost
  <2> QED
    BY <1>0, <1>7, <2>1 DEF ConnectionLost, SocketClose, TypeOK
<1> QED
  BY <1>1, <1>2, <1>3, <1>4, <1>5, <1>6, <1>7 DEF Read

LEMMA TypeDisturbance == TypeOK /\ (Disturbance \/ ExecuteNoreply) => TypeOK'
<1> SUFFICES ASSUME TypeOK, Disturbance \/ ExecuteNoreply PROVE TypeOK'
  OBVIOUS
<1> USE DEF connVars, instVars, cursorVars, srvVars
<1>0. /\ NoneAwaiting \in [Token -> Nat]
      /\ {"KeyboardInterrupt", "ReqlTimeoutError", "ReqlDriverError"} \subseteq Outcome
  BY DEF NoneAwaiting, Outcome
<1>1. ASSUME NEW t \in Token, UnexpectedResponse(t)
      PROVE  TypeOK'
  <2>1. call' \in [op : Op, g : Gen, t : Token, deadline : BOOLEAN] /\ ret' \in Outcome
    BY <1>0, <1>1, ReturnType DEF UnexpectedResponse
  <2> QED
    BY <1>0, <1>1, <2>1, ErrorCursorsType DEF UnexpectedResponse, SocketClose, TypeOK
<1>2. CASE ReadTimeout
  <2>1. call' \in [op : Op, g : Gen, t : Token, deadline : BOOLEAN] /\ ret' \in Outcome
    BY <1>0, <1>2, ReturnType DEF ReadTimeout
  <2> QED
    BY <1>2, <2>1 DEF ReadTimeout, TypeOK
<1>3. CASE KeyboardInterrupt
  <2> PICK ok \in BOOLEAN :
          Connect(ok) /\ Return(IF ok THEN "KeyboardInterrupt" ELSE "ReqlDriverError")
    BY <1>3 DEF KeyboardInterrupt
  <2>1. call' \in [op : Op, g : Gen, t : Token, deadline : BOOLEAN] /\ ret' \in Outcome
    BY <1>0, ReturnType
  <2> QED
    BY <1>3, <2>1, ConnectType, ErrorCursorsType DEF KeyboardInterrupt, TypeOK
<1>4. CASE Drop
  BY <1>4 DEF Drop, TypeOK
<1>5. CASE ExecuteNoreply
  <2>1. unacked' \in Nat
    BY <1>5 DEF ExecuteNoreply, TypeOK
  <2> QED
    BY <1>5, <2>1 DEF ExecuteNoreply, TypeOK
<1> QED
  BY <1>1, <1>2, <1>3, <1>4, <1>5 DEF Disturbance

LEMMA TypeStep == TypeOK /\ [Next]_vars => TypeOK'
<1> SUFFICES ASSUME TypeOK, [Next]_vars PROVE TypeOK'
  OBVIOUS
<1>1. CASE Next
  BY <1>1, TypeUserCall, TypeGetNext, TypeRead, TypeDisturbance DEF Next
<1>2. CASE UNCHANGED vars
  BY <1>2 DEF vars, connVars, instVars, cursorVars, srvVars, TypeOK
<1> QED
  BY <1>1, <1>2

(* The variables keep their types: in particular no answer is read that    *)
(* nobody asked for, and the gaps the bounds leave are never exceeded.     *)
THEOREM TypeCorrect == Spec => []TypeOK
BY TypeInit, TypeStep, PTL DEF Spec

-----------------------------------------------------------------------------
(* The inductive invariant NetInv.                                         *)
(* What every action may assume of the state it starts in.                 *)
Inv == StaleCursorInert /\ NoUnexpectedResponse /\ RequestsAccounted /\ ControlInv /\ TokenInv

LEMMA InvInit == Init => Inv
<1> SUFFICES ASSUME Init PROVE Inv
  OBVIOUS
<1>1. call.op = "idle" /\ cached = {} /\ held = {} /\ sock = "open" /\ instance = 1 /\ ~closing
  BY DEF Init, Idle
<1>2. \A c \in Cursor : error[c] = "Absent" /\ outstanding[c] = 0
  BY DEF Init
<1>3. \A t \in Token : awaiting[t] = 0 /\ gen = 1
  BY DEF Init, NoneAwaiting
<1>4. \A t \in Token : Cur(t) \in Cursor
  BY BoundsAssumption, <1>3 DEF Cur, Cursor, Gen
<1> QED
  BY <1>1, <1>2, <1>3, <1>4
     DEF Inv, StaleCursorInert, NoUnexpectedResponse, RequestsAccounted, ControlInv, TokenInv,
         Reading, RunOps, CloseOps

(* An instance that is open and not blocked in close() has its owner.      *)
LEMMA OpenIsAttached ==
    ASSUME TypeOK, Inv, sock = "open", call.op \notin CloseOps
    PROVE  ~closing /\ instance = gen /\ \A t \in Token : awaiting[t] > 0 => t < next_token
<1>1. ~closing
  BY DEF Inv, ControlInv
<1>2. instance = gen
  BY <1>1 DEF TypeOK, Inv, ControlInv
<1> QED
  BY <1>1, <1>2 DEF Inv, TokenInv

LEMMA IdleOp == ASSUME call = Idle
                PROVE  call.op = "idle" /\ ~Reading /\ call.op \notin RunOps \cup CloseOps
BY DEF Idle, Reading, RunOps, CloseOps

LEMMA ReturnOp == ASSUME NEW outcome, Return(outcome)
                  PROVE  call'.op = "idle" /\ ~Reading' /\ call'.op \notin RunOps \cup CloseOps
BY DEF Return, Idle, Reading, RunOps, CloseOps

LEMMA CurType == ASSUME TypeOK, NEW t \in Token
                 PROVE  /\ Cur(t) \in Cursor /\ Cur(t)[1] = gen /\ Cur(t)[2] = t
                        /\ \A s \in Token : Cur(s) = Cur(t) <=> s = t
BY DEF Cur, Cursor, TypeOK

(* The types the proofs below use.                                         *)
LEMMA Types ==
    ASSUME TypeOK
    PROVE  /\ instance \in {0, gen} /\ gen \in Nat \ {0} /\ next_token \in Nat
           /\ next_token \in Token /\ Token \subseteq Nat /\ cached \subseteq Token
           /\ awaiting \in [Token -> Nat] /\ outstanding \in [Cursor -> Int]
           /\ error \in [Cursor -> CursorError] /\ held \subseteq Cursor
           /\ call.t \in Token /\ Called \in Cursor
           /\ \A t \in Token : Cur(t) \in Cursor
<1>1. /\ gen \in Gen /\ next_token \in Token /\ call.t \in Token /\ call.g \in Gen
      /\ awaiting \in [Token -> Nat] /\ outstanding \in [Cursor -> Int]
      /\ error \in [Cursor -> CursorError] /\ held \subseteq Cursor
      /\ instance \in {0, gen} /\ cached \subseteq Token
  BY DEF TypeOK
<1>2. gen \in Nat \ {0} /\ Token \subseteq Nat
  BY <1>1, BoundsAssumption DEF Token, Gen
<1>3. Called \in Cursor /\ \A t \in Token : Cur(t) \in Cursor
  BY <1>1 DEF Called, Cur, Cursor
<1> QED
  BY <1>1, <1>2, <1>3

(* A query with an answer is sent with a fresh token.                      *)
LEMMA InvSendAndBlock ==
    ASSUME TypeOK, Inv, call = Idle, ~NotOpen, NEW op \in RunOps, SendAndBlock(op),
           UNCHANGED <<instance, gen, closing, cached, cursorVars, link, sent, done, unacked>>
    PROVE  Inv'
<1> USE DEF cursorVars
<1>0. sock = "open" /\ ~closing /\ instance = gen /\ next_token \in Token
      /\ \A t \in Token : awaiting[t] > 0 => t < next_token
  BY IdleOp, OpenIsAttached DEF NotOpen, TypeOK
<1>1. /\ next_token \notin cached /\ awaiting[next_token] = 0
      /\ error[Cur(next_token)] = "Absent"
  <2>1. next_token \notin cached /\ error[Cur(next_token)] = "Absent"
    BY <1>0 DEF Inv, TokenInv, Token
  <2>2. ~(awaiting[next_token] > 0) /\ awaiting[next_token] \in Nat
    BY <1>0, Types
  <2> QED
    BY <2>1, <2>2
<1>2. \A t \in Token : Cur(t)' = Cur(t)
  BY DEF Cur
<1>3. CASE Block(op, gen, next_token, FALSE) /\ UNCHANGED sock
           /\ awaiting' = Deliver(awaiting, next_token)
  <2>1. /\ awaiting'[next_token] <= 1
        /\ \A t \in Token : t # next_token => awaiting'[t] = awaiting[t]
    BY <1>0, <1>1, <1>3 DEF Deliver, TypeOK
  <2>2. call'.op = op /\ call'.t = next_token /\ call'.op \notin CloseOps /\ call'.op \notin {"read", "check"}
    BY <1>3 DEF Block, RunOps, CloseOps
  <2>3. StaleCursorInert' /\ NoUnexpectedResponse' /\ RequestsAccounted'
    <3>1. StaleCursorInert'
      BY DEF Inv, StaleCursorInert
    <3>2. NoUnexpectedResponse'
      BY <1>0, <2>1, <2>2, IdleOp DEF Inv, NoUnexpectedResponse
    <3>3. RequestsAccounted'
      BY <1>0, <1>1, <1>3, <2>1, Types DEF Inv, RequestsAccounted, Cur
    <3> QED
      BY <3>1, <3>2, <3>3
  <2>4. ControlInv'
    BY <1>0, <1>3, <2>2 DEF Inv, ControlInv, Reading
  <2>5. TokenInv'
    BY <1>0, <1>1, <1>2, <1>3, <2>1, <2>2 DEF Inv, TokenInv, SendAndBlock, TypeOK, Token
  <2> QED
    BY <2>3, <2>4, <2>5 DEF Inv
<1>4. CASE SocketClose /\ Return("ReqlDriverError")
  <2>1. \A t \in Token : awaiting'[t] = 0
    BY <1>4 DEF SocketClose, NoneAwaiting
  <2>2. call'.op = "idle" /\ ~Reading' /\ call'.op \notin RunOps \cup CloseOps
    BY <1>4, ReturnOp
  <2>3. StaleCursorInert'
    BY DEF Inv, StaleCursorInert
  <2>4. NoUnexpectedResponse'
    BY <2>1 DEF NoUnexpectedResponse
  <2>5. RequestsAccounted'
    BY <1>0, <1>4, <2>1, Types DEF Inv, RequestsAccounted, SocketClose, Cur
  <2>6. ControlInv'
    BY <1>0, <1>4, <2>2 DEF Inv, ControlInv, SocketClose, NoneAwaiting
  <2>7. TokenInv'
    BY <1>0, <1>2, <2>1, <2>2 DEF Inv, TokenInv, SendAndBlock, TypeOK, Token
  <2> QED
    BY <2>3, <2>4, <2>5, <2>6, <2>7 DEF Inv
<1> QED
  BY <1>3, <1>4 DEF SendAndBlock

(* A step that returns to the application, or to the head of _get_next,    *)
(* without touching the cursors' requests: it may lose the socket.         *)
LEMMA InvKeep ==
    ASSUME TypeOK, TypeOK', Inv,
           UNCHANGED <<instance, gen, closing, cached, error, outstanding, held>>,
           /\ next_token' \in {next_token, next_token + 1}
           /\ instance = 0 => next_token' = next_token
           /\ sock' = sock \/ (sock = "open" /\ sock' = "closed")
           /\ link' = link \/ link' = "down"
           /\ \/ awaiting' = awaiting /\ sock' = sock
              \/ awaiting' = NoneAwaiting /\ (link' = "down" \/ sock' # "open")
           /\ call'.op \in {"idle", "check"}
           /\ call'.op = "check" => (Called' \in held)
           /\ call.op \in CloseOps => sock' # "open"
           /\ call.op \in RunOps => awaiting' = NoneAwaiting
    PROVE  Inv'
<1>0. \A t \in Token : NoneAwaiting[t] = 0
  BY DEF NoneAwaiting
<1>1. ~Reading' /\ call'.op \notin RunOps \cup CloseOps
  BY DEF Reading, RunOps, CloseOps
<1>2. \A t \in Token : awaiting'[t] \in {0, awaiting[t]}
  BY <1>0
<1>3. StaleCursorInert'
  BY DEF Inv, StaleCursorInert
<1>4. NoUnexpectedResponse'
  BY <1>0 DEF Inv, NoUnexpectedResponse
<1>5. RequestsAccounted'
  BY <1>0, Types DEF Inv, RequestsAccounted, Cur
<1>6. ControlInv'
  BY <1>1, Types DEF Inv, ControlInv
<1>7. TokenInv'
  BY <1>1, <1>2, Types DEF Inv, TokenInv, Cur
<1> QED
  BY <1>3, <1>4, <1>5, <1>6, <1>7 DEF Inv

(* No cursor of the old instance is left that could ask for rows.          *)
LEMMA InvErrorCursors ==
    ASSUME TypeOK, Inv, ErrorCursors
    PROVE  /\ \A c \in Cursor : error'[c] # "None"
           /\ \A c \in Cursor : error[c] = "Absent" <=> error'[c] = "Absent"
           /\ \A c \in Cursor : error[c] # "None" => outstanding'[c] = outstanding[c]
           /\ cached' = {} /\ held' = held
BY DEF ErrorCursors, Inv, StaleCursorInert

(* The old instance is closed for good or is closing.                      *)
LEMMA InvDetached ==
    ASSUME TypeOK, TypeOK', Inv, cached' = {}, closing', gen' = gen, held' = held,
           \A c \in Cursor : error'[c] # "None",
           \A c \in Cursor : error[c] = "Absent" <=> error'[c] = "Absent",
           \A c \in Cursor : error[c] = "Absent" => outstanding'[c] = outstanding[c],
           \/ instance' = 0 /\ next_token' = 0
           \/ UNCHANGED <<instance, next_token>> /\ instance # 0,
           \/ sock' = "open" /\ instance' = 0 /\ call'.op \in CloseOps
           \/ sock' # "open" /\ awaiting' = NoneAwaiting /\ call'.op = "idle"
    PROVE  Inv'
<1>1. /\ Reading' => call'.op \in CloseOps
      /\ call'.op \notin RunOps /\ call'.op \notin {"read", "check"}
      /\ call'.op = "idle" => ~Reading'
  BY DEF Reading, RunOps, CloseOps
<1>2. StaleCursorInert' /\ NoUnexpectedResponse' /\ RequestsAccounted'
  BY DEF StaleCursorInert, NoUnexpectedResponse, RequestsAccounted
<1>3. ControlInv'
  BY <1>1 DEF ControlInv, NoneAwaiting, CloseOps
<1>4. TokenInv'
  <2>1. \A c \in Cursor : c[1] > gen => error[c] = "Absent" /\ outstanding[c] = 0
    BY DEF Inv, TokenInv
  <2>2. \A t \in Token : instance' = gen /\ t >= next_token' => error[Cur(t)] = "Absent"
    BY Types DEF Inv, TokenInv
  <2> QED
    BY <1>1, <2>1, <2>2, Types DEF Inv, TokenInv, Cur
<1> QED
  BY <1>2, <1>3, <1>4 DEF Inv

(* A new instance has no cursors and no requests.                          *)
LEMMA InvConnect ==
    ASSUME TypeOK, TypeOK', Inv, NEW ok \in BOOLEAN, Connect(ok), call'.op = "idle",
           cached' = {}, held' = held,
           \A c \in Cursor : error'[c] # "None",
           \A c \in Cursor : error[c] = "Absent" <=> error'[c] = "Absent",
           \A c \in Cursor : error[c] = "Absent" => outstanding'[c] = outstanding[c]
    PROVE  Inv'
<1>1. ~Reading' /\ call'.op \notin RunOps \cup CloseOps \cup {"read", "check"}
  BY DEF Reading, RunOps, CloseOps
<1>2. \A t \in Token : awaiting'[t] = 0
  BY DEF Connect, NoneAwaiting
<1>3. StaleCursorInert' /\ NoUnexpectedResponse' /\ RequestsAccounted'
  BY <1>2 DEF StaleCursorInert, NoUnexpectedResponse, RequestsAccounted
<1>4. ControlInv'
  BY <1>1, Types DEF ControlInv, NoneAwaiting, Connect
<1>5. TokenInv'
  <2>1. \A c \in Cursor : c[1] > gen => error[c] = "Absent" /\ outstanding[c] = 0
    BY DEF Inv, TokenInv
  <2>2. gen' = gen + 1 /\ gen \in Nat
    BY Types DEF Connect
  <2>3. \A c \in Cursor : c[1] \in Nat
    BY DEF Cursor, Gen
  <2>4. \A t \in Token : Cur(t)' \in Cursor /\ Cur(t)'[1] = gen'
    BY DEF TypeOK, Cur, Cursor
  <2>5. \A c \in Cursor : c[1] > gen' => error'[c] = "Absent" /\ outstanding'[c] = 0
    BY <2>1, <2>2, <2>3
  <2>6. \A t \in Token : error'[Cur(t)'] = "Absent"
    BY <2>1, <2>2, <2>4
  <2>7. \A c \in held' : error'[c] # "Absent"
    BY Types DEF Inv, TokenInv
  <2> QED
    BY <1>1, <1>2, <2>5, <2>6, <2>7 DEF TokenInv
<1> QED
  BY <1>3, <1>4, <1>5 DEF Inv

(* Cursor.close: one more request, on the connection of the cursor.        *)
LEMMA InvCursorClose ==
    ASSUME TypeOK, TypeOK', Inv, NEW c \in Cursor, CursorClose(c)
    PROVE  Inv'
<1> USE DEF connVars
<1>0. /\ call = Idle /\ error[c] = "None" /\ call.op = "idle"
      /\ call'.op = "idle" /\ ~Reading' /\ call'.op \notin RunOps \cup CloseOps
  BY IdleOp, ReturnOp DEF CursorClose
<1>1. instance = gen /\ c[1] = gen /\ c[2] \in cached /\ ~closing /\ c = Cur(c[2]) /\ c[2] \in Token
  BY <1>0 DEF Inv, StaleCursorInert, Cur, Cursor
<1>2. /\ UNCHANGED <<instance, gen, closing, cached, held, link, next_token>>
      /\ error' = [error EXCEPT ![c] = "Stopped"]
      /\ outstanding' \in {outstanding, [outstanding EXCEPT ![c] = @ + 1]}
  BY DEF CursorClose
<1>3. \/ /\ sock = "open" /\ outstanding' = [outstanding EXCEPT ![c] = @ + 1]
         /\ awaiting' = Deliver(awaiting, c[2]) /\ sock' = sock
      \/ /\ sock = "open" /\ outstanding' = [outstanding EXCEPT ![c] = @ + 1]
         /\ awaiting' = NoneAwaiting /\ sock' = "closed"
      \/ /\ sock # "open" /\ outstanding' = outstanding
         /\ awaiting' = awaiting /\ sock' = sock
  BY <1>0, <1>1 DEF CursorClose, SocketClose
<1>4. \A t \in Token : NoneAwaiting[t] = 0
  BY DEF NoneAwaiting
<1>5. /\ \A t \in Token : t # c[2] => awaiting'[t] \in {0, awaiting[t]}
      /\ awaiting'[c[2]] \in {0, awaiting[c[2]], awaiting[c[2]] + 1}
  BY <1>1, <1>3, <1>4, Types DEF Deliver
<1>6. \A t \in Token : t # c[2] => Cur(t) # c
  BY <1>1 DEF Cur
<1>7. StaleCursorInert'
  BY <1>2, Types DEF Inv, StaleCursorInert
<1>8. NoUnexpectedResponse'
  BY <1>0, <1>1, <1>2, <1>5 DEF Inv, NoUnexpectedResponse, RunOps
<1>9. RequestsAccounted'
  <2> SUFFICES ASSUME NEW t \in cached
               PROVE  /\ awaiting'[t] <= outstanding'[Cur(t)]
                      /\ link' = "up" /\ sock' = "open" => awaiting'[t] = outstanding'[Cur(t)]
                      /\ outstanding'[Cur(t)] = 0 /\ sock' = "open" => error'[Cur(t)] = "None"
                      /\ error'[Cur(t)] # "Stopped" => outstanding'[Cur(t)] <= 1
    BY <1>2 DEF RequestsAccounted, Cur
  <2>1. /\ t \in Token /\ Cur(t) \in Cursor /\ outstanding[Cur(t)] \in Int /\ awaiting[t] \in Nat
        /\ awaiting[t] <= outstanding[Cur(t)]
        /\ link = "up" /\ sock = "open" => awaiting[t] = outstanding[Cur(t)]
        /\ outstanding[Cur(t)] = 0 /\ sock = "open" => error[Cur(t)] = "None"
        /\ error[Cur(t)] # "Stopped" => outstanding[Cur(t)] <= 1
    BY Types DEF Inv, RequestsAccounted
  <2>2. CASE t = c[2]
    <3>1. error'[Cur(t)] = "Stopped"
      BY <1>1, <1>2, <2>2, Types
    <3>2. outstanding'[Cur(t)] = outstanding[Cur(t)] + 1 \/ outstanding' = outstanding
      BY <1>1, <1>3, <2>1, <2>2, Types
    <3>3. \/ /\ outstanding'[Cur(t)] = outstanding[Cur(t)] + 1 /\ sock' = sock /\ sock = "open"
             /\ awaiting'[t] = IF link = "up" THEN awaiting[t] + 1 ELSE awaiting[t]
          \/ sock' # "open" /\ awaiting'[t] \in {0, awaiting[t]}
      BY <1>1, <1>3, <1>4, <2>1, <2>2, Types DEF Deliver
    <3> QED
      BY <1>2, <2>1, <3>1, <3>2, <3>3
  <2>3. CASE t # c[2]
    <3>1. error'[Cur(t)] = error[Cur(t)] /\ outstanding'[Cur(t)] = outstanding[Cur(t)]
      BY <1>2, <1>6, <2>1, <2>3, Types
    <3>2. \/ awaiting'[t] = awaiting[t] /\ sock' = sock
          \/ awaiting'[t] = 0 /\ sock' = "closed"
      BY <1>1, <1>3, <1>4, <2>1, <2>3, Types DEF Deliver
    <3> QED
      BY <1>2, <2>1, <3>1, <3>2
  <2> QED
    BY <2>2, <2>3
<1>10. ControlInv'
  BY <1>0, <1>1, <1>2, <1>3 DEF Inv, ControlInv
<1>11. TokenInv'
  BY <1>0, <1>1, <1>2, <1>5, Types DEF Inv, TokenInv, Cur
<1> QED
  BY <1>7, <1>8, <1>9, <1>10, <1>11 DEF Inv

LEMMA InvUserCall == TypeOK /\ TypeOK' /\ Inv /\ UserCall => Inv'
<1> SUFFICES ASSUME TypeOK, TypeOK', Inv, UserCall PROVE Inv'
  OBVIOUS
<1> USE DEF connVars, instVars, cursorVars, srvVars
<1>1. CASE Refused \/ CloseDetached
  <2>1. call'.op = "idle" /\ call.op = "idle"
    BY <1>1, IdleOp, ReturnOp DEF Refused, CloseDetached
  <2> QED
    BY <1>1, <2>1, InvKeep DEF Refused, CloseDetached, RunOps, CloseOps
<1>2. CASE Start
  <2>1. "start" \in RunOps
    BY DEF RunOps
  <2> QED
    BY <1>2, <2>1, InvSendAndBlock DEF Start
<1>3. CASE NoreplyWaitOrServer
  <2> PICK op \in {"wait", "info"} : SendAndBlock(op)
    BY <1>3 DEF NoreplyWaitOrServer
  <2>1. op \in RunOps
    BY DEF RunOps
  <2> QED
    BY <1>3, <2>1, InvSendAndBlock DEF NoreplyWaitOrServer
<1>4. CASE StartNoreply
  <2>1. call'.op = "idle" /\ call.op = "idle"
    BY <1>4, IdleOp, ReturnOp DEF StartNoreply
  <2>2. sock = "open" /\ instance # 0
    BY <1>4 DEF StartNoreply, NotOpen
  <2> QED
    BY <1>4, <2>1, <2>2, InvKeep DEF StartNoreply, SocketClose, RunOps, CloseOps
<1>5. ASSUME NEW c \in Cursor, NEW deadline \in BOOLEAN, NextCall(c, deadline)
      PROVE  Inv'
  <2>1. call'.op = "check" /\ call.op = "idle"
    BY <1>5, IdleOp DEF NextCall, Block
  <2>2. Called' \in held
    BY <1>5 DEF NextCall, Block, Called, Cursor
  <2> QED
    BY <1>5, <2>1, <2>2, InvKeep DEF NextCall, RunOps, CloseOps
<1>6. ASSUME NEW c \in Cursor, CursorClose(c)
      PROVE  Inv'
  BY <1>6, InvCursorClose
<1>7. ASSUME NEW op \in CloseOps, NEW noreply_wait \in BOOLEAN, CloseCall(op, noreply_wait)
      PROVE  Inv'
  <2>0. call = Idle /\ call.op = "idle" /\ ErrorCursors
    BY <1>7, IdleOp DEF CloseCall
  <2>1. CASE \E ok \in BOOLEAN : /\ Connect(ok)
                                 /\ Return(IF ok THEN "connected" ELSE "ReqlDriverError")
    BY <2>0, <2>1, ReturnOp, InvConnect, InvErrorCursors
  <2>2. CASE /\ instance' = 0 /\ next_token' = 0 /\ closing' = TRUE /\ gen' = gen
             /\ \/ sock' # "open" /\ awaiting' = NoneAwaiting
             /\ \E outcome \in Outcome : Return(outcome)
    <3>1. call'.op = "idle"
      BY <2>2, ReturnOp
    <3> QED
      BY <2>0, <2>2, <3>1, InvDetached, InvErrorCursors
  <2>3. CASE /\ instance' = 0 /\ next_token' = 0 /\ closing' = TRUE /\ gen' = gen
             /\ sock' = "open" /\ Block(op, gen, next_token, FALSE)
    <3>1. call'.op \in CloseOps
      BY <2>3 DEF Block
    <3> QED
      BY <2>0, <2>3, <3>1, InvDetached, InvErrorCursors
  <2>4. sock # "open" => awaiting = NoneAwaiting
    BY DEF Inv, ControlInv
  <2>5. {"AttributeError", "closed", "ReqlDriverError"} \subseteq Outcome
    BY DEF Outcome
  <2> QED
    BY <1>7, <2>1, <2>2, <2>3, <2>4, <2>5 DEF CloseCall, SocketClose
<1>8. CASE ReconnectDetached
  <2> PICK ok \in BOOLEAN : Connect(ok) /\ Return(IF ok THEN "connected" ELSE "ReqlDriverError")
    BY <1>8 DEF ReconnectDetached
  <2>1. cached' = {} /\ held' = held /\ UNCHANGED <<error, outstanding>> /\ closing
    BY <1>8 DEF ReconnectDetached, Inv, ControlInv
  <2>2. \A c \in Cursor : error[c] # "None"
    BY <2>1 DEF Inv, StaleCursorInert
  <2> QED
    BY <2>1, <2>2, ReturnOp, InvConnect
<1> QED
  BY <1>1, <1>2, <1>3, <1>4, <1>5, <1>6, <1>7, <1>8 DEF UserCall

(* _get_next: the CONTINUE it sends is the only request of the cursor.     *)
LEMMA InvGetNextRead ==
    ASSUME TypeOK, TypeOK', Inv, GetNextRead
    PROVE  Inv'
<1> USE DEF connVars
<1> DEFINE c == Called
<1>0. /\ call.op = "check" /\ call.op \notin RunOps \cup CloseOps
      /\ error[c] = "None" /\ c \in Cursor
      /\ UNCHANGED <<instance, gen, closing, cached, error, held, link, next_token>>
  BY Types DEF GetNextRead, RunOps, CloseOps
<1>1. /\ instance = gen /\ call.g = gen /\ call.t \in cached /\ ~closing
      /\ c = Cur(call.t) /\ call.t \in Token
  BY <1>0, Types DEF Inv, StaleCursorInert, Called, Cur
<1>2. CASE WantsBatch(c, outstanding[c])
  <2>0. outstanding[c] = 0 /\ outstanding' = [outstanding EXCEPT ![c] = 1]
    BY <1>2, Types DEF GetNextRead, WantsBatch
  <2>1. \/ /\ sock = "open" /\ sock' = sock /\ awaiting' = Deliver(awaiting, call.t)
           /\ call'.op = "read" /\ call'.g = call.g /\ call'.t = call.t
        \/ sock = "open" /\ sock' = "closed" /\ awaiting' = NoneAwaiting /\ call'.op = "idle"
        \/ sock # "open" /\ sock' = sock /\ awaiting' = awaiting /\ call'.op = "idle"
    BY <1>0, <1>1, <1>2, ReturnOp, Types DEF GetNextRead, NotOpen, SocketClose, Block
  <2>2. /\ \A t \in Token : NoneAwaiting[t] = 0
        /\ sock # "open" => awaiting = NoneAwaiting
    BY DEF NoneAwaiting, Inv, ControlInv
  <2>3. awaiting[call.t] = 0
    BY <1>1, <2>0, Types DEF Inv, RequestsAccounted
  <2>4. \A t \in Token : /\ t # call.t => awaiting'[t] \in {0, awaiting[t]}
                         /\ awaiting'[t] > 0 => sock' = sock
    BY <2>1, <2>2, Types DEF Deliver
  <2>5. \A t \in Token : t # call.t => Cur(t) # c
    BY <1>1 DEF Cur
  <2>6. call'.op \notin RunOps \cup CloseOps \cup {"check"}
    BY <2>1 DEF RunOps, CloseOps
  <2>7. StaleCursorInert'
    BY <1>0 DEF Inv, StaleCursorInert
  <2>8. NoUnexpectedResponse'
    BY <1>0, <1>1, <2>4 DEF Inv, NoUnexpectedResponse
  <2>9. RequestsAccounted'
    <3> SUFFICES ASSUME NEW t \in cached
                 PROVE  /\ awaiting'[t] <= outstanding'[Cur(t)]
                        /\ link = "up" /\ sock' = "open" => awaiting'[t] = outstanding'[Cur(t)]
                        /\ outstanding'[Cur(t)] = 0 /\ sock' = "open" => error[Cur(t)] = "None"
                        /\ error[Cur(t)] # "Stopped" => outstanding'[Cur(t)] <= 1
      BY <1>0 DEF RequestsAccounted, Cur
    <3>1. /\ t \in Token /\ Cur(t) \in Cursor /\ outstanding[Cur(t)] \in Int /\ awaiting[t] \in Nat
          /\ awaiting[t] <= outstanding[Cur(t)]
          /\ link = "up" /\ sock = "open" => awaiting[t] = outstanding[Cur(t)]
          /\ outstanding[Cur(t)] = 0 /\ sock = "open" => error[Cur(t)] = "None"
          /\ error[Cur(t)] # "Stopped" => outstanding[Cur(t)] <= 1
      BY Types DEF Inv, RequestsAccounted
    <3>2. CASE t = call.t
      <4>1. outstanding'[Cur(t)] = 1
        BY <1>0, <1>1, <2>0, <3>2, Types
      <4>2. \/ sock' # "open" /\ awaiting'[t] = 0
            \/ sock' = "open" /\ awaiting'[t] = (IF link = "up" THEN 1 ELSE 0)
        BY <2>1, <2>2, <2>3, <3>1, <3>2, Types DEF Deliver
      <4> QED
        BY <4>1, <4>2
    <3>3. CASE t # call.t
      <4>1. outstanding'[Cur(t)] = outstanding[Cur(t)]
        BY <1>0, <2>0, <2>5, <3>1, <3>3, Types
      <4>2. \/ awaiting'[t] = 0 /\ sock' # "open"
            \/ awaiting'[t] = awaiting[t] /\ sock' = sock
        BY <2>1, <2>2, <3>1, <3>3, Types DEF Deliver
      <4> QED
        BY <3>1, <4>1, <4>2
    <3> QED
      BY <3>2, <3>3
  <2>10. ControlInv'
    <3>1. Called' = IF call'.op = "read" THEN Called ELSE Called'
      BY <2>1 DEF Called
    <3>2. Reading' => call'.op = "read"
      BY <2>6 DEF Reading
    <3> QED
      BY <1>0, <1>1, <2>1, <2>2, <2>6, <3>1, <3>2 DEF Inv, ControlInv
  <2>11. TokenInv'
    <3>1. call'.op = "read" => Called' = Called
      BY <2>1 DEF Called
    <3>2. \A t \in Token : awaiting'[t] > 0 => awaiting[t] > 0 \/ t = call.t
      BY <2>4
    <3>3. call.t < next_token /\ Called \in held
      BY <1>0, <1>1 DEF Inv, TokenInv
    <3>4. /\ \A d \in Cursor : d[1] > gen => outstanding'[d] = outstanding[d]
      BY <1>1, <2>0, Types DEF Cur
    <3> QED
      BY <1>0, <1>1, <2>0, <2>6, <3>1, <3>2, <3>3, <3>4, Types DEF Inv, TokenInv, Cur
  <2> QED
    BY <2>7, <2>8, <2>9, <2>10, <2>11 DEF Inv
<1>3. CASE ~WantsBatch(c, outstanding[c])
  <2>0. UNCHANGED <<outstanding, sock, awaiting>>
    BY <1>3 DEF GetNextRead
  <2>1. CASE call'.op = "idle"
    BY <1>0, <2>0, <2>1, InvKeep
  <2>2. CASE sock = "open" /\ call'.op = "read" /\ call'.g = call.g /\ call'.t = call.t
    <3>1. Called' = c /\ call'.op \notin RunOps \cup CloseOps
      BY <2>2 DEF Called, RunOps, CloseOps
    <3>2. StaleCursorInert' /\ NoUnexpectedResponse' /\ RequestsAccounted'
      BY <1>0, <2>0 DEF Inv, StaleCursorInert, NoUnexpectedResponse, RequestsAccounted, Cur
    <3>3. ControlInv'
      BY <1>0, <1>1, <2>0, <2>2, <3>1 DEF Inv, ControlInv
    <3>4. TokenInv'
      BY <1>0, <2>0, <2>2, <3>1 DEF Inv, TokenInv, Cur
    <3> QED
      BY <3>2, <3>3, <3>4 DEF Inv
  <2> QED
    BY <1>3, <2>1, <2>2, ReturnOp DEF GetNextRead, Block
<1> QED
  BY <1>2, <1>3

LEMMA InvGetNext == TypeOK /\ TypeOK' /\ Inv /\ GetNext => Inv'
<1> SUFFICES ASSUME TypeOK, TypeOK', Inv, GetNext PROVE Inv'
  OBVIOUS
<1> USE DEF connVars, instVars, cursorVars, srvVars
<1>1. CASE GetNextItem
  BY <1>1, ReturnOp, InvKeep DEF GetNextItem, RunOps, CloseOps
<1>2. CASE GetNextError
  <2>1. call'.op = "idle"
    BY <1>2, ReturnOp, Zenon DEF GetNextError
  <2> QED
    BY <1>2, <2>1, InvKeep DEF GetNextError, RunOps, CloseOps
<1>3. CASE GetNextRead
  BY <1>3, InvGetNextRead
<1> QED
  BY <1>1, <1>2, <1>3 DEF GetNext

(* A frame for a cached cursor: one answer less is owed, and one request   *)
(* less is outstanding, unless the next CONTINUE has taken its place.      *)
LEMMA InvReadCursorFrame ==
    ASSUME TypeOK, TypeOK', Inv, NEW t \in Token, NEW r \in Response, ReadCursorFrame(t, r)
    PROVE  Inv'
<1> USE DEF connVars
<1> DEFINE c    == Cur(t)
           n    == outstanding[c] - 1
           left == [awaiting EXCEPT ![t] = @ - 1]
<1>0. /\ Reading /\ sock = "open" /\ awaiting[t] > 0 /\ t \in cached /\ MayAnswer(c, r)
      /\ UNCHANGED <<instance, next_token, gen, closing, held, link>>
  BY ArrivesOwed DEF ReadCursorFrame, ForCursor, Inv, ControlInv
<1>1. /\ ~closing /\ instance = gen /\ call.op \notin CloseOps
      /\ error[c] # "Absent" /\ c \in Cursor
      /\ \A s \in Token : s # t => Cur(s) # c
      /\ t < next_token
  BY <1>0, Types DEF Inv, ControlInv, TokenInv, Cur
<1>2. /\ outstanding[c] \in Int /\ awaiting[t] \in Nat /\ awaiting[t] <= outstanding[c]
      /\ link = "up" => awaiting[t] = outstanding[c]
      /\ error[c] # "Stopped" => outstanding[c] <= 1
  BY <1>0, <1>1, Types DEF Inv, RequestsAccounted
<1>3. CASE /\ outstanding' = [outstanding EXCEPT ![c] = IF WantsBatch(c, n) THEN 1 ELSE n]
           /\ awaiting' = IF WantsBatch(c, n) THEN Deliver(left, t) ELSE left
           /\ ExtendInternal(c, r, outstanding'[c])
           /\ IF call.op = "read" /\ call.t = t
              THEN Block("check", call.g, call.t, call.deadline)
              ELSE UNCHANGED <<call, ret>>
           /\ UNCHANGED sock
  <2>1. /\ \A s \in Token : s # t => awaiting'[s] = awaiting[s]
        /\ awaiting'[t] = IF WantsBatch(c, n) /\ link = "up" THEN awaiting[t] ELSE awaiting[t] - 1
    BY <1>3, Types DEF Deliver
  <2>2. /\ outstanding'[c] = IF WantsBatch(c, n) THEN 1 ELSE n
        /\ \A d \in Cursor : d # c => outstanding'[d] = outstanding[d]
    <3> HIDE DEF c, n
    <3> QED
      BY <1>1, <1>3, Types
  <2>3. /\ \A d \in Cursor : d # c => error'[d] = error[d]
        /\ error'[c] # "Absent"
        /\ error'[c] = "None" => error[c] = "None"
        /\ error'[c] = "Stopped" <=> error[c] = "Stopped"
    <3>1. \/ error'[c] = error[c] /\ error[c] # "None"
          \/ error'[c] \in {"None", "Empty", "Server"} /\ error[c] = "None"
      BY <1>1, <1>3, Types DEF ExtendInternal
    <3>2. \A d \in Cursor : d # c => error'[d] = error[d]
      BY <1>1, <1>3, Types DEF ExtendInternal
    <3> QED
      BY <1>1, <3>1, <3>2
  <2>4. /\ cached' = IF outstanding'[c] = 0 /\ error'[c] # "None" THEN cached \ {t} ELSE cached
    BY <1>3 DEF ExtendInternal, Cur
  <2>5. WantsBatch(c, n) => outstanding[c] = 1
    BY <1>2 DEF WantsBatch
  <2>6. /\ awaiting'[t] <= outstanding'[c] /\ awaiting'[t] \in Nat
        /\ link = "up" => awaiting'[t] = outstanding'[c]
        /\ error'[c] # "Stopped" => outstanding'[c] <= 1
    <3>1. CASE WantsBatch(c, n)
      BY <1>0, <1>2, <2>1, <2>2, <2>5, <3>1
    <3>2. CASE ~WantsBatch(c, n)
      BY <1>0, <1>2, <2>1, <2>2, <2>3, <3>2
    <3> QED
      BY <3>1, <3>2
  <2>7. StaleCursorInert'
    <3>1. \A d \in Cursor : d # c /\ d[1] = gen => d[2] # t
      BY DEF Cur, Cursor
    <3> QED
      BY <1>0, <1>1, <2>3, <2>4, <3>1 DEF Inv, StaleCursorInert
  <2>8. /\ call'.op \notin CloseOps /\ (call'.op \in RunOps => call' = call)
        /\ call'.op = "read" => call' = call /\ call.t # t
        /\ call'.op = "check" => call'.g = call.g /\ call'.t = call.t
        /\ call.op \in RunOps => call' = call
    BY <1>0, <1>1, <1>3 DEF Block, RunOps, CloseOps
  <2>9. NoUnexpectedResponse'
    <3> SUFFICES ASSUME NEW s \in Token, awaiting'[s] > 0, s \notin cached'
                 PROVE  call'.op \in RunOps /\ s = call'.t
      BY DEF NoUnexpectedResponse
    <3>1. s # t
      BY <1>0, <2>4, <2>6
    <3> QED
      BY <1>1, <2>1, <2>4, <2>8, <3>1 DEF Inv, NoUnexpectedResponse
  <2>10. RequestsAccounted'
    <3> SUFFICES ASSUME NEW s \in cached'
                 PROVE  /\ awaiting'[s] <= outstanding'[Cur(s)]
                        /\ link = "up" => awaiting'[s] = outstanding'[Cur(s)]
                        /\ outstanding'[Cur(s)] = 0 => error'[Cur(s)] = "None"
                        /\ error'[Cur(s)] # "Stopped" => outstanding'[Cur(s)] <= 1
      BY <1>0 DEF RequestsAccounted, Cur
    <3>1. s \in cached /\ s \in Token /\ Cur(s) \in Cursor
      BY <2>4, Types
    <3>2. CASE s = t
      BY <2>4, <2>6, <3>2
    <3>3. CASE s # t
      BY <1>0, <1>1, <2>1, <2>2, <2>3, <3>1, <3>3 DEF Inv, RequestsAccounted
    <3> QED
      BY <3>2, <3>3
  <2>11. ControlInv'
    <3>1. call'.op = "read" => call'.g = gen /\ error'[Called'] = "None"
      <4> SUFFICES ASSUME call'.op = "read"
                   PROVE  call'.g = gen /\ error'[Called'] = "None"
        OBVIOUS
      <4>1. call' = call /\ call.t # t /\ call.g = gen /\ error[Called] = "None" /\ Called \in Cursor
        BY <2>8, Types DEF Inv, ControlInv
      <4>2. Called' = Called /\ Called # c
        BY <4>1 DEF Called, Cur
      <4> QED
        BY <2>3, <4>1, <4>2
    <3> QED
      BY <1>0, <1>1, <1>3, <2>8, <3>1 DEF Inv, ControlInv
  <2>12. TokenInv'
    <3>1. call'.op \in RunOps => /\ call'.t < next_token /\ call'.t \notin cached'
                                 /\ error'[Cur(call'.t)] = "Absent" /\ awaiting'[call'.t] <= 1
      <4> SUFFICES ASSUME call'.op \in RunOps
                   PROVE  /\ call'.t < next_token /\ call'.t \notin cached'
                          /\ error'[Cur(call'.t)] = "Absent" /\ awaiting'[call'.t] <= 1
        OBVIOUS
      <4>1. /\ call' = call /\ call.t < next_token /\ call.t \notin cached
            /\ error[Cur(call.t)] = "Absent" /\ awaiting[call.t] <= 1 /\ call.t \in Token
        BY <2>8, Types DEF Inv, TokenInv
      <4>2. call.t # t
        BY <1>0, <4>1
      <4> QED
        BY <1>1, <2>1, <2>3, <2>4, <4>1, <4>2, Types
    <3>2. \A s \in Token : s \in cached' \/ (awaiting'[s] > 0 /\ ~closing) => s < next_token
      BY <1>1, <2>1, <2>4 DEF Inv, TokenInv
    <3>3. \A d \in Cursor : d[1] > gen => error'[d] = "Absent" /\ outstanding'[d] = 0
      <4>1. c[1] = gen /\ gen \in Nat
        BY Types DEF Cur
      <4> QED
        BY <2>2, <2>3, <4>1 DEF Inv, TokenInv
    <3>4. \A s \in Token : instance = gen /\ s >= next_token => error'[Cur(s)] = "Absent"
      BY <1>1, <2>3, Types DEF Inv, TokenInv
    <3>5. \A s \in cached' : error'[Cur(s)] # "Absent"
      BY <1>1, <2>3, <2>4, Types DEF Inv, TokenInv
    <3>6. \A d \in held : error'[d] # "Absent"
      BY <2>3, Types DEF Inv, TokenInv
    <3>7. call'.op \in {"check", "read"} => Called' \in held
      <4> SUFFICES ASSUME call'.op \in {"check", "read"} PROVE Called' \in held
        OBVIOUS
      <4>1. Called' = Called
        BY <2>8 DEF Called
      <4> QED
        BY <1>0, <1>3, <4>1 DEF Inv, TokenInv, Reading, RunOps, CloseOps
    <3> QED
      BY <1>0, <3>1, <3>2, <3>3, <3>4, <3>5, <3>6, <3>7 DEF TokenInv, Cur
  <2> QED
    BY <2>7, <2>9, <2>10, <2>11, <2>12 DEF Inv
<1>4. CASE /\ SocketClose /\ Return("ReqlDriverError")
           /\ UNCHANGED <<outstanding, threshold, items, error, cached>>
  BY <1>0, <1>1, <1>4, ReturnOp, InvKeep DEF SocketClose, RunOps, CloseOps
<1> QED
  BY <1>3, <1>4 DEF ReadCursorFrame

(* A new cursor: the answer to its START is read, its CONTINUE is out.     *)
LEMMA InvReadStream ==
    ASSUME TypeOK, TypeOK', Inv, NEW t \in Token, NEW r \in Response, ReadStream(t, r)
    PROVE  Inv'
<1> USE DEF connVars
<1> DEFINE c    == Cur(t)
           left == [awaiting EXCEPT ![t] = @ - 1]
<1>0. /\ call.op = "start" /\ call.op \in RunOps /\ sock = "open" /\ awaiting[t] > 0 /\ t = call.t
      /\ UNCHANGED <<instance, next_token, gen, closing, link>>
      /\ call'.op = "idle" /\ ~Reading' /\ call'.op \notin RunOps \cup CloseOps
  BY ReturnOp, ArrivesOwed DEF ReadStream, ForCall, Inv, ControlInv, Reading, RunOps
<1>1. /\ ~closing /\ instance = gen /\ t \in Token /\ c \in Cursor
      /\ t < next_token /\ t \notin cached /\ error[c] = "Absent" /\ awaiting[t] <= 1
      /\ \A s \in Token : s # t => Cur(s) # c
  BY <1>0, Types, OpenIsAttached DEF Inv, TokenInv, Cur, RunOps, CloseOps
<1>2. left[t] = 0 /\ \A s \in Token : s # t => left[s] = awaiting[s]
  BY <1>0, <1>1, Types
<1>3. /\ outstanding'[c] = 1 /\ \A d \in Cursor : d # c => outstanding'[d] = outstanding[d]
      /\ error'[c] \in {"None", "Empty"} /\ \A d \in Cursor : d # c => error'[d] = error[d]
      /\ cached' = cached \cup {t} /\ (held' = held \/ held' = held \cup {c})
  <2> HIDE DEF c
  <2> QED
    BY <1>0, <1>1, Types DEF ReadStream, c
<1>4. \/ /\ sock' = "open" /\ awaiting'[t] = (IF link = "up" THEN 1 ELSE 0)
         /\ \A s \in Token : s # t => awaiting'[s] = awaiting[s]
      \/ /\ sock' = "closed" /\ \A s \in Token : awaiting'[s] = 0
         /\ awaiting' = NoneAwaiting
  BY <1>0, <1>1, <1>2, Types DEF ReadStream, SocketClose, NoneAwaiting, Deliver
<1>5. StaleCursorInert'
  BY <1>0, <1>1, <1>3, Types DEF Inv, StaleCursorInert, Cur
<1>6. NoUnexpectedResponse'
  BY <1>0, <1>1, <1>3, <1>4 DEF Inv, NoUnexpectedResponse
<1>7. RequestsAccounted'
  <2> SUFFICES ASSUME NEW s \in cached'
               PROVE  /\ awaiting'[s] <= outstanding'[Cur(s)]
                      /\ link = "up" /\ sock' = "open" => awaiting'[s] = outstanding'[Cur(s)]
                      /\ outstanding'[Cur(s)] = 0 /\ sock' = "open" => error'[Cur(s)] = "None"
                      /\ error'[Cur(s)] # "Stopped" => outstanding'[Cur(s)] <= 1
    BY <1>0 DEF RequestsAccounted, Cur
  <2>1. CASE s = t
    BY <1>1, <1>3, <1>4, <2>1
  <2>2. CASE s # t
    <3>1. /\ s \in cached /\ s \in Token /\ Cur(s) \in Cursor /\ Cur(s) # c
          /\ awaiting[s] \in Nat /\ outstanding[Cur(s)] \in Int
      BY <1>1, <1>3, <2>2, Types
    <3>2. outstanding'[Cur(s)] = outstanding[Cur(s)] /\ error'[Cur(s)] = error[Cur(s)]
      BY <1>3, <3>1
    <3> QED
      BY <1>0, <1>4, <2>2, <3>1, <3>2 DEF Inv, RequestsAccounted
  <2> QED
    BY <2>1, <2>2
<1>8. ControlInv'
  BY <1>0, <1>1, <1>4 DEF Inv, ControlInv
<1>9. TokenInv'
  <2>1. \A d \in Cursor : d[1] > gen => error'[d] = "Absent" /\ outstanding'[d] = 0
    <3>1. c[1] = gen /\ gen \in Nat
      BY Types DEF Cur
    <3> QED
      BY <1>3, <3>1 DEF Inv, TokenInv
  <2>2. \A s \in Token : s \in cached' \/ (awaiting'[s] > 0 /\ ~closing) => s < next_token
    BY <1>1, <1>3, <1>4 DEF Inv, TokenInv
  <2>3. \A s \in Token : instance = gen /\ s >= next_token => error'[Cur(s)] = "Absent"
    BY <1>1, <1>3, Types DEF Inv, TokenInv
  <2>4. \A s \in cached' : error'[Cur(s)] # "Absent"
    BY <1>1, <1>3, Types DEF Inv, TokenInv
  <2>5. \A d \in held' : error'[d] # "Absent"
    BY <1>3, Types DEF Inv, TokenInv
  <2> QED
    BY <1>0, <2>1, <2>2, <2>3, <2>4, <2>5 DEF TokenInv, Cur
<1> QED
  BY <1>5, <1>6, <1>7, <1>8, <1>9 DEF Inv

(* The answer to a query without a cursor is the last one of its token.    *)
LEMMA InvReadAnswer ==
    ASSUME TypeOK, TypeOK', Inv, call.op \in RunOps, awaiting[call.t] > 0,
           awaiting' = [awaiting EXCEPT ![call.t] = @ - 1], call'.op = "idle",
           UNCHANGED <<connVars, instVars, cursorVars, link, sent, done, unacked>>
    PROVE  Inv'
<1> USE DEF connVars, instVars, cursorVars
<1>0. /\ call'.op \notin RunOps \cup CloseOps /\ ~Reading' /\ call.op \notin CloseOps
      /\ sock = "open" /\ call.t \in Token
  BY Types DEF Inv, ControlInv, Reading, RunOps, CloseOps
<1>1. /\ awaiting'[call.t] = 0 /\ call.t \notin cached
      /\ \A s \in Token : s # call.t => awaiting'[s] = awaiting[s]
  BY <1>0, Types DEF Inv, TokenInv
<1>2. StaleCursorInert' /\ NoUnexpectedResponse'
  BY <1>0, <1>1 DEF Inv, StaleCursorInert, NoUnexpectedResponse
<1>3. RequestsAccounted'
  BY <1>1, Types DEF Inv, RequestsAccounted, Cur
<1>4. ControlInv'
  BY <1>0 DEF Inv, ControlInv
<1>5. TokenInv'
  BY <1>0, <1>1, Types DEF Inv, TokenInv, Cur
<1> QED
  BY <1>2, <1>3, <1>4, <1>5 DEF Inv

LEMMA InvRead == TypeOK /\ TypeOK' /\ Inv /\ Read => Inv'
<1> SUFFICES ASSUME TypeOK, TypeOK', Inv, Read PROVE Inv'
  OBVIOUS
<1> USE DEF connVars, instVars, cursorVars
<1>1. ASSUME NEW t \in Token, NEW r \in Response, ReadCursorFrame(t, r)
      PROVE  Inv'
  BY <1>1, InvReadCursorFrame
<1>2. ASSUME NEW t \in Token, NEW r \in Response, ReadStream(t, r)
      PROVE  Inv'
  BY <1>2, InvReadStream
<1>3. ASSUME NEW t \in Token, ReadValue(t) \/ ReadServerInfo(t) \/ ReadWaitComplete(t)
      PROVE  Inv'
  <2>1. call.op \in RunOps /\ call'.op = "idle"
    BY <1>3, ReturnOp DEF ReadValue, ReadServerInfo, ReadWaitComplete, RunOps
  <2>2. /\ awaiting[t] > 0 /\ t = call.t /\ awaiting' = [awaiting EXCEPT ![t] = @ - 1]
        /\ UNCHANGED <<connVars, instVars, cursorVars, link, sent, done, unacked>>
    BY <1>3, ArrivesOwed DEF ReadValue, ReadServerInfo, ReadWaitComplete, ForCall, Take
  <2> QED
    BY <2>1, <2>2, InvReadAnswer
<1>4. ASSUME NEW t \in Token, CloseCompletes(t)
      PROVE  Inv'
  <2>1. call'.op = "idle" /\ call.op \in CloseOps /\ call.op \notin RunOps /\ sock = "open"
    BY <1>4, ReturnOp DEF CloseCompletes, Inv, ControlInv, Reading, RunOps, CloseOps
  <2> QED
    BY <1>4, <2>1, InvKeep DEF CloseCompletes, SocketClose
<1>5. ASSUME NEW t \in Token, ReconnectCompletes(t)
      PROVE  Inv'
  <2> PICK ok \in BOOLEAN : Connect(ok) /\ Return(IF ok THEN "connected" ELSE "ReqlDriverError")
    BY <1>5 DEF ReconnectCompletes
  <2>1. cached' = {} /\ held' = held /\ UNCHANGED <<error, outstanding>> /\ closing
    BY <1>5 DEF ReconnectCompletes, Inv, ControlInv, CloseOps
  <2>2. \A c \in Cursor : error[c] # "None"
    BY <2>1 DEF Inv, StaleCursorInert
  <2> QED
    BY <2>1, <2>2, ReturnOp, InvConnect
<1>6. ASSUME NEW t \in Token, SkipWhileClosing(t)
      PROVE  Inv'
  <2>1. closing /\ cached = {} /\ sock = "open" /\ call.op \in CloseOps /\ call.op \notin RunOps
    BY <1>6 DEF SkipWhileClosing, Inv, ControlInv, RunOps, CloseOps
  <2>0. awaiting' = [awaiting EXCEPT ![t] = @ - 1]
    BY <1>6 DEF SkipWhileClosing, Take
  <2>2. StaleCursorInert' /\ NoUnexpectedResponse' /\ RequestsAccounted'
    BY <1>6, <2>0, <2>1
       DEF SkipWhileClosing, Inv, StaleCursorInert, NoUnexpectedResponse, RequestsAccounted
  <2>3. ControlInv'
    BY <1>6, <2>0, <2>1 DEF SkipWhileClosing, Inv, ControlInv, Reading, Called
  <2>4. TokenInv'
    BY <1>6, <2>0, <2>1 DEF SkipWhileClosing, Inv, TokenInv, Cur, Called
  <2> QED
    BY <2>2, <2>3, <2>4 DEF Inv
<1>7. CASE ConnectionLost
  <2>1. call'.op = "idle" /\ sock = "open" /\ link = "down"
    BY <1>7, ReturnOp DEF ConnectionLost, Inv, ControlInv
  <2> QED
    BY <1>7, <2>1, InvKeep DEF ConnectionLost, SocketClose
<1> QED
  BY <1>1, <1>2, <1>3, <1>4, <1>5, <1>6, <1>7 DEF Read

LEMMA InvDisturbance == TypeOK /\ TypeOK' /\ Inv /\ (Disturbance \/ ExecuteNoreply) => Inv'
<1> SUFFICES ASSUME TypeOK, TypeOK', Inv, Disturbance \/ ExecuteNoreply PROVE Inv'
  OBVIOUS
<1> USE DEF connVars, instVars, cursorVars, srvVars
<1>1. ASSUME NEW t \in Token, UnexpectedResponse(t)
      PROVE  Inv'
  <2>1. sock = "open" /\ instance # 0 /\ call'.op = "idle" /\ ErrorCursors
    BY <1>1, ReturnOp DEF UnexpectedResponse, Inv, ControlInv
  <2> QED
    BY <1>1, <2>1, InvErrorCursors, InvDetached DEF UnexpectedResponse, SocketClose
<1>2. CASE ReadTimeout
  <2>1. call'.op = "idle" /\ call.op \notin RunOps \cup CloseOps
    BY <1>2, ReturnOp DEF ReadTimeout, RunOps, CloseOps
  <2> QED
    BY <1>2, <2>1, InvKeep DEF ReadTimeout
<1>3. CASE KeyboardInterrupt
  <2> PICK ok \in BOOLEAN :
          Connect(ok) /\ Return(IF ok THEN "KeyboardInterrupt" ELSE "ReqlDriverError")
    BY <1>3 DEF KeyboardInterrupt
  <2>1. ErrorCursors /\ call'.op = "idle"
    BY <1>3, ReturnOp DEF KeyboardInterrupt
  <2> QED
    BY <2>1, InvErrorCursors, InvConnect
<1>4. CASE Drop \/ ExecuteNoreply
  <2>1. UNCHANGED <<connVars, instVars, cursorVars, awaiting, call, ret>> /\ link' \in {link, "down"}
    BY <1>4 DEF Drop, ExecuteNoreply
  <2> QED
    BY <2>1 DEF Inv, StaleCursorInert, NoUnexpectedResponse, RequestsAccounted, ControlInv, TokenInv,
                Cur, Called, Reading
<1> QED
  BY <1>1, <1>2, <1>3, <1>4 DEF Disturbance

LEMMA NetInvStep == NetInv /\ [Next]_vars => NetInv'
<1> SUFFICES ASSUME TypeOK, Inv, [Next]_vars PROVE TypeOK' /\ Inv'
  <2>1. NetInv <=> TypeOK /\ Inv
    BY DEF NetInv, Inv
  <2>2. NetInv' <=> TypeOK' /\ Inv'
    BY DEF NetInv, Inv
  <2> QED
    BY <2>1, <2>2
<1>1. TypeOK'
  BY TypeStep
<1>2. CASE Next
  BY <1>1, <1>2, InvUserCall, InvGetNext, InvRead, InvDisturbance DEF Next
<1>3. CASE UNCHANGED vars
  <2> USE <1>3 DEF vars, connVars, instVars, cursorVars, srvVars, Inv
  <2>1. StaleCursorInert' /\ NoUnexpectedResponse'
    BY DEF StaleCursorInert, NoUnexpectedResponse
  <2>2. RequestsAccounted'
    BY DEF RequestsAccounted, Cur
  <2>3. ControlInv'
    BY DEF ControlInv, Called, Reading
  <2>4. TokenInv'
    BY DEF TokenInv, Cur, Called
  <2> QED
    BY <1>1, <2>1, <2>2, <2>3, <2>4
<1> QED
  BY <1>1, <1>2, <1>3

(* NetInv is an invariant of the driver, for any number of connections,    *)
(* tokens, rows and noreply queries.                                       *)
THEOREM NetInvariant == Spec => []NetInv
<1>1. Init => NetInv
  BY TypeInit, InvInit DEF NetInv, Inv
<1>2. NetInv /\ [Next]_vars => NetInv'
  BY NetInvStep
<1> QED
  BY <1>1, <1>2, PTL DEF Spec

(* A cursor that may still ask for rows belongs to the open instance.      *)
THEOREM StaleCursors == Spec => []StaleCursorInert
<1>1. NetInv => StaleCursorInert
  BY DEF NetInv
<1> QED
  BY <1>1, NetInvariant, PTL

(* No answer of the server is ever taken for a corrupted one.              *)
THEOREM ExpectedResponses == Spec => []NoUnexpectedResponse
<1>1. NetInv => NoUnexpectedResponse
  BY DEF NetInv
<1> QED
  BY <1>1, NetInvariant, PTL

(* outstanding_requests counts exactly the answers a cursor is owed.       *)
THEOREM Accounting == Spec => []RequestsAccounted
<1>1. NetInv => RequestsAccounted
  BY DEF NetInv
<1> QED
  BY <1>1, NetInvariant, PTL

-----------------------------------------------------------------------------
(* The rows of the cursors.  A cursor that does not exist has had none;    *)
(* the rows one holds follow those it has handed out without a gap.        *)
Untouched(c) == items[c] = <<>> /\ got[c] = 0 /\ sent[c] = 0 /\ ~done[c]
Gapless(c) == \A i \in 1 .. Len(items[c]) : items[c][i] = got[c] + i
StreamInv == /\ \A c \in Cursor : Gapless(c) /\ (error[c] = "Absent" => Untouched(c))
             /\ NoRowLost

StreamVars == <<error, items, got, sent, done>>

LEMMA StreamInit == Init => StreamInv
<1> SUFFICES ASSUME Init, NEW c \in Cursor
             PROVE  Gapless(c) /\ error[c] = "Absent" /\ Untouched(c)
  BY DEF StreamInv, NoRowLost
<1> QED BY DEF Init, Gapless, Untouched

(* What a step can do to them.                                             *)
LEMMA StreamCases ==
  ASSUME TypeOK, Inv, [Next]_vars
  PROVE  \/ /\ UNCHANGED StreamVars
            /\ sock' = "open" => sock = "open" \/ \A c \in Cursor : error[c] # "None"
         \/ GetNextItem
         \/ \E c \in Cursor : CursorClose(c)
         \/ ErrorCursors /\ UNCHANGED <<sent, done>>
         \/ \E t \in Token, r \in Response : ReadCursorFrame(t, r)
         \/ \E t \in Token, r \in Response : ReadStream(t, r)
<1> USE DEF StreamVars
<1>0. instance = 0 => \A c \in Cursor : error[c] # "None"
  BY Types DEF Inv, StaleCursorInert
<1>1. CASE Refused \/ Start \/ StartNoreply \/ NoreplyWaitOrServer \/ CloseDetached
           \/ \E c \in Cursor, deadline \in BOOLEAN : NextCall(c, deadline)
  BY <1>1 DEF Refused, Start, StartNoreply, NoreplyWaitOrServer, CloseDetached, NextCall,
       SendAndBlock, SocketClose, connVars, instVars, cursorVars, srvVars
<1>2. CASE ReconnectDetached \/ \E t \in Token : ReconnectCompletes(t)
  <2>1. instance = 0
    BY <1>2 DEF ReconnectDetached, ReconnectCompletes, Inv, ControlInv, CloseOps
  <2> QED BY <1>0, <1>2, <2>1 DEF ReconnectDetached, ReconnectCompletes, Connect, cursorVars
<1>3. CASE \E op \in CloseOps, noreply_wait \in BOOLEAN : CloseCall(op, noreply_wait)
  BY <1>3 DEF CloseCall, Connect, srvVars
<1>4. CASE GetNextError \/ GetNextRead
  BY <1>4 DEF GetNextError, GetNextRead, SocketClose, connVars, instVars, cursorVars, srvVars
<1>5. CASE \/ \E t \in Token : ReadValue(t) \/ ReadServerInfo(t) \/ ReadWaitComplete(t)
           \/ \E t \in Token : CloseCompletes(t) \/ SkipWhileClosing(t)
           \/ ConnectionLost
  BY <1>5 DEF ReadValue, ReadServerInfo, ReadWaitComplete, CloseCompletes, ConnectionLost,
       SkipWhileClosing, SocketClose, instVars, cursorVars
<1>6. CASE KeyboardInterrupt \/ \E t \in Token : UnexpectedResponse(t)
  BY <1>6 DEF KeyboardInterrupt, UnexpectedResponse, Connect
<1>7. CASE ReadTimeout \/ Drop \/ ExecuteNoreply \/ UNCHANGED vars
  BY <1>7 DEF ReadTimeout, Drop, ExecuteNoreply, vars, instVars, cursorVars, srvVars
<1> QED BY <1>1, <1>2, <1>3, <1>4, <1>5, <1>6, <1>7
       DEF Next, UserCall, GetNext, Read, Disturbance

(* Every live cursor fails, and no other.                                  *)
LEMMA AllFail ==
  ASSUME TypeOK, Inv, ErrorCursors
  PROVE  \A c \in Cursor : error'[c] = IF error[c] = "None" THEN "Runtime" ELSE error[c]
BY DEF ErrorCursors, Inv, StaleCursorInert

(* Rows that arrive behind those that are there.                           *)
LEMMA RowsBehind ==
  ASSUME TypeOK, NEW c \in Cursor, NEW r \in Response, Gapless(c), got[c] + Len(items[c]) = sent[c]
  PROVE  LET all == items[c] \o Rows(c, r)
         IN  /\ Len(all) = Len(items[c]) + r.rows
             /\ \A i \in 1 .. Len(all) : all[i] = got[c] + i
<1> DEFINE new == Rows(c, r)
           all == items[c] \o new
<1>1. items[c] \in Seq(Nat) /\ new \in Seq(Nat) /\ r.rows \in Nat /\ got[c] \in Nat
  BY RowsType DEF TypeOK
<1>2. /\ Len(new) = r.rows /\ Len(items[c]) \in Nat
      /\ \A i \in 1 .. r.rows : new[i] = sent[c] + i
  BY <1>1 DEF Rows
<1> HIDE DEF new
<1>3. /\ Len(all) = Len(items[c]) + r.rows
      /\ \A i \in 1 .. Len(all) : all[i] = IF i <= Len(items[c]) THEN items[c][i]
                                           ELSE new[i - Len(items[c])]
  <2>1. /\ Len(all) = Len(items[c]) + Len(new)
        /\ \A i \in 1 .. Len(items[c]) + Len(new) :
             all[i] = IF i <= Len(items[c]) THEN items[c][i] ELSE new[i - Len(items[c])]
    BY <1>1, ConcatProperties, Zenon
  <2> HIDE DEF all
  <2> QED BY <1>2, <2>1
<1> HIDE DEF all
<1>4. ASSUME NEW i \in 1 .. Len(all) PROVE all[i] = got[c] + i
  <2>1. CASE i <= Len(items[c])
    <3>1. i \in 1 .. Len(items[c])
      BY <1>2, <1>3, <2>1
    <3> QED BY <1>3, <2>1, <3>1 DEF Gapless
  <2>2. CASE i > Len(items[c])
    <3>1. i - Len(items[c]) \in 1 .. r.rows /\ i \in Nat /\ ~(i <= Len(items[c]))
      BY <1>1, <1>2, <1>3, <2>2
    <3>2. all[i] = sent[c] + (i - Len(items[c]))
      BY <1>2, <1>3, <3>1
    <3> QED BY <1>1, <1>2, <3>1, <3>2
  <2> QED BY <1>2, <1>3, <2>1, <2>2
<1> QED BY <1>3, <1>4 DEF all, new

(* A response of a stream: its rows arrive and may end the stream, or they *)
(* do not, because the cursor has ended or the connection goes with them.  *)
Ending(r) == CASE r.type = "SUCCESS_PARTIAL"  -> "None"
               [] r.type = "SUCCESS_SEQUENCE" -> "Empty"
               [] OTHER                       -> "Server"
Arrives(c, r) ==
  /\ error[c] \in {"Absent", "None"} /\ got[c] + Len(items[c]) = sent[c]
  /\ items' = [items EXCEPT ![c] = @ \o Rows(c, r)]
  /\ error' = [error EXCEPT ![c] = Ending(r)]
Misses(c) ==
  /\ items' = items
  /\ \/ error[c] \notin {"Absent", "None"} /\ error' = error
     \/ error[c] = "None" /\ error' = error /\ sock' = "closed"
     \/ error[c] = "Absent" /\ error' = [error EXCEPT ![c] = "None"] /\ sock' = "closed"

LEMMA FrameCases ==
  ASSUME TypeOK, Inv, StreamInv,
         \E t \in Token, r \in Response : ReadCursorFrame(t, r) \/ ReadStream(t, r)
  PROVE  /\ sock = "open"
         /\ \E c \in Cursor, r \in Response : /\ MayAnswer(c, r) /\ Answered(c, r) /\ got' = got
                                              /\ Arrives(c, r) \/ Misses(c)
<1>1. ASSUME NEW t \in Token, NEW r \in Response, ReadCursorFrame(t, r)
      PROVE  sock = "open" /\ (Arrives(Cur(t), r) \/ Misses(Cur(t)))
  <2> DEFINE c == Cur(t)
             n == outstanding[c] - 1
  <2>1. /\ sock = "open" /\ c \in Cursor /\ error[c] # "Absent" /\ error[c] \in CursorError
        /\ items \in [Cursor -> Seq(Nat)] /\ error \in [Cursor -> CursorError]
    BY <1>1, Types DEF ReadCursorFrame, ForCursor, Inv, ControlInv, TokenInv, TypeOK
  <2> HIDE DEF c
  <2>2. CASE \E m : ExtendInternal(c, r, m)
    <3>1. CASE error[c] = "None"
      <4>1. got[c] + Len(items[c]) = sent[c]
        BY <2>1, <3>1 DEF StreamInv, NoRowLost
      <4>2. /\ items' = [items EXCEPT ![c] = @ \o Rows(c, r)]
            /\ error' = [error EXCEPT ![c] = Ending(r)]
        BY <2>1, <2>2, <3>1 DEF ExtendInternal, Ending
      <4> QED BY <2>1, <3>1, <4>1, <4>2 DEF Arrives, c
    <3>2. CASE error[c] # "None"
      <4>1. items' = items /\ error' = error
        BY <2>1, <2>2, <3>2 DEF ExtendInternal
      <4> QED BY <2>1, <3>2, <4>1 DEF Misses, c
    <3> QED BY <3>1, <3>2
  <2>3. CASE SocketClose /\ UNCHANGED <<outstanding, threshold, items, error, cached>>
    BY <2>1, <2>3 DEF Misses, SocketClose, c
  <2> QED BY <1>1, <2>2, <2>3 DEF ReadCursorFrame, c
<1>2. ASSUME NEW t \in Token, NEW r \in Response, ReadStream(t, r)
      PROVE  sock = "open" /\ (Arrives(Cur(call.t), r) \/ Misses(Cur(call.t)))
  <2> DEFINE c == Cur(call.t)
  <2>1. /\ sock = "open" /\ c \in Cursor /\ error[c] = "Absent"
        /\ items[c] = <<>> /\ got[c] = 0 /\ sent[c] = 0
    <3>1. Reading /\ call.op \in RunOps /\ call.t \in Token
      BY <1>2, Types DEF ReadStream, Reading, RunOps
    <3>2. c \in Cursor /\ error[c] = "Absent" /\ sock = "open"
      BY <3>1, Types DEF Inv, ControlInv, TokenInv
    <3> QED BY <3>2 DEF StreamInv, Untouched
  <2>2. items[c] \o Rows(c, r) = Rows(c, r) /\ got[c] + Len(items[c]) = sent[c]
    <3>1. Rows(c, r) \in Seq(Nat)
      BY <2>1, RowsType DEF TypeOK
    <3>2. <<>> \o Rows(c, r) = Rows(c, r) /\ Len(<<>>) = 0
      BY <3>1
    <3> QED BY <2>1, <3>2
  <2> HIDE DEF c
  <2>3. CASE /\ items' = [items EXCEPT ![c] = Rows(c, r)]
             /\ error' = [error EXCEPT ![c] = IF r.type = "SUCCESS_PARTIAL" THEN "None" ELSE "Empty"]
    <3>1. items' = [items EXCEPT ![c] = @ \o Rows(c, r)]
      BY <2>2, <2>3
    <3>2. Ending(r) = IF r.type = "SUCCESS_PARTIAL" THEN "None" ELSE "Empty"
      BY <1>2 DEF ReadStream, Response, Ending
    <3> QED BY <2>1, <2>2, <2>3, <3>1, <3>2 DEF Arrives, c
  <2>4. CASE SocketClose /\ error' = [error EXCEPT ![c] = "None"] /\ items' = items
    BY <2>1, <2>4 DEF Misses, SocketClose, c
  <2> QED BY <1>2, <2>1, <2>3, <2>4 DEF ReadStream, c
<1>3. CASE \E t \in Token, r \in Response : ReadCursorFrame(t, r)
  <2>1. PICK t \in Token, r \in Response : ReadCursorFrame(t, r)
    BY <1>3
  <2> QED BY <1>1, <2>1, Types DEF ReadCursorFrame
<1>4. CASE \E t \in Token, r \in Response : ReadStream(t, r)
  <2>1. PICK t \in Token, r \in Response : ReadStream(t, r)
    BY <1>4
  <2> QED BY <1>2, <2>1, Types DEF ReadStream
<1> QED BY <1>3, <1>4

(* A row that is handed out is the next one.                               *)
LEMMA NextRow ==
  ASSUME TypeOK, StreamInv, GetNextItem
  PROVE  /\ Called \in Cursor /\ got' = [got EXCEPT ![Called] = @ + 1]
         /\ Len(items[Called]) \in Nat \ {0} /\ Len(items'[Called]) = Len(items[Called]) - 1
         /\ \A i \in 1 .. Len(items'[Called]) : items'[Called][i] = items[Called][i + 1]
         /\ \A c \in Cursor \ {Called} : items'[c] = items[c]
         /\ UNCHANGED <<error, sent, done, sock>>
<1> DEFINE c == Called
<1>1. /\ c \in Cursor /\ items[c] \in Seq(Nat) /\ items[c] # <<>>
      /\ got' = [got EXCEPT ![c] = Head(items[c])] /\ items' = [items EXCEPT ![c] = Tail(@)]
      /\ UNCHANGED <<error, sent, done, sock>>
      /\ items \in [Cursor -> Seq(Nat)]
  BY Types DEF GetNextItem, TypeOK, instVars, srvVars
<1>2. Len(items[c]) \in Nat \ {0} /\ Head(items[c]) = items[c][1]
  BY <1>1, EmptySeq
<1>3. Head(items[c]) = got[c] + 1
  BY <1>1, <1>2 DEF StreamInv, Gapless
<1>4. items'[c] = Tail(items[c]) /\ \A d \in Cursor \ {c} : items'[d] = items[d]
  BY <1>1
<1>5. /\ Len(items'[c]) = Len(items[c]) - 1
      /\ \A i \in 1 .. Len(items'[c]) : items'[c][i] = items[c][i + 1]
  BY <1>1, <1>4, HeadTailProperties
<1> QED BY <1>1, <1>2, <1>3, <1>4, <1>5

LEMMA StreamFrame ==
  ASSUME TypeOK, TypeOK', StreamInv, sock = "open", NEW c \in Cursor, NEW r \in Response,
         MayAnswer(c, r), Answered(c, r), got' = got, Arrives(c, r) \/ Misses(c)
  PROVE  StreamInv'
<1>1. /\ sent'[c] = sent[c] + r.rows /\ done'[c] = (done[c] \/ r.type # "SUCCESS_PARTIAL")
      /\ \A d \in Cursor \ {c} : sent'[d] = sent[d] /\ done'[d] = done[d]
      /\ r.rows \in Nat
  BY RowsType DEF Answered, TypeOK
<1>2. ASSUME NEW d \in Cursor \ {c}
      PROVE  items'[d] = items[d] /\ error'[d] = error[d]
  BY DEF Arrives, Misses, TypeOK
<1>3. ASSUME NEW d \in Cursor \ {c}
      PROVE  /\ Gapless(d)' /\ (error'[d] = "Absent" => Untouched(d)')
             /\ error'[d] = "None" => got'[d] + Len(items'[d]) = sent'[d]
             /\ error'[d] = "Empty" => done'[d] /\ got'[d] + Len(items'[d]) = sent'[d]
  BY <1>1, <1>2 DEF StreamInv, NoRowLost, Gapless, Untouched
<1>4. CASE Arrives(c, r)
  <2>1. items'[c] = items[c] \o Rows(c, r) /\ error'[c] = Ending(r)
    BY <1>4 DEF Arrives, TypeOK
  <2>2. Gapless(c)' /\ Len(items'[c]) = Len(items[c]) + r.rows
    BY <1>4, <2>1, RowsBehind DEF StreamInv, Gapless, Arrives
  <2>3. got'[c] + Len(items'[c]) = sent'[c]
    <3>1. /\ got[c] \in Nat /\ Len(items[c]) \in Nat /\ got'[c] = got[c]
          /\ got[c] + Len(items[c]) = sent[c]
      BY <1>4 DEF Arrives, TypeOK
    <3> HIDE <1>4
    <3> QED BY <1>1, <2>2, <3>1
  <2>4. error'[c] # "Absent" /\ (error'[c] = "Empty" => done'[c])
    BY <1>1, <2>1 DEF Ending, Response
  <2> QED BY <1>3, <2>2, <2>3, <2>4 DEF StreamInv, NoRowLost
<1>5. CASE Misses(c)
  <2>1. items'[c] = items[c] /\ Gapless(c)'
    BY <1>5 DEF Misses, StreamInv, Gapless
  <2>2. error'[c] # "Absent"
    BY <1>5 DEF Misses, TypeOK
  <2>3. error'[c] = "None" => sock' # "open"
    BY <1>5 DEF Misses, TypeOK
  <2>4. error'[c] = "Empty" => done'[c] /\ got'[c] + Len(items'[c]) = sent'[c]
    <3> SUFFICES ASSUME error'[c] = "Empty" PROVE done'[c] /\ got'[c] + Len(items'[c]) = sent'[c]
      OBVIOUS
    <3>1. error[c] = "Empty"
      BY <1>5 DEF Misses, TypeOK
    <3>2. done[c] /\ got[c] + Len(items[c]) = sent[c]
      BY <3>1 DEF StreamInv, NoRowLost
    <3>3. r.rows = 0 /\ sent[c] \in Nat
      BY <3>2 DEF MayAnswer, TypeOK
    <3>4. sent'[c] = sent[c] /\ done'[c]
      <4>1. sent'[c] = sent[c]
        BY <1>1, <3>3
      <4>2. done'[c]
        BY <1>1, <3>2, Zenon
      <4> QED BY <4>1, <4>2
    <3>5. got'[c] = got[c] /\ items'[c] = items[c]
      BY <2>1
    <3>6. got'[c] + Len(items'[c]) = sent'[c]
      BY <3>2, <3>4, <3>5
    <3> QED BY <3>4, <3>6
  <2> QED BY <1>3, <2>1, <2>2, <2>3, <2>4 DEF StreamInv, NoRowLost
<1> QED BY <1>4, <1>5

LEMMA StreamNextRow ==
  ASSUME TypeOK, TypeOK', StreamInv, GetNextItem
  PROVE  StreamInv'
<1>1. PICK c \in Cursor :
        /\ c = Called /\ got' = [got EXCEPT ![c] = @ + 1]
        /\ Len(items[c]) \in Nat \ {0} /\ Len(items'[c]) = Len(items[c]) - 1
        /\ \A i \in 1 .. Len(items'[c]) : items'[c][i] = items[c][i + 1]
        /\ \A d \in Cursor \ {c} : items'[d] = items[d]
        /\ UNCHANGED <<error, sent, done, sock>>
  BY NextRow
<1>2. got'[c] = got[c] + 1 /\ got[c] \in Nat /\ \A d \in Cursor \ {c} : got'[d] = got[d]
  BY <1>1 DEF TypeOK
<1>3. ASSUME NEW d \in Cursor \ {c}
      PROVE  /\ Gapless(d)' /\ (error'[d] = "Absent" => Untouched(d)')
             /\ error'[d] = "None" /\ sock' = "open" => got'[d] + Len(items'[d]) = sent'[d]
             /\ error'[d] = "Empty" => done'[d] /\ got'[d] + Len(items'[d]) = sent'[d]
  <2>1. /\ items'[d] = items[d] /\ got'[d] = got[d]
        /\ error' = error /\ sent' = sent /\ done' = done /\ sock' = sock
    BY <1>1, <1>2
  <2> QED BY <2>1 DEF StreamInv, NoRowLost, Gapless, Untouched
<1>4. Gapless(c)'
  <2> SUFFICES ASSUME NEW i \in 1 .. Len(items'[c])
               PROVE  items'[c][i] = got'[c] + i
    BY DEF Gapless
  <2>1. items'[c][i] = items[c][i + 1] /\ i + 1 \in 1 .. Len(items[c]) /\ i \in Nat
    BY <1>1
  <2>2. items[c][i + 1] = got[c] + (i + 1)
    BY <2>1 DEF StreamInv, Gapless
  <2> QED BY <1>2, <2>1, <2>2
<1>5. error'[c] # "Absent"
  <2>1. items[c] # <<>>
    BY <1>1 DEF GetNextItem
  <2> QED BY <1>1, <2>1 DEF StreamInv, Untouched
<1>6. got'[c] + Len(items'[c]) = got[c] + Len(items[c])
  <2> DEFINE before == Len(items[c])
             after  == Len(items'[c])
  <2>1. before \in Nat /\ after = before - 1
    BY <1>1
  <2> HIDE DEF before, after
  <2>2. got'[c] + after = got[c] + before
    BY <1>2, <2>1
  <2> QED BY <2>2 DEF before, after
<1>7. /\ error'[c] = "None" /\ sock' = "open" => got'[c] + Len(items'[c]) = sent'[c]
      /\ error'[c] = "Empty" => done'[c] /\ got'[c] + Len(items'[c]) = sent'[c]
  <2>1. error' = error /\ sent' = sent /\ done' = done /\ sock' = sock
    BY <1>1
  <2> QED BY <1>6, <2>1 DEF StreamInv, NoRowLost
<1> QED BY <1>3, <1>4, <1>5, <1>7 DEF StreamInv, NoRowLost

LEMMA StreamStep ==
  ASSUME TypeOK, TypeOK', Inv, StreamInv, [Next]_vars PROVE StreamInv'
<1>1. CASE /\ UNCHANGED StreamVars
           /\ sock' = "open" => sock = "open" \/ \A c \in Cursor : error[c] # "None"
  BY <1>1 DEF StreamVars, StreamInv, NoRowLost, Gapless, Untouched
<1>2. CASE GetNextItem
  BY <1>2, StreamNextRow
<1>3. CASE \E c \in Cursor : CursorClose(c)
  <2>1. PICK c \in Cursor : CursorClose(c)
    BY <1>3
  <2>2. /\ error[c] = "None" /\ error' = [error EXCEPT ![c] = "Stopped"]
        /\ UNCHANGED <<items, got, sent, done>> /\ (sock' = "open" => sock = "open")
    BY <2>1 DEF CursorClose, SocketClose
  <2>3. error'[c] = "Stopped" /\ \A d \in Cursor \ {c} : error'[d] = error[d]
    BY <2>2 DEF TypeOK
  <2> QED BY <2>2, <2>3 DEF StreamInv, NoRowLost, Gapless, Untouched
<1>4. CASE ErrorCursors /\ UNCHANGED <<sent, done>>
  <2>1. /\ \A c \in Cursor : error'[c] = IF error[c] = "None" THEN "Runtime" ELSE error[c]
        /\ UNCHANGED <<items, got, sent, done>>
    BY <1>4, AllFail DEF ErrorCursors
  <2> QED BY <2>1 DEF StreamInv, NoRowLost, Gapless, Untouched
<1>5. CASE \/ \E t \in Token, r \in Response : ReadCursorFrame(t, r)
           \/ \E t \in Token, r \in Response : ReadStream(t, r)
  BY <1>5, FrameCases, StreamFrame
<1> QED BY <1>1, <1>2, <1>3, <1>4, <1>5, StreamCases

(* A live cursor, and one that has ended by itself, has every row the      *)
(* server sent of its stream, and only a finished stream ends by itself:   *)
(* no interleaving of batches, prefetches, errors, close(), reconnect()    *)
(* and Ctrl-C loses a row that a cursor would still hand out.              *)
THEOREM EveryRowKept == Spec => []NoRowLost
<1>1. Init => NetInv /\ StreamInv
  BY TypeInit, InvInit, StreamInit DEF NetInv, Inv
<1>2. NetInv /\ StreamInv /\ [Next]_vars => (NetInv /\ StreamInv)'
  <2> SUFFICES ASSUME NetInv, StreamInv, [Next]_vars PROVE NetInv' /\ StreamInv'
    OBVIOUS
  <2>1. NetInv'
    BY NetInvStep
  <2>2. TypeOK /\ TypeOK' /\ Inv
    BY <2>1 DEF NetInv, Inv
  <2> QED BY <2>1, <2>2, StreamStep
<1>3. StreamInv => NoRowLost
  BY DEF StreamInv
<1> QED
  BY <1>1, <1>2, <1>3, PTL DEF Spec

-----------------------------------------------------------------------------
(* Noreply queries.  What a response with the token of a NOREPLY_WAIT      *)
(* means rests on nobody else using that token.  TokenInv says so of       *)
(* noreply_wait(); close() and reconnect() wait, too, while the requests   *)
(* of the dropped cursors are still being answered.                        *)
FlushInv == call.op \in CloseOps => awaiting[call.t] <= 1

(* A NOREPLY_WAIT of close() or reconnect() has a fresh token, and no      *)
(* later step asks for more under it.                                      *)
LEMMA FlushCases ==
  ASSUME TypeOK, Inv, [Next]_vars, call'.op \in CloseOps
  PROVE  \/ /\ call.op = "idle" /\ sock = "open"
            /\ awaiting' = Deliver(awaiting, next_token) /\ call'.t = next_token
         \/ /\ call' = call
            /\ awaiting' = awaiting \/ \E t \in Token : awaiting' = [awaiting EXCEPT ![t] = @ - 1]
<1>0. call'.op \notin {"idle", "check", "read", "start", "wait", "info"}
  BY DEF CloseOps
<1>1. CASE \/ Refused \/ Start \/ StartNoreply \/ NoreplyWaitOrServer \/ CloseDetached
           \/ ReconnectDetached \/ \E c \in Cursor : CursorClose(c)
           \/ \E c \in Cursor, deadline \in BOOLEAN : NextCall(c, deadline)
  BY <1>0, <1>1 DEF Refused, Start, StartNoreply, NoreplyWaitOrServer, CloseDetached,
       ReconnectDetached, CursorClose, NextCall, SendAndBlock, Return, Block, Idle
<1>2. CASE \E op \in CloseOps, noreply_wait \in BOOLEAN : CloseCall(op, noreply_wait)
  BY <1>0, <1>2 DEF CloseCall, Return, Block, Idle
<1>3. CASE GetNext
  <2>1. GetNextItem \/ GetNextError => call'.op = "idle"
    BY ReturnOp, Zenon DEF GetNextItem, GetNextError
  <2>2. GetNextRead => call'.op \in {"idle", "read"}
    BY ReturnOp DEF GetNextRead, Block
  <2> QED BY <1>0, <1>3, <2>1, <2>2 DEF GetNext
<1>4. CASE \/ \E t \in Token : ReadValue(t) \/ ReadServerInfo(t) \/ ReadWaitComplete(t)
           \/ \E t \in Token : CloseCompletes(t) \/ ReconnectCompletes(t) \/ UnexpectedResponse(t)
           \/ \E t \in Token, r \in Response : ReadStream(t, r)
           \/ ConnectionLost \/ ReadTimeout \/ KeyboardInterrupt
  <2>1. call'.op = "idle"
    BY <1>4, ReturnOp DEF ReadValue, ReadServerInfo, ReadWaitComplete, CloseCompletes,
         ReconnectCompletes, UnexpectedResponse, ReadStream, ConnectionLost, ReadTimeout,
         KeyboardInterrupt
  <2> QED BY <1>0, <2>1
<1>5. CASE \E t \in Token, r \in Response : ReadCursorFrame(t, r)
  <2>1. PICK t \in Token, r \in Response : ReadCursorFrame(t, r)
    BY <1>5
  <2>2. call.op \in CloseOps => cached = {}
    BY DEF Inv, ControlInv, CloseOps
  <2>3. t \in cached
    BY <2>1 DEF ReadCursorFrame, ForCursor
  <2>4. call'.op \in {"idle", "check"} \/ call' = call
    BY <2>1, ReturnOp DEF ReadCursorFrame, Block
  <2> QED BY <1>0, <2>2, <2>3, <2>4
<1>6. CASE \E t \in Token : SkipWhileClosing(t)
  BY <1>6 DEF SkipWhileClosing, Take
<1>7. CASE Drop \/ ExecuteNoreply \/ UNCHANGED vars
  BY <1>7 DEF Drop, ExecuteNoreply, vars, srvVars
<1> QED BY <1>1, <1>2, <1>3, <1>4, <1>5, <1>6, <1>7
        DEF Next, UserCall, Read, Disturbance

LEMMA FlushInvStep ==
  ASSUME TypeOK, TypeOK', Inv, FlushInv, [Next]_vars PROVE FlushInv'
<1> SUFFICES ASSUME call'.op \in CloseOps PROVE awaiting'[call'.t] <= 1
  BY DEF FlushInv
<1>1. CASE /\ call.op = "idle" /\ sock = "open"
           /\ awaiting' = Deliver(awaiting, next_token) /\ call'.t = next_token
  <2>1. ~(awaiting[next_token] > 0) /\ next_token \in Token
    BY <1>1, Types, OpenIsAttached DEF CloseOps
  <2> QED BY <1>1, <2>1, Types DEF Deliver
<1>2. CASE /\ call' = call
           /\ awaiting' = awaiting \/ \E t \in Token : awaiting' = [awaiting EXCEPT ![t] = @ - 1]
  BY <1>2, Types DEF FlushInv
<1> QED BY <1>1, <1>2, FlushCases

(* Only StartNoreply adds a noreply query, and it does not return          *)
(* "flushed"; a new connection has none; and the response that ends a      *)
(* NOREPLY_WAIT is the one answer owed to its token.                       *)
LEMMA FlushedStep ==
  ASSUME TypeOK, Inv, FlushInv, FlushedMeansExecuted, [Next]_vars
  PROVE  FlushedMeansExecuted'
<1> SUFFICES ASSUME ret' = "flushed" PROVE unacked' = 0
  BY DEF FlushedMeansExecuted
<1> USE DEF connVars, instVars, cursorVars, srvVars, Return, Block
<1>1. CASE Refused \/ Start \/ StartNoreply \/ NoreplyWaitOrServer \/ CloseDetached
           \/ \E c \in Cursor, deadline \in BOOLEAN : NextCall(c, deadline)
  BY <1>1 DEF Refused, CheckOpenError, Start, StartNoreply, NoreplyWaitOrServer, CloseDetached,
              NextCall, SendAndBlock
<1>2. CASE ReconnectDetached \/ KeyboardInterrupt \/ \E t \in Token : ReconnectCompletes(t)
  BY <1>2 DEF ReconnectDetached, ReconnectCompletes, KeyboardInterrupt, Connect
<1>3. CASE \/ \E op \in CloseOps, noreply_wait \in BOOLEAN : CloseCall(op, noreply_wait)
           \/ \E c \in Cursor : CursorClose(c)
  BY <1>3 DEF CloseCall, Connect, CursorClose
<1>4. CASE GetNext
  BY <1>4 DEF GetNext, GetNextItem, GetNextError, GetNextRead, CheckOpenError
<1>5. ASSUME NEW t \in Token, ReadWaitComplete(t) \/ CloseCompletes(t) PROVE unacked' = 0
  <2>1. /\ MayArrive(t) /\ t = call.t /\ call.op \in {"wait", "close"} /\ unacked' = unacked
    BY <1>5 DEF ReadWaitComplete, CloseCompletes, ForCall
  <2>2. awaiting[t] <= 1 /\ awaiting[t] \in Nat
    BY <2>1, Types DEF FlushInv, CloseOps, RunOps, Inv, TokenInv
  <2>3. ~(unacked > 0)
    BY <2>1, <2>2 DEF MayArrive, NoreplyWaits, CloseOps
  <2> QED BY <2>1, <2>3 DEF TypeOK
<1>6. CASE \/ ConnectionLost \/ \E t \in Token : ReadValue(t) \/ ReadServerInfo(t)
           \/ \E t \in Token : SkipWhileClosing(t) \/ UnexpectedResponse(t)
  BY <1>6 DEF ConnectionLost, ReadValue, ReadServerInfo, SkipWhileClosing, UnexpectedResponse,
       FlushedMeansExecuted
<1>7. CASE \E t \in Token, r \in Response : ReadCursorFrame(t, r) \/ ReadStream(t, r)
  BY <1>7 DEF ReadCursorFrame, ReadStream, FlushedMeansExecuted
<1>8. CASE ReadTimeout \/ Drop \/ ExecuteNoreply \/ UNCHANGED vars
  BY <1>8 DEF ReadTimeout, Drop, ExecuteNoreply, vars, FlushedMeansExecuted
<1> QED BY <1>1, <1>2, <1>3, <1>4, <1>5, <1>6, <1>7, <1>8
        DEF Next, UserCall, Read, Disturbance

(* close(noreply_wait=True) and noreply_wait() return normally only when   *)
(* no noreply query of the connection is still to be executed: with the    *)
(* invariant on tokens, what _read_response takes for the answer is the    *)
(* answer to the NOREPLY_WAIT, whatever else is owed.                      *)
THEOREM FlushedExecuted == Spec => []FlushedMeansExecuted
<1>1. Init => NetInv /\ FlushInv /\ FlushedMeansExecuted
  <2>1. Init => FlushInv /\ FlushedMeansExecuted
    BY DEF Init, Idle, FlushInv, CloseOps, FlushedMeansExecuted
  <2> QED BY <2>1, TypeInit, InvInit DEF NetInv, Inv
<1>2. NetInv /\ FlushInv /\ FlushedMeansExecuted /\ [Next]_vars
        => (NetInv /\ FlushInv /\ FlushedMeansExecuted)'
  <2> SUFFICES ASSUME NetInv, FlushInv, FlushedMeansExecuted, [Next]_vars
               PROVE  NetInv' /\ FlushInv' /\ FlushedMeansExecuted'
    OBVIOUS
  <2>1. NetInv'
    BY NetInvStep
  <2>2. TypeOK /\ TypeOK' /\ Inv
    BY <2>1 DEF NetInv, Inv
  <2> QED BY <2>1, <2>2, FlushInvStep, FlushedStep
<1> QED
  BY <1>1, <1>2, PTL DEF Spec

-----------------------------------------------------------------------------
(* A live cursor has a request on its way, or would ask for a batch; the   *)
(* one that is waited for has a request.                                   *)
WillAsk(c) == outstanding[c] >= 0 /\ (outstanding[c] > 0 \/ threshold[c] > 0)
WaitInv == /\ \A c \in Cursor : error[c] = "None" => WillAsk(c)
           /\ call.op = "read" => outstanding[Called] > 0

LEMMA WaitInit == Init => WaitInv
BY DEF Init, WaitInv, Idle

(* What a step can do to that.                                             *)
LEMMA WaitCases ==
  ASSUME TypeOK, Inv, [Next]_vars
  PROVE  \/ /\ UNCHANGED <<error, outstanding, threshold>>
            /\ call' = call \/ call'.op # "read"
         \/ GetNextRead
         \/ \E c \in Cursor : CursorClose(c)
         \/ ErrorCursors /\ call'.op # "read"
         \/ \E t \in Token, r \in Response : ReadCursorFrame(t, r)
         \/ \E t \in Token, r \in Response : ReadStream(t, r)
<1> USE DEF connVars, instVars, cursorVars, srvVars, Return, Block, Idle
<1>1. CASE Refused \/ Start \/ StartNoreply \/ NoreplyWaitOrServer \/ CloseDetached
           \/ \E c \in Cursor, deadline \in BOOLEAN : NextCall(c, deadline)
  BY <1>1 DEF Refused, Start, StartNoreply, NoreplyWaitOrServer, CloseDetached, NextCall,
       SendAndBlock
<1>2. CASE ReconnectDetached \/ \E t \in Token : ReconnectCompletes(t)
  BY <1>2 DEF ReconnectDetached, ReconnectCompletes, Connect
<1>3. CASE \E op \in CloseOps, noreply_wait \in BOOLEAN : CloseCall(op, noreply_wait)
  BY <1>3 DEF CloseCall, Connect, CloseOps
<1>4. CASE GetNextItem \/ GetNextError
  BY <1>4 DEF GetNextError, GetNextItem
<1>5. CASE \/ \E t \in Token : ReadValue(t) \/ ReadServerInfo(t) \/ ReadWaitComplete(t)
           \/ \E t \in Token : CloseCompletes(t) \/ SkipWhileClosing(t)
           \/ ConnectionLost
  BY <1>5 DEF ReadValue, ReadServerInfo, ReadWaitComplete, CloseCompletes, ConnectionLost,
       SkipWhileClosing
<1>6. CASE KeyboardInterrupt \/ \E t \in Token : UnexpectedResponse(t)
  BY <1>6 DEF KeyboardInterrupt, UnexpectedResponse
<1>7. CASE ReadTimeout \/ Drop \/ ExecuteNoreply \/ UNCHANGED vars
  BY <1>7 DEF ReadTimeout, Drop, ExecuteNoreply, vars
<1> QED BY <1>1, <1>2, <1>3, <1>4, <1>5, <1>6, <1>7
       DEF Next, UserCall, GetNext, Read, Disturbance

LEMMA WaitGetNextRead ==
  ASSUME TypeOK, TypeOK', Inv, WaitInv, GetNextRead
  PROVE  WaitInv'
<1>1. PICK c \in Cursor : c = Called
  BY DEF TypeOK, Called, Cursor
<1>2. /\ error[c] = "None" /\ items[c] = <<>> /\ UNCHANGED <<error, threshold>>
      /\ outstanding[c] \in Int /\ threshold[c] \in Nat /\ Len(<<>>) = 0
  BY <1>1 DEF GetNextRead, TypeOK
<1>3. WillAsk(c)
  BY <1>2 DEF WaitInv
<1>4. outstanding'[c] > 0 /\ \A d \in Cursor \ {c} : outstanding'[d] = outstanding[d]
  <2>1. CASE WantsBatch(c, outstanding[c])
    <3>1. outstanding' = [outstanding EXCEPT ![c] = @ + 1]
      BY <1>1, <2>1 DEF GetNextRead
    <3>2. outstanding[c] = 0
      BY <2>1 DEF WantsBatch
    <3> QED BY <3>1, <3>2 DEF TypeOK
  <2>2. CASE ~WantsBatch(c, outstanding[c])
    <3>1. outstanding' = outstanding
      BY <1>1, <2>2 DEF GetNextRead
    <3>2. outstanding[c] > 0
      BY <1>2, <1>3, <2>2 DEF WantsBatch, WillAsk
    <3> QED BY <3>1, <3>2
  <2> QED BY <2>1, <2>2
<1>5. call'.op = "read" => Called' = c
  BY <1>1 DEF GetNextRead, Block, Return, Idle, Called
<1>6. ASSUME NEW d \in Cursor, error'[d] = "None" PROVE WillAsk(d)'
  <2>1. CASE d = c
    <3>1. outstanding'[c] \in Int
      BY DEF TypeOK
    <3> QED BY <1>4, <2>1, <3>1 DEF WillAsk
  <2>2. CASE d # c
    BY <1>2, <1>4, <1>6, <2>2 DEF WaitInv, WillAsk
  <2> QED BY <2>1, <2>2
<1> QED BY <1>4, <1>5, <1>6 DEF WaitInv

LEMMA WaitCursorFrame ==
  ASSUME TypeOK, TypeOK', Inv, WaitInv, NEW t \in Token, NEW r \in Response, ReadCursorFrame(t, r)
  PROVE  WaitInv'
<1>1. PICK c \in Cursor : c = Cur(t)
  BY Types
<1> DEFINE n == outstanding[c] - 1
<1>2. /\ error[c] # "Absent" /\ n \in Nat /\ gen' = gen
      /\ call.op = "read" => Called = Cur(call.t)
  <2>1. t \in cached /\ awaiting[t] > 0 /\ gen' = gen
    BY ArrivesOwed DEF ReadCursorFrame, ForCursor
  <2>2. awaiting[t] <= outstanding[c] /\ error[c] # "Absent"
    BY <1>1, <2>1 DEF Inv, RequestsAccounted, TokenInv
  <2>3. awaiting[t] \in Nat /\ outstanding[c] \in Int
    BY DEF TypeOK
  <2>4. call.op = "read" => Called = Cur(call.t)
    BY DEF Inv, ControlInv, Called, Cur
  <2> QED BY <2>1, <2>2, <2>3, <2>4
<1>3. CASE UNCHANGED <<outstanding, threshold, error>> /\ Return("ReqlDriverError")
  BY <1>3 DEF WaitInv, WillAsk, Return, Idle
<1>4. CASE /\ outstanding' = [outstanding EXCEPT ![c] = IF WantsBatch(c, n) THEN 1 ELSE n]
           /\ ExtendInternal(c, r, outstanding'[c])
           /\ IF call.op = "read" /\ call.t = t
              THEN Block("check", call.g, call.t, call.deadline)
              ELSE UNCHANGED <<call, ret>>
  <2>1. /\ outstanding'[c] \in Nat /\ \A d \in Cursor \ {c} : outstanding'[d] = outstanding[d]
        /\ \A d \in Cursor \ {c} : error'[d] = error[d] /\ threshold'[d] = threshold[d]
        /\ threshold'[c] = DataLen(r)
        /\ error'[c] = "None" => error[c] = "None" /\ r.type = "SUCCESS_PARTIAL"
    BY <1>2, <1>4 DEF ExtendInternal, TypeOK, Response
  <2>2. error'[c] = "None" => threshold'[c] > 0
    <3>1. r.type = "SUCCESS_PARTIAL" => r.rows > 0
      BY <1>1, <1>2 DEF ReadCursorFrame, MayAnswer
    <3> QED BY <2>1, <3>1 DEF DataLen
  <2>3. ASSUME NEW d \in Cursor, error'[d] = "None" PROVE WillAsk(d)'
    <3>1. CASE d = c
      BY <2>1, <2>2, <2>3, <3>1 DEF WillAsk
    <3>2. CASE d # c
      BY <2>1, <2>3, <3>2 DEF WaitInv, WillAsk
    <3> QED BY <3>1, <3>2
  <2>4. ASSUME call'.op = "read" PROVE outstanding'[Called'] > 0
    <3>1. call' = call /\ call.t # t
      BY <1>4, <2>4 DEF Block
    <3>2. Called' = Called /\ Called = Cur(call.t) /\ Cur(call.t) # c /\ call.t \in Token
      BY <1>1, <1>2, <2>4, <3>1, Types DEF Called, Cur
    <3>3. Cur(call.t) \in Cursor
      BY <3>2, Types
    <3>4. outstanding'[Cur(call.t)] = outstanding[Cur(call.t)]
      BY <2>1, <3>2, <3>3
    <3> QED BY <2>4, <3>1, <3>2, <3>4 DEF WaitInv
  <2> QED BY <2>3, <2>4 DEF WaitInv
<1> QED BY <1>1, <1>3, <1>4 DEF ReadCursorFrame

LEMMA WaitStream ==
  ASSUME TypeOK, TypeOK', Inv, WaitInv, NEW t \in Token, NEW r \in Response, ReadStream(t, r)
  PROVE  WaitInv'
<1>1. PICK c \in Cursor : c = Cur(call.t)
  BY Types DEF TypeOK
<1>2. /\ outstanding'[c] = 1 /\ call'.op # "read"
      /\ \A d \in Cursor \ {c} : /\ outstanding'[d] = outstanding[d] /\ error'[d] = error[d]
                                 /\ threshold'[d] = threshold[d]
  <2>1. /\ outstanding' = [outstanding EXCEPT ![c] = 1] /\ call'.op # "read"
        /\ \E e : error' = [error EXCEPT ![c] = e]
        /\ threshold' = [threshold EXCEPT ![c] = DataLen(r)] \/ threshold' = threshold
    BY <1>1 DEF ReadStream, Return, Idle
  <2>2. /\ outstanding \in [Cursor -> Int] /\ error \in [Cursor -> CursorError]
        /\ threshold \in [Cursor -> Nat]
    BY DEF TypeOK
  <2> QED BY <2>1, <2>2
<1>3. ASSUME NEW d \in Cursor, error'[d] = "None" PROVE WillAsk(d)'
  <2>1. CASE d = c
    BY <1>2, <2>1 DEF WillAsk
  <2>2. CASE d # c
    BY <1>2, <1>3, <2>2 DEF WaitInv, WillAsk
  <2> QED BY <2>1, <2>2
<1> QED BY <1>2, <1>3 DEF WaitInv

LEMMA WaitStep ==
  ASSUME TypeOK, TypeOK', Inv, WaitInv, [Next]_vars PROVE WaitInv'
<1>1. CASE UNCHANGED <<error, outstanding, threshold>> /\ (call' = call \/ call'.op # "read")
  BY <1>1 DEF WaitInv, WillAsk, Called
<1>2. CASE GetNextRead
  BY <1>2, WaitGetNextRead
<1>3. CASE \E c \in Cursor : CursorClose(c)
  <2>1. PICK c \in Cursor : CursorClose(c)
    BY <1>3
  <2>2. /\ error'[c] = "Stopped" /\ call'.op # "read" /\ threshold' = threshold
        /\ \A d \in Cursor \ {c} : error'[d] = error[d] /\ outstanding'[d] = outstanding[d]
    <3>1. /\ error' = [error EXCEPT ![c] = "Stopped"] /\ threshold' = threshold
          /\ outstanding' = [outstanding EXCEPT ![c] = @ + 1] \/ outstanding' = outstanding
      BY <2>1 DEF CursorClose
    <3>2. call'.op = "idle"
      BY <2>1 DEF CursorClose, Return, Idle
    <3>3. outstanding \in [Cursor -> Int] /\ error \in [Cursor -> CursorError]
      BY DEF TypeOK
    <3> QED BY <3>1, <3>2, <3>3
  <2> QED BY <2>2 DEF WaitInv, WillAsk
<1>4. CASE ErrorCursors /\ call'.op # "read"
  <2>1. \A c \in Cursor : error'[c] # "None"
    BY <1>4, AllFail
  <2> QED BY <1>4, <2>1 DEF WaitInv
<1>5. CASE \E t \in Token, r \in Response : ReadCursorFrame(t, r)
  BY <1>5, WaitCursorFrame
<1>6. CASE \E t \in Token, r \in Response : ReadStream(t, r)
  BY <1>6, WaitStream
<1> QED BY <1>1, <1>2, <1>3, <1>4, <1>5, <1>6, WaitCases

(* On a live link a thread blocked in next() waits for an answer that the  *)
(* server owes: its request is counted (WaitInv), and what is counted is   *)
(* owed (RequestsAccounted), because the cursor is in the cache of the     *)
(* open instance (StaleCursorInert, ControlInv).                           *)
THEOREM WaiterIsServed == Spec => []WaiterHasRequest
<1>1. Init => NetInv /\ WaitInv
  BY TypeInit, InvInit, WaitInit DEF NetInv, Inv
<1>2. NetInv /\ WaitInv /\ [Next]_vars => (NetInv /\ WaitInv)'
  <2> SUFFICES ASSUME NetInv, WaitInv, [Next]_vars PROVE NetInv' /\ WaitInv'
    OBVIOUS
  <2>1. NetInv'
    BY NetInvStep
  <2>2. TypeOK /\ TypeOK' /\ Inv
    BY <2>1 DEF NetInv, Inv
  <2> QED BY <2>1, <2>2, WaitStep
<1>3. NetInv /\ WaitInv => WaiterHasRequest
  <2> SUFFICES ASSUME NetInv, WaitInv, call.op = "read", link = "up"
               PROVE  awaiting[call.t] > 0
    BY DEF WaiterHasRequest
  <2>1. /\ sock = "open" /\ Called = Cur(call.t) /\ error[Called] = "None"
    BY DEF NetInv, ControlInv, Reading, Called, Cur
  <2>2. Called \in Cursor
    BY DEF NetInv, TypeOK, Called, Cursor
  <2>3. call.t \in cached
    BY <2>1, <2>2 DEF NetInv, StaleCursorInert, Called
  <2>4. awaiting[call.t] = outstanding[Called]
    BY <2>1, <2>3 DEF NetInv, RequestsAccounted
  <2> QED BY <2>4 DEF WaitInv
<1> QED
  BY <1>1, <1>2, <1>3, PTL DEF Spec

-----------------------------------------------------------------------------
(* The refinement: what each step of the driver is to a result stream.     *)
Available == [c \in Cursor |-> got[c] + Len(items[c])]
Status    == [c \in Cursor |-> StreamStatus(error[c])]
Statuses  == {"absent", "open", "complete", "closed", "failed"}

LEMMA StatusType ==
  ASSUME TypeOK, TypeOK'
  PROVE  /\ Status \in [Cursor -> Statuses] /\ Status' \in [Cursor -> Statuses]
         /\ \A c \in Cursor : /\ Status[c] = StreamStatus(error[c])
                              /\ Status'[c] = StreamStatus(error'[c])
                              /\ error[c] \in CursorError /\ error'[c] \in CursorError
         /\ \A e \in CursorError : /\ StreamStatus(e) = "absent" <=> e = "Absent"
                                   /\ StreamStatus(e) = "open" <=> e = "None"
                                   /\ StreamStatus(e) = "complete" <=> e = "Empty"
                                   /\ StreamStatus(e) = "closed" <=> e = "Stopped"
                                   /\ StreamStatus(e) = "failed" <=> e \in {"Runtime", "Server"}
BY DEF TypeOK, Status, Statuses, StreamStatus, CursorError

LEMMA OneStatus ==
  ASSUME TypeOK, NEW c \in Cursor, NEW e, error' = [error EXCEPT ![c] = e]
  PROVE  Status' = [Status EXCEPT ![c] = StreamStatus(e)]
<1>1. error \in [Cursor -> CursorError]
  BY DEF TypeOK
<1>2. error'[c] = e /\ \A d \in Cursor \ {c} : error'[d] = error[d]
  BY <1>1
<1>3. /\ Status' = [d \in Cursor |-> StreamStatus(error'[d])]
      /\ Status = [d \in Cursor |-> StreamStatus(error[d])]
  BY DEF Status
<1>4. ASSUME NEW d \in Cursor
      PROVE  StreamStatus(error'[d]) = IF d = c THEN StreamStatus(e) ELSE StreamStatus(error[d])
  BY <1>2
<1> QED BY <1>3, <1>4

LEMMA StreamStarts == Init => Stream!Init
<1> SUFFICES ASSUME Init PROVE Stream!Init
  OBVIOUS
<1>1. ASSUME NEW c \in Cursor PROVE got[c] + Len(items[c]) = 0 /\ StreamStatus(error[c]) = "absent"
  BY DEF Init, StreamStatus
<1> QED BY <1>1 DEF Init, Stream!Init

(* A row handed out.                                                       *)
LEMMA RefineNextRow ==
  ASSUME TypeOK, TypeOK', StreamInv, GetNextItem
  PROVE  \E c \in Cursor : Stream!Deliver(c)
<1>1. PICK c \in Cursor :
        /\ c = Called /\ got' = [got EXCEPT ![c] = @ + 1]
        /\ Len(items[c]) \in Nat \ {0} /\ Len(items'[c]) = Len(items[c]) - 1
        /\ \A d \in Cursor \ {c} : items'[d] = items[d]
        /\ UNCHANGED <<error, sent, done, sock>>
  BY NextRow
<1>2. got \in [Cursor -> Nat]
  BY DEF TypeOK
<1>3. ASSUME NEW d \in Cursor PROVE got'[d] + Len(items'[d]) = got[d] + Len(items[d])
  <2>1. CASE d = c
    <3> DEFINE before == Len(items[c])
               after  == Len(items'[c])
    <3>1. before \in Nat /\ after = before - 1 /\ got'[c] = got[c] + 1 /\ got[c] \in Nat
      BY <1>1, <1>2
    <3> HIDE DEF before, after
    <3>2. got'[c] + after = got[c] + before
      BY <3>1
    <3> QED BY <2>1, <3>2 DEF before, after
  <2>2. CASE d # c
    BY <1>1, <1>2, <2>2
  <2> QED BY <2>1, <2>2
<1>4. got[c] < got[c] + Len(items[c])
  BY <1>1, <1>2
<1> QED BY <1>1, <1>3, <1>4 DEF Stream!Deliver

(* cursor.close().                                                         *)
LEMMA RefineClose ==
  ASSUME TypeOK, TypeOK', NEW c \in Cursor, CursorClose(c)
  PROVE  Stream!Close(c)
<1>1. /\ error[c] = "None" /\ error' = [error EXCEPT ![c] = "Stopped"]
      /\ UNCHANGED <<items, got, sent, done>>
  BY DEF CursorClose
<1>2. Status[c] = "open" /\ Status' = [Status EXCEPT ![c] = "closed"]
  <2>1. StreamStatus("None") = "open" /\ StreamStatus("Stopped") = "closed"
    BY DEF StreamStatus
  <2>2. Status[c] = "open"
    BY <1>1, <2>1 DEF Status
  <2>3. Status' = [Status EXCEPT ![c] = StreamStatus("Stopped")]
    BY <1>1, OneStatus
  <2> QED BY <2>1, <2>2, <2>3
<1> QED BY <1>1, <1>2 DEF Stream!Close, Status

(* The connection takes its open cursors with it.                          *)
LEMMA RefineFail ==
  ASSUME TypeOK, TypeOK', Inv, ErrorCursors, UNCHANGED <<sent, done>>
  PROVE  Stream!Fail
<1>1. /\ \A c \in Cursor : error'[c] = IF error[c] = "None" THEN "Runtime" ELSE error[c]
      /\ UNCHANGED <<items, got, sent, done>>
  BY AllFail DEF ErrorCursors
<1>2. \A c \in Cursor : Status'[c] # Status[c] => Status[c] = "open" /\ Status'[c] = "failed"
  BY <1>1, StatusType
<1> QED BY <1>1, <1>2, StatusType DEF Stream!Fail, Stream!Breaks, Status, Statuses

(* A response of a stream.                                                 *)
Last(r) == r.type # "SUCCESS_PARTIAL"

LEMMA RefineSend ==
  ASSUME TypeOK, NEW c \in Cursor, NEW r \in Response, MayAnswer(c, r), Answered(c, r)
  PROVE  Stream!Send(c, r.rows, Last(r)) /\ r.rows \in 0 .. MaxRows /\ Last(r) \in BOOLEAN
BY DEF MayAnswer, Answered, Stream!Send, Last, Response

LEMMA RefineArrives ==
  ASSUME TypeOK, TypeOK', StreamInv, NEW c \in Cursor, NEW r \in Response,
         MayAnswer(c, r), Answered(c, r), got' = got, Arrives(c, r)
  PROVE  Stream!Arrive(c, r.rows, Last(r))
<1>1. Status[c] \in {"absent", "open"} /\ Available[c] = sent[c]
  BY StatusType DEF Arrives, Available
<1>2. Available' = [Available EXCEPT ![c] = @ + r.rows]
  <2>1. Len(items'[c]) = Len(items[c]) + r.rows
    <3>1. items'[c] = items[c] \o Rows(c, r) /\ Gapless(c) /\ got[c] + Len(items[c]) = sent[c]
      BY DEF Arrives, StreamInv, TypeOK
    <3> QED BY <3>1, RowsBehind
  <2>2. got[c] \in Nat /\ Len(items[c]) \in Nat /\ r.rows \in Nat
    BY RowsType DEF TypeOK
  <2>3. got[c] + Len(items'[c]) = (got[c] + Len(items[c])) + r.rows
    <3> DEFINE before == Len(items[c])
               after  == Len(items'[c])
    <3>1. before \in Nat /\ after = before + r.rows
      BY <2>1, <2>2
    <3> HIDE DEF before, after
    <3>2. got[c] + after = (got[c] + before) + r.rows
      BY <2>2, <3>1
    <3> QED BY <3>2 DEF before, after
  <2>4. \A d \in Cursor \ {c} : items'[d] = items[d]
    BY DEF Arrives, TypeOK
  <2> QED BY <2>3, <2>4 DEF Available
<1>3. /\ Status'[c] \in {IF Last(r) THEN "complete" ELSE "open", "failed"}
      /\ \A d \in Cursor \ {c} : Status'[d] = Status[d]
  <2>1. error'[c] = Ending(r) /\ \A d \in Cursor \ {c} : error'[d] = error[d]
    BY DEF Arrives, TypeOK
  <2>2. \/ Last(r) /\ error'[c] \in {"Empty", "Server"}
        \/ ~Last(r) /\ error'[c] = "None"
    BY <2>1 DEF Ending, Last, Response
  <2>3. \A d \in Cursor \ {c} : Status'[d] = Status[d]
    BY <2>1, StatusType
  <2> QED BY <2>2, <2>3, StatusType
<1> QED BY <1>1, <1>2, <1>3, StatusType, RefineSend DEF Stream!Arrive, Available, Status, Statuses

LEMMA RefineMisses ==
  ASSUME TypeOK, TypeOK', NEW c \in Cursor, NEW r \in Response,
         MayAnswer(c, r), Answered(c, r), got' = got, Misses(c)
  PROVE  Stream!Miss(c, r.rows, Last(r))
<1>1. \/ Status' = Status
      \/ Status[c] = "absent" /\ Status' = [Status EXCEPT ![c] = "open"]
  <2>1. CASE error' = error
    BY <2>1 DEF Status
  <2>2. CASE error[c] = "Absent" /\ error' = [error EXCEPT ![c] = "None"]
    <3>1. StreamStatus("None") = "open" /\ StreamStatus("Absent") = "absent"
      BY DEF StreamStatus
    <3>2. Status[c] = "absent"
      BY <2>2, <3>1 DEF Status
    <3>3. Status' = [Status EXCEPT ![c] = StreamStatus("None")]
      BY <2>2, OneStatus
    <3> QED BY <3>1, <3>2, <3>3
  <2> QED BY <2>1, <2>2 DEF Misses
<1>2. Available' = Available
  BY DEF Misses, Available
<1> QED BY <1>1, <1>2, StatusType, RefineSend
        DEF Stream!Miss, Stream!Breaks, Available, Status, Statuses

LEMMA RefineStep ==
  ASSUME TypeOK, TypeOK', Inv, StreamInv, [Next]_vars
  PROVE  [Stream!Next]_(Stream!vars)
<1>1. CASE UNCHANGED StreamVars
  BY <1>1 DEF StreamVars, Stream!vars
<1>2. CASE GetNextItem
  BY <1>2, RefineNextRow DEF Stream!Next
<1>3. CASE \E c \in Cursor : CursorClose(c)
  BY <1>3, RefineClose DEF Stream!Next
<1>4. CASE ErrorCursors /\ UNCHANGED <<sent, done>>
  BY <1>4, RefineFail DEF Stream!Next
<1>5. CASE \/ \E t \in Token, r \in Response : ReadCursorFrame(t, r)
           \/ \E t \in Token, r \in Response : ReadStream(t, r)
  <2>1. PICK c \in Cursor, r \in Response :
          MayAnswer(c, r) /\ Answered(c, r) /\ got' = got /\ (Arrives(c, r) \/ Misses(c))
    BY <1>5, FrameCases
  <2>2. Stream!Arrive(c, r.rows, Last(r)) \/ Stream!Miss(c, r.rows, Last(r))
    BY <2>1, RefineArrives, RefineMisses
  <2>3. r.rows \in 0 .. MaxRows /\ Last(r) \in BOOLEAN
    BY <2>1, RefineSend
  <2> QED BY <2>2, <2>3 DEF Stream!Next
<1> QED BY <1>1, <1>2, <1>3, <1>4, <1>5, StreamCases

(* What the application sees of its cursors is a gapless result stream:    *)
(* rows in order and without a gap, "complete" only when all of it has     *)
(* arrived, and no further row after an end, whatever the interleaving of  *)
(* batches, cursor.close(), errors, lost links, reconnects and Ctrl-C.     *)
THEOREM StreamRefinement == Spec => ImplementsResultStream
<1>1. Init => NetInv /\ StreamInv
  BY TypeInit, InvInit, StreamInit DEF NetInv, Inv
<1>2. NetInv /\ StreamInv /\ [Next]_vars => /\ (NetInv /\ StreamInv)'
                                            /\ [Stream!Next]_(Stream!vars)
  <2> SUFFICES ASSUME NetInv, StreamInv, [Next]_vars
               PROVE  NetInv' /\ StreamInv' /\ [Stream!Next]_(Stream!vars)
    OBVIOUS
  <2>1. NetInv'
    BY NetInvStep
  <2>2. TypeOK /\ TypeOK' /\ Inv
    BY <2>1 DEF NetInv, Inv
  <2> QED BY <2>1, <2>2, StreamStep, RefineStep
<1> QED
  BY <1>1, <1>2, StreamStarts, PTL DEF Spec, ImplementsResultStream, Stream!Spec
=============================================================================
