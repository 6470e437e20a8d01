---------------------------- MODULE ToolProofs -----------------------------
(***************************************************************************)
(* Proofs about what the tools do on their own: RetryQuery, for any number *)
(* of actors, connections and iterations, and the rebuild of indexes, for  *)
(* any number of indexes, runs and rebuilds at a time.                     *)
(***************************************************************************)
EXTENDS RetryQuery, IndexRebuild, FiniteSetTheorems, TLAPS


(* More connections only widen the types.                                  *)
LEMMA MadeGrows ==
  ASSUME TypeOK, made' \in 0 .. MaxConn, made <= made'
  PROVE  /\ conn \in [Actor -> 0 .. made'] /\ dead \subseteq 1 .. made'
<1>1. 0 .. made \subseteq 0 .. made' /\ 1 .. made \subseteq 1 .. made'
  BY RetryAssumption DEF TypeOK
<1>2. conn \in [Actor -> 0 .. made'] /\ dead \subseteq 1 .. made'
  BY <1>1 DEF TypeOK
<1> QED BY <1>2

(* What a step of an actor that changes no cache but its own keeps.        *)
LEMMA OthersCaches ==
  ASSUME TypeOK, CacheInv, NEW a \in born, UNCHANGED actorVars,
         \A b \in Actor : b # a => pc'[b] = pc[b] /\ connCache'[b] = connCache[b],
         \A p \in Actor : connCache'[a][p] # 0 => p \in born
  PROVE  CacheInv'
<1>1. \A b \in born' : pid'[b] \in born'
  BY DEF CacheInv, actorVars
<1>2. \A b \in Actor \ born' : /\ pid'[b] = b /\ pc'[b] = "idle"
                               /\ \A p \in Actor : connCache'[b][p] = 0
  BY DEF CacheInv, actorVars
<1>3. \A b, p \in Actor : connCache'[b][p] # 0 => p \in born'
  <2> TAKE b, p \in Actor
  <2>1. CASE b = a BY <2>1 DEF actorVars
  <2>2. CASE b # a BY <2>2 DEF CacheInv, actorVars
  <2> QED BY <2>1, <2>2
<1> QED BY <1>1, <1>2, <1>3 DEF CacheInv

(* conn() returns a connection that is cached for the caller from then on, *)
(* and for nobody else.                                                    *)
LEMMA ConnReturnsCache ==
  ASSUME RetryInv, NEW a \in born, NEW test, NEW c \in 1 .. MaxConn,
         ConnReturns(a, test, c), UNCHANGED actorVars
  PROVE  /\ made' \in 0 .. MaxConn /\ made <= made' /\ c \in 1 .. made'
         /\ connCache' \in [Actor -> [Actor -> 0 .. made']]
         /\ Cached(a)' = c
         /\ \A b \in Actor : b # a => connCache'[b] = connCache[b]
         /\ \A p \in Actor : connCache'[a][p] # 0 => p \in born
         /\ NoSharedConnection'
<1> USE DEF RetryInv, actorVars
<1>0. a \in Actor /\ pid[a] \in Actor /\ pid[a] \in born /\ made \in Nat /\ MaxConn \in Nat
  BY RetryAssumption DEF TypeOK, CacheInv
<1>1. CASE UNCHANGED <<connCache, made>> /\ c = Cached(a)
  BY <1>0, <1>1 DEF ConnReturns, KeepsCached, TypeOK, NoSharedConnection, CacheInv, Cached
<1>2. CASE made' = made + 1 /\ c = made' /\ made < MaxConn
           /\ connCache' = [connCache EXCEPT ![a][pid[a]] = c]
  <2>1. connCache' \in [Actor -> [Actor -> 0 .. made']]
    BY <1>0, <1>2 DEF TypeOK
  <2>2. Cached(a)' = c /\ \A b \in Actor : b # a => connCache'[b] = connCache[b]
    BY <1>0, <1>2 DEF TypeOK, Cached
  <2>3. \A p \in Actor : connCache'[a][p] # 0 => p \in born
    BY <1>0, <1>2 DEF TypeOK, CacheInv
  <2>4. \A b \in born : b # a => Cached(b)' = Cached(b) /\ Cached(b) \in 0 .. made
    BY <2>2 DEF TypeOK, Cached
  <2>5. NoSharedConnection'
    BY <1>0, <1>2, <2>2, <2>4 DEF NoSharedConnection
  <2> QED BY <1>0, <1>2, <2>1, <2>2, <2>3, <2>5
<1> QED BY <1>1, <1>2 DEF ConnReturns

(* conn() raises only after it has forgotten the caller's connection.      *)
LEMMA ConnRaisesCache ==
  ASSUME RetryInv, NEW a \in born, NEW test,
         ConnRaises(a, test), UNCHANGED actorVars
  PROVE  /\ made' = made
         /\ connCache' \in [Actor -> [Actor -> 0 .. made]]
         /\ Cached(a)' = 0
         /\ \A b \in Actor : b # a => connCache'[b] = connCache[b]
         /\ \A p \in Actor : connCache'[a][p] # 0 => p \in born
         /\ NoSharedConnection'
<1> USE DEF RetryInv, actorVars
<1>0. a \in Actor /\ pid[a] \in Actor /\ made \in Nat
  BY RetryAssumption DEF TypeOK, CacheInv
<1>1. connCache' \in [Actor -> [Actor -> 0 .. made]]
  BY <1>0 DEF ConnRaises, TypeOK
<1>2. Cached(a)' = 0 /\ \A b \in Actor : b # a => connCache'[b] = connCache[b]
  BY <1>0 DEF ConnRaises, TypeOK, Cached
<1>3. \A p \in Actor : connCache'[a][p] # 0 => p \in born
  BY <1>0 DEF ConnRaises, TypeOK, CacheInv
<1>4. \A b \in born : b # a => Cached(b)' = Cached(b)
  BY <1>2 DEF TypeOK, Cached
<1>5. NoSharedConnection'
  BY <1>0, <1>2, <1>4 DEF NoSharedConnection
<1> QED BY <1>1, <1>2, <1>3, <1>5 DEF ConnRaises

LEMMA DirectConnStep ==
  ASSUME RetryInv, NEW a \in Actor, DirectConn(a)
  PROVE  RetryInv'
<1> USE DEF RetryInv
<1>0. a \in born /\ pc[a] = "idle" /\ UNCHANGED actorVars /\ a \in Actor
  BY DEF DirectConn
<1>1. /\ made' \in 0 .. MaxConn /\ made <= made'
      /\ connCache' \in [Actor -> [Actor -> 0 .. made']]
      /\ \A b \in Actor : b # a => connCache'[b] = connCache[b]
      /\ \A p \in Actor : connCache'[a][p] # 0 => p \in born
      /\ NoSharedConnection'
  <2>1. CASE \E c \in 1 .. MaxConn : ConnReturns(a, TRUE, c)
    BY <1>0, <2>1, ConnReturnsCache
  <2>2. CASE ConnRaises(a, TRUE)
    <3>1. made \in 0 .. MaxConn /\ made <= made
      BY RetryAssumption DEF TypeOK
    <3> QED BY <1>0, <2>2, <3>1, ConnRaisesCache
  <2> QED BY <2>1, <2>2 DEF DirectConn
<1>2. /\ pc' = [pc EXCEPT ![a] = "idle"]
      /\ \E r \in {"connected", "ReqlError"} : outcome' = [outcome EXCEPT ![a] = r]
      /\ UNCHANGED <<actorVars, tries, test_connection, conn, executed, dead, reachable>>
  BY DEF DirectConn, Return
<1>3. TypeOK'
  BY <1>0, <1>1, <1>2, MadeGrows DEF TypeOK, Outcome, actorVars
<1>4. ExecutedOnce'
  BY <1>0, <1>2 DEF ExecutedOnce, TypeOK
<1>5. CacheInv'
  BY <1>0, <1>1, <1>2, OthersCaches DEF TypeOK, actorVars
<1>6. CallInv'
  BY <1>0, <1>1, <1>2 DEF CallInv, TypeOK, Cached, actorVars
<1> QED BY <1>1, <1>3, <1>4, <1>5, <1>6

LEMMA CallStep ==
  ASSUME RetryInv, NEW a \in Actor, Call(a)
  PROVE  RetryInv'
<1> USE RetryAssumption DEF RetryInv
<1>1. TypeOK'
  BY DEF Call, TypeOK, Outcome, actorVars, callVars
<1>2. NoSharedConnection'
  BY DEF Call, TypeOK, NoSharedConnection, CacheInv, Cached, actorVars, callVars
<1>3. ExecutedOnce'
  BY DEF Call, TypeOK, ExecutedOnce, CallInv, actorVars, callVars
<1>4. CacheInv'
  BY DEF Call, TypeOK, CacheInv, actorVars, callVars
<1>5. CallInv'
  BY DEF Call, TypeOK, CallInv, CacheInv, ExecutedOnce, Cached, actorVars, callVars
<1> QED BY <1>1, <1>2, <1>3, <1>4, <1>5

LEMMA GetConnStep ==
  ASSUME RetryInv, NEW a \in Actor, GetConn(a)
  PROVE  RetryInv'
<1> USE DEF RetryInv
<1>0. /\ a \in born /\ pc[a] = "conn" /\ pc' = [pc EXCEPT ![a] = "run"] /\ ~test_connection[a]
      /\ UNCHANGED <<actorVars, tries, executed, outcome, dead, reachable>>
  BY DEF GetConn, CacheInv, CallInv
<1>1. CASE \E c \in 1 .. MaxConn : /\ ConnReturns(a, test_connection[a], c)
                                   /\ conn' = [conn EXCEPT ![a] = c]
                                   /\ UNCHANGED test_connection
  <2>1. PICK c \in 1 .. MaxConn : /\ ConnReturns(a, test_connection[a], c)
                                  /\ conn' = [conn EXCEPT ![a] = c]
                                  /\ UNCHANGED test_connection
    BY <1>1
  <2>2. /\ made' \in 0 .. MaxConn /\ made <= made' /\ c \in 1 .. made'
        /\ connCache' \in [Actor -> [Actor -> 0 .. made']]
        /\ Cached(a)' = c
        /\ \A b \in Actor : b # a => connCache'[b] = connCache[b]
        /\ \A p \in Actor : connCache'[a][p] # 0 => p \in born
        /\ NoSharedConnection'
    BY <1>0, <2>1, ConnReturnsCache
  <2>3. TypeOK'
    <3>1. c \in 0 .. made'
      BY <2>2, RetryAssumption
    <3>2. conn' \in [Actor -> 0 .. made']
      BY <2>1, <2>2, <3>1, MadeGrows
    <3> QED BY <1>0, <2>1, <2>2, <3>2, MadeGrows DEF TypeOK, actorVars
  <2>4. ExecutedOnce'
    BY <1>0 DEF ExecutedOnce
  <2>5. CacheInv'
    BY <1>0, <2>2, OthersCaches DEF TypeOK, actorVars
  <2>6. executed[a] = 1 => c = conn[a]
    \* what was executed went over the cached connection, which is kept
    <3>1. executed[a] = 1 => conn[a] # 0 /\ conn[a] = Cached(a)
      BY <1>0, RetryAssumption DEF CallInv, TypeOK
    <3> QED BY <1>0, <2>1, <3>1 DEF ConnReturns, KeepsCached
  <2>7. CallInv'
    BY <1>0, <2>1, <2>2, <2>6 DEF CallInv, TypeOK, Cached, actorVars
  <2> QED BY <2>2, <2>3, <2>4, <2>5, <2>7
<1>2. CASE /\ ConnRaises(a, test_connection[a])
           /\ test_connection' = [test_connection EXCEPT ![a] = TRUE]
           /\ UNCHANGED conn
  <2>1. /\ made' = made
        /\ connCache' \in [Actor -> [Actor -> 0 .. made]]
        /\ Cached(a)' = 0
        /\ \A b \in Actor : b # a => connCache'[b] = connCache[b]
        /\ \A p \in Actor : connCache'[a][p] # 0 => p \in born
        /\ NoSharedConnection'
    BY <1>0, <1>2, ConnRaisesCache
  <2>2. TypeOK'
    BY <1>0, <1>2, <2>1 DEF TypeOK, actorVars
  <2>3. ExecutedOnce'
    BY <1>0 DEF ExecutedOnce
  <2>4. CacheInv'
    BY <1>0, <2>1, OthersCaches DEF TypeOK, actorVars
  <2>5. conn[a] = 0
    \* nothing was cached, so that no connection is bound
    BY <1>0, <1>2 DEF ConnRaises, KeepsCached, CallInv, TypeOK
  <2>6. CallInv'
    BY <1>0, <1>2, <2>1, <2>5 DEF CallInv, TypeOK, Cached, actorVars
  <2> QED BY <2>1, <2>2, <2>3, <2>4, <2>6
<1> QED BY <1>1, <1>2 DEF GetConn

LEMMA UnboundStep ==
  ASSUME RetryInv, NEW a \in Actor, Unbound(a)
  PROVE  RetryInv'
<1> USE RetryAssumption DEF RetryInv
<1>1. TypeOK'
  BY DEF Unbound, Return, TypeOK, Outcome, actorVars, callVars
<1>2. NoSharedConnection'
  BY DEF Unbound, Return, TypeOK, NoSharedConnection, CacheInv, Cached, actorVars, callVars
<1>3. ExecutedOnce'
  BY DEF Unbound, Return, TypeOK, ExecutedOnce, CallInv, actorVars, callVars
<1>4. CacheInv'
  BY DEF Unbound, Return, TypeOK, CacheInv, actorVars, callVars
<1>5. CallInv'
  BY DEF Unbound, Return, TypeOK, CallInv, CacheInv, ExecutedOnce, Cached, actorVars, callVars
<1> QED BY <1>1, <1>2, <1>3, <1>4, <1>5

LEMMA SendFailsStep ==
  ASSUME RetryInv, NEW a \in Actor, SendFails(a)
  PROVE  RetryInv'
<1> USE RetryAssumption DEF RetryInv
<1>0. /\ pc[a] \in {"run", "wait"} /\ conn[a] \in dead /\ conn[a] # 0 /\ tries[a] \in 1 .. Times
      /\ tries' = [tries EXCEPT ![a] = @ - 1] /\ test_connection' = test_connection
      /\ UNCHANGED <<actorVars, connCache, conn, executed, made, dead, reachable>>
  <2>1. /\ pc[a] \in {"run", "wait"} /\ conn[a] \in dead /\ conn[a] \in 1 .. made
    BY DEF SendFails, TypeOK
  <2>2. tries[a] \in 1 .. Times
    <3>1. tries[a] \in 0 .. Times /\ tries[a] > 0
      BY <2>1 DEF TypeOK
    <3> QED BY <3>1
  <2> QED BY <2>1, <2>2 DEF SendFails, QueryFails
<1>1. /\ pc' = [pc EXCEPT ![a] = IF tries[a] > 1 THEN "conn" ELSE "idle"]
      /\ outcome' = [outcome EXCEPT ![a] = IF tries[a] > 1 THEN @ ELSE "RuntimeError"]
  BY DEF SendFails, QueryFails, Return, TypeOK
<1>2. TypeOK'
  <2>1. tries[a] - 1 \in 0 .. Times /\ (tries[a] > 1 => tries[a] - 1 > 0)
    BY <1>0
  <2>2. tries' \in [Actor -> 0 .. Times] /\ \A b \in Actor : pc'[b] # "idle" => tries'[b] > 0
    BY <1>0, <1>1, <2>1 DEF TypeOK
  <2>3. pc' \in [Actor -> {"idle", "conn", "run", "wait"}] /\ outcome' \in [Actor -> Outcome]
    BY <1>1 DEF TypeOK, Outcome
  <2> QED BY <1>0, <2>2, <2>3 DEF TypeOK, actorVars
<1>3. NoSharedConnection' /\ CacheInv'
  BY <1>0, <1>1 DEF NoSharedConnection, CacheInv, Cached, TypeOK, actorVars
<1>4. ExecutedOnce'
  BY <1>0, <1>1 DEF ExecutedOnce, TypeOK
<1>5. ~test_connection[a]
  \* a test is only asked for by an iteration that ends unbound
  BY <1>0 DEF CallInv
<1>6. CallInv'
  BY <1>0, <1>1, <1>5 DEF CallInv, Cached, TypeOK, actorVars
<1> QED BY <1>2, <1>3, <1>4, <1>6

LEMMA SendStep ==
  ASSUME RetryInv, NEW a \in Actor, Send(a)
  PROVE  RetryInv'
<1> USE DEF RetryInv
<1>0. /\ pc[a] = "run" /\ conn[a] \in 1 .. made /\ conn[a] \notin dead
      /\ executed[a] = 0 /\ pc' = [pc EXCEPT ![a] = "wait"]
      /\ UNCHANGED <<actorVars, connCache, tries, test_connection, conn, outcome, made, reachable>>
  <2>1. /\ pc[a] = "run" /\ conn[a] # 0 /\ conn[a] \notin dead /\ conn[a] \in 0 .. made
        /\ executed[a] \in Nat /\ made \in Nat
    BY RetryAssumption DEF Send, TypeOK
  <2>2. executed[a] = 0
    BY <2>1 DEF CallInv, ExecutedOnce
  <2> QED BY <2>1, <2>2 DEF Send
<1>1. \/ executed' = [executed EXCEPT ![a] = 1] /\ dead' = dead
      \/ executed' = executed /\ dead' = dead \cup {conn[a]}
  BY <1>0 DEF Send
<1>2. TypeOK'
  <2>1. executed' \in [Actor -> Nat] /\ dead' \subseteq 1 .. made'
    <3>1. CASE executed' = [executed EXCEPT ![a] = 1] /\ dead' = dead
      BY <1>0, <3>1 DEF TypeOK
    <3>2. CASE executed' = executed /\ dead' = dead \cup {conn[a]}
      BY <1>0, <3>2 DEF TypeOK
    <3> QED BY <1>1, <3>1, <3>2
  <2>2. /\ pc' \in [Actor -> {"idle", "conn", "run", "wait"}]
        /\ \A b \in Actor : pc'[b] # "idle" => tries'[b] > 0
    BY <1>0 DEF TypeOK
  <2> QED BY <1>0, <2>1, <2>2 DEF TypeOK, actorVars
<1>3. NoSharedConnection' /\ CacheInv'
  BY <1>0 DEF NoSharedConnection, CacheInv, Cached, TypeOK, actorVars
<1>4. ExecutedOnce'
  <2>1. outcome[a] # "value"
    BY <1>0 DEF ExecutedOnce
  <2>2. executed'[a] \in {0, 1} /\ \A b \in Actor : b # a => executed'[b] = executed[b]
    BY <1>0, <1>1 DEF TypeOK
  <2> QED BY <1>0, <2>1, <2>2 DEF ExecutedOnce
<1>5. CallInv'
  BY <1>0, <1>1 DEF CallInv, Cached, TypeOK, actorVars
<1> QED BY <1>2, <1>3, <1>4, <1>5

LEMMA AnswerStep ==
  ASSUME RetryInv, NEW a \in Actor, Answer(a)
  PROVE  RetryInv'
<1> USE RetryAssumption DEF RetryInv
<1>1. TypeOK'
  BY DEF Answer, Return, TypeOK, Outcome, actorVars, callVars
<1>2. NoSharedConnection'
  BY DEF Answer, Return, TypeOK, NoSharedConnection, CacheInv, Cached, actorVars, callVars
<1>3. ExecutedOnce'
  BY DEF Answer, Return, TypeOK, ExecutedOnce, CallInv, actorVars, callVars
<1>4. CacheInv'
  BY DEF Answer, Return, TypeOK, CacheInv, actorVars, callVars
<1>5. CallInv'
  BY DEF Answer, Return, TypeOK, CallInv, CacheInv, ExecutedOnce, Cached, actorVars, callVars
<1> QED BY <1>1, <1>2, <1>3, <1>4, <1>5

LEMMA AnswerLostStep ==
  ASSUME RetryInv, NEW a \in Actor, AnswerLost(a)
  PROVE  RetryInv'
<1> USE RetryAssumption DEF RetryInv
<1>0. /\ pc[a] \in {"run", "wait"} /\ conn[a] \in dead /\ conn[a] # 0 /\ tries[a] \in 1 .. Times
      /\ tries' = [tries EXCEPT ![a] = @ - 1] /\ test_connection' = test_connection
      /\ UNCHANGED <<actorVars, connCache, conn, executed, made, dead, reachable>>
  <2>1. /\ pc[a] \in {"run", "wait"} /\ conn[a] \in dead /\ conn[a] \in 1 .. made
    BY DEF AnswerLost, TypeOK
  <2>2. tries[a] \in 1 .. Times
    <3>1. tries[a] \in 0 .. Times /\ tries[a] > 0
      BY <2>1 DEF TypeOK
    <3> QED BY <3>1
  <2> QED BY <2>1, <2>2 DEF AnswerLost, QueryFails
<1>1. /\ pc' = [pc EXCEPT ![a] = IF tries[a] > 1 THEN "conn" ELSE "idle"]
      /\ outcome' = [outcome EXCEPT ![a] = IF tries[a] > 1 THEN @ ELSE "RuntimeError"]
  BY DEF AnswerLost, QueryFails, Return, TypeOK
<1>2. TypeOK'
  <2>1. tries[a] - 1 \in 0 .. Times /\ (tries[a] > 1 => tries[a] - 1 > 0)
    BY <1>0
  <2>2. tries' \in [Actor -> 0 .. Times] /\ \A b \in Actor : pc'[b] # "idle" => tries'[b] > 0
    BY <1>0, <1>1, <2>1 DEF TypeOK
  <2>3. pc' \in [Actor -> {"idle", "conn", "run", "wait"}] /\ outcome' \in [Actor -> Outcome]
    BY <1>1 DEF TypeOK, Outcome
  <2> QED BY <1>0, <2>2, <2>3 DEF TypeOK, actorVars
<1>3. NoSharedConnection' /\ CacheInv'
  BY <1>0, <1>1 DEF NoSharedConnection, CacheInv, Cached, TypeOK, actorVars
<1>4. ExecutedOnce'
  BY <1>0, <1>1 DEF ExecutedOnce, TypeOK
<1>5. ~test_connection[a]
  \* a test is only asked for by an iteration that ends unbound
  BY <1>0 DEF CallInv
<1>6. CallInv'
  BY <1>0, <1>1, <1>5 DEF CallInv, Cached, TypeOK, actorVars
<1> QED BY <1>2, <1>3, <1>4, <1>6

LEMMA ForkStep ==
  ASSUME RetryInv, NEW a \in Actor, NEW b \in Actor, Fork(a, b)
  PROVE  RetryInv'
<1> USE RetryAssumption DEF RetryInv
<1>1. TypeOK'
  BY DEF Fork, TypeOK, Outcome, actorVars, callVars
<1>2. NoSharedConnection'
  BY DEF Fork, TypeOK, NoSharedConnection, CacheInv, Cached, actorVars, callVars
<1>3. ExecutedOnce'
  BY DEF Fork, TypeOK, ExecutedOnce, CallInv, actorVars, callVars
<1>4. CacheInv'
  BY DEF Fork, TypeOK, CacheInv, actorVars, callVars
<1>5. CallInv'
  BY DEF Fork, TypeOK, CallInv, CacheInv, ExecutedOnce, Cached, actorVars, callVars
<1> QED BY <1>1, <1>2, <1>3, <1>4, <1>5

LEMMA StartThreadStep ==
  ASSUME RetryInv, NEW a \in Actor, NEW b \in Actor, StartThread(a, b)
  PROVE  RetryInv'
<1> USE RetryAssumption DEF RetryInv
<1>1. TypeOK'
  BY DEF StartThread, TypeOK, Outcome, actorVars, callVars
<1>2. NoSharedConnection'
  BY DEF StartThread, TypeOK, NoSharedConnection, CacheInv, Cached, actorVars, callVars
<1>3. ExecutedOnce'
  BY DEF StartThread, TypeOK, ExecutedOnce, CallInv, actorVars, callVars
<1>4. CacheInv'
  BY DEF StartThread, TypeOK, CacheInv, actorVars, callVars
<1>5. CallInv'
  BY DEF StartThread, TypeOK, CallInv, CacheInv, ExecutedOnce, Cached, actorVars, callVars
<1> QED BY <1>1, <1>2, <1>3, <1>4, <1>5

LEMMA DieStep ==
  ASSUME RetryInv, NEW c \in 1 .. MaxConn, Die(c)
  PROVE  RetryInv'
<1> USE RetryAssumption DEF RetryInv
<1>1. TypeOK'
  BY DEF Die, TypeOK, Outcome, actorVars, callVars
<1>2. NoSharedConnection'
  BY DEF Die, TypeOK, NoSharedConnection, CacheInv, Cached, actorVars, callVars
<1>3. ExecutedOnce'
  BY DEF Die, TypeOK, ExecutedOnce, CallInv, actorVars, callVars
<1>4. CacheInv'
  BY DEF Die, TypeOK, CacheInv, actorVars, callVars
<1>5. CallInv'
  BY DEF Die, TypeOK, CallInv, CacheInv, ExecutedOnce, Cached, actorVars, callVars
<1> QED BY <1>1, <1>2, <1>3, <1>4, <1>5

LEMMA ServerComesAndGoesStep ==
  ASSUME RetryInv, ServerComesAndGoes
  PROVE  RetryInv'
<1> USE RetryAssumption DEF RetryInv
<1>1. TypeOK'
  BY DEF ServerComesAndGoes, TypeOK, Outcome, actorVars, callVars
<1>2. NoSharedConnection'
  BY DEF ServerComesAndGoes, TypeOK, NoSharedConnection, CacheInv, Cached, actorVars, callVars
<1>3. ExecutedOnce'
  BY DEF ServerComesAndGoes, TypeOK, ExecutedOnce, CallInv, actorVars, callVars
<1>4. CacheInv'
  BY DEF ServerComesAndGoes, TypeOK, CacheInv, actorVars, callVars
<1>5. CallInv'
  BY DEF ServerComesAndGoes, TypeOK, CallInv, CacheInv, ExecutedOnce, Cached, actorVars, callVars
<1> QED BY <1>1, <1>2, <1>3, <1>4, <1>5

-----------------------------------------------------------------------------
LEMMA InitInv == Init => RetryInv
<1> SUFFICES ASSUME Init PROVE RetryInv
  OBVIOUS
<1>1. TypeOK
  BY RetryAssumption DEF Init, TypeOK, Outcome
<1>2. NoSharedConnection /\ ExecutedOnce /\ CacheInv /\ CallInv
  BY RetryAssumption DEF Init, NoSharedConnection, ExecutedOnce, CacheInv, CallInv, Cached
<1> QED BY <1>1, <1>2 DEF RetryInv

LEMMA StepInv == RetryInv /\ [Next]_vars => RetryInv'
<1> SUFFICES ASSUME RetryInv, [Next]_vars PROVE RetryInv'
  OBVIOUS
<1>1. ASSUME NEW a \in Actor,
             \/ DirectConn(a) \/ Call(a) \/ GetConn(a) \/ Unbound(a)
             \/ SendFails(a) \/ Send(a) \/ Answer(a) \/ AnswerLost(a)
      PROVE  RetryInv'
  BY <1>1, DirectConnStep, CallStep, GetConnStep, UnboundStep, SendFailsStep, SendStep,
     AnswerStep, AnswerLostStep
<1>2. ASSUME NEW a \in Actor, NEW b \in Actor, Fork(a, b) \/ StartThread(a, b)
      PROVE  RetryInv'
  BY <1>2, ForkStep, StartThreadStep
<1>3. ASSUME NEW c \in 1 .. MaxConn, Die(c)
      PROVE  RetryInv'
  BY <1>3, DieStep
<1>4. CASE ServerComesAndGoes
  BY <1>4, ServerComesAndGoesStep
<1>5. CASE UNCHANGED vars
  BY <1>5 DEF vars, actorVars, callVars, RetryInv, TypeOK, NoSharedConnection, ExecutedOnce,
              CacheInv, CallInv, Cached
<1> QED BY <1>1, <1>2, <1>3, <1>4, <1>5 DEF Next

(* The inductive invariant, for any number of actors, iterations and       *)
(* connections.                                                            *)
THEOREM RetryInvariant == Spec => []RetryInv
  BY InitInv, StepInv, PTL DEF Spec

(* A connection is used by one thread of one process, whatever is forked   *)
(* when: the cache of conn() is keyed by the pid and local to a thread.    *)
THEOREM ConnectionsNotShared == Spec => []NoSharedConnection
<1>1. RetryInv => NoSharedConnection
  BY DEF RetryInv
<1> QED BY <1>1, RetryInvariant, PTL

(* The loop of __call__ never has a query executed twice.                  *)
THEOREM QueriesExecutedOnce == Spec => []ExecutedOnce
<1>1. RetryInv => ExecutedOnce
  BY DEF RetryInv
<1> QED BY <1>1, RetryInvariant, PTL

-----------------------------------------------------------------------------
(* IndexRebuild.                                                           *)

LEMMA ConstantsOK ==
  None \notin Index /\ Concurrent \in Nat \ {0} /\ IsFiniteSet(Index) /\ MaxRuns \in Nat
  BY IndexRebuildAssumption DEF IndexRebuildAssumption

LEMMA InitRebuild == RebuildInit => RebuildInv
<1> SUFFICES ASSUME RebuildInit PROVE RebuildInv
  OBVIOUS
<1> USE ConstantsOK DEF RebuildInit
<1>1. RebuildTypeOK
  <2>1. {function, temp} \subseteq [Index -> Index \cup {None}]
    BY DEF RebuildInit
  <2>2. {outdated, ready, temp_ready} \subseteq [Index -> BOOLEAN]
    BY DEF RebuildInit
  <2>3. runs \in 0 .. MaxRuns /\ current = None /\ stage = "idle"
    BY DEF RebuildInit
  <2> QED BY <2>1, <2>2, <2>3 DEF RebuildTypeOK
<1>2. IndexSurvives /\ SuccessMeansCurrent /\ CopiesInv
  BY DEF IndexSurvives, SuccessMeansCurrent, CopiesInv
<1>3. ProgressInv
  BY DEF ProgressInv, Building
<1> QED BY <1>1, <1>2, <1>3 DEF RebuildInv

(* Steps of the tool that change nothing on the server.                    *)
LEMMA ControlStep ==
  ASSUME RebuildInv, Run \/ Select \/ Wipe \/ List \/ Poll \/ PollDone \/ RunDies
  PROVE  RebuildInv'
<1> USE ConstantsOK DEF RebuildInv, server
<1>0. server' = server
  BY DEF Run, Select, Wipe, List, Poll, PollDone, RunDies
<1>1. IndexSurvives' /\ CopiesInv'
  BY <1>0 DEF IndexSurvives, CopiesInv
<1>2. CASE Run
  <2>0. runs' \in 0 .. MaxRuns
    BY <1>2 DEF Run, RebuildTypeOK
  <2>1. RebuildTypeOK' /\ SuccessMeansCurrent'
    BY <1>2, <2>0 DEF Run, RebuildTypeOK, SuccessMeansCurrent
  <2>2. ProgressInv'
    BY <1>2 DEF Run, ProgressInv, Building
  <2> QED BY <1>1, <2>1, <2>2
<1>3. CASE Select
  <2>1. RebuildTypeOK' /\ SuccessMeansCurrent'
    BY <1>3 DEF Select, End, RebuildTypeOK, SuccessMeansCurrent, ProgressInv
  <2>2. ProgressInv'
    BY <1>3 DEF Select, End, ProgressInv, Building
  <2> QED BY <1>1, <2>1, <2>2
<1>4. CASE Wipe
  <2>1. RebuildTypeOK' /\ SuccessMeansCurrent'
    BY <1>4 DEF Wipe, End, RebuildTypeOK, SuccessMeansCurrent, ProgressInv
  <2>2. ProgressInv'
    BY <1>4 DEF Wipe, End, ProgressInv, Building, Leftovers
  <2> QED BY <1>1, <2>1, <2>2
<1>5. CASE List
  <2>0. in_progress = {} /\ in_progress' = {} /\ Leftovers' = {} /\ result' = "none"
    BY <1>5 DEF List, ProgressInv, Leftovers
  <2>1. RebuildTypeOK' /\ SuccessMeansCurrent'
    BY <1>5, <2>0 DEF List, RebuildTypeOK, SuccessMeansCurrent
  <2>2. Cardinality(in_progress') <= Concurrent
    BY <2>0, FS_EmptySet
  <2>3. ProgressInv'
    BY <1>5, <2>0, <2>2 DEF List, ProgressInv, Building, Exists
  <2> QED BY <1>1, <2>1, <2>3
<1>6. CASE Poll
  <2>1. PICK i \in pending : /\ pending' = pending \ {i} /\ current' = i
                             /\ stage' = IF temp_ready[i] THEN "rename" ELSE "poll"
    BY <1>6 DEF Poll
  <2>2. i \in in_progress /\ i \in Index
    BY <1>6, <2>1 DEF Poll, ProgressInv, RebuildTypeOK
  <2>3. stage' = "rename" => temp[i] # None
    BY <2>1, <2>2 DEF CopiesInv
  <2>4. RebuildTypeOK' /\ SuccessMeansCurrent'
    BY <1>6, <2>1, <2>2, <2>3 DEF Poll, RebuildTypeOK, SuccessMeansCurrent, ProgressInv
  <2>5. ProgressInv'
    BY <1>6, <2>1, <2>2 DEF Poll, ProgressInv, Building, Leftovers, Exists
  <2> QED BY <1>1, <2>4, <2>5
<1>7. CASE PollDone
  <2>1. RebuildTypeOK' /\ SuccessMeansCurrent'
    BY <1>7 DEF PollDone, RebuildTypeOK, SuccessMeansCurrent, ProgressInv
  <2>2. ProgressInv'
    BY <1>7 DEF PollDone, ProgressInv, Building, Leftovers, Exists
  <2> QED BY <1>1, <2>1, <2>2
<1>8. CASE RunDies
  <2>1. RebuildTypeOK' /\ SuccessMeansCurrent'
    BY <1>8 DEF RunDies, End, RebuildTypeOK, SuccessMeansCurrent
  <2>2. ProgressInv'
    BY <1>8 DEF RunDies, End, ProgressInv, Building
  <2> QED BY <1>1, <2>1, <2>2
<1> QED BY <1>2, <1>3, <1>4, <1>5, <1>6, <1>7, <1>8

(* The loop: an index is taken up only if there is room for it, and the    *)
(* run succeeds only when nothing is left to do.                           *)
LEMMA FillStep ==
  ASSUME RebuildInv, Fill
  PROVE  RebuildInv'
<1> USE ConstantsOK DEF RebuildInv
<1>0. stage = "fill" /\ UNCHANGED <<server, force, selected, runs, killed>>
  BY DEF Fill, FillLoop
<1>1. IndexSurvives' /\ CopiesInv'
  BY <1>0 DEF IndexSurvives, CopiesInv, server
<1>2. CASE to_build # {} /\ Cardinality(in_progress) < Concurrent
  <2>1. PICK i \in to_build : /\ to_build' = to_build \ {i}
                              /\ in_progress' = in_progress \cup {i}
                              /\ current' = i /\ stage' = "create"
                              /\ UNCHANGED <<result, pending>>
    BY <1>2 DEF Fill, FillLoop
  <2>2. RebuildTypeOK'
    BY <1>0, <2>1 DEF RebuildTypeOK, server
  <2>3. SuccessMeansCurrent'
    BY <1>0, <2>1 DEF SuccessMeansCurrent, ProgressInv
  <2>4. Cardinality(in_progress') <= Concurrent
    <3>1. IsFiniteSet(in_progress) /\ i \notin in_progress
      BY FS_Subset DEF RebuildTypeOK
    <3>2. Cardinality(in_progress') = Cardinality(in_progress) + 1
      BY <2>1, <3>1, FS_AddElement
    <3>3. Cardinality(in_progress) \in Nat
      BY <3>1, FS_CardinalityType
    <3> QED BY <1>2, <3>2, <3>3
  <2>5. ProgressInv'
    BY <1>0, <2>1, <2>4 DEF ProgressInv, Building, Leftovers, Exists, server
  <2> QED BY <1>1, <2>2, <2>3, <2>5
<1>3. CASE ~(to_build # {} /\ Cardinality(in_progress) < Concurrent)
  <2>1. /\ IF AllDone THEN End("success") ELSE stage' = "poll" /\ UNCHANGED result
        /\ pending' = in_progress
        /\ UNCHANGED <<to_build, in_progress, current>>
    BY <1>3 DEF Fill, FillLoop
  <2>2. RebuildTypeOK'
    BY <1>0, <2>1 DEF RebuildTypeOK, End, server
  <2>3. SuccessMeansCurrent'
    BY <1>0, <2>1 DEF SuccessMeansCurrent, ProgressInv, End, AllDone, Building, Leftovers, Exists,
                      server
  <2>4. ProgressInv'
    BY <1>0, <2>1 DEF ProgressInv, Building, Leftovers, Exists, End, server
  <2> QED BY <1>1, <2>2, <2>3, <2>4
<1> QED BY <1>2, <1>3

(* The copy that is created computes what the index computes.              *)
LEMMA CreateStep ==
  ASSUME RebuildInv, Create
  PROVE  RebuildInv'
<1> USE ConstantsOK DEF RebuildInv
<1>0. /\ stage = "create" /\ current \in in_progress /\ current \in Index
      /\ UNCHANGED <<function, outdated, ready, dropped, force, selected, runs, killed, to_build,
                     in_progress, current, pending>>
  BY DEF Create, RebuildTypeOK
<1>1. CASE Exists(current) /\ temp[current] = None
  <2>1. /\ stage' = "fill" /\ result' = result
        /\ temp' = [temp EXCEPT ![current] = current]
        /\ temp_ready' = [temp_ready EXCEPT ![current] = FALSE]
    BY <1>0, <1>1 DEF Create, Exists, CopiesInv
  <2>2. RebuildTypeOK' /\ CopiesInv'
    BY <1>0, <2>1 DEF RebuildTypeOK, CopiesInv
  <2>3. IndexSurvives' /\ SuccessMeansCurrent'
    BY <1>0, <2>1 DEF IndexSurvives, SuccessMeansCurrent, ProgressInv
  <2>4. Leftovers' \subseteq Leftovers \cup {current}
    BY <1>0, <2>1 DEF Leftovers, RebuildTypeOK
  <2>5. ProgressInv'
    BY <1>0, <2>1, <2>4 DEF ProgressInv, Building, Exists
  <2> QED BY <2>2, <2>3, <2>5
<1>2. CASE Exists(current) /\ temp[current] # None
  <2>1. stage' = "fill" /\ UNCHANGED <<result, temp, temp_ready>>
    BY <1>2 DEF Create
  <2>2. RebuildTypeOK' /\ CopiesInv' /\ IndexSurvives' /\ SuccessMeansCurrent'
    BY <1>0, <2>1 DEF RebuildTypeOK, CopiesInv, IndexSurvives, SuccessMeansCurrent, ProgressInv
  <2>3. ProgressInv'
    BY <1>0, <2>1 DEF ProgressInv, Building, Leftovers, Exists
  <2> QED BY <2>2, <2>3
<1>3. CASE ~Exists(current)
  <2>1. stage' = "idle" /\ result' = "failed" /\ UNCHANGED <<temp, temp_ready>>
    BY <1>3 DEF Create, End
  <2>2. RebuildTypeOK' /\ CopiesInv' /\ IndexSurvives' /\ SuccessMeansCurrent'
    BY <1>0, <2>1 DEF RebuildTypeOK, CopiesInv, IndexSurvives, SuccessMeansCurrent
  <2>3. ProgressInv'
    BY <1>0, <2>1 DEF ProgressInv, Building
  <2> QED BY <2>2, <2>3
<1> QED BY <1>1, <1>2, <1>3

(* Only a finished copy takes the place of the index.                      *)
LEMMA RenameStep ==
  ASSUME RebuildInv, Rename
  PROVE  RebuildInv'
<1> USE ConstantsOK DEF RebuildInv
<1>0. /\ stage = "rename" /\ stage' = "poll" /\ current \in in_progress /\ current \in Index
      /\ temp[current] = current /\ temp_ready[current] = TRUE /\ result = "none"
      /\ function' = [function EXCEPT ![current] = current]
      /\ outdated' = [outdated EXCEPT ![current] = FALSE]
      /\ ready' = [ready EXCEPT ![current] = TRUE]
      /\ temp' = [temp EXCEPT ![current] = None]
      /\ temp_ready' = [temp_ready EXCEPT ![current] = FALSE]
      /\ in_progress' = in_progress \ {current}
      /\ UNCHANGED <<dropped, force, selected, runs, result, killed, to_build, current, pending>>
  <2>1. stage = "rename" /\ current \in in_progress /\ current \in Index /\ temp_ready[current]
    BY DEF Rename, RenameTo, RebuildTypeOK, ProgressInv
  <2>2. temp[current] = current /\ temp_ready[current] = TRUE /\ result = "none"
    BY <2>1 DEF CopiesInv, ProgressInv, RebuildTypeOK
  <2> QED BY <2>1, <2>2 DEF Rename, RenameTo
<1>1. RebuildTypeOK' /\ CopiesInv'
  BY <1>0 DEF RebuildTypeOK, CopiesInv
<1>2. IndexSurvives' /\ SuccessMeansCurrent'
  BY <1>0 DEF IndexSurvives, SuccessMeansCurrent, RebuildTypeOK
<1>3. Cardinality(in_progress') <= Concurrent
  <2>1. IsFiniteSet(in_progress)
    BY FS_Subset DEF RebuildTypeOK
  <2>2. Cardinality(in_progress') <= Cardinality(in_progress)
    BY <1>0, <2>1, FS_Subset
  <2>3. Cardinality(in_progress) \in Nat /\ Cardinality(in_progress') \in Nat
    BY <1>0, <2>1, FS_CardinalityType, FS_Subset
  <2>4. Cardinality(in_progress) <= Concurrent
    BY <1>0 DEF ProgressInv, Building
  <2> QED BY <2>2, <2>3, <2>4
<1>4. Leftovers' \subseteq in_progress'
  BY <1>0 DEF Leftovers, ProgressInv, Building, RebuildTypeOK
<1>5. ProgressInv'
  BY <1>0, <1>3, <1>4 DEF ProgressInv, Building, Exists, RebuildTypeOK
<1> QED BY <1>1, <1>2, <1>5

(* What the server and the owner of an index do by themselves.             *)
LEMMA ServerStep ==
  ASSUME RebuildInv, NEW i \in Index, Build(i) \/ Drop(i)
  PROVE  RebuildInv'
<1> USE ConstantsOK DEF RebuildInv, tool
<1>1. CASE Build(i)
  <2>1. RebuildTypeOK' /\ CopiesInv'
    BY <1>1 DEF Build, RebuildTypeOK, CopiesInv
  <2>2. IndexSurvives' /\ SuccessMeansCurrent'
    BY <1>1 DEF Build, IndexSurvives, SuccessMeansCurrent, Leftovers, Exists
  <2>3. \A j \in Index : temp_ready[j] => temp_ready'[j]
    BY <1>1 DEF Build, RebuildTypeOK
  <2>4. ProgressInv'
    BY <1>1, <2>3 DEF Build, ProgressInv, Building, Leftovers, Exists, RebuildTypeOK
  <2> QED BY <2>1, <2>2, <2>4
<1>2. CASE Drop(i)
  <2>1. RebuildTypeOK' /\ CopiesInv'
    BY <1>2 DEF Drop, RebuildTypeOK, CopiesInv
  <2>2. \A j \in Index : Exists(j)' => Exists(j)
    BY <1>2 DEF Drop, Exists, RebuildTypeOK
  <2>3. IndexSurvives'
    BY <1>2 DEF Drop, IndexSurvives, RebuildTypeOK
  <2>4. SuccessMeansCurrent' /\ ProgressInv'
    BY <1>2, <2>2 DEF Drop, SuccessMeansCurrent, ProgressInv, Building, Leftovers, RebuildTypeOK
  <2> QED BY <2>1, <2>3, <2>4
<1> QED BY <1>1, <1>2

-----------------------------------------------------------------------------
LEMMA StepRebuild == RebuildInv /\ [RebuildNext]_rebuildVars => RebuildInv'
<1> SUFFICES ASSUME RebuildInv, [RebuildNext]_rebuildVars PROVE RebuildInv'
  OBVIOUS
<1>1. CASE Run \/ ToolStep \/ RunDies
  BY <1>1, ControlStep, FillStep, CreateStep, RenameStep DEF ToolStep
<1>2. ASSUME NEW i \in Index, Build(i) \/ Drop(i) PROVE RebuildInv'
  BY <1>2, ServerStep
<1>3. CASE UNCHANGED rebuildVars
  BY <1>3 DEF rebuildVars, server, tool, RebuildInv, RebuildTypeOK, IndexSurvives,
              SuccessMeansCurrent,
              CopiesInv, ProgressInv, Building, Leftovers, Exists
<1> QED BY <1>1, <1>2, <1>3 DEF RebuildNext

(* The inductive invariant of the rebuild, wherever runs of it die.        *)
THEOREM RebuildInvariant == RebuildSpec => []RebuildInv
  BY InitRebuild, StepRebuild, PTL DEF RebuildSpec

(* No index is ever lost, changed or unusable: rebuild_indexes() builds a  *)
(* copy and renames it over the index in one query when it is ready.       *)
THEOREM IndexesSurvive == RebuildSpec => []IndexSurvives
<1>1. RebuildInv => IndexSurvives
  BY DEF RebuildInv
<1> QED BY <1>1, RebuildInvariant, PTL

(* A run that reports success has left no outdated index it was given and  *)
(* no temporary one.                                                       *)
THEOREM SuccessIsComplete == RebuildSpec => []SuccessMeansCurrent
<1>1. RebuildInv => SuccessMeansCurrent
  BY DEF RebuildInv
<1> QED BY <1>1, RebuildInvariant, PTL

(* The bound of options.concurrent on what the server builds at once.      *)
THEOREM ConcurrencyBounded == RebuildSpec => []NotTooMany
<1>1. RebuildInv => NotTooMany
  <2> SUFFICES ASSUME RebuildInv, stage \in Building
               PROVE  Cardinality(Leftovers) <= Concurrent
    BY DEF NotTooMany
  <2>1. IsFiniteSet(in_progress) /\ Leftovers \subseteq in_progress
    BY ConstantsOK, FS_Subset DEF RebuildInv, RebuildTypeOK, ProgressInv
  <2>2. IsFiniteSet(Leftovers) /\ Cardinality(Leftovers) <= Cardinality(in_progress)
    BY <2>1, FS_Subset
  <2>3. Cardinality(Leftovers) \in Nat /\ Cardinality(in_progress) \in Nat
    BY <2>1, <2>2, FS_CardinalityType
  <2>4. Cardinality(in_progress) <= Concurrent
    BY DEF RebuildInv, ProgressInv
  <2> QED BY <2>2, <2>3, <2>4, ConstantsOK
<1> QED BY <1>1, RebuildInvariant, PTL
=============================================================================
