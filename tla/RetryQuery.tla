----------------------------- MODULE RetryQuery -----------------------------
(***************************************************************************)
(* RetryQuery of utils_common.py: the connections the command line tools   *)
(* keep and the loop that repeats a query.  One object is used by several  *)
(* processes (forked with a copy of it) and by threads of a process.       *)
(*                                                                         *)
(* An actor is a thread of control; its pid is the actor that started the  *)
(* process it runs in.  A query is the work of one call.                   *)
(***************************************************************************)
EXTENDS Naturals

CONSTANTS
    Actor,    \* threads of control there may be
    Root,     \* the one that creates the object
    Times,    \* `times' of __call__, 5 unless the caller says otherwise
    MaxConn   \* bound: connections made

ASSUME RetryAssumption ==
    /\ Root \in Actor
    /\ Times \in Nat \ {0}
    /\ MaxConn \in Nat

VARIABLES
    born,             \* actors started
    pid,              \* os.getpid()
    connCache,        \* __local.connCache: per actor, from pids to connections; 0 is no entry
    \* __call__
    pc,               \* "idle", "conn" (about to call conn()), "run", or "wait" for the answer
    tries,            \* iterations left
    test_connection,
    conn,             \* 0 while unbound
    executed,         \* times the server has executed the query of the call
    outcome,
    \* Connections
    made,             \* connections made so far, numbered from 1
    dead,             \* those that no longer work
    reachable         \* the server accepts connections

actorVars == <<born, pid>>
callVars  == <<pc, tries, test_connection, conn, executed, outcome>>
vars == <<actorVars, connCache, callVars, made, dead, reachable>>

Outcome == {"none", "value", "connected", "ReqlError", "RuntimeError", "UnboundLocalError"}

Init ==
    /\ born = {Root} /\ pid = [a \in Actor |-> a]
    /\ connCache = [a \in Actor |-> [p \in Actor |-> 0]]
    /\ pc = [a \in Actor |-> "idle"]
    /\ tries = [a \in Actor |-> 0]
    /\ test_connection = [a \in Actor |-> FALSE]
    /\ conn = [a \in Actor |-> 0]
    /\ executed = [a \in Actor |-> 0]
    /\ outcome = [a \in Actor |-> "none"]
    /\ made = 0 /\ dead = {} /\ reachable = TRUE

Cached(a) == connCache[a][pid[a]]

Return(a, result) ==
    /\ pc' = [pc EXCEPT ![a] = "idle"]
    /\ outcome' = [outcome EXCEPT ![a] = result]

-----------------------------------------------------------------------------
(* RetryQuery.conn: a cached connection is tested if asked for, and        *)
(* forgotten when it fails; a new one is made when none is left.           *)
KeepsCached(a, test) == Cached(a) # 0 /\ (test => Cached(a) \notin dead)

ConnReturns(a, test, c) ==
    \/ /\ KeepsCached(a, test)
       /\ c = Cached(a)
       /\ UNCHANGED <<connCache, made>>
    \/ /\ ~KeepsCached(a, test) /\ reachable /\ made < MaxConn
       /\ c = made + 1
       /\ made' = c
       /\ connCache' = [connCache EXCEPT ![a][pid[a]] = c]

ConnRaises(a, test) ==
    /\ ~KeepsCached(a, test) /\ ~reachable
    /\ connCache' = [connCache EXCEPT ![a][pid[a]] = 0]
    /\ UNCHANGED made

(* conn() called by itself, with test_connection=True: by the option       *)
(* parser and by the interactive interpreter of __main__.py.               *)
DirectConn(a) ==
    /\ a \in born /\ pc[a] = "idle"
    /\ \/ (\E c \in 1 .. MaxConn : ConnReturns(a, TRUE, c)) /\ Return(a, "connected")
       \/ ConnRaises(a, TRUE) /\ Return(a, "ReqlError")
    /\ UNCHANGED <<actorVars, tries, test_connection, conn, executed, dead, reachable>>

(* __call__ up to its loop; it overrides the parameter test_connection.    *)
Call(a) ==
    /\ a \in born /\ pc[a] = "idle"
    /\ pc' = [pc EXCEPT ![a] = "conn"]
    /\ tries' = [tries EXCEPT ![a] = Times]
    /\ test_connection' = [test_connection EXCEPT ![a] = FALSE]
    /\ conn' = [conn EXCEPT ![a] = 0]
    /\ executed' = [executed EXCEPT ![a] = 0]
    /\ outcome' = [outcome EXCEPT ![a] = "none"]
    /\ UNCHANGED <<actorVars, connCache, made, dead, reachable>>

(* An iteration of the loop: conn().  When it raises, the loop goes on to  *)
(* run the query all the same.                                             *)
GetConn(a) ==
    /\ pc[a] = "conn"
    /\ \/ /\ \E c \in 1 .. MaxConn : /\ ConnReturns(a, test_connection[a], c)
                                     /\ conn' = [conn EXCEPT ![a] = c]
          /\ UNCHANGED test_connection
       \/ /\ ConnRaises(a, test_connection[a])
          /\ test_connection' = [test_connection EXCEPT ![a] = TRUE]
          /\ UNCHANGED conn
    /\ pc' = [pc EXCEPT ![a] = "run"]
    /\ UNCHANGED <<actorVars, tries, executed, outcome, dead, reachable>>

(* Mutant: the connection is tested after a failure, so that the next      *)
(* iteration repeats the query on a fresh one.                             *)
QueryFailsRetests(a) ==
    /\ tries' = [tries EXCEPT ![a] = @ - 1]
    /\ IF tries[a] > 1
       THEN pc' = [pc EXCEPT ![a] = "conn"] /\ UNCHANGED outcome
       ELSE Return(a, "RuntimeError")
    /\ test_connection' = [test_connection EXCEPT ![a] = TRUE]

(* A ReqlTimeoutError or ReqlDriverError of the query: the next iteration, *)
(* or the last error.                                                      *)
QueryFails(a) ==
    /\ tries' = [tries EXCEPT ![a] = @ - 1]
    /\ IF tries[a] > 1
       THEN pc' = [pc EXCEPT ![a] = "conn"] /\ UNCHANGED outcome
       ELSE Return(a, "RuntimeError")
    /\ UNCHANGED test_connection

(* query_str.run(conn): it is sent, and executed unless it is lost with    *)
(* the connection.                                                         *)
Unbound(a) ==
    /\ pc[a] = "run" /\ conn[a] = 0
    /\ Return(a, "UnboundLocalError")
    /\ UNCHANGED <<actorVars, connCache, tries, test_connection, conn, executed, made,
                   dead, reachable>>

SendFails(a) ==
    /\ pc[a] = "run" /\ conn[a] \in dead
    /\ QueryFails(a)
    /\ UNCHANGED <<actorVars, connCache, conn, executed, made, dead, reachable>>

Send(a) ==
    /\ pc[a] = "run" /\ conn[a] # 0 /\ conn[a] \notin dead
    /\ pc' = [pc EXCEPT ![a] = "wait"]
    /\ \/ /\ executed' = [executed EXCEPT ![a] = @ + 1]
          /\ UNCHANGED dead
       \/ /\ dead' = dead \cup {conn[a]}
          /\ UNCHANGED executed
    /\ UNCHANGED <<actorVars, connCache, tries, test_connection, conn, outcome, made, reachable>>

(* The answer: a value, or an error of the query, which bubbles up.        *)
Answer(a) ==
    /\ pc[a] = "wait" /\ conn[a] \notin dead
    /\ \E result \in {"value", "ReqlError"} : Return(a, result)
    /\ UNCHANGED <<actorVars, connCache, tries, test_connection, conn, executed, made,
                   dead, reachable>>

AnswerLost(a) ==
    /\ pc[a] = "wait" /\ conn[a] \in dead
    /\ QueryFails(a)
    /\ UNCHANGED <<actorVars, connCache, conn, executed, made, dead, reachable>>

-----------------------------------------------------------------------------
(* Mutant: the cache is not kept by pid.                                   *)
ForkKeepsKey(a, b) ==
    /\ a \in born /\ pc[a] = "idle" /\ b \in Actor \ born
    /\ born' = born \cup {b}
    /\ pid' = [pid EXCEPT ![b] = pid[a]]
    /\ connCache' = [connCache EXCEPT ![b] = connCache[a]]
    /\ UNCHANGED <<callVars, made, dead, reachable>>

(* multiprocessing.Process: the child has a copy of the forking thread's   *)
(* cache, and a pid of its own.                                            *)
Fork(a, b) ==
    /\ a \in born /\ pc[a] = "idle" /\ b \in Actor \ born
    /\ born' = born \cup {b}
    /\ connCache' = [connCache EXCEPT ![b] = connCache[a]]
    /\ UNCHANGED <<pid, callVars, made, dead, reachable>>

(* A thread: the same pid, and a thread-local cache of its own.            *)
StartThread(a, b) ==
    /\ a \in born /\ b \in Actor \ born
    /\ born' = born \cup {b}
    /\ pid' = [pid EXCEPT ![b] = pid[a]]
    /\ UNCHANGED <<connCache, callVars, made, dead, reachable>>

(* The server restarts, the network fails (external).                      *)
Die(c) ==
    /\ c <= made /\ c \notin dead
    /\ dead' = dead \cup {c}
    /\ UNCHANGED <<actorVars, connCache, callVars, made, reachable>>

ServerComesAndGoes ==
    /\ reachable' = ~reachable
    /\ UNCHANGED <<actorVars, connCache, callVars, made, dead>>

-----------------------------------------------------------------------------
Next ==
    \/ \E a \in Actor :
          \/ DirectConn(a) \/ Call(a) \/ GetConn(a) \/ Unbound(a)
          \/ SendFails(a) \/ Send(a) \/ Answer(a) \/ AnswerLost(a)
    \/ \E a, b \in Actor : Fork(a, b) \/ StartThread(a, b)
    \/ \E c \in 1 .. MaxConn : Die(c)
    \/ ServerComesAndGoes

Spec == Init /\ [][Next]_vars

-----------------------------------------------------------------------------
(* Types; the loop makes at most Times iterations.                         *)
TypeOK ==
    /\ born \subseteq Actor /\ pid \in [Actor -> Actor]
    /\ connCache \in [Actor -> [Actor -> 0 .. made]]
    /\ pc \in [Actor -> {"idle", "conn", "run", "wait"}]
    /\ tries \in [Actor -> 0 .. Times]
    /\ test_connection \in [Actor -> BOOLEAN]
    /\ conn \in [Actor -> 0 .. made]
    /\ executed \in [Actor -> Nat]
    /\ outcome \in [Actor -> Outcome]
    /\ made \in 0 .. MaxConn /\ dead \subseteq 1 .. made /\ reachable \in BOOLEAN
    /\ \A a \in Actor : pc[a] # "idle" => tries[a] > 0

(* No two threads of control ever use the same connection, though a child  *)
(* inherits its parent's cache: their responses would be read by the wrong *)
(* one (a Connection is not thread safe, and tokens start alike).          *)
NoSharedConnection ==
    \A a, b \in born : a # b => Cached(a) = 0 \/ Cached(a) # Cached(b)

(* A query is executed once when its call succeeds, and never twice, even  *)
(* when an answer is lost: tools repeat queries that are not idempotent.   *)
ExecutedOnce ==
    \A a \in Actor : executed[a] <= 1 /\ (outcome[a] = "value" => executed[a] = 1)

(* The parts of the inductive invariant that are not properties above.     *)

(* A cache has entries only under pids in use; a fresh one has none.       *)
CacheInv ==
    /\ \A a \in born : pid[a] \in born
    /\ \A a \in Actor \ born : /\ pid[a] = a /\ pc[a] = "idle"
                               /\ \A p \in Actor : connCache[a][p] = 0
    /\ \A a, p \in Actor : connCache[a][p] # 0 => p \in born

(* While a call is under way its connection is the cached one; what has    *)
(* been executed without an answer was sent on one that is dead by now.    *)
CallInv ==
    \A a \in Actor :
        /\ pc[a] # "idle" /\ conn[a] # 0 => conn[a] = Cached(a) /\ ~test_connection[a]
        /\ pc[a] = "conn" => ~test_connection[a]
        /\ pc[a] \in {"conn", "run"} /\ executed[a] = 1 => conn[a] \in dead
        /\ pc[a] = "wait" => conn[a] # 0 /\ (executed[a] = 1 \/ conn[a] \in dead)

RetryInv == TypeOK /\ NoSharedConnection /\ ExecutedOnce /\ CacheInv /\ CallInv
=============================================================================
