---------------------------- MODULE ResultStream ----------------------------
(***************************************************************************)
(* What a cursor promises its reader, without requests, batches, tokens or *)
(* connections (net.py, the comment on class Cursor): rows of the server's *)
(* stream arrive as a gapless prefix and are handed out one by one; the    *)
(* stream is reported complete only when the whole of it has arrived; once *)
(* a cursor is complete, closed or failed, no further row arrives, but     *)
(* those that had arrived are still handed out.                            *)
(***************************************************************************)
EXTENDS Naturals

CONSTANTS Cursor, MaxRows

VARIABLES
    produced,    \* rows of each stream the server has sent
    finished,    \* the server has ended the stream
    available,   \* rows that have arrived at the cursor
    delivered,   \* rows handed to the application
    status       \* "absent", "open", "complete", "closed" or "failed"

vars == <<produced, finished, available, delivered, status>>

Init ==
    /\ produced = [c \in Cursor |-> 0]
    /\ finished = [c \in Cursor |-> FALSE]
    /\ available = [c \in Cursor |-> 0]
    /\ delivered = [c \in Cursor |-> 0]
    /\ status = [c \in Cursor |-> "absent"]

(* The server sends n rows, perhaps the last ones.                         *)
Send(c, n, last) ==
    /\ ~finished[c] \/ n = 0
    /\ produced' = [produced EXCEPT ![c] = @ + n]
    /\ finished' = [finished EXCEPT ![c] = @ \/ last]

(* They arrive.  The first batch creates the cursor; the connection may    *)
(* break over any.                                                         *)
Arrive(c, n, last) ==
    /\ status[c] \in {"absent", "open"}
    /\ available[c] = produced[c]
    /\ Send(c, n, last)
    /\ available' = [available EXCEPT ![c] = @ + n]
    /\ status' \in [Cursor -> {"absent", "open", "complete", "closed", "failed"}]
    /\ status'[c] \in {IF last THEN "complete" ELSE "open", "failed"}
    /\ \A d \in Cursor \ {c} : status'[d] # status[d] => status[d] = "open" /\ status'[d] = "failed"
    /\ UNCHANGED delivered

(* A connection takes all its open cursors with it.                        *)
Breaks ==
    /\ status' \in [Cursor -> {"absent", "open", "complete", "closed", "failed"}]
    /\ \A c \in Cursor : status'[c] # status[c] => status[c] = "open" /\ status'[c] = "failed"

Fail == Breaks /\ UNCHANGED <<produced, finished, available, delivered>>

(* Rows do not arrive: the cursor wants no more, nobody ever gets to see   *)
(* it, or the connection goes with them.                                   *)
Miss(c, n, last) ==
    /\ Send(c, n, last)
    /\ Breaks \/ (status[c] = "absent" /\ status' = [status EXCEPT ![c] = "open"])
    /\ UNCHANGED <<available, delivered>>

Deliver(c) ==
    /\ delivered[c] < available[c]
    /\ delivered' = [delivered EXCEPT ![c] = @ + 1]
    /\ UNCHANGED <<produced, finished, available, status>>

Close(c) ==
    /\ status[c] = "open"
    /\ status' = [status EXCEPT ![c] = "closed"]
    /\ UNCHANGED <<produced, finished, available, delivered>>

Next ==
    \/ \E c \in Cursor, n \in 0 .. MaxRows, last \in BOOLEAN :
          Arrive(c, n, last) \/ Miss(c, n, last)
    \/ \E c \in Cursor : Deliver(c) \/ Close(c)
    \/ Fail

Spec == Init /\ [][Next]_vars
=============================================================================
