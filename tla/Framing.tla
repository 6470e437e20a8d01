------------------------------ MODULE Framing ------------------------------
(***************************************************************************)
(* How ConnectionInstance._read_response of net.py cuts the byte stream    *)
(* into frames, below the level of Net: SocketWrapper.recvall collects a   *)
(* header, then a body, in chunks of whatever size the network delivers,   *)
(* while the timeout of Cursor.next changes the mode of the socket.        *)
(*                                                                         *)
(* A byte is named by its position in the stream, so that a frame put      *)
(* together from the wrong bytes is seen to be wrong.  Every frame has a   *)
(* header of HeaderLen and a body of BodyLen bytes.                        *)
(***************************************************************************)
EXTENDS Naturals, Sequences

CONSTANTS
    HeaderLen,   \* 12 in the code
    BodyLen,     \* the length the header announces
    MaxBytes     \* bound: bytes the server sends

ASSUME FramingAssumption ==
    HeaderLen \in Nat \ {0} /\ BodyLen \in Nat \ {0} /\ MaxBytes \in Nat

VARIABLES
    arrived,      \* bytes that have reached the kernel's buffer
    pos,          \* bytes the driver has taken from it
    dead,         \* nothing more arrives
    sock,         \* SocketWrapper.is_open()
    timeout,      \* of the OS socket: "block", "finite" or "zero"
    read_buffer,  \* _read_buffer (<<>> for None)
    header,       \* _header_in_progress (<<>> for None)
    res,          \* res of the running recvall
    recvall_pc,   \* "idle", "enter" or "recv" of a recvall
    deadline,     \* of the running call: "none", "ahead" or "passed"
    frames,       \* frames handed to the cursors
    last          \* header and body of the last frame, as taken apart

framingVars == <<arrived, pos, dead, sock, timeout, read_buffer, header, res, recvall_pc,
                 deadline, frames, last>>

FrameLen == HeaderLen + BodyLen
Wanted   == IF header = <<>> THEN HeaderLen ELSE BodyLen
InKernel == arrived - pos
Bytes(from, n) == [i \in 1 .. n |-> from + i]

FramingInit ==
    /\ arrived = 0 /\ pos = 0 /\ dead = FALSE /\ sock = "open"
    /\ timeout = "block" /\ read_buffer = <<>> /\ header = <<>> /\ res = <<>>
    /\ recvall_pc = "idle" /\ deadline = "none"
    /\ frames = 0 /\ last = <<>>

Idle == recvall_pc' = "idle" /\ res' = <<>> /\ deadline' = "none"

(* A call blocks in _read_response.  next(wait=False) has a deadline that  *)
(* has passed, next() and run() have none.                                 *)
Call ==
    /\ recvall_pc = "idle" /\ sock = "open"
    /\ deadline' \in {"none", "ahead", "passed"}
    /\ recvall_pc' = "enter"
    /\ UNCHANGED <<arrived, pos, dead, sock, timeout, read_buffer, header, res, frames, last>>

(* recvall up to its loop.                                                 *)
Enter ==
    /\ recvall_pc = "enter"
    /\ res' = read_buffer
    /\ timeout' = CASE deadline = "none"   -> "block"
                    [] deadline = "ahead"  -> "finite"
                    [] deadline = "passed" -> "zero"
    /\ recvall_pc' = "recv"
    /\ UNCHANGED <<arrived, pos, dead, sock, read_buffer, header, deadline, frames, last>>

(* A chunk: from here on recv blocks without a timeout.                    *)
RecvChunk ==
    /\ recvall_pc = "recv" /\ Len(res) < Wanted
    /\ \E n \in 1 .. InKernel :
          /\ n <= Wanted - Len(res)
          /\ res' = res \o Bytes(pos, n)
          /\ pos' = pos + n
    /\ timeout' = "block"
    /\ UNCHANGED <<arrived, dead, sock, read_buffer, header, recvall_pc, deadline, frames, last>>

(* recvall returns the header, and is called again for the body.           *)
HeaderRead ==
    /\ recvall_pc = "recv" /\ header = <<>> /\ Len(res) >= HeaderLen
    /\ header' = res /\ res' = <<>> /\ recvall_pc' = "enter"
    /\ UNCHANGED <<arrived, pos, dead, sock, timeout, read_buffer, deadline, frames, last>>

(* Mutant: the header in progress is not reset after the body.             *)
FrameReadKeepsHeader ==
    /\ recvall_pc = "recv" /\ header # <<>> /\ Len(res) >= BodyLen
    /\ last' = header \o res /\ frames' = frames + 1
    /\ \/ Idle
       \/ recvall_pc' = "enter" /\ res' = <<>> /\ UNCHANGED deadline
    /\ UNCHANGED <<arrived, pos, dead, sock, timeout, read_buffer, header>>

(* recvall returns the body.  The call ends, or reads on: the frame was    *)
(* not the one it waits for.                                               *)
FrameRead ==
    /\ recvall_pc = "recv" /\ header # <<>> /\ Len(res) >= BodyLen
    /\ last' = header \o res /\ frames' = frames + 1
    /\ header' = <<>>
    /\ \/ Idle
       \/ recvall_pc' = "enter" /\ res' = <<>> /\ UNCHANGED deadline
    /\ UNCHANGED <<arrived, pos, dead, sock, timeout, read_buffer>>

(* Mutant: recvall tries again after a timeout.                            *)
RecvallTimeoutRetries ==
    /\ recvall_pc = "recv" /\ Len(res) < Wanted /\ InKernel = 0
    /\ timeout = "finite" /\ deadline = "passed"
    /\ UNCHANGED framingVars

(* socket.timeout.  _read_buffer is never cleared again: that is harmless  *)
(* only because a timeout finds nothing new in res.                        *)
RecvallTimeout ==
    /\ recvall_pc = "recv" /\ Len(res) < Wanted /\ InKernel = 0
    /\ timeout = "finite" /\ deadline = "passed"
    /\ read_buffer' = res /\ timeout' = "block"
    /\ Idle
    /\ UNCHANGED <<arrived, pos, dead, sock, header, frames, last>>

(* EWOULDBLOCK: the socket is left in non-blocking mode.                   *)
RecvallWouldBlock ==
    /\ recvall_pc = "recv" /\ Len(res) < Wanted /\ InKernel = 0 /\ ~dead
    /\ timeout = "zero"
    /\ Idle
    /\ UNCHANGED <<arrived, pos, dead, sock, timeout, read_buffer, header, frames, last>>

(* ECONNRESET or the end of the stream close the socket; another error of  *)
(* the dead connection is raised with the socket open.                     *)
RecvallFails ==
    /\ recvall_pc = "recv" /\ Len(res) < Wanted /\ InKernel = 0 /\ dead
    /\ sock' \in {"open", "closed"}
    /\ Idle
    /\ UNCHANGED <<arrived, pos, dead, timeout, read_buffer, header, frames, last>>

(* The network and the clock (external).                                   *)
Arrive ==
    /\ ~dead /\ arrived < MaxBytes
    /\ arrived' = arrived + 1
    /\ UNCHANGED <<pos, dead, sock, timeout, read_buffer, header, res, recvall_pc,
                   deadline, frames, last>>

Die ==
    /\ ~dead /\ dead' = TRUE
    /\ UNCHANGED <<arrived, pos, sock, timeout, read_buffer, header, res, recvall_pc,
                   deadline, frames, last>>

DeadlinePasses ==
    /\ deadline = "ahead" /\ deadline' = "passed"
    /\ UNCHANGED <<arrived, pos, dead, sock, timeout, read_buffer, header, res, recvall_pc,
                   frames, last>>

Driver ==
    \/ Enter \/ RecvChunk \/ HeaderRead \/ FrameRead
    \/ RecvallTimeout \/ RecvallWouldBlock \/ RecvallFails

FramingNext == Call \/ Driver \/ Arrive \/ Die \/ DeadlinePasses

FramingSpec == FramingInit /\ [][FramingNext]_framingVars

(* The driver runs and time passes; the server owes nothing.               *)
FairFramingSpec == FramingSpec /\ WF_framingVars(Driver) /\ WF_framingVars(DeadlinePasses)

-----------------------------------------------------------------------------
(* While the connection lives, no byte is lost or read twice: what recvall *)
(* holds continues the frames handed out, across timeouts in mid-frame.    *)
NoByteLost ==
    ~dead => LET held == header \o IF recvall_pc = "recv" THEN res ELSE read_buffer
             IN  held = Bytes(frames * FrameLen, pos - frames * FrameLen)

(* Each frame handed out is made of its own bytes, in their order.         *)
FramesIntact == frames > 0 => last = Bytes((frames - 1) * FrameLen, FrameLen)

(* Types; recvall never counts more bytes than the socket delivered.       *)
FramingTypeOK ==
    /\ arrived \in 0 .. MaxBytes /\ pos \in 0 .. arrived
    /\ dead \in BOOLEAN /\ sock \in {"open", "closed"}
    /\ timeout \in {"block", "finite", "zero"}
    /\ {read_buffer, header, res, last} \subseteq Seq(Nat)
    /\ recvall_pc \in {"idle", "enter", "recv"}
    /\ deadline \in {"none", "ahead", "passed"}
    /\ frames \in Nat

(* recvall and _read_response: no byte is lost and no frame is torn.       *)
FramingInv == FramingTypeOK /\ FramesIntact /\ NoByteLost

(* A recvall that has received nothing when the deadline passes gives up.  *)
SilenceTimesOut ==
    (recvall_pc = "recv" /\ timeout # "block" /\ deadline = "passed")
        ~> (recvall_pc = "idle" \/ timeout = "block")
=============================================================================
