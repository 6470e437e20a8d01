----------------------------- MODULE Handshake -----------------------------
(***************************************************************************)
(* Connecting: HandshakeV1_0 of handshake.py, driven by the constructor of *)
(* SocketWrapper in net.py, for one Connection that connects again and     *)
(* again with the same handshake object.                                   *)
(*                                                                         *)
(* Cryptography is symbolic: a proof or a signature is the record of what  *)
(* went into it.  The server (external) sends what it likes, but signs     *)
(* with the password it has stored for the user and no other.              *)
(***************************************************************************)
EXTENDS Naturals, Sequences

CONSTANTS
    Password,      \* passwords there are
    UserPassword,  \* the one the application connects with
    ErrorCode,     \* error codes the server uses
    MaxVersion,    \* bound: the latest protocol version of a server
    MaxAttempt     \* bound: TCP connections made

ASSUME HandshakeAssumption ==
    /\ UserPassword \in Password
    /\ ErrorCode \subseteq Nat
    /\ MaxVersion \in Nat
    /\ MaxAttempt \in Nat

VARIABLES
    \* HandshakeV1_0
    state,             \* _state
    random_nonce,      \* _random_nonce, as the number of the attempt it was made for; 0 is None
    server_signature,  \* _server_signature, NoSignature for None
    \* SocketWrapper.__init__
    pc,                \* "idle", "next" (about to call next_message) or "recv"
    tcp,               \* "none", "open" or "closed"
    late,              \* the deadline has passed
    response,          \* the last one read, NoMessage for None
    outcome,           \* how the last attempt ended
    \* The network and the server
    attempt,           \* TCP connections so far
    stored,            \* the password the server has for the user
    requests,          \* sent on this TCP connection
    responses,         \* sent by the server on it
    taken,             \* how many of those the driver has read
    accepted,          \* the server has accepted the proof
    fault              \* the attempt met something that excuses a failure

hsVars   == <<state, random_nonce, server_signature>>
sockVars == <<pc, tcp, late, response, outcome>>
netVars  == <<attempt, stored, requests, responses, taken, accepted, fault>>
vars == <<hsVars, sockVars, netVars>>

-----------------------------------------------------------------------------
(* Messages.  A nonce is [client, server]: the server extends the client's *)
(* one.  What is signed is the first message of the client (its nonce) and *)
(* that of the server (the extended nonce).                                *)
Nonce     == [client : 1 .. MaxAttempt, server : {1}]
Signature == [password : Password, first : 1 .. MaxAttempt, nonce : Nonce]

NoMessage   == [kind |-> "none"]
NoSignature == [password |-> "none"]

Init1(n)     == [kind |-> "init", nonce |-> n]
Proof(s)     == [kind |-> "proof", proof |-> s]
Hello(l, h)  == [kind |-> "hello", min |-> l, max |-> h]
Challenge(r) == [kind |-> "challenge", nonce |-> r]
Final(s)     == [kind |-> "final", v |-> s]
Error(code)  == [kind |-> "error", code |-> code]
Garbage      == [kind |-> "garbage"]

Version == 0 .. MaxVersion
Server ==
    {Hello(l, h) : l \in Version, h \in Version}
    \cup {Challenge(r) : r \in Nonce} \cup {Final(s) : s \in Signature}
    \cup {Error(code) : code \in ErrorCode} \cup {Garbage}

Failure == {"ReqlAuthError", "ReqlTimeoutError", "ReqlDriverError"}
Outcome == Failure \cup {"none", "connected", "KeyboardInterrupt"}

Init ==
    /\ state = 0 /\ random_nonce = 0 /\ server_signature = NoSignature
    /\ pc = "idle" /\ tcp = "none" /\ late = FALSE
    /\ response = NoMessage /\ outcome = "none"
    /\ attempt = 0 /\ stored \in Password
    /\ requests = <<>> /\ responses = <<>> /\ taken = 0
    /\ accepted = FALSE /\ fault = FALSE

-----------------------------------------------------------------------------
(* Mutant: an authentication error leaves the socket open.                 *)
FailWithLeak(error) ==
    /\ outcome' = error
    /\ pc' = "idle" /\ tcp' = IF tcp = "none" \/ error = "ReqlAuthError" THEN tcp ELSE "closed"

(* SocketWrapper.__init__: the except clauses close the socket.            *)
FailWith(error) ==
    /\ outcome' = error
    /\ pc' = "idle" /\ tcp' = IF tcp = "none" THEN "none" ELSE "closed"

(* The request is sent, unless it is empty, and a response is waited for.  *)
(* sendall fails only when the TCP connection is broken.                   *)
SendAndWait(sending) ==
    \/ /\ requests' = requests \o sending
       /\ pc' = "recv"
       /\ UNCHANGED <<tcp, outcome, fault>>
    \/ /\ sending # <<>>
       /\ FailWith("ReqlDriverError")
       /\ fault' = TRUE
       /\ UNCHANGED requests

(* Mutant: reset() leaves the state counter alone.                         *)
ResetKeepsState == random_nonce' = 0 /\ server_signature' = NoSignature /\ UNCHANGED state

(* HandshakeV1_0.reset.                                                    *)
Reset == state' = 0 /\ random_nonce' = 0 /\ server_signature' = NoSignature

(* Connecting the TCP (and TLS) socket, then reset().  An instance that is *)
(* replaced has been closed before; TLS errors are driver errors.          *)
Connect ==
    /\ pc = "idle" /\ attempt < MaxAttempt
    /\ attempt' = attempt + 1
    /\ stored' \in Password
    /\ requests' = <<>> /\ responses' = <<>> /\ taken' = 0 /\ accepted' = FALSE
    /\ late' = FALSE /\ response' = NoMessage
    /\ \/ /\ tcp' = "open" /\ pc' = "next" /\ outcome' = "none"
          /\ fault' = (stored' # UserPassword)
          /\ Reset
       \/ /\ tcp' \in {"none", "closed"} /\ pc' = "idle"
          /\ outcome' \in {"ReqlTimeoutError", "ReqlDriverError"}
          /\ fault' = TRUE
          /\ UNCHANGED hsVars

(* next_message in state 0.                                                *)
InitConnection ==
    /\ pc = "next" /\ state = 0
    /\ IF response # NoMessage
       THEN FailWith("ReqlDriverError") /\ UNCHANGED <<hsVars, requests, fault>>
       ELSE /\ random_nonce' = attempt
            /\ state' = 1
            /\ SendAndWait(<<Init1(attempt)>>)
            /\ UNCHANGED server_signature
    /\ UNCHANGED <<late, response, attempt, stored, responses, taken, accepted>>

(* _decode_json_response, then an access to a key it lacks: what becomes   *)
(* of a response other than the expected kind.                             *)
BadResponse(kind) ==
    /\ response.kind # kind
    /\ FailWith(IF response.kind = "error" /\ 10 <= response.code /\ response.code <= 20
                THEN "ReqlAuthError" ELSE "ReqlDriverError")
    /\ UNCHANGED <<hsVars, requests, fault>>

(* _read_response: protocol version 0 must be in the server's range.       *)
ReadResponse ==
    /\ pc = "next" /\ state = 1
    /\ \/ BadResponse("hello")
       \/ /\ response.kind = "hello" /\ ~(response.min <= 0 /\ 0 <= response.max)
          /\ FailWith("ReqlDriverError")
          /\ UNCHANGED <<hsVars, requests, fault>>
       \/ /\ response.kind = "hello" /\ response.min <= 0 /\ 0 <= response.max
          /\ state' = 2
          /\ SendAndWait(<<>>)
          /\ UNCHANGED <<random_nonce, server_signature>>
    /\ UNCHANGED <<late, response, attempt, stored, responses, taken, accepted>>

(* _prepare_auth_request.                                                  *)
PrepareAuthRequest ==
    /\ pc = "next" /\ state = 2
    /\ \/ BadResponse("challenge")
       \/ /\ response.kind = "challenge" /\ response.nonce.client # random_nonce
          /\ FailWith("ReqlAuthError")
          /\ UNCHANGED <<hsVars, requests, fault>>
       \/ /\ response.kind = "challenge" /\ response.nonce.client = random_nonce
          /\ LET signed == [password |-> UserPassword, first |-> random_nonce,
                            nonce |-> response.nonce]
             IN  /\ server_signature' = signed
                 /\ SendAndWait(<<Proof(signed)>>)
          /\ state' = 3
          /\ UNCHANGED random_nonce
    /\ UNCHANGED <<late, response, attempt, stored, responses, taken, accepted>>

(* Mutant: the signature of the server is not compared.                    *)
ReadAuthResponseTrusts ==
    /\ pc = "next" /\ state = 3
    /\ \/ BadResponse("final")
       \/ /\ response.kind = "final"
          /\ state' = 4
          /\ pc' = "idle" /\ outcome' = "connected"
          /\ UNCHANGED <<tcp, random_nonce, server_signature, requests, fault>>
    /\ UNCHANGED <<late, response, attempt, stored, responses, taken, accepted>>

(* _read_auth_response; next_message returns None and connect() returns.   *)
(* The constructor does not call next_message in state 4, where it raises. *)
ReadAuthResponse ==
    /\ pc = "next" /\ state = 3
    /\ \/ BadResponse("final")
       \/ /\ response.kind = "final" /\ response.v # server_signature
          /\ FailWith("ReqlAuthError")
          /\ UNCHANGED <<hsVars, requests, fault>>
       \/ /\ response.kind = "final" /\ response.v = server_signature
          /\ state' = 4
          /\ pc' = "idle" /\ outcome' = "connected"
          /\ UNCHANGED <<tcp, random_nonce, server_signature, requests, fault>>
    /\ UNCHANGED <<late, response, attempt, stored, responses, taken, accepted>>

(* recvall, a character at a time, up to the terminating zero.             *)
RecvResponse ==
    /\ pc = "recv" /\ taken < Len(responses)
    /\ taken' = taken + 1
    /\ response' = responses[taken + 1]
    /\ pc' = "next"
    /\ UNCHANGED <<hsVars, tcp, late, outcome, attempt, stored, requests, responses, accepted,
                   fault>>

(* Mutant: the deadline is not passed to recvall.                          *)
RecvTimeoutNever == pc = "recv" /\ FALSE /\ UNCHANGED vars

(* The deadline holds for every character, also after a timeout of 0.      *)
RecvTimeout ==
    /\ pc = "recv" /\ taken = Len(responses) /\ late
    /\ FailWith("ReqlTimeoutError")
    /\ UNCHANGED <<hsVars, late, response, netVars>>

RecvFails ==
    /\ pc = "recv"
    /\ FailWith("ReqlDriverError")
    /\ fault' = TRUE
    /\ UNCHANGED <<hsVars, late, response, attempt, stored, requests, responses, taken, accepted>>

(* Ctrl-C is none of the exceptions the constructor catches.               *)
KeyboardInterrupt ==
    /\ pc = "recv"
    /\ pc' = "idle" /\ outcome' = "KeyboardInterrupt"
    /\ UNCHANGED <<hsVars, tcp, late, response, netVars>>

(* The application is done with the connection.                            *)
Close ==
    /\ pc = "idle" /\ outcome = "connected" /\ tcp = "open"
    /\ tcp' = "closed"
    /\ UNCHANGED <<hsVars, pc, late, response, outcome, netVars>>

-----------------------------------------------------------------------------
(* The server and the clock (external).                                    *)
Respond(r) ==
    /\ pc # "idle" /\ tcp = "open" /\ Len(responses) < 3
    /\ responses' = Append(responses, r)
    /\ UNCHANGED <<hsVars, sockVars, attempt, stored, requests, taken>>

(* As the protocol has it: the first request is answered twice.            *)
ServerHello ==
    /\ Len(requests) > 0 /\ Len(responses) = 0
    /\ \E h \in Version : Respond(Hello(0, h))
    /\ UNCHANGED <<accepted, fault>>

ServerChallenge ==
    /\ Len(requests) > 0 /\ Len(responses) = 1 /\ requests[1].kind = "init"
    /\ Respond(Challenge([client |-> requests[1].nonce, server |-> 1]))
    /\ UNCHANGED <<accepted, fault>>

ServerFinal ==
    /\ Len(requests) > 1 /\ Len(responses) = 2 /\ requests[1].kind = "init"
    /\ LET signed == [password |-> stored, first |-> requests[1].nonce,
                      nonce |-> responses[2].nonce]
       IN  IF responses[2].kind = "challenge" /\ requests[2] = Proof(signed)
           THEN Respond(Final(signed)) /\ accepted' = TRUE
           ELSE (\E code \in ErrorCode : Respond(Error(code))) /\ UNCHANGED accepted
    /\ UNCHANGED fault

(* Anything else, but never a signature with a password it does not have,  *)
(* and none on this connection that it could only make by accepting.       *)
ServerOdd ==
    /\ requests # <<>>
    /\ \E r \in Server :
          /\ r.kind = "final" => r.v.password = stored /\ r.v.first # attempt
          /\ Respond(r)
    /\ fault' = TRUE
    /\ UNCHANGED accepted

Tick ==
    /\ pc # "idle" /\ ~late
    /\ late' = TRUE /\ fault' = TRUE
    /\ UNCHANGED <<hsVars, pc, tcp, response, outcome, attempt, stored, requests, responses,
                   taken, accepted>>

-----------------------------------------------------------------------------
NextMessage ==
    InitConnection \/ ReadResponse \/ PrepareAuthRequest \/ ReadAuthResponse
Recv == RecvResponse \/ RecvTimeout \/ RecvFails
External == ServerHello \/ ServerChallenge \/ ServerFinal \/ ServerOdd \/ Tick

Next == Connect \/ NextMessage \/ Recv \/ KeyboardInterrupt \/ Close \/ External

Spec == Init /\ [][Next]_vars
FairSpec == Spec /\ WF_vars(NextMessage) /\ WF_vars(RecvResponse \/ RecvTimeout) /\ WF_vars(Tick)

-----------------------------------------------------------------------------
(* Types, and what the state counter stands for: how far the requests and  *)
(* the responses read on this connection have got.                         *)
TypeOK ==
    /\ state \in 0 .. 4 /\ random_nonce \in 0 .. MaxAttempt
    /\ server_signature \in Signature \cup {NoSignature}
    /\ pc \in {"idle", "next", "recv"} /\ tcp \in {"none", "open", "closed"}
    /\ late \in BOOLEAN /\ response \in Server \cup {NoMessage} /\ outcome \in Outcome
    /\ attempt \in 0 .. MaxAttempt /\ stored \in Password
    /\ responses \in Seq(Server) /\ taken \in 0 .. Len(responses)
    /\ accepted \in BOOLEAN /\ fault \in BOOLEAN
    /\ pc = "next" => state = taken
    /\ pc = "recv" => state = taken + 1

(* A connection is handed to the application only when both sides have     *)
(* shown that they know the user's password, in an exchange begun with the *)
(* nonce of this very attempt.                                             *)
Authenticated ==
    outcome = "connected" /\ tcp = "open" =>
        /\ accepted /\ stored = UserPassword
        /\ server_signature.first = attempt /\ server_signature.nonce.client = attempt

(* An attempt with the right password at a server that follows the         *)
(* protocol fails only for the network, the clock or the server: nothing   *)
(* an earlier attempt left in the handshake object, however it ended, nor  *)
(* the two answers to the first request, confuse the driver.               *)
HonestServerConnects == outcome \in Failure => fault

(* On every TCP connection the driver first sends its version and a nonce  *)
(* made for that connection, and then at most one proof, after the         *)
(* server's challenge for that nonce.                                      *)
RequestsInOrder ==
    /\ Len(requests) <= 2
    /\ Len(requests) >= 1 => requests[1] = Init1(attempt)
    /\ Len(requests) = 2 =>
          /\ taken >= 2 /\ requests[2].kind = "proof"
          /\ responses[2] = Challenge(requests[2].proof.nonce)
          /\ requests[2].proof.nonce.client = attempt

(* A failed attempt leaves no socket open, whichever exception it ended    *)
(* with: the instance of the connection keeps no reference to close.       *)
FailureClosesSocket == outcome \in Failure => tcp # "open"

(* The type invariant with what every exit and every request must keep:    *)
(* requests in order, and no socket left behind by a failure.              *)
HandshakeInv == TypeOK /\ RequestsInOrder /\ FailureClosesSocket

(* connect() returns or raises, even if the server falls silent: unlike a  *)
(* frame, the handshake is read under its deadline to the end.             *)
AttemptEnds == (pc # "idle") ~> (pc = "idle")
=============================================================================
