---------------------------- MODULE SocketProofs ----------------------------
(***************************************************************************)
(* Proofs about what a connection reads from its socket: about Handshake,  *)
(* for any passwords, error codes and versions and any number of attempts  *)
(* with one handshake object, and about Framing, which comes after it.     *)
(***************************************************************************)
EXTENDS Handshake, Framing, SequenceTheorems, TLAPS

(* What the client may send: its own nonce, then its proof for it.         *)
Request == {Init1(n) : n \in 1 .. MaxAttempt} \cup {Proof(s) : s \in Signature}

(* Where the handshake object and the constructor are while they run.      *)
Running ==
  pc # "idle" =>
    /\ tcp = "open" /\ outcome = "none" /\ attempt \in 1 .. MaxAttempt /\ state <= 3
    /\ taken = 0 => response = NoMessage
    /\ taken > 0 => response = responses[taken]
    /\ state > 0 => random_nonce = attempt
    /\ Len(requests) = IF state = 0 THEN 0 ELSE IF state < 3 THEN 1 ELSE 2
    /\ state = 3 => requests[2] = Proof(server_signature)

(* A proof is the one the password of the user and the nonces call for.    *)
OwnProof ==
  Len(requests) = 2 =>
    requests[2] = Proof([password |-> UserPassword, first |-> attempt,
                         nonce |-> responses[2].nonce])

(* A server signs with its own password, and over a nonce of this attempt  *)
(* only when it has accepted the proof.                                    *)
ServerSigns ==
  \A i \in 1 .. Len(responses) : responses[i].kind = "final" =>
    /\ responses[i].v.password = stored
    /\ responses[i].v.first = attempt => accepted

(* Without a fault, the server knows the user and follows the protocol.    *)
Extended == [client |-> attempt, server |-> 1]
Faultless ==
  ~fault =>
    /\ ~late
    /\ pc # "idle" =>
         /\ stored = UserPassword
         /\ Len(responses) <= 3
         /\ Len(responses) >= 1 => \E h \in Version : responses[1] = Hello(0, h)
         /\ Len(responses) >= 2 => responses[2] = Challenge(Extended)
         /\ Len(responses) >= 3 =>
              responses[3] = Final([password |-> UserPassword, first |-> attempt,
                                    nonce |-> Extended])

Typed == TypeOK /\ requests \in Seq(Request)
IInv == /\ Typed /\ RequestsInOrder /\ FailureClosesSocket
        /\ Authenticated /\ HonestServerConnects
        /\ Running /\ OwnProof /\ ServerSigns /\ Faultless

-----------------------------------------------------------------------------
LEMMA Kinds ==
  /\ \A n \in 1 .. MaxAttempt : Init1(n) \in Request
  /\ \A s \in Signature : Proof(s) \in Request
  /\ \A l, h \in Version : Hello(l, h) \in Server
  /\ \A r \in Nonce : Challenge(r) \in Server
  /\ \A s \in Signature : Final(s) \in Server
  /\ \A code \in ErrorCode : Error(code) \in Server
BY DEF Request, Server

LEMMA Unlike ==
  /\ NoMessage.kind = "none"
  /\ \A n : Init1(n).kind = "init" /\ Init1(n).nonce = n
  /\ \A s : Proof(s).kind = "proof" /\ Proof(s).proof = s
  /\ \A l, h : Hello(l, h).kind = "hello" /\ Hello(l, h).min = l /\ Hello(l, h).max = h
  /\ \A r : Challenge(r).kind = "challenge" /\ Challenge(r).nonce = r
  /\ \A s : Final(s).kind = "final" /\ Final(s).v = s
  /\ \A code : Error(code).kind = "error"
BY DEF NoMessage, Init1, Proof, Hello, Challenge, Final, Error

(* What a response of a kind holds.                                        *)
LEMMA Contents ==
  ASSUME NEW r \in Server
  PROVE  /\ r.kind = "challenge" => r.nonce \in Nonce /\ r = Challenge(r.nonce)
         /\ r.kind = "final" => r.v \in Signature
BY DEF Server, NoMessage, Hello, Challenge, Final, Error, Garbage

LEMMA InitHandshake == Init => IInv
<1> SUFFICES ASSUME Init PROVE IInv
  OBVIOUS
<1> USE HandshakeAssumption DEF Init
<1>1. Typed
  <2>1. <<>> \in Seq(Server) /\ <<>> \in Seq(Request) /\ Len(<<>>) = 0
    OBVIOUS
  <2>2. responses \in Seq(Server) /\ requests \in Seq(Request) /\ taken \in 0 .. Len(responses)
    BY <2>1
  <2>3. state \in 0 .. 4 /\ random_nonce \in 0 .. MaxAttempt /\ attempt \in 0 .. MaxAttempt
    OBVIOUS
  <2>4. pc # "next" /\ pc # "recv"
    OBVIOUS
  <2> QED BY <2>2, <2>3, <2>4, Zenon DEF Typed, TypeOK, Outcome
<1>2. RequestsInOrder /\ FailureClosesSocket /\ Authenticated /\ HonestServerConnects
  BY DEF RequestsInOrder, FailureClosesSocket, Authenticated, HonestServerConnects, Failure
<1>3. Running /\ OwnProof /\ ServerSigns /\ Faultless
  BY DEF Running, OwnProof, ServerSigns, Faultless
<1> QED BY <1>1, <1>2, <1>3 DEF IInv

-----------------------------------------------------------------------------
(* A call of connect() begins.                                             *)
LEMMA ConnectStep == ASSUME IInv, Connect PROVE IInv'
<1> USE HandshakeAssumption DEF Connect, IInv, Typed, TypeOK
<1>1. /\ attempt' \in 1 .. MaxAttempt /\ stored' \in Password
      /\ requests' = <<>> /\ responses' = <<>> /\ taken' = 0 /\ accepted' = FALSE
      /\ late' = FALSE /\ response' = NoMessage
      /\ Len(requests') = 0 /\ Len(responses') = 0
  OBVIOUS
<1>2. \/ /\ tcp' = "open" /\ pc' = "next" /\ outcome' = "none" /\ state' = 0 /\ random_nonce' = 0
         /\ server_signature' = NoSignature /\ fault' = (stored' # UserPassword)
      \/ /\ tcp' \in {"none", "closed"} /\ pc' = "idle" /\ fault' = TRUE
         /\ outcome' \in {"ReqlTimeoutError", "ReqlDriverError"} /\ UNCHANGED hsVars
  BY DEF Reset
<1>3. Typed'
  <2>1. responses' \in Seq(Server) /\ requests' \in Seq(Request)
    BY <1>1
  <2>2. attempt' \in 0 .. MaxAttempt
    BY <1>1
  <2>3. fault' \in BOOLEAN /\ late' \in BOOLEAN /\ accepted' \in BOOLEAN
    BY <1>1, <1>2, Zenon
  <2>4. /\ state' \in 0 .. 4 /\ random_nonce' \in 0 .. MaxAttempt
        /\ taken' \in 0 .. Len(responses')
        /\ (pc' = "next" => state' = taken') /\ pc' # "recv"
    BY <1>1, <1>2 DEF hsVars
  <2>5. server_signature' \in Signature \cup {NoSignature}
    BY <1>2 DEF hsVars
  <2>6. /\ pc' \in {"idle", "next", "recv"} /\ tcp' \in {"none", "open", "closed"}
        /\ outcome' \in Outcome
    BY <1>2 DEF Outcome, Failure
  <2> QED BY <1>1, <2>1, <2>2, <2>3, <2>4, <2>5, <2>6
<1>4. RequestsInOrder' /\ FailureClosesSocket' /\ Authenticated' /\ HonestServerConnects'
  BY <1>1, <1>2 DEF RequestsInOrder, FailureClosesSocket, Authenticated, HonestServerConnects, Failure
<1>5. Running' /\ OwnProof' /\ ServerSigns'
  BY <1>1, <1>2 DEF Running, OwnProof, ServerSigns
<1>6. Faultless'
  <2>1. ~fault' /\ pc' # "idle" => stored' = UserPassword
    BY <1>2, Zenon
  <2> QED BY <1>1, <2>1 DEF Faultless
<1> QED BY <1>3, <1>4, <1>5, <1>6

(* It gives up, and there is a fault that excuses it.                      *)
LEMMA FailStep ==
  ASSUME IInv, pc # "idle", NEW error \in Failure, FailWith(error), fault' = TRUE,
         state' \in 0 .. 4, random_nonce' \in 0 .. MaxAttempt,
         server_signature' \in Signature \cup {NoSignature},
         UNCHANGED <<late, response, attempt, stored, requests, responses, taken, accepted>>
  PROVE  IInv'
<1> USE DEF FailWith, IInv, Typed, TypeOK
<1>1. outcome' = error /\ outcome' # "connected" /\ pc' = "idle" /\ tcp' = "closed"
  BY DEF Failure, Running
<1>2. Typed'
  BY <1>1 DEF Outcome
<1>3. RequestsInOrder' /\ FailureClosesSocket' /\ Authenticated' /\ HonestServerConnects'
  BY <1>1 DEF RequestsInOrder, FailureClosesSocket, Authenticated, HonestServerConnects
<1>4. Running' /\ OwnProof' /\ ServerSigns' /\ Faultless'
  BY <1>1 DEF Running, OwnProof, ServerSigns, Faultless
<1> QED BY <1>2, <1>3, <1>4

(* It goes on to the next response.                                        *)
LEMMA AdvanceStep ==
  ASSUME IInv, pc = "next", pc' = "recv", state < 3, state' = state + 1, random_nonce' = attempt,
         server_signature' \in Signature \cup {NoSignature},
         requests' \in Seq(Request), RequestsInOrder', OwnProof',
         Len(requests') = IF state' < 3 THEN 1 ELSE 2,
         state' = 3 => requests'[2] = Proof(server_signature'),
         UNCHANGED <<tcp, outcome, fault, late, response, attempt, stored, responses, taken, accepted>>
  PROVE  IInv'
<1> USE DEF IInv, Typed, TypeOK
<1>1. state \in 0 .. 2 /\ state' \in 1 .. 3 /\ taken = state /\ attempt \in 1 .. MaxAttempt
      /\ MaxAttempt \in Nat
  BY HandshakeAssumption DEF Running
<1>2. Typed'
  BY <1>1
<1>3. FailureClosesSocket' /\ HonestServerConnects' /\ outcome' = "none"
  BY DEF FailureClosesSocket, HonestServerConnects, Running
<1>4. Authenticated'
  BY <1>3 DEF Authenticated
<1>5. Running'
  BY <1>1, <1>3 DEF Running
<1>6. ServerSigns'
  BY Zenon DEF ServerSigns
<1>7. Faultless'
  <2>1. pc # "idle" /\ (~fault' => ~fault) /\ (late' => late)
    OBVIOUS
  <2> QED BY <2>1, Zenon DEF Faultless, Extended
<1> QED BY <1>2, <1>3, <1>4, <1>5, <1>6, <1>7

LEMMA Sent ==
  ASSUME requests \in Seq(Request), NEW x \in Request
  PROVE  /\ requests \o <<x>> \in Seq(Request)
         /\ Len(requests \o <<x>>) = Len(requests) + 1
         /\ \A i \in 1 .. Len(requests) : (requests \o <<x>>)[i] = requests[i]
         /\ (requests \o <<x>>)[Len(requests) + 1] = x
<1>1. <<x>> \in Seq(Request) /\ Len(<<x>>) = 1 /\ <<x>>[1] = x
  OBVIOUS
<1> QED BY <1>1, ConcatProperties, LenProperties

(* _init_connection: the first message has the nonce of this attempt.      *)
LEMMA InitConnectionStep == ASSUME IInv, InitConnection PROVE IInv'
<1> USE HandshakeAssumption DEF IInv, Typed, TypeOK, InitConnection
<1>1. /\ response = NoMessage /\ attempt \in 1 .. MaxAttempt /\ Len(requests) = 0
      /\ random_nonce' = attempt /\ state' = 1 /\ server_signature' = server_signature
      /\ SendAndWait(<<Init1(attempt)>>)
  BY DEF Running
<1>2. CASE FailWith("ReqlDriverError") /\ fault' = TRUE /\ requests' = requests
  BY <1>1, <1>2, FailStep DEF Failure
<1>3. CASE /\ requests' = requests \o <<Init1(attempt)>> /\ pc' = "recv"
           /\ UNCHANGED <<tcp, outcome, fault>>
  <2>1. Init1(attempt) \in Request
    BY <1>1, Kinds
  <2>2. requests' \in Seq(Request) /\ Len(requests') = 1 /\ requests'[1] = Init1(attempt)
    BY <1>1, <1>3, <2>1, Sent
  <2>3. RequestsInOrder' /\ OwnProof'
    BY <2>2 DEF RequestsInOrder, OwnProof
  <2> QED BY <1>1, <1>3, <2>2, <2>3, AdvanceStep
<1> QED BY <1>1, <1>2, <1>3 DEF SendAndWait

(* A response of another kind than the protocol has it is somebody's fault.*)
LEMMA BadResponseStep ==
  ASSUME IInv, pc = "next", state > 0, NEW kind, BadResponse(kind),
         kind = IF state = 1 THEN "hello" ELSE IF state = 2 THEN "challenge" ELSE "final",
         UNCHANGED <<late, response, attempt, stored, responses, taken, accepted>>
  PROVE  IInv'
<1> USE DEF IInv, Typed, TypeOK
<1>1. state \in 1 .. 3 /\ taken = state /\ response = responses[state] /\ Len(responses) >= state
  BY DEF Running
<1>2. response.kind # kind
  BY DEF BadResponse
<1>3. fault
  BY <1>1, <1>2, Unlike DEF Faultless
<1>4. PICK error \in Failure : FailWith(error)
  BY DEF BadResponse, Failure
<1>5. UNCHANGED <<hsVars, requests, fault>>
  BY DEF BadResponse
<1> QED BY <1>3, <1>4, <1>5, FailStep DEF hsVars

(* _read_response.                                                         *)
LEMMA ReadResponseStep == ASSUME IInv, ReadResponse PROVE IInv'
<1> USE HandshakeAssumption DEF IInv, Typed, TypeOK, ReadResponse
<1>1. pc = "next" /\ state = 1 /\ taken = 1 /\ response = responses[1] /\ Len(responses) >= 1
  BY DEF Running
<1>2. CASE BadResponse("hello")
  BY <1>1, <1>2, BadResponseStep
<1>3. CASE /\ response.kind = "hello" /\ ~(response.min <= 0 /\ 0 <= response.max)
           /\ FailWith("ReqlDriverError") /\ UNCHANGED <<hsVars, requests, fault>>
  <2>1. fault
    BY <1>1, <1>3, Unlike DEF Faultless, Version
  <2> QED BY <1>1, <1>3, <2>1, FailStep DEF Failure, hsVars
<1>4. CASE state' = 2 /\ SendAndWait(<<>>) /\ UNCHANGED <<random_nonce, server_signature>>
  <2>1. requests' = requests \o <<>> /\ pc' = "recv" /\ UNCHANGED <<tcp, outcome, fault>>
    BY <1>4 DEF SendAndWait
  <2>2. requests' = requests
    BY <2>1, ConcatEmptySeq
  <2>3. random_nonce' = attempt /\ Len(requests) = 1
    BY <1>1, <1>4 DEF Running
  <2>4. RequestsInOrder' /\ OwnProof'
    BY <2>2, <2>3 DEF RequestsInOrder, OwnProof
  <2> QED BY <1>1, <1>4, <2>1, <2>2, <2>3, <2>4, AdvanceStep
<1> QED BY <1>2, <1>3, <1>4

(* _prepare_auth_request: the proof answers a challenge for this nonce.    *)
LEMMA PrepareAuthRequestStep == ASSUME IInv, PrepareAuthRequest PROVE IInv'
<1> USE HandshakeAssumption DEF IInv, Typed, TypeOK, PrepareAuthRequest
<1>1. /\ pc = "next" /\ state = 2 /\ taken = 2 /\ response = responses[2] /\ Len(responses) >= 2
      /\ attempt \in 1 .. MaxAttempt /\ random_nonce = attempt /\ Len(requests) = 1
      /\ response \in Server
  <2>1. pc = "next" /\ state = 2 /\ taken = 2 /\ Len(responses) >= 2 /\ response = responses[2]
    BY DEF Running
  <2>2. response \in Server
    BY <2>1, ElementOfSeq
  <2> QED BY <2>1, <2>2 DEF Running
<1>2. CASE BadResponse("challenge")
  BY <1>1, <1>2, BadResponseStep
<1>3. CASE /\ response.kind = "challenge" /\ response.nonce.client # random_nonce
           /\ FailWith("ReqlAuthError") /\ UNCHANGED <<hsVars, requests, fault>>
  <2>1. fault
    BY <1>1, <1>3, Unlike DEF Faultless, Extended
  <2> QED BY <1>1, <1>3, <2>1, FailStep DEF Failure, hsVars
<1>4. CASE response.kind = "challenge" /\ response.nonce.client = random_nonce /\ state' = 3
  <2> DEFINE signed == [password |-> UserPassword, first |-> random_nonce, nonce |-> response.nonce]
  <2>1. server_signature' = signed /\ SendAndWait(<<Proof(signed)>>) /\ random_nonce' = random_nonce
    BY <1>4 DEF BadResponse
  <2>2. response.nonce \in Nonce /\ response = Challenge(response.nonce)
    BY <1>1, <1>4, Contents
  <2>3. signed \in Signature
    BY <1>1, <2>2 DEF Signature
  <2>4. Proof(signed) \in Request
    BY <2>3, Kinds
  <2> HIDE DEF signed
  <2>5. CASE FailWith("ReqlDriverError") /\ fault' = TRUE /\ requests' = requests
    BY <1>1, <1>4, <2>1, <2>3, <2>5, FailStep DEF Failure
  <2>6. CASE /\ requests' = requests \o <<Proof(signed)>> /\ pc' = "recv"
             /\ UNCHANGED <<tcp, outcome, fault>>
    <3>1. /\ requests' \in Seq(Request) /\ Len(requests') = 2
          /\ requests'[1] = requests[1] /\ requests'[2] = Proof(signed)
      BY <1>1, <2>4, <2>6, Sent
    <3>2. OwnProof'
      BY <1>1, <3>1 DEF OwnProof, signed
    <3>3. RequestsInOrder'
      BY <1>1, <1>4, <2>2, <3>1, Unlike DEF RequestsInOrder, signed
    <3> QED BY <1>1, <1>4, <2>1, <2>3, <2>6, <3>1, <3>2, <3>3, AdvanceStep
  <2> QED BY <2>1, <2>5, <2>6 DEF SendAndWait
<1> QED BY <1>2, <1>3, <1>4

(* _read_auth_response: the signature shows that the server has accepted   *)
(* the proof, and so knows the password.                                   *)
LEMMA ReadAuthResponseStep == ASSUME IInv, ReadAuthResponse PROVE IInv'
<1> USE HandshakeAssumption DEF IInv, Typed, TypeOK, ReadAuthResponse
<1>1. /\ pc = "next" /\ state = 3 /\ taken = 3 /\ response = responses[3] /\ Len(responses) >= 3
      /\ Len(requests) = 2 /\ requests[2] = Proof(server_signature)
  BY DEF Running
<1>2. server_signature = [password |-> UserPassword, first |-> attempt, nonce |-> responses[2].nonce]
  BY <1>1, Unlike DEF OwnProof
<1>3. CASE BadResponse("final")
  BY <1>1, <1>3, BadResponseStep
<1>4. CASE /\ response.kind = "final" /\ response.v # server_signature
           /\ FailWith("ReqlAuthError") /\ UNCHANGED <<hsVars, requests, fault>>
  <2>1. ASSUME ~fault PROVE response.v = server_signature
    <3>1. /\ responses[2] = Challenge(Extended)
          /\ responses[3] = Final([password |-> UserPassword, first |-> attempt, nonce |-> Extended])
      BY <1>1, <2>1 DEF Faultless
    <3> QED BY <1>1, <1>2, <3>1, Unlike
  <2> QED BY <1>1, <1>4, <2>1, FailStep DEF Failure, hsVars
<1>5. CASE /\ response.kind = "final" /\ response.v = server_signature
           /\ state' = 4 /\ pc' = "idle" /\ outcome' = "connected"
           /\ UNCHANGED <<tcp, random_nonce, server_signature, requests, fault>>
  <2>1. stored = UserPassword /\ accepted
    BY <1>1, <1>2, <1>5 DEF ServerSigns
  <2>2. responses[2].nonce.client = attempt
    BY <1>1, Unlike, <1>2 DEF RequestsInOrder
  <2>3. Typed' /\ Running'
    BY <1>5 DEF Outcome, Running
  <2>4. Authenticated'
    BY <1>2, <1>5, <2>1, <2>2 DEF Authenticated
  <2>5. RequestsInOrder' /\ OwnProof'
    BY <1>5 DEF RequestsInOrder, OwnProof
  <2>6. FailureClosesSocket' /\ HonestServerConnects'
    BY <1>5 DEF FailureClosesSocket, HonestServerConnects, Failure
  <2>7. ServerSigns'
    BY <1>5, Zenon DEF ServerSigns
  <2>8. Faultless'
    BY <1>5, Zenon DEF Faultless
  <2> QED BY <2>3, <2>4, <2>5, <2>6, <2>7, <2>8
<1> QED BY <1>3, <1>4, <1>5

-----------------------------------------------------------------------------
(* recvall, and its exceptions.                                            *)
LEMMA RecvStep == ASSUME IInv, Recv \/ KeyboardInterrupt PROVE IInv'
<1> USE HandshakeAssumption DEF IInv, Typed, TypeOK
<1>1. pc = "recv" /\ state = taken + 1 /\ outcome = "none"
  BY DEF Recv, RecvResponse, RecvTimeout, RecvFails, KeyboardInterrupt, Running
<1>2. CASE RecvResponse
  <2>1. /\ taken' = taken + 1 /\ taken' \in 1 .. Len(responses) /\ response' = responses[taken']
        /\ pc' = "next" /\ response' \in Server
    BY <1>2, ElementOfSeq DEF RecvResponse
  <2>2. /\ UNCHANGED <<state, random_nonce, server_signature, tcp, late, outcome, attempt>>
        /\ UNCHANGED <<stored, requests, responses, accepted, fault>>
    BY <1>2 DEF RecvResponse, hsVars
  <2>3. Typed'
    BY <1>1, <2>1, <2>2
  <2>4. Running'
    BY <1>1, <2>1, <2>2 DEF Running
  <2>5. RequestsInOrder'
    BY <2>1, <2>2 DEF RequestsInOrder
  <2>6. FailureClosesSocket' /\ Authenticated' /\ HonestServerConnects' /\ OwnProof' /\ ServerSigns'
    BY <2>2, Zenon DEF FailureClosesSocket, Authenticated, HonestServerConnects, OwnProof, ServerSigns
  <2>7. Faultless'
    BY <1>1, <2>1, <2>2, Zenon DEF Faultless, Extended
  <2> QED BY <2>3, <2>4, <2>5, <2>6, <2>7
<1>3. CASE RecvTimeout
  <2>1. fault /\ FailWith("ReqlTimeoutError")
    BY <1>3 DEF RecvTimeout, Faultless
  <2> QED BY <1>1, <1>3, <2>1, FailStep DEF RecvTimeout, hsVars, netVars, Failure
<1>4. CASE RecvFails
  BY <1>1, <1>4, FailStep DEF RecvFails, hsVars, Failure
<1>5. CASE KeyboardInterrupt
  <2>1. /\ pc' = "idle" /\ outcome' = "KeyboardInterrupt"
        /\ UNCHANGED <<state, random_nonce, server_signature, tcp, late, response, attempt>>
        /\ UNCHANGED <<stored, requests, responses, taken, accepted, fault>>
    BY <1>5 DEF KeyboardInterrupt, hsVars, netVars
  <2>2. Typed' /\ Running'
    BY <2>1 DEF Outcome, Running
  <2>3. RequestsInOrder' /\ OwnProof'
    BY <2>1 DEF RequestsInOrder, OwnProof
  <2>4. FailureClosesSocket' /\ HonestServerConnects' /\ Authenticated'
    BY <2>1 DEF FailureClosesSocket, HonestServerConnects, Failure, Authenticated
  <2>5. ServerSigns' /\ Faultless'
    BY <2>1, Zenon DEF ServerSigns, Faultless
  <2> QED BY <2>2, <2>3, <2>4, <2>5
<1> QED BY <1>2, <1>3, <1>4, <1>5 DEF Recv

LEMMA CloseStep == ASSUME IInv, Close \/ UNCHANGED vars PROVE IInv'
<1> USE DEF IInv, Typed, TypeOK
<1>1. /\ UNCHANGED <<state, random_nonce, server_signature, pc, late, response, outcome, attempt>>
      /\ UNCHANGED <<stored, requests, responses, taken, accepted, fault>>
      /\ tcp' = tcp \/ (tcp' = "closed" /\ pc = "idle" /\ outcome = "connected")
  BY DEF Close, vars, hsVars, sockVars, netVars
<1>2. Typed' /\ Running'
  BY <1>1 DEF Running
<1>3. RequestsInOrder' /\ OwnProof'
  BY <1>1 DEF RequestsInOrder, OwnProof
<1>4. FailureClosesSocket' /\ HonestServerConnects' /\ Authenticated'
  BY <1>1 DEF FailureClosesSocket, HonestServerConnects, Authenticated
<1>5. ServerSigns' /\ Faultless'
  BY <1>1, Zenon DEF ServerSigns, Faultless, Extended
<1> QED BY <1>2, <1>3, <1>4, <1>5

-----------------------------------------------------------------------------
LEMMA OneMore ==
  \A m \in Nat : m < 3 =>
    /\ m + 1 >= 2 => m = 1 \/ m = 2
    /\ m + 1 >= 3 => m = 2
OBVIOUS

(* The server answers: what was read stays what it was.                    *)
LEMMA RespondStep ==
  ASSUME IInv, NEW r \in Server, Respond(r),
         accepted' \in BOOLEAN, fault' \in BOOLEAN, accepted => accepted', fault => fault',
         r.kind = "final" => r.v.password = stored /\ (r.v.first = attempt => accepted'),
         ~fault' => /\ Len(responses) = 0 => \E h \in Version : r = Hello(0, h)
                    /\ Len(responses) = 1 => r = Challenge(Extended)
                    /\ Len(responses) = 2 =>
                         r = Final([password |-> UserPassword, first |-> attempt, nonce |-> Extended])
  PROVE  IInv'
<1> USE DEF IInv, Typed, TypeOK
<1>1. /\ UNCHANGED <<state, random_nonce, server_signature, pc, tcp, late, response, outcome>>
      /\ UNCHANGED <<attempt, stored, requests, taken>>
      /\ pc # "idle" /\ Len(responses) < 3
  BY DEF Respond, hsVars, sockVars
<1>2. /\ responses' \in Seq(Server) /\ Len(responses') = Len(responses) + 1 /\ Len(responses) \in Nat
      /\ \A i \in 1 .. Len(responses) : responses'[i] = responses[i]
      /\ responses'[Len(responses) + 1] = r
  BY AppendProperties, LenProperties DEF Respond
<1>3. Typed'
  BY <1>1, <1>2
<1>4. Running'
  BY <1>1, <1>2 DEF Running
<1>5. RequestsInOrder' /\ OwnProof'
  BY <1>1, <1>2 DEF RequestsInOrder, OwnProof
<1>6. FailureClosesSocket' /\ HonestServerConnects' /\ Authenticated'
  BY <1>1 DEF FailureClosesSocket, HonestServerConnects, Authenticated, Running, Failure
<1>7. ServerSigns'
  <2> SUFFICES ASSUME NEW i \in 1 .. Len(responses'), responses'[i].kind = "final"
               PROVE  /\ responses'[i].v.password = stored'
                      /\ responses'[i].v.first = attempt' => accepted'
    BY DEF ServerSigns
  <2>1. CASE i \in 1 .. Len(responses)
    BY <1>1, <1>2, <2>1 DEF ServerSigns
  <2>2. CASE i = Len(responses) + 1
    BY <1>1, <1>2, <2>2
  <2> QED BY <1>2, <2>1, <2>2
<1>8. Faultless'
  <2> SUFFICES ASSUME ~fault' PROVE Faultless'
    BY DEF Faultless
  <2>1. ~fault /\ ~late /\ stored = UserPassword
    BY <1>1 DEF Faultless
  <2>2. Len(responses') >= 1 => \E h \in Version : responses'[1] = Hello(0, h)
    BY <1>1, <1>2, <2>1 DEF Faultless
  <2>3. Len(responses') >= 2 => responses'[2] = Challenge(Extended)
    <3>1. CASE Len(responses) = 1
      <4>1. r = Challenge(Extended) /\ responses'[2] = r
        BY <3>1, <1>2
      <4> QED BY <4>1
    <3>2. CASE Len(responses) = 2
      <4>1. responses'[2] = responses[2] /\ responses[2] = Challenge(Extended)
        BY <3>2, <1>1, <1>2, <2>1 DEF Faultless
      <4> QED BY <4>1
    <3>3. Len(responses') >= 2 => Len(responses) = 1 \/ Len(responses) = 2
      BY <1>1, <1>2, OneMore, Zenon
    <3> QED BY <3>1, <3>2, <3>3, Zenon
  <2>4. Len(responses') >= 3 =>
          responses'[3] = Final([password |-> UserPassword, first |-> attempt, nonce |-> Extended])
    <3>1. CASE Len(responses) = 2
      <4>1. /\ r = Final([password |-> UserPassword, first |-> attempt, nonce |-> Extended])
            /\ responses'[3] = r
        BY <3>1, <1>2
      <4> QED BY <4>1
    <3>2. Len(responses') >= 3 => Len(responses) = 2
      BY <1>1, <1>2, OneMore, Zenon
    <3> QED BY <3>1, <3>2, Zenon
  <2>5. Len(responses') <= 3
    BY <1>1, <1>2
  <2>6. Extended' = Extended /\ ~late' /\ stored' = UserPassword /\ attempt' = attempt
    BY <1>1, <2>1 DEF Extended
  <2> QED BY <2>2, <2>3, <2>4, <2>5, <2>6 DEF Faultless
<1> QED BY <1>3, <1>4, <1>5, <1>6, <1>7, <1>8

LEMMA ServerHelloStep == ASSUME IInv, ServerHello PROVE IInv'
<1>1. PICK h \in Version : Respond(Hello(0, h))
  BY DEF ServerHello
<1>2. Hello(0, h) \in Server
  BY <1>1, Kinds, HandshakeAssumption DEF Version
<1>3. Hello(0, h).kind # "final" /\ Len(responses) = 0
  BY Unlike DEF ServerHello
<1>4. UNCHANGED <<accepted, fault>> /\ accepted \in BOOLEAN /\ fault \in BOOLEAN
  BY DEF ServerHello, IInv, Typed, TypeOK
<1> QED BY <1>1, <1>2, <1>3, <1>4, RespondStep

LEMMA ServerChallengeStep == ASSUME IInv, ServerChallenge PROVE IInv'
<1>1. Len(requests) > 0 /\ Len(responses) = 1 /\ requests[1] = Init1(attempt)
  BY LenProperties DEF ServerChallenge, IInv, Typed, RequestsInOrder
<1>2. Respond(Challenge(Extended))
  BY <1>1, Unlike DEF ServerChallenge, Extended
<1>3. Extended \in Nonce
  BY <1>2 DEF Respond, IInv, Running, Extended, Nonce
<1>4. Challenge(Extended) \in Server /\ Challenge(Extended).kind # "final"
  BY <1>3, Kinds, Unlike
<1>5. UNCHANGED <<accepted, fault>> /\ accepted \in BOOLEAN /\ fault \in BOOLEAN
  BY DEF ServerChallenge, IInv, Typed, TypeOK
<1> QED BY <1>1, <1>2, <1>4, <1>5, RespondStep

LEMMA ServerFinalStep == ASSUME IInv, ServerFinal PROVE IInv'
<1> DEFINE signed == [password |-> stored, first |-> requests[1].nonce, nonce |-> responses[2].nonce]
           fits == responses[2].kind = "challenge" /\ requests[2] = Proof(signed)
<1> USE DEF IInv, Typed, TypeOK
<1>1. Len(requests) = 2 /\ Len(responses) = 2 /\ requests[1].nonce = attempt /\ fault' = fault
  BY LenProperties, Unlike DEF ServerFinal, RequestsInOrder
<1>2. CASE fits
  <2>1. Respond(Final(signed)) /\ accepted' = TRUE
    BY <1>2 DEF ServerFinal
  <2>2. signed \in Signature
    <3>1. requests[2] \in Request
      <4>1. requests \in Seq(Request) /\ 2 \in 1 .. Len(requests)
        BY <1>1
      <4> HIDE DEF IInv, Typed, TypeOK
      <4> QED BY <4>1, ElementOfSeq
    <3>2. requests[2] = Proof(signed)
      BY <1>2
    <3> HIDE DEF signed
    <3>3. Proof(signed).kind = "proof" /\ Proof(signed).proof = signed
      BY Unlike, Zenon
    <3>4. PICK s \in Signature : Proof(signed) = Proof(s)
      BY <3>1, <3>2, <3>3, Unlike DEF Request
    <3> QED BY <3>3, <3>4, Unlike
  <2>3. Final(signed) \in Server /\ Final(signed).v = signed
    BY <2>2, Kinds, Unlike
  <2>4. signed.password = stored /\ signed.first = attempt
    BY <1>1
  <2>5. ~fault => /\ stored = UserPassword /\ responses[2] = Challenge(Extended)
    BY <1>1, <2>1 DEF Faultless, Respond
  <2>6. ~fault => signed = [password |-> UserPassword, first |-> attempt, nonce |-> Extended]
    BY <1>1, <2>5, Unlike
  <2> HIDE DEF signed
  <2> QED BY <1>1, <2>1, <2>3, <2>4, <2>6, RespondStep
<1>3. CASE ~fits
  <2>1. PICK code \in ErrorCode : Respond(Error(code)) /\ accepted' = accepted
    BY <1>3 DEF ServerFinal
  <2>2. fault
    <3>1. ~fault => stored = UserPassword /\ responses[2] = Challenge(Extended)
      BY <1>1, <2>1 DEF Faultless, Respond
    <3> QED BY <1>1, <1>3, <3>1, Unlike DEF OwnProof
  <2>3. Error(code) \in Server /\ Error(code).kind # "final"
    BY Kinds, Unlike
  <2> QED BY <1>1, <2>1, <2>2, <2>3, RespondStep
<1> QED BY <1>2, <1>3

LEMMA ServerOddStep == ASSUME IInv, ServerOdd PROVE IInv'
<1>1. PICK r \in Server : (r.kind = "final" => r.v.password = stored /\ r.v.first # attempt)
                           /\ Respond(r)
  BY DEF ServerOdd
<1>2. fault' = TRUE /\ accepted' = accepted /\ accepted \in BOOLEAN
  BY DEF ServerOdd, IInv, Typed, TypeOK
<1> QED BY <1>1, <1>2, RespondStep

LEMMA TickStep == ASSUME IInv, Tick PROVE IInv'
<1> USE DEF IInv, Typed, TypeOK
<1>1. /\ UNCHANGED <<state, random_nonce, server_signature, pc, tcp, response, outcome, attempt>>
      /\ UNCHANGED <<stored, requests, responses, taken, accepted>>
      /\ late' = TRUE /\ fault' = TRUE
  BY DEF Tick, hsVars
<1>2. Typed' /\ Running'
  BY <1>1 DEF Running
<1>3. RequestsInOrder' /\ OwnProof'
  BY <1>1 DEF RequestsInOrder, OwnProof
<1>4. FailureClosesSocket' /\ HonestServerConnects' /\ Authenticated'
  BY <1>1 DEF FailureClosesSocket, HonestServerConnects, Authenticated
<1>5. ServerSigns' /\ Faultless'
  BY <1>1, Zenon DEF ServerSigns, Faultless
<1> QED BY <1>2, <1>3, <1>4, <1>5

LEMMA NextHandshake == IInv /\ [Next]_vars => IInv'
BY ConnectStep, InitConnectionStep, ReadResponseStep, PrepareAuthRequestStep,
   ReadAuthResponseStep, RecvStep, CloseStep, ServerHelloStep, ServerChallengeStep,
   ServerFinalStep, ServerOddStep, TickStep
   DEF Next, NextMessage, External

LEMMA HandshakeInvariants == Spec => []IInv
BY InitHandshake, NextHandshake, PTL DEF Spec

-----------------------------------------------------------------------------
(* HandshakeV1_0 and SocketWrapper.__init__: requests are made in order,   *)
(* for this connection, and no failure leaves its socket open.             *)
THEOREM HandshakeInvariant == Spec => []HandshakeInv
<1>1. IInv => HandshakeInv
  BY DEF IInv, Typed, HandshakeInv
<1> QED BY <1>1, HandshakeInvariants, PTL

(* A connection that is handed to the application is authenticated in both *)
(* directions, by an exchange begun with the nonce of this very attempt.   *)
THEOREM MutualAuthentication == Spec => []Authenticated
<1>1. IInv => Authenticated
  BY DEF IInv
<1> QED BY <1>1, HandshakeInvariants, PTL

(* With the right password and a server that follows the protocol, only a  *)
(* fault of the network or the clock makes connect() fail: the handshake   *)
(* object is as good as new in every attempt.                              *)
THEOREM HonestServer == Spec => []HonestServerConnects
<1>1. IInv => HonestServerConnects
  BY DEF IInv
<1> QED BY <1>1, HandshakeInvariants, PTL

-----------------------------------------------------------------------------
(* The frames that follow the handshake, for any length of header and body *)
(* and any number of bytes.                                                *)

(* What the invariant rests on.  recvall holds nothing between two chunks  *)
(* that could be lost: it keeps _read_buffer only when a timeout strikes,  *)
(* and a timeout strikes only before the first chunk, so that _read_buffer *)
(* is in fact never filled; ...                                            *)
BufferInv ==
  /\ read_buffer = <<>>
  /\ recvall_pc # "recv" \/ timeout # "block" => res = <<>>

(* ... what is held is a part of one frame, and ...                        *)
PartInv ==
  /\ header = <<>> \/ Len(header) = HeaderLen
  /\ Len(res) <= Wanted

(* ... bytes are forgotten only when no other will come.                   *)
Held == header \o res
HeldInv ==
  \/ Held = Bytes(frames * FrameLen, pos - frames * FrameLen) /\ frames * FrameLen <= pos
  \/ dead /\ pos = arrived /\ res = <<>>

FrameInv == FramingTypeOK /\ FramesIntact /\ BufferInv /\ PartInv /\ HeldInv

-----------------------------------------------------------------------------
LEMMA FrameConstants ==
  /\ HeaderLen \in Nat /\ HeaderLen > 0 /\ BodyLen \in Nat /\ BodyLen > 0
  /\ MaxBytes \in Nat /\ FrameLen \in Nat /\ FrameLen > 0
BY FramingAssumption DEF FrameLen

LEMMA FrameCount ==
  /\ \A k \in Nat : k * FrameLen \in Nat
  /\ \A k \in Nat : (k + 1) * FrameLen = k * FrameLen + FrameLen
BY FrameConstants

LEMMA ConcatNat ==
  \A s, t, u \in Seq(Nat) : (s \o t) \o u = s \o (t \o u)
BY ConcatAssociative

(* Positions that follow each other.                                       *)
LEMMA BytesSeq ==
  ASSUME NEW from \in Nat, NEW n \in Nat
  PROVE  Bytes(from, n) \in Seq(Nat) /\ Len(Bytes(from, n)) = n
BY DEF Bytes

LEMMA BytesConcat ==
  ASSUME NEW from \in Nat, NEW m \in Nat, NEW n \in Nat
  PROVE  Bytes(from, m) \o Bytes(from + m, n) = Bytes(from, m + n)
<1> DEFINE s == Bytes(from, m)
           t == Bytes(from + m, n)
           u == Bytes(from, m + n)
<1>1. s \in Seq(Nat) /\ Len(s) = m
  BY BytesSeq
<1>2. t \in Seq(Nat) /\ Len(t) = n
  <2>1. from + m \in Nat
    OBVIOUS
  <2> QED BY <2>1, BytesSeq
<1>3. u \in Seq(Nat) /\ Len(u) = m + n
  <2>1. m + n \in Nat
    OBVIOUS
  <2> QED BY <2>1, BytesSeq
<1>4. \A i \in 1 .. m : s[i] = from + i
  BY DEF Bytes
<1>5. \A i \in 1 .. n : t[i] = from + m + i
  BY DEF Bytes
<1>6. \A i \in 1 .. m + n : u[i] = from + i
  BY DEF Bytes
<1> HIDE DEF s, t, u
<1>7. /\ s \o t \in Seq(Nat) /\ Len(s \o t) = m + n
      /\ \A i \in 1 .. m + n : (s \o t)[i] = IF i <= m THEN s[i] ELSE t[i - m]
  BY <1>1, <1>2, ConcatProperties
<1>8. \A i \in 1 .. m + n : (s \o t)[i] = u[i]
  <2> SUFFICES ASSUME NEW i \in 1 .. m + n PROVE (s \o t)[i] = u[i]
    OBVIOUS
  <2>1. CASE i <= m
    BY <1>4, <1>6, <1>7, <2>1
  <2>2. CASE ~(i <= m)
    <3>1. i - m \in 1 .. n /\ from + m + (i - m) = from + i
      BY <2>2
    <3> QED BY <1>5, <1>6, <1>7, <2>2, <3>1
  <2> QED BY <2>1, <2>2
<1>9. s \o t = u
  BY <1>3, <1>7, <1>8, SeqEqual
<1> QED BY <1>9 DEF s, t, u

-----------------------------------------------------------------------------
LEMMA InitFraming == FramingInit => FrameInv
<1> SUFFICES ASSUME FramingInit PROVE FrameInv
  OBVIOUS
<1>1. FramingTypeOK
  <2>1. <<>> \in Seq(Nat)
    OBVIOUS
  <2>2. {read_buffer, header, res, last} \subseteq Seq(Nat)
    BY <2>1 DEF FramingInit
  <2>3. arrived \in 0 .. MaxBytes /\ pos \in 0 .. arrived /\ frames \in Nat
    BY FrameConstants DEF FramingInit
  <2> QED BY <2>2, <2>3, Zenon DEF FramingInit, FramingTypeOK
<1>3. FramesIntact /\ BufferInv /\ PartInv
  BY FrameConstants, EmptySeq DEF FramingInit, FramesIntact, BufferInv, PartInv, Wanted
<1>2. HeldInv
  <2>1. Held = <<>>
    BY EmptySeq, ConcatEmptySeq DEF FramingInit, Held
  <2>2. Bytes(0, 0) = <<>>
    BY BytesSeq, EmptySeq
  <2> QED BY <2>1, <2>2, FrameConstants DEF FramingInit, HeldInv
<1> QED BY <1>1, <1>2, <1>3 DEF FrameInv

(* A chunk continues what is held.                                         *)
LEMMA ChunkStep == ASSUME FrameInv, RecvChunk PROVE FrameInv'
<1> USE DEF FrameInv, FramingTypeOK
<1>1. PICK n \in 1 .. InKernel :
         n <= Wanted - Len(res) /\ res' = res \o Bytes(pos, n) /\ pos' = pos + n
  BY DEF RecvChunk
<1>2. n \in Nat /\ pos \in Nat /\ arrived \in Nat /\ pos + n <= arrived
  BY <1>1, FrameConstants DEF InKernel
<1>3. /\ header \in Seq(Nat) /\ res \in Seq(Nat)
      /\ Bytes(pos, n) \in Seq(Nat) /\ Len(Bytes(pos, n)) = n
  BY <1>2, BytesSeq
<1>4. res' \in Seq(Nat) /\ Len(res') = Len(res) + n /\ Len(res) \in Nat
  BY <1>1, <1>3, ConcatProperties, LenProperties
<1>5. Wanted \in Nat /\ Wanted' = Wanted
  BY FrameConstants DEF Wanted, RecvChunk
<1>6. FramingTypeOK' /\ FramesIntact' /\ BufferInv' /\ PartInv'
  BY <1>1, <1>2, <1>4, <1>5 DEF RecvChunk, FramesIntact, BufferInv, PartInv
<1>7. HeldInv'
  <2> DEFINE from == frames * FrameLen
  <2>1. Held = Bytes(from, pos - from) /\ from <= pos /\ from \in Nat
    BY <1>1, <1>2, FrameCount DEF HeldInv
  <2>2. Held' = Held \o Bytes(pos, n)
    <3>1. header' = header /\ res' = res \o Bytes(pos, n)
      BY <1>1 DEF RecvChunk
    <3>2. (header \o res) \o Bytes(pos, n) = header \o (res \o Bytes(pos, n))
      BY <1>3, ConcatNat
    <3> QED BY <3>1, <3>2 DEF Held
  <2>3. pos = from + (pos - from) /\ pos - from \in Nat /\ (pos - from) + n = (pos + n) - from
    BY <1>2, <2>1
  <2>4. Bytes(from, pos - from) \o Bytes(from + (pos - from), n) = Bytes(from, (pos - from) + n)
    BY <1>2, <2>1, <2>3, BytesConcat
  <2>5. Held' = Bytes(from, (pos + n) - from)
    BY <2>1, <2>2, <2>3, <2>4
  <2> QED BY <1>1, <1>2, <2>1, <2>5 DEF HeldInv, RecvChunk
<1> QED BY <1>6, <1>7

(* A header is all of its bytes, ...                                       *)
LEMMA HeaderReadStep == ASSUME FrameInv, HeaderRead PROVE FrameInv'
<1> USE DEF FrameInv, FramingTypeOK
<1>1. res \in Seq(Nat) /\ Len(res) \in Nat /\ Len(res) = HeaderLen /\ Wanted = HeaderLen
  BY FrameConstants, LenProperties DEF HeaderRead, PartInv, Wanted
<1>2. res # <<>> /\ header' = res /\ res' = <<>> /\ recvall_pc' = "enter"
  BY <1>1, FrameConstants, EmptySeq DEF HeaderRead
<1>3. Wanted' = BodyLen
  BY <1>2 DEF Wanted
<1>4. FramingTypeOK' /\ FramesIntact' /\ BufferInv' /\ PartInv'
  BY <1>1, <1>2, <1>3, FrameConstants, EmptySeq DEF HeaderRead, FramesIntact, BufferInv, PartInv
<1>5. Held' = Held
  BY <1>1, <1>2, ConcatEmptySeq DEF Held, HeaderRead
<1>6. HeldInv'
  BY <1>2, <1>5 DEF HeldInv, HeaderRead
<1> QED BY <1>4, <1>6

(* ... and with its body all of one frame.                                 *)
LEMMA FrameReadStep == ASSUME FrameInv, FrameRead PROVE FrameInv'
<1> USE DEF FrameInv, FramingTypeOK
<1> DEFINE from == frames * FrameLen
<1>1. /\ res \in Seq(Nat) /\ header \in Seq(Nat) /\ pos \in Nat /\ frames \in Nat
      /\ Len(res) = BodyLen /\ Len(header) = HeaderLen /\ res # <<>>
  BY FrameConstants, LenProperties, EmptySeq DEF FrameRead, PartInv, Wanted
<1>2. /\ last' = Held /\ frames' = frames + 1 /\ header' = <<>> /\ res' = <<>> /\ recvall_pc' # "recv"
      /\ UNCHANGED <<arrived, pos, dead, read_buffer>>
      /\ UNCHANGED <<sock, timeout>> /\ deadline' \in {deadline, "none"}
      /\ recvall_pc' \in {"idle", "enter"}
  BY DEF FrameRead, Idle, Held
<1>3. Held \in Seq(Nat) /\ Len(Held) = FrameLen
  BY <1>1, ConcatProperties DEF Held, FrameLen
<1>4. Held = Bytes(from, pos - from) /\ from <= pos /\ from \in Nat
  BY <1>1, FrameCount DEF HeldInv
<1>5. pos - from = FrameLen
  <2>1. pos - from \in Nat
    BY <1>1, <1>4
  <2>2. Len(Bytes(from, pos - from)) = pos - from
    BY <1>4, <2>1, BytesSeq
  <2> QED BY <1>3, <1>4, <2>2
<1>6. frames' - 1 = frames /\ frames' * FrameLen = pos /\ frames' \in Nat
  BY <1>1, <1>2, <1>4, <1>5, FrameCount, FrameConstants
<1>7. FramesIntact'
  BY <1>2, <1>4, <1>5, <1>6 DEF FramesIntact
<1>8. FramingTypeOK' /\ BufferInv' /\ PartInv'
  BY <1>1, <1>2, <1>3, FrameConstants, EmptySeq DEF BufferInv, PartInv, Wanted
<1>9. HeldInv'
  <2>1. Held' = <<>>
    BY <1>2, EmptySeq, ConcatEmptySeq DEF Held
  <2>2. Bytes(pos, 0) = <<>>
    BY <1>1, BytesSeq, EmptySeq
  <2> QED BY <1>1, <1>2, <1>6, <2>1, <2>2 DEF HeldInv
<1> QED BY <1>7, <1>8, <1>9

(* Enter, and what ends a call without a frame.                            *)
LEMMA RecvallStep ==
  ASSUME FrameInv, Call \/ Enter \/ RecvallTimeout \/ RecvallWouldBlock \/ RecvallFails
  PROVE  FrameInv'
<1> USE DEF FrameInv, FramingTypeOK
<1>1. UNCHANGED <<arrived, pos, dead, header, frames, last>>
  BY DEF Call, Enter, RecvallTimeout, RecvallWouldBlock, RecvallFails
<1>2. /\ res' = <<>> /\ read_buffer' = <<>>
      /\ \/ res = <<>>
         \/ RecvallFails
  BY DEF Call, Enter, RecvallTimeout, RecvallWouldBlock, RecvallFails, Idle, BufferInv
<1>3. /\ sock' \in {"open", "closed"} /\ timeout' \in {"block", "finite", "zero"}
      /\ recvall_pc' \in {"idle", "enter", "recv"} /\ deadline' \in {"none", "ahead", "passed"}
  BY DEF Call, Enter, RecvallTimeout, RecvallWouldBlock, RecvallFails, Idle
<1>4. FramingTypeOK' /\ FramesIntact' /\ BufferInv' /\ PartInv'
  BY <1>1, <1>2, <1>3, FrameConstants, EmptySeq DEF FramesIntact, BufferInv, PartInv, Wanted
<1>5. HeldInv'
  <2>1. CASE res = <<>>
    BY <1>1, <1>2, <2>1 DEF HeldInv, Held
  <2>2. CASE RecvallFails
    BY <1>1, <1>2, <2>2 DEF HeldInv, RecvallFails, InKernel
  <2> QED BY <1>2, <2>1, <2>2
<1> QED BY <1>4, <1>5

(* The network and the clock take nothing away.                            *)
LEMMA OutsideStep ==
  ASSUME FrameInv, Arrive \/ Die \/ DeadlinePasses \/ UNCHANGED framingVars
  PROVE  FrameInv'
<1> USE DEF FrameInv, FramingTypeOK
<1>1. /\ UNCHANGED <<pos, sock, timeout, read_buffer, header, res, recvall_pc, frames, last>>
      /\ UNCHANGED Held
  BY DEF Arrive, Die, DeadlinePasses, framingVars, Held
<1>2. /\ arrived' \in 0 .. MaxBytes /\ arrived <= arrived' /\ arrived \in Nat
      /\ dead' \in BOOLEAN /\ (dead => dead' /\ arrived' = arrived)
      /\ deadline' \in {"none", "ahead", "passed"}
  <2>1. arrived \in Nat
    BY FrameConstants
  <2>2. CASE Arrive
    BY <2>1, <2>2, FrameConstants DEF Arrive
  <2>3. CASE Die \/ DeadlinePasses \/ UNCHANGED framingVars
    <3>1. arrived' = arrived /\ deadline' \in {"none", "ahead", "passed"}
      BY <2>3 DEF Die, DeadlinePasses, framingVars
    <3>2. dead' \in BOOLEAN /\ (dead => dead')
      BY <2>3, Zenon DEF Die, DeadlinePasses, framingVars
    <3> QED BY <2>1, <3>1, <3>2
  <2> QED BY <2>2, <2>3
<1>3. FramingTypeOK' /\ FramesIntact' /\ BufferInv' /\ PartInv'
  BY <1>1, <1>2 DEF FramesIntact, BufferInv, PartInv, Wanted
<1>4. HeldInv'
  BY <1>1, <1>2 DEF HeldInv
<1> QED BY <1>3, <1>4

LEMMA FramingStep == FrameInv /\ [FramingNext]_framingVars => FrameInv'
BY ChunkStep, HeaderReadStep, FrameReadStep, RecvallStep, OutsideStep DEF FramingNext, Driver

(* recvall and _read_response of net.py: however the network cuts the      *)
(* stream and wherever a timeout strikes, no byte is lost or read twice,   *)
(* and each frame is handed out as it was sent.                            *)
THEOREM FramingInvariant == FramingSpec => []FramingInv
<1>1. FramingInit => FrameInv
  BY InitFraming
<1>2. FrameInv /\ [FramingNext]_framingVars => FrameInv'
  BY FramingStep
<1>3. FrameInv => FramingInv
  <2> SUFFICES ASSUME FrameInv, ~dead PROVE NoByteLost
    BY DEF FrameInv, FramingInv, NoByteLost
  <2>1. (IF recvall_pc = "recv" THEN res ELSE read_buffer) = res
    BY DEF FrameInv, BufferInv
  <2> QED BY <2>1 DEF FrameInv, HeldInv, Held, NoByteLost
<1> QED BY <1>1, <1>2, <1>3, PTL DEF FramingSpec
=============================================================================
