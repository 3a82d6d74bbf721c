--------------------------- MODULE ClientSession ---------------------------
(***************************************************************************)
(* The machoNet client: Client drives Connection, Handshake, SessionCrypto *)
(* and FrameDecoder over one TCP connection at a time.  The caller is one  *)
(* thread; the server and the network run beside it.                       *)
(*                                                                         *)
(* The byte stream is kept: a frame is one prefix unit (the four length    *)
(* bytes) and as many payload units as its message has, recv returns any   *)
(* number of units, and the decoder finds the frames again.  A payload is  *)
(* the message it carries, a ciphertext the message with the              *)
(* initialisation vector it was made under; a vector is named by the       *)
(* ciphertext whose last block it is (0 is the one the client chose).      *)
(*                                                                         *)
(* The server is not in this repository.  It is modelled from the          *)
(* exchange the client expects: it may also fall silent, answer with       *)
(* another value, or close.                                                *)
(***************************************************************************)
EXTENDS Integers, Sequences

CONSTANTS
    MaxAttempts,    \* m_reconnect_attempts
    MaxPayload,     \* MAX_FRAME_PAYLOAD_BYTES, in units
    RecvChunk,      \* kRecvChunkBytes, in units
    MaxConnects,    \* bound: calls of Client::Connect
    MaxSession,     \* bound: messages each side starts in one session
    MaxFaults       \* bound: deviations of the server

ASSUME BoundsAssumption ==
    /\ MaxAttempts \in Nat /\ MaxConnects \in Nat
    /\ MaxSession \in Nat /\ MaxFaults \in Nat
    /\ MaxPayload \in Nat \ {0} /\ RecvChunk \in Nat \ {0}

VARIABLES
    pc,          \* what the calling thread is inside
    step,        \* next line of EstablishSession
    attempt,     \* failed attempts of this Client::Connect
    calls,       \* calls of Client::Connect so far
    connected,   \* Client::m_connected
    open,        \* Connection::m_connected (and m_socket)
    generation,  \* Connection::m_generation
    crypto,      \* Connection::m_crypto: its m_iv, or NoCrypto
    decoder,     \* Connection::m_decoder.m_buffer
    hs,          \* Client::m_handshake.m_state
    sent,        \* session messages the caller has started
    error,       \* the exception the last call ended with
    toServer,    \* messages on the way to the server
    toClient,    \* units on the way to the client
    srv,         \* the server's end of the connection
    lastIv,      \* ciphertexts made on this connection, by either end
    broken       \* ciphertexts crossed on the wire, or one was made and not sent

clientVars == <<pc, step, attempt, calls, connected, open, generation, crypto,
                decoder, hs, sent, error>>
vars == <<clientVars, toServer, toClient, srv, lastIv, broken>>

-----------------------------------------------------------------------------
(* Framing. *)

NoCrypto == -1
NoMsg == [shape |-> "none", iv |-> NoCrypto, cid |-> 0, size |-> 1,
          gen |-> 0, seq |-> 0]

(* A payload of n units; the encoder refuses one above the limit. *)
EncodeFrame(m) ==
    [i \in 1..(m.size + 1) |->
        [part |-> IF i = 1 THEN "prefix" ELSE "payload", msg |-> m]]

FitsFrame(m) == m.size <= MaxPayload

(* What the first four bytes of the buffer read as. *)
LengthAt(buffer) ==
    IF Head(buffer).part = "prefix" THEN Head(buffer).msg.size ELSE 1

BufferOverflows(buffer) == Len(buffer) > MaxPayload + 1

FrameReady_Mutant(buffer) ==
    /\ buffer # <<>>
    /\ LengthAt(buffer) <= MaxPayload
    /\ Len(buffer) >= LengthAt(buffer)

(* TryPopFrame finds a whole frame at the head of the buffer. *)
FrameReady(buffer) ==
    /\ buffer # <<>>
    /\ LengthAt(buffer) <= MaxPayload
    /\ Len(buffer) >= 1 + LengthAt(buffer)

LeastOf(a, b) == IF a < b THEN a ELSE b

FramePayload(buffer) ==
    SubSeq(buffer, 2, LeastOf(Len(buffer), 1 + LengthAt(buffer)))
AfterFrame(buffer) ==
    SubSeq(buffer, LeastOf(Len(buffer), 1 + LengthAt(buffer)) + 1, Len(buffer))

(* The message a payload is the encoding of; anything else does not decode. *)
Carried(payload) ==
    IF /\ payload # <<>>
       /\ payload = Tail(EncodeFrame(Head(payload).msg))
    THEN Head(payload).msg ELSE NoMsg

-----------------------------------------------------------------------------
(* Handshake: what a message must look like, and the state it needs. *)

HandshakeStates == {"WaitVersion", "WaitCommand", "WaitCrypto", "WaitAuth",
                    "WaitFuncResult", "Session"}

(* One line of EstablishSession: receive a value of a shape or send one,  *)
(* the states RequireState lets through, and the state it leaves.         *)
Line(op, shape, from, to) == [op |-> op, shape |-> shape, from |-> from, to |-> to]

(* The messages, by their shape. *)
BuildVkCommand == "vk"
BuildCryptoRequest == "crypto_request"
BuildLoginChallenge == "login"
BuildHandshakeResult == "result"

OnVersionExchangeServer == Line("recv", "version", {"WaitVersion"}, "WaitCommand")
BuildVersionExchangeClient == Line("send", "client_version", HandshakeStates, "same")
OnVkSent == Line("send", BuildVkCommand, {"WaitCommand"}, "WaitCrypto")
OnCryptoRequestSent == Line("send", BuildCryptoRequest, {"WaitCrypto"}, "same")
OnOkCc == Line("recv", "ok_cc", {"WaitCrypto"}, "WaitAuth")
OnLoginChallengeSent == Line("send", BuildLoginChallenge, {"WaitAuth"}, "same")
OnPasswordVersion == Line("recv", "password_version", {"WaitAuth"}, "same")
OnCryptoServerHandshake == Line("recv", "server_handshake", {"WaitAuth"}, "WaitFuncResult")
OnHandshakeResultSent == Line("send", BuildHandshakeResult, {"WaitFuncResult"}, "same")
OnCryptoHandshakeAck == Line("recv", "ack", {"WaitFuncResult"}, "Session")

EstablishSession ==
    <<OnVersionExchangeServer, BuildVersionExchangeClient, OnVkSent,
      OnCryptoRequestSent, OnOkCc, OnLoginChallengeSent, OnPasswordVersion,
      OnCryptoServerHandshake, OnHandshakeResultSent, OnCryptoHandshakeAck>>

LastLine == Len(EstablishSession)

IsComplete(state) == state = "Session"

StateAfter(line) == IF line.to = "same" THEN hs ELSE line.to

Accepts_Mutant(line, shape) == hs \in line.from

(* RequireState, RequireTuple, RequireString, RequireInt and RequireDict: *)
(* the message comes in its turn and has the shape of its turn.           *)
Accepts(line, shape) == hs \in line.from /\ shape = line.shape

SetSessionCrypto_Mutant(line, iv) == IF line.shape = "password_version" THEN 0 ELSE iv

(* Encryption starts, under the vector of the crypto request, with OK CC. *)
SetSessionCrypto(line, iv) == IF line.shape = "ok_cc" THEN 0 ELSE iv

-----------------------------------------------------------------------------
(* Session crypto. *)

(* Encrypt makes a ciphertext under the vector, which becomes its last block. *)
Encrypt(iv, m) ==
    IF iv = NoCrypto THEN m ELSE [m EXCEPT !.iv = iv, !.cid = lastIv + 1]

AfterEncrypt(iv) == IF iv = NoCrypto THEN iv ELSE lastIv + 1

Ciphertexts(iv) == IF iv = NoCrypto THEN lastIv ELSE lastIv + 1

(* The bytes decode to the message: same mode, and the vector it was made under. *)
Decrypts(iv, m) == m # NoMsg /\ m.iv = iv

AfterDecrypt_Mutant(iv, m) == iv

(* A decryption that passes leaves the last block of the ciphertext ... *)
AfterDecrypt(iv, m) == IF iv = NoCrypto THEN iv ELSE m.cid

(* ... and so does one whose damage only the marshal decoder notices; a bad *)
(* length or bad padding leaves the vector alone.                           *)
AfterFailedDecrypt(iv, m) ==
    {iv} \cup (IF iv # NoCrypto /\ m.iv # NoCrypto THEN {m.cid} ELSE {})

-----------------------------------------------------------------------------
(* The server's end (external). *)

ServerScript ==
    [i \in 1..LastLine |->
        [EstablishSession[i] EXCEPT !.op = IF @ = "send" THEN "recv" ELSE "send"]]

(* step counts its lines of the handshake, honest: it has kept to *)
(* them, garbled: it closed on a message it could not decrypt.            *)
NewServer(gen, faults) ==
    [gen |-> gen, step |-> 1, iv |-> NoCrypto, alive |-> gen > 0, honest |-> TRUE,
     garbled |-> FALSE, seq |-> 0, started |-> 0, faults |-> faults]

ServerInSession == srv.step > LastLine

ServerPut(shape, size, newSrv) ==
    LET m == [shape |-> shape, iv |-> NoCrypto, cid |-> 0, size |-> size,
              gen |-> srv.gen, seq |-> srv.seq + 1]
    IN /\ toClient' = toClient \o EncodeFrame(Encrypt(srv.iv, m))
       /\ srv' = [newSrv EXCEPT !.seq = srv.seq + 1,
                     !.iv = IF shape = "ok_cc" THEN 0 ELSE AfterEncrypt(srv.iv)]
       /\ lastIv' = Ciphertexts(srv.iv)
       /\ broken' = (broken \/ (srv.iv # NoCrypto /\ toServer # <<>>))

ServerTurn(op) ==
    srv.alive /\ srv.step <= LastLine /\ ServerScript[srv.step].op = op

(* The handshake messages, the server's one being the largest allowed. *)
ServerSends ==
    /\ ServerTurn("send")
    /\ LET shape == ServerScript[srv.step].shape
       IN ServerPut(shape, IF shape = "server_handshake" THEN MaxPayload ELSE 1,
                    [srv EXCEPT !.step = @ + 1])
    /\ UNCHANGED <<clientVars, toServer>>

(* Another value in place of the handshake message, or a frame over the limit. *)
ServerDeviates ==
    /\ srv.alive /\ srv.faults < MaxFaults
    /\ ServerTurn("send") \/ ServerInSession
    /\ \E size \in {1, MaxPayload + 1} :
           ServerPut("other", size,
                     [srv EXCEPT !.step = IF ServerInSession THEN @ ELSE @ + 1,
                                 !.honest = @ /\ ServerInSession,
                                 !.faults = @ + 1])
    /\ UNCHANGED <<clientVars, toServer>>

(* A message in its turn is taken; one that does not decrypt ends the connection. *)
ServerReceives ==
    /\ srv.alive /\ toServer # <<>>
    /\ ServerTurn("recv") \/ ServerInSession
    /\ LET m == Head(toServer)
           next == IF ServerInSession THEN srv.step ELSE srv.step + 1
       IN srv' = IF /\ Decrypts(srv.iv, m)
                    /\ ServerInSession \/ m.shape = ServerScript[srv.step].shape
                 THEN [srv EXCEPT !.step = next,
                                  !.iv = IF @ = NoCrypto THEN @ ELSE m.cid]
                 ELSE [srv EXCEPT !.alive = FALSE, !.garbled = ~Decrypts(srv.iv, m)]
    /\ toServer' = Tail(toServer)
    /\ UNCHANGED <<clientVars, toClient, lastIv, broken>>

(* Pings are to be answered; notification stands for every packet that is not. *)
ServerStarts ==
    /\ srv.alive /\ ServerInSession /\ srv.started < MaxSession
    /\ \E kind \in {<<"ping_req", 1>>, <<"notification", MaxPayload>>} :
           ServerPut(kind[1], kind[2], [srv EXCEPT !.started = @ + 1])
    /\ UNCHANGED <<clientVars, toServer>>

ServerCloses ==
    /\ srv.alive /\ srv.faults < MaxFaults
    /\ srv' = [srv EXCEPT !.alive = FALSE, !.faults = @ + 1]
    /\ UNCHANGED <<clientVars, toServer, toClient, lastIv, broken>>

-----------------------------------------------------------------------------
(* Connection. *)

InFlight(units) == \E i \in 1..Len(units) : units[i].msg.iv # NoCrypto

ClientMsg(shape, size) ==
    [shape |-> shape, iv |-> NoCrypto, cid |-> 0, size |-> size,
     gen |-> generation, seq |-> 0]

(* SendMarshal encodes, encrypts, frames and sends: the vector moves first. *)
SendMarshal(iv, shape, size, buffer) ==
    /\ FitsFrame(ClientMsg(shape, size))
    /\ crypto' = AfterEncrypt(iv)
    /\ lastIv' = Ciphertexts(iv)
    /\ toServer' = IF srv.alive
                   THEN Append(toServer, Encrypt(iv, ClientMsg(shape, size)))
                   ELSE toServer
    /\ broken' = (broken \/ (iv # NoCrypto /\ (InFlight(buffer) \/ InFlight(toClient))))

(* The frame is too large or the socket refuses it; the vector has moved. *)
SendMarshalFails(iv, shape, size) ==
    /\ ~FitsFrame(ClientMsg(shape, size)) \/ ~srv.alive
    /\ crypto' = AfterEncrypt(iv)
    /\ lastIv' = Ciphertexts(iv)
    /\ broken' = (broken \/ iv # NoCrypto)
    /\ UNCHANGED toServer

ConnectionConnect_Mutant ==
    /\ open' = TRUE
    /\ generation' = generation + 1
    /\ crypto' = NoCrypto
    /\ UNCHANGED decoder

(* Connection::Connect: a new generation, an empty decoder, no crypto. *)
ConnectionConnect ==
    /\ open' = TRUE
    /\ generation' = generation + 1
    /\ crypto' = NoCrypto
    /\ decoder' = <<>>

(* Connection::Disconnect closes the socket and leaves the decoder alone. *)
ConnectionDisconnect ==
    /\ open' = FALSE
    /\ crypto' = NoCrypto
    /\ toServer' = <<>>
    /\ toClient' = <<>>
    /\ srv' = [srv EXCEPT !.alive = FALSE]
    /\ UNCHANGED generation

-----------------------------------------------------------------------------
(* Client. *)

Init ==
    /\ pc = "idle" /\ step = 1 /\ attempt = 0 /\ calls = 0
    /\ connected = FALSE /\ open = FALSE /\ generation = 0
    /\ crypto = NoCrypto /\ decoder = <<>> /\ hs = "WaitVersion"
    /\ sent = 0 /\ error = "none"
    /\ toServer = <<>> /\ toClient = <<>> /\ srv = NewServer(0, 0)
    /\ lastIv = 0 /\ broken = FALSE

Connect ==
    /\ pc = "idle" /\ ~connected /\ calls < MaxConnects
    /\ pc' = "open" /\ attempt' = 0 /\ calls' = calls + 1 /\ error' = "none"
    /\ UNCHANGED <<step, connected, open, generation, crypto, decoder, hs, sent,
                   toServer, toClient, srv, lastIv, broken>>

(* The handler of Connect: disconnect, count, and give up or sleep and retry. *)
AttemptFails(why, buffer) ==
    /\ ConnectionDisconnect
    /\ decoder' = buffer
    /\ attempt' = attempt + 1
    /\ pc' = IF attempt' > MaxAttempts THEN "idle" ELSE "open"
    /\ error' = IF attempt' > MaxAttempts THEN "reconnect" ELSE why
    /\ UNCHANGED <<step, calls, connected, hs, sent, lastIv, broken>>

OpenConnection ==
    /\ pc = "open"
    /\ ConnectionConnect
    /\ hs' = "WaitVersion" /\ step' = 1 /\ pc' = "establish" /\ sent' = 0
    /\ srv' = NewServer(generation', srv.faults)
    /\ toServer' = <<>> /\ toClient' = <<>> /\ lastIv' = 0 /\ broken' = FALSE
    /\ UNCHANGED <<attempt, calls, connected, error>>

(* The host is not loopback, does not resolve, or refuses the connection. *)
OpenFails == pc = "open" /\ AttemptFails("connect", decoder)

CurrentLine == EstablishSession[step]

SendLine ==
    /\ pc = "establish" /\ CurrentLine.op = "send" /\ hs \in CurrentLine.from
    /\ SendMarshal(crypto, CurrentLine.shape, 1, decoder)
    /\ hs' = StateAfter(CurrentLine)
    /\ step' = step + 1
    /\ UNCHANGED <<pc, attempt, calls, connected, open, generation, decoder, sent,
                   error, toClient, srv>>

SendLineFails ==
    /\ pc = "establish" /\ CurrentLine.op = "send"
    /\ ~srv.alive \/ hs \notin CurrentLine.from
    /\ AttemptFails("send", decoder)

(* The calling thread is inside ReceiveMarshal. *)
Receiving == pc = "receive" \/ (pc = "establish" /\ CurrentLine.op = "recv")

(* An exception ends the attempt of Connect, or Receive, which leaves the *)
(* connection and m_connected as they are.                                *)
ReceiveThrows(why, buffer, wire, iv) ==
    \/ pc = "establish" /\ AttemptFails(why, buffer)
    \/ /\ pc = "receive" /\ pc' = "idle" /\ error' = why
       /\ decoder' = buffer /\ toClient' = wire /\ crypto' = iv
       /\ UNCHANGED <<step, attempt, calls, connected, open, generation, hs, sent,
                      toServer, srv, lastIv, broken>>

LengthTooLarge == decoder # <<>> /\ LengthAt(decoder) > MaxPayload

NeedsBytes == Receiving /\ ~FrameReady(decoder) /\ ~LengthTooLarge

(* recv returns any number of the bytes that are there; Push takes them. *)
RecvBytes ==
    /\ NeedsBytes
    /\ \E n \in 1..LeastOf(RecvChunk, Len(toClient)) :
          LET buffer == decoder \o SubSeq(toClient, 1, n)
              wire == SubSeq(toClient, n + 1, Len(toClient))
          IN \/ /\ ~BufferOverflows(buffer)
                /\ decoder' = buffer /\ toClient' = wire
                /\ UNCHANGED <<pc, step, attempt, calls, connected, open, generation,
                               crypto, hs, sent, error, toServer, srv, lastIv, broken>>
             \/ /\ BufferOverflows(buffer)
                /\ ReceiveThrows("buffer_too_large", buffer, wire, crypto)

RecvFrameTooLarge ==
    /\ Receiving /\ LengthTooLarge
    /\ ReceiveThrows("frame_too_large", decoder, toClient, crypto)

RecvClosed ==
    /\ NeedsBytes /\ toClient = <<>> /\ ~srv.alive
    /\ ReceiveThrows("closed", decoder, toClient, crypto)

RecvTimeout_Mutant ==
    /\ NeedsBytes /\ decoder = <<>> /\ toClient = <<>> /\ srv.alive
    /\ pc = "receive"
    /\ ReceiveThrows("timeout", decoder, toClient, crypto)

(* SO_RCVTIMEO: nothing came for RECEIVE_TIMEOUT_MS. *)
RecvTimeout ==
    /\ NeedsBytes /\ toClient = <<>> /\ srv.alive
    /\ ReceiveThrows("timeout", decoder, toClient, crypto)

Popped == Carried(FramePayload(decoder))

RecvUndecodable ==
    /\ Receiving /\ FrameReady(decoder) /\ ~Decrypts(crypto, Popped)
    /\ \E iv \in AfterFailedDecrypt(crypto, Popped) :
           ReceiveThrows("undecodable", AfterFrame(decoder), toClient, iv)

(* A handshake message in its turn; after the last one Connect returns. *)
RecvLine ==
    /\ pc = "establish" /\ Receiving /\ FrameReady(decoder) /\ Decrypts(crypto, Popped)
    /\ IF Accepts(CurrentLine, Popped.shape)
       THEN /\ decoder' = AfterFrame(decoder)
            /\ crypto' = SetSessionCrypto(CurrentLine, AfterDecrypt(crypto, Popped))
            /\ hs' = StateAfter(CurrentLine)
            /\ step' = step + 1
            /\ pc' = IF step = LastLine THEN "idle" ELSE pc
            /\ connected' = (step = LastLine /\ IsComplete(hs'))
            /\ UNCHANGED <<attempt, calls, open, generation, sent, error, toServer,
                           toClient, srv, lastIv, broken>>
       ELSE AttemptFails("protocol", AfterFrame(decoder))

(* Client::Receive is called. *)
Receive ==
    /\ pc = "idle" /\ connected
    /\ pc' = "receive" /\ error' = "none"
    /\ UNCHANGED <<step, attempt, calls, connected, open, generation, crypto, decoder,
                   hs, sent, toServer, toClient, srv, lastIv, broken>>

(* HandleIncoming: a ping is answered, a value that is no packet throws, and *)
(* every other packet is reported and nothing else.                          *)
HandleIncoming ==
    /\ pc = "receive" /\ FrameReady(decoder) /\ Decrypts(crypto, Popped)
    /\ decoder' = AfterFrame(decoder)
    /\ pc' = "idle"
    /\ LET iv == AfterDecrypt(crypto, Popped)
       IN \/ /\ Popped.shape = "ping_req"
             /\ SendMarshal(iv, "ping_rsp", 1, AfterFrame(decoder))
             /\ error' = "none"
          \/ /\ Popped.shape = "ping_req"
             /\ SendMarshalFails(iv, "ping_rsp", 1)
             /\ error' = "closed"
          \/ /\ Popped.shape # "ping_req"
             /\ crypto' = iv
             /\ error' = IF Popped.shape = "other" THEN "format" ELSE "none"
             /\ UNCHANGED <<toServer, lastIv, broken>>
    /\ UNCHANGED <<step, attempt, calls, connected, open, generation, hs, sent,
                   toClient, srv>>

(* SendCall, SendNotification and SendPing. *)
SessionSend ==
    /\ pc = "idle" /\ connected /\ sent < MaxSession
    /\ \E size \in {1, MaxPayload + 1} :
          \/ SendMarshal(crypto, "packet", size, decoder) /\ error' = "none"
          \/ /\ SendMarshalFails(crypto, "packet", size)
             /\ error' = IF size > MaxPayload THEN "too_large" ELSE "closed"
    /\ sent' = sent + 1
    /\ UNCHANGED <<pc, step, attempt, calls, connected, open, generation, decoder, hs,
                   toClient, srv>>

(* PumpOnce pings when the heartbeat is due. *)
PumpOnce ==
    /\ pc = "idle" /\ connected /\ sent < MaxSession
    /\ \/ SendMarshal(crypto, "packet", 1, decoder) /\ error' = "none"
       \/ SendMarshalFails(crypto, "packet", 1) /\ error' = "closed"
    /\ sent' = sent + 1
    /\ UNCHANGED <<pc, step, attempt, calls, connected, open, generation, decoder, hs,
                   toClient, srv>>

Disconnect ==
    /\ pc = "idle" /\ connected
    /\ ConnectionDisconnect
    /\ connected' = FALSE
    /\ UNCHANGED <<pc, step, attempt, calls, decoder, hs, sent, error, lastIv, broken>>

ClientNext ==
    \/ OpenConnection \/ OpenFails \/ SendLine \/ SendLineFails \/ RecvBytes
    \/ RecvFrameTooLarge \/ RecvClosed \/ RecvTimeout \/ RecvUndecodable
    \/ RecvLine \/ HandleIncoming

CallerNext == Connect \/ Receive \/ SessionSend \/ PumpOnce \/ Disconnect

ServerNext ==
    \/ ServerSends \/ ServerDeviates \/ ServerReceives \/ ServerStarts
    \/ ServerCloses

Next == ClientNext \/ CallerNext \/ ServerNext

(* A call that has begun goes on: connect and recv return (recv after its *)
(* timeout at the latest).  Nothing is assumed of the caller or server.   *)
Spec == Init /\ [][Next]_vars /\ WF_vars(ClientNext)

-----------------------------------------------------------------------------
(* Properties. *)

TypeOK ==
    /\ pc \in {"idle", "open", "establish", "receive"}
    /\ step \in 1..(LastLine + 1)
    /\ attempt \in 0..(MaxAttempts + 1)
    /\ connected \in BOOLEAN /\ open \in BOOLEAN /\ broken \in BOOLEAN
    /\ hs \in HandshakeStates
    /\ generation \in 0..(MaxConnects * (MaxAttempts + 1))

(* A client that says it is connected has a session with a server that went *)
(* through the whole handshake, on this very connection (Client::Connect,   *)
(* EstablishSession and the checks of the Handshake class).                 *)
SessionIsAgreed ==
    connected => /\ open /\ IsComplete(hs)
                 /\ srv.gen = generation
                 /\ ServerInSession /\ srv.honest

(* Bytes of an earlier connection never reach the decoder of a later one, *)
(* although Disconnect leaves them there (Connection::Connect).            *)
NoStaleBytes ==
    open => \A i \in 1..Len(decoder) : decoder[i].msg.gen = generation

(* However recv cuts the stream, what is left to decode starts at a frame, *)
(* the one after the last frame popped (FrameDecoder::TryPopFrame).        *)
FrameBoundaries ==
    LET rest == decoder \o toClient
    IN open /\ rest # <<>> => Head(rest).part = "prefix"

(* The decoder never loses its place in the stream: it holds bytes of this *)
(* connection only, from a frame boundary on (Connection, FrameDecoder).   *)
DecoderInSync == NoStaleBytes /\ FrameBoundaries

(* During the handshake both ends switch to encryption at the same message *)
(* and under the same vector: neither gets a message it cannot decrypt     *)
(* (EstablishSession, SetSessionCrypto, SessionCrypto).                    *)
HandshakeDecrypts ==
    /\ pc \in {"open", "establish"} => error # "undecodable"
    /\ srv.garbled => ServerInSession

(* The two ends hold the same vector whenever nothing is under way, unless *)
(* ciphertexts crossed or one was made and not sent (SessionCrypto::Encrypt, *)
(* Decrypt, UpdateIv: one vector serves both directions).                    *)
VectorsAgree ==
    (/\ open /\ srv.alive /\ ~broken /\ crypto # NoCrypto /\ srv.iv # NoCrypto
     /\ toServer = <<>> /\ toClient = <<>> /\ decoder = <<>>)
    => crypto = srv.iv

(* The two ends encrypt alike, from the switch in the handshake on.        *)
VectorsInStep == HandshakeDecrypts /\ VectorsAgree

(* A frame within the limit is never refused, however many arrive together *)
(* (FrameDecoder::Push).                                                   *)
LegalFramesAccepted == error # "buffer_too_large"

(* Input that does not decode closes the connection (Client::Receive). *)
MalformedCloses == pc = "idle" /\ error \in {"undecodable", "format"} => ~open

(* Client::Connect returns or throws, whatever the server does. *)
ConnectEnds == pc \in {"open", "establish"} ~> pc = "idle"
=============================================================================
