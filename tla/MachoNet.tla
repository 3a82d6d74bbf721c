------------------------------ MODULE MachoNet ------------------------------
(***************************************************************************)
(* machoNet packets over the marshal codec: addresses, packets, calls, the *)
(* client's handling of what it receives, and the dispatcher, which the    *)
(* client owns and never uses.  A message is encoded, travels, perhaps     *)
(* damaged, and is decoded at the other end.                               *)
(***************************************************************************)
EXTENDS Marshal

CONSTANTS
    Values,        \* values handed to SendMarshal
    Bodies,        \* streams of a peer with another encoder
    DamageBytes,   \* bytes put in the place of others, or at the end
    Services, Methods, Handlers,
    CallArgs,      \* arguments of calls
    CallIds,       \* call ids of the packets handed to the dispatcher
    Results,       \* results the server answers calls with
    PacketTypes,   \* types of the packets a peer sends on its own
    Payloads,      \* and their payloads
    PingAddresses, \* addresses a peer puts into its pings
    MaxRegistered  \* bound: registrations

VARIABLES
    phase,       \* where the message is
    flow,        \* what the message is
    subject,     \* the value that was sent
    wire,        \* its bytes
    damage,      \* what happened to them
    got,         \* the reader after Decode
    handlers,    \* Dispatcher::m_handlers
    registered,  \* every registration so far, in order
    listening,   \* Client::m_call_rsp_handler is set
    call,        \* what was asked or answered, or the two ends of a ping
    outcome      \* whom the packet reached, with what

vars == <<phase, flow, subject, wire, damage, got, handlers, registered, listening, call,
          outcome>>

-----------------------------------------------------------------------------
(* Addresses and packets. *)

AddressType == [Invalid |-> 0, Node |-> 1, Client |-> 2, Broadcast |-> 4, Any |-> 8]
MessageType == [CallReq |-> 6, CallRsp |-> 7, TransportClosed |-> 8, Notification |-> 12,
                ErrorResponse |-> 15, SessionChangeNotification |-> 16, PingReq |-> 20,
                PingRsp |-> 21]

AddressTypeName == <<109, 65>>
ModernAddressTypeName == <<99, 65>>

NoAddress == [type |-> 0, object |-> 0, call |-> 0, service |-> <<>>, idtype |-> <<>>]

MakeAnyAddress(service) == [NoAddress EXCEPT !.type = AddressType.Any, !.service = service]

StringOrNone(text) == IF text = <<>> THEN NoneV ELSE StrV(text)
IntOrNone(n) == IF n = 0 THEN NoneV ELSE IntV(n)

AddressEncode(a) ==
    LET service == StringOrNone(a.service)
    IN ObjectV(AddressTypeName, TupleV(<<IntV(a.type)>> \o
         CASE a.type = AddressType.Any -> <<service, IntOrNone(a.object)>>
           [] a.type = AddressType.Node -> <<IntV(a.object), service, IntOrNone(a.call)>>
           [] a.type = AddressType.Client -> <<IntV(a.object), IntOrNone(a.call), service>>
           [] a.type = AddressType.Broadcast -> <<service, ListV(<<>>), StrV(a.idtype)>>
           [] a.type = AddressType.Invalid -> <<NoneV>>
           [] OTHER -> <<>>))

(* What each kind of address must hold, and where. *)
IntOrNoneAt(items, i) == items[i].kind \in {"None", "Int"}
StringOrNoneAt(items, i) == items[i].kind \in {"None", "String"}
IntAt(items, i) == IF Is(items[i], "Int") THEN items[i].data[1] ELSE 0
StringAt(items, i) == IF Is(items[i], "String") THEN items[i].data ELSE <<>>

AddressShapeOk(type, items) ==
    CASE type = AddressType.Any ->
           Len(items) = 3 /\ StringOrNoneAt(items, 2) /\ IntOrNoneAt(items, 3)
      [] type = AddressType.Node ->
           /\ Len(items) = 4 /\ Is(items[2], "Int")
           /\ StringOrNoneAt(items, 3) /\ IntOrNoneAt(items, 4)
      [] type = AddressType.Client ->
           /\ Len(items) = 4 /\ Is(items[2], "Int")
           /\ IntOrNoneAt(items, 3) /\ StringOrNoneAt(items, 4)
      [] type = AddressType.Broadcast ->
           Len(items) = 4 /\ StringOrNoneAt(items, 2) /\ Is(items[4], "String")
      [] type = AddressType.Invalid -> FALSE
      [] OTHER -> TRUE

IsAddress(value) ==
    /\ Is(value, "Object")
    /\ value.data \in {AddressTypeName, ModernAddressTypeName}
    /\ Is(value.items[1], "Tuple") /\ Len(value.items[1].items) >= 3
    /\ Is(value.items[1].items[1], "Int")
    /\ AddressShapeOk(value.items[1].items[1].data[1], value.items[1].items)

AddressFields_Mutant(type, items) ==
    CASE type = AddressType.Any -> [service |-> StringAt(items, 2), object |-> IntAt(items, 3)]
      [] type = AddressType.Node ->
           [object |-> IntAt(items, 2), service |-> StringAt(items, 3), call |-> IntAt(items, 4)]
      [] type = AddressType.Client ->
           [object |-> IntAt(items, 2), service |-> StringAt(items, 3), call |-> IntAt(items, 4)]
      [] type = AddressType.Broadcast ->
           [service |-> StringAt(items, 2), idtype |-> StringAt(items, 4)]
      [] OTHER -> [type |-> type]

AddressFields(type, items) ==
    CASE type = AddressType.Any -> [service |-> StringAt(items, 2), object |-> IntAt(items, 3)]
      [] type = AddressType.Node ->
           [object |-> IntAt(items, 2), service |-> StringAt(items, 3), call |-> IntAt(items, 4)]
      [] type = AddressType.Client ->
           [object |-> IntAt(items, 2), call |-> IntAt(items, 3), service |-> StringAt(items, 4)]
      [] type = AddressType.Broadcast ->
           [service |-> StringAt(items, 2), idtype |-> StringAt(items, 4)]
      [] OTHER -> [type |-> type]

AddressDecode(value) ==
    LET items == value.items[1].items
        type == items[1].data[1]
    IN AddressFields(type, items) @@ [NoAddress EXCEPT !.type = type]

Packet(typeString, type, source, dest, user, payload) ==
    [typeString |-> typeString, type |-> type, source |-> source, dest |-> dest,
     user |-> user, payload |-> payload, named |-> NoneV]

PacketEncode(p) ==
    ObjectV(p.typeString,
            TupleV(<<IntV(p.type), AddressEncode(p.source), AddressEncode(p.dest),
                     IntOrNone(p.user), p.payload, p.named, NoneV>>))

IsPacket(value) ==
    /\ Is(value, "Object") /\ Is(value.items[1], "Tuple")
    /\ LET items == value.items[1].items
       IN /\ Len(items) \in 7..14
          /\ Is(items[1], "Int") /\ IsAddress(items[2]) /\ IsAddress(items[3])
          /\ IntOrNoneAt(items, 4)

PacketDecode(value) ==
    LET items == value.items[1].items
    IN [Packet(value.data, items[1].data[1], AddressDecode(items[2]),
               AddressDecode(items[3]), IntAt(items, 4), items[5])
          EXCEPT !.named = items[6]]

-----------------------------------------------------------------------------
(* Call requests and the dispatcher. *)

RECURSIVE Decimal(_)
Decimal(n) ==
    CASE n < 0 -> <<45>> \o Decimal(-n)
      [] n \in 0..9 -> <<48 + n>>
      [] OTHER -> Decimal(n \div 10) \o <<48 + (n % 10)>>

CallFailed == [err |-> "format"]

(* Service, method, arguments and keywords of the body. *)
CallBody(reader, callId) ==
    LET body == reader.val.items
        wellFormed == IF reader.err = "" /\ Is(reader.val, "Tuple") /\ Len(body) >= 2
                      THEN Is(body[2], "String") ELSE FALSE
    IN CASE reader.err # "" -> [err |-> reader.err]
         [] reader.err = "" /\ ~wellFormed -> CallFailed
         [] OTHER ->
              [err |-> "",
               service |-> CASE Is(body[1], "String") -> body[1].data
                             [] Is(body[1], "Int") -> Decimal(body[1].data[1])
                             [] OTHER -> <<>>,
               method |-> body[2].data,
               args |-> IF Len(body) > 2 THEN IF Is(body[3], "Tuple") THEN body[3].items
                                              ELSE <<>>
                        ELSE <<>>,
               kwargs |-> IF Len(body) > 3 THEN body[4] ELSE NoneV,
               call_id |-> callId]

(* The first substream of the wrapper is the body. *)
CallRequestDecode(p) ==
    LET wrapper == p.payload.items[1].items
        streams == {i \in DOMAIN wrapper : Is(wrapper[i], "SubStream")}
        wrapped == IF Is(p.payload, "Tuple") /\ p.payload.items # <<>>
                   THEN Is(p.payload.items[1], "Tuple") /\ Len(wrapper) >= 2 ELSE FALSE
    IN IF p.type # MessageType.CallReq \/ ~wrapped THEN CallFailed
       ELSE IF streams = {} THEN CallFailed
       ELSE CallBody(Decode(wrapper[Min(streams)].data), p.source.call)

NoHandler == 0

Register_Mutant(map, key, handler) ==
    IF map[key] # NoHandler THEN map ELSE [map EXCEPT ![key] = handler]

(* A later registration replaces an earlier one. *)
Register(map, key, handler) == [map EXCEPT ![key] = handler]

HasHandler(map, service, method) ==
    <<service, method>> \in DOMAIN map /\ map[<<service, method>>] # NoHandler

(* What a handler answers (external): its own mark, the call and its *)
(* arguments.                                                        *)
HandlerResult(handler, callId, args) == TupleV(<<IntV(handler), IntV(callId)>> \o args)

Outcome(whom, err, value) == [to |-> whom, err |-> err, value |-> value]

DispatchRequest(request) ==
    CASE request.err # "" -> Outcome("caller", request.err, NoneV)
      [] request.err = "" /\ ~HasHandler(handlers, request.service, request.method) ->
           Outcome("caller", "unknown_method", NoneV)
      [] OTHER ->
           Outcome("handler", "",
              HandlerResult(handlers[<<request.service, request.method>>], request.call_id,
                            request.args))

Dispatch(p) ==
    IF p.type # MessageType.CallReq THEN Outcome("caller", "dispatcher", NoneV)
    ELSE DispatchRequest(CallRequestDecode(p))

-----------------------------------------------------------------------------
(* The client's side. *)

PacketTypeName(type) == <<112, type>>

(* SendCall wraps the marshalled call in a substream. *)
CallPacket(service, method, args) ==
    LET body == TupleV(<<StrV(service), StrV(method), TupleV(args), NoneV>>)
    IN Packet(PacketTypeName(MessageType.CallReq), MessageType.CallReq,
              MakeAnyAddress(service), MakeAnyAddress(<<110>>), 0,
              TupleV(<<TupleV(<<IntV(0), SubStreamV(Encode(body).out)>>)>>))

(* SendNotification, and SendPing with no arguments. *)
PlainPacket(type, name, args) ==
    Packet(PacketTypeName(type), type, MakeAnyAddress(name), MakeAnyAddress(<<110>>), 0,
           TupleV(args))

(* The answer goes back to where the ping came from. *)
PingAnswer(p) ==
    Packet(PacketTypeName(MessageType.PingRsp), MessageType.PingRsp, p.dest, p.source,
           p.user, TupleV(<<>>))

(* No result: the handler gets a null pointer. *)
NullResult == Value("Null", <<>>, <<>>)

NoOutcome == Outcome("nobody", "", NullResult)
Logged == Outcome("log", "", NullResult)

(* A substream that does not decode throws out of Receive. *)
ResultOf(reader) ==
    IF reader.err = "" THEN Outcome("handler", "", reader.val)
    ELSE Outcome("caller", reader.err, NullResult)

StreamOfAnswer_Mutant(first) == first

(* The substream of an answer is bare or in a tuple. *)
StreamOfAnswer(first) ==
    IF Is(first, "Tuple") /\ first.items # <<>> THEN first.items[1] ELSE first

CallResult(p) ==
    LET hasFirst == Is(p.payload, "Tuple") /\ p.payload.items # <<>>
        stream == StreamOfAnswer(p.payload.items[1])
    IN IF ~hasFirst THEN Outcome("handler", "", NullResult)
       ELSE IF Is(stream, "SubStream") THEN ResultOf(Decode(stream.data))
       ELSE Outcome("handler", "", NullResult)

-----------------------------------------------------------------------------
(* Messages under way. *)

(* Bounds: one message is followed from its sending to its end.  What the  *)
(* dispatcher has registered does not touch the client, and the handler of *)
(* answers touches answers only, so they are set up only for the messages  *)
(* they can make a difference to.                                          *)
Idle == phase = "idle"
IdleClient == Idle /\ registered = <<>>
PlainClient == IdleClient /\ ~listening

Init ==
    /\ phase = "idle" /\ flow = "none" /\ subject = NoneV /\ wire = <<>>
    /\ damage = "none" /\ got = NewReader
    /\ handlers = [key \in Services \X Methods |-> NoHandler]
    /\ registered = <<>> /\ listening = FALSE /\ call = <<>> /\ outcome = NoOutcome

setupVars == <<handlers, registered, listening>>

(* A value the encoder refuses is not sent. *)
PutOnWire(kind, value, encoded) ==
    /\ flow' = kind /\ subject' = value /\ damage' = "none"
    /\ wire' = encoded.out
    /\ got' = Throw(NewReader, encoded.err)
    /\ phase' = IF encoded.err = "" THEN "wire" ELSE "refused"

Transmit(kind, value) == PutOnWire(kind, value, Encode(value))

SendMarshal ==
    /\ PlainClient
    /\ \E value \in Values : Transmit("value", value)
    /\ UNCHANGED <<setupVars, call, outcome>>

(* A peer whose encoder has made other choices, or is wrong. *)
PeerSends ==
    /\ PlainClient
    /\ \E body \in Bodies : wire' = body
    /\ phase' = "wire" /\ flow' = "foreign"
    /\ UNCHANGED <<subject, damage, got, setupVars, call, outcome>>

Undamaged == phase = "wire" /\ flow = "value" /\ damage = "none"

Cut ==
    /\ Undamaged
    /\ \E n \in 0..(Len(wire) - 1) : wire' = SubSeq(wire, 1, n)
    /\ damage' = "cut"
    /\ UNCHANGED <<phase, flow, subject, got, setupVars, call, outcome>>

Extend ==
    /\ Undamaged
    /\ \E byte \in DamageBytes : wire' = Append(wire, byte)
    /\ damage' = "extended"
    /\ UNCHANGED <<phase, flow, subject, got, setupVars, call, outcome>>

Change ==
    /\ Undamaged
    /\ \E i \in DOMAIN wire, byte \in DamageBytes :
           wire[i] # byte /\ wire' = [wire EXCEPT ![i] = byte]
    /\ damage' = "changed"
    /\ UNCHANGED <<phase, flow, subject, got, setupVars, call, outcome>>

(* ReceiveMarshal at either end. *)
ReceiveMarshal ==
    /\ phase = "wire"
    /\ got' = Decode(wire)
    /\ phase' = "received"
    /\ UNCHANGED <<flow, subject, wire, damage, setupVars, call, outcome>>

-----------------------------------------------------------------------------
(* The dispatcher, on its own. *)

(* RegisterService registers its methods one by one. *)
RegisterHandler ==
    /\ Idle /\ ~listening /\ Len(registered) < MaxRegistered
    /\ \E key \in Services \X Methods, h \in Handlers :
           /\ handlers' = Register(handlers, key, h)
           /\ registered' = Append(registered, <<key, h>>)
    /\ UNCHANGED <<phase, flow, subject, wire, damage, got, listening, call, outcome>>

(* A packet is handed to Dispatch: a call, or one of another type. *)
DispatchPacket ==
    /\ Idle /\ ~listening
    /\ \E s \in Services, m \in Methods, args \in CallArgs, id \in CallIds,
          type \in {MessageType.CallReq, MessageType.CallRsp} :
           /\ call' = <<s, m, args, id, type>>
           /\ outcome' = Dispatch([CallPacket(s, m, args) EXCEPT !.type = type,
                                                               !.source.call = id])
    /\ phase' = "handled" /\ flow' = "dispatch"
    /\ UNCHANGED <<subject, wire, damage, got, setupVars>>

-----------------------------------------------------------------------------
(* The client and its server. *)

SetCallRspHandler ==
    /\ PlainClient
    /\ listening' = TRUE
    /\ UNCHANGED <<phase, flow, subject, wire, damage, got, handlers, registered, call, outcome>>

SendCall ==
    /\ IdleClient
    /\ \E s \in Services, m \in Methods, args \in CallArgs :
           /\ call' = <<s, m, args>>
           /\ Transmit("call", PacketEncode(CallPacket(s, m, args)))
    /\ UNCHANGED <<setupVars, outcome>>

SendNotification ==
    /\ PlainClient
    /\ \E args \in CallArgs :
           Transmit("notification",
                    PacketEncode(PlainPacket(MessageType.Notification, <<101, 102>>, args)))
    /\ UNCHANGED <<setupVars, call, outcome>>

SendPing ==
    /\ PlainClient
    /\ Transmit("heartbeat", PacketEncode(PlainPacket(MessageType.PingReq, <<112>>, <<>>)))
    /\ UNCHANGED <<setupVars, call, outcome>>

(* The server answers a call it has received with a result in a substream, *)
(* bare or in a tuple (external).                                          *)
AnswerPackets(p, stream) ==
    {Packet(PacketTypeName(MessageType.CallRsp), MessageType.CallRsp, p.dest, p.source,
            p.user, payload) : payload \in {TupleV(<<stream>>), TupleV(<<TupleV(<<stream>>)>>)}}

Answer ==
    /\ phase = "received" /\ flow = "call" /\ got.err = "" /\ IsPacket(got.val)
    /\ \E result \in Results :
           /\ call' = <<result>>
           /\ \E p \in AnswerPackets(PacketDecode(got.val), SubStreamV(Encode(result).out)) :
                  Transmit("answer", PacketEncode(p))
    /\ UNCHANGED <<setupVars, outcome>>

PeerPings ==
    /\ PlainClient
    /\ \E source \in PingAddresses, dest \in PingAddresses :
           /\ call' = <<source, dest>>
           /\ Transmit("ping", PacketEncode(
                  Packet(PacketTypeName(MessageType.PingReq), MessageType.PingReq,
                         source, dest, 3, TupleV(<<>>))))
    /\ UNCHANGED <<setupVars, outcome>>

(* Any other packet, calls to the client and unasked answers included. *)
PeerSendsPacket ==
    /\ IdleClient
    /\ \E type \in PacketTypes, payload \in Payloads :
           /\ call' = <<MakeAnyAddress(<<5>>), MakeAnyAddress(<<110>>)>>
           /\ Transmit("packet", PacketEncode(
                  Packet(PacketTypeName(type), type, call'[1], call'[2], 0, payload)))
    /\ UNCHANGED <<setupVars, outcome>>

(* What the client has received; HandleIncoming goes by the packet's type. *)
ToClient == {"value", "foreign", "answer", "ping", "packet"}
Incoming == phase = "received" /\ flow \in ToClient /\ got.err = ""
IncomingPacket == Incoming /\ IsPacket(got.val)
IncomingType == PacketDecode(got.val).type

Handled(result) ==
    /\ outcome' = result
    /\ phase' = "handled"
    /\ UNCHANGED <<flow, subject, wire, damage, got, setupVars, call>>

(* Without a handler for answers the packet is only logged. *)
HandleCallRsp ==
    /\ IncomingPacket /\ IncomingType = MessageType.CallRsp
    /\ Handled(IF listening THEN CallResult(PacketDecode(got.val)) ELSE Logged)

HandlePingReq ==
    /\ IncomingPacket /\ IncomingType = MessageType.PingReq
    /\ Transmit("pong", PacketEncode(PingAnswer(PacketDecode(got.val))))
    /\ UNCHANGED <<setupVars, call, outcome>>

(* Notifications, errors, closed transports, session changes, and, as      *)
(* unknown packets, every other type, calls among them: logged.            *)
HandleOthers ==
    /\ IncomingPacket /\ IncomingType \notin {MessageType.CallRsp, MessageType.PingReq}
    /\ Handled(Logged)

(* A value that is no packet ends in PacketFormatError. *)
HandleIncomingFails ==
    /\ Incoming /\ ~IsPacket(got.val)
    /\ Handled(Outcome("caller", "packet_format", NullResult))

Next ==
    \/ SendMarshal \/ PeerSends \/ Cut \/ Extend \/ Change \/ ReceiveMarshal
    \/ RegisterHandler \/ DispatchPacket
    \/ SetCallRspHandler \/ SendCall \/ SendNotification \/ SendPing
    \/ Answer \/ PeerPings \/ PeerSendsPacket
    \/ HandleCallRsp \/ HandlePingReq \/ HandleOthers \/ HandleIncomingFails

Spec == Init /\ [][Next]_vars

-----------------------------------------------------------------------------
(* Properties. *)

(* The integer a column of this type can hold that has the same low bytes. *)
Reduced(type, n) ==
    LET values == ByteBase^SizeBytes(type)
        low == n % values
    IN IF type \in {Db.Ui1, Db.Ui2, Db.Ui4} \/ 2 * low < values THEN low ELSE low - values

InColumn(row, i) ==
    /\ Is(row, "PackedRow") /\ i > Len(row.data) /\ Is(row.items[i], "Int")
    /\ SizeBytes(row.data[i - Len(row.data)]) > 0

(* What a value keeps when it is encoded: the doubles compare equal, not   *)
(* their bits (the sign of a zero is lost), and an integer in a packed row *)
(* keeps what its column can hold.                                         *)
RECURSIVE Canonical(_)
Canonical(value) ==
    [value EXCEPT !.data = IF Is(value, "Real") /\ IsZeroReal(value.data[1])
                           THEN <<0>> ELSE @,
                  !.items = [i \in DOMAIN @ |->
                      IF InColumn(value, i)
                      THEN IntV(Reduced(value.data[i - Len(value.data)], @[i].data[1]))
                      ELSE Canonical(@[i])]]

(* No text is longer than the decoder accepts, and nothing deeper than the *)
(* encoder does: a saved object may be used below its place.               *)
RECURSIVE WithinLimits(_, _)
WithinLimits(value, depth) ==
    /\ Len(value.data) <= MaxString
    /\ depth + (IF Is(value, "PackedRow") THEN 4 ELSE 0) <= MaxDepth
    /\ \A i \in DOMAIN value.items : WithinLimits(value.items[i], depth + 1)

(* A row holds a real: the decoder reads one, the encoder cannot write it. *)
RECURSIVE HasRealField(_)
HasRealField(value) ==
    \/ Is(value, "PackedRow") /\ \E i \in DOMAIN value.items : Is(value.items[i], "Real")
    \/ \E i \in DOMAIN value.items : HasRealField(value.items[i])

(* Whatever the encoder accepts, within the limits on text and stream, the *)
(* decoder accepts too and gives back: nesting up to the very limit,       *)
(* escaped sizes, string table, packed rows (Encoder, Decoder).  The       *)
(* encoder accepts an integer its column cannot hold and keeps its low     *)
(* bytes (AppendPackedScalar): such an integer comes back reduced to the   *)
(* column's width and sign, and the other fields of the row as they were.  *)
RoundTrip ==
    (/\ phase = "received" /\ flow # "foreign" /\ damage = "none"
     /\ \A i \in DOMAIN subject.items : Len(subject.items[i].data) <= MaxString
     /\ Len(subject.data) <= MaxString /\ Len(wire) <= MaxStream)
    => got.err = "" /\ got.val = Canonical(subject)

(* No proper prefix and no extension of an encoded value is accepted       *)
(* (Decoder::Decode with require_exact_end): a frame cut or run together   *)
(* never passes for another value.                                         *)
LengthIsExact ==
    phase = "received" /\ damage \in {"cut", "extended"} => got.err # ""

(* Decoding inverts encoding and accepts nothing shorter or longer.        *)
CodecExact == RoundTrip /\ LengthIsExact

(* However a stream is damaged, the fields of a packed row are read inside *)
(* the inflated data (ZeroDecompress, ReadPackedScalar).                   *)
NoWildRead == got.err # "wild"

Yields(reader, value) == reader.err = "" /\ reader.val = value
DecodesTo(encoded, value) == encoded.err = "" /\ Yields(Decode(encoded.out), value)

(* What was decoded from any stream, saved objects and damage included, can *)
(* be encoded and decoded again to the same value; rows of reals, and texts, *)
(* nesting or streams that grew beyond the limits, as by a saved object used *)
(* several times, excepted (Decoder, Encoder).                              *)
DecodedReencodes ==
    (/\ phase = "received" /\ got.err = ""
     /\ WithinLimits(got.val, 0) /\ ~HasRealField(got.val))
    => LET encoded == Encode(got.val)
       IN Len(encoded.out) <= MaxStream => DecodesTo(encoded, Canonical(got.val))

LastHandler(service, method) ==
    LET at == {i \in DOMAIN registered : registered[i][1] = <<service, method>>}
    IN IF at = {} THEN NoHandler ELSE registered[Max(at)][2]

(* The dispatcher gives a call to the handler registered last for its      *)
(* service and method, with its arguments and id, and refuses calls nobody *)
(* is registered for and packets that are no calls (Register, Dispatch,    *)
(* CallRequest::Decode).                                                   *)
DispatchReachesHandler ==
    phase = "handled" /\ flow = "dispatch" =>
       LET h == LastHandler(call[1], call[2])
       IN CASE call[5] # MessageType.CallReq -> outcome.err = "dispatcher"
            [] call[5] = MessageType.CallReq /\ h = NoHandler -> outcome.err = "unknown_method"
            [] OTHER -> outcome = Outcome("handler", "",
                                          Canonical(HandlerResult(h, call[4], call[3])))

(* What SendCall sends is, at the other end, a call of the same method of  *)
(* the same service with the same arguments (SendCall, Packet, CallRequest)*)
CallIsUnderstood ==
    phase = "received" /\ flow = "call" =>
       /\ got.err = "" /\ IsPacket(got.val)
       /\ LET request == CallRequestDecode(PacketDecode(got.val))
          IN /\ request.err = ""
             /\ <<request.service, request.method>> = <<call[1], call[2]>>
             /\ TupleV(request.args) = Canonical(TupleV(call[3]))

(* The result of a call, in either of its two places and whatever else the *)
(* packet says, reaches the handler the client has set (HandleIncoming,    *)
(* HandleCallRsp).                                                         *)
ResultReachesHandler ==
    phase = "handled" /\ flow = "answer" /\ listening =>
       outcome = Outcome("handler", "", Canonical(call[1]))

(* The answer to a ping decodes at the peer and is addressed to the pinging *)
(* end (HandlePingReq, Address::Encode, Address::Decode).                   *)
PingAnswered ==
    phase = "received" /\ flow = "pong" =>
       /\ got.err = "" /\ IsPacket(got.val)
       /\ PacketDecode(got.val).dest = call[1]
       /\ PacketDecode(got.val).source = call[2]

(* Calls, their results and answers to pings come to whom they are for.    *)
AnswersArrive ==
    /\ DispatchReachesHandler
    /\ CallIsUnderstood /\ ResultReachesHandler
    /\ PingAnswered
=============================================================================
