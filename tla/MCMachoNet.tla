----------------------------- MODULE MCMachoNet -----------------------------
(* Small sets of values, streams and addresses for MachoNet. *)
EXTENDS MachoNet

-----------------------------------------------------------------------------
(* Values: every kind, integers on both sides of every width, texts around *)
(* the escape and the limit, containers around their short forms.          *)

Texts == {<<>>, <<5>>, <<5, 6>>, <<5, 7, 7>>, <<5, 6, 6>>, <<0, 0, 0, 0>>}
TooLong == [i \in 1..(MaxString + 1) |-> 5]

Scalars ==
    {NoneV, BoolV(TRUE), BoolV(FALSE)}
    \cup {IntV(n) : n \in {-32768, -129, -128, -9, -8, -3, -2, -1, 0, 1, 2, 7, 8, 127, 128,
                           32767}}
    \cup {RealV(bits) : bits \in {0, ByteBase^8 \div 2, 1, ByteBase^8 - 1}}
    \cup {Value(kind, text, <<>>) :
             kind \in {"String", "WString", "Token", "Buffer", "SubStream", "CPicked"},
             text \in Texts}

Few == {NoneV, IntV(2), StrV(<<5, 6>>), TupleV(<<>>)}

Repeat(value, n) == [i \in 1..n |-> value]

Containers ==
    {Value(kind, <<>>, items) : kind \in {"Tuple", "List"},
        items \in UNION {[1..n -> Few] : n \in 0..2}
                  \cup {Repeat(IntV(2), n) : n \in {3, 4, MaxCount, MaxCount + 1}}}
    \cup {Value("Dict", <<>>, items) : items \in {<<>>} \cup [1..2 -> Few]
             \cup {<<IntV(0), NoneV, IntV(1), StrV(<<5>>)>>,
                   Repeat(IntV(2), 2 * MaxCount + 2)}}
    \cup {ObjectV(type, args) : type \in Texts, args \in Few}
    \cup {ObjectExV(b, h, list, dict) : b \in BOOLEAN, h \in {NoneV, TupleV(<<IntV(0)>>)},
             list \in {<<>>, <<IntV(1)>>, <<IntV(1), NoneV>>},
             dict \in {<<>>, <<StrV(<<5>>), IntV(1)>>}}
    \cup {Value("ChecksumedStream", <<n>>, <<v>>) : n \in {0, ByteBase^4 - 1}, v \in Few}

(* Chains of one kind of container, around the nesting limit. *)
RECURSIVE Nest(_, _)
Nest(kind, n) ==
    LET inner == Nest(kind, n - 1)
    IN IF n = 0 THEN IntV(1)
       ELSE CASE kind = "Object" -> ObjectV(<<5>>, inner)
              [] kind = "ObjectEx" -> ObjectExV(FALSE, NoneV, <<>>, <<NoneV, inner>>)
              [] kind = "Dict" -> Value("Dict", <<>>, <<inner, NoneV>>)
              [] kind = "PackedRow" -> PackedRowV(<<Db.Str>>, <<StrV(<<5>>)>>, <<inner>>)
              [] OTHER -> Value(kind, IF kind = "ChecksumedStream" THEN <<0>> ELSE <<>>, <<inner>>)

Chains ==
    {Nest(kind, n) : kind \in {"Tuple", "List", "Dict", "Object", "ObjectEx", "SubStruct",
                               "ChecksumedStream", "PackedRow"},
                     n \in (MaxDepth - 3)..(MaxDepth + 1)}

(* Rows: columns of every width with null and with fields in their range, *)
(* and an integer a narrow column cannot hold.                            *)
Fields(type) ==
    {NoneV} \cup CASE type = Db.Bool -> {BoolV(TRUE), BoolV(FALSE)}
                   [] type = Db.Str -> {StrV(<<5, 6>>)}
                   [] type = Db.R8 -> {}
                   [] type = Db.I1 -> {IntV(-1), IntV(0), IntV(ByteBase \div 2)}
                   [] OTHER -> {IntV(-1), IntV(0)}

Name(i) == StrV(<<99, i>>)

RowsOf(types) ==
    {PackedRowV(types, [i \in DOMAIN types |-> Name(i)], fields) :
        fields \in {f \in [DOMAIN types -> UNION {Fields(types[i]) : i \in DOMAIN types}] :
                      \A i \in DOMAIN types : f[i] \in Fields(types[i])}}

Rows ==
    UNION {RowsOf(types) : types \in
        {<<>>, <<Db.I8>>, <<Db.Str>>, <<Db.Bool>>, <<Db.Bool, Db.Bool, Db.Bool>>,
         <<Db.I1, Db.I8>>, <<Db.Ui1, Db.Str, Db.I4>>, <<Db.Bool, Db.Ui2, Db.I2>>,
         <<Db.Str, Db.Bool, Db.I1>>, <<Db.Cy, Db.FileTime, Db.Ui4>>, <<Db.R8, Db.I1>>}}
    \cup {PackedRowV(<<Db.R8>>, <<Name(1)>>, <<RealV(1)>>),
          PackedRowV(<<Db.I4>>, <<Name(1)>>, <<StrV(<<5>>)>>),
          PackedRowV(<<Db.Bool>>, <<Name(1)>>, <<IntV(1)>>),
          PackedRowV(<<Db.I4>>, <<Name(1)>>, <<IntV(1), IntV(1)>>),
          PackedRowV(<<Db.I1, Db.I1, Db.I1, Db.I1>>, Repeat(Name(1), 4), Repeat(IntV(1), 4))}

(* Integers at the ends of a column's range and just beyond, beside another *)
(* column.                                                                  *)
Ends(type) ==
    LET half == ByteBase^SizeBytes(type) \div 2
    IN {-half - 1, -half, half - 1, half, 2 * half - 1, 2 * half, 2 * half + 1}

EdgeRows ==
    UNION {{PackedRowV(<<type, Db.I1>>, <<Name(1), Name(2)>>, <<IntV(n), IntV(-1)>>) :
               n \in Ends(type)} : type \in {Db.I1, Db.Ui1, Db.I2, Db.Ui2, Db.I4, Db.Ui4}}

MCValues == Scalars \cup Containers \cup Chains \cup Rows \cup EdgeRows \cup {StrV(TooLong)}

-----------------------------------------------------------------------------
(* Streams the encoder does not make: other opcodes, and saved objects. *)

Stream(saved, body) ==
    <<HeaderByte>> \o Digits(saved, 4) \o body \o [i \in 1..(4 * saved) |-> 0]

OtherBodies ==
    {<<Op.PyShortString>> \o text : text \in {<<0>>, <<2, 5, 6>>, <<9, 1>>}}
    \cup {<<Op.PyVarInteger>> \o PutSizeEx(n) \o [i \in 1..n |-> d] :
             n \in {0, 1, 2, 7, 8, 9}, d \in {1, 3}}
    \cup {<<Op.PyWStringUCS2Char, low, high>> : low \in {0, 127, 128, 255},
                                                 high \in {0, 7, 8, 216}}
    \cup {<<Op.PyWStringUCS2, 2, 65, 0, low, 3>> : low \in {0, 255}}
    \cup {<<Op.PyStringTableItem, i>> : i \in 0..3}
    \cup {<<Op.PackedTerminator>>, <<12>>, <<Op.PyObject, Op.PyNone, Op.PyNone>>,
          <<Op.PyPackedRow, Op.PyNone>>, <<Op.PyNone + 128>>,
          <<Op.PyObjectEx1, Op.PyNone, Op.PackedTerminator>>}

Saved(op, index, rest) == <<op + 64>> \o Digits(index, 4) \o rest

SavingBodies ==
    {Saved(op, index, <<>>) : op \in {Op.PyNone, Op.PyEmptyTuple}, index \in 0..2}
    \cup {<<Op.PyTwoTuple>> \o Saved(Op.PyOneTuple, index, <<Op.PyZeroInteger>>)
             \o <<Op.PySavedStreamElement, ref>> : index \in 1..2, ref \in 0..2}
    \cup {<<Op.PyTwoTuple, Op.PySavedStreamElement, 1>> \o Saved(Op.PyZeroInteger, 1, <<>>)}
    \cup {Saved(Op.PyOneTuple, 1, <<Op.PySavedStreamElement, 1>>)}
    \cup {<<Op.PyTwoTuple>>
             \o Saved(Op.PyOneTuple, 1, <<Op.PyOneTuple, Op.PyOneTuple, Op.PyNone>>)
             \o Repeat(Op.PyOneTuple, n) \o <<Op.PySavedStreamElement, 1>> : n \in 0..4}

MCBodies ==
    {Stream(0, body) : body \in OtherBodies}
    \cup {Stream(n, body) : n \in 0..2, body \in SavingBodies}
    \cup {<<HeaderByte>> \o Digits(n, 4) \o body : n \in {1, 2, MaxSaved + 1},
             body \in {<<>>, <<Op.PyNone>>, <<Op.PyOneTuple, Op.PyNone, 0, 0, 0, 0>>,
                       <<Op.PyObjectEx1, Op.PyNone>>}}
    \cup {<<>>, <<HeaderByte>>, <<HeaderByte, 0, 0, 0, 0>>, <<0, 0, 0, 0, 0, Op.PyNone>>}

MCDamageBytes == {0, 1, 3, Op.PyTwoTuple, Op.PackedTerminator, Op.PyNone + 64}

-----------------------------------------------------------------------------
(* Calls and pings. *)

MCServices == {<<5, 6>>, <<49, 50>>}
MCMethods == {<<5>>, <<8, 8, 8>>}
MCCallArgs == {<<>>, <<IntV(2), NoneV>>, <<Value("Dict", <<>>, <<IntV(0), RealV(0)>>)>>}

MCResults == {NoneV, IntV(128), StrV(<<5, 6>>), Value("Dict", <<>>, <<IntV(0), RealV(0)>>),
              TupleV(<<SubStreamV(<<5>>)>>), PackedRowV(<<Db.I1>>, <<Name(1)>>, <<IntV(-1)>>)}

(* Every type the client tells apart, answers to pings, and an unknown one. *)
MCPacketTypes == Range(MessageType) \cup {99}

(* A call, and payloads around those in which HandleCallRsp finds a result. *)
MCPayloads ==
    {NoneV, TupleV(<<>>), TupleV(<<NoneV>>), TupleV(<<TupleV(<<>>)>>), TupleV(<<SubStreamV(<<5>>)>>),
     TupleV(<<SubStreamV(Encode(IntV(2)).out)>>), CallPacket(<<5, 6>>, <<5>>, <<>>).payload}

MCPingAddresses ==
    {[NoAddress EXCEPT !.type = type, !.object = object, !.call = c, !.service = service] :
        type \in {AddressType.Node, AddressType.Client, AddressType.Invalid},
        object \in {0, 2}, c \in {0, 9}, service \in {<<>>, <<5, 6>>}}
    \cup {MakeAnyAddress(<<5>>),
          [NoAddress EXCEPT !.type = AddressType.Broadcast, !.service = <<5>>, !.idtype = <<7, 7>>]}
=============================================================================
