------------------------------ MODULE Marshal ------------------------------
(***************************************************************************)
(* The marshal codec: Encode and Decode of a tree of Python values, the    *)
(* shared string table and the zero-compressed packed rows.                *)
(*                                                                         *)
(* A stream is a sequence of bytes.  Opcodes, control bytes and text are   *)
(* real bytes; the digits of an integer are scaled from base 256 to        *)
(* ByteBase, so that the eight bytes of an int64 fit the checker's         *)
(* integers while the widths, the two's complement and the escape of a     *)
(* long size stay what they are.  A double is its bit pattern.             *)
(***************************************************************************)
EXTENDS Integers, Sequences, SequencesExt, FiniteSetsExt

CONSTANTS
    ByteBase,         \* scaled: values of a byte inside an integer (256)
    BitsPerByte,      \* scaled with it (8)
    SizeExEscape,     \* scaled with it: kSizeExEscape (255)
    SizeModulus,      \* scaled: values of size_t
    MaxDepth,         \* MAX_MARSHAL_DEPTH
    MaxCount,         \* MAX_CONTAINER_COUNT
    MaxString,        \* MAX_STRING_BYTES, kMaxPackedRowBytes
    MaxStream,        \* MAX_STREAM_BYTES
    MaxSaved,         \* MAX_SAVED_OBJECTS
    MaxColumns        \* kMaxPackedRowColumns

ASSUME ScaleAssumption ==
    /\ ByteBase = 2^BitsPerByte /\ SizeExEscape = ByteBase - 1
    /\ MaxString < ByteBase^4 /\ MaxCount < ByteBase^4
    /\ 2 * MaxStream + ByteBase^4 < SizeModulus

Op == [PyNone |-> 1, PyToken |-> 2, PyLongLong |-> 3, PyLong |-> 4,
       PySignedShort |-> 5, PyByte |-> 6, PyMinusOne |-> 7, PyZeroInteger |-> 8,
       PyOneInteger |-> 9, PyReal |-> 10, PyZeroReal |-> 11, PyBuffer |-> 13,
       PyEmptyString |-> 14, PyCharString |-> 15, PyShortString |-> 16,
       PyStringTableItem |-> 17, PyWStringUCS2 |-> 18, PyLongString |-> 19,
       PyTuple |-> 20, PyList |-> 21, PyDict |-> 22, PyObject |-> 23,
       PySubStruct |-> 25, PySavedStreamElement |-> 27, PyChecksumedStream |-> 28,
       PyTrue |-> 31, PyFalse |-> 32, cPicked |-> 33, PyObjectEx1 |-> 34,
       PyObjectEx2 |-> 35, PyEmptyTuple |-> 36, PyOneTuple |-> 37,
       PyEmptyList |-> 38, PyOneList |-> 39, PyEmptyWString |-> 40,
       PyWStringUCS2Char |-> 41, PyPackedRow |-> 42, PySubStream |-> 43,
       PyTwoTuple |-> 44, PackedTerminator |-> 45, PyWStringUTF8 |-> 46,
       PyVarInteger |-> 47]

HeaderByte == 126
OpcodeMask == 64      \* the opcode is the byte modulo this
SaveFlag(byte) == (byte \div 64) % 2 = 1
UnknownFlag(byte) == byte \div 128 = 1

-----------------------------------------------------------------------------
(* Values.  data holds the numbers or bytes of a value, items its children: *)
(* a dict alternates key and value; an ObjectEx has its header, its list    *)
(* (data[2] long) and its dict; a row has the types of its columns in data, *)
(* and their names and then the fields in items.                            *)

Value(kind, data, items) == [kind |-> kind, data |-> data, items |-> items]

NoneV == Value("None", <<>>, <<>>)
BoolV(b) == Value("Bool", <<IF b THEN 1 ELSE 0>>, <<>>)
IntV(n) == Value("Int", <<n>>, <<>>)
RealV(bits) == Value("Real", <<bits>>, <<>>)
StrV(bytes) == Value("String", bytes, <<>>)
TupleV(items) == Value("Tuple", <<>>, items)
ListV(items) == Value("List", <<>>, items)
ObjectV(type, args) == Value("Object", type, <<args>>)
ObjectExV(isType2, header, list, dict) ==
    Value("ObjectEx", <<IF isType2 THEN 1 ELSE 0, Len(list)>>, <<header>> \o list \o dict)
SubStreamV(bytes) == Value("SubStream", bytes, <<>>)
PackedRowV(types, names, fields) == Value("PackedRow", types, names \o fields)

Is(value, kind) == value.kind = kind

(* The double is zero, whatever its sign. *)
IsZeroReal(bits) == bits \in {0, ByteBase^8 \div 2}

-----------------------------------------------------------------------------
(* Integers as bytes, least significant first. *)

Digits(n, width) == [i \in 1..width |-> (n \div ByteBase^(i - 1)) % ByteBase]

Unsigned(bytes) == FoldRight(LAMBDA d, n : (d % ByteBase) + ByteBase * n, bytes, 0)

Signed(bytes) ==
    LET n == Unsigned(bytes)
        values == ByteBase^Len(bytes)
    IN IF 2 * n >= values THEN n - values ELSE n

FitsSigned(n, width) ==
    LET half == ByteBase^width \div 2 IN -half <= n /\ n < half

PutSizeEx_Mutant(size) ==
    IF size <= SizeExEscape THEN <<size>> ELSE <<SizeExEscape>> \o Digits(size, 4)

PutSizeEx(size) ==
    IF size < SizeExEscape THEN <<size>> ELSE <<SizeExEscape>> \o Digits(size, 4)

-----------------------------------------------------------------------------
(* The shared string table, numbered from 1. *)

StringTable == <<<<5, 6>>, <<5, 7, 7>>>>

(* The index of a string, or 0.  The hash only saves comparisons. *)
LookupStringIndex(text) ==
    LET found == {i \in DOMAIN StringTable : text = StringTable[i]}
    IN IF found = {} THEN 0 ELSE Min(found)

LookupFails(index) == index = 0 \/ index > Len(StringTable)

-----------------------------------------------------------------------------
(* Packed rows: columns sorted by size, then bits for booleans and nulls. *)

Db == [Empty |-> 0, I2 |-> 2, I4 |-> 3, R4 |-> 4, R8 |-> 5, Cy |-> 6, Error |-> 10,
       Bool |-> 11, I1 |-> 16, Ui1 |-> 17, Ui2 |-> 18, Ui4 |-> 19, I8 |-> 20,
       Ui8 |-> 21, FileTime |-> 64, Bytes |-> 128, Str |-> 129, WStr |-> 130]

DbTypeSizeBits(type) ==
    CASE type \in {Db.Cy, Db.I8, Db.Ui8, Db.FileTime, Db.R8} -> 8 * BitsPerByte
      [] type \in {Db.I4, Db.Ui4, Db.R4} -> 4 * BitsPerByte
      [] type \in {Db.I2, Db.Ui2} -> 2 * BitsPerByte
      [] type \in {Db.I1, Db.Ui1} -> BitsPerByte
      [] type = Db.Bool -> 1
      [] OTHER -> 0

SizeBytes(type) == DbTypeSizeBits(type) \div BitsPerByte

(* The columns by falling size; equal sizes keep their order. *)
SizeOrder(types) ==
    SetToSortSeq(DOMAIN types,
        LAMBDA i, j : \/ DbTypeSizeBits(types[i]) > DbTypeSizeBits(types[j])
                      \/ DbTypeSizeBits(types[i]) = DbTypeSizeBits(types[j]) /\ i < j)

BoolCount(types) == Cardinality({i \in DOMAIN types : types[i] = Db.Bool})

BitBytes(types) ==
    (BoolCount(types) + Len(types) + BitsPerByte - 1) \div BitsPerByte

FixedBytes(types) == MapThenSumSet(LAMBDA i : SizeBytes(types[i]), DOMAIN types)

(* Bits are numbered from 0: the booleans', then one null bit per column. *)
BoolBit(types, index) == Cardinality({i \in 1..(index - 1) : types[i] = Db.Bool})

NullBit(types, index) == index - 1 + BoolCount(types)

BitSet(bytes, start, bit) ==
    (bytes[start + bit \div BitsPerByte + 1] \div 2^(bit % BitsPerByte)) % 2 = 1

(* One nibble: up to eight zeros, or up to eight other bytes that follow. *)
MaxRun == 8

RunLength(input) ==
    IF input = <<>> THEN 0
    ELSE Max({n \in 1..Min({MaxRun, Len(input)}) :
                 \A i \in 1..n : (input[i] = 0) = (input[1] = 0)})

Nibble(input, run) ==
    CASE run = 0 -> 0
      [] run > 0 /\ input[1] = 0 -> run + 7
      [] OTHER -> 8 - run

Literals(input, run) ==
    IF run > 0 /\ input[1] # 0 THEN SubSeq(input, 1, run) ELSE <<>>

After(input, run) == SubSeq(input, run + 1, Len(input))

RECURSIVE ZeroCompress(_)
ZeroCompress(input) ==
    LET low == RunLength(input)
        rest == After(input, low)
        high == RunLength(rest)
    IN IF input = <<>> THEN <<>>
       ELSE <<Nibble(input, low) + 16 * Nibble(rest, high)>>
            \o Literals(input, low) \o Literals(rest, high)
            \o ZeroCompress(After(rest, high))

InflateEnds_Mutant(rle, out) == [err |-> "", out |-> out]

(* The input ended before the row was complete. *)
InflateEnds(rle, out) == [err |-> "truncated", out |-> out]

(* nibbles are those of the last control byte that are still to be used. *)
RECURSIVE Inflate(_, _, _, _)
Inflate(rle, nibbles, out, expected) ==
    LET nibble == Head(nibbles)
    IN CASE Len(out) >= expected -> [err |-> "", out |-> out]
         [] Len(out) < expected /\ nibbles = <<>> /\ rle = <<>> -> InflateEnds(rle, out)
         [] Len(out) < expected /\ nibbles = <<>> /\ rle # <<>> ->
              Inflate(Tail(rle), <<Head(rle) % 16, (Head(rle) \div 16) % 16>>, out, expected)
         [] Len(out) < expected /\ nibbles # <<>> /\ nibble >= 8 ->
              Inflate(rle, Tail(nibbles), out \o [i \in 1..(nibble - 7) |-> 0], expected)
         [] Len(out) < expected /\ nibbles # <<>> /\ nibble < 8 ->
              IF 8 - nibble > Len(rle) THEN InflateEnds(rle, out)
              ELSE Inflate(After(rle, 8 - nibble), Tail(nibbles),
                           out \o SubSeq(rle, 1, 8 - nibble), expected)

ZeroDecompress(rle, types) ==
    Inflate(rle, <<>>, <<>>, FixedBytes(types) + BitBytes(types))

-----------------------------------------------------------------------------
(* Encoder.  A throw discards the output. *)

Put(bytes) == [err |-> "", out |-> bytes]
Refuse(why) == [err |-> why, out |-> <<>>]

Cat(a, b) ==
    CASE a.err # "" -> a
      [] a.err = "" /\ b.err # "" -> b
      [] OTHER -> Put(a.out \o b.out)

RECURSIVE CatAll(_)
CatAll(parts) == IF parts = <<>> THEN Put(<<>>) ELSE Cat(Head(parts), CatAll(Tail(parts)))

EncodeInteger(n) ==
    Put(CASE n = -1 -> <<Op.PyMinusOne>>
          [] n = 0 -> <<Op.PyZeroInteger>>
          [] n = 1 -> <<Op.PyOneInteger>>
          [] n \notin -1..1 /\ FitsSigned(n, 1) -> <<Op.PyByte>> \o Digits(n, 1)
          [] ~FitsSigned(n, 1) /\ FitsSigned(n, 2) -> <<Op.PySignedShort>> \o Digits(n, 2)
          [] ~FitsSigned(n, 2) /\ FitsSigned(n, 4) -> <<Op.PyLong>> \o Digits(n, 4)
          [] OTHER -> <<Op.PyLongLong>> \o Digits(n, 8))

EncodeReal(bits) ==
    Put(IF IsZeroReal(bits) THEN <<Op.PyZeroReal>> ELSE <<Op.PyReal>> \o Digits(bits, 8))

(* An opcode, the number of bytes and the bytes: long strings, tokens, *)
(* buffers, substreams and pickles.                                    *)
EncodeSized(op, bytes) == Put(<<op>> \o PutSizeEx(Len(bytes)) \o bytes)

EncodeString(text) ==
    CASE text = <<>> -> Put(<<Op.PyEmptyString>>)
      [] Len(text) = 1 -> Put(<<Op.PyCharString, text[1]>>)
      [] Len(text) > 1 /\ LookupStringIndex(text) # 0 ->
            Put(<<Op.PyStringTableItem, LookupStringIndex(text)>>)
      [] OTHER -> EncodeSized(Op.PyLongString, text)

EncodeWString(text) ==
    IF text = <<>> THEN Put(<<Op.PyEmptyWString>>) ELSE EncodeSized(Op.PyWStringUTF8, text)

(* The opcodes of the short containers carry their length. *)
TupleHead(count) ==
    CASE count = 0 -> <<Op.PyEmptyTuple>>
      [] count = 1 -> <<Op.PyOneTuple>>
      [] count = 2 -> <<Op.PyTwoTuple>>
      [] OTHER -> <<Op.PyTuple>> \o PutSizeEx(count)

ListHead(count) ==
    CASE count = 0 -> <<Op.PyEmptyList>>
      [] count = 1 -> <<Op.PyOneList>>
      [] OTHER -> <<Op.PyList>> \o PutSizeEx(count)

Counted(count, head) == IF count > MaxCount THEN Refuse("limit") ELSE Put(head)

(* A dict is streamed value first. *)
SwapPairs(items) ==
    [i \in DOMAIN items |-> IF i % 2 = 1 THEN items[i + 1] ELSE items[i - 1]]

RowDescriptor == <<98, 68, 66>>

BuildRowHeader(types, names) ==
    LET column(i) == TupleV(<<names[i], IntV(types[i])>>)
    IN ObjectExV(FALSE, Value("Token", RowDescriptor, <<>>),
                <<TupleV([i \in DOMAIN types |-> column(i)])>>, <<>>)

(* Integer columns take their low bytes.  The integer is read before the *)
(* type is looked at, so a column of reals takes null and nothing else.  *)
AppendPackedScalar(type, field) ==
    CASE Is(field, "None") -> Put(Digits(0, SizeBytes(type)))
      [] Is(field, "Int") /\ type \notin {Db.R4, Db.R8} ->
            Put(Digits(field.data[1], SizeBytes(type)))
      [] OTHER -> Refuse("format")

BitData(types, fields) ==
    LET nulls == {NullBit(types, i) : i \in {j \in DOMAIN types :
                     DbTypeSizeBits(types[j]) # 0 /\ Is(fields[j], "None")}}
        trues == {BoolBit(types, i) : i \in {j \in DOMAIN types :
                     types[j] = Db.Bool /\ fields[j] = BoolV(TRUE)}}
        weight(bit) == 2^(bit % BitsPerByte)
    IN [b \in 1..BitBytes(types) |->
          MapThenSumSet(weight, {bit \in nulls \cup trues : bit \div BitsPerByte = b - 1})]

(* The compressed part of a row. *)
EncodeFixedColumns(types, fields) ==
    LET order == SizeOrder(types)
        sized == SelectSeq(order, LAMBDA i : DbTypeSizeBits(types[i]) > 1)
        packed == CatAll([k \in DOMAIN sized |->
                            AppendPackedScalar(types[sized[k]], fields[sized[k]])])
        boolsOk == \A i \in DOMAIN types :
                      types[i] = Db.Bool => fields[i].kind \in {"None", "Bool"}
        rle == ZeroCompress(packed.out \o BitData(types, fields))
    IN CASE packed.err # "" -> packed
         [] packed.err = "" /\ ~boolsOk -> Refuse("format")
         [] OTHER -> Put(PutSizeEx(Len(rle)) \o rle)

RowNames(row) == SubSeq(row.items, 1, Len(row.data))
RowFields(row) == SubSeq(row.items, Len(row.data) + 1, Len(row.items))

RECURSIVE EncodeValue(_, _)
RECURSIVE EncodeValues(_, _)
EncodeValues(items, depth) ==
    IF items = <<>> THEN Put(<<>>)
    ELSE Cat(EncodeValue(Head(items), depth), EncodeValues(Tail(items), depth))

EncodeObjectEx(value, depth) ==
    LET end == Put(<<Op.PackedTerminator>>)
        listEnd == value.data[2] + 1
    IN CatAll(<<Put(<<IF value.data[1] = 1 THEN Op.PyObjectEx2 ELSE Op.PyObjectEx1>>),
                EncodeValues(SubSeq(value.items, 1, listEnd), depth + 1), end,
                EncodeValues(After(value.items, listEnd), depth + 1), end>>)

EncodePackedRow(row, depth) ==
    LET fields == RowFields(row)
        unsized == SelectSeq(SizeOrder(row.data), LAMBDA i : DbTypeSizeBits(row.data[i]) = 0)
    IN CASE Len(row.data) > MaxColumns -> Refuse("limit")
         [] Len(fields) # Len(row.data) -> Refuse("format")
         [] OTHER ->
              CatAll(<<Put(<<Op.PyPackedRow>>),
                       EncodeValue(BuildRowHeader(row.data, RowNames(row)), depth + 1),
                       EncodeFixedColumns(row.data, fields),
                       EncodeValues([k \in DOMAIN unsized |-> fields[unsized[k]]], depth + 1)>>)

EncodeDepthOk_Mutant(depth) == depth < MaxDepth

EncodeDepthOk(depth) == depth <= MaxDepth

EncodeValue(value, depth) ==
    LET kind == value.kind
        data == value.data
        count == Len(value.items)
        children == EncodeValues(value.items, depth + 1)
    IN IF ~EncodeDepthOk(depth) THEN Refuse("depth")
       ELSE CASE kind = "None" -> Put(<<Op.PyNone>>)
              [] kind = "Bool" -> Put(<<IF data[1] = 1 THEN Op.PyTrue ELSE Op.PyFalse>>)
              [] kind = "Int" -> EncodeInteger(data[1])
              [] kind = "Real" -> EncodeReal(data[1])
              [] kind = "String" -> EncodeString(data)
              [] kind = "WString" -> EncodeWString(data)
              [] kind = "Token" -> EncodeSized(Op.PyToken, data)
              [] kind = "Buffer" -> EncodeSized(Op.PyBuffer, data)
              [] kind = "SubStream" -> EncodeSized(Op.PySubStream, data)
              [] kind = "CPicked" -> EncodeSized(Op.cPicked, data)
              [] kind = "Tuple" -> Cat(Counted(count, TupleHead(count)), children)
              [] kind = "List" -> Cat(Counted(count, ListHead(count)), children)
              [] kind = "Dict" ->
                    Cat(Counted(count \div 2, <<Op.PyDict>> \o PutSizeEx(count \div 2)),
                        EncodeValues(SwapPairs(value.items), depth + 1))
              [] kind = "Object" -> CatAll(<<Put(<<Op.PyObject>>), EncodeString(data), children>>)
              [] kind = "ObjectEx" -> EncodeObjectEx(value, depth)
              [] kind = "SubStruct" -> Cat(Put(<<Op.PySubStruct>>), children)
              [] kind = "ChecksumedStream" ->
                    Cat(Put(<<Op.PyChecksumedStream>> \o Digits(data[1], 4)), children)
              [] kind = "PackedRow" -> EncodePackedRow(value, depth)

Encode(value) == Cat(Put(<<HeaderByte, 0, 0, 0, 0>>), EncodeValue(value, 0))

-----------------------------------------------------------------------------
(* Decoder.  r is the reader: bytes consumed, the exception thrown, the     *)
(* objects saved, and what the last read returned.  end is m_value_end.     *)

NewReader == [pos |-> 0, err |-> "", saved |-> <<>>, bytes |-> <<>>, n |-> 0,
              items |-> <<>>, val |-> NoneV]

NotStored == Value("NotStored", <<>>, <<>>)

Throw(r, why) == [r EXCEPT !.err = why]
Return(r, value) == [r EXCEPT !.val = value]
Then(r, Continue(_)) == IF r.err = "" THEN Continue(r) ELSE r

HasBytes(s, r, count) == count <= Len(s) - r.pos

ReadBytes(s, r, count) ==
    IF HasBytes(s, r, count)
    THEN [r EXCEPT !.pos = @ + count, !.bytes = SubSeq(s, r.pos + 1, r.pos + count)]
    ELSE Throw(r, "truncated")

ReadU8(s, r) ==
    Then(ReadBytes(s, r, 1), LAMBDA q : [q EXCEPT !.n = q.bytes[1]])

ReadU32(s, r) ==
    Then(ReadBytes(s, r, 4), LAMBDA q : [q EXCEPT !.n = Unsigned(q.bytes)])

ReadSizeEx(s, r) ==
    Then(ReadU8(s, r), LAMBDA q : IF q.n = SizeExEscape THEN ReadU32(s, q) ELSE q)

Bounded(r, limit) == Then(r, LAMBDA q : IF q.n > limit THEN Throw(q, "limit") ELSE q)

ReadBoundedSize(s, r) == Bounded(ReadSizeEx(s, r), MaxString)
ReadBoundedCount(s, r) == Bounded(ReadSizeEx(s, r), MaxCount)

ReadSigned(s, r, width) ==
    Then(ReadBytes(s, r, width), LAMBDA q : Return(q, IntV(Signed(q.bytes))))

(* A value that is the bytes of a size read before: strings, tokens, buffers, *)
(* substreams and pickles.                                                    *)
ReadSized(s, r, kind) ==
    Then(Bounded(r, MaxString), LAMBDA p :
    Then(ReadBytes(s, p, p.n), LAMBDA q : Return(q, Value(kind, q.bytes, <<>>))))

(* Not sign-extended: only eight bytes can be negative. *)
DecodeVarInteger(s, r) ==
    Then(ReadBoundedSize(s, r), LAMBDA p :
    IF p.n > 8 THEN Throw(p, "limit")
    ELSE Then(ReadBytes(s, p, p.n), LAMBDA q :
         Return(q, IntV(IF p.n = 8 THEN Signed(q.bytes) ELSE Unsigned(q.bytes)))))

DecodeStringTableItem(s, r) ==
    Then(ReadU8(s, r), LAMBDA q :
    IF LookupFails(q.n) THEN Throw(q, "string_table")
    ELSE Return(q, StrV(StringTable[q.n])))

AppendUtf16Unit(unit) ==
    CASE unit < 128 -> <<unit>>
      [] unit \in 128..2047 -> <<192 + unit \div 64, 128 + (unit % 64)>>
      [] OTHER -> <<224 + unit \div 4096, 128 + ((unit \div 64) % 64), 128 + (unit % 64)>>

DecodeWStringUcs2(s, r, count) ==
    IF count > MaxString \div 2 THEN Throw(r, "limit")
    ELSE Then(ReadBytes(s, r, 2 * count), LAMBDA q :
         Return(q, Value("WString",
             FlattenSeq([i \in 1..count |->
                 AppendUtf16Unit(q.bytes[2 * i - 1] + 256 * q.bytes[2 * i])]), <<>>)))

DecodeSavedElement(s, r) ==
    Then(ReadBoundedSize(s, r), LAMBDA q :
    IF q.n \notin DOMAIN q.saved THEN Throw(q, "format")
    ELSE IF q.saved[q.n] = NotStored THEN Throw(q, "format")
    ELSE Return(q, q.saved[q.n]))

(* A save flag is followed by the index, inside the stream. *)
ReadSaveIndex(s, r, end) ==
    CASE r.saved = <<>> -> Throw(r, "format")
      [] r.saved # <<>> /\ r.pos + 4 > end -> Throw(r, "truncated")
      [] OTHER -> ReadU32(s, r)

StoreSaved(r, index) ==
    IF index \in DOMAIN r.saved THEN [r EXCEPT !.saved[index] = r.val]
    ELSE Throw(r, "format")

(* The columns a row descriptor declares. *)
IsColumn(value) ==
    /\ Is(value, "Tuple") /\ Len(value.items) = 2
    /\ Is(value.items[1], "String") /\ Is(value.items[2], "Int")

ExtractColumns(header) ==
    LET list == SubSeq(header.items, 2, header.data[2] + 1)
        columns == list[1].items
    IN CASE header.items[1] # Value("Token", RowDescriptor, <<>>) -> [err |-> "format"]
         [] header.items[1] = Value("Token", RowDescriptor, <<>>)
              /\ (IF Len(list) = 1 THEN ~Is(list[1], "Tuple") ELSE TRUE) -> [err |-> "format"]
         [] OTHER ->
              CASE Len(columns) > MaxColumns -> [err |-> "limit"]
                [] \E i \in DOMAIN columns : ~IsColumn(columns[i]) -> [err |-> "format"]
                [] OTHER ->
                     [err |-> "",
                      types |-> [i \in DOMAIN columns |-> columns[i].items[2].data[1] % 256],
                      names |-> [i \in DOMAIN columns |-> columns[i].items[1]]]

(* A float widened to a double keeps its leading bits. *)
ReadPackedScalar(bytes, type) ==
    CASE type = Db.R8 -> RealV(Unsigned(bytes))
      [] type = Db.R4 -> RealV(Unsigned(bytes) * ByteBase^4)
      [] type \in {Db.Ui4, Db.Ui2, Db.Ui1} -> IntV(Unsigned(bytes))
      [] OTHER -> IntV(Signed(bytes))

(* The fields of the columns with a size.  A read behind the data is wild. *)
FixedFields(types, data) ==
    LET start == Len(data) - BitBytes(types)
        order == SizeOrder(types)
        offset(i) == MapThenSumSet(LAMBDA j : SizeBytes(types[j]),
                        {order[k] : k \in 1..(CHOOSE k \in DOMAIN order : order[k] = i)} \ {i})
        bytes(i) == SubSeq(data, offset(i) + 1, offset(i) + SizeBytes(types[i]))
        isNull(i) == BitSet(data, start, NullBit(types, i))
        sized == {i \in DOMAIN types : DbTypeSizeBits(types[i]) # 0}
    IN IF start < 0 THEN [err |-> "truncated"]
       ELSE IF \E i \in sized : offset(i) + SizeBytes(types[i]) > Len(data)
       THEN [err |-> "wild"]
       ELSE [err |-> "",
             fields |-> [i \in DOMAIN types |->
                CASE i \notin sized -> NotStored
                  [] i \in sized /\ isNull(i) -> NoneV
                  [] i \in sized /\ ~isNull(i) /\ types[i] = Db.Bool ->
                        BoolV(BitSet(data, start, BoolBit(types, i)))
                  [] OTHER -> ReadPackedScalar(bytes(i), types[i])]]

DecodeDepthOk(depth) == depth <= MaxDepth

RECURSIVE DecodeValue(_, _, _, _)
RECURSIVE DecodeItems(_, _, _, _, _, _)
DecodeItems(s, r, end, count, depth, items) ==
    IF count = 0 THEN [r EXCEPT !.items = items]
    ELSE Then(DecodeValue(s, r, end, depth), LAMBDA q :
              DecodeItems(s, q, end, count - 1, depth, Append(items, q.val)))

Children(s, r, end, count, depth, Build(_)) ==
    Then(DecodeItems(s, r, end, count, depth + 1, <<>>), LAMBDA q :
         Return(q, Build(q.items)))

(* Groups of count values up to the terminator. *)
RECURSIVE UntilTerminator(_, _, _, _, _, _)
UntilTerminator(s, r, end, count, depth, items) ==
    IF r.pos >= end \/ r.pos >= Len(s) THEN Throw(r, "truncated")
    ELSE IF s[r.pos + 1] % OpcodeMask = Op.PackedTerminator
    THEN [r EXCEPT !.pos = @ + 1, !.items = items]
    ELSE Then(DecodeItems(s, r, end, count, depth, <<>>), LAMBDA q :
              UntilTerminator(s, q, end, count, depth, items \o q.items))

DecodeObjectEx(s, r, end, isType2, depth) ==
    Then(DecodeValue(s, r, end, depth + 1), LAMBDA h :
    Then(UntilTerminator(s, h, end, 1, depth + 1, <<>>), LAMBDA l :
    Then(UntilTerminator(s, l, end, 2, depth + 1, <<>>), LAMBDA d :
         Return(d, ObjectExV(isType2, h.val, l.items, d.items)))))

DecodeObject(s, r, end, depth) ==
    Then(DecodeValue(s, r, end, depth + 1), LAMBDA t :
    IF ~Is(t.val, "String") THEN Throw(t, "format")
    ELSE Children(s, t, end, 1, depth, LAMBDA items : ObjectV(t.val.data, items[1])))

DecodePackedRow(s, r, end, depth) ==
    Then(DecodeValue(s, r, end, depth + 1), LAMBDA h :
    IF ~Is(h.val, "ObjectEx") THEN Throw(h, "format")
    ELSE LET columns == ExtractColumns(h.val)
             unsized == SelectSeq(SizeOrder(columns.types),
                                  LAMBDA i : DbTypeSizeBits(columns.types[i]) = 0)
             place(i) == CHOOSE k \in DOMAIN unsized : unsized[k] = i
         IN IF columns.err # "" THEN Throw(h, columns.err)
            ELSE Then(ReadBoundedSize(s, h), LAMBDA l :
                 Then(ReadBytes(s, l, l.n), LAMBDA q :
                 LET data == ZeroDecompress(q.bytes, columns.types)
                     fixed == FixedFields(columns.types, data.out)
                 IN CASE data.err # "" -> Throw(q, data.err)
                      [] data.err = "" /\ fixed.err # "" -> Throw(q, fixed.err)
                      [] OTHER ->
                           Children(s, q, end, Len(unsized), depth, LAMBDA items :
                               PackedRowV(columns.types, columns.names,
                                   [i \in DOMAIN columns.types |->
                                      IF i \in ToSet(unsized) THEN items[place(i)]
                                      ELSE fixed.fields[i]])))))

DecodeOpcode(s, r, end, op, depth) ==
    CASE op = Op.PyNone -> Return(r, NoneV)
      [] op \in {Op.PyTrue, Op.PyFalse} -> Return(r, BoolV(op = Op.PyTrue))
      [] op = Op.PyZeroInteger -> Return(r, IntV(0))
      [] op = Op.PyOneInteger -> Return(r, IntV(1))
      [] op = Op.PyMinusOne -> Return(r, IntV(-1))
      [] op = Op.PyByte -> ReadSigned(s, r, 1)
      [] op = Op.PySignedShort -> ReadSigned(s, r, 2)
      [] op = Op.PyLong -> ReadSigned(s, r, 4)
      [] op = Op.PyLongLong -> ReadSigned(s, r, 8)
      [] op = Op.PyVarInteger -> DecodeVarInteger(s, r)
      [] op = Op.PyZeroReal -> Return(r, RealV(0))
      [] op = Op.PyReal ->
            Then(ReadBytes(s, r, 8), LAMBDA q : Return(q, RealV(Unsigned(q.bytes))))
      [] op = Op.PyEmptyString -> Return(r, StrV(<<>>))
      [] op = Op.PyCharString ->
            Then(ReadBytes(s, r, 1), LAMBDA q : Return(q, StrV(q.bytes)))
      [] op = Op.PyShortString ->
            Then(ReadU8(s, r), LAMBDA q : ReadSized(s, q, "String"))
      [] op = Op.PyLongString -> ReadSized(s, ReadSizeEx(s, r), "String")
      [] op = Op.PyStringTableItem -> DecodeStringTableItem(s, r)
      [] op = Op.PyEmptyWString -> Return(r, Value("WString", <<>>, <<>>))
      [] op = Op.PyWStringUCS2Char -> DecodeWStringUcs2(s, r, 1)
      [] op = Op.PyWStringUCS2 ->
            Then(ReadBoundedSize(s, r), LAMBDA q : DecodeWStringUcs2(s, q, q.n))
      [] op = Op.PyWStringUTF8 -> ReadSized(s, ReadSizeEx(s, r), "WString")
      [] op = Op.PyToken -> ReadSized(s, ReadSizeEx(s, r), "Token")
      [] op = Op.PyBuffer -> ReadSized(s, ReadSizeEx(s, r), "Buffer")
      [] op = Op.PySubStream -> ReadSized(s, ReadSizeEx(s, r), "SubStream")
      [] op = Op.cPicked -> ReadSized(s, ReadSizeEx(s, r), "CPicked")
      [] op = Op.PyEmptyTuple -> Return(r, TupleV(<<>>))
      [] op = Op.PyOneTuple -> Children(s, r, end, 1, depth, TupleV)
      [] op = Op.PyTwoTuple -> Children(s, r, end, 2, depth, TupleV)
      [] op = Op.PyTuple ->
            Then(ReadBoundedCount(s, r), LAMBDA q : Children(s, q, end, q.n, depth, TupleV))
      [] op = Op.PyEmptyList -> Return(r, ListV(<<>>))
      [] op = Op.PyOneList -> Children(s, r, end, 1, depth, ListV)
      [] op = Op.PyList ->
            Then(ReadBoundedCount(s, r), LAMBDA q : Children(s, q, end, q.n, depth, ListV))
      [] op = Op.PyDict ->
            Then(ReadBoundedCount(s, r), LAMBDA q :
            Children(s, q, end, 2 * q.n, depth,
                     LAMBDA items : Value("Dict", <<>>, SwapPairs(items))))
      [] op = Op.PyObject -> DecodeObject(s, r, end, depth)
      [] op \in {Op.PyObjectEx1, Op.PyObjectEx2} ->
            DecodeObjectEx(s, r, end, op = Op.PyObjectEx2, depth)
      [] op = Op.PySubStruct ->
            Children(s, r, end, 1, depth, LAMBDA items : Value("SubStruct", <<>>, items))
      [] op = Op.PyChecksumedStream ->
            Then(ReadU32(s, r), LAMBDA q :
            Children(s, q, end, 1, depth,
                     LAMBDA items : Value("ChecksumedStream", <<q.n>>, items)))
      [] op = Op.PySavedStreamElement -> DecodeSavedElement(s, r)
      [] op = Op.PyPackedRow -> DecodePackedRow(s, r, end, depth)
      [] OTHER -> Throw(r, "format")

(* With a save flag the index comes first and the value is stored after. *)
DecodeValue(s, r, end, depth) ==
    IF ~DecodeDepthOk(depth) THEN Throw(r, "depth")
    ELSE Then(ReadU8(s, r), LAMBDA h :
         CASE UnknownFlag(h.n) -> Throw(h, "format")
           [] ~UnknownFlag(h.n) /\ ~SaveFlag(h.n) ->
                DecodeOpcode(s, h, end, h.n % OpcodeMask, depth)
           [] OTHER ->
                Then(ReadSaveIndex(s, h, end), LAMBDA i :
                Then(DecodeOpcode(s, i, end, h.n % OpcodeMask, depth), LAMBDA q :
                     StoreSaved(q, i.n))))

RequireExactEnd_Mutant(r, end) == r

RequireExactEnd(r, end) == IF r.pos # end THEN Throw(r, "format") ELSE r

(* The save table at the end of the stream is not read, only left out. *)
ValueEnd(s, r) == (Len(s) - r.n * 4) % SizeModulus

Decode(s) ==
    IF Len(s) > MaxStream THEN Throw(NewReader, "limit")
    ELSE Then(ReadU8(s, NewReader), LAMBDA h :
         IF h.n # HeaderByte THEN Throw(h, "format")
         ELSE Then(Bounded(ReadU32(s, h), MaxSaved), LAMBDA c :
              LET store == [c EXCEPT !.saved = [i \in 1..c.n |-> NotStored]]
                  end == ValueEnd(s, c)
              IN Then(DecodeValue(s, store, end, 0), LAMBDA q : RequireExactEnd(q, end))))

=============================================================================
