------------------------------ MODULE KvRecord ------------------------------
(***************************************************************************)
(* Records of a KvDB table: fields are set, written to a stream, read back *)
(* from it and fetched again (Record, SMDStream, SMDValue), one by one or  *)
(* as a group in which every record but the first is stored as its         *)
(* difference to the one before (DataFeature).  The definition of the      *)
(* table goes through a stream of its own (TableDef, FieldType).           *)
(*                                                                         *)
(* A stream is a sequence of bytes of ByteBits bits; integers have their   *)
(* width in bytes.  float and double values are whole numbers here, on     *)
(* which their arithmetic is exact; a FLDOUBLE value is given in tenths of *)
(* its last digit.                                                         *)
(*                                                                         *)
(* A VAR_INT field can be set and written.  No call that reads one returns *)
(* (see Relocks), so what is behind the second lock is not here.           *)
(***************************************************************************)
EXTENDS Integers, Sequences, SequencesExt, FiniteSets, FiniteSetsExt

CONSTANTS
    Defs,       \* table definitions: sequences of fields
    Numbers,    \* values that callers set in numeric fields
    Texts,      \* byte strings that callers set, 0 is NUL
    Garbage,    \* what memory that is not initialised holds
    ByteBits, ShortBytes, IntBytes, LongBytes,
    MaxGroup    \* bound: records of a group

VARIABLES
    def,      \* the TableDef
    given,    \* what the caller set, record by record
    recs,     \* the Record objects
    bytes,    \* the stream
    back,     \* the records read from it
    phase     \* "set", "put", "got", or "hung": the caller waits for ever

rvars == <<def, given, recs, bytes, back, phase>>

Textual == {"TEXT", "VAR_TEXT"}
Binary == {"BINARY", "VAR_BINARY"}

-----------------------------------------------------------------------------
(* SMDValue: two's complement, most significant byte first *)

Base == 2 ^ ByteBits

Wrap(v, n) ==
    LET m == Base ^ n
        u == v % m
    IN  IF 2 * u >= m THEN u - m ELSE u

PutBytes(v, n) == [i \in 1..n |-> (v \div (Base ^ (n - i))) % Base]

GetBytes(b) == Wrap(FoldLeft(LAMBDA acc, x : (acc * Base) + x, 0, b), Len(b))

\* SMDMemStream::read: the next n bytes.
Take(s, n) == SubSeq(s.bytes, s.pos + 1, s.pos + n)

\* readShort, readInt and readLong
Number(s, n) == GetBytes(Take(s, n))

\* writeString; readString: the length and where the bytes begin.
PutString(b) == PutBytes(Len(b), IntBytes) \o b
StringAt(s) == [bytes |-> s.bytes, pos |-> s.pos + IntBytes]

-----------------------------------------------------------------------------
(* Variable length integers: one bit of a byte says that more follow *)

Half == 2 ^ (ByteBits - 1)

\* Zig moves the sign to the lowest bit.
Zig(v) == IF v >= 0 THEN 2 * v ELSE -(2 * v) - 1

VarIntWrite(v) ==
    LET u == Zig(v)
        n == Min({i \in 1..5 : u < Half ^ i})
    IN  [i \in 1..n |-> ((u \div (Half ^ (i - 1))) % Half) + (IF i < n THEN Half ELSE 0)]

-----------------------------------------------------------------------------
(* Common decimal heads *)

Magnitude(v) == IF v < 0 THEN -v ELSE v

\* getValueSize: the number of decimal digits, none for 0.
ValueSize(v) == Min({n \in 0..9 : Magnitude(v) < 10 ^ n})

\* What setFieldInteger and setFieldLong store of a value that begins with
\* the digits of the head: a 1 in their place.
CutHead(v, head) ==
    LET k == ValueSize(v) - ValueSize(head) IN (v - (head * (10 ^ k))) + (10 ^ k)

BeginsWith(v, head) ==
    \E k \in 0..3 : v >= head * (10 ^ k) /\ v < (head + 1) * (10 ^ k)

-----------------------------------------------------------------------------
(* Setting fields *)

UpToNul(s) == SubSeq(s, 1, Min({i \in DOMAIN s : s[i] = 0} \cup {Len(s)}))
Fill(n, x) == [i \in 1..n |-> x]
Cut(s, n) == SubSeq(s, 1, Min({n, Len(s)}))

\* The first bytes of buf are replaced.
Onto(s, buf) == s \o SubSeq(buf, Len(s) + 1, Len(buf))

\* setFieldBinary.  Text is copied up to a NUL, the length is the caller's;
\* the buffer has whatever it had behind the NUL.
SetFieldBinary(f, s, g) ==
    CASE f.type = "TEXT" ->
           [buf |-> Onto(Cut(UpToNul(Append(s, 0)), f.size), Fill(f.size, g)),
            len |-> Min({Len(s), f.size})]
      [] f.type = "VAR_TEXT" ->
           [buf |-> Onto(UpToNul(s), Fill(Len(s), g)), len |-> Len(s)]
      [] f.type = "BINARY" ->
           [buf |-> Onto(Cut(s, f.size), Fill(f.size, 0)), len |-> Min({Len(s), f.size})]
      [] f.type = "VAR_BINARY" -> [buf |-> s, len |-> Len(s)]

\* setFieldFLDouble: the digits are cut off, then the next one rounds up.
\* C++ divides towards zero.
Trunc(n) == IF n >= 0 THEN n \div 10 ELSE -((-n) \div 10)

SetFieldFLDouble(n) == Trunc(n) + (IF n - (10 * Trunc(n)) > 4 THEN 1 ELSE 0)

\* setFieldInteger and setFieldLong on a VAR_INT field
SetFieldVarInt(f, v) ==
    VarIntWrite(Wrap(IF f.head # 0 THEN CutHead(v, f.head) ELSE v, IntBytes))

\* The setter that a caller uses for a field of this type.
SetField(f, v, g) ==
    CASE f.type \in Textual \cup Binary -> SetFieldBinary(f, v, g)
      [] f.type = "VAR_INT" -> SetFieldVarInt(f, v)
      [] f.type = "FLDOUBLE" -> SetFieldFLDouble(v)
      [] f.type = "SHORT" -> Wrap(v, ShortBytes)
      [] f.type \in {"INT", "FLOAT"} -> Wrap(v, IntBytes)
      [] f.type \in {"LONG", "DOUBLE"} -> Wrap(v, LongBytes)

-----------------------------------------------------------------------------
(* Fetching fields *)

\* getFieldAsString into a string that held `old`: resize keeps what is there.
GetFieldAsString(f, v, old) ==
    LET room == Onto(Cut(old, v.len), Fill(v.len, 0))
    IN  IF f.type \in Textual THEN Onto(UpToNul(Cut(v.buf, v.len)), room)
        ELSE Cut(v.buf, v.len)

\* The getter for a field of this type.  Those of numbers return what is
\* stored; the power of ten that getFieldAsDouble divides a FLDOUBLE by is
\* left out.
GetField(f, v) ==
    IF f.type \in Textual \cup Binary THEN GetFieldAsString(f, v, <<>>) ELSE v

\* KvDB::getRecord: up to four fields, one string for all of them.
KvDBGetRecord(d, r) ==
    FoldLeftDomain(LAMBDA acc, i :
        IF d[i].type \notin Textual \cup Binary THEN acc
        ELSE LET t == GetFieldAsString(d[i], r[i], acc.temp)
             IN  [temp |-> t, data |-> acc.data \o t],
        [temp |-> <<>>, data |-> <<>>], SubSeq(d, 1, Min({4, Len(d)}))).data

-----------------------------------------------------------------------------
(* Record::write and Record::read *)

WriteField(f, v) ==
    CASE f.type \in Textual \cup Binary -> PutString(SubSeq(v.buf, 1, v.len))
      [] f.type = "VAR_INT" -> v
      [] f.type = "SHORT" -> PutBytes(v, ShortBytes)
      [] f.type \in {"INT", "FLOAT"} -> PutBytes(v, IntBytes)
      [] OTHER -> PutBytes(v, LongBytes)

WriteRecord(d, r) == FlattenSeq([i \in DOMAIN d |-> WriteField(d[i], r[i])])

\* A number of n bytes.
Plain(s, n) == [v |-> Number(s, n), pos |-> s.pos + n]

\* Fixed length text is read whole and then cut, fixed length bytes are cut
\* while they are read.
ReadBlob(f, s) ==
    LET n    == Number(s, IntBytes)
        keep == IF f.type \in {"TEXT", "BINARY"} THEN Min({n, f.size}) ELSE n
        room == IF f.type \in {"TEXT", "BINARY"} THEN f.size ELSE n
        used == IF f.type = "BINARY" THEN keep ELSE n
    IN  [v |-> [buf |-> Onto(Take(StringAt(s), keep), Fill(room, 0)), len |-> keep],
         pos |-> s.pos + IntBytes + used]

ReadField(f, s) ==
    CASE f.type \in Textual \cup Binary -> ReadBlob(f, s)
      [] f.type = "SHORT" -> Plain(s, ShortBytes)
      [] f.type \in {"INT", "FLOAT"} -> Plain(s, IntBytes)
      [] OTHER -> Plain(s, LongBytes)

\* The record, and the position behind it.
ReadRecord(d, s) ==
    FoldLeft(LAMBDA acc, f :
                LET x == ReadField(f, acc)
                IN  [acc EXCEPT !.pos = x.pos, !.rec = Append(@, x.v)],
             [bytes |-> s.bytes, pos |-> s.pos, rec |-> <<>>], d)

-----------------------------------------------------------------------------
(* Differences *)

\* setFieldDouble refuses a FLDOUBLE field: in a new record it stays as
\* initFields left it, that is, not initialised.
SubField(f, v, p, g) ==
    CASE f.type \in Textual \cup Binary ->
           SetFieldBinary(f, GetFieldAsString(f, v, <<>>), g)
      [] f.type = "FLDOUBLE" -> g
      [] f.type = "SHORT" -> Wrap(v - p, ShortBytes)
      [] f.type \in {"INT", "FLOAT"} -> Wrap(v - p, IntBytes)
      [] f.type \in {"LONG", "DOUBLE"} -> Wrap(v - p, LongBytes)

\* Fault: the difference is taken the wrong way round.
FaultSubRecord(d, r, p, g) == [i \in DOMAIN d |-> SubField(d[i], p[i], r[i], g)]

SubRecord(d, r, p, g) == [i \in DOMAIN d |-> SubField(d[i], r[i], p[i], g)]

\* addRecord: text falls through to the float case, whose calls all refuse.
AddField(f, v, p) ==
    CASE f.type = "SHORT" -> Wrap(v + p, ShortBytes)
      [] f.type \in {"INT", "FLOAT"} -> Wrap(v + p, IntBytes)
      [] f.type \in {"LONG", "DOUBLE"} -> Wrap(v + p, LongBytes)
      [] OTHER -> v

AddRecord(d, r, p) == [i \in DOMAIN d |-> AddField(d[i], r[i], p[i])]

-----------------------------------------------------------------------------
(* Table definitions: write, read, createFieldByStream *)

\* FieldType::init by the constructors: the alias is the name.
FieldType(type, size, head) ==
    [type |-> type, size |-> size, head |-> head, name |-> type, alias |-> type]

\* The numbers of Enum_FieldType
TypeNo == <<"TEXT", "VAR_TEXT", "BINARY", "VAR_BINARY", "FLOAT", "DOUBLE", "FLDOUBLE",
            "VAR_INT", "SHORT", "INT", "LONG">>

\* Types that save() writes a length or a scale for.
Sized == Textual \cup Binary \cup {"FLOAT", "DOUBLE", "FLDOUBLE"}

\* FieldType::write, an item per call of the stream.
WriteFieldType(f) ==
    <<CHOOSE i \in DOMAIN TypeNo : TypeNo[i] = f.type, f.name, f.alias, f.head # 0>>
      \o (IF f.head # 0 THEN <<f.head>> ELSE <<>>)
      \o (IF f.type \in Sized THEN <<f.size>> ELSE <<>>)

\* FieldTypeFactory::createFieldByStream and FieldType::read of the items s:
\* the alias that is set is the member, not the string that was read.
CreateFieldByStream(s) ==
    LET type == TypeNo[s[1]]
        at   == IF s[4] THEN 5 ELSE 4
    IN  [field |-> [type |-> type, name |-> s[2], alias |-> "",
                    head |-> IF s[4] THEN s[5] ELSE 0,
                    size |-> IF type \in Sized THEN s[at + 1] ELSE 0],
         rest  |-> SubSeq(s, at + (IF type \in Sized THEN 2 ELSE 1), Len(s))]

TableDefWrite(d) == <<Len(d)>> \o FlattenSeq([i \in DOMAIN d |-> WriteFieldType(d[i])])

TableDefRead(s) ==
    FoldLeft(LAMBDA acc, i :
                LET x == CreateFieldByStream(acc.rest)
                IN  [fields |-> Append(acc.fields, x.field), rest |-> x.rest],
             [fields |-> <<>>, rest |-> Tail(s)], [i \in 1..s[1] |-> i]).fields

-----------------------------------------------------------------------------
(* The calls *)

Init ==
    /\ def \in Defs
    /\ given = <<>> /\ recs = <<>> /\ bytes = <<>> /\ back = <<>>
    /\ phase = "set"

\* Values a caller may set in a field; one with a head begins with it.
Legal(f) ==
    CASE f.type \in Textual \cup Binary -> Texts
      [] f.head # 0 -> {v \in Numbers : BeginsWith(v, f.head)}
      [] OTHER -> Numbers

\* The ways to set all fields of a record.
Fillings(d) ==
    FoldLeft(LAMBDA acc, f : {Append(r, v) : r \in acc, v \in Legal(f)}, {<<>>}, d)

\* A new Record, all of whose fields are set.
NewRecord(vals, g) ==
    /\ phase = "set" /\ Len(recs) < MaxGroup
    /\ given' = Append(given, vals)
    /\ recs' = Append(recs, [i \in DOMAIN def |-> SetField(def[i], vals[i], g)])
    /\ UNCHANGED <<def, bytes, back, phase>>

\* m_lock, a mutex with default attributes, is taken by read() and again by
\* readVarInt(), by getFieldAsInteger() or getFieldAsLong() and again by
\* getVarInt(): the caller waits for itself.
Relocks == \E i \in DOMAIN def : def[i].type = "VAR_INT"

\* addRecord and addOneGroupRecords: a record by itself, or a group.
Put(g) ==
    /\ phase = "set" /\ recs # <<>>
    /\ IF Len(recs) > 1 /\ Relocks
       THEN phase' = "hung" /\ bytes' = bytes
       ELSE /\ phase' = "put"
            /\ bytes' = (IF Len(recs) = 1 THEN <<>> ELSE PutBytes(Len(recs), IntBytes))
                          \o WriteRecord(def, recs[1])
                          \o FlattenSeq([i \in 1..(Len(recs) - 1) |->
                                WriteRecord(def, SubRecord(def, recs[i + 1], recs[i], g))])
    /\ UNCHANGED <<def, given, recs, back>>

\* getOGRecordsFromStream: every record but the first adds the one before.
ReadGroup(d, s, n) ==
    FoldLeft(LAMBDA acc, i :
                LET x == ReadRecord(d, acc)
                IN  [acc EXCEPT !.pos = x.pos,
                                !.out = Append(@, IF i = 1 THEN x.rec
                                                  ELSE AddRecord(d, x.rec, Last(@)))],
             [bytes |-> s.bytes, pos |-> s.pos, out |-> <<>>], [i \in 1..n |-> i]).out

\* getRecord or getOneGroupRecords, with the definition as it was read.
Get ==
    LET d == TableDefRead(TableDefWrite(def))
        s == [bytes |-> bytes, pos |-> 0]
    IN  /\ phase = "put"
        /\ IF Relocks THEN phase' = "hung" /\ back' = back
           ELSE /\ phase' = "got"
                /\ back' = IF Len(recs) = 1 THEN <<ReadRecord(d, s).rec>>
                           ELSE ReadGroup(d, [s EXCEPT !.pos = IntBytes], Number(s, IntBytes))
        /\ UNCHANGED <<def, given, recs, bytes>>

Next ==
    \/ \E g \in Garbage :
         \/ \E vals \in Fillings(def) : NewRecord(vals, g)
         \/ Put(g)
    \/ Get

-----------------------------------------------------------------------------
(* Properties *)

\* What a caller may expect of a field: its value, cut to the size or to the
\* width of the field, or the nearest one of its digits, from the middle up.
Expected(f, v) ==
    CASE f.type \in {"TEXT", "BINARY"} -> Cut(v, f.size)
      [] f.type \in {"VAR_TEXT", "VAR_BINARY"} -> v
      [] f.type = "FLDOUBLE" -> (v + 5) \div 10
      [] f.type = "SHORT" -> Wrap(v, ShortBytes)
      [] OTHER -> v

\* Text with a NUL inside is not kept, a fixed point number only if it is not
\* negative and in the first record of a group (see Rounds and GroupKeepsDoubles
\* for what the code does to the others).
Kept(f, n, v) ==
    /\ f.type \in Textual => 0 \notin ToSet(v)
    /\ f.type = "FLDOUBLE" => n = 1 /\ v >= 0

\* Records come back as they were set, alone and as differences that wrap
\* around in a group, whatever the widths and lengths of the fields;
\* KvDB::getRecord returns the texts of a record one after the other.
FieldsReadBack ==
    phase = "got" =>
        /\ Len(back) = Len(given)
        /\ \A n \in DOMAIN given : \A i \in DOMAIN def :
             Kept(def[i], n, given[n][i]) => GetField(def[i], back[n][i]) = Expected(def[i], given[n][i])
        /\ (\A i \in DOMAIN def : def[i].type \in Textual => Kept(def[i], 1, given[1][i])) =>
             KvDBGetRecord(def, back[1]) =
                FlattenSeq([i \in 1..Min({4, Len(def)}) |->
                    IF def[i].type \in Textual \cup Binary
                    THEN Expected(def[i], given[1][i]) ELSE <<>>])

\* "int and varint are both included" (Record.h, at getFieldAsInteger): a
\* call on a record with a VAR_INT field returns.
CallsReturn == phase # "hung"

\* "Round half up" (Record.cpp, setFieldFLDouble): a value is stored as the
\* nearest one of its digits.
Rounds ==
    phase = "got" => \A i \in DOMAIN def :
        def[i].type = "FLDOUBLE" => Magnitude((10 * back[1][i]) - given[1][i]) <= 5

\* Every record of a group comes back, fixed point numbers too (those that
\* setFieldFLDouble rounds right).
GroupKeepsDoubles ==
    phase = "got" => \A n \in DOMAIN given : \A i \in DOMAIN def :
        def[i].type = "FLDOUBLE" /\ given[n][i] >= 0 => back[n][i] = Expected(def[i], given[n][i])
=============================================================================
