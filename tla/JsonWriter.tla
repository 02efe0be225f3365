----------------------------- MODULE JsonWriter -----------------------------
(***************************************************************************)
(* binary_writer of json.h: a value as CBOR, MessagePack, UBJSON, BJData   *)
(* and BSON.  Bytes, integers and floats are those of JsonReader; an       *)
(* exception is a Thrown in what is written.                               *)
(***************************************************************************)
EXTENDS JsonReader, JsonSerializer

\* The digits of a number, two's complement if it is negative.
write_number(n, width, little) ==
    LET digits == [k \in 1 .. width |-> (n \div (Radix ^ (width - k))) % Radix]
    IN  IF little THEN Reverse(digits) ELSE digits

Unsigned8 == Radix - 1
Signed8 == (-(Radix \div 2)) .. ((Radix \div 2) - 1)

\* The largest and the smallest number of a signed type.
MaxSigned(width) == ((Radix ^ width) \div 2) - 1
MinSigned(width) == -((Radix ^ width) \div 2)

\* The width of the narrowest unsigned type for n.
Width(n) == Min({w \in 1 .. 4 : n < Radix ^ w})

IsInteger(v) == v[1] \in {"number_integer", "number_unsigned"}

\* As a float if that changes nothing.
write_compact_float(p, single, double) ==
    IF p % Radix = 0 THEN <<single>> \o write_number(p \div Radix, 3, FALSE)
    ELSE <<double>> \o write_number(p, 4, FALSE)
-----------------------------------------------------------------------------
(* CBOR.                                                                    *)
\* A major type with a number, in the same byte or after it.
CborHead(major, n) ==
    IF n <= 23 THEN <<32 * major + n>>
    ELSE <<32 * major + 23 + Width(n)>> \o write_number(n, Width(n), FALSE)

CborInteger(n) == IF n >= 0 THEN CborHead(0, n) ELSE CborHead(1, -1 - n)

CborFloat(p) ==
    CASE p = Nan -> <<249, 126, 0>>
      [] p = Inf -> <<249, 124, 0>>
      [] p = MinusInf -> <<249, 252, 0>>
      [] OTHER -> write_compact_float(p, 250, 251)

CborString(s) == CborHead(3, Len(s)) \o s

\* Bytes after the tag that stands for the subtype.
CborBinary(bytes, subtype) ==
    (IF subtype = -1 THEN <<>> ELSE <<215 + Width(subtype)>> \o write_number(subtype, Width(subtype), FALSE))
    \o CborHead(2, Len(bytes)) \o bytes

RECURSIVE write_cbor(_)
write_cbor(v) ==
    CASE v[1] = "null" -> <<246>>
      [] v[1] = "boolean" -> <<IF v[2] THEN 245 ELSE 244>>
      [] IsInteger(v) -> CborInteger(v[2])
      [] v[1] = "number_float" -> CborFloat(v[2])
      [] v[1] = "string" -> CborString(v[2])
      [] v[1] = "binary" -> CborBinary(v[2][1], v[2][2])
      [] v[1] = "array" -> CborHead(4, Len(v[2])) \o FlattenSeq([i \in DOMAIN v[2] |-> write_cbor(v[2][i])])
      [] v[1] = "object" ->
             CborHead(5, Cardinality(DOMAIN v[2]))
             \o FlattenSeq([i \in DOMAIN Keys(v[2]) |->
                               CborString(Keys(v[2])[i]) \o write_cbor(v[2][Keys(v[2])[i]])])
-----------------------------------------------------------------------------
(* MessagePack.                                                             *)
\* 128 in the code: half of what a byte holds.
MsgpackUnsigned(n) ==
    IF n < Radix \div 2 THEN <<n>> ELSE <<203 + Width(n)>> \o write_number(n, Width(n), FALSE)

MsgpackNegative(n) ==
    LET width == Min({w \in 1 .. 4 : n >= MinSigned(w)})
    IN  IF n >= -32 THEN <<256 + n>> ELSE <<207 + width>> \o write_number(n, width, FALSE)

MsgpackString(s) ==
    (IF Len(s) <= 31 THEN <<160 + Len(s)>> ELSE <<216 + Width(Len(s))>> \o write_number(Len(s), Width(Len(s)), FALSE))
    \o s

\* An array or a map: a byte, or one for 16 and one for 32 bits.
MsgpackSize(n, fixed, sized) ==
    LET width == IF n < Radix ^ 2 THEN 2 ELSE 3
    IN  IF n <= 15 THEN <<fixed + n>> ELSE <<sized + width - 2>> \o write_number(n, width, FALSE)

\* The type of so many bytes with a subtype.
Fixext == 1 :> 212 @@ 2 :> 213 @@ 4 :> 214 @@ 8 :> 215 @@ 16 :> 216

MsgpackBinary(bytes, subtype) ==
    LET n == Len(bytes)
        ext == subtype # -1
    IN  (IF ext /\ n \in DOMAIN Fixext THEN <<Fixext[n]>>
         ELSE <<(IF ext THEN 198 ELSE 195) + Width(n)>> \o write_number(n, Width(n), FALSE))
        \o (IF ext THEN write_number(subtype, 1, FALSE) ELSE <<>>) \o bytes

RECURSIVE write_msgpack(_)
write_msgpack(v) ==
    CASE v[1] = "null" -> <<192>>
      [] v[1] = "boolean" -> <<IF v[2] THEN 195 ELSE 194>>
      [] IsInteger(v) -> IF v[2] >= 0 THEN MsgpackUnsigned(v[2]) ELSE MsgpackNegative(v[2])
      [] v[1] = "number_float" -> write_compact_float(v[2], 202, 203)
      [] v[1] = "string" -> MsgpackString(v[2])
      [] v[1] = "binary" -> MsgpackBinary(v[2][1], v[2][2])
      [] v[1] = "array" -> MsgpackSize(Len(v[2]), 144, 220) \o FlattenSeq([i \in DOMAIN v[2] |-> write_msgpack(v[2][i])])
      [] v[1] = "object" ->
             MsgpackSize(Cardinality(DOMAIN v[2]), 128, 222)
             \o FlattenSeq([i \in DOMAIN Keys(v[2]) |->
                               MsgpackString(Keys(v[2])[i]) \o write_msgpack(v[2][Keys(v[2])[i]])])
-----------------------------------------------------------------------------
(* UBJSON and BJData, with the options use_count and use_type.              *)
\* The integer types in the order in which they are tried: i U I u l m L M.
UbjsonTypes(bjdata) ==
    <<105, 85, 73>> \o (IF bjdata THEN <<117>> ELSE <<>>) \o <<108>> \o (IF bjdata THEN <<109>> ELSE <<>>)
    \o <<76>> \o (IF bjdata THEN <<77>> ELSE <<>>)

Markers(bjdata) == IntegerTypes([format |-> IF bjdata THEN "bjdata" ELSE "ubjson", tags |-> "error"])

Holds(type, n) ==
    IF type.signed THEN n \in MinSigned(type.width) .. MaxSigned(type.width) ELSE n \in 0 .. (Radix ^ type.width) - 1

RECURSIVE write_number_with_ubjson_prefix(_, _, _)
\* An integer of the first type that holds it, or a text with its length.
write_number_with_ubjson_prefix(n, add_prefix, bjdata) ==
    LET types == SelectSeq(UbjsonTypes(bjdata), LAMBDA c : Holds(Markers(bjdata)[c], n))
        marker == IF types = <<>> THEN 72 ELSE types[1]
        text == dump_integer(n)
    IN  (IF add_prefix THEN <<marker>> ELSE <<>>)
        \o IF marker = 72 THEN write_number_with_ubjson_prefix(Len(text), TRUE, bjdata) \o text
           ELSE write_number(n, Markers(bjdata)[marker].width, bjdata)

\* The marker of a value in a container, which has to be the one it is
\* written with.
ubjson_prefix(v, bjdata) ==
    CASE v[1] = "null" -> 90
      [] v[1] = "boolean" -> IF v[2] THEN 84 ELSE 70
      [] IsInteger(v) /\ v[2] \in Signed8 -> 105
      [] IsInteger(v) /\ v[2] \in (Radix \div 2) .. Unsigned8 -> 85
      [] IsInteger(v) /\ v[2] \in MinSigned(2) .. MaxSigned(2) /\ v[2] \notin MinSigned(1) .. Unsigned8 -> 73
      [] IsInteger(v) /\ bjdata /\ v[2] \in (MaxSigned(2) + 1) .. (Radix ^ 2) - 1 -> 117
      [] IsInteger(v) /\ v[2] \in MinSigned(3) .. MaxSigned(3)
            /\ (v[2] < MinSigned(2) \/ v[2] > IF bjdata THEN (Radix ^ 2) - 1 ELSE MaxSigned(2)) -> 108
      [] IsInteger(v) /\ bjdata /\ v[2] \in (MaxSigned(3) + 1) .. (Radix ^ 3) - 1 -> 109
      [] IsInteger(v) /\ (v[2] < MinSigned(3) \/ v[2] > IF bjdata THEN (Radix ^ 3) - 1 ELSE MaxSigned(3)) ->
             IF v[2] <= MaxSigned(4) THEN 76 ELSE IF bjdata THEN 77 ELSE 72
      [] v[1] = "number_float" -> 68
      [] v[1] = "string" -> 83
      [] v[1] \in {"array", "binary"} -> 91
      [] v[1] = "object" -> 123

\* The markers that BJData does not say once for all elements.
bjdx == {91, 123, 83, 72, 84, 70, 78, 90}

\* The marker that is said once for all elements, or 0.
SharedPrefix(vs, o) ==
    LET first_prefix == ubjson_prefix(vs[1], o.bjdata)
    IN  IF o.type /\ vs # <<>> /\ (\A k \in DOMAIN vs : ubjson_prefix(vs[k], o.bjdata) = first_prefix)
           /\ ~(o.bjdata /\ first_prefix \in bjdx)
        THEN first_prefix ELSE 0

\* What a container begins with.
UbjsonHead(open, shared, n, o) ==
    open \o (IF shared = 0 THEN <<>> ELSE <<36, shared>>)
    \o (IF o.count THEN <<Hash>> \o write_number_with_ubjson_prefix(n, TRUE, o.bjdata) ELSE <<>>)

UbjsonString(s, o) == write_number_with_ubjson_prefix(Len(s), TRUE, o.bjdata) \o s

UbjsonBinary(bytes, open, o) ==
    UbjsonHead(open, IF o.type /\ bytes # <<>> THEN 85 ELSE 0, Len(bytes), o)
    \o (IF o.type THEN bytes ELSE FlattenSeq([k \in DOMAIN bytes |-> <<85, bytes[k]>>]))
    \o (IF o.count THEN <<>> ELSE <<93>>)

\* The bits of a number, whatever its type is.
Bits(v) == IF IsInteger(v) THEN v[2] % (Radix ^ 4) ELSE v[2]

\* A double rounded to a float.
Single(p) ==
    CASE p = Nan -> (Radix ^ 3) - 1
      [] p = Inf -> (Radix ^ 3) - 2
      [] p = MinusInf -> (Radix ^ 3) - 3
      [] OTHER -> p \div Radix

\* An element of annotated data as its type, the bits of the element taken
\* for those of a number of that type.
NdarrayNumber(v, dtype) ==
    CASE dtype = 68 -> write_number(Bits(v), 4, TRUE)
      [] dtype = 100 -> write_number(Single(Bits(v)), 3, TRUE)
      [] dtype = 67 -> write_number(Bits(v), 1, TRUE)
      [] OTHER -> write_number(Bits(v), Markers(TRUE)[dtype].width, TRUE)

NdarraySize(sizes) == FoldLeft(LAMBDA p, v : (p * Bits(v)) % (Radix ^ 4), IF sizes = <<>> THEN 0 ELSE 1, sizes)

IsAnnotated(map) == DOMAIN map = {ArrayType, ArraySize, ArrayData}

\* An object that is no array after all: the type unknown, or the sizes not
\* that of the data.
Unannotated(map) ==
    \/ map[ArrayType][2] \notin {<<c>> : c \in bjd_types_map}
    \/ Len(Elements(map[ArrayData])) # NdarraySize(Elements(map[ArraySize]))

RECURSIVE write_ubjson(_, _, _)

write_bjdata_ndarray(map, o) ==
    LET dtype == map[ArrayType][2][1]
        data == Elements(map[ArrayData])
    IN  <<91, 36, dtype, Hash>> \o write_ubjson(map[ArraySize], o, TRUE)
        \o FlattenSeq([k \in DOMAIN data |-> NdarrayNumber(data[k], dtype)])

UbjsonArray(vs, open, o) ==
    LET shared == SharedPrefix(vs, o)
    IN  UbjsonHead(open, shared, Len(vs), o) \o FlattenSeq([k \in DOMAIN vs |-> write_ubjson(vs[k], o, shared = 0)])
        \o (IF o.count THEN <<>> ELSE <<93>>)

UbjsonObject(map, open, o) ==
    LET shared == SharedPrefix(Elements(Object(map)), o)
        keys == Keys(map)
    IN  UbjsonHead(open, shared, Len(keys), o)
        \o FlattenSeq([k \in DOMAIN keys |-> UbjsonString(keys[k], o) \o write_ubjson(map[keys[k]], o, shared = 0)])
        \o (IF o.count THEN <<>> ELSE <<125>>)

write_ubjson(v, o, add_prefix) ==
    LET prefix(c) == IF add_prefix THEN <<c>> ELSE <<>>
    IN  CASE v[1] = "null" -> prefix(90)
          [] v[1] = "boolean" -> prefix(IF v[2] THEN 84 ELSE 70)
          [] IsInteger(v) -> write_number_with_ubjson_prefix(v[2], add_prefix, o.bjdata)
          [] v[1] = "number_float" -> prefix(68) \o write_number(v[2], 4, o.bjdata)
          [] v[1] = "string" -> prefix(83) \o UbjsonString(v[2], o)
          [] v[1] = "array" -> UbjsonArray(v[2], prefix(91), o)
          [] v[1] = "binary" -> UbjsonBinary(v[2][1], prefix(91), o)
          [] v[1] = "object" ->
                 CASE ~o.bjdata \/ ~IsAnnotated(v[2]) -> UbjsonObject(v[2], prefix(123), o)
                   [] o.bjdata /\ IsAnnotated(v[2]) /\ v[2][ArrayType][1] # "string" -> <<Thrown>>
                   [] OTHER -> IF Unannotated(v[2]) THEN UbjsonObject(v[2], prefix(123), o)
                               ELSE write_bjdata_ndarray(v[2], o)
-----------------------------------------------------------------------------
(* BSON: every document begins with its size, which is computed before it   *)
(* is written.                                                              *)
calc_bson_entry_header_size(name) == 1 + Len(name) + 1

calc_bson_integer_size(n) == IF n \in MinSigned(3) .. MaxSigned(3) THEN 3 ELSE 4

calc_bson_unsigned_size(n) == IF n <= MaxSigned(3) THEN 3 ELSE 4

calc_bson_string_size(s) == 3 + Len(s) + 1

calc_bson_binary_size(bytes) == 3 + Len(bytes) + 1

\* The key of the element with an index.
IndexKey(i) == dump_integer(i - 1)

RECURSIVE calc_bson_element_size(_, _)

\* Mutant: the keys are counted from 1.
calc_bson_array_size_one(vs) ==
    3 + FoldLeft(LAMBDA n, i : n + calc_bson_element_size(dump_integer(i), vs[i]), 0, [i \in DOMAIN vs |-> i]) + 1

calc_bson_array_size(vs) ==
    3 + FoldLeft(LAMBDA n, i : n + calc_bson_element_size(IndexKey(i), vs[i]), 0, [i \in DOMAIN vs |-> i]) + 1

calc_bson_object_size(map) ==
    3 + FoldLeft(LAMBDA n, key : n + calc_bson_element_size(key, map[key]), 0, Keys(map)) + 1

calc_bson_element_size(name, v) ==
    calc_bson_entry_header_size(name) +
    CASE v[1] = "object" -> calc_bson_object_size(v[2])
      [] v[1] = "array" -> calc_bson_array_size(v[2])
      [] v[1] = "binary" -> calc_bson_binary_size(v[2][1])
      [] v[1] = "boolean" -> 1
      [] v[1] = "number_float" -> 4
      [] v[1] = "number_integer" -> calc_bson_integer_size(v[2])
      [] v[1] = "number_unsigned" -> calc_bson_unsigned_size(v[2])
      [] v[1] = "string" -> calc_bson_string_size(v[2])
      [] v[1] = "null" -> 0

RECURSIVE BsonKeysThrow(_)
\* Whether the size of an entry is asked for the name of which has a NUL.
BsonKeysThrow(v) ==
    \/ v[1] = "object" /\ \E key \in DOMAIN v[2] : 0 \in Range(key) \/ BsonKeysThrow(v[2][key])
    \/ v[1] = "array" /\ \E i \in DOMAIN v[2] : BsonKeysThrow(v[2][i])

write_bson_entry_header(name, element_type) == <<element_type>> \o name \o <<0>>

write_bson_string(s) == write_number(Len(s) + 1, 3, TRUE) \o s \o <<0>>

write_bson_binary(bytes, subtype) ==
    write_number(Len(bytes), 3, TRUE) \o write_number(IF subtype = -1 THEN 0 ELSE subtype, 1, TRUE) \o bytes

write_bson_integer(name, n) ==
    IF n \in MinSigned(3) .. MaxSigned(3) THEN write_bson_entry_header(name, 16) \o write_number(n, 3, TRUE)
    ELSE write_bson_entry_header(name, 18) \o write_number(n, 4, TRUE)

write_bson_unsigned(name, n) ==
    CASE n <= MaxSigned(3) -> write_bson_entry_header(name, 16) \o write_number(n, 3, TRUE)
      [] n \in (MaxSigned(3) + 1) .. MaxSigned(4) -> write_bson_entry_header(name, 18) \o write_number(n, 4, TRUE)
      [] n > MaxSigned(4) -> <<Thrown>>

RECURSIVE write_bson_element(_, _)

write_bson_object(map) ==
    write_number(calc_bson_object_size(map), 3, TRUE)
    \o FlattenSeq([k \in DOMAIN Keys(map) |-> write_bson_element(Keys(map)[k], map[Keys(map)[k]])]) \o <<0>>

write_bson_array(vs) ==
    write_number(calc_bson_array_size(vs), 3, TRUE)
    \o FlattenSeq([i \in DOMAIN vs |-> write_bson_element(IndexKey(i), vs[i])]) \o <<0>>

write_bson_element(name, v) ==
    CASE v[1] = "object" -> write_bson_entry_header(name, 3) \o write_bson_object(v[2])
      [] v[1] = "array" -> write_bson_entry_header(name, 4) \o write_bson_array(v[2])
      [] v[1] = "binary" -> write_bson_entry_header(name, 5) \o write_bson_binary(v[2][1], v[2][2])
      [] v[1] = "boolean" -> write_bson_entry_header(name, 8) \o <<IF v[2] THEN 1 ELSE 0>>
      [] v[1] = "number_float" -> write_bson_entry_header(name, 1) \o write_number(v[2], 4, TRUE)
      [] v[1] = "number_integer" -> write_bson_integer(name, v[2])
      [] v[1] = "number_unsigned" -> write_bson_unsigned(name, v[2])
      [] v[1] = "string" -> write_bson_entry_header(name, 2) \o write_bson_string(v[2])
      [] v[1] = "null" -> write_bson_entry_header(name, 10)

write_bson(v) == IF v[1] # "object" \/ BsonKeysThrow(v) THEN <<Thrown>> ELSE write_bson_object(v[2])
-----------------------------------------------------------------------------
\* A value in a format: to_cbor ... to_bson.
Written(f, v, o) ==
    CASE f.format = "cbor" -> write_cbor(v)
      [] f.format = "msgpack" -> write_msgpack(v)
      [] IsUbjson(f) -> write_ubjson(v, o, TRUE)
      [] f.format = "bson" -> write_bson(v)
=============================================================================
