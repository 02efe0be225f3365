----------------------------- MODULE JsonReader -----------------------------
(***************************************************************************)
(* binary_reader of json.h: CBOR, MessagePack, UBJSON, BJData and BSON to  *)
(* the tree that json_sax_dom_parser builds from its events.               *)
(*                                                                         *)
(* A reading function gets the input and the place of `current', the byte  *)
(* read last, and returns the place of the byte that it read last.  What   *)
(* fails past the end of the input has run out of it.  The types of 8, 16, *)
(* 32 and 64 bits have 1, 2, 3 and 4 digits to the base Radix (256 in the  *)
(* code), a byte that is part of a number counts modulo Radix.  A float is *)
(* its bit pattern, a double that a float can hold one that ends in the    *)
(* digit 0.  A subtype is -1 if there is none.                             *)
(***************************************************************************)
EXTENDS JsonParser

CONSTANT Radix

ASSUME RadixAssumption == Radix \in 64 .. 256 /\ Radix % 2 = 0

\* size_t(-1): `indefinite', whether a length says so or not.
Npos == (Radix ^ 4) - 1

MaxSize == (Radix ^ 4) \div 32

Nan == (Radix ^ 4) - 1
Inf == (Radix ^ 4) - 2
MinusInf == (Radix ^ 4) - 3

Binary(bytes, subtype) == <<"binary", <<bytes, subtype>> >>

\* The lexer with the limits of these integers.
Wide == INSTANCE JsonLexer WITH MaxUnsigned <- (Radix ^ 4) - 1, MinInteger <- -((Radix ^ 4) \div 2)

\* A format, with what to do with the tags of CBOR.
IsUbjson(f) == f.format \in {"ubjson", "bjdata"}

Failed(i) == [ok |-> FALSE, at |-> i, value |-> Null]

Got(i, value) == [ok |-> TRUE, at |-> i, value |-> value]

\* What comes after what was read, unless that failed.
Then(r, After(_)) == IF r.ok THEN After(r) ELSE r

\* What was read, as a value of a type.
As(type, r) == Then(r, LAMBDA v : Got(v.at, <<type, v.value>>))
-----------------------------------------------------------------------------
(* Bytes, numbers, strings.                                                 *)
RECURSIVE get_ignore_noop(_, _)
get_ignore_noop(in, i) == IF Byte(in, i + 1) = 78 THEN get_ignore_noop(in, i + 1) ELSE i + 1

\* The byte that a value after place i starts with.
Start(f, in, i) == IF IsUbjson(f) THEN get_ignore_noop(in, i) ELSE i + 1

\* A number of some digits after place i, with or without a sign.
get_number(f, in, i, type) ==
    LET bytes == SubSeq(in, i + 1, i + type.width)
        n == FoldLeft(LAMBDA m, b : (m * Radix) + (b % Radix), 0,
                      IF f.format \in {"bson", "bjdata"} THEN Reverse(bytes) ELSE bytes)
    IN  CASE i + type.width > Len(in) -> Failed(Len(in) + 1)
          [] i + type.width <= Len(in) /\ type.signed /\ 2 * n >= Radix ^ type.width ->
                 Got(i + type.width, n - (Radix ^ type.width))
          [] OTHER -> Got(i + type.width, n)

UnsignedOf(width) == [width |-> width, signed |-> FALSE]
SignedOf(width) == [width |-> width, signed |-> TRUE]

Unsigned(f, in, i, width) == As("number_unsigned", get_number(f, in, i, UnsignedOf(width)))
Signed(f, in, i, width) == As("number_integer", get_number(f, in, i, SignedOf(width)))

\* A float as the double of the same value.
Double(k) ==
    CASE k = (Radix ^ 3) - 1 -> Nan
      [] k = (Radix ^ 3) - 2 -> Inf
      [] k = (Radix ^ 3) - 3 -> MinusInf
      [] OTHER -> k * Radix

Float32(f, in, i) ==
    Then(get_number(f, in, i, UnsignedOf(3)), LAMBDA n : Got(n.at, <<"number_float", Double(n.value)>>))

Float64(f, in, i) == As("number_float", get_number(f, in, i, UnsignedOf(4)))

\* A half as a double: ldexp is taken to give each finite one its own.
Half(high, low) ==
    CASE (high % 128) \div 4 # 31 -> (high * 256 + low) * Radix
      [] (high % 128) \div 4 = 31 /\ (high % 4 # 0 \/ low # 0) -> Nan
      [] OTHER -> IF high < 128 THEN Inf ELSE MinusInf

\* n bytes; none if n is negative.
get_string(in, i, n) ==
    CASE n <= 0 -> Got(i, <<>>)
      [] n > 0 /\ i + n > Len(in) -> Failed(Len(in) + 1)
      [] OTHER -> Got(i + n, SubSeq(in, i + 1, i + n))

\* As many bytes as a number says that was read before.
Sized(in, n) == Then(n, LAMBDA size : get_string(in, size.at, size.value))
-----------------------------------------------------------------------------
(* Containers: a number of values that is known, or as many as come before  *)
(* a byte that ends them.  A type that is not 0 stands for the first byte   *)
(* of each of the values.                                                   *)
RECURSIVE ReadValue(_, _, _, _), ReadKey(_, _, _)

Element(f, in, i, type) ==
    LET start == IF type # 0 THEN i ELSE Start(f, in, i)
    IN  ReadValue(f, in, start, IF type # 0 THEN type ELSE Byte(in, start))

RECURSIVE Counted(_, _, _, _, _, _)
Counted(f, in, i, n, type, vs) ==
    IF n = 0 THEN Got(i, Array(vs))
    ELSE Then(Element(f, in, i, type), LAMBDA v : Counted(f, in, v.at, n - 1, type, Append(vs, v.value)))

RECURSIVE UntilStop(_, _, _, _, _)
UntilStop(f, in, i, stop, vs) ==
    IF Byte(in, i) = stop THEN Got(i, Array(vs))
    ELSE Then(ReadValue(f, in, i, Byte(in, i)),
              LAMBDA v : UntilStop(f, in, Start(f, in, v.at), stop, Append(vs, v.value)))

\* A key from place i on and the value after it.
Member(f, in, i, type) ==
    Then(ReadKey(f, in, i),
         LAMBDA key : Then(Element(f, in, key.at, type), LAMBDA v : Got(v.at, <<key.value, v.value>>)))

RECURSIVE CountedMembers(_, _, _, _, _, _)
CountedMembers(f, in, i, n, type, map) ==
    IF n = 0 THEN Got(i, Object(map))
    ELSE Then(Member(f, in, i + 1, type),
              LAMBDA m : CountedMembers(f, in, m.at, n - 1, type, With(map, m.value[1], m.value[2])))

RECURSIVE MembersUntilStop(_, _, _, _, _)
MembersUntilStop(f, in, i, stop, map) ==
    IF Byte(in, i) = stop THEN Got(i, Object(map))
    ELSE Then(Member(f, in, i, 0),
              LAMBDA m : MembersUntilStop(f, in, Start(f, in, m.at), stop, With(map, m.value[1], m.value[2])))

\* start_array and start_object refuse what is longer than the longest.
ArrayOf(f, in, i, n, type) == IF n > MaxSize THEN Failed(i) ELSE Counted(f, in, i, n, type, <<>>)

ObjectOf(f, in, i, n, type) == IF n > MaxSize THEN Failed(i) ELSE CountedMembers(f, in, i, n, type, NoMembers)
-----------------------------------------------------------------------------
(* CBOR.                                                                    *)
\* The number that is in the first byte of an item or after it.
CborCount(f, in, i) ==
    LET info == in[i] % 32
    IN  IF info < 24 THEN Got(i, info) ELSE get_number(f, in, i, UnsignedOf(info - 23))

\* -1 - int64_t(number), which wraps beyond the range.
CborNegative(f, in, i) ==
    Then(CborCount(f, in, i),
         LAMBDA n : Got(n.at, <<"number_integer", (IF 2 * n.value >= Radix ^ 4 THEN Radix ^ 4 - 1 ELSE -1) - n.value>>))

RECURSIVE get_cbor_bytes(_, _, _, _), CborChunks(_, _, _, _, _)
\* Bytes (major type 2) or text (3), of a length that is said, or in chunks
\* of the same type.
get_cbor_bytes(f, in, i, major) ==
    CASE Byte(in, i) \in (32 * major) .. (32 * major + 27) -> Sized(in, CborCount(f, in, i))
      [] Byte(in, i) = 32 * major + 31 -> CborChunks(f, in, i + 1, major, <<>>)
      [] OTHER -> Failed(i)

CborChunks(f, in, i, major, before) ==
    IF Byte(in, i) = 255 THEN Got(i, before)
    ELSE Then(get_cbor_bytes(f, in, i, major),
              LAMBDA chunk : CborChunks(f, in, chunk.at + 1, major, before \o chunk.value))

get_cbor_string(f, in, i) == get_cbor_bytes(f, in, i, 3)

get_cbor_binary(f, in, i, subtype) ==
    Then(get_cbor_bytes(f, in, i, 2), LAMBDA b : Got(b.at, Binary(b.value, subtype)))

get_cbor_array(f, in, n) ==
    Then(n, LAMBDA size : IF size.value # Npos THEN ArrayOf(f, in, size.at, size.value, 0)
                          ELSE UntilStop(f, in, size.at + 1, 255, <<>>))

get_cbor_object(f, in, n) ==
    Then(n, LAMBDA size : IF size.value # Npos THEN ObjectOf(f, in, size.at, size.value, 0)
                          ELSE MembersUntilStop(f, in, size.at + 1, 255, NoMembers))

\* The bytes of a tag after its first are read before what is tagged.
CborTagged(f, in, i) ==
    LET n == IF in[i] \in 216 .. 219 THEN get_number(f, in, i, UnsignedOf(in[i] - 215)) ELSE Got(i, -1)
    IN  CASE f.tags = "error" -> Failed(i)
          [] f.tags = "store" /\ in[i] \in 216 .. 219 /\ n.ok -> get_cbor_binary(f, in, n.at + 1, n.value)
          [] OTHER -> ReadValue(f, in, n.at + 1, Byte(in, n.at + 1))

CborHalf(in, i) ==
    IF i + 2 > Len(in) THEN Failed(Len(in) + 1)
    ELSE Got(i + 2, <<"number_float", Half(in[i + 1], in[i + 2])>>)

parse_cbor_internal(f, in, i) ==
    LET b == Byte(in, i)
    IN  CASE b \in 0 .. 27 -> As("number_unsigned", CborCount(f, in, i))
          [] b \in 32 .. 59 -> CborNegative(f, in, i)
          [] b \in (64 .. 91) \cup {95} -> get_cbor_binary(f, in, i, -1)
          [] b \in (96 .. 123) \cup {127} -> As("string", get_cbor_string(f, in, i))
          [] b \in 128 .. 155 -> get_cbor_array(f, in, CborCount(f, in, i))
          [] b = 159 -> get_cbor_array(f, in, Got(i, Npos))
          [] b \in 160 .. 187 -> get_cbor_object(f, in, CborCount(f, in, i))
          [] b = 191 -> get_cbor_object(f, in, Got(i, Npos))
          [] b \in (198 .. 212) \cup (216 .. 219) -> CborTagged(f, in, i)
          [] b \in {244, 245} -> Got(i, Boolean(b = 245))
          [] b = 246 -> Got(i, Null)
          [] b = 249 -> CborHalf(in, i)
          [] b = 250 -> Float32(f, in, i)
          [] b = 251 -> Float64(f, in, i)
          [] OTHER -> Failed(i)
-----------------------------------------------------------------------------
(* MessagePack.                                                             *)
get_msgpack_string(f, in, i) ==
    LET b == Byte(in, i)
    IN  CASE b \in 160 .. 191 -> get_string(in, i, b - 160)
          [] b \in 217 .. 219 -> Sized(in, get_number(f, in, i, UnsignedOf(b - 216)))
          [] OTHER -> Failed(i)

\* The length and the subtype, where there are any, then the bytes.
get_msgpack_binary(f, in, i) ==
    LET b == in[i]
        size == CASE b \in 196 .. 198 -> get_number(f, in, i, UnsignedOf(b - 195))
                  [] b \in 199 .. 201 -> get_number(f, in, i, UnsignedOf(b - 198))
                  [] OTHER -> Got(i, 2 ^ (b - 212))
        Subtype(j) == IF b \in 196 .. 198 THEN Got(j, -1) ELSE get_number(f, in, j, UnsignedOf(1))
    IN  Then(size, LAMBDA n :
            Then(Subtype(n.at), LAMBDA subtype :
                Then(get_string(in, subtype.at, n.value), LAMBDA bytes :
                    Got(bytes.at, Binary(bytes.value, subtype.value)))))

get_msgpack_array(f, in, n) == Then(n, LAMBDA size : ArrayOf(f, in, size.at, size.value, 0))

get_msgpack_object(f, in, n) == Then(n, LAMBDA size : ObjectOf(f, in, size.at, size.value, 0))

parse_msgpack_internal(f, in, i) ==
    LET b == Byte(in, i)
    IN  CASE b \in 0 .. 127 -> Got(i, <<"number_unsigned", b>>)
          [] b \in 128 .. 143 -> get_msgpack_object(f, in, Got(i, b - 128))
          [] b \in 144 .. 159 -> get_msgpack_array(f, in, Got(i, b - 144))
          [] b \in (160 .. 191) \cup (217 .. 219) -> As("string", get_msgpack_string(f, in, i))
          [] b = 192 -> Got(i, Null)
          [] b \in {194, 195} -> Got(i, Boolean(b = 195))
          [] b \in (196 .. 201) \cup (212 .. 216) -> get_msgpack_binary(f, in, i)
          [] b = 202 -> Float32(f, in, i)
          [] b = 203 -> Float64(f, in, i)
          [] b \in 204 .. 207 -> Unsigned(f, in, i, b - 203)
          [] b \in 208 .. 211 -> Signed(f, in, i, b - 207)
          [] b \in {220, 221} -> get_msgpack_array(f, in, get_number(f, in, i, UnsignedOf(b - 218)))
          [] b \in {222, 223} -> get_msgpack_object(f, in, get_number(f, in, i, UnsignedOf(b - 220)))
          [] b \in 224 .. 255 -> Got(i, <<"number_integer", b - 256>>)
          [] OTHER -> Failed(i)
-----------------------------------------------------------------------------
(* UBJSON and BJData.  The markers are letters: U i u I m l M L are         *)
(* integers, d D h floats.                                                  *)
IntegerTypes(f) ==
    85 :> UnsignedOf(1) @@ 105 :> SignedOf(1) @@ 73 :> SignedOf(2) @@ 108 :> SignedOf(3) @@ 76 :> SignedOf(4)
    @@ IF f.format = "bjdata" THEN 117 :> UnsignedOf(2) @@ 109 :> UnsignedOf(3) @@ 77 :> UnsignedOf(4) ELSE <<>>

get_ubjson_string(f, in, i) ==
    IF Byte(in, i) \in DOMAIN IntegerTypes(f)
    THEN Sized(in, get_number(f, in, i, IntegerTypes(f)[in[i]]))
    ELSE Failed(i)

\* # and the types that BJData has no arrays of: F H N S T Z [ {.
Hash == 35
bjd_optimized_type_markers == {70, 72, 78, 83, 84, 90, 91, 123}

\* C D I L M U d i l m u; the name of a type is taken to be its marker.
bjd_types_map == {67, 68, 73, 76, 77, 85, 100, 105, 108, 109, 117}

\* The product of the dimensions modulo 2^64: 0 if it is refused.
Product(dims) ==
    FoldLeft(LAMBDA p, d : IF (p * d) % (Radix ^ 4) = Npos THEN 0 ELSE (p * d) % (Radix ^ 4), 1, dims)

RECURSIVE get_ubjson_ndarray_size(_, _, _), get_ubjson_size_type(_, _, _, _), Dimensions(_, _, _, _, _, _)

\* The number of elements of an array of some dimensions, and these unless
\* it is a row vector, which is an array, or is empty.
SizeOfDimensions(i, dims) ==
    CASE Len(dims) = 1 \/ (Len(dims) = 2 /\ dims[1] = 1) -> Got(i, <<Last(dims), <<>> >>)
      [] dims = <<>> \/ 0 \in Range(dims) -> Got(i, <<0, <<>> >>)
      [] OTHER -> IF Product(dims) = 0 THEN Failed(i) ELSE Got(i, <<Product(dims), dims>>)

\* A size after place i, or with a marker that was read there: a number
\* and no dimensions or, where BJData allows an array, that of its elements.
get_ubjson_size_value(f, in, i, prefix, inside) ==
    LET at == IF prefix = 0 THEN get_ignore_noop(in, i) ELSE i
        marker == IF prefix = 0 THEN Byte(in, at) ELSE prefix
    IN  CASE marker \in DOMAIN IntegerTypes(f) ->
               Then(get_number(f, in, at, IntegerTypes(f)[marker]),
                    LAMBDA n : IF n.value < 0 THEN Failed(n.at) ELSE Got(n.at, <<n.value, <<>> >>))
          [] marker = 91 /\ f.format = "bjdata" /\ ~inside ->
               Then(get_ubjson_ndarray_size(f, in, at), LAMBDA d : SizeOfDimensions(d.at, d.value))
          [] OTHER -> Failed(at)

\* n dimensions after place i, or (Npos) those from place i up to a bracket.
Dimensions(f, in, i, n, type, dims) ==
    IF n = 0 \/ (n = Npos /\ Byte(in, i) = 93) THEN Got(i, dims)
    ELSE Then(get_ubjson_size_value(f, in, i, IF n = Npos THEN Byte(in, i) ELSE type, TRUE),
              LAMBDA v : Dimensions(f, in, IF n = Npos THEN get_ignore_noop(in, v.at) ELSE v.at,
                                    IF n = Npos THEN n ELSE n - 1, type, Append(dims, v.value[1])))

get_ubjson_ndarray_size(f, in, i) ==
    Then(get_ubjson_size_type(f, in, i, TRUE),
         LAMBDA t : IF t.value.size # Npos /\ t.value.type = 78 THEN Got(t.at, <<>>)
                    ELSE Dimensions(f, in, t.at, t.value.size, t.value.type, <<>>))

\* $ type # size, or # size, or the place of the first byte of the content.
get_ubjson_size_type(f, in, i, inside) ==
    LET s == get_ignore_noop(in, i)
        typed == Byte(in, s) = 36
        type == IF typed THEN Byte(in, s + 1) ELSE 0
        hash == IF typed THEN get_ignore_noop(in, s + 1) ELSE s
    IN  CASE typed /\ (type = Eof \/ (f.format = "bjdata" /\ type \in bjd_optimized_type_markers)) -> Failed(s + 1)
          [] ~typed /\ Byte(in, s) # Hash -> Got(s, [size |-> Npos, type |-> 0, dims |-> <<>>])
          [] OTHER ->
               IF Byte(in, hash) # Hash THEN Failed(hash)
               ELSE Then(get_ubjson_size_value(f, in, hash, 0, FALSE),
                         LAMBDA v : IF v.value[2] # <<>> /\ (inside \/ ~typed) THEN Failed(v.at)
                                    ELSE Got(v.at, [size |-> v.value[1], type |-> type, dims |-> v.value[2]]))

\* The names of JData: _ArrayType_, _ArraySize_ and _ArrayData_.
ArrayType == <<84>>
ArraySize == <<83>>
ArrayData == <<68>>

\* An array of more than one dimension is annotated: an object with its
\* type, its dimensions and its elements.
Annotated(f, in, t) ==
    LET type == t.value.type
        dims == Array([k \in DOMAIN t.value.dims |-> <<"number_unsigned", t.value.dims[k]>>])
    IN  IF type \notin bjd_types_map THEN Failed(t.at)
        ELSE Then(ArrayOf(f, in, t.at, t.value.size, IF type = 67 THEN 85 ELSE type),
                  LAMBDA vs : Got(vs.at, Object(ArrayType :> String(<<type>>) @@ ArraySize :> dims
                                                @@ ArrayData :> vs.value)))

get_ubjson_array(f, in, i) ==
    Then(get_ubjson_size_type(f, in, i, FALSE),
         LAMBDA t : CASE t.value.size = Npos -> UntilStop(f, in, t.at, 93, <<>>)
                      [] t.value.size # Npos /\ t.value.dims # <<>> -> Annotated(f, in, t)
                      [] OTHER -> IF t.value.type = 78 /\ t.value.size <= MaxSize THEN Got(t.at, Array(<<>>))
                                  ELSE ArrayOf(f, in, t.at, t.value.size, t.value.type))

get_ubjson_object(f, in, i) ==
    Then(get_ubjson_size_type(f, in, i, FALSE),
         LAMBDA t : CASE t.value.size = Npos -> MembersUntilStop(f, in, t.at, 125, NoMembers)
                      [] t.value.size # Npos /\ t.value.dims # <<>> -> Failed(t.at)
                      [] OTHER -> ObjectOf(f, in, t.at, t.value.size, t.value.type))

\* The pattern of a decimal fraction: strtod is taken to give each its own.
Pattern(x) ==
    CASE x[2] = -1 -> IF x[1] THEN MinusInf ELSE Inf
      [] OTHER -> 2 * ((x[2] % 4096) + 4096 * (x[3] + 64)) + (IF x[1] THEN 1 ELSE 0)

\* A number as text, which has to be the one token in it.
HighPrecision(i, tokens) ==
    IF Len(tokens) # 2 \/ tokens[2][1] # "end_of_input" THEN Failed(i)
    ELSE LET token == tokens[1]
         IN  CASE token[1] = "value_integer" -> Got(i, <<"number_integer", token[2]>>)
               [] token[1] = "value_unsigned" -> Got(i, <<"number_unsigned", token[2]>>)
               [] token[1] = "value_float" -> Got(i, <<"number_float", Pattern(token[2])>>)
               [] OTHER -> Failed(i)

get_ubjson_high_precision_number(f, in, i) ==
    Then(get_ubjson_size_value(f, in, i, 0, TRUE), LAMBDA size :
        Then(get_string(in, size.at, size.value[1]), LAMBDA text : HighPrecision(text.at, Wide!Tokens(text.value))))

\* Little endian, other than that of CBOR.
BjdataHalf(in, i) ==
    IF i + 2 > Len(in) THEN Failed(Len(in) + 1)
    ELSE Got(i + 2, <<"number_float", Half(in[i + 2], in[i + 1])>>)

UbjsonChar(in, i) == IF Byte(in, i + 1) \in 0 .. 127 THEN Got(i + 1, String(<<in[i + 1]>>)) ELSE Failed(i + 1)

get_ubjson_value(f, in, i, prefix) ==
    CASE prefix \in {84, 70} -> Got(i, Boolean(prefix = 84))
      [] prefix = 90 -> Got(i, Null)
      [] prefix \in DOMAIN IntegerTypes(f) ->
           LET type == IntegerTypes(f)[prefix] IN
           As(IF type.signed THEN "number_integer" ELSE "number_unsigned", get_number(f, in, i, type))
      [] prefix = 104 /\ f.format = "bjdata" -> BjdataHalf(in, i)
      [] prefix = 100 -> Float32(f, in, i)
      [] prefix = 68 -> Float64(f, in, i)
      [] prefix = 72 -> get_ubjson_high_precision_number(f, in, i)
      [] prefix = 67 -> UbjsonChar(in, i)
      [] prefix = 83 -> As("string", get_ubjson_string(f, in, i + 1))
      [] prefix = 91 -> get_ubjson_array(f, in, i)
      [] prefix = 123 -> get_ubjson_object(f, in, i)
      [] OTHER -> Failed(i)
-----------------------------------------------------------------------------
ReadValue(f, in, i, prefix) ==
    CASE f.format = "cbor" -> parse_cbor_internal(f, in, i)
      [] f.format = "msgpack" -> parse_msgpack_internal(f, in, i)
      [] IsUbjson(f) -> get_ubjson_value(f, in, i, prefix)

ReadKey(f, in, i) ==
    CASE f.format = "cbor" -> get_cbor_string(f, in, i)
      [] f.format = "msgpack" -> get_msgpack_string(f, in, i)
      [] IsUbjson(f) -> get_ubjson_string(f, in, i)
-----------------------------------------------------------------------------
(* BSON.                                                                    *)
RECURSIVE get_bson_cstr(_, _, _)
\* The bytes up to the next NUL.
get_bson_cstr(in, i, before) ==
    CASE Byte(in, i + 1) = Eof -> Failed(i + 1)
      [] Byte(in, i + 1) = 0 -> Got(i + 1, before)
      [] OTHER -> get_bson_cstr(in, i + 1, Append(before, in[i + 1]))

\* A length that counts a NUL at the end.
get_bson_string(in, len) ==
    LET Ended(text) == IF Byte(in, text.at + 1) = Eof THEN Failed(text.at + 1) ELSE Got(text.at + 1, text.value)
    IN  Then(len, LAMBDA n : IF n.value < 1 THEN Failed(n.at) ELSE Then(get_string(in, n.at, n.value - 1), Ended))

get_bson_binary(f, in, len) ==
    Then(len, LAMBDA n :
        IF n.value < 0 THEN Failed(n.at)
        ELSE Then(get_number(f, in, n.at, UnsignedOf(1)), LAMBDA subtype :
                 Then(get_string(in, subtype.at, n.value), LAMBDA bytes :
                     Got(bytes.at, Binary(bytes.value, subtype.value)))))

RECURSIVE parse_bson_element_list(_, _, _, _)

\* The size is read and not used.
parse_bson_internal(f, in, i) == parse_bson_element_list(f, in, get_number(f, in, i, SignedOf(3)).at, Object(NoMembers))

parse_bson_array(f, in, i) == parse_bson_element_list(f, in, get_number(f, in, i, SignedOf(3)).at, Array(<<>>))

parse_bson_element_internal(f, in, i, element_type) ==
    LET length == get_number(f, in, i, SignedOf(3))
    IN  CASE element_type = 1 -> Float64(f, in, i)
          [] element_type = 2 -> As("string", get_bson_string(in, length))
          [] element_type = 3 -> parse_bson_internal(f, in, i)
          [] element_type = 4 -> parse_bson_array(f, in, i)
          [] element_type = 5 -> get_bson_binary(f, in, length)
          [] element_type = 8 -> Got(i + 1, Boolean(Byte(in, i + 1) # 0))
          [] element_type = 10 -> Got(i, Null)
          [] element_type = 16 -> Signed(f, in, i, 3)
          [] element_type = 18 -> Signed(f, in, i, 4)
          [] OTHER -> Failed(i)

\* Elements up to a NUL; the keys of an array are not used.
parse_bson_element_list(f, in, i, before) ==
    LET element_type == Byte(in, i + 1)
        After(key, v) == IF before[1] = "array" THEN Array(Append(before[2], v.value))
                         ELSE Object(With(before[2], key.value, v.value))
    IN  CASE element_type = 0 -> Got(i + 1, before)
          [] element_type = Eof -> Failed(i + 1)
          [] OTHER -> Then(get_bson_cstr(in, i + 1, <<>>), LAMBDA key :
                          Then(parse_bson_element_internal(f, in, key.at, element_type), LAMBDA v :
                              parse_bson_element_list(f, in, v.at, After(key, v))))
-----------------------------------------------------------------------------
\* binary_reader::sax_parse, strict: a value and nothing after it.
sax_parse(f, in) ==
    Then(IF f.format = "bson" THEN parse_bson_internal(f, in, 0) ELSE Element(f, in, 0, 0), LAMBDA v :
        IF Byte(in, Start(f, in, v.at)) # Eof THEN Failed(Start(f, in, v.at)) ELSE v)
=============================================================================
