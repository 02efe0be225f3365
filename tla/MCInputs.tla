------------------------------ MODULE MCInputs ------------------------------
EXTENDS Inputs

MCSymbol == STRING

MCStart(method, path, version) == <<method, "SP", path, "SP", version>> \o CRLF

MCMain == {MCStart("POST", "/tab", "HTTP/1.1"), MCStart("HEAD", "/add/2d", "HTTP/1.1")}

\* Every method and path, and what is no start line of a request.
MCStartLines ==
    MCMain
    \cup {MCStart(m, p, "HTTP/1.1") : m \in {"GET", "get", "HEAD", "POST", "PUT"},
                                      p \in {"/VARS", "/tab", "/add/2d", "/func/2d", "/none"}}
    \cup {MCStart("GET", "/vars", "http/1.1"), MCStart("GET", "/vars", "HTTP/2"), MCStart("FOO", "/vars", "HTTP/1.1"),
          <<"GET", "SP", "/vars">>, <<"GET", "SP", "/vars">> \o CRLF, <<"SP", "GET", "SP", "SP", "/vars", "SP", "HTTP/1.1">> \o CRLF,
          CRLF}

MCFields == {<< <<"k">>, <<"SP", "a", "b">> >>, << <<"k">>, <<"c", ":", "SP", "d">> >>, << <<"SP", "l">>, <<>> >>,
             << ContentLength, <<"9">> >>}

\* A number that no int holds.
MCNines == [i \in 1 .. 10 |-> "9"]

MCOthers == {CRLF, <<"colonless">> \o CRLF, <<"points">>, <<"other">>, <<"SP", "1", "points">>,
             <<"9">>, MCNines, <<"NUL">>, <<"LF">>}

MCJsonTokens ==
    {<<t, 0>> : t \in {"literal_null", "begin_array", "end_array", "begin_object", "end_object",
                       "name_separator", "value_separator"}}
    \cup {<<"value_string", <<97>> >>, <<"value_string", <<98>> >>, <<"value_float", <<FALSE, -1, 0>> >>}

\* + - . 0 1 7 e
MCNumberBytes == {43, 45, 46, 48, 49, 55, 101}

MCEscape(digits) == <<92, 117>> \o digits

\* Bytes at both ends of every range of the lexer, the escapes, and
\* surrogates and their neighbours.
MCStringPieces ==
    {<<b>> : b \in {1, 10, 31, 32, 34, 92, 110, 127, 128, 143, 144, 159, 160, 191, 192, 193, 194, 223, 224, 225,
                    236, 237, 238, 239, 240, 241, 243, 244, 245, 255}}
    \cup {<<92, 110>>, <<92, 34>>, <<92, 117, 48, 48>>, <<97, 97, 97, 97>>,
          MCEscape(<<68, 55, 70, 70>>), MCEscape(<<100, 56, 48, 48>>), MCEscape(<<68, 66, 70, 70>>),
          MCEscape(<<68, 67, 48, 48>>), MCEscape(<<68, 70, 102, 102>>), MCEscape(<<69, 48, 48, 48>>),
          MCEscape(<<48, 48, 56, 48>>), MCEscape(<<48, 56, 48, 48>>)}

MCFloats == {<<FALSE, 0, 0>>, <<TRUE, 0, 0>>, <<FALSE, 1, 0>>, <<TRUE, 12, -1>>, <<FALSE, 105, -2>>, <<FALSE, 105, -4>>,
             <<FALSE, 1, -4>>, <<FALSE, 1, 2>>, <<FALSE, 1, 3>>, <<TRUE, 105, 1>>, <<FALSE, 10501, -3>>, <<FALSE, -1, 0>>}

MCScalars ==
    {Null, Boolean(TRUE), Boolean(FALSE), String(<<>>), String(<<34, 92, 10, 1>>), String(<<195, 169>>), String(<<128>>)}
    \cup {<<"number_unsigned", n>> : n \in {0, 9, 10, 99, 100, 999, 1000, 9999, 10000, 10011}}
    \cup {<<"number_integer", n>> : n \in {7, -1, -10, -1011}}
    \cup {<<"number_float", f>> : f \in MCFloats}

MCObjectKeys == {<<97>>, <<97, 98>>, <<255>>}

\* CBOR with each way to treat a tag, UBJSON and BJData with each way to
\* write a container.
MCCase(format, tags, count, type) ==
    <<[format |-> format, tags |-> tags], [bjdata |-> format = "bjdata", count |-> count, type |-> type]>>

MCFormats ==
    {MCCase("cbor", t, FALSE, FALSE) : t \in {"error", "ignore", "store"}}
    \cup {MCCase(f, "error", FALSE, FALSE) : f \in {"msgpack", "bson"}}
    \cup {MCCase(f, "error", o[1], o[2]) : f \in {"ubjson", "bjdata"},
                                          o \in {<<FALSE, FALSE>>, <<TRUE, FALSE>>, <<TRUE, TRUE>>}}

MCBytes(bytes) == {<<b>> : b \in bytes}

\* The first bytes of types, lengths and what follows them.
MCFormatBytes(f) ==
    CASE f.format = "cbor" ->
             MCBytes({0, 1, 24, 25, 27, 56, 59, 64, 65, 88, 95, 97, 127, 129, 159, 161, 191, 193, 216, 217, 246, 249,
                      250, 251, 255})
             \cup {<<97, 65>>, <<65, 66>>, <<0, 0>>, <<127, 127, 127, 127>>, <<0, 0, 0, 1>>}
      [] f.format = "msgpack" ->
             MCBytes({0, 1, 127, 129, 145, 161, 192, 193, 196, 199, 202, 204, 205, 207, 208, 209, 212, 213, 217, 220,
                      222, 224, 255})
             \cup {<<161, 65>>, <<0, 0>>, <<127, 127, 127, 127>>, <<0, 0, 0, 1>>}
      [] IsUbjson(f) ->
             MCBytes({0, 1, 2, 90, 84, 105, 85, 100, 67, 83, 91, 93, 123, 125, 78})
             \cup {<<91, 36>>, <<123, 36>>, <<91, 35>>, <<35, 105>>, <<105, 1>>, <<105, 1, 65>>, <<0, 0>>}
             \cup IF f.format = "ubjson" THEN MCBytes({73, 76, 72, 49}) \cup {<<35, 105, 2>>, <<91, 36, 105, 35, 105, 1>>, <<105, 3, 49, 46, 53>>}
                  ELSE MCBytes({117, 109, 104}) \cup {<<35, 91, 105, 2, 105, 1, 93>>, <<35, 91, 36, 105, 35, 105, 2, 2, 2>>,
                                                      <<35, 91, 105, 1, 105, 2, 93>>, <<1, 2>>}
      [] f.format = "bson" ->
             MCBytes({0, 127}) \cup {<<t, 65, 0>> : t \in {1, 2, 3, 4, 5, 8, 10, 16, 18}}
             \cup {<<9, 0, 0>>, <<10, 0>>, <<1, 0, 0>>, <<0, 0, 0>>, <<0, 0, 64>>, <<65, 0>>, <<2, 0, 0, 65, 0>>}

MCMaxBytes(f) == IF f.format \in {"bson", "bjdata"} THEN 4 ELSE 3

\* Integers at the ends of the types, each of which has a digit more.
MCIntegers ==
    {0, 23, 24, 31, 32, 63, 64, 127, 128, 255, 8191, 8192, 16383, 16384, 128 ^ 3 \div 2 - 1, 128 ^ 3 \div 2,
     128 ^ 3 - 1, 128 ^ 3, 128 ^ 4 \div 2 - 1}

MCRepeated(n, x) == [i \in 1 .. n |-> x]

MCAnnotated(type, sizes, data) ==
    LET numbers(ns) == Array([i \in DOMAIN ns |-> <<"number_integer", ns[i]>>])
    IN  Object(ArrayType :> String(type) @@ ArraySize :> numbers(sizes) @@ ArrayData :> numbers(data))

MCDataValues ==
    {Null, Boolean(TRUE), Boolean(FALSE), Array(<<>>), Object(NoMembers), MCAnnotated(<<105>>, <<2, 2>>, <<1, 2, 3, -4>>),
     MCAnnotated(<<105>>, <<2, 2>>, <<1, 2, 3>>), MCAnnotated(<<0>>, <<2>>, <<1, 2>>)}
    \cup {String(MCRepeated(n, 65)) : n \in {0, 1, 24, 32, 128}}
    \cup {Array(MCRepeated(n, Null)) : n \in {15, 16, 24}}
    \cup {<<"number_unsigned", n>> : n \in MCIntegers \cup {128 ^ 4 \div 2, 128 ^ 4 - 1}}
    \cup {<<"number_integer", n>> : n \in MCIntegers \cup {-1 - n : n \in MCIntegers}}
    \cup {<<"number_float", p>> : p \in {0, 128, 129, Nan, Inf, MinusInf}}
    \cup {Binary(MCRepeated(n, 5), s) : n \in {0, 1, 3, 16, 17, 24}, s \in {-1, 0, 127, 128}}

MCNeighbours == {Null, <<"number_integer", -1>>}

\* a, 0, ~1, and 0!, which is before 0/ in the order of the texts.
MCPatchKeys == {<<97>>, <<48>>, <<126, 49>>, <<48, 33>>}

MCPatchScalars ==
    {Null, <<"number_unsigned", 1>>, <<"number_integer", 1>>, <<"number_float", <<FALSE, 1, 0>> >>, Array(<<>>), Object(NoMembers)}

\* None, a 0 1 - 01 ~/, and the number that no size is.
MCPointerTokens == {<<>>, <<97>>, <<48>>, <<49>>, <<45>>, <<48, 49>>, <<126, 47>>, Digits(Npos)}

\* Everything kept; one event refused at one depth; combinations.
MCCallbacks ==
    LET a == String(<<97>>)
        b == String(<<98>>)
    IN  {{<<event, depth, {}>>} : depth \in 0 .. 2,
            event \in {"object_start", "object_end", "array_start", "array_end", "key", "value"}}
        \cup {{<<"key", 1, {a}>>}, {<<"value", 1, {b, Null}>>}, {<<"value", 2, {Null}>>},
              {<<"key", 1, {a}>>, <<"object_end", 1, {}>>}, {<<"value", 1, {}>>, <<"array_end", 1, {}>>},
              {<<"key", 2, {b}>>, <<"value", 2, {a}>>, <<"array_start", 1, {}>>}}

\* Both ends of each length of UTF-8, of the surrogates and of Unicode.
MCWideUnits == {32, 127, 128, 2047, 2048, 55295, 55296, 56319, 56320, 57343, 57344, 65535, 65536, 1114111, 1114112}

\* / * // /* */ LF NUL 1 "
MCCommentPieces == {<<47>>, <<42>>, <<47, 47>>, <<47, 42>>, <<42, 47>>, <<10>>, <<0>>, <<49>>, <<34>>}

MCkAlpha == -10
MCkGamma == -6
MCkCachedPowersMinDecExp == -4

MCPointValues ==
    LET one == <<"number_unsigned", 1>>
        a == String(<<44, 32>>)
    IN  {Null, one, a, Array(<<>>), Array(<<one>>), Array(<<one, one>>), Array(<<one, one, one>>), Array(<<Null, one>>),
         Array(<<one, a>>), Array(<<a, one>>), Array(<<a, Null, one>>), Array(<<a, a, a, one>>), Object(<<97>> :> one),
         Array(<<Array(<<one>>), Boolean(TRUE), Array(<<>>)>>), Array(<< <<"number_float", <<FALSE, 1, 0>> >>, one>>)}

MCTableNumbers == {-16, -10, -8, -7, -3, -1, 0, 1, 2, 3, 4, 7, 8, 10, 16, 28}

MCMinInteger == -1011

MCMinExp == -2

MCCalcLines == {<<>>, <<"x">>, <<"(">>, <<")">>, <<"(", "x">>, <<"?">>}

MCRect(left, top, width, height) == [left |-> left, top |-> top, width |-> width, height |-> height]

\* Exact and between units, flat, upside down, beyond the limits.
MCRects == {MCRect(-9, 9, 18, -18), MCRect(-8, 10, 1, -2), MCRect(4, -4, 2, -1), MCRect(-35, 35, 40, -34), MCRect(-9, -9, 18, 18)}

MCBoxValues == {-31, -1, 0, 2, 31}
=============================================================================
