------------------------------- MODULE Inputs -------------------------------
(***************************************************************************)
(* The parts of the program that are functions of a text, a tree or a      *)
(* sequence of events, each compared with a reference that says what its   *)
(* result should be.  The state is one input of one kind, which grows by a *)
(* piece at a time from the sets given as constants.                       *)
(***************************************************************************)
EXTENDS Requests, Events, Points, Table, JsonLaws, JsonFloat, JsonInput

CONSTANTS
    JsonTokens, NumberBytes, StringPieces, Scalars, ObjectKeys, PointValues,
    TableNumbers,
    Formats, FormatBytes(_),    \* <<format, options of its writer>>; bytes of a format
    DataValues, Neighbours, PatchScalars, PatchKeys, PointerBytes,
    Callbacks, WideUnits, CommentPieces,
    MaxData, MaxBytes(_), MaxDocument, MaxPair, MaxPointer,
    MaxTokens, MaxNumber, MaxString, MaxValue, MaxPoints,
    MaxBiased, MaxWide, MaxComment     \* bounds

Init ==
    \/ EventsInit \/ RequestsInit
    \/ /\ input = <<>>
       /\ kind \in {"tokens", "number", "string", "points", "table", "pointer", "wide", "comment"}
    \/ kind = "value" /\ input \in {<<v, 1>> : v \in Scalars \cup {Array(<<>>), Object(NoMembers)}}
    \/ kind = "data" /\ input \in {<<v, 1>> : v \in DataValues}
    \/ kind = "bytes" /\ input \in {<<c[1], <<>> >> : c \in Formats}
    \/ kind = "float" /\ input \in ((0 .. MaxBiased) \X (0 .. 2 ^ (Significand - 1) - 1)) \ {<<0, 0>>}
    \/ kind = "document" /\ input \in {<<v, 1>> : v \in PatchScalars}
    \/ kind = "pair" /\ input \in {<<v, w, 1>> : v, w \in PatchScalars}

\* Nothing follows what the parser has refused.
GrowTokens == Grow("tokens", JsonTokens, MaxTokens) /\ Parser(input).mode # "error"

\* Nothing follows a number that has ended.
GrowNumber ==
    /\ Grow("number", NumberBytes, MaxNumber)
    /\ FoldLeft(NumberStep, "init", input) \notin {"done", "error"}

\* A code point that has begun may be completed.
GrowString ==
    /\ kind = "string"
    /\ LET state == dump_escaped(FlattenSeq(input)).state IN
       Grow("string", StringPieces, IF state \in {Accept, Reject} THEN MaxString ELSE MaxString + 2)

\* A value as part of another, or with another one beside it.
Grown(v, scalars, keys) ==
    {Array(<<v>>)} \cup {Object(k :> v) : k \in keys}
    \cup {Array(Append(v[2], w)) : w \in IF v[1] = "array" THEN scalars ELSE {}}
    \cup {Object(With(v[2], k, w)) : k \in keys, w \in IF v[1] = "object" THEN scalars ELSE {}}

\* The second component counts the parts of the value.
GrowKind(k, scalars, keys, max) ==
    /\ kind = k /\ input[2] < max
    /\ \E next \in Grown(input[1], scalars, keys) : input' = <<next, input[2] + 1>>
    /\ UNCHANGED kind

GrowValue == GrowKind("value", Scalars, ObjectKeys, MaxValue)

GrowDocument == GrowKind("document", PatchScalars, PatchKeys, MaxDocument)

GrowPair ==
    /\ kind = "pair" /\ input[3] < MaxPair
    /\ \/ \E v \in Grown(input[1], PatchScalars, PatchKeys) : input' = <<v, input[2], input[3] + 1>>
       \/ \E v \in Grown(input[2], PatchScalars, PatchKeys) : input' = <<input[1], v, input[3] + 1>>
    /\ UNCHANGED kind

\* A value alone in an array, beside itself, and beside values of other types.
GrowData ==
    /\ kind = "data" /\ input[2] < MaxData
    /\ LET v == input[1] IN
       \E w \in {v} \cup Neighbours : \E k \in ObjectKeys :
          \E next \in {Array(<<v>>), Array(<<v, w>>), Object(k :> v), Object(<<65>> :> v @@ <<66>> :> w)} :
             input' = <<next, input[2] + 1>>
    /\ UNCHANGED kind

\* Bytes are added while the reader runs out of them.
GrowBytes ==
    /\ kind = "bytes" /\ Len(input[2]) < MaxBytes(input[1])
    /\ LET in == FlattenSeq(input[2]) IN RanOut(sax_parse(input[1], in), Len(in))
    /\ \E p \in FormatBytes(input[1]) : input' = <<input[1], Append(input[2], p)>>
    /\ UNCHANGED kind

GrowPointer == Grow("pointer", PointerBytes, MaxPointer)

GrowWide == Grow("wide", WideUnits, MaxWide)

GrowComment == Grow("comment", CommentPieces, MaxComment)

GrowPoints == Grow("points", PointValues, MaxPoints)

GrowTable == Grow("table", TableNumbers, 3)

Next ==
    \/ GrowTokens \/ GrowNumber \/ GrowString \/ GrowValue \/ GrowPoints
    \/ GrowData \/ GrowBytes \/ GrowDocument \/ GrowPair \/ GrowPointer
    \/ GrowWide \/ GrowComment
    \/ GrowTable \/ RequestsNext \/ EventsNext

Spec == Init /\ [][Next]_vars
-----------------------------------------------------------------------------
(* JSON: the grammars of RFC 8259 and of Unicode as sets of derivations.    *)
Inner(ts) == SubSeq(ts, 2, Len(ts) - 1)

Enclosed(ts, first, last) == Len(ts) > 1 /\ ts[1][1] = first /\ Last(ts)[1] = last

Commas(ts) == {i \in DOMAIN ts : ts[i][1] = "value_separator"}

RECURSIVE Values(_), Lists(_), Members(_)

\* The values that a sequence of tokens is derived from.
Values(ts) ==
    {Scalar(t) : t \in {t \in Range(ts) : Len(ts) = 1 /\ IsScalar(t)}}
    \cup (IF Enclosed(ts, "begin_array", "end_array")
          THEN {Array(vs) : vs \in IF Len(ts) = 2 THEN {<<>>} ELSE Lists(Inner(ts))} ELSE {})
    \cup (IF Enclosed(ts, "begin_object", "end_object")
          THEN {Object(map) : map \in IF Len(ts) = 2 THEN {NoMembers} ELSE Members(Inner(ts))} ELSE {})

\* One value or more, with commas between them.
Lists(ts) ==
    {<<v>> : v \in Values(ts)}
    \cup UNION {{<<v>> \o rest : v \in Values(SubSeq(ts, 1, i - 1)),
                                 rest \in Lists(SubSeq(ts, i + 1, Len(ts)))} : i \in Commas(ts)}

\* One member or more; of members with the same name the last counts.
Members(ts) ==
    LET member(m) == IF Len(m) > 2 /\ m[1][1] = "value_string" /\ m[2][1] = "name_separator"
                     THEN Values(SubSeq(m, 3, Len(m))) ELSE {}
    IN  {m @@ (ts[1][2] :> v) : m \in {NoMembers}, v \in member(ts)}
        \cup UNION {{rest @@ (ts[1][2] :> v) : v \in member(SubSeq(ts, 1, i - 1)),
                                               rest \in Members(SubSeq(ts, i + 1, Len(ts)))} : i \in Commas(ts)}

RECURSIVE Filtered(_, _, _), WithoutDiscarded(_)

\* What a callback leaves of the value that tokens are derived from.
Filtered(c, ts, depth) ==
    LET inner == Inner(ts)
        level(i) == Cardinality({j \in 1 .. i : inner[j][1] \in {"begin_array", "begin_object"}})
                    - Cardinality({j \in 1 .. i : inner[j][1] \in {"end_array", "end_object"}})
        cuts == SetToSortSeq({i \in Commas(inner) : level(i) = 0} \cup {0, Len(inner) + 1}, <)
        parts == IF inner = <<>> THEN <<>> ELSE [i \in 1 .. Len(cuts) - 1 |-> SubSeq(inner, cuts[i] + 1, cuts[i + 1] - 1)]
        values == [i \in DOMAIN parts |-> Filtered(c, parts[i], depth + 1)]
        member(map, part) ==
            IF Keeps(c, "key", depth + 1, String(part[1][2]))
            THEN With(map, part[1][2], Filtered(c, SubSeq(part, 3, Len(part)), depth + 1)) ELSE map
        members == FoldLeft(member, NoMembers, parts)
        scalar == Scalar(ts[1])
        kept(start, end) == Keeps(c, start, depth, Discarded) /\ Keeps(c, end, depth, Discarded)
    IN  CASE IsScalar(ts[1]) /\ Keeps(c, "value", depth, scalar) -> scalar
          [] ts[1][1] = "begin_array" /\ kept("array_start", "array_end") ->
                Array(SelectSeq(values, LAMBDA v : v # Discarded))
          [] ts[1][1] = "begin_object" /\ kept("object_start", "object_end") ->
                Object([k \in {k \in DOMAIN members : members[k] # Discarded} |-> members[k]])
          [] OTHER -> Discarded

\* A value without the discarded members that are left in its objects.
WithoutDiscarded(v) ==
    CASE v[1] = "array" -> Array([i \in DOMAIN v[2] |-> WithoutDiscarded(v[2][i])])
      [] v[1] = "object" -> Object([k \in {k \in DOMAIN v[2] : v[2][k] # Discarded} |-> WithoutDiscarded(v[2][k])])
      [] OTHER -> v

\* The parser, a loop with a stack and no recursion, accepts the tokens
\* that the grammar derives, and no others, and builds the value that they
\* are derived from.  With a callback it builds what the callback leaves of
\* that value, but for discarded members that are left in an object.
ParserAcceptsGrammar ==
    kind = "tokens" =>
        LET tokens == Append(input, <<"end_of_input", 0>>)
        IN  /\ Values(input) = IF Accepts(tokens) THEN {Parser(tokens).root} ELSE {}
            /\ Values(input) = {} => parse_filtered({}, tokens) = Discarded
            /\ Values(input) # {} => parse_filtered({}, tokens) = Parser(tokens).root
            /\ Values(input) # {} => \A c \in Callbacks :
                  WithoutDiscarded(parse_filtered(c, tokens))
                  = LET left == Filtered(c, input, 0) IN IF left = Discarded THEN Null ELSE left

Digital(s) == s # <<>> /\ Range(s) \subseteq Digit

\* number = [ minus ] int [ frac ] [ exp ]: the ways to read s so, as the
\* digits before and after the point and the exponent.
Readings(s) ==
    LET body == IF Byte(s, 1) = Minus THEN Tail(s) ELSE s
        n == Len(body)
        cuts == {c \in (0 .. n) \X (0 .. n) : c[1] <= c[2]}
        int(c) == SubSeq(body, 1, c[1])
        frac(c) == SubSeq(body, c[1] + 1, c[2])
        exp(c) == SubSeq(body, c[2] + 1, n)
        digits(e) == IF Byte(e, 2) \in {Plus, Minus} THEN SubSeq(e, 3, Len(e)) ELSE Tail(e)
    IN  {[negative |-> body # s, integer |-> c[1] = n, number |-> Natural(int(c) \o SelectSeq(frac(c), LAMBDA b : b # Dot)),
          power |-> (IF exp(c) = <<>> THEN 0 ELSE (IF exp(c)[2] = Minus THEN -1 ELSE 1) * Natural(digits(exp(c))))
                    - (IF frac(c) = <<>> THEN 0 ELSE Len(frac(c)) - 1)] :
         c \in {c \in cuts : /\ Digital(int(c)) /\ (int(c)[1] = Zero => c[1] = 1)
                             /\ frac(c) # <<>> => frac(c)[1] = Dot /\ Digital(Tail(frac(c)))
                             /\ exp(c) # <<>> => exp(c)[1] \in E /\ Digital(digits(exp(c)))}}

\* number * 10^power, or what is left of it beyond the range of a double.
Means(f, r) ==
    LET size == Len(ToString(r.number)) + r.power
    IN  /\ f[1] = r.negative
        /\ CASE r.number = 0 \/ size < -MaxExponent -> f[2] = 0
             [] r.number # 0 /\ size > MaxExponent -> f[2] = -1
             [] OTHER -> f[2] % 10 # 0 /\ f[3] >= r.power /\ f[2] * 10 ^ (f[3] - r.power) = r.number

\* The labels of scan_number take exactly the numbers of the grammar; the
\* token has their value: an integer type if it holds it, else a float.
NumbersExact ==
    kind = "number" /\ Byte(input, 1) \in Digit \cup {Minus} =>
        LET r == scan_number(input, 1)
            whole == r.token[1] # "parse_error" /\ r.next = Len(input) + 1
        IN  /\ whole <=> Readings(input) # {}
            /\ \A reading \in Readings(input) :
                  LET n == reading.number
                      fits == IF reading.negative THEN -n >= MinInteger ELSE n <= MaxUnsigned
                  IN  CASE reading.integer /\ fits ->
                             r.token = IF reading.negative THEN <<"value_integer", -n>> ELSE <<"value_unsigned", n>>
                        [] OTHER -> r.token[1] = "value_float" /\ Means(r.token[2], reading)

\* A code point from its bytes, and whether those are its only UTF-8 form.
CodePoint(b) ==
    LET tail(i) == b[i] - 128
    IN  CASE Len(b) = 1 -> b[1]
          [] Len(b) = 2 -> (b[1] - 192) * 64 + tail(2)
          [] Len(b) = 3 -> ((b[1] - 224) * 64 + tail(2)) * 64 + tail(3)
          [] Len(b) = 4 -> (((b[1] - 240) * 64 + tail(2)) * 64 + tail(3)) * 64 + tail(4)

ScalarValue(c) == c \in 0 .. 1114111 /\ c \notin 55296 .. 57343

IsUtf8Char(b) == b # <<>> /\ ScalarValue(CodePoint(b)) /\ Utf8(CodePoint(b)) = b

RECURSIVE IsUtf8(_)
IsUtf8(s) == s = <<>> \/ \E n \in 1 .. Min({4, Len(s)}) : IsUtf8Char(SubSeq(s, 1, n)) /\ IsUtf8(From(s, n + 1))

\* Four digits from i on, as a set of at most one number.
CodeUnit(s, i) ==
    IF i + 3 <= Len(s) /\ Range(SubSeq(s, i, i + 3)) \subseteq Digit \cup 65 .. 70 \cup 97 .. 102
       /\ s[i - 1] = 117 /\ s[i - 2] = Backslash
    THEN {FoldLeft(LAMBDA n, c : 16 * n + Hex(c), 0, SubSeq(s, i, i + 3))} ELSE {}

RECURSIVE Denoted(_)
\* What the characters between two quotes stand for: none or one string.
Denoted(s) ==
    LET rest(bytes, n) == {bytes \o t : t \in Denoted(From(s, n + 1))}
        plain(n) == LET c == SubSeq(s, 1, n) IN
                    IF n <= Len(s) /\ IsUtf8Char(c) /\ c[1] > 31 /\ c[1] \notin {Quote, Backslash} THEN rest(c, n) ELSE {}
        short == IF Len(s) > 1 /\ s[1] = Backslash /\ s[2] \in DOMAIN Escaped THEN rest(<<Escaped[s[2]]>>, 2) ELSE {}
        unit == UNION {rest(Utf8(c), 6) : c \in {c \in CodeUnit(s, 3) : ScalarValue(c)}}
        pair == UNION {rest(Utf8(65536 + 1024 * (c[1] - 55296) + c[2] - 56320), 12) :
                          c \in {c \in CodeUnit(s, 3) \X (IF Len(s) < 12 THEN {} ELSE CodeUnit(s, 9)) :
                                    c[1] \in High /\ c[2] \in Low}}
    IN  IF s = <<>> THEN {<<>>} ELSE UNION {plain(n) : n \in 1 .. 4} \cup short \cup unit \cup pair

\* Strings are accepted as the grammar has them, and read as UTF-8.
StringsExact ==
    kind = "string" =>
        LET s == Text
            r == scan_string(Append(s, Quote), 1, <<>>)
            whole == r.token[1] = "value_string" /\ r.next = Len(s) + 2
        IN  Denoted(s) = IF whole THEN {r.token[2]} ELSE {}

RECURSIVE CodePoints(_)
\* What UTF-16 stands for: one sequence of code points, or none if some
\* surrogate has no other half.
CodePoints(units) ==
    LET rest(c, n) == {<<c>> \o t : t \in CodePoints(From(units, n + 1))}
    IN  CASE units = <<>> -> {<<>>}
          [] Byte(units, 1) \in 0 .. 65535 /\ ScalarValue(units[1]) -> rest(units[1], 1)
          [] Byte(units, 1) \in High /\ Byte(units, 2) \in Low ->
                rest(65536 + 1024 * (units[1] - 55296) + units[2] - 56320, 2)
          [] OTHER -> {}

\* Wide characters are read as UTF-8.  UTF-32 with a number that is no code
\* point is refused in a string; of UTF-16 only a last lone surrogate is.
WideExact ==
    kind = "wide" =>
        LET utf8(cs) == FlattenSeq([i \in DOMAIN cs |-> Utf8(cs[i])])
            quoted(size) == scan_string(wide_string(size, Append(input, Quote)), 1, <<>>).token
            half(i) == input[i] \in 55296 .. 57343
        IN  /\ quoted(4) = IF \A c \in Range(input) : ScalarValue(c) THEN <<"value_string", utf8(input)>>
                           ELSE <<"parse_error", 0>>
            /\ \A cs \in CodePoints(input) : quoted(2) = <<"value_string", utf8(cs)>>
            /\ (/\ input # <<>> /\ (\A c \in Range(input) : c < 65536)
                /\ half(Len(input)) /\ (Len(input) > 1 => ~half(Len(input) - 1)))
                  => quoted(2) = <<"parse_error", 0>>

RECURSIVE Uncommented(_)
\* A text with a space for each comment, up to a NUL or the / of what is no
\* comment.  There are none in a string.
Uncommented(s) ==
    LET after(i) == Uncommented(From(s, i + 1))
        line == Min({i \in DOMAIN s : s[i] \in {0, 10, 13}} \cup {Len(s)})
        blocks == {i \in 4 .. Len(s) : s[i - 1] = 42 /\ s[i] = 47 /\ 0 \notin Range(SubSeq(s, 1, i))}
        quote == Min({i \in 2 .. Len(s) : s[i] = Quote} \cup {Len(s)})
    IN  CASE s = <<>> \/ Byte(s, 1) = 0 -> <<>>
          [] Byte(s, 1) = Quote -> SubSeq(s, 1, quote) \o after(quote)
          [] Byte(s, 1) = 47 /\ Byte(s, 2) = 47 -> <<32>> \o after(line)
          [] Byte(s, 1) = 47 /\ Byte(s, 2) = 42 /\ blocks # {} -> <<32>> \o after(Min(blocks))
          [] Byte(s, 1) = 47 /\ (Byte(s, 2) \notin {42, 47} \/ (Byte(s, 2) = 42 /\ blocks = {})) -> <<47>>
          [] OTHER -> <<s[1]>> \o after(1)

CommentsIgnored == kind = "comment" => TokensIgnoring(Text, 1) = Tokens(Uncommented(Text))

\* A number is taken if and only if the grammar has it, and is never an
\* integer that wrapped: what does not fit becomes a float.  A string is
\* taken if and only if it is UTF-8 in its shortest form, without control
\* characters, and its surrogates come in pairs; it is read as the UTF-8
\* that it denotes, escapes included, and so are wide characters.  Comments,
\* where they are allowed, are as good as a space.
LexerExact == NumbersExact /\ StringsExact /\ WideExact /\ CommentsIgnored

RECURSIVE Strings(_), Read(_)

\* The strings in a value, keys included.
Strings(v) ==
    CASE v[1] = "string" -> {v[2]}
      [] v[1] = "array" -> UNION {Strings(w) : w \in Range(v[2])}
      [] v[1] = "object" -> DOMAIN v[2] \cup UNION {Strings(w) : w \in Range(v[2])}
      [] OTHER -> {}

\* What is left of a value in a text: integers know their sign only, and
\* what is not finite is null.
Read(v) ==
    CASE v[1] = "array" -> Array([i \in DOMAIN v[2] |-> Read(v[2][i])])
      [] v[1] = "object" -> Object([k \in DOMAIN v[2] |-> Read(v[2][k])])
      [] v[1] = "number_integer" -> <<IF v[2] < 0 THEN "number_integer" ELSE "number_unsigned", v[2]>>
      [] v[1] = "number_float" -> IF v[2][2] = -1 THEN Null ELSE v
      [] OTHER -> v

Ieee ==
    INSTANCE JsonFloat WITH kPrecision <- 64, Significand <- 53, kBias <- 1075, kAlpha <- -60, kGamma <- -32,
        kCachedPowersMinDecExp <- -300, kCachedPowersDecStep <- 8, kCachedPowersSize <- 79

\* The table has a power of ten for each exponent that a double may have.
TableSuffices == \A exponent \in -1137 .. 960 : Ieee!InTable(exponent)

\* low * 2^y < n * 10^x < high * 2^y
Between(low, n, x, high, y) ==
    LET power(base, z) == IF z > 0 THEN base ^ z ELSE 1
        number == n * power(10, x) * power(2, -y)
        unit == power(10, -x) * power(2, y)
    IN  low * unit < number /\ number < high * unit

\* The digits of a float are a number nearer to it than to any other, and
\* no more than that needs, up to the margin that Grisu2 takes off; nothing
\* wraps, and what the code asserts on its way is true.
FloatExact ==
    kind = "float" =>
        LET r == grisu2(input[1], input[2])
            v == Value(input[1], input[2])
            n == FoldLeft(LAMBDA m, d : 10 * m + d, 0, r.digits)
            below == 16 * v.f - IF LowerIsCloser(input[1], input[2]) THEN 4 ELSE 8
            shorter == n \div 10
        IN  /\ r.holds /\ TableSuffices
            /\ Range(r.digits) \subseteq 0 .. 9 /\ Head(r.digits) # 0 /\ 10 ^ Len(r.digits) < 100 * 2 ^ Significand
            /\ Between(below, n, r.exponent, 16 * v.f + 8, v.e - 4)
            /\ Len(r.digits) > 1 => \A m \in {shorter, shorter + 1} :
                  ~Between(below + 1, m, r.exponent + 1, 16 * v.f + 7, v.e - 4)

\* What dump writes, parse reads as the same value, floats with and without
\* an exponent, escapes and the key order included; it throws if and only
\* if a string is not UTF-8, which an automaton decides, and its buffer is
\* never overrun.  The digits of a float are its own, and as few as can be.
DumpParses ==
    /\ FloatExact
    /\ kind = "value" =>
          LET v == input[1]
          IN  IF \A s \in Strings(v) : IsUtf8(s)
              THEN ~DumpThrows(v) /\ Accepts(Tokens(dump(v))) /\ parse(dump(v)) = Read(v)
              ELSE DumpThrows(v)
    /\ kind = "string" =>
          /\ dump_escaped(Text).state = Accept <=> IsUtf8(Text)
          /\ dump_escaped(Text).peak <= BufferSize
          /\ IsUtf8(Text) => parse(dump(String(Text))) = String(Text)

\* Points are answered, each under a key of its own, if and only if they
\* can be read: a point is an array, or null, and the coordinate that the
\* plot computes - y from x, x from y, the one of x, y and z that is no
\* parameter - is a number.  Coordinates that are missing are null.
PointsAnswered ==
    LET coordinate(p, i) == IF p[1] = "array" /\ Len(p[2]) >= i THEN p[2][i] ELSE Null
        keys(n) == {[i \in 1 .. n |-> Read(coordinate(p, i))] : p \in Range(input)}
        container(p) == p[1] \in {"array", "null"}
        number(p, i) == coordinate(p, i)[1] \notin {"null", "string", "array", "object"}
        right(answer, n, readable(_)) ==
            IF \A p \in Range(input) : container(p) /\ readable(p)
            THEN <<Thrown>> \notin answer /\ Cardinality(answer) = Cardinality(keys(n))
            ELSE answer = {<<Thrown>>}
        computed2(form) == IF form = "y" THEN 1 ELSE 2
        computed3(form) == CASE form = <<"x", "y">> -> 3 [] form = <<"x", "z">> -> 2 [] OTHER -> 1
        named == Object([k \in {<<i>> : i \in DOMAIN input} |-> input[k[1]]])
    IN  kind = "points" =>
          \A points \in {Array(input), named} :
            /\ \A form \in Forms2D :
                  right(status_func2d(points, form), 2,
                        LAMBDA p : form = "equation" \/ number(p, computed2(form)))
            /\ \A form \in Forms3D :
                  right(status_func3d(points, form), 3,
                        LAMBDA p : form = <<"=", "=">> \/ number(p, computed3(form)))

\* In each format what is written is read, to its end and not without it, as
\* what the format keeps of it; what is read from any bytes is written and
\* read again as the same.
BinaryExact ==
    /\ kind = "data" => \A c \in Formats : Reads(c[1], c[2], input[1])
    /\ kind = "bytes" =>
          \A c \in Formats : c[1] = input[1] => Rewrites(c[1], c[2], FlattenSeq(input[2]))

\* patch(a, diff(a, b)) is b, and so is a merge patch that may be one.
PatchMakesTarget == kind = "pair" => PatchMakes(input[1], input[2])

\* Pointers locate what is there, and an operation of a patch does what may
\* be undone, or throws; flatten and unflatten are inverse where they can.
\* An add below a primitive does neither: see PatchAsserts.
OperationsExact ==
    /\ kind = "document" => PointersLocate(input[1]) /\ OperationsUndo(input[1])
    /\ kind = "pointer" => TextSplits(input)

\* "if there exists a parent it cannot be primitive": no operation of a patch
\* comes to the assertion below this comment of operation_add.
PatchAsserts == kind = "document" => AssertsHold(input[1])
-----------------------------------------------------------------------------
(* The mobile application.                                                  *)
\* The table starts at its first limit, goes up and never past the second;
\* while numbers are exact it has every step of the way, up to the first
\* value that fails.  A descending table is always empty.  It is endless if
\* the step is lost in rounding, which a step of at least the distance of
\* the numbers at the limits never is.  The page is shown, and the temporary
\* variable removed, if and only if the step has the sign of the way: so
\* that a step of 0 is told only to who wants a descending table.
TableRows ==
    \A isCorrect \in BOOLEAN, bad \in IF kind = "table" /\ Len(input) = 3 THEN TableNumbers ELSE {} :
        LET from == input[1]
            to == input[2]
            step == input[3]
            t == calculateTable(from, to, step, isCorrect, {bad})
            n == Len(t.rows)
            endless == n > 1 /\ t.rows[n] = t.rows[n - 1]
            exact == {i \in from .. to : step > 0 /\ (i - from) % step = 0}
        IN  /\ t.clean = (t.page # "none") /\ t.clean = (from < to <=> step > 0)
            /\ t.page = "step is 0" => from >= to
            /\ t.page = "rows" /\ from < to <=> t.rows # <<>>
            /\ t.rows # <<>> =>
                  /\ t.rows[1] = from /\ t.rows[n] <= to
                  /\ \A i \in 2 .. n : t.rows[i - 1] < t.rows[i] \/ (i = n /\ endless)
                  /\ endless => 2 * step <= Gap(t.rows[n])
                  /\ step >= Gap(from) /\ step >= Gap(to) =>
                        ~endless /\ (t.rows[n] = bad \/ t.rows[n] + step > to)
                  /\ Gap(from) = 1 /\ Gap(to) = 1 =>
                        Range(t.rows) = {i \in exact : bad \in exact => i <= bad}
=============================================================================
