------------------------------ MODULE JsonLexer ------------------------------
(***************************************************************************)
(* The lexer of json.h: bytes to tokens.  A byte is its code, a token a    *)
(* pair of its type and its value.  Numbers are kept as decimal fractions: *)
(* a float is <<negative, m, x>> for m * 10^x, m without trailing zeros;   *)
(* strtod is taken to be exact within its range.                           *)
(***************************************************************************)
EXTENDS Integers, SequencesExt

CONSTANTS
    MaxUnsigned,    \* the largest number_unsigned_t
    MinInteger,     \* the smallest number_integer_t
    MaxExponent     \* a float is less than 10 ^ MaxExponent

ASSUME NumbersAssumption == MaxUnsigned \in Nat /\ -MinInteger \in Nat /\ MaxExponent \in Nat

Eof == -1
Quote == 34
Backslash == 92
Minus == 45
Plus == 43
Dot == 46
Zero == 48

Digit == 48 .. 57

E == {69, 101}

Byte(s, i) == IF i > Len(s) THEN Eof ELSE s[i]

\* What a scan returns: the token, and where the next begins.
Token(type, value, i) == [token |-> <<type, value>>, next |-> i]

ParseError(i) == Token("parse_error", 0, i)
-----------------------------------------------------------------------------
(* Strings.                                                                 *)
Hex(c) == CASE c \in Digit -> c - 48
            [] c \in 65 .. 70 -> c - 55
            [] c \in 97 .. 102 -> c - 87
            [] OTHER -> -1

\* The four digits from i on, or -1.
get_codepoint(s, i) ==
    IF \E j \in 0 .. 3 : Hex(Byte(s, i + j)) = -1 THEN -1
    ELSE 4096 * Hex(s[i]) + 256 * Hex(s[i + 1]) + 16 * Hex(s[i + 2]) + Hex(s[i + 3])

\* A code point as UTF-8.
Utf8(c) ==
    LET tail(n) == 128 + ((c \div 64 ^ n) % 64)
    IN  CASE c < 128 -> <<c>>
          [] c \in 128 .. 2047 -> <<192 + (c \div 64), tail(0)>>
          [] c \in 2048 .. 65535 -> <<224 + (c \div 4096), tail(1), tail(0)>>
          [] OTHER -> <<240 + (c \div 262144), tail(2), tail(1), tail(0)>>

\* The ranges of the bytes that follow a first byte of a code point.
next_byte_in_range(c) ==
    LET any == 128 .. 191
    IN  CASE c \in 194 .. 223 -> <<any>>
          [] c = 224 -> <<160 .. 191, any>>
          [] c \in 225 .. 236 \cup {238, 239} -> <<any, any>>
          [] c = 237 -> <<128 .. 159, any>>
          [] c = 240 -> <<144 .. 191, any, any>>
          [] c \in 241 .. 243 -> <<any, any, any>>
          [] c = 244 -> <<128 .. 143, any, any>>
          [] OTHER -> <<>>

\* \" \\ \/ \b \f \n \r \t
Escaped == 34 :> 34 @@ 92 :> 92 @@ 47 :> 47 @@ 98 :> 8 @@ 102 :> 12 @@ 110 :> 10 @@ 114 :> 13 @@ 116 :> 9

High == 55296 .. 56319
Low == 56320 .. 57343

\* Mutant: a surrogate may stand alone.
UnicodeLoose(s, i) ==
    LET c == get_codepoint(s, i) IN IF c = -1 THEN <<-1, i>> ELSE <<c, i + 4>>

\* The code point of the \u whose digits begin at i, or -1, and what is next.
Unicode(s, i) ==
    LET first == get_codepoint(s, i)
        second == IF Byte(s, i + 4) = Backslash /\ Byte(s, i + 5) = 117
                  THEN get_codepoint(s, i + 6) ELSE -1
    IN  CASE first = -1 \/ first \in Low -> <<-1, i>>
          [] first \in High /\ second \notin Low -> <<-1, i>>
          [] first \in High /\ second \in Low -> <<1024 * first + second - 56613888, i + 10>>
          [] OTHER -> <<first, i + 4>>

RECURSIVE scan_string(_, _, _)
\* i is the next byte, buffer what was read.
scan_string(s, i, buffer) ==
    LET c == Byte(s, i)
        more == next_byte_in_range(c)
        u == Unicode(s, i + 2)
    IN  CASE c = Quote -> Token("value_string", buffer, i + 1)
          [] c = Backslash /\ Byte(s, i + 1) = 117 /\ u[1] # -1 ->
                 scan_string(s, u[2], buffer \o Utf8(u[1]))
          [] c = Backslash /\ Byte(s, i + 1) \in DOMAIN Escaped ->
                 scan_string(s, i + 2, Append(buffer, Escaped[s[i + 1]]))
          [] c \in 32 .. 127 \ {Quote, Backslash} -> scan_string(s, i + 1, Append(buffer, c))
          [] more # <<>> /\ \A k \in DOMAIN more : Byte(s, i + k) \in more[k] ->
                 scan_string(s, i + 1 + Len(more), buffer \o SubSeq(s, i, i + Len(more)))
          [] OTHER -> ParseError(i)
-----------------------------------------------------------------------------
(* Numbers.                                                                 *)
\* The labels of scan_number, and the one that a character leads to.
NumberStep(state, c) ==
    CASE state = "init" /\ c = Minus -> "minus"
      [] state \in {"init", "minus"} /\ c = Zero -> "zero"
      [] state \in {"init", "minus"} /\ c \in Digit \ {Zero} -> "any1"
      [] state = "any1" /\ c \in Digit -> "any1"
      [] state \in {"zero", "any1"} /\ c = Dot -> "decimal1"
      [] state \in {"decimal1", "decimal2"} /\ c \in Digit -> "decimal2"
      [] state \in {"zero", "any1", "decimal2"} /\ c \in E -> "exponent"
      [] state = "exponent" /\ c \in {Plus, Minus} -> "sign"
      [] state \in {"exponent", "sign", "any2"} /\ c \in Digit -> "any2"
      [] OTHER -> IF state \in {"zero", "any1", "decimal2", "any2"} THEN "done" ELSE "error"

RECURSIVE NumberEnd(_, _, _)
\* The index after a number's last character, or 0.
NumberEnd(s, i, state) ==
    LET next == NumberStep(state, Byte(s, i))
    IN  CASE next = "done" -> i [] next = "error" -> 0 [] OTHER -> NumberEnd(s, i + 1, next)

Natural(digits) == FoldLeft(LAMBDA n, c : 10 * n + (c - 48), 0, digits)

RECURSIVE Normal(_, _, _)
\* Too large is infinite (m = -1), too small is zero.
Normal(negative, m, x) ==
    CASE m = 0 -> <<negative, 0, 0>>
      [] m # 0 /\ m % 10 = 0 -> Normal(negative, m \div 10, x + 1)
      [] OTHER -> LET size == Len(ToString(m)) + x IN
                  CASE size > MaxExponent -> <<negative, -1, 0>>
                    [] size < -MaxExponent -> <<negative, 0, 0>>
                    [] OTHER -> <<negative, m, x>>

\* std::strtod: t = mantissa, and an exponent if there is one.
strtod(t) ==
    LET at == Min({i \in DOMAIN t : t[i] \in E} \cup {Len(t) + 1})
        mantissa == SelectSeq(SubSeq(t, 1, at - 1), LAMBDA c : c # Minus)
        dot == Min({i \in DOMAIN mantissa : mantissa[i] = Dot} \cup {Len(mantissa)})
        digits == SelectSeq(mantissa, LAMBDA c : c # Dot)
        exponent == SubSeq(t, at + 1, Len(t))
        power == Natural(SelectSeq(exponent, LAMBDA c : c \in Digit))
    IN  Normal(t[1] = Minus, Natural(digits),
               (IF Byte(exponent, 1) = Minus THEN -power ELSE power) - (Len(mantissa) - dot))

\* Integers that do not fit are read as floats.
Number(t) ==
    LET n == Natural(SelectSeq(t, LAMBDA c : c \in Digit))
        integer == Range(t) \cap (E \cup {Dot}) = {}
    IN  CASE integer /\ t[1] = Minus /\ -n >= MinInteger -> <<"value_integer", -n>>
          [] integer /\ t[1] # Minus /\ n <= MaxUnsigned -> <<"value_unsigned", n>>
          [] OTHER -> <<"value_float", strtod(t)>>

scan_number(s, i) ==
    LET end == NumberEnd(s, i, "init")
    IN  IF end = 0 THEN ParseError(i) ELSE [token |-> Number(SubSeq(s, i, end - 1)), next |-> end]
-----------------------------------------------------------------------------
(* scan.                                                                    *)
Follows(s, i, word) == \A k \in DOMAIN word : Byte(s, i + k - 1) = word[k]

\* true, false, null: the rest of the word is compared byte by byte.
scan_literal(s, i, word, type) ==
    IF Follows(s, i, word) THEN Token(type, 0, i + Len(word)) ELSE ParseError(i)

Structural == 91 :> "begin_array" @@ 93 :> "end_array" @@ 123 :> "begin_object"
              @@ 125 :> "end_object" @@ 58 :> "name_separator" @@ 44 :> "value_separator"

RECURSIVE skip_whitespace(_, _)
skip_whitespace(s, i) == IF Byte(s, i) \in {9, 10, 13, 32} THEN skip_whitespace(s, i + 1) ELSE i

\* A byte order mark at the start is skipped; a NUL ends the input.
scan(s, from) ==
    LET bom == from = 1 /\ Byte(s, 1) = 239
        i == skip_whitespace(s, IF bom THEN 4 ELSE from)
        c == Byte(s, i)
    IN  IF bom /\ ~Follows(s, 1, <<239, 187, 191>>) THEN ParseError(i)
        ELSE CASE c \in DOMAIN Structural -> Token(Structural[c], 0, i + 1)
               [] c = 116 -> scan_literal(s, i, <<116, 114, 117, 101>>, "literal_true")
               [] c = 102 -> scan_literal(s, i, <<102, 97, 108, 115, 101>>, "literal_false")
               [] c = 110 -> scan_literal(s, i, <<110, 117, 108, 108>>, "literal_null")
               [] c = Quote -> scan_string(s, i + 1, <<>>)
               [] c \in Digit \cup {Minus} -> scan_number(s, i)
               [] c \in {0, Eof} -> Token("end_of_input", 0, i)
               [] OTHER -> ParseError(i)

RECURSIVE TokensFrom(_, _)
\* What was scanned, and all after it.
TokensFrom(s, r) ==
    <<r.token>> \o IF r.token[1] \in {"end_of_input", "parse_error"} THEN <<>>
                   ELSE TokensFrom(s, scan(s, r.next))

\* The tokens of a text, up to its end or its first error.
Tokens(s) == TokensFrom(s, scan(s, 1))
=============================================================================
