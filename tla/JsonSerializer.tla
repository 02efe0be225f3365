--------------------------- MODULE JsonSerializer ---------------------------
(***************************************************************************)
(* basic_json::dump(), without the options that no caller of it uses       *)
(* (indentation, ASCII only, error handlers): a value as text, compact,    *)
(* with an exception for a string that is not UTF-8.  A float is a decimal *)
(* fraction here; how grisu2 finds its digits is in JsonFloat.             *)
(***************************************************************************)
EXTENDS JsonParser

CONSTANTS
    MinExp, MaxExp,     \* floats in [10^MinExp, 10^MaxExp) have no exponent
    BufferSize          \* the size of string_buffer

ASSUME SerializerAssumption == -MinExp \in Nat \ {0} /\ MaxExp \in Nat \ {0} /\ BufferSize > 16

\* What stands in the output for an exception.
Thrown == -2

Digits(n) == [i \in 1 .. Len(ToString(n)) |-> 48 + ((n \div 10 ^ (Len(ToString(n)) - i)) % 10)]
-----------------------------------------------------------------------------
(* Strings.                                                                 *)
\* The two tables of decode: the class of a byte; for each state after a
\* first byte, the classes that may follow and the state they lead to.
ByteClass(b) ==
    CASE b < 128 -> 0
      [] b \in 128 .. 143 -> 1
      [] b \in 144 .. 159 -> 9
      [] b \in 160 .. 191 -> 7
      [] b \in 194 .. 223 -> 2
      [] b = 224 -> 10
      [] b = 237 -> 4
      [] b \in 225 .. 239 \ {237} -> 3
      [] b = 240 -> 11
      [] b \in 241 .. 243 -> 6
      [] b = 244 -> 5
      [] OTHER -> 8

Accept == 0
Reject == 1

FirstState == <<Accept, Reject, 2, 3, 5, 8, 7, Reject, Reject, Reject, 4, 6>>

NextState ==
    2 :> <<{1, 7, 9}, Accept>> @@ 3 :> <<{1, 7, 9}, 2>> @@ 4 :> <<{7}, 2>> @@ 5 :> <<{1, 9}, 2>>
    @@ 6 :> <<{7, 9}, 3>> @@ 7 :> <<{1, 7, 9}, 3>> @@ 8 :> <<{1}, 3>>

\* The automaton of Hoehrmann.
decode(state, b) ==
    CASE state = Accept -> FirstState[ByteClass(b) + 1]
      [] state = Reject -> Reject
      [] OTHER -> IF ByteClass(b) \in NextState[state][1] THEN NextState[state][2] ELSE Reject

Escapes == 8 :> 98 @@ 9 :> 116 @@ 10 :> 110 @@ 12 :> 102 @@ 13 :> 114 @@ 34 :> 34 @@ 92 :> 92

HexDigit(n) == IF n < 10 THEN 48 + n ELSE 87 + n

\* What a byte that completes a code point adds: all bytes before it, and
\* every byte of a code point above 127, are copied.
EscapedByte(b) ==
    CASE b \in DOMAIN Escapes -> <<Backslash, Escapes[b]>>
      [] b \in 0 .. 31 \ DOMAIN Escapes -> <<Backslash, 117, 48, 48, HexDigit(b \div 16), HexDigit(b % 16)>>
      [] OTHER -> <<b>>

\* One turn of the loop.  `bytes' is how much of string_buffer is used, and
\* `peak' how much ever was, the NUL of snprintf included.
DumpByte(d, b) ==
    LET state == decode(d.state, b)
        more == IF state = Accept THEN EscapedByte(b) ELSE <<b>>
        used == d.bytes + Len(more)
    IN  IF state = Reject THEN [d EXCEPT !.state = Reject]
        ELSE [state |-> state, out |-> d.out \o more,
              bytes |-> IF state = Accept /\ BufferSize - used < 13 THEN 0 ELSE used,
              peak |-> Max({d.peak, IF Len(more) = 6 THEN used + 1 ELSE used})]

dump_escaped(s) == FoldLeft(DumpByte, [state |-> Accept, out |-> <<>>, bytes |-> 0, peak |-> 0], s)

Quoted(s) ==
    LET d == dump_escaped(s)
    IN  <<Quote>> \o (IF d.state = Accept THEN d.out ELSE <<Thrown>>) \o <<Quote>>
-----------------------------------------------------------------------------
(* Numbers.                                                                 *)
RECURSIVE count_digits(_, _)
count_digits(n, found) ==
    CASE n < 10 -> found
      [] n \in 10 .. 99 -> found + 1
      [] n \in 100 .. 999 -> found + 2
      [] n \in 1000 .. 9999 -> found + 3
      [] OTHER -> count_digits(n \div 10000, found + 4)

\* Mutant: one is not added back.
remove_sign_less(n) == -1 - n

\* The smallest integer has no opposite: it is counted from -1.
remove_sign(n) == (-1 - n) + 1

RECURSIVE Pairs(_)
\* Two digits at a time, from the last.
Pairs(n) ==
    LET pair == <<48 + ((n % 100) \div 10), 48 + (n % 10)>>
    IN  CASE n >= 100 -> Pairs(n \div 100) \o pair
          [] n \in 10 .. 99 -> pair
          [] OTHER -> <<48 + n>>

\* The digits are written from position n_chars backwards.
dump_integer(n) ==
    LET digits == Pairs(IF n < 0 THEN remove_sign(n) ELSE n)
        n_chars == count_digits(IF n < 0 THEN remove_sign(n) ELSE n, 1)
    IN  (IF n < 0 THEN <<Minus>> ELSE <<>>) \o SubSeq(digits, Len(digits) - n_chars + 1, Len(digits))

Zeros(n) == [i \in 1 .. n |-> Zero]

append_exponent(e) ==
    LET k == IF e < 0 THEN -e ELSE e
    IN  <<IF e < 0 THEN Minus ELSE Plus>> \o (IF k < 10 THEN <<Zero>> ELSE <<>>) \o Digits(k)

\* k digits, the decimal point after the n-th.
format_buffer(digits, x) ==
    LET k == Len(digits)
        n == k + x
    IN  CASE k <= n /\ n <= MaxExp -> digits \o Zeros(n - k) \o <<Dot, Zero>>
          [] 0 < n /\ n < k /\ n <= MaxExp -> SubSeq(digits, 1, n) \o <<Dot>> \o SubSeq(digits, n + 1, k)
          [] MinExp < n /\ n <= 0 -> <<Zero, Dot>> \o Zeros(-n) \o digits
          [] OTHER -> <<digits[1]>> \o (IF k = 1 THEN <<>> ELSE <<Dot>> \o SubSeq(digits, 2, k))
                      \o <<101>> \o append_exponent(n - 1)

null == <<110, 117, 108, 108>>

\* A float that is not finite is written as null.
dump_float(f) ==
    CASE f[2] = -1 -> null
      [] OTHER -> (IF f[1] THEN <<Minus>> ELSE <<>>)
                  \o IF f[2] = 0 THEN <<Zero, Dot, Zero>> ELSE format_buffer(Digits(f[2]), f[3])
-----------------------------------------------------------------------------
\* The texts, with something between two.
Listed(open, texts, between, close) ==
    <<open>> \o FlattenSeq([i \in DOMAIN texts |-> (IF i = 1 THEN <<>> ELSE between) \o texts[i]]) \o <<close>>

RECURSIVE dump(_)
dump(v) ==
    CASE v[1] = "object" ->
             Listed(123, [i \in DOMAIN Keys(v[2]) |->
                            Quoted(Keys(v[2])[i]) \o <<58>> \o dump(v[2][Keys(v[2])[i]])], <<44>>, 125)
      [] v[1] = "array" -> Listed(91, [i \in DOMAIN v[2] |-> dump(v[2][i])], <<44>>, 93)
      [] v[1] = "string" -> Quoted(v[2])
      [] v[1] = "boolean" -> IF v[2] THEN <<116, 114, 117, 101>> ELSE <<102, 97, 108, 115, 101>>
      [] v[1] \in {"number_integer", "number_unsigned"} -> dump_integer(v[2])
      [] v[1] = "number_float" -> dump_float(v[2])
      [] v[1] = "null" -> null

DumpThrows(v) == Thrown \in Range(dump(v))
=============================================================================
