----------------------------- MODULE JsonInput -----------------------------
(***************************************************************************)
(* Ways to read JSON other than from bytes to a whole tree: texts of wider *)
(* characters, texts with comments, and a callback that is asked about     *)
(* each event of the parser and may drop what it is about.                 *)
(***************************************************************************)
EXTENDS JsonParser

(* Wide characters.                                                         *)
\* What wide_string_input_helper makes of the next characters: bytes, how
\* many of the characters it took.  A surrogate takes the next character,
\* whatever it is, and is left as it is if there is none; so is a number
\* that is no code point.
Utf32Buffer(units, i) == <<IF units[i] <= 1114111 THEN Utf8(units[i]) ELSE <<units[i]>>, 1>>

Utf16Buffer(units, i) ==
    LET wc == units[i]
        surrogate == wc \in High \/ wc \in Low
    IN  CASE ~surrogate -> <<Utf8(wc), 1>>
          [] surrogate /\ i < Len(units) ->
                <<Utf8(65536 + 1024 * (wc % 1024) + (units[i + 1] % 1024)), 2>>
          [] OTHER -> << <<wc>>, 1>>

RECURSIVE WideFrom(_, _, _)
WideFrom(size, units, i) ==
    IF i > Len(units) THEN <<>>
    ELSE LET buffer == IF size = 4 THEN Utf32Buffer(units, i) ELSE Utf16Buffer(units, i)
         IN  buffer[1] \o WideFrom(size, units, i + buffer[2])

\* All that get_character of the adapter returns, for characters of 2 or 4
\* bytes.
wide_string(size, units) == WideFrom(size, units, 1)
-----------------------------------------------------------------------------
(* Comments.                                                                *)
RECURSIVE LineEnd(_, _), BlockEnd(_, _)

\* After the line feed, the return, the NUL or the end that ends the line.
LineEnd(s, i) == IF Byte(s, i) \in {0, 10, 13, Eof} THEN i + 1 ELSE LineEnd(s, i + 1)

\* After the next */, or 0.
BlockEnd(s, i) ==
    CASE Byte(s, i) \in {0, Eof} -> 0
      [] Byte(s, i) = 42 /\ Byte(s, i + 1) = 47 -> i + 2
      [] OTHER -> BlockEnd(s, i + 1)

\* What follows the comment whose / is before i, or 0 if it is none.
scan_comment(s, i) ==
    CASE Byte(s, i) = 47 -> LineEnd(s, i + 1)
      [] Byte(s, i) = 42 -> BlockEnd(s, i + 1)
      [] OTHER -> 0

RECURSIVE ScanIgnoring(_, _)
\* scan with ignore_comments: none, one or several of them are skipped.
ScanIgnoring(s, from) ==
    LET bom == from = 1 /\ Follows(s, 1, <<239, 187, 191>>)
        i == skip_whitespace(s, IF bom THEN 4 ELSE from)
        after == scan_comment(s, i + 1)
    IN  CASE Byte(s, i) = 47 /\ after = 0 -> ParseError(i)
          [] Byte(s, i) = 47 /\ after # 0 -> ScanIgnoring(s, after)
          [] OTHER -> scan(s, from)

RECURSIVE TokensIgnoring(_, _)
\* The tokens of a text with comments, from i on.
TokensIgnoring(s, i) ==
    LET r == ScanIgnoring(s, i)
    IN  <<r.token>> \o IF r.token[1] \in {"end_of_input", "parse_error"} THEN <<>>
                       ELSE TokensIgnoring(s, r.next)
-----------------------------------------------------------------------------
(* json_sax_dom_callback_parser.  A callback is a set of rules, each the    *)
(* event, the depth and the values that it refuses, {} for any value.       *)
Discarded == <<"discarded", 0>>

Keeps(callback, event, depth, value) ==
    \A rule \in callback :
        ~(rule[1] = event /\ rule[2] = depth /\ (rule[3] = {} \/ value \in rule[3]))

\* The entry of ref_stack for a container that is not built.
Dropped == [value |-> Discarded, key |-> <<>>]

IsKept(ref) == ref.value # Discarded

\* The value becomes the root, the next element, or what object_element is.
Place(q, value) ==
    IF q.refs = <<>> THEN [q EXCEPT !.root = value]
    ELSE [q EXCEPT !.refs[Len(q.refs)].value =
            IF @[1] = "array" THEN Array(Append(@[2], value))
            ELSE Object(With(@[2], Last(q.refs).key, value))]

\* Whether handle_value keeps the value, and the state after it: it takes
\* the answer for the key from its stack if it comes so far.
Handled(callback, q, value, skip_callback) ==
    LET inside == q.refs # <<>>
        top == Last(q.refs)
        keep == Last(q.keep_stack) /\ (skip_callback \/ Keeps(callback, "value", Len(q.refs), value))
        object == inside /\ top.value[1] = "object"
    IN  CASE ~keep \/ (inside /\ ~IsKept(top)) -> [keep |-> FALSE, state |-> q]
          [] keep /\ object /\ IsKept(top) ->
                [keep |-> Last(q.key_keep_stack),
                 state |-> [q EXCEPT !.key_keep_stack = Front(@)]]
          [] OTHER -> [keep |-> TRUE, state |-> q]

ScalarEvent(callback, q, value) ==
    LET h == Handled(callback, q, value, FALSE) IN IF h.keep THEN Place(h.state, value) ELSE h.state

\* start_object, start_array.
StartEvent(callback, q, event, value) ==
    LET asked == [q EXCEPT !.keep_stack = Append(@, Keeps(callback, event, Len(q.refs), Discarded))]
        h == Handled(callback, asked, value, TRUE)
    IN  [h.state EXCEPT !.refs = Append(@, IF h.keep THEN [value |-> value, key |-> <<>>] ELSE Dropped)]

\* The member is there, discarded, before its value is known.
KeyEvent(callback, q, name) ==
    LET keep == Keeps(callback, "key", Len(q.refs), String(name))
        asked == [q EXCEPT !.key_keep_stack = Append(@, keep)]
    IN  IF keep /\ IsKept(Last(q.refs))
        THEN Place([asked EXCEPT !.refs[Len(q.refs)].key = name], Discarded) ELSE asked

\* The container, discarded or not, where it belongs.
Ended(callback, q, event) ==
    LET ref == Last(q.refs)
        out == [q EXCEPT !.refs = Front(@), !.keep_stack = Front(@)]
    IN  CASE ~IsKept(ref) -> out
          [] OTHER -> Place(out, IF Keeps(callback, event, Len(q.refs) - 1, ref.value) THEN ref.value ELSE Discarded)

\* erase of the first value that is discarded, if there is one.
EraseDiscarded(v) ==
    CASE v[1] = "array" /\ Discarded \in Range(v[2]) -> Array(RemoveFirst(v[2], Discarded))
      [] v[1] = "object" /\ Discarded \in Range(v[2]) ->
            LET name == Keys(v[2])[Min({i \in DOMAIN Keys(v[2]) : v[2][Keys(v[2])[i]] = Discarded})]
            IN  Object([n \in DOMAIN v[2] \ {name} |-> v[2][n]])
      [] OTHER -> v

EndObject(callback, q) ==
    LET out == Ended(callback, q, "object_end")
    IN  IF out.refs = <<>> \/ ~IsKept(Last(out.refs)) THEN out
        ELSE [out EXCEPT !.refs[Len(out.refs)].value = EraseDiscarded(@)]

EndArray(callback, q) ==
    LET out == Ended(callback, q, "array_end")
        refused == /\ IsKept(Last(q.refs))
                   /\ ~Keeps(callback, "array_end", Len(q.refs) - 1, Last(q.refs).value)
    IN  IF ~refused \/ out.refs = <<>> \/ Last(out.refs).value[1] # "array" THEN out
        ELSE [out EXCEPT !.refs[Len(out.refs)].value = Array(Front(@[2]))]

\* sax_parse_internal with this handler.
FilterStep(callback, q, token) ==
    LET next == Step(q.parser, token)
        r == [q EXCEPT !.parser = next]
        type == token[1]
    IN  IF next.mode = "error" \/ type \in {"name_separator", "value_separator", "end_of_input"} THEN r
        ELSE CASE next.mode = "colon" -> KeyEvent(callback, r, token[2])
               [] type = "begin_object" -> StartEvent(callback, r, "object_start", Object(NoMembers))
               [] type = "begin_array" -> StartEvent(callback, r, "array_start", Array(<<>>))
               [] type = "end_object" -> EndObject(callback, r)
               [] type = "end_array" -> EndArray(callback, r)
               [] OTHER -> ScalarEvent(callback, r, Scalar(token))

\* parser::parse with a callback and without exceptions: the value, null if
\* it was discarded, and a discarded value if the text is none.
parse_filtered(callback, tokens) ==
    LET empty == [parser |-> Parser(<<>>), refs |-> <<>>, keep_stack |-> <<TRUE>>, key_keep_stack |-> <<>>, root |-> Null]
        q == FoldLeft(LAMBDA r, token : FilterStep(callback, r, token), empty, tokens)
    IN  CASE q.parser.mode # "accepted" -> Discarded
          [] q.parser.mode = "accepted" -> IF q.root = Discarded THEN Null ELSE q.root
=============================================================================
