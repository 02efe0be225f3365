----------------------------- MODULE JsonParser -----------------------------
(***************************************************************************)
(* The parser of json.h with the tree it builds, and the members of        *)
(* basic_json that the program reads a tree with.                          *)
(*                                                                         *)
(* A value is a pair of its type and its content: an array is a sequence   *)
(* of values, an object a function from strings to values.                 *)
(***************************************************************************)
EXTENDS JsonLexer

Null == <<"null", 0>>
Boolean(b) == <<"boolean", b>>
String(s) == <<"string", s>>
Array(vs) == <<"array", vs>>
Object(map) == <<"object", map>>

NoMembers == [key \in {} |-> Null]

\* The value of a token that is a value by itself.
Scalar(token) ==
    CASE token[1] = "literal_null" -> Null
      [] token[1] = "literal_true" -> Boolean(TRUE)
      [] token[1] = "literal_false" -> Boolean(FALSE)
      [] token[1] = "value_string" -> String(token[2])
      [] token[1] = "value_unsigned" -> <<"number_unsigned", token[2]>>
      [] token[1] = "value_integer" -> <<"number_integer", token[2]>>
      [] token[1] = "value_float" -> <<"number_float", token[2]>>

IsScalar(token) ==
    \/ token[1] \in {"literal_null", "literal_true", "literal_false", "value_string",
                     "value_unsigned", "value_integer"}
    \/ token[1] = "value_float" /\ token[2][2] # -1    \* not finite: out_of_range
-----------------------------------------------------------------------------
(* sax_parse_internal with json_sax_dom_parser.  `mode' is what the code    *)
(* waits for where it calls get_token, `stack' the open containers, each    *)
(* with the key that the next value gets.                                   *)
With(map, key, value) ==
    [k \in DOMAIN map \cup {key} |-> IF k = key THEN value ELSE map[k]]

Top(p) == Last(p.stack)

\* Mutant: the first of two values for a key stays.
handle_value_first(p, value) ==
    IF p.stack = <<>> THEN [p EXCEPT !.root = value, !.mode = "done"]
    ELSE [p EXCEPT !.mode = "after",
                   !.stack[Len(p.stack)].value =
                       CASE @[1] = "array" -> Array(Append(@[2], value))
                         [] @[1] = "object" /\ Top(p).key \in DOMAIN @[2] -> @
                         [] OTHER -> Object(With(@[2], Top(p).key, value))]

\* A value becomes the root, an element, or replaces what its key had.
handle_value(p, value) ==
    IF p.stack = <<>> THEN [p EXCEPT !.root = value, !.mode = "done"]
    ELSE [p EXCEPT !.mode = "after",
                   !.stack[Len(p.stack)].value =
                       IF @[1] = "array" THEN Array(Append(@[2], value))
                       ELSE Object(With(@[2], Top(p).key, value))]

Open(p, value, mode) ==
    [p EXCEPT !.stack = Append(@, [value |-> value, key |-> <<>>]), !.mode = mode]

\* The container is complete, and is a value of the one around it.
Close(p) == handle_value([p EXCEPT !.stack = Front(@)], Top(p).value)

\* A token, where the code has it: the next mode, the stack and the root.
Step(p, token) ==
    LET type == token[1]
        value == p.mode \in {"value", "first"}
        inside(container) == p.stack # <<>> /\ Top(p).value[1] = container
    IN  CASE value /\ IsScalar(token) -> handle_value(p, Scalar(token))
          [] value /\ type = "begin_array" -> Open(p, Array(<<>>), "first")
          [] value /\ type = "begin_object" -> Open(p, Object(NoMembers), "firstkey")
          [] type = "end_array" /\ (p.mode = "first" \/ (p.mode = "after" /\ inside("array"))) -> Close(p)
          [] type = "end_object" /\ (p.mode = "firstkey" \/ (p.mode = "after" /\ inside("object"))) -> Close(p)
          [] type = "value_string" /\ p.mode \in {"firstkey", "key"} ->
                 [p EXCEPT !.mode = "colon", !.stack[Len(p.stack)].key = token[2]]
          [] type = "name_separator" /\ p.mode = "colon" -> [p EXCEPT !.mode = "value"]
          [] type = "value_separator" /\ p.mode = "after" ->
                 [p EXCEPT !.mode = IF inside("array") THEN "value" ELSE "key"]
          [] type = "end_of_input" /\ p.mode = "done" -> [p EXCEPT !.mode = "accepted"]
          [] OTHER -> [p EXCEPT !.mode = "error"]

\* The state of the parser after some tokens.
Parser(tokens) ==
    FoldLeft(Step, [mode |-> "value", stack |-> <<>>, root |-> Null], tokens)

\* parser::parse, strict: whether a text is accepted, and its value.
Accepts(tokens) == Parser(tokens).mode = "accepted"

parse(text) == Parser(Tokens(text)).root
-----------------------------------------------------------------------------
(* Reading a tree.  A conversion or an access that fails throws.            *)
\* begin() .. end(): elements, the values of an object in the order of its
\* keys, a primitive itself, nothing of null.
LexLess(a, b) ==
    \E i \in 1 .. Len(b) :
        /\ i <= Len(a) + 1 /\ SubSeq(a, 1, i - 1) = SubSeq(b, 1, i - 1)
        /\ i <= Len(a) => a[i] < b[i]

Keys(map) == SetToSortSeq(DOMAIN map, LexLess)

Elements(v) ==
    CASE v[1] = "array" -> v[2]
      [] v[1] = "object" -> [i \in DOMAIN Keys(v[2]) |-> v[2][Keys(v[2])[i]]]
      [] v[1] = "null" -> <<>>
      [] OTHER -> <<v>>

\* operator[](i): null becomes an array, an array grows by null.
Indexable(v) == v[1] \in {"array", "null"}

Index(v, i) == IF v[1] = "array" /\ i < Len(v[2]) THEN v[2][i + 1] ELSE Null

\* The conversion to float takes numbers and booleans.
IsArithmetic(v) == v[1] \in {"number_unsigned", "number_integer", "number_float", "boolean"}
=============================================================================
