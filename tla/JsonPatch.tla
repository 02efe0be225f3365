----------------------------- MODULE JsonPatch -----------------------------
(***************************************************************************)
(* JSON Pointer, JSON Patch and JSON Merge Patch of json.h.                *)
(*                                                                         *)
(* A pointer is the sequence of its reference tokens.  An exception is a   *)
(* pair in place of a value, with its number.  Which exception is thrown   *)
(* where two may be is not modelled.  An assertion that fails is no        *)
(* exception: it ends the program, and stands in place of a value, too.    *)
(***************************************************************************)
EXTENDS JsonReader, JsonSerializer

Raised(id) == <<"exception", id>>

IsRaised(v) == v[1] = "exception"

\* JSON_ASSERT(false), in a build that has assertions.
Aborted == <<"aborted">>

Ends(v) == IsRaised(v) \/ v = Aborted

Slash == 47
Tilde == 126

IsContainer(v) == v[1] \in {"array", "object"}

IsNumber(v) == v[1] \in {"number_unsigned", "number_integer", "number_float"}

\* The cast of an unsigned number to int64.
AsInteger(n) == IF n >= (Radix ^ 4) \div 2 THEN n - (Radix ^ 4) ELSE n

AsFloat(v) ==
    CASE v[1] = "number_float" -> IF v[2][2] = 0 THEN <<FALSE, 0, 0>> ELSE v[2]
      [] OTHER -> Normal(v[2] < 0, IF v[2] < 0 THEN -v[2] ELSE v[2], 0)

RECURSIVE Equal(_, _)
\* operator==: numbers of different types are cast.
Equal(a, b) ==
    CASE a[1] = "array" /\ b[1] = "array" ->
             DOMAIN a[2] = DOMAIN b[2] /\ \A i \in DOMAIN a[2] : Equal(a[2][i], b[2][i])
      [] a[1] = "object" /\ b[1] = "object" ->
             DOMAIN a[2] = DOMAIN b[2] /\ \A k \in DOMAIN a[2] : Equal(a[2][k], b[2][k])
      [] IsNumber(a) /\ IsNumber(b) /\ "number_float" \in {a[1], b[1]} -> AsFloat(a) = AsFloat(b)
      [] IsNumber(a) /\ IsNumber(b) /\ {a[1], b[1]} = {"number_unsigned", "number_integer"} ->
             AsInteger(a[2]) = AsInteger(b[2])
      [] OTHER -> a = b
-----------------------------------------------------------------------------
(* Pointers and their texts.                                                *)
Flat(parts) == FlattenSeq(parts)

escape(s) ==
    Flat([i \in DOMAIN s |-> CASE s[i] = Tilde -> <<Tilde, 48>> [] s[i] = Slash -> <<Tilde, 49>> [] OTHER -> <<s[i]>>])

RECURSIVE replace_substring(_, _, _)
\* Two bytes by one, from left to right.
replace_substring(s, f, t) ==
    CASE s = <<>> -> <<>>
      [] Len(s) > 1 /\ SubSeq(s, 1, 2) = f -> t \o replace_substring(SubSeq(s, 3, Len(s)), f, t)
      [] OTHER -> <<Head(s)>> \o replace_substring(Tail(s), f, t)

\* Mutant: the other order.
unescape_swapped(s) == replace_substring(replace_substring(s, <<Tilde, 48>>, <<Tilde>>), <<Tilde, 49>>, <<Slash>>)

unescape(s) == replace_substring(replace_substring(s, <<Tilde, 49>>, <<Slash>>), <<Tilde, 48>>, <<Tilde>>)

to_string(ptr) == Flat([i \in DOMAIN ptr |-> <<Slash>> \o escape(ptr[i])])

\* The tokens of a text: what is between the slashes.
split(s) ==
    LET slashes == SelectSeq([i \in 1 .. Len(s) + 1 |-> i], LAMBDA i : Byte(s, i) \in {Slash, Eof})
        token(n) == SubSeq(s, slashes[n] + 1, slashes[n + 1] - 1)
    IN  CASE s = <<>> -> <<"pointer", <<>> >>
          [] s # <<>> /\ s[1] # Slash -> Raised(107)
          [] s # <<>> /\ s[1] = Slash /\ (\E i \in DOMAIN s : s[i] = Tilde /\ Byte(s, i + 1) \notin {48, 49}) ->
                 Raised(108)
          [] OTHER -> <<"pointer", [n \in 1 .. Len(slashes) - 1 |-> unescape(token(n))]>>

\* Mutant: a number may begin with zeros.
array_index_zeros(s) ==
    IF s = <<>> \/ Range(s) \ Digit # {} \/ Natural(s) >= Npos THEN Raised(404) ELSE <<"index", Natural(s)>>

array_index(s) ==
    CASE Len(s) > 1 /\ s[1] = Zero -> Raised(106)
      [] Len(s) > 1 /\ s[1] \notin Digit -> Raised(109)
      [] OTHER ->
         CASE s = <<>> \/ Range(s) \ Digit # {} \/ Natural(s) > Npos -> Raised(404)
           [] Range(s) \subseteq Digit /\ Natural(s) = Npos -> Raised(410)
           [] OTHER -> <<"index", Natural(s)>>
-----------------------------------------------------------------------------
(* Access through a pointer.                                                *)
Dash == <<Minus>>

\* The child of a value that a token names.
Child(v, token) ==
    LET idx == array_index(token)
    IN  CASE v[1] = "object" -> IF token \in DOMAIN v[2] THEN v[2][token] ELSE Raised(403)
          [] v[1] = "array" /\ token = Dash -> Raised(402)
          [] v[1] = "array" /\ token # Dash /\ IsRaised(idx) -> idx
          [] v[1] = "array" /\ token # Dash /\ ~IsRaised(idx) ->
                 IF idx[2] < Len(v[2]) THEN v[2][idx[2] + 1] ELSE Raised(401)
          [] OTHER -> Raised(404)

\* get_checked.
at(v, ptr) == FoldLeft(LAMBDA w, token : IF IsRaised(w) THEN w ELSE Child(w, token), v, ptr)

\* A container with another value for one of its children.
SetChild(v, token, w) ==
    IF v[1] = "object" THEN Object(With(v[2], token, w))
    ELSE LET n == IF token = Dash THEN Len(v[2]) ELSE array_index(token)[2] IN
         Array([i \in 1 .. Max({n + 1, Len(v[2])}) |-> CASE i = n + 1 -> w
                                                         [] i # n + 1 /\ i <= Len(v[2]) -> v[2][i]
                                                         [] OTHER -> Null])

RECURSIVE Put(_, _, _)
\* An assignment to at(ptr), which exists.
Put(v, ptr, w) == IF ptr = <<>> THEN w ELSE SetChild(v, Head(ptr), Put(Child(v, Head(ptr)), Tail(ptr), w))

\* The container that null becomes where something is missing below it: an
\* array with get_and_create for the token 0, with get_unchecked for digits,
\* for no character, and for -; else an object.
Vivified(v, token, unchecked) ==
    CASE v # Null -> v
      [] v = Null /\ IF unchecked THEN Range(token) \subseteq Digit \/ token = Dash ELSE token = <<Zero>> -> Array(<<>>)
      [] OTHER -> Object(NoMembers)

RECURSIVE Assign(_, _, _, _)
\* An assignment to get_unchecked(ptr), or to get_and_create(ptr).
Assign(v, ptr, w, unchecked) ==
    LET token == Head(ptr)
        parent == Vivified(v, token, unchecked)
        idx == array_index(token)
        child == Child(parent, token)
        new == Assign(IF IsRaised(child) THEN Null ELSE child, Tail(ptr), w, unchecked)
    IN  CASE ptr = <<>> -> w
          [] ptr # <<>> /\ ~IsContainer(parent) -> Raised(IF unchecked THEN 404 ELSE 313)
          [] ptr # <<>> /\ parent[1] = "array" /\ IsRaised(idx) /\ ~(unchecked /\ token = Dash) -> idx
          [] OTHER -> IF IsRaised(new) THEN new ELSE SetChild(parent, token, new)

\* The mark of an index, none included, that no index can be.
NoIndex(token) == Range(token) \subseteq Digit /\ (Len(token) > 1 => token[1] # Zero) /\ IsRaised(array_index(token))

RECURSIVE contains(_, _)
\* Whether there is a value; what is no index is none, but may raise.
contains(v, ptr) ==
    LET child == Child(v, Head(ptr))
    IN  CASE ptr = <<>> -> Boolean(TRUE)
          [] ptr # <<>> /\ v[1] = "array" /\ NoIndex(Head(ptr)) -> array_index(Head(ptr))
          [] OTHER -> IF IsRaised(child) THEN Boolean(FALSE) ELSE contains(child, Tail(ptr))
-----------------------------------------------------------------------------
(* flatten and unflatten.                                                   *)
RECURSIVE flatten(_, _)
\* The members that a value adds to the result, by the texts of pointers.
flatten(reference, v) ==
    LET child(token) == flatten(reference \o <<Slash>> \o escape(token), Child(v, token))
        tokens == IF v[1] = "array" THEN {Digits(i - 1) : i \in DOMAIN v[2]} ELSE DOMAIN v[2]
    IN  CASE ~IsContainer(v) -> reference :> v
          [] IsContainer(v) /\ tokens = {} -> reference :> Null
          [] OTHER -> FoldSet(LAMBDA token, map : map @@ child(token), NoMembers, tokens)

\* Members that are not primitive raise 315, before which nothing shows.
unflatten(v) ==
    LET assign(result, key) ==
            LET ptr == split(key)
            IN  CASE IsRaised(result) -> result
                  [] ~IsRaised(result) /\ IsContainer(v[2][key]) -> Raised(315)
                  [] ~IsRaised(result) /\ ~IsContainer(v[2][key]) /\ IsRaised(ptr) -> ptr
                  [] OTHER -> Assign(result, ptr[2], v[2][key], FALSE)
    IN  IF v[1] # "object" THEN Raised(314) ELSE FoldLeft(assign, Null, Keys(v[2]))
-----------------------------------------------------------------------------
(* Patches: arrays of objects with the members op, path, value and from.    *)
Without(map, key) == [k \in DOMAIN map \ {key} |-> map[k]]

\* A null becomes an object; a primitive parent fails an assertion (and stays
\* as it is where assertions are compiled out).
AddTo(parent, token, val) ==
    LET idx == array_index(token)
    IN  CASE IsRaised(parent) -> parent
          [] parent[1] \in {"null", "object"} ->
                 Object(With(IF parent = Null THEN NoMembers ELSE parent[2], token, val))
          [] parent[1] = "array" ->
                 CASE token = Dash -> Array(Append(parent[2], val))
                   [] token # Dash /\ IsRaised(idx) -> idx
                   [] OTHER -> IF idx[2] > Len(parent[2]) THEN Raised(401)
                               ELSE Array(InsertAt(parent[2], idx[2] + 1, val))
          [] OTHER -> Aborted

\* Nothing is removed from a parent that is primitive.
RemoveFrom(parent, token) ==
    LET idx == array_index(token)
    IN  CASE parent[1] = "object" ->
                 IF token \in DOMAIN parent[2] THEN Object(Without(parent[2], token)) ELSE Raised(403)
          [] parent[1] = "array" ->
                 CASE IsRaised(idx) -> idx
                   [] OTHER -> IF idx[2] >= Len(parent[2]) THEN Raised(401) ELSE Array(RemoveAt(parent[2], idx[2] + 1))
          [] OTHER -> parent

\* The value with what its parent becomes at the end of a pointer.
PutParent(v, ptr, parent) == IF Ends(parent) THEN parent ELSE Put(v, Front(ptr), parent)

operation_add(v, ptr, val) ==
    IF ptr = <<>> THEN val ELSE PutParent(v, ptr, AddTo(at(v, Front(ptr)), Last(ptr), val))

operation_remove(v, ptr) ==
    IF ptr = <<>> THEN Raised(405) ELSE PutParent(v, ptr, RemoveFrom(at(v, Front(ptr)), Last(ptr)))

\* A member that an operation must have.
get_value(val, member, string_type) ==
    CASE val[1] # "object" -> Raised(104)
      [] val[1] = "object" /\ member \in DOMAIN val[2] /\ (string_type => val[2][member][1] = "string") -> val[2][member]
      [] OTHER -> Raised(105)

Pointer(text) == IF IsRaised(text) THEN text ELSE split(text[2])

Located(v, pointer) == IF IsRaised(pointer) THEN pointer ELSE at(v, pointer[2])

\* The document after an operation, and what ended it before its end.
Changed(before, after) ==
    IF Ends(after) THEN [value |-> before, ended |-> <<after>>] ELSE [value |-> after, ended |-> <<>>]

\* The comparison of test: what is not there is not the same, but what is no
\* index raises what it raises.
test(found, value) ==
    CASE IsRaised(found) /\ found[2] \in {106, 109} -> found
      [] ~IsRaised(found) /\ Equal(found, value) -> value
      [] OTHER -> Raised(501)

\* What an operation looks at before it changes anything.
Checked(v, op, ptr, from, value) ==
    IF IsRaised(op) THEN <<op>>
    ELSE <<ptr>> \o CASE op[2] \in {"add", "replace"} -> <<value>>
                      [] op[2] = "test" -> <<value, test(Located(v, ptr), value)>>
                      [] op[2] \in {"move", "copy"} -> <<Located(v, from)>>
                      [] op[2] = "remove" -> <<>>
                      [] OTHER -> <<Raised(105)>>

\* An add that fails after the remove of a move leaves it removed.
operation_move(v, removed, ptr, val) ==
    IF IsRaised(removed) THEN Changed(v, removed) ELSE Changed(removed, operation_add(removed, ptr, val))

operation_effect(v, op, ptr, from, value) ==
    CASE op = "add" -> Changed(v, operation_add(v, ptr, value))
      [] op = "remove" -> Changed(v, operation_remove(v, ptr))
      [] op = "replace" -> Changed(v, IF IsRaised(at(v, ptr)) THEN at(v, ptr) ELSE Put(v, ptr, value))
      [] op = "move" -> operation_move(v, operation_remove(v, from), ptr, at(v, from))
      [] op = "copy" -> Changed(v, operation_add(v, ptr, at(v, from)))
      [] op = "test" -> Changed(v, v)

Unless(v, failed, changed) == IF failed # <<>> THEN Changed(v, failed[1]) ELSE changed

Performed(v, op, ptr, from, value) ==
    Unless(v, SelectSeq(Checked(v, op, ptr, from, value), IsRaised), operation_effect(v, op[2], ptr[2], from[2], value))

Operation(v, val) ==
    Performed(v, get_value(val, "op", TRUE), Pointer(get_value(val, "path", TRUE)),
              Pointer(get_value(val, "from", TRUE)), get_value(val, "value", FALSE))

\* The document when a patch ends, or at the first failure.
patch_inplace(v, json_patch) ==
    IF json_patch[1] # "array" THEN Changed(v, Raised(104))
    ELSE FoldLeft(LAMBDA r, val : IF r.ended # <<>> THEN r ELSE Operation(r.value, val),
                  [value |-> v, ended |-> <<>>], json_patch[2])

\* A failure leaves nothing of the copy.
Copy(r) == IF r.ended = <<>> THEN r.value ELSE r.ended[1]

patch(v, json_patch) == Copy(patch_inplace(v, json_patch))
-----------------------------------------------------------------------------
(* diff and merge_patch.                                                    *)
Replaced(path, value) == Object([op |-> String("replace"), path |-> String(path), value |-> value])
Removed(path) == Object([op |-> String("remove"), path |-> String(path)])
Added(path, value) == Object([op |-> String("add"), path |-> String(path), value |-> value])

RECURSIVE diff(_, _, _)
\* The operations that make b of a, the value at path.
diff(a, b, path) ==
    LET below(token) == path \o <<Slash>> \o escape(token)
        common == Min({Len(a[2]), Len(b[2])})
        elements == Flat([i \in 1 .. common |-> diff(a[2][i], b[2][i], below(Digits(i - 1)))])
        surplus == [i \in 1 .. Len(a[2]) - common |-> Removed(below(Digits(Len(a[2]) - i)))]
        appended == [i \in 1 .. Len(b[2]) - common |-> Added(path \o <<Slash>> \o Dash, b[2][common + i])]
        member(k) == IF k \in DOMAIN b[2] THEN diff(a[2][k], b[2][k], below(k)) ELSE <<Removed(below(k))>>
        members == Flat([i \in DOMAIN Keys(a[2]) |-> member(Keys(a[2])[i])])
        others == SelectSeq(Keys(b[2]), LAMBDA k : k \notin DOMAIN a[2])
    IN  CASE Equal(a, b) -> <<>>
          [] ~Equal(a, b) /\ (a[1] # b[1] \/ ~IsContainer(a)) -> <<Replaced(path, b)>>
          [] ~Equal(a, b) /\ a[1] = "array" /\ b[1] = "array" -> elements \o surplus \o appended
          [] OTHER -> members \o [i \in DOMAIN others |-> Added(below(others[i]), b[2][others[i]])]

RECURSIVE merge_patch(_, _)
merge_patch(v, apply_patch) ==
    LET merge(map, k) ==
            LET value == apply_patch[2][k]
            IN  IF value = Null THEN Without(map, k)
                ELSE With(map, k, merge_patch(IF k \in DOMAIN map THEN map[k] ELSE Null, value))
    IN  IF apply_patch[1] # "object" THEN apply_patch
        ELSE Object(FoldLeft(merge, IF v[1] = "object" THEN v[2] ELSE NoMembers, Keys(apply_patch[2])))
=============================================================================
