------------------------------ MODULE JsonLaws ------------------------------
(***************************************************************************)
(* What the binary formats, the pointers and the patches of json.h should  *)
(* do with a value, for the invariants of Inputs.                          *)
(***************************************************************************)
EXTENDS JsonWriter, JsonPatch

CONSTANT PointerTokens      \* reference tokens, of values and not
-----------------------------------------------------------------------------
(* Binary formats.                                                          *)
RECURSIVE Kept(_, _), Subvalues(_)

\* What is left of a value in a format, but for the type of integers.
Kept(f, v) ==
    LET subtype == v[2][2]
    IN  CASE v[1] = "array" -> Array([i \in DOMAIN v[2] |-> Kept(f, v[2][i])])
          [] v[1] = "object" -> Object([k \in DOMAIN v[2] |-> Kept(f, v[2][k])])
          [] IsInteger(v) -> <<"number", v[2]>>
          [] v[1] = "binary" /\ IsUbjson(f) -> Array([i \in DOMAIN v[2][1] |-> <<"number", v[2][1][i]>>])
          [] v[1] = "binary" /\ f.format = "cbor" -> Binary(v[2][1], IF f.tags = "store" THEN subtype ELSE -1)
          [] v[1] = "binary" /\ f.format = "msgpack" -> Binary(v[2][1], IF subtype = -1 THEN -1 ELSE subtype % Radix)
          [] v[1] = "binary" /\ f.format = "bson" -> Binary(v[2][1], IF subtype = -1 THEN 0 ELSE subtype % Radix)
          [] OTHER -> v

\* The same, of what was read.
Integral(v) == Kept([format |-> "none"], v)

Subvalues(v) == {v} \cup IF IsContainer(v) THEN UNION {Subvalues(v[2][i]) : i \in DOMAIN v[2]} ELSE {}

HasSubtype(v) == \E w \in Subvalues(v) : w[1] = "binary" /\ w[2][2] # -1

\* BSON has documents only, keys that end with NUL, and no unsigned type.
Writable(f, v) ==
    f.format # "bson" \/ /\ v[1] = "object"
                         /\ \A w \in Subvalues(v) :
                               /\ w[1] = "object" => \A k \in DOMAIN w[2] : 0 \notin Range(k)
                               /\ w[1] = "number_unsigned" => w[2] <= MaxSigned(4)

\* A reader's result is what is left of a value.
ReadAs(f, v, r) == r.ok /\ Integral(r.value) = Kept(f, v)

\* Bytes of which the reader wants more.
RanOut(r, n) == ~r.ok /\ r.at > n

ReadingsOf(f, ins) == [in \in ins |-> sax_parse(f, in)]

Beginning(in, n) == SubSeq(in, 1, n)

\* Where what is written is cut off: in its first bytes and before its last.
Cuts(w) == 0 .. Min({Len(w) - 1, 12}) \cup {Len(w) - 1}

\* A tag that the reader does not want.
TagRefused(f, v) == f.format = "cbor" /\ f.tags = "error" /\ HasSubtype(v)

\* A value is written unless the format has nothing for it, and read as what
\* is left of it, without a tag that the reader does not want, up to its
\* last byte: what is cut off at any place is refused at its end, and so is
\* another byte, N in UBJSON aside.  BSON starts with its length.
WrittenReads(f, v, w, read) ==
    IF ~Writable(f, v) THEN Thrown \in Range(w)
    ELSE /\ Thrown \notin Range(w)
         /\ IF TagRefused(f, v) THEN ~read[w].ok
            ELSE /\ ReadAs(f, v, read[w])
                 /\ \A b \in {0, 78} : read[Append(w, b)].ok <=> IsUbjson(f) /\ b = 78
                 /\ \A n \in Cuts(w) : RanOut(read[Beginning(w, n)], n)
         /\ f.format = "bson" => get_number(f, w, 0, SignedOf(3)).value = Len(w)

BytesRead(f, v, w) ==
    WrittenReads(f, v, w, ReadingsOf(f, {w} \cup {Append(w, b) : b \in {0, 78}} \cup {Beginning(w, n) : n \in Cuts(w)}))

Reads(f, options, v) == BytesRead(f, v, Written(f, v, options))

\* What is read from bytes is written and read as the same; of what is
\* accepted nothing can be cut off but N.
ReadRewrites(f, options, in, read) ==
    read[in].ok =>
        /\ Writable(f, read[in].value) /\ ~TagRefused(f, read[in].value) =>
              ReadAs(f, read[in].value, sax_parse(f, Written(f, read[in].value, options)))
        /\ \A n \in 0 .. Len(in) - 1 :
              read[Beginning(in, n)].ok => IsUbjson(f) /\ \A i \in n + 1 .. Len(in) : in[i] = 78

Rewrites(f, options, in) == ReadRewrites(f, options, in, ReadingsOf(f, {Beginning(in, n) : n \in 0 .. Len(in)}))
-----------------------------------------------------------------------------
(* Pointers.                                                                *)
RECURSIVE Locations(_), Restored(_)

\* The pointers to the values in a value.
Locations(v) ==
    LET below(token, w) == {<<token>> \o ptr : ptr \in Locations(w)}
    IN  {<<>>} \cup CASE v[1] = "array" -> UNION {below(Digits(i - 1), v[2][i]) : i \in DOMAIN v[2]}
                      [] v[1] = "object" -> UNION {below(k, v[2][k]) : k \in DOMAIN v[2]}
                      [] OTHER -> {}

Pointers(v) == Locations(v) \cup {<<>>} \cup {<<t>> : t \in PointerTokens} \cup {<<t, u>> : t, u \in PointerTokens}

IsPrefixOf(a, b) == Len(a) <= Len(b) /\ SubSeq(b, 1, Len(a)) = a

\* The locations of primitives and of empty containers.
Leaves(v) == {ptr \in Locations(v) : ~\E longer \in Locations(v) : longer # ptr /\ IsPrefixOf(ptr, longer)}

\* What is left of a value that is flattened.
Restored(v) ==
    CASE IsContainer(v) /\ v[2] \in {<<>>, NoMembers} -> Null
      [] v[1] = "array" /\ v[2] # <<>> -> Array([i \in DOMAIN v[2] |-> Restored(v[2][i])])
      [] v[1] = "object" /\ v[2] # NoMembers -> Object([k \in DOMAIN v[2] |-> Restored(v[2][k])])
      [] OTHER -> v

\* An object that is taken for an array: the first of its leaves' pointers,
\* in the order of their texts, is in the member 0.
LikeArray(v) ==
    /\ v[1] = "object"
    /\ \E ptr \in Leaves(v) :
          ptr # <<>> /\ ptr[1] = <<Zero>> /\ \A other \in Leaves(v) : ~LexLess(to_string(other), to_string(ptr))

\* A text is a pointer if and only if it is empty or begins with a slash, and
\* each tilde has a digit that is known; it is the text of its tokens.
TextSplits(s) ==
    LET r == split(s)
    IN  IF /\ s # <<>> => s[1] = Slash
           /\ \A i \in DOMAIN s : s[i] = Tilde => i < Len(s) /\ s[i + 1] \in {48, 49}
        THEN to_string(r[2]) = s ELSE IsRaised(r)

\* A pointer finds what is there and nothing else, and says so without an
\* exception, but for a token at an array that is empty or too large.
ContainsSound(v, ptr, there) ==
    IF IsRaised(there)
    THEN \E i \in DOMAIN ptr : ptr[i] \in {<<>>, Digits(Npos)} /\ at(v, SubSeq(ptr, 1, i - 1))[1] = "array"
    ELSE there = Boolean(ptr \in Locations(v))

\* An assignment through a pointer creates what is missing and changes
\* nothing that was there.
AssignSound(v, ptr, w, set) ==
    IF IsRaised(set) THEN ptr \notin Locations(v)
    ELSE /\ Dash \notin Range(ptr) => at(set, ptr) = w
         /\ \A other \in Leaves(v) : IsPrefixOf(ptr, other) \/ IsPrefixOf(other, ptr) \/ at(set, other) = at(v, other)

\* A value is flattened to its leaves, and made of them again, if no object
\* of it is taken for an array; what is empty is null.
FlattenSound(v, flat) ==
    /\ DOMAIN flat = {to_string(ptr) : ptr \in Leaves(v)}
    /\ \A ptr \in Leaves(v) : flat[to_string(ptr)] = Restored(at(v, ptr))
    /\ unflatten(Object(flat)) = Restored(v) <=> \A w \in Subvalues(v) : ~LikeArray(w)

PointersLocate(v) ==
    LET w == String(<<>>)
    IN  /\ \A ptr \in Pointers(v) :
              /\ split(to_string(ptr)) = <<"pointer", ptr>>
              /\ IsRaised(at(v, ptr)) <=> ptr \notin Locations(v)
              /\ ContainsSound(v, ptr, contains(v, ptr))
              /\ AssignSound(v, ptr, w, Assign(v, ptr, w, TRUE))
        /\ FlattenSound(v, flatten(<<>>, v))
-----------------------------------------------------------------------------
(* Patches.                                                                 *)
PatchStep(op, from, ptr, w) == [op |-> op, from |-> from, ptr |-> ptr, value |-> w]

\* The object of a step, with the members that its operation has.
AsObject(step) ==
    LET members == [op |-> String(step.op), path |-> String(to_string(step.ptr)), from |-> String(to_string(step.from)),
                    value |-> step.value]
        others == CASE step.op \in {"add", "replace", "test"} -> {"value"}
                    [] step.op \in {"copy", "move"} -> {"from"}
                    [] step.op = "remove" -> {}
    IN  Object([m \in {"op", "path"} \cup others |-> members[m]])

\* The steps at pointers to values, below values, and below nothing.
Steps(v) ==
    LET w == String(<<1>>)
        ptrs == Locations(v) \cup {Append(ptr, t) : ptr \in Locations(v), t \in PointerTokens}
                             \cup {<<t, t>> : t \in PointerTokens}
    IN  {PatchStep(op, <<>>, ptr, w) : op \in {"add", "replace", "remove", "test"}, ptr \in ptrs}
        \cup {PatchStep("test", <<>>, ptr, at(v, ptr)) : ptr \in Locations(v)}
        \cup {PatchStep(op, from, ptr, Null) :
                  op \in {"copy", "move"}, from \in Locations(v) \cup {<<Dash, Dash>>}, ptr \in ptrs}

\* Where an add puts its value, in which - is the place after the last.
Target(v, ptr) ==
    LET parent == at(v, Front(ptr))
    IN  IF ptr # <<>> /\ Last(ptr) = Dash /\ parent[1] = "array" THEN Front(ptr) \o <<Digits(Len(parent[2]))>> ELSE ptr

\* Where a value may be added.
Addable(v, ptr) ==
    \/ ptr = <<>>
    \/ /\ Front(ptr) \in Locations(v)
       /\ LET parent == at(v, Front(ptr))
          IN  \/ parent[1] \in {"object", "null"}
              \/ parent[1] = "array" /\ Last(ptr) \in {Dash} \cup {Digits(i) : i \in 0 .. Len(parent[2])}

\* Where nothing is removed, and nothing is missed.
IsBelowPrimitive(v, ptr) == ptr # <<>> /\ Front(ptr) \in Locations(v) /\ ~IsContainer(at(v, Front(ptr)))

\* What a move puts its value into.
Base(v, step) ==
    IF step.op = "move" /\ step.from \in Locations(v) \ {<<>>} THEN operation_remove(v, step.from) ELSE v

\* Whether an add is come to: what it puts was found, and a move has removed
\* it.
Adds(v, step) ==
    /\ step.op \in {"add", "copy", "move"}
    /\ step.op \in {"copy", "move"} => step.from \in Locations(v)
    /\ step.op = "move" => step.from # <<>>

\* Where the value that is to be the parent of another has no place for it.
AddsBelowPrimitive(v, step, base) ==
    Adds(v, step) /\ IsBelowPrimitive(base, step.ptr) /\ at(base, Front(step.ptr)) # Null

Legal(v, step, base) ==
    CASE step.op = "replace" -> step.ptr \in Locations(v)
      [] step.op = "test" -> step.ptr \in Locations(v) /\ at(v, step.ptr) = step.value
      [] step.op = "remove" -> step.ptr \in Locations(v) \ {<<>>} \/ IsBelowPrimitive(v, step.ptr)
      [] OTHER -> Adds(v, step) /\ Addable(base, step.ptr)

\* The value that a step puts, if it does.
PutBy(v, step) == IF step.op \in {"copy", "move"} THEN at(v, step.from) ELSE step.value

\* What undoes a step of which v was the base.
Undoing(v, step) ==
    LET there == step.ptr \in Locations(v)
        parent == at(v, Front(step.ptr))
        of(op, ptr, w) == <<AsObject(PatchStep(op, <<>>, ptr, w))>>
    IN  CASE step.op = "test" \/ (step.op = "remove" /\ ~there) -> <<>>
          [] step.op = "remove" /\ there -> of("add", step.ptr, at(v, step.ptr))
          [] step.op = "replace" \/ (step.op \in {"add", "copy", "move"} /\ step.ptr = <<>>) -> of("replace", step.ptr, at(v, step.ptr))
          [] OTHER ->
               CASE parent = Null -> of("replace", Front(step.ptr), Null)
                 [] parent[1] = "object" /\ there -> of("replace", step.ptr, at(v, step.ptr))
                 [] OTHER -> of("remove", Target(v, step.ptr), Null)

\* r is what the step made of a value, as a patch of its own in place.
StepSound(v, step, base, r) ==
    IF Legal(v, step, base)
    THEN /\ r.ended = <<>> /\ patch(r.value, Array(Undoing(base, step))) = base
         /\ step.op \notin {"remove", "test"} => at(r.value, Target(base, step.ptr)) = PutBy(v, step)
    ELSE r.ended # <<>> /\ IsRaised(r.ended[1]) /\ r.value = base

\* Each operation does what it should where it may, and an inverse of it
\* undoes it exactly; elsewhere it raises an exception, after which nothing
\* has changed in place, but that a move has removed what it moves.  What is
\* removed below a primitive is not missed, and null is a parent like an
\* empty object.  What is added below a primitive is PatchAsserts's.
OperationsUndo(v) ==
    \A step \in Steps(v) :
        LET base == Base(v, step)
        IN  AddsBelowPrimitive(v, step, base) \/ StepSound(v, step, base, patch_inplace(v, Array(<<AsObject(step)>>)))

\* No operation fails an assertion.
AssertsHold(v) == \A step \in Steps(v) : Aborted \notin Range(patch_inplace(v, Array(<<AsObject(step)>>)).ended)

\* The merge patch that a reader of RFC 7396 would write to make b of a.
RECURSIVE MergePatch(_, _)
MergePatch(a, b) ==
    IF a[1] # "object" \/ b[1] # "object" THEN b
    ELSE Object([k \in {k \in DOMAIN a[2] \cup DOMAIN b[2] :
                           k \notin DOMAIN a[2] \cap DOMAIN b[2] \/ a[2][k] # b[2][k]} |->
                    CASE k \notin DOMAIN b[2] -> Null
                      [] k \notin DOMAIN a[2] -> b[2][k]
                      [] OTHER -> MergePatch(a[2][k], b[2][k])])

\* No null is the member of an object outside of arrays.
RECURSIVE Mergeable(_)
Mergeable(v) == v[1] = "object" => \A k \in DOMAIN v[2] : v[2][k] # Null /\ Mergeable(v[2][k])

\* A value that is not raised and the same as another.
Is(v, w) == ~IsRaised(v) /\ Equal(v, w)

\* A patch made from two values makes the one of the other, whatever the
\* order of removals and of additions, and tokens that need an escape
\* included; the merge patch makes it if no member to be made is null.
PatchMakes(a, b) ==
    /\ Is(patch(a, Array(diff(a, b, <<>>))), b)
    /\ Mergeable(b) => merge_patch(a, MergePatch(a, b)) = b
=============================================================================
