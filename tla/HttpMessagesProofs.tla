------------------------- MODULE HttpMessagesProofs -------------------------
(***************************************************************************)
(* Proofs about what HandleHttpData answers and what string_to_request     *)
(* reads, for every text and every request that grows piece by piece:      *)
(* which requests call the window, what HEAD does, that the content of an  *)
(* answer is as long as the answer says, and that a request in order is    *)
(* read with the values of its last lines, its content and the content's   *)
(* length.  The loops over a text are folds, so each fact about them is an *)
(* induction over the text.                                                *)
(***************************************************************************)
EXTENDS Requests, SequenceTheorems, FiniteSetTheorems, TLAPS

OfStrip == INSTANCE FoldProofs WITH op <- Keep

OfWords == INSTANCE FoldProofs WITH op <- WordStep

OfLines == INSTANCE FoldProofs WITH op <- LineStep

OfHeaders == INSTANCE FoldProofs WITH op <- ReadHeader

-----------------------------------------------------------------------------
(* The table of handlers.                                                   *)
\* The paths that GET, or POST, is registered for, with their handlers.
GetPaths == {<<"/version", "status_version">>, <<"/vars", "status_vars">>}

PostPaths == {<<"/func/2d", "status_func2d">>, <<"/func/3d", "status_func3d">>,
              <<"/tab", "operate_tab">>, <<"/add/calc", "operate_calc">>,
              <<"/add/2d", "operate_add2d">>, <<"/add/3d", "operate_add3d">>}

\* The registrations of one path.
Both(path, method, name) == << <<path, "HEAD", name>>, <<path, method, name>> >>

Registrations ==
    {<<p[1], "HEAD", p[2]>> : p \in GetPaths \cup PostPaths}
    \cup {<<p[1], "GET", p[2]>> : p \in GetPaths}
    \cup {<<p[1], "POST", p[2]>> : p \in PostPaths}

\* What is in two sequences is in the one that they make.
LEMMA RangeConcat ==
    ASSUME NEW S, NEW s \in Seq(S), NEW t \in Seq(S)
    PROVE  s \o t \in Seq(S) /\ Range(s \o t) = Range(s) \cup Range(t)
<1>1. PICK m \in Nat, n \in Nat : m = Len(s) /\ n = Len(t)
  BY LenProperties
<1>2. /\ s \o t \in Seq(S) /\ Len(s \o t) = m + n
      /\ \A i \in 1 .. m + n : (s \o t)[i] = IF i <= m THEN s[i] ELSE t[i - m]
  BY <1>1, ConcatProperties
<1>3. DOMAIN s = 1 .. m /\ DOMAIN t = 1 .. n /\ DOMAIN (s \o t) = 1 .. m + n
  BY <1>1, <1>2, LenProperties
<1>4. \A x \in Range(s \o t) : x \in Range(s) \cup Range(t)
  <2> SUFFICES ASSUME NEW i \in 1 .. m + n PROVE (s \o t)[i] \in Range(s) \cup Range(t)
    BY <1>3 DEF Range
  <2>1. CASE i <= m
    <3>1. i \in 1 .. m /\ (s \o t)[i] = s[i]
      BY <1>2, <2>1
    <3>2. s[i] \in Range(s)
      BY <1>3, <3>1 DEF Range
    <3>3. QED
      BY <3>1, <3>2
  <2>2. CASE i > m
    <3>1. i - m \in 1 .. n /\ (s \o t)[i] = t[i - m]
      BY <1>2, <2>2
    <3>2. t[i - m] \in Range(t)
      BY <1>3, <3>1 DEF Range
    <3>3. QED
      BY <3>1, <3>2
  <2>3. i <= m \/ i > m
    OBVIOUS
  <2>4. QED
    BY <2>1, <2>2, <2>3
<1>5. \A i \in 1 .. m : s[i] = (s \o t)[i] /\ i \in 1 .. m + n
  BY <1>2
<1>6. \A i \in 1 .. n : t[i] = (s \o t)[m + i] /\ m + i \in 1 .. m + n
  <2> SUFFICES ASSUME NEW i \in 1 .. n PROVE t[i] = (s \o t)[m + i] /\ m + i \in 1 .. m + n
    OBVIOUS
  <2>1. m + i \in 1 .. m + n /\ ~(m + i <= m) /\ (m + i) - m = i
    OBVIOUS
  <2>2. QED
    BY <1>2, <2>1
<1>7. \A x \in Range(s) \cup Range(t) : x \in Range(s \o t)
  BY <1>3, <1>5, <1>6 DEF Range
<1>8. QED
  BY <1>2, <1>4, <1>7

\* A set of places up to n that is not empty has a least one, if n is small.
LEMMA MinIn == ASSUME NEW I \in SUBSET (1 .. 16), I # {} PROVE Min(I) \in I
<1>1. \E x \in I : \A y \in I : x <= y
  <2>1. CASE \E i \in 1 .. 4 : i \in I
    BY <2>1
  <2>2. CASE (\A i \in 1 .. 4 : i \notin I) /\ \E i \in 5 .. 8 : i \in I
    BY <2>2
  <2>3. CASE (\A i \in 1 .. 8 : i \notin I) /\ \E i \in 9 .. 12 : i \in I
    BY <2>3
  <2>4. CASE (\A i \in 1 .. 12 : i \notin I) /\ \E i \in 13 .. 16 : i \in I
    BY <2>4
  <2>5. \E i \in 1 .. 16 : i \in I
    OBVIOUS
  <2>6. QED
    BY <2>1, <2>2, <2>3, <2>4, <2>5
<1>2. QED
  BY <1>1 DEF Min

\* The two registrations of a path.
LEMMA BothIn ==
    ASSUME NEW R, NEW path, NEW method, NEW name,
           <<path, "HEAD", name>> \in R, <<path, method, name>> \in R
    PROVE  /\ Both(path, method, name) \in Seq(R) /\ Len(Both(path, method, name)) = 2
           /\ Range(Both(path, method, name)) = {<<path, "HEAD", name>>, <<path, method, name>>}
<1>1. PICK x, y : x = <<path, "HEAD", name>> /\ y = <<path, method, name>>
  OBVIOUS
<1>2. <<x, y>> \in Seq(R) /\ Len(<<x, y>>) = 2
  BY <1>1
<1>3. Range(<<x, y>>) = {x, y}
  <2>1. DOMAIN <<x, y>> = {1, 2} /\ <<x, y>>[1] = x /\ <<x, y>>[2] = y
    OBVIOUS
  <2>2. QED
    BY <2>1 DEF Range
<1>4. QED
  BY <1>1, <1>2, <1>3 DEF Both

\* Two sequences with their lengths and ranges make one with theirs.
Listing(s, R, n, X) == s \in Seq(R) /\ Len(s) = n /\ Range(s) = X

\* Joining two such sequences.
LEMMA ListingConcat ==
    ASSUME NEW R, NEW s, NEW t, NEW m \in Nat, NEW n \in Nat, NEW k \in Nat, NEW X, NEW Y,
           Listing(s, R, m, X), Listing(t, R, n, Y), k = m + n
    PROVE  Listing(s \o t, R, k, X \cup Y)
<1>1. s \in Seq(R) /\ t \in Seq(R) /\ Len(s) = m /\ Len(t) = n /\ Range(s) = X /\ Range(t) = Y
  BY DEF Listing
<1>2. s \o t \in Seq(R) /\ Range(s \o t) = X \cup Y
  BY <1>1, RangeConcat
<1>3. Len(s \o t) = k
  BY <1>1, ConcatProperties
<1>4. QED
  BY <1>2, <1>3 DEF Listing

\* What main registers, by path, method and handler.
LEMMA MainRegisters == DOMAIN main = 1 .. 16 /\ Range(main) = Registrations
<1> DEFINE R == Registrations
           Two(path, method, name) == {<<path, "HEAD", name>>, <<path, method, name>>}
<1>1. \A p \in GetPaths : Listing(Both(p[1], "GET", p[2]), R, 2, Two(p[1], "GET", p[2]))
  <2> SUFFICES ASSUME NEW p \in GetPaths
               PROVE  Listing(Both(p[1], "GET", p[2]), R, 2, Two(p[1], "GET", p[2]))
    OBVIOUS
  <2>1. <<p[1], "HEAD", p[2]>> \in R /\ <<p[1], "GET", p[2]>> \in R
    BY DEF Registrations
  <2>2. PICK path, name : path = p[1] /\ name = p[2]
    OBVIOUS
  <2>3. <<path, "HEAD", name>> \in R /\ <<path, "GET", name>> \in R
    BY <2>1, <2>2
  <2>4. Listing(Both(path, "GET", name), R, 2, Two(path, "GET", name))
    <3> HIDE DEF R
    <3>1. QED
      BY <2>3, BothIn DEF Listing
  <2>5. QED
    BY <2>2, <2>4
<1>2. \A p \in PostPaths : Listing(Both(p[1], "POST", p[2]), R, 2, Two(p[1], "POST", p[2]))
  <2> SUFFICES ASSUME NEW p \in PostPaths
               PROVE  Listing(Both(p[1], "POST", p[2]), R, 2, Two(p[1], "POST", p[2]))
    OBVIOUS
  <2>1. <<p[1], "HEAD", p[2]>> \in R /\ <<p[1], "POST", p[2]>> \in R
    BY DEF Registrations
  <2>2. PICK path, name : path = p[1] /\ name = p[2]
    OBVIOUS
  <2>3. <<path, "HEAD", name>> \in R /\ <<path, "POST", name>> \in R
    BY <2>1, <2>2
  <2>4. Listing(Both(path, "POST", name), R, 2, Two(path, "POST", name))
    <3> HIDE DEF R
    <3>1. QED
      BY <2>3, BothIn DEF Listing
  <2>5. QED
    BY <2>2, <2>4
<1>3. PICK b1, b2, b3, b4, b5, b6, b7, b8 :
        /\ b1 = Both("/version", "GET", "status_version") /\ b2 = Both("/vars", "GET", "status_vars")
        /\ b3 = Both("/func/2d", "POST", "status_func2d") /\ b4 = Both("/func/3d", "POST", "status_func3d")
        /\ b5 = Both("/tab", "POST", "operate_tab") /\ b6 = Both("/add/calc", "POST", "operate_calc")
        /\ b7 = Both("/add/2d", "POST", "operate_add2d") /\ b8 = Both("/add/3d", "POST", "operate_add3d")
  OBVIOUS
<1>4. main = b1 \o b2 \o b3 \o b4 \o b5 \o b6 \o b7 \o b8
  BY <1>3 DEF main, Both
<1>5. /\ Listing(b1, R, 2, Two("/version", "GET", "status_version"))
      /\ Listing(b2, R, 2, Two("/vars", "GET", "status_vars"))
  BY <1>1, <1>3 DEF GetPaths
<1>6. /\ Listing(b3, R, 2, Two("/func/2d", "POST", "status_func2d"))
      /\ Listing(b4, R, 2, Two("/func/3d", "POST", "status_func3d"))
      /\ Listing(b5, R, 2, Two("/tab", "POST", "operate_tab"))
      /\ Listing(b6, R, 2, Two("/add/calc", "POST", "operate_calc"))
      /\ Listing(b7, R, 2, Two("/add/2d", "POST", "operate_add2d"))
      /\ Listing(b8, R, 2, Two("/add/3d", "POST", "operate_add3d"))
  BY <1>2, <1>3 DEF PostPaths
<1>7. PICK t1, t2, t3, t4, t5, t6, t7, t8 :
        /\ t1 = Two("/version", "GET", "status_version") /\ t2 = Two("/vars", "GET", "status_vars")
        /\ t3 = Two("/func/2d", "POST", "status_func2d") /\ t4 = Two("/func/3d", "POST", "status_func3d")
        /\ t5 = Two("/tab", "POST", "operate_tab") /\ t6 = Two("/add/calc", "POST", "operate_calc")
        /\ t7 = Two("/add/2d", "POST", "operate_add2d") /\ t8 = Two("/add/3d", "POST", "operate_add3d")
  OBVIOUS
<1>8. Listing(main, R, 16, t1 \cup t2 \cup t3 \cup t4 \cup t5 \cup t6 \cup t7 \cup t8)
  <2> HIDE DEF R, Two
  <2>1. Listing(b1, R, 2, t1) /\ Listing(b2, R, 2, t2)
    BY <1>5, <1>7
  <2>2. /\ Listing(b3, R, 2, t3) /\ Listing(b4, R, 2, t4) /\ Listing(b5, R, 2, t5)
        /\ Listing(b6, R, 2, t6) /\ Listing(b7, R, 2, t7) /\ Listing(b8, R, 2, t8)
    BY <1>6, <1>7
  <2>3. Listing(b1 \o b2, R, 4, t1 \cup t2)
    BY <2>1, ListingConcat
  <2>4. Listing(b1 \o b2 \o b3, R, 6, t1 \cup t2 \cup t3)
    BY <2>2, <2>3, ListingConcat
  <2>5. Listing(b1 \o b2 \o b3 \o b4, R, 8, t1 \cup t2 \cup t3 \cup t4)
    BY <2>2, <2>4, ListingConcat
  <2>6. Listing(b1 \o b2 \o b3 \o b4 \o b5, R, 10, t1 \cup t2 \cup t3 \cup t4 \cup t5)
    BY <2>2, <2>5, ListingConcat
  <2>7. Listing(b1 \o b2 \o b3 \o b4 \o b5 \o b6, R, 12,
                t1 \cup t2 \cup t3 \cup t4 \cup t5 \cup t6)
    BY <2>2, <2>6, ListingConcat
  <2>8. Listing(b1 \o b2 \o b3 \o b4 \o b5 \o b6 \o b7, R, 14,
                t1 \cup t2 \cup t3 \cup t4 \cup t5 \cup t6 \cup t7)
    BY <2>2, <2>7, ListingConcat
  <2>9. Listing(b1 \o b2 \o b3 \o b4 \o b5 \o b6 \o b7 \o b8, R, 16,
                t1 \cup t2 \cup t3 \cup t4 \cup t5 \cup t6 \cup t7 \cup t8)
    BY <2>2, <2>8, ListingConcat
  <2>10. QED
    BY <1>4, <2>9
<1>9. Registrations = t1 \cup t2 \cup t3 \cup t4 \cup t5 \cup t6 \cup t7 \cup t8
  <2>1. \A x \in Registrations : x \in t1 \cup t2 \cup t3 \cup t4 \cup t5 \cup t6 \cup t7 \cup t8
    BY <1>7 DEF Registrations, GetPaths, PostPaths
  <2>2. \A x \in t1 \cup t2 \cup t3 \cup t4 \cup t5 \cup t6 \cup t7 \cup t8 : x \in Registrations
    BY <1>7 DEF Registrations, GetPaths, PostPaths
  <2>3. QED
    BY <2>1, <2>2
<1>10. DOMAIN main = 1 .. 16
  BY <1>8, LenProperties DEF Listing
<1>11. QED
  BY <1>8, <1>9, <1>10 DEF Listing

\* The methods that a path is registered for, and its handler.
Serves(path, methods, name) ==
    \/ <<path, name>> \in GetPaths /\ methods = {"HEAD", "GET"}
    \/ <<path, name>> \in PostPaths /\ methods = {"HEAD", "POST"}

\* A path has one handler.
LEMMA OneHandler ==
    ASSUME NEW path, NEW m, NEW n, NEW x, NEW y, Serves(path, m, x), Serves(path, n, y)
    PROVE  x = y /\ m = n
BY DEF Serves, GetPaths, PostPaths

\* Registrations are the paths with their methods.
LEMMA RegistrationsServe ==
    ASSUME NEW path, NEW method, NEW name
    PROVE  <<path, method, name>> \in Registrations
           <=> \E ms : Serves(path, ms, name) /\ method \in ms
<1>1. ASSUME <<path, method, name>> \in Registrations
      PROVE  \E ms : Serves(path, ms, name) /\ method \in ms
  <2>1. CASE \E p \in GetPaths \cup PostPaths : <<path, method, name>> = <<p[1], "HEAD", p[2]>>
    <3>1. <<path, name>> \in GetPaths \cup PostPaths /\ method = "HEAD"
      BY <2>1 DEF GetPaths, PostPaths
    <3>2. QED
      BY <3>1 DEF Serves
  <2>2. CASE \E p \in GetPaths : <<path, method, name>> = <<p[1], "GET", p[2]>>
    <3>1. <<path, name>> \in GetPaths /\ method = "GET"
      BY <2>2 DEF GetPaths
    <3>2. QED
      BY <3>1 DEF Serves
  <2>3. CASE \E p \in PostPaths : <<path, method, name>> = <<p[1], "POST", p[2]>>
    <3>1. <<path, name>> \in PostPaths /\ method = "POST"
      BY <2>3 DEF PostPaths
    <3>2. QED
      BY <3>1 DEF Serves
  <2>4. QED
    BY <1>1, <2>1, <2>2, <2>3 DEF Registrations
<1>2. ASSUME NEW ms, Serves(path, ms, name), method \in ms
      PROVE  <<path, method, name>> \in Registrations
  <2>0. PICK p : p = <<path, name>>
    OBVIOUS
  <2>1. p = <<path, name>> /\ p[1] = path /\ p[2] = name
    BY <2>0
  <2>2. CASE p \in GetPaths /\ method \in {"HEAD", "GET"}
    BY <2>1, <2>2 DEF Registrations
  <2>3. CASE p \in PostPaths /\ method \in {"HEAD", "POST"}
    BY <2>1, <2>3 DEF Registrations
  <2>4. QED
    BY <1>2, <2>1, <2>2, <2>3 DEF Serves
<1>3. QED
  BY <1>1, <1>2

\* The table has the registrations, the first of a path and a method.
LEMMA Table ==
    /\ \A path, method : <<path, method>> \in DOMAIN request_handlers
                         <=> \E ms, name : Serves(path, ms, name) /\ method \in ms
    /\ \A key \in DOMAIN request_handlers : key = <<key[1], key[2]>>
    /\ \A path, method : <<path, method>> \in DOMAIN request_handlers =>
          \E ms : Serves(path, ms, request_handlers[<<path, method>>]) /\ method \in ms
<1> DEFINE K == {<<r[1], r[2]>> : r \in Registrations}
<1>1. DOMAIN request_handlers = K
  BY MainRegisters DEF request_handlers
<1>2. \A r \in Registrations : r = <<r[1], r[2], r[3]>>
  BY DEF Registrations
<1>3. ASSUME NEW path, NEW method
      PROVE  <<path, method>> \in K <=> \E name : <<path, method, name>> \in Registrations
  <2>1. ASSUME <<path, method>> \in K PROVE \E name : <<path, method, name>> \in Registrations
    <3>1. PICK r \in Registrations : <<path, method>> = <<r[1], r[2]>>
      BY <2>1
    <3>2. r = <<path, method, r[3]>>
      BY <1>2, <3>1
    <3>3. QED
      BY <3>2
  <2>2. ASSUME NEW name, <<path, method, name>> \in Registrations PROVE <<path, method>> \in K
    <3>0. PICK r : r = <<path, method, name>>
      OBVIOUS
    <3>1. r = <<path, method, name>> /\ r[1] = path /\ r[2] = method
      BY <3>0
    <3>2. QED
      BY <2>2, <3>1
  <2>3. QED
    BY <2>1, <2>2
<1>4. \A key \in K : key = <<key[1], key[2]>>
  OBVIOUS
<1>5. ASSUME NEW path, NEW method, <<path, method>> \in K
      PROVE  <<path, method, request_handlers[<<path, method>>]>> \in Registrations
  <2> DEFINE I == {i \in DOMAIN main : main[i][1] = path /\ main[i][2] = method}
  <2>0. PICK key : key = <<path, method>>
    OBVIOUS
  <2>1. key = <<path, method>> /\ key[1] = path /\ key[2] = method
    BY <2>0
  <2>2. request_handlers[key] = main[Min(I)][3]
    BY <1>1, <1>5, <2>1, MainRegisters DEF request_handlers
  <2>3. PICK name : <<path, method, name>> \in Registrations
    BY <1>3, <1>5
  <2>4. PICK i \in 1 .. 16 : main[i] = <<path, method, name>>
    BY <2>3, MainRegisters DEF Range
  <2>5. I \in SUBSET (1 .. 16) /\ i \in I
    BY <2>4, MainRegisters
  <2>6. Min(I) \in I
    BY <2>5, MinIn
  <2>7. PICK j \in 1 .. 16 : j = Min(I)
    BY <2>5, <2>6, SMTT(30)
  <2>8. main[j] \in Registrations /\ main[j][1] = path /\ main[j][2] = method
    BY <2>6, <2>7, MainRegisters DEF Range
  <2>9. QED
    BY <1>2, <2>1, <2>2, <2>7, <2>8
<1> HIDE DEF K
<1>6. QED
  BY <1>1, <1>3, <1>4, <1>5, RegistrationsServe

\* Who answers a request: nobody for an unknown path, nobody for a method
\* that its path is not registered for, or the handler of the path.
LEMMA Dispatch ==
    ASSUME NEW r, NEW shown
    PROVE  \/ /\ \A path, ms, name : Serves(path, ms, name) => r.uri # << path >>
              /\ HandleHttpRequest(r, shown) = Effect(Response("404"), <<>>)
           \/ \E path, ms, name :
                 /\ Serves(path, ms, name) /\ r.uri = << path >>
                 /\ HandleHttpRequest(r, shown) =
                       IF r.method \in ms THEN Handler(name, r.content, shown)
                       ELSE Effect(Response("405"), <<>>)
<1> DEFINE at == {key \in DOMAIN request_handlers : << key[1] >> = r.uri}
<1>1. CASE at = {}
  <2>1. HandleHttpRequest(r, shown) = Effect(Response("404"), <<>>)
    BY <1>1 DEF HandleHttpRequest
  <2>2. ASSUME NEW path, NEW ms, NEW name, Serves(path, ms, name) PROVE r.uri # << path >>
    <3>1. "HEAD" \in ms
      BY <2>2 DEF Serves
    <3>0. PICK key : key = <<path, "HEAD">>
      OBVIOUS
    <3>2. key = <<path, "HEAD">> /\ key[1] = path
      BY <3>0
    <3>3. key \in DOMAIN request_handlers
      BY <2>2, <3>1, <3>2, Table
    <3>4. QED
      BY <1>1, <3>2, <3>3
  <2>3. QED
    BY <2>1, <2>2
<1>2. CASE at # {}
  <2>1. PICK path, other : <<path, other>> \in DOMAIN request_handlers /\ r.uri = << path >>
    <3>1. PICK key \in DOMAIN request_handlers : << key[1] >> = r.uri
      BY <1>2
    <3>2. key = <<key[1], key[2]>>
      BY <3>1, Table
    <3>3. QED
      BY <3>1, <3>2
  <2>2. PICK ms, name : Serves(path, ms, name)
    BY <2>1, Table
  <2>3. \A method : <<path, method>> \in DOMAIN request_handlers <=> method \in ms
    BY <2>2, Table, OneHandler
  <2>4. \A key \in at : key = <<path, key[2]>> /\ key[2] \in ms
    <3> SUFFICES ASSUME NEW key \in at PROVE key = <<path, key[2]>> /\ key[2] \in ms
      OBVIOUS
    <3>1. key \in DOMAIN request_handlers /\ key = <<key[1], key[2]>> /\ key[1] = path
      BY <2>1, Table
    <3>2. QED
      BY <2>3, <3>1
  <2>5. CASE r.method \in ms
    <3>0. PICK key : key = <<path, r.method>>
      OBVIOUS
    <3>1. key = <<path, r.method>> /\ key[1] = path /\ key[2] = r.method
      BY <3>0
    <3>2. key \in at
      BY <2>1, <2>3, <2>5, <3>1
    <3>3. \A k \in at : k[2] = r.method => k = key
      BY <2>4, <3>1
    <3>4. (CHOOSE k \in at : k[2] = r.method) = key
      BY <3>1, <3>2, <3>3
    <3>5. HandleHttpRequest(r, shown) = Handler(request_handlers[key], r.content, shown)
      BY <1>2, <3>1, <3>2, <3>4 DEF HandleHttpRequest
    <3>6. request_handlers[key] = name
      BY <2>2, <2>3, <2>5, <3>1, Table, OneHandler
    <3>7. QED
      BY <2>1, <2>2, <2>5, <3>5, <3>6
  <2>6. CASE r.method \notin ms
    <3>1. \A k \in at : k[2] # r.method
      BY <2>4, <2>6
    <3>2. HandleHttpRequest(r, shown) = Effect(Response("405"), <<>>)
      BY <1>2, <3>1 DEF HandleHttpRequest
    <3>3. QED
      BY <2>1, <2>2, <2>6, <3>2
  <2>7. QED
    BY <2>5, <2>6
<1>3. QED
  BY <1>1, <1>2
-----------------------------------------------------------------------------
(* The answers.                                                             *)
\* A message by its parts, and a header set among others.
Message(status, headers, content) == [status |-> status, headers |-> headers, content |-> content]

With(headers, key, value) ==
    [k \in DOMAIN headers \cup {key} |-> IF k = key THEN value ELSE headers[k]]

\* A header that was set is there.
LEMMA WithKey ==
    ASSUME NEW h, NEW key, NEW value
    PROVE  key \in DOMAIN With(h, key, value) /\ With(h, key, value)[key] = value
BY DEF With

\* SetHeader and SetContent by their parts.
LEMMA SetHeaderOf ==
    ASSUME NEW status, NEW h, NEW content, NEW key, NEW value
    PROVE  SetHeader(Message(status, h, content), key, value)
              = Message(status, With(h, key, value), content)
<1>1. PICK m : m = Message(status, h, content)
  OBVIOUS
<1>2. m = [status |-> status, headers |-> h, content |-> content] /\ m.headers = h
  BY <1>1 DEF Message
<1>3. SetHeader(m, key, value) = [m EXCEPT !.headers = With(m.headers, key, value)]
  BY DEF SetHeader, With
<1>4. PICK g : g = With(m.headers, key, value)
  OBVIOUS
<1>5. [m EXCEPT !.headers = g] = [status |-> status, headers |-> g, content |-> content]
  BY <1>2
<1>6. QED
  BY <1>1, <1>2, <1>3, <1>4, <1>5 DEF Message

\* SetContent changes the content and the header of its length only.
LEMMA SetContentOf ==
    ASSUME NEW status, NEW h, NEW old, NEW content
    PROVE  SetContent(Message(status, h, old), content)
              = Message(status, With(h, ContentLength, LengthText(content)), content)
<1>1. PICK g : g = With(h, ContentLength, LengthText(content))
  OBVIOUS
<1>2. PICK m : m = Message(status, g, old)
  OBVIOUS
<1>3. SetContent(Message(status, h, old), content) = [m EXCEPT !.content = content]
  BY <1>1, <1>2, SetHeaderOf DEF SetContent
<1>4. [m EXCEPT !.content = content] = Message(status, g, content)
  BY <1>2 DEF Message
<1>5. QED
  BY <1>1, <1>3, <1>4

\* A new response is a message without headers and content.
LEMMA ResponseOf ==
    ASSUME NEW status PROVE Response(status) = Message(status, NoHeaders, <<>>)
BY DEF Response, Message

\* A message with content says how long it is.
SaysLength(m) ==
    ContentLength \in DOMAIN m.headers /\ m.headers[ContentLength] = LengthText(m.content)

\* After SetContent a message says its length.
LEMMA LengthSaid ==
    ASSUME NEW status, NEW h, NEW old, NEW content, NEW m,
           m = SetContent(Message(status, h, old), content)
    PROVE  m.status = status /\ m.content = content /\ SaysLength(m)
<1>1. PICK g : g = With(h, ContentLength, LengthText(content))
  OBVIOUS
<1>2. ContentLength \in DOMAIN g /\ g[ContentLength] = LengthText(content)
  BY <1>1, WithKey
<1>3. m = Message(status, g, content)
  BY <1>1, SetContentOf
<1>4. m.status = status /\ m.headers = g /\ m.content = content
  BY <1>3 DEF Message
<1>5. QED
  BY <1>2, <1>4 DEF SaysLength

\* An answer 200 does, and one that says why there is none.
LEMMA OkAnswer == ASSUME NEW content PROVE Ok(content).status = "200" /\ SaysLength(Ok(content))
<1>1. PICK h : h = With(NoHeaders, <<"Content-Type">>, <<"application/json">>)
  OBVIOUS
<1>2. SetHeader(Response("200"), <<"Content-Type">>, <<"application/json">>)
         = Message("200", h, <<>>)
  BY <1>1, ResponseOf, SetHeaderOf
<1>3. Ok(content) = SetContent(Message("200", h, <<>>), content)
  BY <1>2 DEF Ok
<1>4. QED
  BY <1>3, LengthSaid

\* The answer to a text that is no request says its length.
LEMMA SorryAnswer ==
    ASSUME NEW status, NEW content, NEW m, m = SetContent(Response(status), content)
    PROVE  m.status = status /\ m.content = content /\ SaysLength(m)
<1>1. m = SetContent(Message(status, NoHeaders, <<>>), content)
  BY ResponseOf
<1>2. QED
  BY <1>1, LengthSaid

\* What says nothing has no header.
LEMMA EmptyAnswer ==
    ASSUME NEW status
    PROVE  /\ Response(status).status = status /\ Response(status).content = <<>>
           /\ ContentLength \notin DOMAIN Response(status).headers
BY DEF Response, NoHeaders

\* What a handler does, by the methods of its path.
Outcome(path, ms, e) ==
    \/ e = Throws("abort") /\ path = "/tab"
    \/ e = Refused
    \/ \E word : e = Effect(Ok(<< word >>), <<>>)
    \/ ms = {"HEAD", "POST"} /\ \E word, call : e = Effect(Ok(<< word >>), <<call>>)

\* Each handler of main.cpp ends in one of these, as the methods of its path
\* allow.
LEMMA HandlerAnswers ==
    ASSUME NEW path, NEW ms, NEW name, NEW query, NEW shown, Serves(path, ms, name)
    PROVE  Outcome(path, ms, Handler(name, query, shown))
<1> USE DEF Outcome
<1>1. CASE name \in {"status_version", "status_vars"}
  BY <1>1 DEF Handler
<1>2. CASE name \in {"status_func2d", "status_func3d"}
  BY <1>2 DEF Handler, status_func
<1>3. CASE name = "operate_tab"
  <2>1. path = "/tab" /\ ms = {"HEAD", "POST"}
    BY <1>3 DEF Serves, GetPaths, PostPaths
  <2>2. Handler(name, query, shown) = operate_tab(query)
    BY <1>3 DEF Handler
  <2>3. CASE stoi(query) = <<>> \/ ~FitsInt(stoi(query))
    <3>1. FitsInt(<<"1">>) /\ <<"1">> # <<>>
      BY DEF FitsInt
    <3>2. stoi(query) # <<"1">>
      BY <2>3, <3>1
    <3>3. QED
      BY <2>2, <2>3, <3>2 DEF operate_tab
  <2>4. CASE stoi(query) = <<"1">>
    <3>1. FitsInt(<<"1">>)
      BY DEF FitsInt
    <3>2. QED
      BY <2>1, <2>2, <2>4, <3>1 DEF operate_tab
  <2>5. CASE ~(stoi(query) = <<>> \/ ~FitsInt(stoi(query))) /\ stoi(query) # <<"1">>
    BY <2>1, <2>2, <2>5 DEF operate_tab
  <2>6. QED
    BY <2>3, <2>4, <2>5
<1>4. CASE name \in {"operate_calc", "operate_add2d", "operate_add3d"}
  <2>1. ms = {"HEAD", "POST"}
    BY <1>4 DEF Serves, GetPaths, PostPaths
  <2>2. Handler(name, query, shown) = Effect(Ok(<<"OK">>), << <<name, query>> >>)
    BY <1>4 DEF Handler
  <2>3. QED
    BY <2>1, <2>2
<1>5. QED
  BY <1>1, <1>2, <1>3, <1>4 DEF Serves, GetPaths, PostPaths

\* The window is called at most once, for an answer 200 and a method that may
\* change it; an answer with content says its length, and one without a
\* length has no content.
Tells(method, e) ==
    /\ e.calls # <<>> =>
          Len(e.calls) = 1 /\ e.response.status = "200" /\ method \in {"POST", "HEAD"}
    /\ IF ContentLength \in DOMAIN e.response.headers
       THEN e.response.headers[ContentLength] = LengthText(e.response.content)
       ELSE e.response.content = <<>> /\ e.response.status \in {"400", "404", "405"}

\* Each of the answers does.
LEMMA OkTells == ASSUME NEW method, NEW content PROVE Tells(method, Effect(Ok(content), <<>>))
BY OkAnswer DEF Tells, Effect, SaysLength

\* An answer with a call of the window.
LEMMA CallTells ==
    ASSUME NEW method \in {"POST", "HEAD"}, NEW content, NEW call
    PROVE  Tells(method, Effect(Ok(content), <<call>>))
BY OkAnswer DEF Tells, Effect, SaysLength

\* An answer without content.
LEMMA EmptyTells ==
    ASSUME NEW method, NEW status \in {"400", "404", "405"}
    PROVE  Tells(method, Effect(Response(status), <<>>))
BY EmptyAnswer DEF Tells, Effect

\* A response and calls are no exception.
LEMMA EffectNoThrow == ASSUME NEW response, NEW calls PROVE ~Threw(Effect(response, calls))
BY DEF Threw, Effect

\* Whatever the request and its content, the window is called at most once,
\* only for an answer 200 and never for GET, an answer says its length unless
\* it has no content, and only /tab may stay without an answer
\* (HttpServer::HandleHttpRequest and the handlers of main.cpp).
THEOREM RequestAnswered ==
    ASSUME NEW r, NEW shown
    PROVE  IF Threw(HandleHttpRequest(r, shown))
           THEN r.uri = <<"/tab">> /\ r.method \in {"POST", "HEAD"}
           ELSE Tells(r.method, HandleHttpRequest(r, shown))
<1> DEFINE e == HandleHttpRequest(r, shown)
<1>1. CASE e = Effect(Response("404"), <<>>) \/ e = Effect(Response("405"), <<>>)
  BY <1>1, EmptyTells, EffectNoThrow
<1>2. CASE \E path, ms, name : /\ Serves(path, ms, name) /\ r.uri = << path >> /\ r.method \in ms
                               /\ e = Handler(name, r.content, shown)
  <2>1. PICK path, ms, name : /\ Serves(path, ms, name) /\ r.uri = << path >> /\ r.method \in ms
                              /\ e = Handler(name, r.content, shown)
    BY <1>2
  <2>2. CASE e = Throws("abort") /\ path = "/tab"
    <3>1. Threw(e)
      BY <2>2 DEF Throws, Threw
    <3>2. ms = {"HEAD", "POST"}
      BY <2>1, <2>2 DEF Serves, GetPaths, PostPaths
    <3>3. QED
      BY <2>1, <2>2, <3>1, <3>2
  <2>3. CASE e = Refused
    BY <2>3, EmptyTells, EffectNoThrow DEF Refused
  <2>4. CASE \E word : e = Effect(Ok(<< word >>), <<>>)
    BY <2>4, OkTells, EffectNoThrow
  <2>5. CASE ms = {"HEAD", "POST"} /\ \E word, call : e = Effect(Ok(<< word >>), <<call>>)
    BY <2>1, <2>5, CallTells, EffectNoThrow
  <2>6. Outcome(path, ms, e)
    BY <2>1, HandlerAnswers
  <2>7. QED
    BY <2>2, <2>3, <2>4, <2>5, <2>6 DEF Outcome
<1> HIDE DEF e
<1>3. QED
  BY <1>1, <1>2, Dispatch DEF e

\* HEAD does what the other method of its path does, its effect on the window
\* included (main registers the same handler for both).
THEOREM HeadDoesTheSame ==
    ASSUME NEW head, NEW r, NEW shown,
           head.method = "HEAD", r.uri = head.uri, r.content = head.content,
           r.method = IF r.uri \in {<<"/version">>, <<"/vars">>} THEN "GET" ELSE "POST"
    PROVE  HandleHttpRequest(head, shown) = HandleHttpRequest(r, shown)
<1>1. CASE \A path, ms, name : Serves(path, ms, name) => r.uri # << path >>
  BY <1>1, Dispatch
<1>2. CASE \E path, ms, name : Serves(path, ms, name) /\ r.uri = << path >>
  <2>1. PICK path, ms, name : Serves(path, ms, name) /\ r.uri = << path >>
    BY <1>2
  <2>2. \A p, m, n : Serves(p, m, n) /\ r.uri = << p >> => m = ms /\ n = name
    <3> SUFFICES ASSUME NEW p, NEW m, NEW n, Serves(p, m, n), r.uri = << p >>
                 PROVE  m = ms /\ n = name
      OBVIOUS
    <3>1. p = path
      BY <2>1
    <3>2. QED
      BY <2>1, <3>1, OneHandler
  <2>3. "HEAD" \in ms /\ r.method \in ms
    BY <2>1 DEF Serves, GetPaths, PostPaths
  <2>4. HandleHttpRequest(r, shown) = Handler(name, r.content, shown)
    BY <2>1, <2>2, <2>3, Dispatch, ZenonT(30)
  <2>5. HandleHttpRequest(head, shown) = Handler(name, head.content, shown)
    <3>1. /\ head.uri = << path >> /\ head.method \in ms
          /\ \A p, m, n : Serves(p, m, n) /\ head.uri = << p >> => m = ms /\ n = name
      BY <2>1, <2>2, <2>3
    <3>2. \E p, m, n :
             /\ Serves(p, m, n) /\ head.uri = << p >>
             /\ HandleHttpRequest(head, shown) =
                   IF head.method \in m THEN Handler(n, head.content, shown)
                   ELSE Effect(Response("405"), <<>>)
      BY <2>1, <3>1, Dispatch
    <3>3. QED
      BY <3>1, <3>2
  <2>6. QED
    BY <2>4, <2>5
<1>3. QED
  BY <1>1, <1>2

\* What says that a text is no request does nothing and is sent with its
\* content.
LEMMA SorrySent ==
    ASSUME NEW status, NEW a, a = Sent(Effect(SetContent(Response(status), <<"what">>), <<>>), TRUE)
    PROVE  /\ ~Threw(a) /\ a.send /\ a.calls = <<>> /\ a.response.content = <<"what">>
           /\ a.response.status = status /\ Tells("GET", a)
<1>1. PICK m : m = SetContent(Response(status), <<"what">>)
  OBVIOUS
<1>2. m.status = status /\ m.content = <<"what">> /\ SaysLength(m)
  BY <1>1, SorryAnswer
<1>3. ~Threw(a) /\ a.response = m /\ a.calls = <<>> /\ a.send = TRUE
  <2>1. PICK e : e = Effect(m, <<>>)
    OBVIOUS
  <2>2. a = Sent(e, TRUE)
    BY <1>1, <2>1
  <2>3. e.response = m /\ e.calls = <<>>
    BY <2>1 DEF Effect
  <2>4. a.response = e.response /\ a.calls = e.calls /\ a.send = TRUE
    BY <2>2 DEF Sent
  <2>5. ~Threw(a)
    BY <2>2 DEF Sent, Threw
  <2>6. QED
    BY <2>3, <2>4, <2>5
<1>4. Tells("GET", a)
  BY <1>2, <1>3 DEF Tells, SaysLength
<1>5. QED
  BY <1>2, <1>3, <1>4

\* What is read of a text: all before a NUL.
Received(text) ==
    LET nul == find(text, <<"NUL">>)
    IN  string_to_request(IF nul = 0 THEN text ELSE SubSeq(text, 1, nul - 1))

\* Whatever is received, a text that is no request is answered with content,
\* whichever method it says, and does nothing; a request is answered as above
\* and the content left out for HEAD (HttpServer::HandleHttpData).
THEOREM TextAnswered ==
    ASSUME NEW text, NEW shown
    PROVE  LET r == Received(text)
               a == HandleHttpData(text, shown)
           IN  IF r \in {Throws("invalid_argument"), Throws("logic_error")}
               THEN /\ ~Threw(a) /\ a.send /\ a.calls = <<>> /\ a.response.content = <<"what">>
                    /\ a.response.status = IF r = Throws("logic_error") THEN "505" ELSE "400"
                    /\ Tells("GET", a)
               ELSE IF Threw(a) THEN r.uri = <<"/tab">> /\ r.method \in {"POST", "HEAD"}
                    ELSE Tells(r.method, a) /\ a.send = (r.method # "HEAD")
<1> DEFINE r == Received(text)
           sorry(status) == SetContent(Response(status), <<"what">>)
           e == HandleHttpRequest(r, shown)
<1>1. Throws("invalid_argument") # Throws("logic_error")
  BY DEF Throws
<1>2. HandleHttpData(text, shown) =
         CASE r = Throws("invalid_argument") -> Sent(Effect(sorry("400"), <<>>), TRUE)
           [] r = Throws("logic_error") -> Sent(Effect(sorry("505"), <<>>), TRUE)
           [] OTHER -> IF Threw(e) THEN e ELSE Sent(e, r.method # "HEAD")
  BY DEF HandleHttpData, Received
<1> HIDE DEF r, e
<1>3. \A status \in {"400", "505"} :
         LET a == Sent(Effect(sorry(status), <<>>), TRUE)
         IN  /\ ~Threw(a) /\ a.send /\ a.calls = <<>> /\ a.response.content = <<"what">>
             /\ a.response.status = status /\ Tells("GET", a)
  <2> SUFFICES ASSUME NEW status \in {"400", "505"}, NEW a, a = Sent(Effect(sorry(status), <<>>), TRUE)
               PROVE  /\ ~Threw(a) /\ a.send /\ a.calls = <<>> /\ a.response.content = <<"what">>
                      /\ a.response.status = status /\ Tells("GET", a)
    OBVIOUS
  <2>1. QED
    BY SorrySent
<1>4. \A send : ~Threw(Sent(e, send)) /\ Sent(e, send).send = send
                /\ Sent(e, send).calls = e.calls /\ Sent(e, send).response = e.response
  BY DEF Sent, Threw
<1>5. CASE r = Throws("invalid_argument")
  <2>1. HandleHttpData(text, shown) = Sent(Effect(sorry("400"), <<>>), TRUE)
    BY <1>1, <1>2, <1>5
  <2>2. QED
    BY <1>1, <1>3, <1>5, <2>1 DEF r
<1>6. CASE r = Throws("logic_error")
  <2>1. HandleHttpData(text, shown) = Sent(Effect(sorry("505"), <<>>), TRUE)
    BY <1>1, <1>2, <1>6
  <2>2. QED
    BY <1>1, <1>3, <1>6, <2>1 DEF r
<1>7. CASE r \notin {Throws("invalid_argument"), Throws("logic_error")}
  <2>1. HandleHttpData(text, shown) = IF Threw(e) THEN e ELSE Sent(e, r.method # "HEAD")
    BY <1>2, <1>7
  <2>2. IF Threw(e) THEN r.uri = <<"/tab">> /\ r.method \in {"POST", "HEAD"} ELSE Tells(r.method, e)
    BY RequestAnswered DEF e
  <2>3. CASE Threw(e)
    BY <1>7, <2>1, <2>2, <2>3 DEF r
  <2>4. CASE ~Threw(e)
    <3>1. PICK a : a = Sent(e, r.method # "HEAD")
      OBVIOUS
    <3>2. ~Threw(a) /\ a.send = (r.method # "HEAD") /\ Tells(r.method, a)
      BY <1>4, <2>2, <2>4, <3>1 DEF Tells
    <3>3. QED
      BY <1>7, <2>1, <2>4, <3>1, <3>2 DEF r
  <2>5. QED
    BY <2>3, <2>4
<1>8. QED
  BY <1>5, <1>6, <1>7
-----------------------------------------------------------------------------
(* Texts, and the folds over them.                                          *)
\* FlattenSeq is that of the module of folds.
LEMMA Flattened == ASSUME NEW s PROVE FlattenSeq(s) = OfStrip!FlattenSeq(s)
BY DEF FlattenSeq, OfStrip!FlattenSeq

\* No parts, no tokens; a part more comes after the others; parts of texts
\* are texts.
LEMMA FlattenEmpty == FlattenSeq(<<>>) = <<>>
BY Flattened, OfStrip!FlattenNone

\* A part more.
LEMMA FlattenAppend ==
    ASSUME NEW S, NEW s \in Seq(Seq(S)), NEW e \in Seq(S)
    PROVE  FlattenSeq(Append(s, e)) = FlattenSeq(s) \o e
BY Flattened, OfStrip!FlattenOneMore

\* The type of the whole.
LEMMA FlattenType == ASSUME NEW S, NEW s \in Seq(Seq(S)) PROVE FlattenSeq(s) \in Seq(S)
BY Flattened, OfStrip!FlattenInSeq

\* strip is a fold.
LEMMA StripFolded == ASSUME NEW s PROVE strip(s) = OfStrip!Folded(<<>>, s)
BY DEF strip, FoldLeft, MapThenFoldSet, Max, OfStrip!Folded, OfStrip!FoldLeft, OfStrip!MapThenFoldSet, OfStrip!Max

\* The runs of words, and of lines, in what was read so far.
WordRuns(s) == FoldLeft(WordStep, NoRuns, s)

LineRuns(s) == FoldLeft(LineStep, NoRuns, s)

\* They are folds.
LEMMA WordsFolded == ASSUME NEW s PROVE WordRuns(s) = OfWords!Folded(NoRuns, s)
BY DEF WordRuns, FoldLeft, MapThenFoldSet, Max, OfWords!Folded, OfWords!FoldLeft, OfWords!MapThenFoldSet, OfWords!Max

\* Lines, too.
LEMMA LinesFolded == ASSUME NEW s PROVE LineRuns(s) = OfLines!Folded(NoRuns, s)
BY DEF LineRuns, FoldLeft, MapThenFoldSet, Max, OfLines!Folded, OfLines!FoldLeft, OfLines!MapThenFoldSet, OfLines!Max

\* What the lines of a header make of a request.
HeadersRead(acc, lines) == FoldLeft(ReadHeader, acc, lines)

\* It is a fold as well.
LEMMA HeadersFolded == ASSUME NEW acc, NEW s PROVE HeadersRead(acc, s) = OfHeaders!Folded(acc, s)
BY DEF HeadersRead, FoldLeft, MapThenFoldSet, Max, OfHeaders!Folded, OfHeaders!FoldLeft, OfHeaders!MapThenFoldSet, OfHeaders!Max

\* Of nothing these are what they start with.
LEMMA FoldsEmpty ==
    strip(<<>>) = <<>> /\ WordRuns(<<>>) = NoRuns /\ LineRuns(<<>>) = NoRuns
    /\ \A acc : HeadersRead(acc, <<>>) = acc
BY StripFolded, WordsFolded, LinesFolded, HeadersFolded, OfStrip!FoldEmpty, OfWords!FoldEmpty, OfLines!FoldEmpty,
   OfHeaders!FoldEmpty

\* A token more, or a line more, is one step more.
LEMMA FoldsAppend ==
    ASSUME NEW S, NEW s \in Seq(S), NEW e
    PROVE  /\ strip(Append(s, e)) = Keep(strip(s), e)
           /\ WordRuns(Append(s, e)) = WordStep(WordRuns(s), e)
           /\ LineRuns(Append(s, e)) = LineStep(LineRuns(s), e)
           /\ \A acc : HeadersRead(acc, Append(s, e)) = ReadHeader(HeadersRead(acc, s), e)
<1>1. strip(Append(s, e)) = Keep(strip(s), e)
  BY StripFolded, OfStrip!FoldAppend
<1>2. WordRuns(Append(s, e)) = WordStep(WordRuns(s), e)
  BY WordsFolded, OfWords!FoldAppend
<1>3. LineRuns(Append(s, e)) = LineStep(LineRuns(s), e)
  BY LinesFolded, OfLines!FoldAppend
<1>4. ASSUME NEW acc PROVE HeadersRead(acc, Append(s, e)) = ReadHeader(HeadersRead(acc, s), e)
  BY HeadersFolded, OfHeaders!FoldAppend
<1>5. QED
  BY <1>1, <1>2, <1>3, <1>4

\* What is stripped of a text is a text, and stripping goes on behind it.
LEMMA StripConcat ==
    ASSUME NEW S, NEW s \in Seq(S)
    PROVE  strip(s) \in Seq(S) /\ \A t \in Seq(S) : strip(s \o t) = strip(s) \o strip(t) /\ strip(t) \in Seq(S)
<1> DEFINE T == {t \in Seq(S) : strip(t) \in Seq(S)}
           U == {t \in Seq(S) : strip(s \o t) = strip(s) \o strip(t)}
<1>1. Seq(S) \subseteq T
  <2>1. <<>> \in T
    <3>1. strip(<<>>) = <<>> /\ <<>> \in Seq(S)
      BY FoldsEmpty
    <3>2. QED
      BY <3>1
  <2>2. ASSUME NEW t \in Seq(S), NEW e \in S, t \in T PROVE Append(t, e) \in T
    <3>1. strip(Append(t, e)) = Keep(strip(t), e)
      BY FoldsAppend
    <3>2. strip(Append(t, e)) \in Seq(S)
      BY <2>2, <3>1 DEF Keep
    <3>3. QED
      BY <3>2
  <2> HIDE DEF T
  <2>3. QED
    BY <2>1, <2>2, OfStrip!SeqSetInduction
<1>2. Seq(S) \subseteq U
  <2>1. <<>> \in U
    <3>1. strip(s) \in Seq(S) /\ s \o <<>> = s
      BY <1>1
    <3>2. strip(s) \o <<>> = strip(s)
      BY <3>1
    <3>3. QED
      BY <3>1, <3>2, FoldsEmpty
  <2>2. ASSUME NEW t \in Seq(S), NEW e \in S, t \in U PROVE Append(t, e) \in U
    <3>1. PICK u : u = s \o t
      OBVIOUS
    <3>2. u \in Seq(S) /\ s \o Append(t, e) = Append(u, e)
      BY <3>1
    <3>3. strip(Append(u, e)) = Keep(strip(u), e) /\ strip(Append(t, e)) = Keep(strip(t), e)
      BY <3>2, FoldsAppend
    <3>4. strip(u) = strip(s) \o strip(t) /\ strip(s) \in Seq(S) /\ strip(t) \in Seq(S)
      BY <1>1, <2>2, <3>1
    <3>5. PICK a \in Seq(S), b \in Seq(S) : a = strip(s) /\ b = strip(t)
      BY <3>4
    <3>6. a \o Append(b, e) = Append(a \o b, e)
      OBVIOUS
    <3>7. Keep(a \o b, e) = a \o Keep(b, e)
      BY <3>6 DEF Keep
    <3>8. strip(s \o Append(t, e)) = strip(s) \o strip(Append(t, e))
      BY <3>2, <3>3, <3>4, <3>5, <3>7
    <3>9. QED
      BY <3>8
  <2> HIDE DEF U
  <2>3. QED
    BY <2>1, <2>2, OfStrip!SeqSetInduction
<1>3. QED
  BY <1>1, <1>2

-----------------------------------------------------------------------------
(* Words.                                                                   *)
Texts == Seq(Symbol)

RunTexts == Texts \ {<<>>}

\* Runs that have ended are not empty; in a row with the last they are what
\* is left without whitespace.
RunsOf(s, d, w) == WordRuns(s) = [done |-> d, now |-> w] /\ FlattenSeq(d) \o w = strip(s)

\* The runs are a sequence of words.
LEMMA RunsType ==
    ASSUME NEW d \in Seq(RunTexts), NEW w \in Texts
    PROVE  /\ Runs([done |-> d, now |-> w]) \in Seq(RunTexts)
           /\ FlattenSeq(d) \in Texts /\ FlattenSeq(Runs([done |-> d, now |-> w])) = FlattenSeq(d) \o w
<1>1. d \in Seq(Texts)
  <2>1. RunTexts \subseteq Texts
    BY DEF RunTexts
  <2>2. QED
    BY <2>1
<1>2. FlattenSeq(d) \in Texts
  BY <1>1, FlattenType DEF Texts
<1>3. CASE w = <<>>
  <2>1. Runs([done |-> d, now |-> w]) = d
    BY <1>3 DEF Runs
  <2>2. PICK f \in Texts : f = FlattenSeq(d)
    BY <1>2
  <2>3. f \o w = f
    BY <1>3 DEF Texts
  <2>4. QED
    BY <2>1, <2>2, <2>3
<1>4. CASE w # <<>>
  <2>1. Runs([done |-> d, now |-> w]) = Append(d, w)
    BY <1>4 DEF Runs
  <2>2. w \in RunTexts
    BY <1>4 DEF RunTexts
  <2>3. Append(d, w) \in Seq(RunTexts)
    BY <2>2
  <2>4. FlattenSeq(Append(d, w)) = FlattenSeq(d) \o w
    BY <1>1, FlattenAppend DEF Texts
  <2>5. QED
    BY <1>2, <2>1, <2>3, <2>4
<1>5. QED
  BY <1>3, <1>4

\* The words in a row are the text without whitespace.
LEMMA WordsStripped ==
    ASSUME NEW s \in Texts PROVE Words(s) \in Seq(RunTexts) /\ FlattenSeq(Words(s)) = strip(s)
<1> DEFINE T == {t \in Texts : \E d \in Seq(RunTexts), w \in Texts : RunsOf(t, d, w)}
<1>1. <<>> \in T
  <2>1. WordRuns(<<>>) = [done |-> <<>>, now |-> <<>>] /\ strip(<<>>) = <<>>
    BY FoldsEmpty DEF NoRuns
  <2>2. FlattenSeq(<<>>) \o <<>> = <<>> /\ <<>> \in Texts /\ <<>> \in Seq(RunTexts)
    BY FlattenEmpty DEF Texts
  <2>3. QED
    BY <2>1, <2>2 DEF RunsOf
<1>2. ASSUME NEW t \in Texts, NEW c \in Symbol, t \in T PROVE Append(t, c) \in T
  <2>1. PICK d \in Seq(RunTexts), w \in Texts : RunsOf(t, d, w)
    BY <1>2
  <2>2. PICK r : r = [done |-> d, now |-> w]
    OBVIOUS
  <2>3. WordRuns(t) = r /\ FlattenSeq(d) \o w = strip(t) /\ strip(t) \in Texts
    BY <2>1, <2>2, StripConcat DEF RunsOf, Texts
  <2>4. WordRuns(Append(t, c)) = WordStep(r, c) /\ strip(Append(t, c)) = Keep(strip(t), c)
    BY <2>3, FoldsAppend DEF Texts
  <2>5. Append(t, c) \in Texts
    BY DEF Texts
  <2>6. Runs(r) \in Seq(RunTexts) /\ FlattenSeq(d) \in Texts /\ FlattenSeq(Runs(r)) = FlattenSeq(d) \o w
    BY <2>2, RunsType
  <2>7. CASE c \in Space
    <3>1. WordStep(r, c) = [done |-> Runs(r), now |-> <<>>]
      BY <2>7 DEF WordStep
    <3>2. Keep(strip(t), c) = strip(t)
      BY <2>7 DEF Keep
    <3>3. PICK f \in Texts : f = strip(t)
      BY <2>3
    <3>4. f \o <<>> = f /\ <<>> \in Texts
      BY DEF Texts
    <3>5. FlattenSeq(Runs(r)) \o <<>> = strip(Append(t, c))
      BY <2>3, <2>4, <2>6, <3>2, <3>3, <3>4
    <3>6. RunsOf(Append(t, c), Runs(r), <<>>)
      BY <2>4, <3>1, <3>5 DEF RunsOf
    <3>7. QED
      BY <2>5, <2>6, <3>4, <3>6
  <2>8. CASE c \notin Space
    <3>1. WordStep(r, c) = [done |-> d, now |-> Append(w, c)]
      BY <2>2, <2>8 DEF WordStep, GoesOn
    <3>2. Keep(strip(t), c) = Append(strip(t), c)
      BY <2>8 DEF Keep
    <3>3. PICK f \in Texts : f = FlattenSeq(d)
      BY <2>6
    <3>4. f \o Append(w, c) = Append(f \o w, c) /\ Append(w, c) \in Texts
      BY DEF Texts
    <3>5. FlattenSeq(d) \o Append(w, c) = strip(Append(t, c))
      BY <2>3, <2>4, <3>2, <3>3, <3>4
    <3>6. RunsOf(Append(t, c), d, Append(w, c))
      BY <2>4, <3>1, <3>5 DEF RunsOf
    <3>7. QED
      BY <2>5, <3>4, <3>6
  <2>9. QED
    BY <2>7, <2>8
<1> HIDE DEF T
<1>3. Texts \subseteq T
  BY <1>1, <1>2, OfStrip!SeqSetInduction DEF Texts
<1>4. PICK d \in Seq(RunTexts), w \in Texts : RunsOf(s, d, w)
  BY <1>3 DEF T
<1>5. Words(s) = Runs([done |-> d, now |-> w])
  BY <1>4 DEF RunsOf, Words, WordRuns
<1>6. QED
  BY <1>4, <1>5, RunsType DEF RunsOf

\* How texts in a row begin: as the first, if it is alone; if the first is
\* one token, with that and with what the second begins with.
Begins(f, v) == Len(f) >= 2 /\ f[1] = v[1][1] /\ f[2] = v[2][1]

BeginsFlat(v) ==
    /\ Len(v) = 1 => FlattenSeq(v) = v[1]
    /\ Len(v) >= 2 /\ Len(v[1]) = 1 => Begins(FlattenSeq(v), v)

\* The first two tokens are those that the first two words begin with, if
\* the first is one token.
LEMMA WordsBegin ==
    ASSUME NEW ws \in Seq(RunTexts), Len(ws) >= 2, Len(ws[1]) = 1
    PROVE  FlattenSeq(ws) \in Texts /\ Begins(FlattenSeq(ws), ws)
<1> DEFINE T == {v \in Seq(RunTexts) : BeginsFlat(v)}
<1>1. <<>> \in T
  <2>1. <<>> \in Seq(RunTexts) /\ Len(<<>>) = 0
    OBVIOUS
  <2>2. QED
    BY <2>1 DEF BeginsFlat
<1>2. ASSUME NEW v \in Seq(RunTexts), NEW e \in RunTexts, v \in T PROVE Append(v, e) \in T
  <2>1. PICK x : x = Append(v, e)
    OBVIOUS
  <2>2. /\ x \in Seq(RunTexts) /\ Len(x) = Len(v) + 1 /\ x[Len(v) + 1] = e /\ Len(v) \in Nat
        /\ \A i \in 1 .. Len(v) : x[i] = v[i]
    BY <2>1
  <2>3. v \in Seq(Texts) /\ e \in Texts /\ Len(e) \in Nat /\ Len(e) >= 1
    <3>1. RunTexts \subseteq Texts
      BY DEF RunTexts
    <3>2. e \in Texts /\ e # <<>>
      BY DEF RunTexts
    <3>3. QED
      BY <3>1, <3>2 DEF Texts
  <2>4. FlattenSeq(x) = FlattenSeq(v) \o e /\ FlattenSeq(v) \in Texts
    BY <2>1, <2>3, FlattenAppend, FlattenType DEF Texts
  <2>5. PICK f \in Texts : f = FlattenSeq(v)
    BY <2>4
  <2>6. /\ Len(f) \in Nat /\ Len(f \o e) = Len(f) + Len(e)
        /\ \A i \in 1 .. Len(f) : (f \o e)[i] = f[i]
        /\ \A i \in Len(f) + 1 .. Len(f) + Len(e) : (f \o e)[i] = e[i - Len(f)]
    BY <2>3 DEF Texts
  <2> SUFFICES BeginsFlat(x)
    BY <2>1, <2>2
  <2>7. CASE Len(v) = 0
    <3>1. f = <<>> /\ Len(x) = 1 /\ x[1] = e
      <4>1. v = <<>>
        BY <2>7
      <4>2. QED
        BY <2>2, <2>5, <2>7, <4>1, FlattenEmpty
    <3>2. f \o e = e
      BY <2>3, <3>1 DEF Texts
    <3>3. FlattenSeq(x) = x[1]
      BY <2>4, <2>5, <3>1, <3>2
    <3>4. QED
      BY <3>1, <3>3 DEF BeginsFlat
  <2>8. CASE Len(v) = 1
    <3>1. f = v[1] /\ x[1] = v[1] /\ x[2] = e /\ Len(x) = 2
      BY <1>2, <2>2, <2>5, <2>8 DEF BeginsFlat
    <3>2. SUFFICES ASSUME Len(x[1]) = 1 PROVE Begins(FlattenSeq(x), x)
      BY <3>1 DEF BeginsFlat
    <3>3. Len(f) = 1 /\ 2 \in Len(f) + 1 .. Len(f) + Len(e) /\ 1 \in 1 .. Len(f) /\ 2 - Len(f) = 1
      BY <2>3, <3>1, <3>2
    <3>4. (f \o e)[1] = f[1] /\ (f \o e)[2] = e[1] /\ Len(f \o e) >= 2
      BY <2>3, <2>6, <3>3
    <3>5. QED
      BY <2>4, <2>5, <3>1, <3>4 DEF Begins
  <2>9. CASE Len(v) >= 2
    <3>1. x[1] = v[1] /\ x[2] = v[2] /\ Len(x) # 1
      BY <2>2, <2>9
    <3>2. SUFFICES ASSUME Len(x[1]) = 1 PROVE Begins(FlattenSeq(x), x)
      BY <3>1 DEF BeginsFlat
    <3>3. Begins(f, v)
      BY <1>2, <2>5, <2>9, <3>1, <3>2 DEF BeginsFlat
    <3>4. 1 \in 1 .. Len(f) /\ 2 \in 1 .. Len(f) /\ Len(f \o e) >= 2
      BY <2>3, <2>6, <3>3 DEF Begins
    <3>5. (f \o e)[1] = f[1] /\ (f \o e)[2] = f[2]
      BY <2>6, <3>4
    <3>6. QED
      BY <2>4, <2>5, <3>1, <3>3, <3>4, <3>5 DEF Begins
  <2>10. \A n \in Nat : n = 0 \/ n = 1 \/ n >= 2
    OBVIOUS
  <2>11. Len(v) \in Nat
    BY <2>2
  <2>12. QED
    BY <2>7, <2>8, <2>9, <2>10, <2>11
<1>3. Seq(RunTexts) \subseteq T
  <2> HIDE DEF T
  <2>1. QED
    BY <1>1, <1>2, OfStrip!SeqSetInduction
<1>4. ws \in Seq(Texts)
  <2>1. RunTexts \subseteq Texts
    BY DEF RunTexts
  <2>2. QED
    BY <2>1
<1>5. FlattenSeq(ws) \in Texts
  BY <1>4, FlattenType DEF Texts
<1>6. QED
  BY <1>3, <1>5 DEF BeginsFlat

-----------------------------------------------------------------------------
(* find.                                                                    *)
\* t is in s at i.
At(s, t, i) == i \in 1 .. Len(s) - Len(t) + 1 /\ \A j \in 1 .. Len(t) : s[i + j - 1] = t[j]

\* Two texts are the same part of s if they have the same tokens.
LEMMA AtPart ==
    ASSUME NEW S, NEW s \in Seq(S), NEW t \in Seq(S), NEW i \in 1 .. Len(s) - Len(t) + 1
    PROVE  SubSeq(s, i, i + Len(t) - 1) = t <=> At(s, t, i)
<1>1. PICK n \in Nat, m \in Nat : n = Len(t) /\ m = Len(s)
  BY LenProperties
<1>2. PICK k \in Int : k = i + n - 1
  BY <1>1
<1>3. PICK u : u = SubSeq(s, i, k)
  OBVIOUS
<1>4. i \in 1 .. m + 1 /\ k \in i - 1 .. m
  BY <1>1, <1>2
<1>5. u \in Seq(S) /\ Len(u) = n /\ \A j \in 1 .. n : u[j] = s[i + j - 1]
  <2>1. Len(u) = k - i + 1 /\ \A j \in 1 .. k - i + 1 : u[j] = s[i + j - 1]
    BY <1>1, <1>3, <1>4, SubSeqProperties
  <2>2. k - i + 1 = n
    BY <1>2
  <2>3. u \in Seq(S)
    BY <1>1, <1>3, <1>4
  <2>4. QED
    BY <2>1, <2>2, <2>3
<1>6. u = t <=> \A j \in 1 .. n : u[j] = t[j]
  BY <1>1, <1>5, SeqEqual
<1>7. QED
  BY <1>1, <1>2, <1>3, <1>5, <1>6 DEF At

\* What find looks for.
LEMMA FindIs ==
    ASSUME NEW S, NEW s \in Seq(S), NEW t \in Seq(S)
    PROVE  LET at == {i \in 1 .. Len(s) - Len(t) + 1 : At(s, t, i)}
           IN  find(s, t) = IF at = {} THEN 0 ELSE Min(at)
<1>1. {i \in 1 .. Len(s) - Len(t) + 1 : SubSeq(s, i, i + Len(t) - 1) = t}
         = {i \in 1 .. Len(s) - Len(t) + 1 : At(s, t, i)}
  BY AtPart
<1>2. QED
  BY <1>1 DEF find

\* The least of some numbers.
LEMMA MinLeast ==
    ASSUME NEW T \in SUBSET Nat, T # {}
    PROVE  Min(T) \in T /\ \A x \in T : Min(T) <= x
<1>1. \E n \in T : \A x \in T : n <= x
  BY OfStrip!LeastNat
<1>2. QED
  BY <1>1 DEF Min

\* It is 0, or the first place where t is.
LEMMA FindFirst ==
    ASSUME NEW S, NEW s \in Seq(S), NEW t \in Seq(S), t # <<>>
    PROVE  /\ find(s, t) \in Nat /\ (find(s, t) = 0 <=> \A i \in 1 .. Len(s) : ~At(s, t, i))
           /\ find(s, t) # 0 => At(s, t, find(s, t)) /\ \A i \in 1 .. find(s, t) - 1 : ~At(s, t, i)
           /\ \A i \in Nat : At(s, t, i) /\ (\A j \in 1 .. i - 1 : ~At(s, t, j)) => find(s, t) = i
<1> DEFINE at == {i \in 1 .. Len(s) - Len(t) + 1 : At(s, t, i)}
<1>1. find(s, t) = IF at = {} THEN 0 ELSE Min(at)
  BY FindIs
<1>2. Len(s) \in Nat /\ Len(t) \in Nat /\ Len(t) >= 1
  OBVIOUS
<1>3. \A i : At(s, t, i) <=> i \in at
  BY DEF At
<1>4. at \in SUBSET Nat /\ 0 \notin at
  BY <1>2
<1>5. \A i \in at : i \in 1 .. Len(s)
  BY <1>2
<1> HIDE DEF at
<1>6. at # {} => Min(at) \in at /\ \A x \in at : Min(at) <= x
  BY <1>4, MinLeast
<1>7. find(s, t) # 0 <=> at # {}
  BY <1>1, <1>4, <1>6
<1>8. find(s, t) \in Nat
  <2>1. at # {} => Min(at) \in Nat
    BY <1>4, <1>6
  <2>2. QED
    BY <1>1, <2>1
<1>9. find(s, t) # 0 => find(s, t) \in at /\ \A x \in at : find(s, t) <= x
  BY <1>1, <1>6, <1>7
<1>10. ASSUME find(s, t) # 0 PROVE At(s, t, find(s, t)) /\ \A i \in 1 .. find(s, t) - 1 : ~At(s, t, i)
  BY <1>3, <1>8, <1>9, <1>10
<1>11. ASSUME NEW i \in Nat, At(s, t, i), \A j \in 1 .. i - 1 : ~At(s, t, j) PROVE find(s, t) = i
  <2>1. i \in at /\ find(s, t) # 0
    BY <1>3, <1>7, <1>11
  <2>2. find(s, t) \in at /\ find(s, t) <= i /\ find(s, t) \in Nat
    BY <1>8, <1>9, <2>1
  <2>3. ~(find(s, t) < i)
    BY <1>3, <1>4, <1>11, <2>1, <2>2
  <2>4. QED
    BY <2>2, <2>3
<1>12. find(s, t) = 0 <=> \A i \in 1 .. Len(s) : ~At(s, t, i)
  BY <1>3, <1>5, <1>7
<1>13. QED
  BY <1>8, <1>10, <1>11, <1>12

-----------------------------------------------------------------------------
(* What string_to_request reads.                                            *)
\* A request by its parts.
Req(method, uri, headers, content) ==
    [method |-> method, uri |-> uri, headers |-> headers, content |-> content]

\* Setting a header or the content changes these only.
LEMMA SetHeaderReq ==
    ASSUME NEW method, NEW uri, NEW h, NEW content, NEW key, NEW value
    PROVE  SetHeader(Req(method, uri, h, content), key, value) = Req(method, uri, With(h, key, value), content)
<1>1. PICK m : m = Req(method, uri, h, content)
  OBVIOUS
<1>2. m = [method |-> method, uri |-> uri, headers |-> h, content |-> content] /\ m.headers = h
  BY <1>1 DEF Req
<1>3. SetHeader(m, key, value) = [m EXCEPT !.headers = With(m.headers, key, value)]
  BY DEF SetHeader, With
<1>4. PICK g : g = With(h, key, value)
  OBVIOUS
<1>5. [m EXCEPT !.headers = g] = [method |-> method, uri |-> uri, headers |-> g, content |-> content]
  BY <1>2
<1>6. QED
  BY <1>1, <1>2, <1>3, <1>4, <1>5 DEF Req

\* The content comes with its length.
LEMMA SetContentReq ==
    ASSUME NEW method, NEW uri, NEW h, NEW old, NEW content
    PROVE  SetContent(Req(method, uri, h, old), content)
              = Req(method, uri, With(h, ContentLength, LengthText(content)), content)
<1>1. PICK g : g = With(h, ContentLength, LengthText(content))
  OBVIOUS
<1>2. PICK m : m = Req(method, uri, g, old)
  OBVIOUS
<1>3. SetContent(Req(method, uri, h, old), content) = [m EXCEPT !.content = content]
  BY <1>1, <1>2, SetHeaderReq DEF SetContent
<1>4. [m EXCEPT !.content = content] = Req(method, uri, g, content)
  BY <1>2 DEF Req
<1>5. QED
  BY <1>1, <1>3, <1>4

\* The start line gives method and path to a new request.
LEMMA NewReq ==
    ASSUME NEW method, NEW path
    PROVE  SetUri(SetMethod(Request, method), path) = Req(method, tolower(path), NoHeaders, <<>>)
<1>1. PICK m, u : m = SetMethod(Request, method) /\ u = tolower(path)
  OBVIOUS
<1>2. m = [method |-> method, uri |-> <<>>, headers |-> NoHeaders, content |-> <<>>]
  BY <1>1 DEF SetMethod, Request
<1>3. SetUri(m, path) = [m EXCEPT !.uri = u]
  BY <1>1 DEF SetUri
<1>4. [m EXCEPT !.uri = u] = [method |-> method, uri |-> u, headers |-> NoHeaders, content |-> <<>>]
  BY <1>2
<1>5. QED
  BY <1>1, <1>3, <1>4 DEF Req

\* The name and the value that a line gives, if the line before it gave v.
KeyOf(line) ==
    LET colon == find(line, <<":">>) IN strip(IF colon = 0 THEN line ELSE SubSeq(line, 1, colon - 1))

ValueOf(line, v) ==
    LET colon == find(line, <<":">>) IN IF colon = 0 THEN v ELSE strip(From(line, colon + 1))

Reading(method, uri, h, v) == [request |-> Req(method, uri, h, <<>>), value |-> v]

\* A line sets a header.
LEMMA ReadLineOf ==
    ASSUME NEW method, NEW uri, NEW h, NEW v, NEW line
    PROVE  ReadHeader(Reading(method, uri, h, v), line)
              = Reading(method, uri, With(h, KeyOf(line), ValueOf(line, v)), ValueOf(line, v))
<1>1. PICK a : a = Reading(method, uri, h, v)
  OBVIOUS
<1>2. a.request = Req(method, uri, h, <<>>) /\ a.value = v
  BY <1>1 DEF Reading
<1>3. ReadHeader(a, line) = [request |-> SetHeader(a.request, KeyOf(line), ValueOf(line, a.value)),
                             value |-> ValueOf(line, a.value)]
  BY DEF ReadHeader, KeyOf, ValueOf
<1>4. SetHeader(a.request, KeyOf(line), ValueOf(line, v)) = Req(method, uri, With(h, KeyOf(line), ValueOf(line, v)), <<>>)
  BY <1>2, SetHeaderReq
<1>5. QED
  BY <1>1, <1>2, <1>3, <1>4 DEF Reading

\* The lines of a header leave method, path and content alone, and do not
\* depend on them.
LEMMA HeadersOf ==
    ASSUME NEW S, NEW lines \in Seq(S)
    PROVE  \E h, v : \A method, uri :
              HeadersRead(Reading(method, uri, NoHeaders, <<>>), lines) = Reading(method, uri, h, v)
<1> DEFINE P(t, h, v) == \A method, uri :
              HeadersRead(Reading(method, uri, NoHeaders, <<>>), t) = Reading(method, uri, h, v)
           T == {t \in Seq(S) : \E h, v : P(t, h, v)}
<1>1. <<>> \in T
  <2>1. P(<<>>, NoHeaders, <<>>)
    BY FoldsEmpty
  <2> HIDE DEF P
  <2>2. QED
    BY <2>1
<1>2. ASSUME NEW t \in Seq(S), NEW e \in S, t \in T PROVE Append(t, e) \in T
  <2>1. PICK h, v : P(t, h, v)
    BY <1>2
  <2>2. PICK g, w : g = With(h, KeyOf(e), ValueOf(e, v)) /\ w = ValueOf(e, v)
    OBVIOUS
  <2>3. ASSUME NEW method, NEW uri
        PROVE  HeadersRead(Reading(method, uri, NoHeaders, <<>>), Append(t, e)) = Reading(method, uri, g, w)
    <3>1. PICK acc : acc = Reading(method, uri, NoHeaders, <<>>)
      OBVIOUS
    <3>2. HeadersRead(acc, Append(t, e)) = ReadHeader(HeadersRead(acc, t), e)
      BY FoldsAppend
    <3>3. HeadersRead(acc, t) = Reading(method, uri, h, v)
      BY <2>1, <3>1
    <3>4. QED
      BY <2>2, <3>1, <3>2, <3>3, ReadLineOf
  <2>4. P(Append(t, e), g, w)
    BY <2>3
  <2> HIDE DEF P
  <2>5. Append(t, e) \in Seq(S)
    OBVIOUS
  <2>6. QED
    BY <2>4, <2>5
<1> HIDE DEF T
<1>3. Seq(S) \subseteq T
  BY <1>1, <1>2, OfStrip!SeqSetInduction
<1>4. QED
  BY <1>3 DEF T

\* What the rest of a text, after its first line, makes of a request.
ReadRest(request, rest) ==
    LET blank == find(rest, CRLF \o CRLF)
    IN  IF blank = 0 THEN SetContent(request, <<>>)
        ELSE SetContent(ReadHeaders(request, Lines(SubSeq(rest, 1, blank - 1))), From(rest, blank + 4))

\* The words of the first line, the first line and what comes after it.
StartWords(text) == Words(SubSeq(text, 1, find(text, CRLF) - 1)) \o << <<>>, <<>>, <<>> >>

Readable(text) ==
    LET method == toupper(StartWords(text)[1])
        version == toupper(StartWords(text)[3])
    IN  /\ find(text, CRLF) # 0 /\ Len(method) = 1 /\ Len(version) = 1
        /\ method[1] \in HttpMethod /\ version[1] = "HTTP/1.1"

\* A text is refused, or read so.
LEMMA ReadParts ==
    ASSUME NEW text
    PROVE  IF Readable(text)
           THEN string_to_request(text) = ReadRest(Req(toupper(StartWords(text)[1])[1], tolower(StartWords(text)[2]),
                                                       NoHeaders, <<>>), From(text, find(text, CRLF) + 2))
           ELSE string_to_request(text) \in {Throws("invalid_argument"), Throws("logic_error")}
<1> DEFINE at == find(text, CRLF)
           ws == StartWords(text)
           method == toupper(ws[1])
           version == toupper(ws[3])
           rest == From(text, at + 2)
           request == SetUri(SetMethod(Request, method[1]), ws[2])
           blank == find(rest, CRLF \o CRLF)
           none == SetContent(request, <<>>)
           some == SetContent(ReadHeaders(request, Lines(SubSeq(rest, 1, blank - 1))), From(rest, blank + 4))
           known == method[1] \in HttpMethod /\ version[1] \in Versions
           supported == version[1] = "HTTP/1.1"
           formed == ~(at = 0 \/ Len(method) # 1 \/ Len(version) # 1)
<1>1. string_to_request(text) =
         CASE at = 0 \/ Len(method) # 1 \/ Len(version) # 1 -> Throws("invalid_argument")
           [] OTHER ->
             CASE ~known -> Throws("invalid_argument")
               [] known /\ ~supported -> Throws("logic_error")
               [] known /\ supported /\ blank = 0 -> none
               [] OTHER -> some
  BY DEF string_to_request, StartWords
<1>2. Readable(text) <=> formed /\ known /\ supported
  BY DEF Readable, Versions
<1>3. request = Req(method[1], tolower(ws[2]), NoHeaders, <<>>)
  BY NewReq
<1>4. ReadRest(request, rest) = IF blank = 0 THEN none ELSE some
  BY DEF ReadRest
<1> HIDE DEF at, ws, method, version, rest, request, blank, none, some, known, supported
<1>5. string_to_request(text) =
         IF formed /\ known /\ supported THEN IF blank = 0 THEN none ELSE some
         ELSE IF formed /\ known THEN Throws("logic_error") ELSE Throws("invalid_argument")
  BY <1>1
<1> HIDE DEF formed
<1>6. CASE Readable(text)
  <2>1. string_to_request(text) = ReadRest(request, rest)
    BY <1>2, <1>4, <1>5, <1>6
  <2>2. QED
    BY <1>3, <1>6, <2>1 DEF at, ws, method, rest
<1>7. CASE ~Readable(text)
  BY <1>2, <1>5, <1>7
<1>8. QED
  BY <1>6, <1>7

\* Lines are texts.
LEMMA LinesType == ASSUME NEW s \in Texts PROVE Lines(s) \in Seq(Texts)
<1> DEFINE T == {t \in Texts : \E d \in Seq(Texts), w \in Texts : LineRuns(t) = [done |-> d, now |-> w]}
<1>1. <<>> \in T
  <2>1. LineRuns(<<>>) = [done |-> <<>>, now |-> <<>>] /\ <<>> \in Texts /\ <<>> \in Seq(Texts)
    BY FoldsEmpty DEF NoRuns, Texts
  <2>2. QED
    BY <2>1
<1>2. ASSUME NEW t \in Texts, NEW c \in Symbol, t \in T PROVE Append(t, c) \in T
  <2>1. PICK d \in Seq(Texts), w \in Texts : LineRuns(t) = [done |-> d, now |-> w]
    BY <1>2
  <2>2. PICK r : r = [done |-> d, now |-> w]
    OBVIOUS
  <2>3. LineRuns(Append(t, c)) = LineStep(r, c)
    BY <2>1, <2>2, FoldsAppend DEF Texts
  <2>4. Append(t, c) \in Texts /\ Append(w, c) \in Texts /\ <<>> \in Texts
    BY DEF Texts
  <2>5. CASE c = "LF"
    <3>1. LineStep(r, c) = [done |-> Append(d, w), now |-> <<>>]
      BY <2>2, <2>5 DEF LineStep
    <3>2. Append(d, w) \in Seq(Texts)
      OBVIOUS
    <3>3. QED
      BY <2>3, <2>4, <3>1, <3>2
  <2>6. CASE c # "LF"
    <3>1. LineStep(r, c) = [done |-> d, now |-> Append(w, c)]
      BY <2>2, <2>6 DEF LineStep, GoesOn
    <3>2. QED
      BY <2>3, <2>4, <3>1
  <2>7. QED
    BY <2>5, <2>6
<1> HIDE DEF T
<1>3. Texts \subseteq T
  BY <1>1, <1>2, OfStrip!SeqSetInduction DEF Texts
<1>4. PICK d \in Seq(Texts), w \in Texts : LineRuns(s) = [done |-> d, now |-> w]
  BY <1>3 DEF T
<1>5. Lines(s) = IF w = <<>> THEN d ELSE Append(d, w)
  BY <1>4 DEF Lines, LineRuns, Runs
<1>6. QED
  BY <1>5

\* Two tokens, and then the same two.
LEMMA Twice ==
    ASSUME NEW S, NEW a \in S, NEW b \in S
    PROVE  LET v == <<a, b>> \o <<a, b>>
           IN  v \in Seq(S) /\ Len(v) = 4 /\ v # <<>> /\ v[1] = a /\ v[2] = b /\ v[3] = a /\ v[4] = b
<1>1. PICK u \in Seq(S) : u = <<a, b>> /\ Len(u) = 2 /\ u[1] = a /\ u[2] = b
  <2>1. PICK t : t = <<a, b>>
    OBVIOUS
  <2>2. t \in Seq(S) /\ Len(t) = 2 /\ t[1] = a /\ t[2] = b
    BY <2>1
  <2>3. QED
    BY <2>1, <2>2
<1>3. PICK v : v = u \o u
  OBVIOUS
<1>4. v \in Seq(S) /\ Len(v) = 4 /\ v # <<>>
  BY <1>1, <1>3
<1>5. v[1] = a /\ v[2] = b /\ v[3] = a /\ v[4] = b
  BY <1>1, <1>3
<1>6. QED
  BY <1>1, <1>3, <1>4, <1>5

\* Line ends are texts.
LEMMA LineEnds ==
    /\ CRLF \in Texts /\ Len(CRLF) = 2 /\ CRLF[1] = "CR" /\ CRLF[2] = "LF" /\ CRLF # <<>>
    /\ CRLF \o CRLF \in Texts /\ Len(CRLF \o CRLF) = 4 /\ CRLF \o CRLF # <<>>
    /\ (CRLF \o CRLF)[1] = "CR" /\ (CRLF \o CRLF)[2] = "LF" /\ (CRLF \o CRLF)[3] = "CR" /\ (CRLF \o CRLF)[4] = "LF"
<1>1. PICK a \in Symbol, b \in Symbol : a = "CR" /\ b = "LF"
  BY RequestsAssumption DEF Space
<1>2. PICK u : u = <<a, b>>
  OBVIOUS
<1>3. u \in Texts /\ Len(u) = 2 /\ u[1] = a /\ u[2] = b /\ u # <<>>
  BY <1>2 DEF Texts
<1>4. CRLF = u
  BY <1>1, <1>2 DEF CRLF
<1>5. u \o u \in Texts /\ Len(u \o u) = 4 /\ u \o u # <<>>
        /\ (u \o u)[1] = a /\ (u \o u)[2] = b /\ (u \o u)[3] = a /\ (u \o u)[4] = b
  BY <1>2, Twice DEF Texts
<1>6. QED
  BY <1>1, <1>3, <1>4, <1>5

\* The rest of a text gives headers and a content to a request, the same
\* whatever its method and path.
LEMMA RestRead ==
    ASSUME NEW rest \in Texts
    PROVE  \E h, c : \A method, uri :
              ReadRest(Req(method, uri, NoHeaders, <<>>), rest) = Req(method, uri, h, c)
<1>1. PICK blank : blank = find(rest, CRLF \o CRLF)
  OBVIOUS
<1>2. CASE blank = 0
  <2>1. PICK h : h = With(NoHeaders, ContentLength, LengthText(<<>>))
    OBVIOUS
  <2>2. ASSUME NEW method, NEW uri
        PROVE  ReadRest(Req(method, uri, NoHeaders, <<>>), rest) = Req(method, uri, h, <<>>)
    BY <1>1, <1>2, <2>1, SetContentReq DEF ReadRest
  <2>3. PICK c : c = <<>>
    OBVIOUS
  <2>4. \A method, uri : ReadRest(Req(method, uri, NoHeaders, <<>>), rest) = Req(method, uri, h, c)
    BY <2>2, <2>3
  <2>5. QED
    BY <2>4
<1>3. CASE blank # 0
  <2>1. PICK lines, c : lines = Lines(SubSeq(rest, 1, blank - 1)) /\ c = From(rest, blank + 4)
    OBVIOUS
  <2>2. lines \in Seq(Texts)
    <3>1. PICK e \in Texts : e = CRLF \o CRLF /\ Len(e) = 4 /\ e # <<>>
      BY LineEnds
    <3>2. blank \in Nat /\ At(rest, e, blank)
      BY <1>1, <1>3, <3>1, FindFirst DEF Texts
    <3>3. blank - 1 \in 0 .. Len(rest)
      <4>1. Len(rest) \in Nat
        BY DEF Texts
      <4>2. QED
        BY <3>1, <3>2, <4>1 DEF At
    <3>4. SubSeq(rest, 1, blank - 1) \in Texts
      BY <3>2, <3>3 DEF Texts
    <3>5. QED
      BY <2>1, <3>4, LinesType
  <2>3. PICK g, v : \A method, uri :
              HeadersRead(Reading(method, uri, NoHeaders, <<>>), lines) = Reading(method, uri, g, v)
    BY <2>2, HeadersOf
  <2>4. PICK h : h = With(g, ContentLength, LengthText(c))
    OBVIOUS
  <2>5. ASSUME NEW method, NEW uri
        PROVE  ReadRest(Req(method, uri, NoHeaders, <<>>), rest) = Req(method, uri, h, c)
    <3>1. PICK m : m = Req(method, uri, NoHeaders, <<>>)
      OBVIOUS
    <3>2. ReadRest(m, rest) = SetContent(ReadHeaders(m, lines), c)
      BY <1>1, <1>3, <2>1 DEF ReadRest
    <3>3. ReadHeaders(m, lines) = HeadersRead(Reading(method, uri, NoHeaders, <<>>), lines).request
      BY <3>1 DEF ReadHeaders, HeadersRead, Reading
    <3>4. ReadHeaders(m, lines) = Req(method, uri, g, <<>>)
      <4>1. HeadersRead(Reading(method, uri, NoHeaders, <<>>), lines) = Reading(method, uri, g, v)
        BY <2>3
      <4>2. Reading(method, uri, g, v).request = Req(method, uri, g, <<>>)
        BY DEF Reading
      <4>3. QED
        BY <3>3, <4>1, <4>2
    <3>5. QED
      BY <2>4, <3>1, <3>2, <3>4, SetContentReq
  <2>6. QED
    BY <2>5
<1>4. QED
  BY <1>2, <1>3

\* Capitals: a method or path in capitals is as long, POST and HEAD are only
\* made of themselves, and so is /tab.
LEMMA Cased ==
    ASSUME NEW w \in Texts
    PROVE  /\ Len(toupper(w)) = Len(w)
           /\ \A i \in 1 .. Len(w) : toupper(w)[i] \in {"POST", "HEAD"} => w[i] = toupper(w)[i]
           /\ tolower(w) = <<"/tab">> => w = <<"/tab">>
<1>1. PICK n \in Nat : n = Len(w) /\ DOMAIN w = 1 .. n /\ \A i \in 1 .. n : w[i] \in Symbol
  BY DEF Texts
<1>2. \A c \in DOMAIN Capital : Capital[c] \in {"GET", "/VARS", "HTTP/1.1"}
  BY DEF Capital
<1>3. DOMAIN toupper(w) = 1 .. n
        /\ \A i \in 1 .. n : toupper(w)[i] = IF w[i] \in DOMAIN Capital THEN Capital[w[i]] ELSE w[i]
  BY <1>1 DEF toupper
<1>4. Len(toupper(w)) = n
  BY <1>1, <1>3
<1>5. ASSUME NEW i \in 1 .. n, toupper(w)[i] \in {"POST", "HEAD"} PROVE w[i] = toupper(w)[i]
  BY <1>2, <1>3, <1>5
<1>6. ASSUME tolower(w) = <<"/tab">> PROVE w = <<"/tab">>
  <2>1. DOMAIN tolower(w) = 1 .. n
          /\ \A i \in 1 .. n : tolower(w)[i] = IF w[i] \in Range(Capital)
                                               THEN CHOOSE c \in DOMAIN Capital : Capital[c] = w[i] ELSE w[i]
    BY <1>1 DEF tolower
  <2>2. DOMAIN tolower(w) = 1 .. 1 /\ tolower(w)[1] = "/tab"
    <3>1. DOMAIN <<"/tab">> = 1 .. 1 /\ <<"/tab">>[1] = "/tab"
      OBVIOUS
    <3>2. QED
      BY <1>6, <3>1
  <2>3. n = 1
    <3>1. 1 .. n = 1 .. 1
      BY <2>1, <2>2
    <3>2. QED
      BY <3>1
  <2>4. CASE w[1] \in Range(Capital)
    <3>1. (CHOOSE c \in DOMAIN Capital : Capital[c] = w[1]) \in DOMAIN Capital
      BY <2>4 DEF Range
    <3>2. tolower(w)[1] = CHOOSE c \in DOMAIN Capital : Capital[c] = w[1]
      BY <2>1, <2>3, <2>4
    <3>4. "/tab" \in DOMAIN Capital
      BY <2>2, <3>1, <3>2
    <3>3. QED
      BY <3>4 DEF Capital
  <2>5. CASE w[1] \notin Range(Capital)
    <3>1. w[1] = "/tab" /\ Len(w) = 1
      BY <1>1, <2>1, <2>2, <2>3, <2>5
    <3>2. QED
      BY <3>1 DEF Texts
  <2>6. QED
    BY <2>4, <2>5
<1>7. QED
  BY <1>1, <1>4, <1>5, <1>6

\* A text in two parts.
LEMMA Split ==
    ASSUME NEW S, NEW s \in Seq(S), NEW n \in 0 .. Len(s)
    PROVE  SubSeq(s, 1, n) \in Seq(S) /\ From(s, n + 1) \in Seq(S) /\ s = SubSeq(s, 1, n) \o From(s, n + 1)
           /\ Len(SubSeq(s, 1, n)) = n /\ Len(From(s, n + 1)) = Len(s) - n
<1>1. PICK m \in Nat : m = Len(s)
  BY LenProperties
<1>2. n \in Nat /\ n <= m /\ n + 1 \in 1 .. m + 1 /\ m - (n + 1) + 1 = m - n
  BY <1>1
<1>3. PICK u \in Seq(S) : u = SubSeq(s, 1, n) /\ Len(u) = n /\ \A i \in 1 .. n : u[i] = s[i]
  <2>1. PICK u : u = SubSeq(s, 1, n)
    OBVIOUS
  <2>2. u \in Seq(S) /\ Len(u) = n - 1 + 1 /\ \A i \in 1 .. n - 1 + 1 : u[i] = s[1 + i - 1]
    BY <1>1, <1>2, <2>1, SubSeqProperties
  <2>3. n - 1 + 1 = n /\ \A i \in 1 .. n : 1 + i - 1 = i
    BY <1>2
  <2>4. u \in Seq(S) /\ Len(u) = n /\ \A i \in 1 .. n : u[i] = s[i]
    BY <2>2, <2>3
  <2>5. QED
    BY <2>1, <2>4
<1>4. PICK v \in Seq(S) : v = From(s, n + 1) /\ Len(v) = m - n /\ \A i \in 1 .. m - n : v[i] = s[n + i]
  <2>1. PICK v : v = SubSeq(s, n + 1, m)
    OBVIOUS
  <2>2. v \in Seq(S) /\ Len(v) = m - n /\ \A i \in 1 .. m - n : v[i] = s[n + 1 + i - 1]
    BY <1>1, <1>2, <2>1, SubSeqProperties
  <2>3. \A i \in 1 .. m - n : n + 1 + i - 1 = n + i
    BY <1>2
  <2>4. v \in Seq(S) /\ Len(v) = m - n /\ \A i \in 1 .. m - n : v[i] = s[n + i]
    BY <2>2, <2>3
  <2>5. v = From(s, n + 1)
    BY <1>1, <2>1 DEF From
  <2>6. QED
    BY <2>4, <2>5
<1>5. PICK w \in Seq(S) : w = u \o v /\ Len(w) = m /\ \A i \in 1 .. m : w[i] = IF i <= n THEN u[i] ELSE v[i - n]
  <2>1. u \o v \in Seq(S) /\ Len(u \o v) = Len(u) + Len(v)
        /\ \A i \in 1 .. Len(u) + Len(v) : (u \o v)[i] = IF i <= Len(u) THEN u[i] ELSE v[i - Len(u)]
    <3> USE ConcatProperties
    <3>1. u \o v \in Seq(S) /\ Len(u \o v) = Len(u) + Len(v)
      OBVIOUS
    <3>2. \A i \in 1 .. Len(u) + Len(v) : (u \o v)[i] = IF i <= Len(u) THEN u[i] ELSE v[i - Len(u)]
      OBVIOUS
    <3>3. QED
      BY <3>1, <3>2
  <2>2. Len(u) + Len(v) = m /\ Len(u) = n
    <3>1. n + (m - n) = m
      BY <1>2
    <3>2. Len(u) = n /\ Len(v) = m - n
      BY <1>3, <1>4
    <3>3. QED
      BY <3>1, <3>2
  <2>3. QED
    BY <2>1, <2>2
<1>6. \A i \in 1 .. m : w[i] = s[i]
  <2> SUFFICES ASSUME NEW i \in 1 .. m PROVE w[i] = s[i]
    OBVIOUS
  <2>1. CASE i <= n
    BY <1>2, <1>3, <1>5, <2>1
  <2>2. CASE ~(i <= n)
    <3>1. i - n \in 1 .. m - n /\ n + (i - n) = i
      BY <1>2, <2>2
    <3>2. w[i] = v[i - n]
      BY <1>5, <2>2
    <3>3. QED
      BY <1>4, <3>1, <3>2
  <2>3. QED
    BY <2>1, <2>2
<1>7. w = s
  BY <1>1, <1>5, <1>6, SeqEqual
<1>8. QED
  BY <1>1, <1>3, <1>4, <1>5, <1>7

\* Two texts in a row.
LEMMA ConcatIs ==
    ASSUME NEW S, NEW x \in Seq(S), NEW v \in Seq(S)
    PROVE  /\ x \o v \in Seq(S) /\ Len(x \o v) = Len(x) + Len(v)
           /\ \A i \in 1 .. Len(x) : (x \o v)[i] = x[i]
           /\ \A i \in 1 .. Len(v) : (x \o v)[Len(x) + i] = v[i]
<1>0. PICK n \in Nat, k \in Nat : n = Len(x) /\ k = Len(v)
  BY LenProperties
<1>1. PICK w : w = x \o v
  OBVIOUS
<1>2. w \in Seq(S) /\ Len(w) = Len(x) + Len(v)
      /\ \A i \in 1 .. Len(x) + Len(v) : w[i] = IF i <= Len(x) THEN x[i] ELSE v[i - Len(x)]
  <2>1. /\ x \o v \in Seq(S) /\ Len(x \o v) = Len(x) + Len(v)
        /\ \A i \in 1 .. Len(x) + Len(v) : (x \o v)[i] = IF i <= Len(x) THEN x[i] ELSE v[i - Len(x)]
    BY ConcatProperties
  <2>2. QED
    BY <1>1, <2>1
<1>3. \A i \in 1 .. n + k : w[i] = IF i <= n THEN x[i] ELSE v[i - n]
  BY <1>0, <1>2
<1>4. \A i \in 1 .. n : w[i] = x[i]
  BY <1>3
<1>5. \A i \in 1 .. k : n + i \in 1 .. n + k /\ ~(n + i <= n) /\ n + i - n = i
  OBVIOUS
<1>6. \A i \in 1 .. k : w[n + i] = v[i]
  <2> SUFFICES ASSUME NEW i \in 1 .. k PROVE w[n + i] = v[i]
    OBVIOUS
  <2>1. PICK j : j = n + i
    OBVIOUS
  <2>2. w[j] = v[j - n] /\ j - n = i
    BY <1>3, <1>5, <2>1
  <2>3. QED
    BY <2>1, <2>2
<1>7. QED
  BY <1>0, <1>1, <1>2, <1>4, <1>6

\* Their parts are they.
LEMMA ConcatParts ==
    ASSUME NEW S, NEW x \in Seq(S), NEW v \in Seq(S), NEW n \in Nat, n = Len(x)
    PROVE  SubSeq(x \o v, 1, n) = x /\ From(x \o v, n + 1) = v
<1>1. PICK k \in Nat : k = Len(v)
  BY LenProperties
<1>2. PICK w \in Seq(S) : w = x \o v /\ Len(w) = n + k /\ (\A i \in 1 .. n : w[i] = x[i]) /\ \A i \in 1 .. k : w[n + i] = v[i]
  <2>1. /\ x \o v \in Seq(S) /\ Len(x \o v) = n + k
        /\ \A i \in 1 .. n : (x \o v)[i] = x[i]
        /\ \A i \in 1 .. k : (x \o v)[n + i] = v[i]
    BY <1>1, ConcatIs
  <2>2. QED
    BY <2>1
<1>3. n \in 0 .. Len(w)
  BY <1>1, <1>2
<1>4. PICK a \in Seq(S), b \in Seq(S) : a = SubSeq(w, 1, n) /\ b = From(w, n + 1) /\ Len(a) = n /\ Len(b) = Len(w) - n /\ w = a \o b
  <2>1. /\ SubSeq(w, 1, n) \in Seq(S) /\ From(w, n + 1) \in Seq(S) /\ w = SubSeq(w, 1, n) \o From(w, n + 1)
        /\ Len(SubSeq(w, 1, n)) = n /\ Len(From(w, n + 1)) = Len(w) - n
    <3>1. \A r \in Seq(S) : \A m \in 0 .. Len(r) :
             /\ SubSeq(r, 1, m) \in Seq(S) /\ From(r, m + 1) \in Seq(S) /\ r = SubSeq(r, 1, m) \o From(r, m + 1)
             /\ Len(SubSeq(r, 1, m)) = m /\ Len(From(r, m + 1)) = Len(r) - m
      BY Split, ZenonT(30)
    <3>2. QED
      BY <1>3, <3>1
  <2>2. QED
    BY <2>1
<1>5. n = Len(a) /\ k = Len(b)
  BY <1>1, <1>2, <1>4
<1>6. (\A i \in 1 .. n : w[i] = a[i]) /\ \A i \in 1 .. k : w[n + i] = b[i]
  <2>1. /\ \A i \in 1 .. n : (a \o b)[i] = a[i]
        /\ \A i \in 1 .. k : (a \o b)[n + i] = b[i]
    BY <1>5, ConcatIs
  <2>2. QED
    BY <1>4, <2>1
<1>7. a = x
  <2>1. \A i \in 1 .. n : a[i] = x[i]
    BY <1>2, <1>6
  <2>2. QED
    BY <1>4, <2>1, SeqEqual
<1>8. b = v
  <2>1. \A i \in 1 .. k : b[i] = v[i]
    BY <1>2, <1>6
  <2>2. QED
    BY <1>1, <1>5, <2>1, SeqEqual
<1>9. QED
  BY <1>2, <1>4, <1>7, <1>8

\* The first two words of a text that is a request are the first two tokens
\* that are not white.
LEMMA Heard ==
    ASSUME NEW text \in Texts, Readable(text)
    PROVE  /\ StartWords(text)[1] \in Texts /\ StartWords(text)[2] \in Texts /\ Len(StartWords(text)[1]) = 1
           /\ strip(text) \in Texts /\ Len(strip(text)) >= 2
           /\ strip(text)[1] = StartWords(text)[1][1] /\ strip(text)[2] = StartWords(text)[2][1]
<1>1. PICK at \in 1 .. Len(text) : at = find(text, CRLF)
  <2>1. find(text, CRLF) # 0
    BY DEF Readable
  <2>2. At(text, CRLF, find(text, CRLF)) /\ find(text, CRLF) \in Nat
    BY <2>1, FindFirst, LineEnds DEF Texts
  <2>3. Len(text) \in Nat
    BY DEF Texts
  <2>4. QED
    BY <2>2, <2>3, LineEnds DEF At
<1>2. at - 1 \in 0 .. Len(text) /\ (at - 1) + 1 = at
  <2>1. Len(text) \in Nat
    BY DEF Texts
  <2>2. QED
    BY <2>1
<1>3. PICK s \in Texts, u \in Texts : s = SubSeq(text, 1, at - 1) /\ text = s \o u
  <2>1. SubSeq(text, 1, at - 1) \in Texts /\ From(text, at) \in Texts
        /\ text = SubSeq(text, 1, at - 1) \o From(text, at)
    BY <1>2, Split DEF Texts
  <2>2. QED
    BY <2>1
<1>4. PICK W : W = Words(s)
  OBVIOUS
<1>5. W \in Seq(RunTexts) /\ FlattenSeq(W) = strip(s)
  BY <1>4, WordsStripped
<1>6. PICK pad : pad = << <<>>, <<>>, <<>> >>
  OBVIOUS
<1>7. pad \in Seq(Texts) /\ Len(pad) = 3 /\ \A i \in 1 .. 3 : pad[i] = <<>>
  <2>1. <<>> \in Texts
    BY DEF Texts
  <2>2. QED
    BY <1>6, <2>1
<1>8. PICK ws : ws = W \o pad
  OBVIOUS
<1>9. StartWords(text) = ws
  BY <1>1, <1>3, <1>4, <1>6, <1>8 DEF StartWords
<1>10. W \in Seq(Texts)
  <2>1. RunTexts \subseteq Texts
    BY DEF RunTexts
  <2>2. QED
    BY <1>5, <2>1
<1>11. PICK n \in Nat : n = Len(W)
  BY <1>10, LenProperties
<1>12. ws \in Seq(Texts) /\ Len(ws) = n + 3 /\ \A i \in 1 .. n + 3 : ws[i] = IF i <= n THEN W[i] ELSE pad[i - n]
  <2>1. /\ W \o pad \in Seq(Texts) /\ Len(W \o pad) = Len(W) + Len(pad)
        /\ \A i \in 1 .. Len(W) + Len(pad) : (W \o pad)[i] = IF i <= Len(W) THEN W[i] ELSE pad[i - Len(W)]
    BY <1>7, <1>10, ConcatProperties
  <2>2. QED
    BY <1>7, <1>8, <1>11, <2>1
<1>13. ws[1] \in Texts /\ ws[2] \in Texts /\ ws[3] \in Texts
  BY <1>11, <1>12
<1>14. Len(ws[1]) = 1 /\ Len(ws[3]) = 1
  <2>1. Len(toupper(ws[1])) = 1 /\ Len(toupper(ws[3])) = 1
    BY <1>9 DEF Readable
  <2>2. QED
    BY <1>13, <2>1, Cased
<1>15. n >= 3
  <2>1. SUFFICES ASSUME ~(n >= 3) PROVE FALSE
    OBVIOUS
  <2>2. 3 - n \in 1 .. 3 /\ 3 \in 1 .. n + 3 /\ ~(3 <= n)
    BY <1>11, <2>1
  <2>3. ws[3] = <<>>
    BY <1>7, <1>12, <2>2
  <2>4. QED
    BY <1>14, <2>3
<1>16. ws[1] = W[1] /\ ws[2] = W[2]
  BY <1>12, <1>15
<1>17. FlattenSeq(W) \in Texts /\ Begins(FlattenSeq(W), W)
  BY <1>5, <1>11, <1>14, <1>15, <1>16, WordsBegin
<1>18. strip(s) \in Texts /\ strip(u) \in Texts /\ strip(s \o u) = strip(s) \o strip(u)
  BY StripConcat DEF Texts
<1>19. PICK f \in Texts, g \in Texts : f = strip(s) /\ g = strip(u) /\ strip(text) = f \o g
  BY <1>3, <1>18
<1>20. Len(f) >= 2 /\ f[1] = W[1][1] /\ f[2] = W[2][1]
  BY <1>5, <1>17, <1>19 DEF Begins
<1>21. f \o g \in Texts /\ Len(f \o g) >= 2 /\ (f \o g)[1] = f[1] /\ (f \o g)[2] = f[2]
  BY <1>20 DEF Texts
<1>22. QED
  BY <1>9, <1>13, <1>14, <1>16, <1>19, <1>20, <1>21

\* What is before a NUL is a text that the whole begins with.
LEMMA ReceivedPart ==
    ASSUME NEW text \in Texts
    PROVE  \E t \in Texts, u \in Texts : text = t \o u /\ Received(text) = string_to_request(t)
<1>1. PICK nul : nul = find(text, <<"NUL">>)
  OBVIOUS
<1>2. CASE nul = 0
  <2>1. Received(text) = string_to_request(text)
    BY <1>1, <1>2 DEF Received
  <2>2. text = text \o <<>> /\ <<>> \in Texts
    BY DEF Texts
  <2>3. QED
    BY <2>1, <2>2
<1>3. CASE nul # 0
  <2>1. Received(text) = string_to_request(SubSeq(text, 1, nul - 1))
    BY <1>1, <1>3 DEF Received
  <2>2. nul - 1 \in 0 .. Len(text)
    <3>1. PICK S : Symbol \cup {"NUL"} = S
      OBVIOUS
    <3>2. PICK e : e = <<"NUL">>
      OBVIOUS
    <3>3. text \in Seq(S) /\ e \in Seq(S) /\ e # <<>> /\ Len(e) = 1 /\ Len(text) \in Nat
      <4>1. e \in Seq(S) /\ e # <<>> /\ Len(e) = 1
        BY <3>1, <3>2
      <4>2. text \in Seq(S) /\ Len(text) \in Nat
        BY <3>1 DEF Texts
      <4>3. QED
        BY <4>1, <4>2
    <3>4. At(text, e, nul) /\ nul \in Nat
      BY <1>1, <1>3, <3>2, <3>3, FindFirst
    <3>5. QED
      BY <3>3, <3>4 DEF At
  <2>3. SubSeq(text, 1, nul - 1) \in Texts /\ From(text, nul - 1 + 1) \in Texts
        /\ text = SubSeq(text, 1, nul - 1) \o From(text, nul - 1 + 1)
    BY <2>2, Split DEF Texts
  <2>4. QED
    BY <2>1, <2>3
<1>4. QED
  BY <1>2, <1>3

\* A request has the method and the path of its text.
LEMMA RequestHeard ==
    ASSUME NEW text \in Texts, NEW r, r = Received(text),
           r \notin {Throws("invalid_argument"), Throws("logic_error")}
    PROVE  /\ r.method \in {"POST", "HEAD"} => strip(text)[1] = r.method
           /\ r.uri = <<"/tab">> => strip(text)[2] = "/tab"
<1>1. PICK t \in Texts, u \in Texts : text = t \o u /\ r = string_to_request(t)
  BY ReceivedPart
<1>2. Readable(t)
  BY <1>1, ReadParts
<1>3. PICK w1 \in Texts, w2 \in Texts : w1 = StartWords(t)[1] /\ w2 = StartWords(t)[2]
  BY <1>2, Heard
<1>4. Len(w1) = 1 /\ strip(t) \in Texts /\ Len(strip(t)) >= 2 /\ strip(t)[1] = w1[1] /\ strip(t)[2] = w2[1]
  BY <1>2, <1>3, Heard
<1>5. strip(text)[1] = w1[1] /\ strip(text)[2] = w2[1]
  <2>1. strip(u) \in Texts /\ strip(t \o u) = strip(t) \o strip(u)
    BY StripConcat DEF Texts
  <2>2. PICK f \in Texts, g \in Texts : f = strip(t) /\ g = strip(u)
    BY <1>4, <2>1
  <2>3. (f \o g)[1] = f[1] /\ (f \o g)[2] = f[2]
    BY <1>4, <2>2 DEF Texts
  <2>4. QED
    BY <1>1, <1>4, <2>1, <2>2, <2>3
<1>6. PICK rest : rest = From(t, find(t, CRLF) + 2)
  OBVIOUS
<1>7. rest \in Texts
  <2>1. find(t, CRLF) # 0
    BY <1>2 DEF Readable
  <2>2. At(t, CRLF, find(t, CRLF)) /\ find(t, CRLF) \in Nat
    BY <2>1, FindFirst, LineEnds DEF Texts
  <2>3. Len(t) \in Nat
    BY DEF Texts
  <2>4. PICK k \in 0 .. Len(t) : k = find(t, CRLF) + 1
    BY <2>1, <2>2, <2>3, LineEnds DEF At
  <2>5. k + 1 = find(t, CRLF) + 2
    BY <2>2, <2>4
  <2>6. From(t, k + 1) \in Texts
    BY Split DEF Texts
  <2>7. QED
    BY <1>6, <2>5, <2>6
<1>8. r = ReadRest(Req(toupper(w1)[1], tolower(w2), NoHeaders, <<>>), rest)
  BY <1>1, <1>2, <1>3, <1>6, ReadParts
<1>9. PICK h, c : r = Req(toupper(w1)[1], tolower(w2), h, c)
  BY <1>7, <1>8, RestRead
<1>10. r.method = toupper(w1)[1] /\ r.uri = tolower(w2)
  BY <1>9 DEF Req
<1>11. ASSUME r.method \in {"POST", "HEAD"} PROVE strip(text)[1] = r.method
  <2>1. 1 \in 1 .. Len(w1)
    BY <1>4
  <2>2. w1[1] = toupper(w1)[1]
    BY <1>10, <1>11, <2>1, Cased
  <2>3. QED
    BY <1>5, <1>10, <2>2
<1>12. ASSUME r.uri = <<"/tab">> PROVE strip(text)[2] = "/tab"
  <2>1. w2 = <<"/tab">>
    BY <1>10, <1>12, Cased
  <2>2. QED
    BY <1>5, <2>1
<1>13. QED
  BY <1>11, <1>12

-----------------------------------------------------------------------------
(* Two texts that differ in the first token.                                *)
\* Tokens that a word can begin with.
Plain == Symbol \ (Space \cup {"NUL"})

\* A token and a text: its tokens, and what comes after them.
LEMMA Prefixed ==
    ASSUME NEW S, NEW z \in S, NEW s \in Seq(S)
    PROVE  /\ <<z>> \o s \in Seq(S) /\ Len(<<z>> \o s) = Len(s) + 1 /\ (<<z>> \o s)[1] = z
           /\ \A i \in 2 .. Len(s) + 1 : (<<z>> \o s)[i] = s[i - 1]
<1>1. PICK u \in Seq(S) : u = <<z>> /\ Len(u) = 1 /\ u[1] = z
  <2>1. PICK t : t = <<z>>
    OBVIOUS
  <2>2. t \in Seq(S) /\ Len(t) = 1 /\ t[1] = z
    BY <2>1
  <2>3. QED
    BY <2>1, <2>2
<1>2. PICK n \in Nat : n = Len(s)
  BY LenProperties
<1>3. u \o s \in Seq(S) /\ Len(u \o s) = n + 1 /\ \A i \in 1 .. n + 1 : (u \o s)[i] = IF i <= 1 THEN u[i] ELSE s[i - 1]
  BY <1>1, <1>2, ConcatProperties
<1>4. (u \o s)[1] = z /\ \A i \in 2 .. n + 1 : (u \o s)[i] = s[i - 1]
  BY <1>1, <1>2, <1>3
<1>5. QED
  BY <1>1, <1>2, <1>3, <1>4

\* What begins with neither token is found in both at the same place, after
\* the first.
LEMMA FindTwin ==
    ASSUME NEW S, NEW y \in S, NEW z \in S, NEW s \in Seq(S), NEW t \in Seq(S), t # <<>>, t[1] \notin {y, z}
    PROVE  /\ find(<<y>> \o s, t) = find(<<z>> \o s, t)
           /\ find(<<y>> \o s, t) # 0 => find(<<y>> \o s, t) \in 2 .. Len(s) + 1 - Len(t) + 1
<1>1. PICK a \in Seq(S), b \in Seq(S), n \in Nat, m \in Nat :
         a = <<y>> \o s /\ b = <<z>> \o s /\ n = Len(s) /\ m = Len(t) /\ m >= 1
  <2>1. <<y>> \o s \in Seq(S) /\ <<z>> \o s \in Seq(S) /\ Len(s) \in Nat /\ Len(t) \in Nat /\ Len(t) >= 1
    BY Prefixed, LenProperties, EmptySeq
  <2>2. QED
    BY <2>1
<1>2. Len(a) = n + 1 /\ Len(b) = n + 1 /\ a[1] = y /\ b[1] = z /\ \A i \in 2 .. n + 1 : a[i] = b[i]
  BY <1>1, Prefixed
<1>3. \A i : At(a, t, i) => i \in 2 .. n + 1 - m + 1
  <2> SUFFICES ASSUME NEW i, At(a, t, i) PROVE i \in 2 .. n + 1 - m + 1
    OBVIOUS
  <2>1. i \in 1 .. n + 1 - m + 1 /\ a[i + 1 - 1] = t[1]
    BY <1>1, <1>2 DEF At
  <2>2. i # 1
    BY <1>2, <2>1
  <2>3. QED
    BY <1>1, <2>1, <2>2
<1>4. \A i : At(b, t, i) => i \in 2 .. n + 1 - m + 1
  <2> SUFFICES ASSUME NEW i, At(b, t, i) PROVE i \in 2 .. n + 1 - m + 1
    OBVIOUS
  <2>1. i \in 1 .. n + 1 - m + 1 /\ b[i + 1 - 1] = t[1]
    BY <1>1, <1>2 DEF At
  <2>2. i # 1
    BY <1>2, <2>1
  <2>3. QED
    BY <1>1, <2>1, <2>2
<1>5. \A i \in 2 .. n + 1 - m + 1 : At(a, t, i) <=> At(b, t, i)
  <2> SUFFICES ASSUME NEW i \in 2 .. n + 1 - m + 1 PROVE At(a, t, i) <=> At(b, t, i)
    OBVIOUS
  <2>1. \A j \in 1 .. m : i + j - 1 \in 2 .. n + 1
    BY <1>1
  <2>2. \A j \in 1 .. m : a[i + j - 1] = b[i + j - 1]
    BY <1>2, <2>1
  <2>3. QED
    BY <1>1, <1>2, <2>2 DEF At
<1>6. {i \in 1 .. Len(a) - m + 1 : At(a, t, i)} = {i \in 1 .. Len(b) - m + 1 : At(b, t, i)}
  <2>1. \A i \in 1 .. n + 1 - m + 1 : At(a, t, i) <=> At(b, t, i)
    BY <1>3, <1>4, <1>5
  <2>2. QED
    BY <1>2, <2>1
<1>7. find(a, t) = find(b, t)
  <2>1. PICK P, Q : P = {i \in 1 .. Len(a) - m + 1 : At(a, t, i)} /\ Q = {i \in 1 .. Len(b) - m + 1 : At(b, t, i)}
    OBVIOUS
  <2>2. find(a, t) = IF P = {} THEN 0 ELSE Min(P)
    BY <1>1, <2>1, FindIs, ZenonT(30)
  <2>3. find(b, t) = IF Q = {} THEN 0 ELSE Min(Q)
    BY <1>1, <2>1, FindIs, ZenonT(30)
  <2>4. P = Q
    BY <1>6, <2>1
  <2>5. QED
    BY <2>2, <2>3, <2>4
<1>8. find(a, t) # 0 => At(a, t, find(a, t))
  BY FindFirst
<1>9. QED
  BY <1>1, <1>3, <1>7, <1>8

\* The beginning of such a text begins with its token; the rest is the same.
SameParts(S, s, n) ==
    \E u \in Seq(S), v \in Seq(S) :
       \A z \in S : SubSeq(<<z>> \o s, 1, n) = <<z>> \o u /\ From(<<z>> \o s, n + 1) = v

\* It is so wherever the text is cut.
LEMMA PartTwin == ASSUME NEW S, NEW s \in Seq(S), NEW n \in 1 .. Len(s) + 1 PROVE SameParts(S, s, n)
<1>1. PICK m \in Nat : m = Len(s)
  BY LenProperties
<1>2. n - 1 \in 0 .. m /\ n \in Nat /\ n >= 1 /\ n <= m + 1 /\ n - 1 + 1 = n
  BY <1>1
<1>3. PICK u \in Seq(S), v \in Seq(S) : u = SubSeq(s, 1, n - 1) /\ v = From(s, n) /\ Len(u) = n - 1 /\ s = u \o v
  <2>1. SubSeq(s, 1, n - 1) \in Seq(S) /\ From(s, n) \in Seq(S) /\ Len(SubSeq(s, 1, n - 1)) = n - 1
        /\ s = SubSeq(s, 1, n - 1) \o From(s, n)
    BY <1>1, <1>2, Split, ZenonT(30)
  <2>2. QED
    BY <2>1
<1>4. ASSUME NEW z \in S PROVE SubSeq(<<z>> \o s, 1, n) = <<z>> \o u /\ From(<<z>> \o s, n + 1) = v
  <2>1. PICK x \in Seq(S) : x = <<z>> \o u /\ Len(x) = n
    <3>1. <<z>> \o u \in Seq(S) /\ Len(<<z>> \o u) = n - 1 + 1
      BY <1>3, Prefixed
    <3>2. QED
      BY <1>2, <3>1
  <2>2. <<z>> \o s = x \o v
    <3>1. PICK e \in Seq(S) : e = <<z>>
      <4>1. <<z>> \in Seq(S)
        OBVIOUS
      <4>2. QED
        BY <4>1
    <3>2. e \o (u \o v) = (e \o u) \o v
      OBVIOUS
    <3>3. QED
      BY <1>3, <2>1, <3>1, <3>2
  <2>3. SubSeq(x \o v, 1, n) = x /\ From(x \o v, n + 1) = v
    BY <1>2, <2>1, ConcatParts, ZenonT(30)
  <2>4. QED
    BY <2>1, <2>2, <2>3
<1>5. QED
  BY <1>4 DEF SameParts

\* The first word of such a text begins with its token; the others are the
\* same.  Its runs are the first and what goes on, or only what goes on.
FirstRun(z, s, w) == WordRuns(<<z>> \o s) = [done |-> <<>>, now |-> <<z>> \o w]

MoreRuns(z, s, w, d, n) == WordRuns(<<z>> \o s) = [done |-> << <<z>> \o w >> \o d, now |-> n]

\* A token more goes on with the first run or ends it.
LEMMA FirstRunStep ==
    ASSUME NEW z \in Plain, NEW s \in Texts, NEW w \in Texts, NEW c \in Symbol, FirstRun(z, s, w)
    PROVE  IF c \in Space THEN MoreRuns(z, Append(s, c), w, <<>>, <<>>) ELSE FirstRun(z, Append(s, c), Append(w, c))
<1>1. PICK e \in Texts : e = <<z>>
  <2>1. <<z>> \in Texts
    BY DEF Texts, Plain
  <2>2. QED
    BY <2>1
<1>2. PICK r, x : r = [done |-> <<>>, now |-> x] /\ x = e \o w
  OBVIOUS
<1>3. e \o Append(s, c) = Append(e \o s, c) /\ e \o s \in Texts /\ e \o Append(w, c) = Append(x, c) /\ x \in Texts /\ x # <<>>
  <2>1. e \o Append(s, c) = Append(e \o s, c) /\ e \o Append(w, c) = Append(e \o w, c) /\ e \o s \in Texts /\ e \o w \in Texts
    BY DEF Texts
  <2>2. Len(e \o w) = Len(w) + 1 /\ Len(w) \in Nat
    BY <1>1, Prefixed DEF Texts, Plain
  <2>3. QED
    BY <1>2, <2>1, <2>2
<1>4. WordRuns(e \o Append(s, c)) = WordStep(r, c)
  <2>1. WordRuns(Append(e \o s, c)) = WordStep(WordRuns(e \o s), c)
    BY <1>3, FoldsAppend DEF Texts
  <2>2. QED
    BY <1>1, <1>2, <1>3, <2>1 DEF FirstRun
<1>5. CASE c \in Space
  <2>1. Runs(r) = << x >>
    <3>1. Runs(r) = Append(<<>>, x)
      BY <1>2, <1>3 DEF Runs
    <3>2. QED
      BY <3>1
  <2>2. WordStep(r, c) = [done |-> << x >>, now |-> <<>>]
    BY <1>5, <2>1 DEF WordStep
  <2>3. << x >> \o <<>> = << x >>
    OBVIOUS
  <2>4. QED
    BY <1>1, <1>2, <1>4, <1>5, <2>2, <2>3 DEF MoreRuns
<1>6. CASE c \notin Space
  <2>1. WordStep(r, c) = [done |-> <<>>, now |-> Append(x, c)]
    BY <1>2, <1>6 DEF WordStep, GoesOn
  <2>2. QED
    BY <1>1, <1>3, <1>4, <1>6, <2>1 DEF FirstRun
<1>7. QED
  BY <1>5, <1>6

\* A token more goes on with the last run or ends it.
LEMMA MoreRunsStep ==
    ASSUME NEW z \in Plain, NEW s \in Texts, NEW w \in Texts, NEW d \in Seq(Texts), NEW n \in Texts, NEW c \in Symbol,
           MoreRuns(z, s, w, d, n)
    PROVE  IF c \in Space THEN MoreRuns(z, Append(s, c), w, IF n = <<>> THEN d ELSE Append(d, n), <<>>)
           ELSE MoreRuns(z, Append(s, c), w, d, Append(n, c))
<1>1. PICK e \in Texts : e = <<z>>
  <2>1. <<z>> \in Texts
    BY DEF Texts, Plain
  <2>2. QED
    BY <2>1
<1>2. PICK r, y, x : r = [done |-> y, now |-> n] /\ y = << x >> \o d /\ x = e \o w
  OBVIOUS
<1>3. e \o Append(s, c) = Append(e \o s, c) /\ e \o s \in Texts /\ x \in Texts
  BY <1>2 DEF Texts
<1>4. WordRuns(e \o Append(s, c)) = WordStep(r, c)
  <2>1. WordRuns(Append(e \o s, c)) = WordStep(WordRuns(e \o s), c)
    BY <1>3, FoldsAppend DEF Texts
  <2>2. QED
    BY <1>1, <1>2, <1>3, <2>1 DEF MoreRuns
<1>5. CASE c \in Space
  <2>1. PICK f : f = IF n = <<>> THEN d ELSE Append(d, n)
    OBVIOUS
  <2>2. Runs(r) = << x >> \o f
    <3>1. CASE n = <<>>
      BY <1>2, <2>1, <3>1 DEF Runs
    <3>2. CASE n # <<>>
      <4>1. PICK g \in Seq(Texts) : g = << x >>
        <5>1. << x >> \in Seq(Texts)
          BY <1>3
        <5>2. QED
          BY <5>1
      <4>2. g \o Append(d, n) = Append(g \o d, n)
        OBVIOUS
      <4>3. Runs(r) = Append(y, n)
        BY <1>2, <3>2 DEF Runs
      <4>4. QED
        BY <1>2, <2>1, <3>2, <4>1, <4>2, <4>3
    <3>3. QED
      BY <3>1, <3>2
  <2>3. WordStep(r, c) = [done |-> << x >> \o f, now |-> <<>>]
    BY <1>5, <2>2 DEF WordStep
  <2>4. MoreRuns(z, Append(s, c), w, f, <<>>)
    BY <1>1, <1>2, <1>4, <2>3 DEF MoreRuns
  <2>5. QED
    BY <1>5, <2>1, <2>4
<1>6. CASE c \notin Space
  <2>1. WordStep(r, c) = [done |-> << x >> \o d, now |-> Append(n, c)]
    BY <1>2, <1>6 DEF WordStep, GoesOn
  <2>2. QED
    BY <1>1, <1>2, <1>4, <1>6, <2>1 DEF MoreRuns
<1>7. QED
  BY <1>5, <1>6

\* Whatever its first token, the words of a text are the same after it.
LEMMA WordsTwin ==
    ASSUME NEW s \in Texts
    PROVE  \E w \in Texts, d \in Seq(Texts) : \A z \in Plain : Words(<<z>> \o s) = << <<z>> \o w >> \o d
<1> DEFINE First(t) == \E w \in Texts : \A z \in Plain : FirstRun(z, t, w)
           More(t) == \E w \in Texts : \E d \in Seq(Texts) : \E n \in Texts : \A z \in Plain : MoreRuns(z, t, w, d, n)
           T == {t \in Texts : First(t) \/ More(t)}
<1>0. <<>> \in Texts
  BY DEF Texts
<1>1. <<>> \in T
  <2>1. ASSUME NEW z \in Plain PROVE FirstRun(z, <<>>, <<>>)
    <3>1. PICK e \in Texts : e = <<z>>
      <4>1. <<z>> \in Texts
        BY DEF Texts, Plain
      <4>2. QED
        BY <4>1
    <3>2. e \o <<>> = e /\ e = Append(<<>>, z)
      BY <3>1 DEF Texts
    <3>3. WordRuns(Append(<<>>, z)) = WordStep(NoRuns, z)
      BY <1>0, FoldsEmpty, FoldsAppend DEF Texts
    <3>4. WordStep(NoRuns, z) = [done |-> <<>>, now |-> Append(<<>>, z)]
      BY DEF WordStep, NoRuns, GoesOn, Plain
    <3>5. QED
      BY <3>1, <3>2, <3>3, <3>4 DEF FirstRun
  <2>2. QED
    BY <1>0, <2>1
<1>2. ASSUME NEW t \in Texts, NEW c \in Symbol, t \in T PROVE Append(t, c) \in T
  <2>1. Append(t, c) \in Texts
    BY DEF Texts
  <2>2. CASE First(t)
    <3>1. PICK w \in Texts : \A z \in Plain : FirstRun(z, t, w)
      BY <2>2
    <3>2. CASE c \in Space
      <4>1. \A z \in Plain : MoreRuns(z, Append(t, c), w, <<>>, <<>>)
        BY <3>1, <3>2, FirstRunStep
      <4>2. <<>> \in Seq(Texts)
        OBVIOUS
      <4>3. More(Append(t, c))
        BY <1>0, <4>1, <4>2
      <4>4. QED
        BY <2>1, <4>3
    <3>3. CASE c \notin Space
      <4>1. \A z \in Plain : FirstRun(z, Append(t, c), Append(w, c))
        BY <3>1, <3>3, FirstRunStep
      <4>2. Append(w, c) \in Texts
        BY DEF Texts
      <4>3. First(Append(t, c))
        BY <4>1, <4>2
      <4>4. QED
        BY <2>1, <4>3
    <3>4. QED
      BY <3>2, <3>3
  <2>3. CASE More(t)
    <3>1. PICK w \in Texts : \E d \in Seq(Texts) : \E n \in Texts : \A z \in Plain : MoreRuns(z, t, w, d, n)
      BY <2>3
    <3>2. PICK d \in Seq(Texts) : \E n \in Texts : \A z \in Plain : MoreRuns(z, t, w, d, n)
      BY <3>1
    <3>3. PICK n \in Texts : \A z \in Plain : MoreRuns(z, t, w, d, n)
      BY <3>2
    <3>4. CASE c \in Space
      <4>1. PICK f \in Seq(Texts) : f = IF n = <<>> THEN d ELSE Append(d, n)
        <5>1. Append(d, n) \in Seq(Texts)
          OBVIOUS
        <5>2. QED
          BY <5>1
      <4>2. \A z \in Plain : MoreRuns(z, Append(t, c), w, f, <<>>)
        BY <3>3, <3>4, <4>1, MoreRunsStep
      <4>3. More(Append(t, c))
        BY <1>0, <4>2
      <4>4. QED
        BY <2>1, <4>3
    <3>5. CASE c \notin Space
      <4>1. \A z \in Plain : MoreRuns(z, Append(t, c), w, d, Append(n, c))
        BY <3>3, <3>5, MoreRunsStep
      <4>2. Append(n, c) \in Texts
        BY DEF Texts
      <4>3. More(Append(t, c))
        BY <4>1, <4>2
      <4>4. QED
        BY <2>1, <4>3
    <3>6. QED
      BY <3>4, <3>5
  <2>4. QED
    BY <1>2, <2>2, <2>3
<1> HIDE DEF T
<1>3. Texts \subseteq T
  BY <1>1, <1>2, OfStrip!SeqSetInduction DEF Texts
<1>4. First(s) \/ More(s)
  BY <1>3 DEF T
<1>5. CASE First(s)
  <2>1. PICK w \in Texts : \A z \in Plain : FirstRun(z, s, w)
    BY <1>5
  <2>2. ASSUME NEW z \in Plain PROVE Words(<<z>> \o s) = << <<z>> \o w >> \o <<>>
    <3>1. PICK x : x = <<z>> \o w
      OBVIOUS
    <3>2. Len(x) = Len(w) + 1 /\ Len(w) \in Nat
      BY <3>1, Prefixed DEF Texts, Plain
    <3>3. x # <<>>
      BY <3>2
    <3>4. Words(<<z>> \o s) = Runs([done |-> <<>>, now |-> x])
      BY <2>1, <3>1 DEF FirstRun, Words, WordRuns
    <3>5. Words(<<z>> \o s) = Append(<<>>, x)
      BY <3>3, <3>4 DEF Runs
    <3>6. Append(<<>>, x) = << x >> \o <<>>
      OBVIOUS
    <3>7. QED
      BY <3>1, <3>5, <3>6
  <2>3. <<>> \in Seq(Texts)
    OBVIOUS
  <2>4. QED
    BY <2>2, <2>3
<1>6. CASE More(s)
  <2>1. PICK w \in Texts : \E d \in Seq(Texts) : \E n \in Texts : \A z \in Plain : MoreRuns(z, s, w, d, n)
    BY <1>6
  <2>2. PICK d \in Seq(Texts) : \E n \in Texts : \A z \in Plain : MoreRuns(z, s, w, d, n)
    BY <2>1
  <2>3. PICK n \in Texts : \A z \in Plain : MoreRuns(z, s, w, d, n)
    BY <2>2
  <2>4. PICK f \in Seq(Texts) : f = IF n = <<>> THEN d ELSE Append(d, n)
    <3>1. Append(d, n) \in Seq(Texts)
      OBVIOUS
    <3>2. QED
      BY <3>1
  <2>5. ASSUME NEW z \in Plain PROVE Words(<<z>> \o s) = << <<z>> \o w >> \o f
    <3>1. PICK x \in Texts : x = <<z>> \o w
      <4>1. <<z>> \o w \in Texts
        BY Prefixed DEF Texts, Plain
      <4>2. QED
        BY <4>1
    <3>2. PICK g \in Seq(Texts) : g = << x >>
      <4>1. << x >> \in Seq(Texts)
        OBVIOUS
      <4>2. QED
        BY <4>1
    <3>3. Words(<<z>> \o s) = Runs([done |-> g \o d, now |-> n])
      BY <2>3, <3>1, <3>2 DEF MoreRuns, Words, WordRuns
    <3>4. Words(<<z>> \o s) = IF n = <<>> THEN g \o d ELSE Append(g \o d, n)
      BY <3>3 DEF Runs
    <3>5. g \o Append(d, n) = Append(g \o d, n)
      OBVIOUS
    <3>6. QED
      BY <2>4, <3>1, <3>2, <3>4, <3>5
  <2>6. QED
    BY <2>5
<1>7. QED
  BY <1>4, <1>5, <1>6

\* Methods that HEAD is compared with.
Verbs == {"HEAD", "GET", "POST"}

\* They are such tokens, and in capitals.
LEMMA VerbsPlain == Verbs \subseteq Plain /\ \A z \in Verbs : z \in HttpMethod /\ toupper(<<z>>)[1] = z /\ Len(toupper(<<z>>)) = 1
<1>1. Verbs \subseteq HttpMethod
  BY DEF Verbs, HttpMethod
<1>2. Verbs \subseteq Plain
  BY <1>1, RequestsAssumption DEF Plain, Space, Verbs
<1>3. ASSUME NEW z \in Verbs PROVE toupper(<<z>>)[1] = z /\ Len(toupper(<<z>>)) = 1
  <2>1. DOMAIN <<z>> = 1 .. 1 /\ <<z>>[1] = z
    OBVIOUS
  <2>2. z \notin DOMAIN Capital
    BY DEF Capital, Verbs
  <2>3. PICK m : m = toupper(<<z>>)
    OBVIOUS
  <2>4. DOMAIN m = 1 .. 1 /\ m[1] = z
    BY <2>1, <2>2, <2>3 DEF toupper
  <2>5. <<z>> \in Texts
    BY <1>2 DEF Plain, Texts
  <2>6. Len(m) = Len(<<z>>)
    BY <2>3, <2>5, Cased
  <2>7. Len(<<z>>) = 1
    OBVIOUS
  <2>8. QED
    BY <2>3, <2>4, <2>6, <2>7
<1>4. QED
  BY <1>1, <1>2, <1>3

\* What is received of such texts differs only in the first token.
LEMMA ReceivedTwin ==
    ASSUME NEW s \in Texts
    PROVE  \E t \in Texts : \A z \in Plain : Received(<<z>> \o s) = string_to_request(<<z>> \o t)
<1>1. PICK S : S = Symbol \cup {"NUL"}
  OBVIOUS
<1>2. PICK e \in Seq(S) : e = <<"NUL">> /\ e # <<>> /\ Len(e) = 1 /\ e[1] = "NUL"
  <2>1. PICK x : x = <<"NUL">>
    OBVIOUS
  <2>2. x \in Seq(S) /\ x # <<>> /\ Len(x) = 1 /\ x[1] = "NUL"
    BY <1>1, <2>1
  <2>3. QED
    BY <2>1, <2>2
<1>3. s \in Seq(S) /\ Plain \subseteq S /\ "GET" \in Plain /\ \A z \in Plain : z # "NUL"
  BY <1>1, VerbsPlain DEF Texts, Plain, Verbs
<1>4. PICK nul : nul = find(<<"GET">> \o s, e)
  OBVIOUS
<1>5. \A z \in Plain : find(<<z>> \o s, e) = nul /\ (nul # 0 => nul \in 2 .. Len(s) + 1)
  <2> SUFFICES ASSUME NEW z \in Plain PROVE find(<<z>> \o s, e) = nul /\ (nul # 0 => nul \in 2 .. Len(s) + 1)
    OBVIOUS
  <2>1. e[1] \notin {z, "GET"} /\ z \in S /\ "GET" \in S
    BY <1>2, <1>3
  <2>2. /\ find(<<z>> \o s, e) = find(<<"GET">> \o s, e)
        /\ find(<<z>> \o s, e) # 0 => find(<<z>> \o s, e) \in 2 .. Len(s) + 1 - Len(e) + 1
    <3>1. \A a, b \in S : \A r, t \in Seq(S) : t # <<>> /\ t[1] \notin {a, b} =>
             /\ find(<<a>> \o r, t) = find(<<b>> \o r, t)
             /\ find(<<a>> \o r, t) # 0 => find(<<a>> \o r, t) \in 2 .. Len(r) + 1 - Len(t) + 1
      BY FindTwin
    <3>2. PICK g : g = "GET"
      OBVIOUS
    <3>3. e # <<>> /\ s \in Seq(S) /\ e[1] \notin {z, g} /\ z \in S /\ g \in S
      BY <1>2, <1>3, <2>1, <3>2
    <3>4. /\ find(<<z>> \o s, e) = find(<<g>> \o s, e)
          /\ find(<<z>> \o s, e) # 0 => find(<<z>> \o s, e) \in 2 .. Len(s) + 1 - Len(e) + 1
      BY <3>1, <3>3
    <3>5. QED
      BY <3>2, <3>4
  <2>3. Len(s) + 1 - 1 + 1 = Len(s) + 1
    BY DEF Texts
  <2>4. QED
    BY <1>2, <1>4, <2>2, <2>3
<1>A. nul # 0 => nul \in 2 .. Len(s) + 1
  BY <1>3, <1>5
<1>6. CASE nul = 0
  <2>1. \A z \in Plain : Received(<<z>> \o s) = string_to_request(<<z>> \o s)
    BY <1>2, <1>5, <1>6 DEF Received
  <2>2. QED
    BY <2>1
<1>7. CASE nul # 0
  <2>1. nul - 1 \in 1 .. Len(s) + 1
    <3>1. Len(s) \in Nat
      BY DEF Texts
    <3>2. QED
      BY <1>A, <1>7, <3>1
  <2>2. PICK t \in Texts, v \in Texts : \A z \in Symbol : SubSeq(<<z>> \o s, 1, nul - 1) = <<z>> \o t /\ From(<<z>> \o s, nul - 1 + 1) = v
    <3>1. PICK k \in 1 .. Len(s) + 1 : k = nul - 1
      BY <2>1
    <3>2. \E t \in Seq(Symbol), v \in Seq(Symbol) :
             \A z \in Symbol : SubSeq(<<z>> \o s, 1, k) = <<z>> \o t /\ From(<<z>> \o s, k + 1) = v
      <4>1. s \in Seq(Symbol)
        BY DEF Texts
      <4>2. SameParts(Symbol, s, k)
        BY <4>1, PartTwin
      <4>3. QED
        BY <4>2 DEF SameParts
    <3>3. QED
      BY <3>1, <3>2 DEF Texts
  <2>3. \A z \in Plain : Received(<<z>> \o s) = string_to_request(SubSeq(<<z>> \o s, 1, nul - 1))
    BY <1>2, <1>5, <1>7 DEF Received
  <2>4. \A z \in Plain : Received(<<z>> \o s) = string_to_request(<<z>> \o t)
    BY <2>2, <2>3 DEF Plain
  <2>5. QED
    BY <2>4
<1>8. QED
  BY <1>6, <1>7

\* A request that says HEAD is the same request when it says GET or POST,
\* but for the method.
LEMMA RequestTwin ==
    ASSUME NEW s \in Texts, Received(<<"HEAD">> \o s) \notin {Throws("invalid_argument"), Throws("logic_error")}
    PROVE  \E u, h, c : \A z \in Verbs : Received(<<z>> \o s) = Req(z, u, h, c)
<1>1. PICK t \in Texts : \A z \in Plain : Received(<<z>> \o s) = string_to_request(<<z>> \o t)
  BY ReceivedTwin
<1>2. Verbs \subseteq Plain /\ "HEAD" \in Verbs /\ "HEAD" \in Plain
  BY VerbsPlain DEF Verbs
<1>3. Readable(<<"HEAD">> \o t)
  <2>1. string_to_request(<<"HEAD">> \o t) \notin {Throws("invalid_argument"), Throws("logic_error")}
    BY <1>1, <1>2
  <2>2. QED
    BY <2>1, ReadParts
<1>4. PICK at : at = find(<<"HEAD">> \o t, CRLF)
  OBVIOUS
<1>5. PICK m \in Nat : m = Len(t)
  BY LenProperties DEF Texts
<1>6. at \in 2 .. m /\ \A z \in Plain : find(<<z>> \o t, CRLF) = at
  <2>1. at # 0
    BY <1>3, <1>4 DEF Readable
  <2>2. ASSUME NEW z \in Plain PROVE find(<<z>> \o t, CRLF) = at /\ at \in 2 .. m
    <3>1. CRLF[1] \notin {z, "HEAD"} /\ z \in Symbol /\ "HEAD" \in Symbol
      BY <1>2, LineEnds DEF Plain, Space
    <3>2. /\ find(<<z>> \o t, CRLF) = find(<<"HEAD">> \o t, CRLF)
          /\ find(<<z>> \o t, CRLF) # 0 => find(<<z>> \o t, CRLF) \in 2 .. Len(t) + 1 - Len(CRLF) + 1
      BY <3>1, LineEnds, FindTwin DEF Texts
    <3>3. Len(t) + 1 - Len(CRLF) + 1 = m
      BY <1>5, LineEnds
    <3>4. QED
      BY <1>4, <2>1, <3>2, <3>3
  <2>3. QED
    BY <1>2, <2>2
<1>7. PICK l \in Texts : \A z \in Plain : SubSeq(<<z>> \o t, 1, at - 1) = <<z>> \o l
  <2>1. at - 1 \in 1 .. Len(t) + 1
    BY <1>5, <1>6
  <2>2. PICK a \in Texts, b \in Texts : \A z \in Symbol : SubSeq(<<z>> \o t, 1, at - 1) = <<z>> \o a /\ From(<<z>> \o t, at - 1 + 1) = b
    <3>1. PICK k \in 1 .. Len(t) + 1 : k = at - 1
      BY <2>1
    <3>2. \E a \in Seq(Symbol), b \in Seq(Symbol) :
             \A z \in Symbol : SubSeq(<<z>> \o t, 1, k) = <<z>> \o a /\ From(<<z>> \o t, k + 1) = b
      <4>1. t \in Seq(Symbol)
        BY DEF Texts
      <4>2. SameParts(Symbol, t, k)
        BY <4>1, PartTwin
      <4>3. QED
        BY <4>2 DEF SameParts
    <3>3. QED
      BY <3>1, <3>2 DEF Texts
  <2>3. QED
    BY <2>2 DEF Plain
<1>8. PICK rest \in Texts : \A z \in Plain : From(<<z>> \o t, at + 2) = rest
  <2>1. at + 1 \in 1 .. Len(t) + 1 /\ at + 1 + 1 = at + 2
    BY <1>5, <1>6
  <2>2. PICK a \in Texts, b \in Texts : \A z \in Symbol : SubSeq(<<z>> \o t, 1, at + 1) = <<z>> \o a /\ From(<<z>> \o t, at + 1 + 1) = b
    <3>1. PICK k \in 1 .. Len(t) + 1 : k = at + 1
      BY <2>1
    <3>2. \E a \in Seq(Symbol), b \in Seq(Symbol) :
             \A z \in Symbol : SubSeq(<<z>> \o t, 1, k) = <<z>> \o a /\ From(<<z>> \o t, k + 1) = b
      <4>1. t \in Seq(Symbol)
        BY DEF Texts
      <4>2. SameParts(Symbol, t, k)
        BY <4>1, PartTwin
      <4>3. QED
        BY <4>2 DEF SameParts
    <3>3. QED
      BY <3>1, <3>2 DEF Texts
  <2>3. \A z \in Plain : From(<<z>> \o t, at + 2) = b
    BY <2>1, <2>2 DEF Plain
  <2>4. QED
    BY <2>3
<1>9. PICK w \in Texts, d \in Seq(Texts) : \A z \in Plain : Words(<<z>> \o l) = << <<z>> \o w >> \o d
  BY WordsTwin
<1>10. PICK p \in Seq(Texts) : p = d \o << <<>>, <<>>, <<>> >> /\ Len(p) >= 3
  <2>1. PICK pad : pad = << <<>>, <<>>, <<>> >>
    OBVIOUS
  <2>2. <<>> \in Texts
    BY DEF Texts
  <2>3. pad \in Seq(Texts) /\ Len(pad) = 3
    BY <2>1, <2>2
  <2>4. d \o pad \in Seq(Texts) /\ Len(d \o pad) = Len(d) + Len(pad) /\ Len(d) \in Nat
    BY <2>3, ConcatProperties, LenProperties
  <2>5. Len(d \o pad) >= 3
    BY <2>3, <2>4
  <2>6. QED
    BY <2>1, <2>4, <2>5
<1>11. ASSUME NEW z \in Plain
       PROVE  StartWords(<<z>> \o t)[1] = <<z>> \o w /\ StartWords(<<z>> \o t)[2] = p[1] /\ StartWords(<<z>> \o t)[3] = p[2]
  <2>1. PICK x \in Texts : x = <<z>> \o w
    <3>1. <<z>> \o w \in Texts
      BY Prefixed DEF Texts, Plain
    <3>2. QED
      BY <3>1
  <2>2. PICK g \in Seq(Texts) : g = << x >>
    <3>1. << x >> \in Seq(Texts)
      OBVIOUS
    <3>2. QED
      BY <3>1
  <2>3. PICK pad \in Seq(Texts) : pad = << <<>>, <<>>, <<>> >>
    <3>1. <<>> \in Texts
      BY DEF Texts
    <3>2. << <<>>, <<>>, <<>> >> \in Seq(Texts)
      BY <3>1
    <3>3. QED
      BY <3>2
  <2>4. StartWords(<<z>> \o t) = (g \o d) \o pad
    BY <1>6, <1>7, <1>9, <2>1, <2>2, <2>3 DEF StartWords
  <2>5. (g \o d) \o pad = g \o (d \o pad)
    OBVIOUS
  <2>6. StartWords(<<z>> \o t) = << x >> \o p
    BY <1>10, <2>2, <2>3, <2>4, <2>5
  <2>7. (<< x >> \o p)[1] = x /\ (<< x >> \o p)[2] = p[2 - 1] /\ (<< x >> \o p)[3] = p[3 - 1]
    <3>1. Len(p) \in Nat
      BY LenProperties
    <3>2. 2 \in 2 .. Len(p) + 1 /\ 3 \in 2 .. Len(p) + 1
      BY <1>10, <3>1
    <3>3. QED
      BY <3>2, Prefixed
  <2>8. 2 - 1 = 1 /\ 3 - 1 = 2
    OBVIOUS
  <2>9. QED
    BY <2>1, <2>6, <2>7, <2>8
<1>12. w = <<>> /\ Len(toupper(p[2])) = 1 /\ toupper(p[2])[1] = "HTTP/1.1"
  <2>1. PICK x \in Texts : x = <<"HEAD">> \o w /\ Len(x) = Len(w) + 1
    <3>1. <<"HEAD">> \o w \in Texts /\ Len(<<"HEAD">> \o w) = Len(w) + 1
      BY <1>2, Prefixed DEF Texts, Plain
    <3>2. QED
      BY <3>1
  <2>2. Len(toupper(x)) = 1
    BY <1>2, <1>3, <1>11, <2>1 DEF Readable
  <2>3. Len(x) = 1
    BY <2>2, Cased
  <2>4. w = <<>>
    BY <2>1, <2>3 DEF Texts
  <2>5. QED
    BY <1>2, <1>3, <1>11, <2>4 DEF Readable
<1>13. \A z \in Verbs : <<z>> \o w = <<z>>
  <2> SUFFICES ASSUME NEW z \in Verbs PROVE <<z>> \o <<>> = <<z>>
    BY <1>12
  <2>1. QED
    OBVIOUS
<1>14. PICK h, c : \A method, uri : ReadRest(Req(method, uri, NoHeaders, <<>>), rest) = Req(method, uri, h, c)
  BY RestRead
<1>15. ASSUME NEW z \in Verbs PROVE Received(<<z>> \o s) = Req(z, tolower(p[1]), h, c)
  <2>1. z \in Plain /\ toupper(<<z>>)[1] = z /\ Len(toupper(<<z>>)) = 1 /\ z \in HttpMethod
    BY VerbsPlain
  <2>2. StartWords(<<z>> \o t)[1] = <<z>> /\ StartWords(<<z>> \o t)[2] = p[1] /\ StartWords(<<z>> \o t)[3] = p[2]
    BY <1>11, <1>13, <2>1
  <2>3. Readable(<<z>> \o t)
    <3>1. find(<<z>> \o t, CRLF) # 0
      BY <1>6, <2>1
    <3>2. QED
      BY <1>12, <2>1, <2>2, <3>1 DEF Readable
  <2>4. string_to_request(<<z>> \o t) = ReadRest(Req(z, tolower(p[1]), NoHeaders, <<>>), rest)
    <3>1. string_to_request(<<z>> \o t) =
             ReadRest(Req(toupper(StartWords(<<z>> \o t)[1])[1], tolower(StartWords(<<z>> \o t)[2]), NoHeaders, <<>>),
                      From(<<z>> \o t, find(<<z>> \o t, CRLF) + 2))
      BY <2>3, ReadParts
    <3>2. From(<<z>> \o t, find(<<z>> \o t, CRLF) + 2) = rest
      BY <1>6, <1>8, <2>1
    <3>3. QED
      BY <2>1, <2>2, <3>1, <3>2
  <2>5. QED
    BY <1>1, <1>14, <2>1, <2>4
<1>16. QED
  BY <1>15

\* What a request is answered.
LEMMA RequestHandled ==
    ASSUME NEW text, NEW shown, NEW r, r = Received(text), r \notin {Throws("invalid_argument"), Throws("logic_error")}
    PROVE  LET e == HandleHttpRequest(r, shown)
           IN  HandleHttpData(text, shown) = IF Threw(e) THEN e ELSE Sent(e, r.method # "HEAD")
<1> DEFINE sorry(status) == SetContent(Response(status), <<"what">>)
           e == HandleHttpRequest(r, shown)
<1>1. HandleHttpData(text, shown) =
         CASE r = Throws("invalid_argument") -> Sent(Effect(sorry("400"), <<>>), TRUE)
           [] r = Throws("logic_error") -> Sent(Effect(sorry("505"), <<>>), TRUE)
           [] OTHER -> IF Threw(e) THEN e ELSE Sent(e, r.method # "HEAD")
  BY DEF HandleHttpData, Received
<1> HIDE DEF e, sorry
<1>2. r # Throws("invalid_argument") /\ r # Throws("logic_error")
  OBVIOUS
<1>3. HandleHttpData(text, shown) = IF Threw(e) THEN e ELSE Sent(e, r.method # "HEAD")
  BY <1>1, <1>2
<1>4. QED
  BY <1>3 DEF e

\* A text that says HEAD and is answered without content is answered the
\* same, and with content, when it says POST or GET.
THEOREM TextTwin ==
    ASSUME NEW s \in Texts, NEW shown, NEW a, a = HandleHttpData(<<"HEAD">> \o s, shown), ~Threw(a), ~a.send
    PROVE  \E m \in {"POST", "GET"} : HandleHttpData(<<m>> \o s, shown) = [a EXCEPT !.send = TRUE]
<1>1. PICK text, r : text = <<"HEAD">> \o s /\ r = Received(text)
  OBVIOUS
<1>2. r \notin {Throws("invalid_argument"), Throws("logic_error")}
  <2>1. SUFFICES ASSUME r \in {Throws("invalid_argument"), Throws("logic_error")} PROVE a.send
    OBVIOUS
  <2>2. HandleHttpData(text, shown).send
    BY <1>1, <2>1, TextAnswered
  <2>3. QED
    BY <1>1, <2>2
<1>3. PICK u, h, c : \A z \in Verbs : Received(<<z>> \o s) = Req(z, u, h, c)
  BY <1>1, <1>2, RequestTwin
<1>4. PICK m \in {"POST", "GET"} : m = IF u \in {<<"/version">>, <<"/vars">>} THEN "GET" ELSE "POST"
  OBVIOUS
<1>5. PICK q : q = Received(<<m>> \o s)
  OBVIOUS
<1>6. r = Req("HEAD", u, h, c) /\ q = Req(m, u, h, c)
  BY <1>1, <1>3, <1>4, <1>5 DEF Verbs
<1>7. r.method = "HEAD" /\ q.method = m /\ r.uri = u /\ q.uri = u /\ r.content = c /\ q.content = c
  BY <1>6 DEF Req
<1>8. PICK e : e = HandleHttpRequest(r, shown)
  OBVIOUS
<1>9. HandleHttpRequest(q, shown) = e
  BY <1>4, <1>7, <1>8, HeadDoesTheSame
<1>10. q \notin {Throws("invalid_argument"), Throws("logic_error")}
  <2>1. ~Threw(q)
    BY <1>6 DEF Threw, Req
  <2>2. Threw(Throws("invalid_argument")) /\ Threw(Throws("logic_error"))
    BY DEF Threw, Throws
  <2>3. QED
    BY <2>1, <2>2
<1>11. a = IF Threw(e) THEN e ELSE Sent(e, r.method # "HEAD")
  BY <1>1, <1>2, <1>8, RequestHandled
<1>12. HandleHttpData(<<m>> \o s, shown) = IF Threw(e) THEN e ELSE Sent(e, q.method # "HEAD")
  BY <1>5, <1>9, <1>10, RequestHandled
<1>13. ~Threw(e)
  BY <1>11
<1>14. a = Sent(e, FALSE) /\ HandleHttpData(<<m>> \o s, shown) = Sent(e, TRUE)
  BY <1>4, <1>7, <1>11, <1>12, <1>13
<1>15. [Sent(e, FALSE) EXCEPT !.send = TRUE] = Sent(e, TRUE)
  <2>1. \A x, y, f, t : [[response |-> x, calls |-> y, send |-> f] EXCEPT !.send = t]
                           = [response |-> x, calls |-> y, send |-> t]
    OBVIOUS
  <2>2. \A f : Sent(e, f) = [response |-> e.response, calls |-> e.calls, send |-> f]
    BY DEF Sent
  <2>3. \A f, t : [Sent(e, f) EXCEPT !.send = t] = Sent(e, t)
    BY <2>1, <2>2
  <2>4. QED
    BY <2>3, Zenon
<1>16. QED
  BY <1>14, <1>15

-----------------------------------------------------------------------------
(* Where the empty line is.                                                 *)
\* A line with its end, which does not begin with CR and has no end inside.
Ended(e) ==
    /\ Len(e) >= 3 /\ e[1] # CRLF[1] /\ e[Len(e) - 1] = CRLF[1] /\ e[Len(e)] = CRLF[2]
    /\ \A i \in 1 .. Len(e) - 2 : e[i] = CRLF[1] => e[i + 1] # CRLF[2]

EndedLines(S) == {e \in Seq(S) : Ended(e)}

\* Such lines in a row, so far: no empty line among them, and the next token
\* begins a line.
NoBlank(f) ==
    /\ Len(f) >= 2 /\ f[Len(f) - 1] = CRLF[1] /\ f[Len(f)] = CRLF[2]
    /\ \A i \in 1 .. Len(f) - 2 : f[i] = CRLF[1] /\ f[i + 1] = CRLF[2] => f[i + 2] # CRLF[1]

\* CR and LF are two tokens.
LEMMA TwoEnds == CRLF[1] # CRLF[2]
BY DEF CRLF

\* A line alone.
LEMMA BlankNone == ASSUME NEW S, NEW e \in Seq(S), Ended(e) PROVE NoBlank(e)
<1>1. Len(e) \in Nat
  BY LenProperties
<1>2. \A i \in 1 .. Len(e) - 2 : e[i] = CRLF[1] => e[i + 1] # CRLF[2]
  BY DEF Ended
<1>3. QED
  BY <1>1, <1>2 DEF Ended, NoBlank

\* A line more.
LEMMA BlankStep ==
    ASSUME NEW S, NEW f \in Seq(S), NEW e \in Seq(S), NoBlank(f), Ended(e)
    PROVE  NoBlank(f \o e)
<1>1. PICK n \in Nat, k \in Nat : n = Len(f) /\ k = Len(e)
  BY LenProperties
<1>2. PICK g : g = f \o e
  OBVIOUS
<1>3. g \in Seq(S) /\ Len(g) = n + k /\ (\A i \in 1 .. n : g[i] = f[i]) /\ \A i \in 1 .. k : g[n + i] = e[i]
  BY <1>1, <1>2, ConcatIs
<1>4. PICK cr, lf : cr = CRLF[1] /\ lf = CRLF[2]
  OBVIOUS
<1>5. /\ n >= 2 /\ f[n - 1] = cr /\ f[n] = lf
      /\ \A i \in 1 .. n - 2 : f[i] = cr /\ f[i + 1] = lf => f[i + 2] # cr
  BY <1>1, <1>4 DEF NoBlank
<1>6. /\ k >= 3 /\ e[1] # cr /\ e[k - 1] = cr /\ e[k] = lf
      /\ \A i \in 1 .. k - 2 : e[i] = cr => e[i + 1] # lf
  BY <1>1, <1>4 DEF Ended
<1>7. n + k - 1 = n + (k - 1) /\ k - 1 \in 1 .. k /\ k \in 1 .. k
  BY <1>6
<1>8. g[n + k - 1] = cr /\ g[n + k] = lf
  BY <1>3, <1>6, <1>7
<1>9. ASSUME NEW i \in 1 .. n + k - 2, g[i] = cr, g[i + 1] = lf PROVE g[i + 2] # cr
  <2>1. CASE i <= n - 2
    <3>1. i \in 1 .. n - 2 /\ i \in 1 .. n /\ i + 1 \in 1 .. n /\ i + 2 \in 1 .. n
      BY <2>1
    <3>2. f[i] = cr /\ f[i + 1] = lf /\ g[i + 2] = f[i + 2]
      BY <1>3, <1>9, <3>1
    <3>3. QED
      BY <1>5, <3>1, <3>2
  <2>2. CASE i = n - 1
    <3>1. i + 2 = n + 1 /\ 1 \in 1 .. k
      BY <1>6, <2>2
    <3>2. g[i + 2] = e[1]
      BY <1>3, <3>1
    <3>3. QED
      BY <1>6, <3>2
  <2>3. CASE i = n
    <3>1. n \in 1 .. n
      BY <1>5
    <3>2. g[n] = lf
      BY <1>3, <1>5, <3>1
    <3>3. cr # lf
      BY <1>4, TwoEnds
    <3>4. QED
      BY <1>9, <2>3, <3>2, <3>3
  <2>4. CASE i > n
    <3>1. PICK j \in 1 .. k - 2 : i = n + j
      <4>1. i - n \in 1 .. k - 2 /\ i = n + (i - n)
        BY <2>4
      <4>2. QED
        BY <4>1
    <3>2. j \in 1 .. k /\ j + 1 \in 1 .. k /\ i + 1 = n + (j + 1)
      BY <3>1
    <3>3. g[i] = e[j] /\ g[i + 1] = e[j + 1]
      BY <1>3, <3>1, <3>2
    <3>4. QED
      BY <1>6, <1>9, <3>1, <3>3
  <2>5. i <= n - 2 \/ i = n - 1 \/ i = n \/ i > n
    OBVIOUS
  <2>6. QED
    BY <2>1, <2>2, <2>3, <2>4, <2>5
<1>10. n + k >= 2
  BY <1>5
<1>11. NoBlank(g)
  <2>1. PICK m : m = n + k
    OBVIOUS
  <2>2. Len(g) = m /\ m >= 2 /\ g[m - 1] = cr /\ g[m] = lf
    BY <1>3, <1>8, <1>10, <2>1
  <2>3. \A i \in 1 .. m - 2 : g[i] = cr /\ g[i + 1] = lf => g[i + 2] # cr
    BY <1>9, <2>1
  <2>4. QED
    BY <1>4, <2>2, <2>3 DEF NoBlank
<1>12. QED
  BY <1>2, <1>11

\* Some lines more.
LEMMA BlankSteps ==
    ASSUME NEW S, NEW f \in Seq(S), NEW lines \in Seq(EndedLines(S)), NoBlank(f)
    PROVE  FlattenSeq(lines) \in Seq(S) /\ NoBlank(f \o FlattenSeq(lines))
<1> DEFINE T == {t \in Seq(EndedLines(S)) : NoBlank(f \o FlattenSeq(t))}
<1>0. EndedLines(S) \subseteq Seq(S)
  BY DEF EndedLines
<1>1. <<>> \in T
  <2>1. f \o FlattenSeq(<<>>) = f
    BY FlattenEmpty
  <2>2. <<>> \in Seq(EndedLines(S))
    OBVIOUS
  <2>3. QED
    BY <2>1, <2>2
<1>2. ASSUME NEW t \in Seq(EndedLines(S)), NEW e \in EndedLines(S), t \in T PROVE Append(t, e) \in T
  <2>1. t \in Seq(Seq(S)) /\ e \in Seq(S) /\ Ended(e)
    BY <1>0 DEF EndedLines
  <2>2. FlattenSeq(Append(t, e)) = FlattenSeq(t) \o e /\ FlattenSeq(t) \in Seq(S)
    BY <2>1, FlattenAppend, FlattenType
  <2>3. PICK g \in Seq(S) : g = FlattenSeq(t)
    BY <2>2
  <2>4. f \o (g \o e) = (f \o g) \o e /\ f \o g \in Seq(S)
    BY <2>1, SMTT(30)
  <2>5. NoBlank(f \o g)
    BY <1>2, <2>3
  <2>6. NoBlank((f \o g) \o e)
    BY <2>1, <2>4, <2>5, BlankStep
  <2>7. NoBlank(f \o FlattenSeq(Append(t, e)))
    BY <2>2, <2>3, <2>4, <2>6
  <2>8. Append(t, e) \in Seq(EndedLines(S))
    OBVIOUS
  <2>9. QED
    BY <2>7, <2>8
<1> HIDE DEF T
<1>3. Seq(EndedLines(S)) \subseteq T
  BY <1>1, <1>2, OfStrip!SeqSetInduction
<1>4. FlattenSeq(lines) \in Seq(S)
  <2>1. lines \in Seq(Seq(S))
    BY <1>0
  <2>2. QED
    BY <2>1, FlattenType
<1>5. QED
  BY <1>3, <1>4 DEF T

\* The first empty line after such lines is the one that follows them.
LEMMA BlankFirst ==
    ASSUME NEW S, CRLF[1] \in S, CRLF[2] \in S, NEW f \in Seq(S), NEW c \in Seq(S), NoBlank(f)
    PROVE  /\ f \o (CRLF \o c) \in Seq(S) /\ Len(f \o (CRLF \o c)) = Len(f) + 2 + Len(c)
           /\ find(f \o (CRLF \o c), CRLF \o CRLF) = Len(f) - 1
<1>1. PICK n \in Nat, k \in Nat : n = Len(f) /\ k = Len(c)
  BY LenProperties
<1>2. PICK cr \in S, lf \in S : cr = CRLF[1] /\ lf = CRLF[2]
  OBVIOUS
<1>3. PICK e \in Seq(S) : e = CRLF /\ Len(e) = 2 /\ e[1] = cr /\ e[2] = lf
  <2>1. PICK x : x = << cr, lf >>
    OBVIOUS
  <2>2. x \in Seq(S) /\ Len(x) = 2 /\ x[1] = cr /\ x[2] = lf
    BY <2>1
  <2>3. CRLF = x
    BY <1>2, <2>1 DEF CRLF
  <2>4. QED
    BY <2>2, <2>3
<1>4. PICK p \in Seq(S) : p = CRLF \o CRLF /\ Len(p) = 4 /\ p # <<>> /\ p[1] = cr /\ p[2] = lf /\ p[3] = cr /\ p[4] = lf
  <2>1. e = << cr, lf >>
    BY <1>2, <1>3 DEF CRLF
  <2>2. PICK x : x = << cr, lf >> \o << cr, lf >>
    OBVIOUS
  <2>3. x \in Seq(S) /\ Len(x) = 4 /\ x # <<>> /\ x[1] = cr /\ x[2] = lf /\ x[3] = cr /\ x[4] = lf
    BY <2>2, Twice
  <2>4. QED
    BY <1>3, <2>1, <2>2, <2>3
<1>5. PICK t \in Seq(S) : t = e \o c /\ Len(t) = 2 + k /\ t[1] = cr /\ t[2] = lf
  <2>1. e \o c \in Seq(S) /\ Len(e \o c) = 2 + k /\ \A i \in 1 .. 2 : (e \o c)[i] = e[i]
    <3>1. /\ e \o c \in Seq(S) /\ Len(e \o c) = Len(e) + Len(c)
          /\ \A i \in 1 .. Len(e) : (e \o c)[i] = e[i]
          /\ \A i \in 1 .. Len(c) : (e \o c)[Len(e) + i] = c[i]
      BY ConcatIs
    <3>2. QED
      BY <1>1, <1>3, <3>1
  <2>2. 1 \in 1 .. 2 /\ 2 \in 1 .. 2
    OBVIOUS
  <2>3. QED
    BY <1>3, <2>1, <2>2
<1>6. PICK g \in Seq(S) : g = f \o t /\ Len(g) = n + (2 + k) /\ (\A i \in 1 .. n : g[i] = f[i]) /\ g[n + 1] = cr /\ g[n + 2] = lf
  <2>1. f \o t \in Seq(S) /\ Len(f \o t) = n + (2 + k) /\ (\A i \in 1 .. n : (f \o t)[i] = f[i])
        /\ \A i \in 1 .. 2 + k : (f \o t)[n + i] = t[i]
    <3>1. /\ f \o t \in Seq(S) /\ Len(f \o t) = Len(f) + Len(t)
          /\ \A i \in 1 .. Len(f) : (f \o t)[i] = f[i]
          /\ \A i \in 1 .. Len(t) : (f \o t)[Len(f) + i] = t[i]
      BY ConcatIs
    <3>2. QED
      BY <1>1, <1>5, <3>1
  <2>2. 1 \in 1 .. 2 + k /\ 2 \in 1 .. 2 + k
    OBVIOUS
  <2>3. QED
    BY <1>5, <2>1, <2>2
<1>7. /\ n >= 2 /\ f[n - 1] = cr /\ f[n] = lf
      /\ \A i \in 1 .. n - 2 : f[i] = cr /\ f[i + 1] = lf => f[i + 2] # cr
  BY <1>1, <1>2 DEF NoBlank
<1>8. At(g, p, n - 1)
  <2>1. n - 1 \in 1 .. n + (2 + k) - 4 + 1
    BY <1>7
  <2>2. ASSUME NEW j \in 1 .. 4 PROVE g[n - 1 + j - 1] = p[j]
    <3>1. CASE j = 1
      <4>1. n - 1 + j - 1 = n - 1 /\ n - 1 \in 1 .. n
        BY <1>7, <3>1
      <4>2. QED
        BY <1>4, <1>6, <1>7, <3>1, <4>1
    <3>2. CASE j = 2
      <4>1. n - 1 + j - 1 = n /\ n \in 1 .. n
        BY <1>7, <3>2
      <4>2. QED
        BY <1>4, <1>6, <1>7, <3>2, <4>1
    <3>3. CASE j = 3
      <4>1. n - 1 + j - 1 = n + 1
        BY <3>3
      <4>2. QED
        BY <1>4, <1>6, <3>3, <4>1
    <3>4. CASE j = 4
      <4>1. n - 1 + j - 1 = n + 2
        BY <3>4
      <4>2. QED
        BY <1>4, <1>6, <3>4, <4>1
    <3>5. QED
      BY <3>1, <3>2, <3>3, <3>4
  <2>3. Len(g) = n + (2 + k) /\ Len(p) = 4
    BY <1>4, <1>6
  <2>4. QED
    BY <2>1, <2>2, <2>3 DEF At
<1>9. \A i \in 1 .. n - 2 : ~At(g, p, i)
  <2> SUFFICES ASSUME NEW i \in 1 .. n - 2, At(g, p, i) PROVE FALSE
    OBVIOUS
  <2>1. i + 1 - 1 = i /\ i + 2 - 1 = i + 1 /\ i + 3 - 1 = i + 2 /\ i \in 1 .. n /\ i + 1 \in 1 .. n /\ i + 2 \in 1 .. n
    OBVIOUS
  <2>2. \A j \in 1 .. 4 : g[i + j - 1] = p[j]
    BY <1>4 DEF At
  <2>3. g[i] = cr /\ g[i + 1] = lf /\ g[i + 2] = cr
    <3>1. g[i + 1 - 1] = p[1] /\ g[i + 2 - 1] = p[2] /\ g[i + 3 - 1] = p[3]
      BY <2>2
    <3>2. QED
      BY <1>4, <2>1, <3>1
  <2>4. f[i] = cr /\ f[i + 1] = lf /\ f[i + 2] = cr
    BY <1>6, <2>1, <2>3
  <2>5. QED
    BY <1>7, <2>4
<1>10. find(g, p) = n - 1
  <2>1. n - 1 \in Nat /\ n - 1 - 1 = n - 2
    BY <1>7
  <2>2. \A i \in Nat : At(g, p, i) /\ (\A j \in 1 .. i - 1 : ~At(g, p, j)) => find(g, p) = i
    BY <1>4, FindFirst
  <2>3. QED
    BY <1>8, <1>9, <2>1, <2>2
<1>11. n + (2 + k) = n + 2 + k
  OBVIOUS
<1>12. QED
  BY <1>1, <1>3, <1>4, <1>5, <1>6, <1>10, <1>11

\* What a line is made of, and its end.
LEMMA EndedLine ==
    ASSUME NEW S, CRLF[1] \in S, CRLF[2] \in S, NEW b \in Seq(S), b # <<>>, b[1] # CRLF[1],
           \A i \in 1 .. Len(b) - 1 : b[i] = CRLF[1] => b[i + 1] # CRLF[2]
    PROVE  b \o CRLF \in EndedLines(S)
<1>1. PICK n \in Nat : n = Len(b) /\ n >= 1
  <2>1. Len(b) \in Nat /\ Len(b) >= 1
    BY LenProperties, EmptySeq
  <2>2. QED
    BY <2>1
<1>2. PICK cr \in S, lf \in S : cr = CRLF[1] /\ lf = CRLF[2]
  OBVIOUS
<1>3. PICK e \in Seq(S) : e = CRLF /\ Len(e) = 2 /\ e[1] = cr /\ e[2] = lf
  <2>1. PICK x : x = << cr, lf >>
    OBVIOUS
  <2>2. x \in Seq(S) /\ Len(x) = 2 /\ x[1] = cr /\ x[2] = lf
    BY <2>1
  <2>3. CRLF = x
    BY <1>2, <2>1 DEF CRLF
  <2>4. QED
    BY <2>2, <2>3
<1>4. PICK l \in Seq(S) : l = b \o e /\ Len(l) = n + 2 /\ (\A i \in 1 .. n : l[i] = b[i]) /\ l[n + 1] = cr /\ l[n + 2] = lf
  <2>1. /\ b \o e \in Seq(S) /\ Len(b \o e) = Len(b) + Len(e)
        /\ \A i \in 1 .. Len(b) : (b \o e)[i] = b[i]
        /\ \A i \in 1 .. Len(e) : (b \o e)[Len(b) + i] = e[i]
    BY ConcatIs
  <2>2. 1 \in 1 .. Len(e) /\ 2 \in 1 .. Len(e)
    BY <1>3
  <2>3. QED
    BY <1>1, <1>3, <2>1, <2>2, ZenonT(30)
<1>5. Len(l) >= 3 /\ l[1] # cr /\ l[Len(l) - 1] = cr /\ l[Len(l)] = lf
  <2>1. n + 2 - 1 = n + 1 /\ 1 \in 1 .. n
    BY <1>1
  <2>2. QED
    BY <1>1, <1>2, <1>4, <2>1
<1>6. ASSUME NEW i \in 1 .. n, l[i] = cr PROVE l[i + 1] # lf
  <2>1. CASE i = n
    BY <1>2, <1>4, <2>1, TwoEnds
  <2>2. CASE i # n
    <3>1. i \in 1 .. n - 1 /\ i + 1 \in 1 .. n
      BY <1>1, <2>2
    <3>2. b[i] = cr /\ l[i + 1] = b[i + 1]
      BY <1>4, <1>6, <3>1
    <3>3. QED
      BY <1>1, <1>2, <3>1, <3>2
  <2>3. QED
    BY <2>1, <2>2
<1>7. Len(l) - 2 = n
  BY <1>1, <1>4
<1>8. Ended(l)
  BY <1>2, <1>5, <1>6, <1>7 DEF Ended
<1>9. QED
  BY <1>3, <1>4, <1>8 DEF EndedLines

\* Headers of one token each.
Short(h, S) ==
    /\ IsFiniteSet(DOMAIN h)
    /\ \A key \in DOMAIN h : \E k, v \in S : key = << k >> /\ h[key] = << v >> /\ k # CRLF[1]

\* The tokens that every response has.
Given(S) == CRLF[1] \in S /\ CRLF[2] \in S /\ ":" \in S /\ "SP" \in S /\ "HTTP/1.1" \in S

\* The tokens of a header line, or of the first.
LEMMA LineTokens ==
    /\ ":" # CRLF[1] /\ "SP" # CRLF[1] /\ "SP" # CRLF[2] /\ "HTTP/1.1" # CRLF[1]
BY DEF CRLF

\* A header of one token makes a line.
LEMMA ShortLine ==
    ASSUME NEW S, Given(S), NEW k \in S, NEW v \in S, k # CRLF[1]
    PROVE  << k >> \o <<":", "SP">> \o << v >> \o CRLF \in EndedLines(S)
<1>1. PICK c \in S, p \in S : c = ":" /\ p = "SP"
  BY DEF Given
<1>2. PICK x \in Seq(S) : x = << c, p >> /\ Len(x) = 2 /\ x[1] = c /\ x[2] = p
  <2>1. PICK y : y = << c, p >>
    OBVIOUS
  <2>2. y \in Seq(S) /\ Len(y) = 2 /\ y[1] = c /\ y[2] = p
    BY <2>1
  <2>3. QED
    BY <2>1, <2>2
<1>3. PICK a \in Seq(S) : a = << k >> \o x /\ Len(a) = 3 /\ a[1] = k /\ a[2] = c /\ a[3] = p
  <2>1. /\ << k >> \o x \in Seq(S) /\ Len(<< k >> \o x) = Len(x) + 1 /\ (<< k >> \o x)[1] = k
        /\ \A i \in 2 .. Len(x) + 1 : (<< k >> \o x)[i] = x[i - 1]
    BY Prefixed
  <2>2. 2 \in 2 .. Len(x) + 1 /\ 3 \in 2 .. Len(x) + 1 /\ 2 - 1 = 1 /\ 3 - 1 = 2
    BY <1>2
  <2>3. Len(<< k >> \o x) = 3 /\ (<< k >> \o x)[2] = x[1] /\ (<< k >> \o x)[3] = x[2]
    BY <1>2, <2>1, <2>2
  <2>4. QED
    BY <1>2, <2>1, <2>3
<1>4. PICK b \in Seq(S) : b = a \o << v >> /\ Len(b) = 4 /\ b[1] = k /\ b[2] = c /\ b[3] = p /\ b[4] = v
  <2>1. a \o << v >> = Append(a, v)
    OBVIOUS
  <2>2. Append(a, v) \in Seq(S) /\ Len(Append(a, v)) = 4 /\ Append(a, v)[1] = k /\ Append(a, v)[2] = c
        /\ Append(a, v)[3] = p /\ Append(a, v)[4] = v
    BY <1>3
  <2>3. QED
    BY <2>1, <2>2
<1>5. \A i \in 1 .. Len(b) - 1 : b[i] = CRLF[1] => b[i + 1] # CRLF[2]
  <2> SUFFICES ASSUME NEW i \in 1 .. 3 PROVE b[i] # CRLF[1]
    BY <1>4
  <2>1. k # CRLF[1] /\ c # CRLF[1] /\ p # CRLF[1]
    BY <1>1, LineTokens
  <2>2. i = 1 \/ i = 2 \/ i = 3
    OBVIOUS
  <2>3. QED
    BY <1>4, <2>1, <2>2
<1>6. b # <<>> /\ b[1] # CRLF[1]
  BY <1>4
<1>7. b \o CRLF \in EndedLines(S)
  BY <1>5, <1>6, EndedLine DEF Given
<1>8. QED
  BY <1>1, <1>2, <1>3, <1>4, <1>7

\* The first line of a response.
LEMMA FirstLine ==
    ASSUME NEW S, Given(S), NEW status \in S
    PROVE  <<"HTTP/1.1", "SP", status, "SP">> \o CRLF \in EndedLines(S)
<1>1. PICK h \in S, p \in S : h = "HTTP/1.1" /\ p = "SP"
  BY DEF Given
<1>2. PICK b \in Seq(S) : b = << h, p, status, p >> /\ Len(b) = 4 /\ b[1] = h /\ b[2] = p /\ b[3] = status /\ b[4] = p
  <2>1. PICK y : y = << h, p, status, p >>
    OBVIOUS
  <2>2. y \in Seq(S) /\ Len(y) = 4 /\ y[1] = h /\ y[2] = p /\ y[3] = status /\ y[4] = p
    BY <2>1
  <2>3. QED
    BY <2>1, <2>2
<1>3. \A i \in 1 .. Len(b) - 1 : b[i] = CRLF[1] => b[i + 1] # CRLF[2]
  <2> SUFFICES ASSUME NEW i \in 1 .. 3, b[i] = CRLF[1] PROVE b[i + 1] # CRLF[2]
    BY <1>2
  <2>1. h # CRLF[1] /\ p # CRLF[1] /\ p # CRLF[2]
    BY <1>1, LineTokens
  <2>2. i = 3
    <3>1. i = 1 \/ i = 2 \/ i = 3
      OBVIOUS
    <3>2. QED
      BY <1>2, <2>1, <3>1
  <2>3. QED
    BY <1>2, <2>1, <2>2
<1>4. b # <<>> /\ b[1] # CRLF[1]
  BY <1>1, <1>2, LineTokens
<1>5. b \o CRLF \in EndedLines(S)
  BY <1>3, <1>4, EndedLine DEF Given
<1>6. QED
  BY <1>1, <1>2, <1>5

\* A finite set as a sequence.
LEMMA SetSeq ==
    ASSUME NEW S, IsFiniteSet(S)
    PROVE  \E n \in Nat : SetToSeq(S) \in [1 .. n -> S]
<1>1. Cardinality(S) \in Nat /\ ExistsBijection(1 .. Cardinality(S), S)
  BY FS_CardinalityType
<1>2. PICK n \in Nat : n = Cardinality(S)
  BY <1>1
<1>3. PICK f : f \in Bijection(1 .. n, S)
  BY <1>1, <1>2 DEF ExistsBijection
<1>4. f \in [1 .. n -> S] /\ IsInjective(f)
  BY <1>3 DEF Bijection, Injection, IsInjective
<1>5. SetToSeq(S) \in [1 .. n -> S]
  BY <1>2, <1>4 DEF SetToSeq
<1>6. QED
  BY <1>5

\* The headers after the first line.
LEMMA HeadersEnd ==
    ASSUME NEW S, Given(S), NEW m, Short(m.headers, S), NEW f \in Seq(S), NoBlank(f)
    PROVE  HeaderText(m) \in Seq(S) /\ NoBlank(f \o HeaderText(m))
<1> DEFINE line(key) == key \o <<":", "SP">> \o m.headers[key] \o CRLF
<1>1. \A key \in DOMAIN m.headers : line(key) \in EndedLines(S)
  <2> SUFFICES ASSUME NEW key \in DOMAIN m.headers PROVE line(key) \in EndedLines(S)
    OBVIOUS
  <2>1. PICK k \in S, v \in S : key = << k >> /\ m.headers[key] = << v >> /\ k # CRLF[1]
    BY DEF Short
  <2>2. << k >> \o <<":", "SP">> \o << v >> \o CRLF \in EndedLines(S)
    BY <2>1, ShortLine
  <2>3. QED
    BY <2>1, <2>2
<1> HIDE DEF line
<1>2. PICK n \in Nat : SetToSeq(DOMAIN m.headers) \in [1 .. n -> DOMAIN m.headers]
  BY SetSeq DEF Short
<1>3. PICK q : q = SetToSeq(DOMAIN m.headers)
  OBVIOUS
<1>4. DOMAIN q = 1 .. n /\ \A i \in 1 .. n : q[i] \in DOMAIN m.headers
  BY <1>2, <1>3
<1>5. PICK lines : lines = [i \in 1 .. n |-> line(q[i])]
  OBVIOUS
<1>6. lines \in Seq(EndedLines(S))
  <2>1. \A i \in 1 .. n : line(q[i]) \in EndedLines(S)
    BY <1>1, <1>4
  <2>2. QED
    BY <1>5, <2>1
<1>7. HeaderText(m) = FlattenSeq(lines)
  <2>1. HeaderText(m) = FlattenSeq([i \in DOMAIN q |-> line(q[i])])
    BY <1>3 DEF HeaderText, line
  <2>2. [i \in DOMAIN q |-> line(q[i])] = lines
    BY <1>4, <1>5
  <2>3. QED
    BY <2>1, <2>2
<1>8. QED
  BY <1>6, <1>7, BlankSteps

\* What a response ends with after its empty line is its content, if that
\* goes with it.
LEMMA ResponseEnds ==
    ASSUME NEW S, Given(S), NEW m, Short(m.headers, S), m.status \in S, m.content \in Seq(S), NEW send \in BOOLEAN
    PROVE  LET text == ResponseText(m, send)
           IN  Len(text) - find(text, CRLF \o CRLF) - 3 = IF send THEN Len(m.content) ELSE 0
<1>1. PICK c \in Seq(S) : c = IF send THEN m.content ELSE <<>>
  <2>1. <<>> \in Seq(S)
    OBVIOUS
  <2>2. QED
    BY <2>1
<1>2. PICK a : a = <<"HTTP/1.1", "SP", m.status, "SP">> \o CRLF
  OBVIOUS
<1>3. a \in Seq(S) /\ NoBlank(a)
  <2>1. a \in EndedLines(S)
    BY <1>2, FirstLine
  <2>2. QED
    BY <2>1, BlankNone DEF EndedLines
<1>4. PICK h \in Seq(S) : h = HeaderText(m) /\ NoBlank(a \o h)
  <2>1. HeaderText(m) \in Seq(S) /\ NoBlank(a \o HeaderText(m))
    BY <1>3, HeadersEnd
  <2>2. QED
    BY <2>1
<1>5. PICK f \in Seq(S) : f = a \o h /\ NoBlank(f)
  <2>1. a \o h \in Seq(S)
    BY <1>3
  <2>2. QED
    BY <1>4, <2>1
<1>6. PICK e \in Seq(S) : e = CRLF
  <2>1. PICK cr \in S, lf \in S : cr = CRLF[1] /\ lf = CRLF[2]
    BY DEF Given
  <2>2. << cr, lf >> \in Seq(S)
    OBVIOUS
  <2>3. CRLF = << cr, lf >>
    BY <2>1 DEF CRLF
  <2>4. QED
    BY <2>2, <2>3
<1>7. PICK text : text = ResponseText(m, send)
  OBVIOUS
<1>8. text = f \o (e \o c)
  <2>1. text = ((a \o h) \o e) \o c
    <3>1. CASE send
      BY <1>1, <1>2, <1>4, <1>6, <1>7, <3>1 DEF ResponseText
    <3>2. CASE ~send
      BY <1>1, <1>2, <1>4, <1>6, <1>7, <3>2 DEF ResponseText
    <3>3. QED
      BY <3>1, <3>2
  <2>2. (f \o e) \o c = f \o (e \o c)
    OBVIOUS
  <2>3. QED
    BY <1>5, <2>1, <2>2
<1>9. Len(text) = Len(f) + 2 + Len(c) /\ find(text, CRLF \o CRLF) = Len(f) - 1
  BY <1>5, <1>6, <1>8, BlankFirst DEF Given
<1>10. Len(f) \in Nat /\ Len(c) \in Nat
  BY LenProperties
<1>11. Len(text) - find(text, CRLF \o CRLF) - 3 = Len(c)
  BY <1>9, <1>10
<1>12. Len(c) = IF send THEN Len(m.content) ELSE 0
  BY <1>1
<1>13. QED
  BY <1>7, <1>11, <1>12

\* What HandleHttpData answers with: a status alone, an answer 200 or a
\* reason.
Reply(m) ==
    \/ \E status : m = Response(status)
    \/ \E word : m = Ok(<< word >>)
    \/ \E status, word : m = SetContent(Response(status), << word >>)

\* Headers of responses are of one token each.
LEMMA WithShort ==
    ASSUME NEW S, NEW h, Short(h, S), NEW k \in S, NEW v \in S, k # CRLF[1]
    PROVE  Short(With(h, << k >>, << v >>), S)
<1>1. PICK key : key = << k >>
  OBVIOUS
<1>2. PICK g : g = With(h, key, << v >>)
  OBVIOUS
<1>3. DOMAIN g = DOMAIN h \cup {key} /\ \A x \in DOMAIN g : g[x] = IF x = key THEN << v >> ELSE h[x]
  BY <1>2 DEF With
<1>4. IsFiniteSet(DOMAIN g)
  BY <1>3, FS_AddElement DEF Short
<1>5. ASSUME NEW x \in DOMAIN g
      PROVE  \E a, b \in S : x = << a >> /\ g[x] = << b >> /\ a # CRLF[1]
  <2>1. CASE x = key
    BY <1>1, <1>3, <2>1
  <2>2. CASE x # key
    BY <1>3, <2>2 DEF Short
  <2>3. QED
    BY <2>1, <2>2
<1>6. Short(g, S)
  BY <1>4, <1>5 DEF Short
<1>7. QED
  BY <1>1, <1>2, <1>6

\* The names of headers are no line ends.
LEMMA NamesOf ==
    ASSUME NEW S, "Content-Length" \in S, "Content-Type" \in S, "application/json" \in S, NEW h, Short(h, S),
           NEW content, NEW n \in S, LengthText(content) = << n >>
    PROVE  /\ Short(With(h, ContentLength, LengthText(content)), S)
           /\ Short(With(h, <<"Content-Type">>, <<"application/json">>), S)
<1>1. PICK a \in S, b \in S, c \in S : a = "Content-Length" /\ b = "Content-Type" /\ c = "application/json"
  OBVIOUS
<1>2. a # CRLF[1] /\ b # CRLF[1]
  BY <1>1 DEF CRLF
<1>3. Short(With(h, << a >>, << n >>), S)
  BY <1>2, WithShort
<1>4. Short(With(h, << b >>, << c >>), S)
  BY <1>2, WithShort
<1>5. ContentLength = << a >>
  BY <1>1 DEF ContentLength
<1>6. QED
  BY <1>1, <1>3, <1>4, <1>5

\* A response without headers.
LEMMA NoShort == ASSUME NEW S PROVE Short(NoHeaders, S)
<1>1. DOMAIN NoHeaders = {}
  BY DEF NoHeaders
<1>2. QED
  BY <1>1, FS_EmptySet DEF Short

\* So what follows the empty line of a reply is its content, if it is sent.
LEMMA ReplyEnds ==
    ASSUME NEW m, Reply(m), NEW send \in BOOLEAN
    PROVE  LET text == ResponseText(m, send)
           IN  Len(text) - find(text, CRLF \o CRLF) - 3 = IF send THEN Len(m.content) ELSE 0
<1>1. PICK n : LengthText(m.content) = << n >>
  BY Zenon DEF LengthText
<1>2. PICK S : S = {CRLF[1], CRLF[2], ":", "SP", "HTTP/1.1", "Content-Length", "Content-Type", "application/json",
                    n, m.status} \cup {m.content[i] : i \in {1}}
  OBVIOUS
<1>3. Given(S) /\ "Content-Length" \in S /\ "Content-Type" \in S /\ "application/json" \in S /\ n \in S /\ m.status \in S
      /\ m.content[1] \in S
  BY <1>2 DEF Given
<1>4. SUFFICES Short(m.headers, S) /\ m.content \in Seq(S)
  BY <1>3, ResponseEnds
<1>5. CASE \E status : m = Response(status)
  <2>1. m.headers = NoHeaders /\ m.content = <<>>
    BY <1>5 DEF Response
  <2>2. <<>> \in Seq(S)
    OBVIOUS
  <2>3. QED
    BY <2>1, <2>2, NoShort
<1>6. CASE \E word : m = Ok(<< word >>)
  <2>1. PICK word : m = Ok(<< word >>)
    BY <1>6
  <2>2. PICK c : c = << word >>
    OBVIOUS
  <2>3. PICK h : h = With(NoHeaders, <<"Content-Type">>, <<"application/json">>)
    OBVIOUS
  <2>4. SetHeader(Response("200"), <<"Content-Type">>, <<"application/json">>) = Message("200", h, <<>>)
    BY <2>3, ResponseOf, SetHeaderOf
  <2>5. m = Message("200", With(h, ContentLength, LengthText(c)), c)
    BY <2>1, <2>2, <2>4, SetContentOf DEF Ok
  <2>6. m.content = c /\ m.headers = With(h, ContentLength, LengthText(c))
    BY <2>5 DEF Message
  <2>7. Short(h, S)
    BY <1>1, <1>3, <2>3, NoShort, NamesOf
  <2>8. Short(m.headers, S)
    BY <1>1, <1>3, <2>6, <2>7, NamesOf
  <2>9. c[1] \in S /\ c[1] = word
    BY <1>3, <2>2, <2>6
  <2>10. << word >> \in Seq(S)
    BY <2>9
  <2>11. QED
    BY <2>2, <2>6, <2>8, <2>10
<1>7. CASE \E status, word : m = SetContent(Response(status), << word >>)
  <2>1. PICK status, word : m = SetContent(Response(status), << word >>)
    BY <1>7
  <2>2. PICK c : c = << word >>
    OBVIOUS
  <2>3. m = Message(status, With(NoHeaders, ContentLength, LengthText(c)), c)
    BY <2>1, <2>2, ResponseOf, SetContentOf
  <2>4. m.content = c /\ m.headers = With(NoHeaders, ContentLength, LengthText(c))
    BY <2>3 DEF Message
  <2>5. Short(m.headers, S)
    BY <1>1, <1>3, <2>4, NoShort, NamesOf
  <2>6. c[1] \in S /\ c[1] = word
    BY <1>3, <2>2, <2>4
  <2>7. << word >> \in Seq(S)
    BY <2>6
  <2>8. QED
    BY <2>2, <2>4, <2>5, <2>7
<1>8. QED
  BY <1>5, <1>6, <1>7 DEF Reply

\* A request is answered with such a reply, or not at all.
LEMMA RequestReplies ==
    ASSUME NEW r, NEW shown, NEW e, e = HandleHttpRequest(r, shown), ~Threw(e)
    PROVE  Reply(e.response)
<1>1. \A response, calls : Effect(response, calls).response = response
  BY DEF Effect
<1>2. CASE e = Effect(Response("404"), <<>>) \/ e = Effect(Response("405"), <<>>)
  BY <1>1, <1>2 DEF Reply
<1>3. CASE \E path, ms, name : Serves(path, ms, name) /\ e = Handler(name, r.content, shown)
  <2>1. PICK path, ms, name : Serves(path, ms, name) /\ e = Handler(name, r.content, shown)
    BY <1>3
  <2>2. e # Throws("abort")
    BY DEF Threw, Throws
  <2>3. CASE e = Refused
    BY <1>1, <2>3 DEF Refused, Reply
  <2>4. CASE \E word, calls : e = Effect(Ok(<< word >>), calls)
    BY <1>1, <2>4 DEF Reply
  <2>5. Outcome(path, ms, e)
    BY <2>1, HandlerAnswers
  <2>6. QED
    BY <2>2, <2>3, <2>4, <2>5 DEF Outcome
<1>4. QED
  BY <1>2, <1>3, Dispatch

\* And so is every text.
LEMMA TextReplies ==
    ASSUME NEW text, NEW shown, NEW a, a = HandleHttpData(text, shown), ~Threw(a)
    PROVE  Reply(a.response) /\ a.send \in BOOLEAN
<1>1. PICK r : r = Received(text)
  OBVIOUS
<1>2. \A e, send : Sent(e, send).response = e.response /\ Sent(e, send).send = send
  BY DEF Sent
<1>3. CASE r \in {Throws("invalid_argument"), Throws("logic_error")}
  <2> DEFINE sorry(status) == Effect(SetContent(Response(status), <<"what">>), <<>>)
             e == HandleHttpRequest(r, shown)
  <2>0. a = CASE r = Throws("invalid_argument") -> Sent(sorry("400"), TRUE)
              [] r = Throws("logic_error") -> Sent(sorry("505"), TRUE)
              [] OTHER -> IF Threw(e) THEN e ELSE Sent(e, r.method # "HEAD")
    BY <1>1 DEF HandleHttpData, Received
  <2> HIDE DEF e, sorry
  <2>6. Throws("invalid_argument") # Throws("logic_error")
    BY DEF Throws
  <2>7. a = Sent(sorry("400"), TRUE) \/ a = Sent(sorry("505"), TRUE)
    BY <1>3, <2>0, <2>6
  <2>1. \E status : a = Sent(Effect(SetContent(Response(status), <<"what">>), <<>>), TRUE)
    BY <2>7 DEF sorry
  <2>2. PICK status, m : m = SetContent(Response(status), <<"what">>)
                         /\ a = Sent(Effect(m, <<>>), TRUE)
    BY <2>1
  <2>3. a.response = m /\ a.send = TRUE
    BY <1>2, <2>2, ZenonT(30) DEF Effect
  <2>4. Reply(m)
    BY <2>2 DEF Reply
  <2>5. QED
    BY <2>3, <2>4
<1>4. CASE r \notin {Throws("invalid_argument"), Throws("logic_error")}
  <2>1. PICK e : e = HandleHttpRequest(r, shown)
    OBVIOUS
  <2>2. a = IF Threw(e) THEN e ELSE Sent(e, r.method # "HEAD")
    BY <1>1, <1>4, <2>1, RequestHandled
  <2>3. ~Threw(e) /\ a = Sent(e, r.method # "HEAD")
    BY <2>2
  <2>4. a.response = e.response /\ a.send = (r.method # "HEAD")
    BY <1>2, <2>3
  <2>5. Reply(e.response)
    BY <2>1, <2>3, RequestReplies
  <2>6. QED
    BY <2>4, <2>5
<1>5. QED
  BY <1>3, <1>4
-----------------------------------------------------------------------------
(* What every request text is answered.                                     *)
\* What AnswerTells says of the text of an answer.
EndsAs(text, a) ==
    LET after == Len(text) - find(text, CRLF \o CRLF) - 3
    IN  IF ContentLength \in DOMAIN a.response.headers
        THEN a.response.headers[ContentLength] = <<ToString(after)>> \/ (~a.send /\ after = 0)
        ELSE after = 0 /\ a.response.status \in {"400", "404", "405"}

\* What AnswerTells says of an answer to a text.
TellsText(text, shown, a) ==
    IF Threw(a) THEN strip(text)[1] \in {"POST", "HEAD"} /\ strip(text)[2] = "/tab"
    ELSE /\ a.calls # <<>> =>
              Len(a.calls) = 1 /\ a.response.status = "200" /\ strip(text)[1] \in {"POST", "HEAD"}
         /\ EndsAs(ResponseText(a.response, a.send), a)

\* Every text is answered so.
LEMMA TextTells ==
    ASSUME NEW text \in Texts, NEW shown, NEW a, a = HandleHttpData(text, shown)
    PROVE  TellsText(text, shown, a)
<1>1. PICK r : r = Received(text)
  OBVIOUS
<1>2. CASE Threw(a)
  <2>1. r \notin {Throws("invalid_argument"), Throws("logic_error")} /\ r.uri = <<"/tab">> /\ r.method \in {"POST", "HEAD"}
    BY <1>1, <1>2, TextAnswered
  <2>2. QED
    BY <1>1, <1>2, <2>1, RequestHeard DEF TellsText
<1>3. CASE ~Threw(a)
  <2>1. /\ Tells(IF r \in {Throws("invalid_argument"), Throws("logic_error")} THEN "GET" ELSE r.method, a)
        /\ r \in {Throws("invalid_argument"), Throws("logic_error")} => a.calls = <<>>
    BY <1>1, <1>3, TextAnswered
  <2>2. a.calls # <<>> => Len(a.calls) = 1 /\ a.response.status = "200" /\ strip(text)[1] \in {"POST", "HEAD"}
    BY <1>1, <2>1, RequestHeard DEF Tells
  <2>3. PICK m : m = a.response
    OBVIOUS
  <2>4. PICK after : after = Len(ResponseText(m, a.send)) - find(ResponseText(m, a.send), CRLF \o CRLF) - 3
    OBVIOUS
  <2>5. after = IF a.send THEN Len(m.content) ELSE 0
    BY <1>3, <2>3, <2>4, TextReplies, ReplyEnds
  <2>6. CASE ContentLength \in DOMAIN m.headers
    <3>1. m.headers[ContentLength] = LengthText(m.content)
      BY <2>1, <2>3, <2>6 DEF Tells
    <3>2. a.send => LengthText(m.content) = <<ToString(after)>>
      BY <2>5, Zenon DEF LengthText
    <3>3. m.headers[ContentLength] = <<ToString(after)>> \/ (~a.send /\ after = 0)
      BY <2>5, <3>1, <3>2, Zenon
    <3>4. QED
      BY <1>3, <2>2, <2>3, <2>4, <2>6, <3>3, Zenon DEF TellsText, EndsAs
  <2>7. CASE ContentLength \notin DOMAIN m.headers
    <3>1. m.content = <<>> /\ m.status \in {"400", "404", "405"}
      BY <2>1, <2>3, <2>7 DEF Tells
    <3>2. after = 0
      BY <2>5, <3>1
    <3>3. QED
      BY <1>3, <2>2, <2>3, <2>4, <2>7, <3>1, <3>2, Zenon DEF TellsText, EndsAs
  <2>8. QED
    BY <2>6, <2>7
<1>4. QED
  BY <1>2, <1>3

\* The state of the growing requests: pieces of texts.
RequestsInvariant == kind = "request" /\ input \in Seq(Texts)

\* Every piece is a text.
LEMMA PiecesAreTexts ==
    /\ \A f \in Fields : Line(f) \in Texts
    /\ StartLines \subseteq Texts /\ Others \subseteq Texts
<1>1. ASSUME NEW f \in Fields PROVE Line(f) \in Texts
  <2>1. PICK c : c = <<":">>
    OBVIOUS
  <2>2. PICK colon \in Symbol, cr \in Symbol, lf \in Symbol : colon = ":" /\ cr = CRLF[1] /\ lf = CRLF[2]
    BY RequestsAssumption DEF CRLF, Space
  <2>3. <<colon>> \in Texts /\ <<cr, lf>> \in Texts
    BY DEF Texts
  <2>4. CRLF = <<cr, lf>>
    BY <2>2 DEF CRLF
  <2>5. f[1] \in Texts /\ f[2] \in Texts
    BY RequestsAssumption DEF Texts
  <2>6. f[1] \o <<colon>> \in Texts
    BY <2>3, <2>5, ConcatProperties DEF Texts
  <2>7. (f[1] \o <<colon>>) \o f[2] \in Texts
    BY <2>5, <2>6, ConcatProperties DEF Texts
  <2>8. ((f[1] \o <<colon>>) \o f[2]) \o <<cr, lf>> \in Texts
    BY <2>3, <2>7, ConcatProperties DEF Texts
  <2>9. QED
    BY <2>2, <2>4, <2>8 DEF Line
<1>2. QED
  BY <1>1, RequestsAssumption DEF Texts

\* Every request is made of texts.
THEOREM RequestsType == RequestsSpec => []RequestsInvariant
<1>1. RequestsInit => RequestsInvariant
  BY DEF RequestsInit, RequestsInvariant
<1>2. RequestsInvariant /\ [RequestsNext]_vars => RequestsInvariant'
  <2> SUFFICES ASSUME RequestsInvariant, [RequestsNext]_vars PROVE RequestsInvariant'
    OBVIOUS
  <2>1. ASSUME NEW pieces, pieces \subseteq Texts, NEW max, Grow("request", pieces, max)
        PROVE  RequestsInvariant'
    <3>1. PICK p \in pieces : input' = Append(input, p)
      BY <2>1 DEF Grow
    <3>2. Append(input, p) \in Seq(Texts)
      BY <2>1, AppendProperties DEF RequestsInvariant
    <3>3. QED
      BY <2>1, <3>1, <3>2 DEF Grow, RequestsInvariant
  <2>2. CASE StartRequest
    BY <2>1, <2>2, PiecesAreTexts DEF StartRequest
  <2>3. CASE GrowRequest
    <3>1. {Line(f) : f \in Fields} \cup Others \subseteq Texts
      BY PiecesAreTexts
    <3>2. QED
      BY <2>1, <2>3, <3>1 DEF GrowRequest
  <2>4. CASE UNCHANGED vars
    BY <2>4 DEF vars, RequestsInvariant
  <2>5. QED
    BY <2>2, <2>3, <2>4 DEF RequestsNext
<1>3. QED
  BY <1>1, <1>2, PTL DEF RequestsSpec

\* The answers to all requests, with what HEAD has in common with the other
\* methods (HttpServer::HandleHttpData, to_string of a response).
THEOREM RequestsAnswered == RequestsSpec => []AnswerTells
<1>1. RequestsInvariant => AnswerTells
  <2> SUFFICES ASSUME RequestsInvariant, NEW shown \in BOOLEAN,
                      NEW a \in IF kind = "request" THEN {HandleHttpData(Text, shown)} ELSE {}
               PROVE  IF Threw(a) THEN Said[1] \in {"POST", "HEAD"} /\ Said[2] = "/tab"
                      ELSE /\ a.calls # <<>> =>
                                Len(a.calls) = 1 /\ a.response.status = "200" /\ Said[1] \in {"POST", "HEAD"}
                           /\ input # <<>> /\ Text[1] = "HEAD" /\ ~a.send =>
                                \E m \in {"POST", "GET"} : HandleHttpData(<<m>> \o Tail(Text), shown) = [a EXCEPT !.send = TRUE]
                           /\ \A text \in {ResponseText(a.response, a.send)} : EndsAs(text, a)
    BY DEF AnswerTells, EndsAs
  <2>0. a = HandleHttpData(Text, shown)
    BY DEF RequestsInvariant
  <2>1. PICK text : text = Text
    OBVIOUS
  <2>2. text \in Texts
    BY <2>1, FlattenType DEF Text, RequestsInvariant, Texts
  <2>3. TellsText(text, shown, a)
    BY <2>0, <2>1, <2>2, TextTells
  <2>4. ASSUME ~Threw(a), text[1] = "HEAD", ~a.send
        PROVE  \E m \in {"POST", "GET"} : HandleHttpData(<<m>> \o Tail(text), shown) = [a EXCEPT !.send = TRUE]
    <3>1. text # <<>>
      <4>1. SUFFICES ASSUME text = <<>> PROVE FALSE
        OBVIOUS
      <4>2. PICK r : r = Received(text)
        OBVIOUS
      <4>3. r \notin {Throws("invalid_argument"), Throws("logic_error")}
        BY <2>0, <2>1, <2>4, <4>2, TextAnswered
      <4>4. PICK t \in Texts, u \in Texts : text = t \o u /\ r = string_to_request(t)
        BY <2>2, <4>2, ReceivedPart
      <4>5. Readable(t)
        BY <4>3, <4>4, ReadParts
      <4>6. Len(text) = 0 /\ Len(t \o u) = Len(t) + Len(u) /\ Len(t) \in Nat /\ Len(u) \in Nat
        BY <4>1, ConcatProperties DEF Texts
      <4>7. Len(t) = 0
        BY <4>4, <4>6
      <4>8. find(t, CRLF) # 0
        BY <4>5 DEF Readable
      <4>9. \A i \in 1 .. Len(t) : ~At(t, CRLF, i)
        BY <4>7
      <4>10. find(t, CRLF) = 0
        BY <4>9, FindFirst, LineEnds DEF Texts
      <4>11. QED
        BY <4>8, <4>10
    <3>2. text[1] \in Symbol /\ Tail(text) \in Texts
      BY <2>2, <3>1 DEF Texts
    <3>3. PICK z \in Symbol, s \in Texts : z = text[1] /\ s = Tail(text)
      BY <3>2
    <3>4. text = <<z>> \o s
      BY <2>2, <3>1, <3>3 DEF Texts
    <3>5. text = <<"HEAD">> \o s
      BY <2>4, <3>3, <3>4
    <3>6. \E m \in {"POST", "GET"} : HandleHttpData(<<m>> \o s, shown) = [a EXCEPT !.send = TRUE]
      BY <2>0, <2>1, <2>4, <3>5, TextTwin
    <3>7. QED
      BY <3>3, <3>6, Zenon
  <2>5. Said = strip(text)
    BY <2>1 DEF Said
  <2>6. CASE Threw(a)
    BY <2>3, <2>5, <2>6 DEF TellsText
  <2>7. CASE ~Threw(a)
    <3>1. a.calls # <<>> => Len(a.calls) = 1 /\ a.response.status = "200" /\ Said[1] \in {"POST", "HEAD"}
      BY <2>3, <2>5, <2>7 DEF TellsText
    <3>2. EndsAs(ResponseText(a.response, a.send), a)
      BY <2>3, <2>7 DEF TellsText
    <3>3. Text[1] = "HEAD" /\ ~a.send =>
             \E m \in {"POST", "GET"} : HandleHttpData(<<m>> \o Tail(Text), shown) = [a EXCEPT !.send = TRUE]
      BY <2>1, <2>4, <2>7, Zenon
    <3>4. QED
      BY <2>7, <3>1, <3>2, <3>3, Zenon
  <2>8. QED
    BY <2>6, <2>7
<1>2. QED
  BY <1>1, RequestsType, PTL

-----------------------------------------------------------------------------
(* What is read of a request in order.                                      *)
\* The name that a line gives a value, and the value, if the line before it
\* gave v.
NameOf(line) == IF line = Colonless THEN <<"colonless">> ELSE strip(FieldOf(line)[1])

GivenBy(line, v) == IF line = Colonless THEN v ELSE strip(FieldOf(line)[2])

HeaderLines == {Line(f) : f \in Fields} \cup {Colonless}

\* A text without line feed that is read as the line.
Reads(b, line) ==
    /\ b \in Texts /\ \A i \in 1 .. Len(b) : b[i] # "LF"
    /\ KeyOf(b) = NameOf(line) /\ \A v : ValueOf(b, v) = GivenBy(line, v)

\* A line is such a text and the end of the line; with or without the CR it
\* is read as the line.
Bodied(line, b) ==
    /\ b # <<>> /\ line = b \o CRLF /\ \A i \in 1 .. Len(b) : b[i] # "CR"
    /\ Reads(b, line) /\ Reads(Append(b, "CR"), line)

\* Three texts in a row.
LEMMA Regroup ==
    ASSUME NEW S, NEW x \in Seq(S), NEW y \in Seq(S), NEW z \in Seq(S)
    PROVE  x \o (y \o z) = (x \o y) \o z
OBVIOUS

\* The same, with a name.
Regroups(x, y, z) == x \o (y \o z) = (x \o y) \o z

\* It does not matter which two texts come together first.
LEMMA Regrouped == ASSUME NEW S, NEW x \in Seq(S), NEW y \in Seq(S), NEW z \in Seq(S) PROVE Regroups(x, y, z)
BY Regroup DEF Regroups

\* A name, a colon and a value, and what is read of it.
Coloned(name, t) == name \o (<<":">> \o t)

Gives(l, name, t) == KeyOf(l) = strip(name) /\ \A v : ValueOf(l, v) = strip(t)

\* The colon is found.
LEMMA WithColon ==
    ASSUME NEW name \in Texts, NEW t \in Texts, ":" \notin Range(name)
    PROVE  Gives(Coloned(name, t), name, t)
<1>0. PICK l : l = name \o (<<":">> \o t)
  OBVIOUS
<1>1. PICK c \in Symbol : c = ":"
  BY RequestsAssumption
<1>2. PICK n \in Nat, k \in Nat : n = Len(name) /\ k = Len(t)
  BY LenProperties DEF Texts
<1>3. PICK p \in Texts : p = << c >> /\ Len(p) = 1 /\ p[1] = c /\ p # <<>>
  <2>1. << c >> \in Texts /\ Len(<< c >>) = 1 /\ << c >>[1] = c /\ << c >> # <<>>
    BY DEF Texts
  <2>2. QED
    BY <2>1
<1>4. PICK x \in Texts : x = p \o t /\ Len(x) = k + 1 /\ x[1] = c
  <2>1. << c >> \o t \in Texts /\ Len(<< c >> \o t) = Len(t) + 1 /\ (<< c >> \o t)[1] = c
    BY Prefixed DEF Texts
  <2>2. QED
    BY <1>2, <1>3, <2>1
<1>5. l = name \o x
  BY <1>0, <1>1, <1>3, <1>4
<1>6. l \in Texts /\ Len(l) = n + (k + 1) /\ (\A i \in 1 .. n : l[i] = name[i]) /\ l[n + 1] = c
  <2>1. /\ name \o x \in Seq(Symbol) /\ Len(name \o x) = Len(name) + Len(x)
        /\ \A i \in 1 .. Len(name) : (name \o x)[i] = name[i]
        /\ \A i \in 1 .. Len(x) : (name \o x)[Len(name) + i] = x[i]
    BY ConcatIs DEF Texts
  <2>2. 1 \in 1 .. Len(x)
    BY <1>2, <1>4
  <2>3. QED
    BY <1>2, <1>4, <1>5, <2>1, <2>2 DEF Texts
<1>7. At(l, p, n + 1)
  <2>1. n + 1 \in 1 .. Len(l) - Len(p) + 1
    BY <1>3, <1>6
  <2>2. \A j \in 1 .. Len(p) : l[n + 1 + j - 1] = p[j]
    BY <1>3, <1>6
  <2>3. QED
    BY <2>1, <2>2 DEF At
<1>8. \A i \in 1 .. n : ~At(l, p, i)
  <2> SUFFICES ASSUME NEW i \in 1 .. n, At(l, p, i) PROVE FALSE
    OBVIOUS
  <2>1. l[i + 1 - 1] = p[1] /\ i + 1 - 1 = i
    BY <1>3 DEF At
  <2>2. name[i] = c
    BY <1>3, <1>6, <2>1
  <2>3. name[i] \in Range(name)
    <3>1. i \in DOMAIN name
      BY <1>2 DEF Texts
    <3>2. QED
      BY <3>1, Zenon DEF Range
  <2>4. QED
    BY <1>1, <2>2, <2>3
<1>9. find(l, p) = n + 1
  <2>1. n + 1 \in Nat /\ n + 1 - 1 = n
    OBVIOUS
  <2>2. \A i \in Nat : At(l, p, i) /\ (\A j \in 1 .. i - 1 : ~At(l, p, j)) => find(l, p) = i
    BY <1>3, <1>6, FindFirst DEF Texts
  <2>3. QED
    BY <1>7, <1>8, <2>1, <2>2
<1>10. SubSeq(l, 1, n) = name
  BY <1>2, <1>5, ConcatParts DEF Texts
<1>11. From(l, n + 2) = t
  <2>1. PICK y \in Texts : y = name \o p /\ Len(y) = n + 1
    <3>1. name \o p \in Seq(Symbol) /\ Len(name \o p) = Len(name) + Len(p)
      BY ConcatIs DEF Texts
    <3>2. QED
      BY <1>2, <1>3, <3>1 DEF Texts
  <2>2. name \o (p \o t) = (name \o p) \o t
    <3>1. name \in Seq(Symbol) /\ p \in Seq(Symbol) /\ t \in Seq(Symbol)
      BY <1>3 DEF Texts
    <3>2. QED
      BY <3>1, Regroup
  <2>3. l = y \o t
    BY <1>4, <1>5, <2>1, <2>2
  <2>4. PICK m \in Nat : m = n + 1 /\ m = Len(y) /\ m + 1 = n + 2
    BY <2>1
  <2>5. From(y \o t, m + 1) = t
    BY <2>4, ConcatParts DEF Texts
  <2>6. QED
    BY <2>3, <2>4, <2>5
<1>12. PICK at : at = find(l, <<":">>)
  OBVIOUS
<1>13. at # 0 /\ at - 1 = n /\ at + 1 = n + 2
  BY <1>1, <1>3, <1>9, <1>12
<1>14. KeyOf(l) = strip(name)
  BY <1>10, <1>12, <1>13 DEF KeyOf
<1>15. \A v : ValueOf(l, v) = strip(t)
  BY <1>11, <1>12, <1>13 DEF ValueOf
<1>16. QED
  BY <1>0, <1>14, <1>15 DEF Coloned, Gives

\* No colon.
LEMMA WithoutColon ==
    ASSUME NEW l \in Texts, \A i \in 1 .. Len(l) : l[i] # ":"
    PROVE  KeyOf(l) = strip(l) /\ \A v : ValueOf(l, v) = v
<1>1. PICK c \in Symbol : c = ":"
  BY RequestsAssumption
<1>2. PICK p \in Texts : p = << c >> /\ Len(p) = 1 /\ p[1] = c /\ p # <<>>
  <2>1. << c >> \in Texts /\ Len(<< c >>) = 1 /\ << c >>[1] = c /\ << c >> # <<>>
    BY DEF Texts
  <2>2. QED
    BY <2>1
<1>3. \A i \in 1 .. Len(l) : ~At(l, p, i)
  <2> SUFFICES ASSUME NEW i \in 1 .. Len(l), At(l, p, i) PROVE FALSE
    OBVIOUS
  <2>1. l[i + 1 - 1] = p[1]
    BY <1>2 DEF At
  <2>2. i + 1 - 1 = i
    BY DEF Texts
  <2>3. QED
    BY <1>1, <1>2, <2>1, <2>2
<1>4. find(l, p) = 0
  BY <1>2, <1>3, FindFirst DEF Texts
<1>5. QED
  BY <1>1, <1>2, <1>4 DEF KeyOf, ValueOf

\* Whitespace at the end is stripped.
LEMMA StripEnd == ASSUME NEW s \in Texts PROVE Append(s, "CR") \in Texts /\ strip(Append(s, "CR")) = strip(s)
<1>1. PICK c \in Symbol : c = "CR" /\ c \in Space
  BY RequestsAssumption DEF Space
<1>2. strip(Append(s, c)) = Keep(strip(s), c)
  BY FoldsAppend DEF Texts
<1>3. Append(s, c) \in Texts
  BY DEF Texts
<1>4. QED
  BY <1>1, <1>2, <1>3 DEF Keep

\* The line that has no colon.
LEMMA ColonlessBody == Bodied(Colonless, <<"colonless">>)
<1>1. PICK w \in Symbol, c \in Symbol : w = "colonless" /\ c = "CR"
  BY RequestsAssumption DEF Space
<1>2. PICK b : b = << w >>
  OBVIOUS
<1>3. b \in Texts /\ Len(b) = 1 /\ b[1] = w /\ b # <<>>
  BY <1>2 DEF Texts
<1>4. PICK e : e = Append(b, c)
  OBVIOUS
<1>5. e \in Texts /\ Len(e) = 2 /\ e[1] = w /\ e[2] = c
  <2>1. e \in Seq(Symbol) /\ Len(e) = 2 /\ e[1] = w /\ e[2] = c
    BY <1>2, <1>4
  <2>2. QED
    BY <2>1 DEF Texts
<1>6. w # ":" /\ w # "CR" /\ w # "LF" /\ w \notin Space /\ c # ":" /\ c # "LF"
  BY <1>1 DEF Space
<1>7. strip(b) = b
  <2>1. b = Append(<<>>, w) /\ <<>> \in Seq(Symbol)
    BY <1>2
  <2>2. strip(b) = Keep(<<>>, w)
    BY <2>1, FoldsAppend, FoldsEmpty
  <2>3. QED
    BY <1>6, <2>1, <2>2 DEF Keep
<1>8. KeyOf(b) = b /\ \A v : ValueOf(b, v) = v
  <2>1. \A i \in 1 .. Len(b) : b[i] # ":"
    BY <1>3, <1>6
  <2>2. QED
    BY <1>3, <1>7, <2>1, WithoutColon
<1>9. KeyOf(e) = b /\ \A v : ValueOf(e, v) = v
  <2>1. \A i \in 1 .. Len(e) : e[i] # ":"
    BY <1>5, <1>6
  <2>2. strip(e) = b
    BY <1>1, <1>3, <1>4, <1>7, StripEnd
  <2>3. QED
    BY <1>5, <2>1, <2>2, WithoutColon
<1>10. NameOf(Colonless) = b /\ \A v : GivenBy(Colonless, v) = v
  BY <1>1, <1>2 DEF NameOf, GivenBy
<1>11. Reads(b, Colonless)
  BY <1>3, <1>6, <1>8, <1>10 DEF Reads
<1>12. Reads(e, Colonless)
  BY <1>5, <1>6, <1>9, <1>10 DEF Reads
<1>13. Colonless = b \o CRLF
  BY <1>1, <1>2 DEF Colonless
<1>14. Bodied(Colonless, b)
  BY <1>1, <1>3, <1>4, <1>6, <1>11, <1>12, <1>13 DEF Bodied
<1>15. QED
  BY <1>1, <1>2, <1>14

\* A line of a field.
LEMMA FieldBody ==
    ASSUME NEW line, line \in {Line(f) : f \in Fields}, line # Colonless
    PROVE  \E b \in Texts : Bodied(line, b)
<1>1. FieldOf(line) \in Fields /\ Line(FieldOf(line)) = line
  BY DEF FieldOf
<1>2. PICK f \in Fields : f = FieldOf(line) /\ Line(f) = line
  BY <1>1
<1>3. PICK name \in Texts, value \in Texts : name = f[1] /\ value = f[2]
  <2>1. f[1] \in Texts /\ f[2] \in Texts
    BY <1>2, RequestsAssumption DEF Texts
  <2>2. QED
    BY <2>1
<1>4. Range(name) \cap {":", "CR", "LF"} = {} /\ Range(value) \cap {"CR", "LF"} = {}
  BY <1>2, <1>3, RequestsAssumption
<1>5. PICK c \in Symbol : c = ":"
  BY RequestsAssumption
<1>6. PICK p \in Texts : p = << c >> /\ Len(p) = 1 /\ p[1] = c
  <2>1. << c >> \in Texts /\ Len(<< c >>) = 1 /\ << c >>[1] = c
    BY DEF Texts
  <2>2. QED
    BY <2>1
<1>7. PICK n \in Nat, k \in Nat : n = Len(name) /\ k = Len(value)
  BY <1>3, LenProperties DEF Texts
<1>8. PICK x \in Texts : x = name \o p /\ Len(x) = n + 1 /\ (\A i \in 1 .. n : x[i] = name[i]) /\ x[n + 1] = c
  <2>1. /\ name \o p \in Seq(Symbol) /\ Len(name \o p) = Len(name) + Len(p)
        /\ \A i \in 1 .. Len(name) : (name \o p)[i] = name[i]
        /\ \A i \in 1 .. Len(p) : (name \o p)[Len(name) + i] = p[i]
    BY <1>3, <1>6, ConcatIs DEF Texts
  <2>2. 1 \in 1 .. Len(p)
    BY <1>6
  <2>3. QED
    BY <1>6, <1>7, <2>1, <2>2 DEF Texts
<1>9. PICK b \in Texts : b = x \o value /\ Len(b) = n + 1 + k /\ (\A i \in 1 .. n + 1 : b[i] = x[i])
                         /\ \A i \in 1 .. k : b[n + 1 + i] = value[i]
  <2>1. x \in Seq(Symbol) /\ value \in Seq(Symbol)
    BY <1>3, <1>8 DEF Texts
  <2>2. /\ x \o value \in Seq(Symbol) /\ Len(x \o value) = Len(x) + Len(value)
        /\ \A i \in 1 .. Len(x) : (x \o value)[i] = x[i]
        /\ \A i \in 1 .. Len(value) : (x \o value)[Len(x) + i] = value[i]
    BY <2>1, ConcatIs
  <2>3. PICK b : b = x \o value
    OBVIOUS
  <2>4. b \in Texts /\ Len(b) = n + 1 + k /\ (\A i \in 1 .. n + 1 : b[i] = x[i])
        /\ \A i \in 1 .. k : b[n + 1 + i] = value[i]
    BY <1>7, <1>8, <2>2, <2>3 DEF Texts
  <2>5. QED
    BY <2>3, <2>4
<1>10. line = b \o CRLF
  BY <1>2, <1>3, <1>5, <1>6, <1>8, <1>9 DEF Line
<1>11. \A i \in 1 .. Len(b) : b[i] # "CR" /\ b[i] # "LF"
  <2> SUFFICES ASSUME NEW i \in 1 .. n + 1 + k PROVE b[i] \notin {"CR", "LF"}
    BY <1>9
  <2>1. DOMAIN name = 1 .. n /\ DOMAIN value = 1 .. k
    BY <1>3, <1>7 DEF Texts
  <2>2. CASE i \in 1 .. n
    <3>1. b[i] = name[i] /\ name[i] \in Range(name)
      <4>1. b[i] = name[i]
        BY <1>8, <1>9, <2>2
      <4>2. name[i] \in Range(name)
        BY <2>1, <2>2, Zenon DEF Range
      <4>3. QED
        BY <4>1, <4>2
    <3>2. QED
      BY <1>4, <3>1
  <2>3. CASE i = n + 1
    <3>1. b[i] = c
      BY <1>8, <1>9, <2>3
    <3>2. QED
      BY <1>5, <3>1
  <2>4. CASE i > n + 1
    <3>1. PICK j \in 1 .. k : i = n + 1 + j
      <4>1. i - (n + 1) \in 1 .. k /\ i = n + 1 + (i - (n + 1))
        BY <2>4
      <4>2. QED
        BY <4>1
    <3>2. b[i] = value[j] /\ value[j] \in Range(value)
      <4>1. b[i] = value[j]
        BY <1>9, <3>1
      <4>2. value[j] \in Range(value)
        BY <2>1, <3>1, Zenon DEF Range
      <4>3. QED
        BY <4>1, <4>2
    <3>3. QED
      BY <1>4, <3>2
  <2>5. QED
    BY <2>2, <2>3, <2>4
<1>12. NameOf(line) = strip(name) /\ \A v : GivenBy(line, v) = strip(value)
  BY <1>2, <1>3 DEF NameOf, GivenBy
<1>13. PICK cr \in Symbol : cr = "CR"
  BY RequestsAssumption DEF Space
<1>14. PICK e \in Texts : e = Append(b, cr) /\ e = name \o (p \o Append(value, cr)) /\ \A i \in 1 .. Len(e) : e[i] # "LF"
  <2>1. b = name \o (p \o value)
    <3>1. name \in Seq(Symbol) /\ p \in Seq(Symbol) /\ value \in Seq(Symbol)
      BY <1>3, <1>6 DEF Texts
    <3>2. name \o (p \o value) = (name \o p) \o value
      BY <3>1, Regroup
    <3>3. QED
      BY <1>8, <1>9, <3>2
  <2>2. Append(name \o (p \o value), cr) = name \o (p \o Append(value, cr))
    <3>1. name \in Seq(Symbol) /\ p \in Seq(Symbol) /\ value \in Seq(Symbol)
      BY <1>3, <1>6 DEF Texts
    <3>0. cr \in Symbol
      BY <1>13
    <3>2. p \o value \in Seq(Symbol)
      BY <3>1, ConcatProperties
    <3>3. \A u, y \in Seq(Symbol), d \in Symbol : Append(u \o y, d) = u \o Append(y, d)
      OBVIOUS
    <3>4. Append(p \o value, cr) = p \o Append(value, cr)
      BY <3>0, <3>1, <3>3, Zenon
    <3>5. Append(name \o (p \o value), cr) = name \o Append(p \o value, cr)
      BY <3>0, <3>1, <3>2, <3>3, Zenon
    <3>6. QED
      BY <3>4, <3>5, Zenon
  <2>3. PICK m \in Nat : m = Len(b)
    BY <1>9, LenProperties DEF Texts
  <2>4. Append(b, cr) \in Texts /\ Len(Append(b, cr)) = m + 1 /\ Append(b, cr)[m + 1] = cr
        /\ \A i \in 1 .. m : Append(b, cr)[i] = b[i]
    <3>1. b \in Seq(Symbol) /\ cr \in Symbol
      BY <1>9, <1>13 DEF Texts
    <3>2. Append(b, cr) \in Seq(Symbol) /\ Len(Append(b, cr)) = Len(b) + 1
          /\ \A i \in 1 .. Len(b) : Append(b, cr)[i] = b[i]
      BY <3>1, AppendProperties
    <3>3. Append(b, cr)[Len(b) + 1] = cr
      BY <3>1, AppendProperties
    <3>4. QED
      BY <2>3, <3>2, <3>3 DEF Texts
  <2>5. \A i \in 1 .. m + 1 : i = m + 1 \/ i \in 1 .. m
    OBVIOUS
  <2>6. \A i \in 1 .. m + 1 : Append(b, cr)[i] # "LF"
    BY <1>11, <1>13, <2>3, <2>4, <2>5
  <2>7. QED
    BY <2>1, <2>2, <2>4, <2>6
<1>15. ":" \notin Range(name) /\ p = <<":">>
  BY <1>4, <1>5, <1>6
<1>16. Reads(b, line)
  <2>1. b = name \o (<<":">> \o value)
    <3>1. name \in Seq(Symbol) /\ p \in Seq(Symbol) /\ value \in Seq(Symbol)
      BY <1>3, <1>6 DEF Texts
    <3>2. name \o (p \o value) = (name \o p) \o value
      BY <3>1, Regroup
    <3>3. QED
      BY <1>8, <1>9, <1>15, <3>2
  <2>2. KeyOf(b) = strip(name) /\ \A v : ValueOf(b, v) = strip(value)
    <3>1. name \in Texts /\ value \in Texts /\ ":" \notin Range(name)
      BY <1>3, <1>15
    <3>2. Gives(Coloned(name, value), name, value)
      BY <3>1, WithColon
    <3>3. Gives(b, name, value)
      BY <2>1, <3>2 DEF Coloned
    <3>4. QED
      BY <3>3 DEF Gives
  <2>3. QED
    BY <1>9, <1>11, <1>12, <2>2 DEF Reads
<1>17. Reads(Append(b, "CR"), line)
  <2>1. Append(value, cr) \in Texts /\ strip(Append(value, cr)) = strip(value)
    BY <1>3, <1>13, StripEnd
  <2>2. e = name \o (<<":">> \o Append(value, cr))
    BY <1>14, <1>15
  <2>3. KeyOf(e) = strip(name) /\ \A v : ValueOf(e, v) = strip(value)
    <3>1. name \in Texts /\ Append(value, cr) \in Texts /\ ":" \notin Range(name)
      BY <1>3, <1>15, <2>1
    <3>2. Gives(Coloned(name, Append(value, cr)), name, Append(value, cr))
      BY <3>1, WithColon
    <3>3. Gives(e, name, Append(value, cr))
      BY <2>2, <3>2 DEF Coloned
    <3>4. KeyOf(e) = strip(name) /\ \A v : ValueOf(e, v) = strip(Append(value, cr))
      BY <3>3 DEF Gives
    <3>5. QED
      BY <2>1, <3>4
  <2>4. Reads(e, line)
    BY <1>12, <1>14, <2>3 DEF Reads
  <2>5. QED
    BY <1>13, <1>14, <2>4
<1>18. b # <<>>
  <2>1. Len(b) >= 1
    BY <1>7, <1>9
  <2>2. QED
    BY <2>1
<1>19. QED
  BY <1>9, <1>10, <1>11, <1>16, <1>17, <1>18 DEF Bodied

\* Every line of a header in order.
LEMMA LineBody ==
    ASSUME NEW line \in HeaderLines
    PROVE  line \in EndedLines(Symbol) /\ \E b \in Texts : Bodied(line, b)
<1>1. PICK b \in Texts : Bodied(line, b)
  <2>1. CASE line = Colonless
    <3>1. <<"colonless">> \in Texts
      BY ColonlessBody DEF Bodied, Reads
    <3>2. QED
      BY <2>1, <3>1, ColonlessBody
  <2>2. CASE line # Colonless
    BY <2>2, FieldBody DEF HeaderLines
  <2>3. QED
    BY <2>1, <2>2
<1>2. b \o CRLF \in EndedLines(Symbol)
  <2>1. b \in Seq(Symbol) /\ b # <<>> /\ \A i \in 1 .. Len(b) : b[i] # CRLF[1]
    BY <1>1, LineEnds DEF Bodied, Texts
  <2>2. 1 \in 1 .. Len(b) /\ \A i \in 1 .. Len(b) - 1 : i \in 1 .. Len(b)
    BY <2>1
  <2>3. CRLF[1] \in Symbol /\ CRLF[2] \in Symbol
    BY LineEnds, RequestsAssumption DEF Space
  <2>4. QED
    BY <2>1, <2>2, <2>3, EndedLine
<1>3. QED
  BY <1>1, <1>2 DEF Bodied

\* After lines that have ended: the lines, and nothing more.
Whole(t, d) == LineRuns(t) = [done |-> d, now |-> <<>>]

\* A text without line feed goes on with the line.
LEMMA LineGoesOn ==
    ASSUME NEW t \in Texts, NEW d, Whole(t, d), NEW b \in Texts, \A i \in 1 .. Len(b) : b[i] # "LF"
    PROVE  LineRuns(t \o b) = [done |-> d, now |-> b]
<1> DEFINE T == {u \in Texts : (\A i \in 1 .. Len(u) : u[i] # "LF") => LineRuns(t \o u) = [done |-> d, now |-> u]}
<1>1. <<>> \in T
  <2>1. <<>> \in Texts /\ t \o <<>> = t
    BY DEF Texts
  <2>2. QED
    BY <2>1 DEF Whole
<1>2. ASSUME NEW u \in Texts, NEW c \in Symbol, u \in T PROVE Append(u, c) \in T
  <2>1. u \in Seq(Symbol) /\ t \in Seq(Symbol) /\ c \in Symbol
    BY DEF Texts
  <2>2. PICK n \in Nat : n = Len(u)
    BY <2>1, LenProperties
  <2>3. Append(u, c) \in Texts /\ Len(Append(u, c)) = n + 1 /\ Append(u, c)[n + 1] = c
        /\ \A i \in 1 .. n : Append(u, c)[i] = u[i]
    <3>1. Append(u, c) \in Seq(Symbol) /\ Len(Append(u, c)) = Len(u) + 1
          /\ \A i \in 1 .. Len(u) : Append(u, c)[i] = u[i]
      BY <2>1, AppendProperties
    <3>2. Append(u, c)[Len(u) + 1] = c
      BY <2>1, AppendProperties
    <3>3. QED
      BY <2>2, <3>1, <3>2 DEF Texts
  <2>4. SUFFICES ASSUME \A i \in 1 .. n + 1 : Append(u, c)[i] # "LF"
                 PROVE  LineRuns(t \o Append(u, c)) = [done |-> d, now |-> Append(u, c)]
    BY <2>3
  <2>5. c # "LF" /\ \A i \in 1 .. n : u[i] # "LF"
    <3>1. n + 1 \in 1 .. n + 1 /\ \A i \in 1 .. n : i \in 1 .. n + 1
      BY <2>2
    <3>2. QED
      BY <2>3, <2>4, <3>1
  <2>6. LineRuns(t \o u) = [done |-> d, now |-> u]
    BY <1>2, <2>2, <2>5
  <2>7. t \o Append(u, c) = Append(t \o u, c) /\ t \o u \in Seq(Symbol)
    BY <2>1
  <2>8. PICK r : r = LineRuns(t \o u)
    OBVIOUS
  <2>9. LineRuns(t \o Append(u, c)) = LineStep(r, c)
    BY <2>7, <2>8, FoldsAppend
  <2>10. LineStep(r, c) = [done |-> d, now |-> Append(u, c)]
    BY <2>5, <2>6, <2>8 DEF LineStep, GoesOn
  <2>11. QED
    BY <2>9, <2>10
<1> HIDE DEF T
<1>3. Texts \subseteq T
  BY <1>1, <1>2, OfStrip!SeqSetInduction DEF Texts
<1>4. QED
  BY <1>3 DEF T

\* A whole line is one line more.
LEMMA LineMore ==
    ASSUME NEW t \in Texts, NEW d, Whole(t, d), NEW line, NEW b \in Texts, Bodied(line, b)
    PROVE  Whole(t \o line, Append(d, Append(b, "CR"))) /\ Append(b, "CR") \in Texts
<1>1. PICK cr \in Symbol, lf \in Symbol : cr = "CR" /\ lf = "LF"
  BY RequestsAssumption DEF Space
<1>2. PICK e \in Texts : e = Append(b, cr) /\ \A i \in 1 .. Len(e) : e[i] # "LF"
  <2>1. Append(b, "CR") \in Texts /\ \A i \in 1 .. Len(Append(b, "CR")) : Append(b, "CR")[i] # "LF"
    BY DEF Bodied, Reads
  <2>2. QED
    BY <1>1, <2>1
<1>3. PICK u \in Texts : u = t \o e
  <2>1. t \o e \in Texts
    BY <1>2, ConcatProperties DEF Texts
  <2>2. QED
    BY <2>1
<1>4. LineRuns(u) = [done |-> d, now |-> e]
  BY <1>2, <1>3, LineGoesOn
<1>5. t \o line = Append(u, lf)
  <2>1. t \in Seq(Symbol) /\ b \in Seq(Symbol) /\ e \in Seq(Symbol) /\ cr \in Symbol /\ lf \in Symbol
    BY <1>1, <1>2 DEF Texts
  <2>2. PICK p : p = << cr, lf >>
    OBVIOUS
  <2>3. p \in Seq(Symbol) /\ Len(p) = 2 /\ p[1] = cr /\ p[2] = lf
    BY <2>1, <2>2
  <2>4. line = b \o p
    BY <1>1, <2>2 DEF Bodied, CRLF
  <2>5. \A x \in Seq(Symbol), y, z \in Symbol : x \o << y, z >> = Append(Append(x, y), z)
    <3> SUFFICES ASSUME NEW x \in Seq(Symbol), NEW y \in Symbol, NEW z \in Symbol
                 PROVE  x \o << y, z >> = Append(Append(x, y), z)
      OBVIOUS
    <3>1. x \o << y, z >> = Append(x \o << y >>, z)
      <4>1. << y, z >> = Append(<< y >>, z) /\ << y >> \in Seq(Symbol)
        <5>1. << y >> \in Seq(Symbol)
          OBVIOUS
        <5>2. Append(<< y >>, z) \in Seq(Symbol) /\ Len(Append(<< y >>, z)) = 2
              /\ Append(<< y >>, z)[1] = y /\ Append(<< y >>, z)[2] = z
          OBVIOUS
        <5>3. << y, z >> \in Seq(Symbol) /\ Len(<< y, z >>) = 2 /\ << y, z >>[1] = y /\ << y, z >>[2] = z
          OBVIOUS
        <5>4. \A i \in 1 .. 2 : i = 1 \/ i = 2
          OBVIOUS
        <5>5. << y, z >> = Append(<< y >>, z)
          BY <5>2, <5>3, <5>4, SeqEqual
        <5>6. QED
          BY <5>1, <5>5
      <4>2. \A f, g \in Seq(Symbol), c \in Symbol : Append(f \o g, c) = f \o Append(g, c)
        BY SMTT(30)
      <4>3. QED
        BY <4>1, <4>2, ZenonT(30)
    <3>2. x \o << y >> = Append(x, y)
      OBVIOUS
    <3>3. QED
      BY <3>1, <3>2
  <2>6. line = Append(e, lf)
    BY <1>2, <2>1, <2>2, <2>4, <2>5, Zenon
  <2>7. \A f, g \in Seq(Symbol), c \in Symbol : Append(f \o g, c) = f \o Append(g, c)
    OBVIOUS
  <2>8. Append(t \o e, lf) = t \o Append(e, lf)
    BY <2>1, <2>7, Zenon
  <2>9. QED
    BY <1>3, <2>6, <2>8, Zenon
<1>6. LineRuns(Append(u, lf)) = LineStep(LineRuns(u), lf)
  BY <1>1, <1>3, FoldsAppend DEF Texts
<1>7. PICK r : r = [done |-> d, now |-> e]
  OBVIOUS
<1>8. LineStep(r, lf) = [done |-> Append(d, e), now |-> <<>>]
  BY <1>1, <1>7 DEF LineStep
<1>9. Whole(t \o line, Append(d, e))
  BY <1>4, <1>5, <1>6, <1>7, <1>8 DEF Whole
<1>10. QED
  BY <1>1, <1>2, <1>9

\* The value so far, after a line more.
LEMMA ValueStep ==
    ASSUME NEW n \in Nat, NEW s, NEW t, NEW l, \A i \in 1 .. n : t[i] = s[i], t[n + 1] = l
    PROVE  /\ ValueAt(t, n + 1) = GivenBy(l, ValueAt(s, n))
           /\ \A i \in 1 .. n : ValueAt(t, i) = ValueAt(s, i)
<1> DEFINE F(x, i) == {j \in 1 .. i : x[j] # Colonless}
           V(x, i) == IF F(x, i) = {} THEN <<>> ELSE strip(FieldOf(x[Max(F(x, i))])[2])
<1>1. \A x, i : ValueAt(x, i) = V(x, i)
  BY DEF ValueAt
<1>2. ASSUME NEW m \in Nat, NEW x, F(x, m) # {}
      PROVE  Max(F(x, m)) \in F(x, m) /\ \A y \in F(x, m) : Max(F(x, m)) >= y
  <2>1. PICK f : f = F(x, m)
    OBVIOUS
  <2>2. f \in SUBSET (1 .. m) /\ f # {}
    BY <1>2, <2>1
  <2>3. OfStrip!Max(f) \in f /\ \A y \in f : OfStrip!Max(f) >= y
    BY <2>2, OfStrip!MaxIn
  <2>4. Max(f) = OfStrip!Max(f)
    BY DEF Max, OfStrip!Max
  <2>5. QED
    BY <2>1, <2>3, <2>4
<1>3. ASSUME NEW i \in 0 .. n PROVE V(t, i) = V(s, i)
  <2>1. F(t, i) = F(s, i)
    <3>1. \A j \in 1 .. i : j \in 1 .. n
      OBVIOUS
    <3>2. QED
      BY <3>1
  <2>2. F(s, i) # {} => t[Max(F(s, i))] = s[Max(F(s, i))]
    <3>1. F(s, i) # {} => Max(F(s, i)) \in 1 .. n
      BY <1>2
    <3> HIDE DEF F
    <3>2. QED
      BY <3>1
  <2> HIDE DEF F
  <2>3. QED
    BY <2>1, <2>2
<1>4. V(t, n + 1) = GivenBy(l, V(s, n))
  <2>1. CASE l = Colonless
    <3>1. F(t, n + 1) = F(t, n)
      <4>1. \A j \in 1 .. n + 1 : j \in 1 .. n \/ j = n + 1
        OBVIOUS
      <4>2. \A j \in 1 .. n : j \in 1 .. n + 1
        OBVIOUS
      <4>3. QED
        BY <2>1, <4>1, <4>2
    <3>2. V(t, n) = V(s, n)
      BY <1>3
    <3> HIDE DEF F
    <3>3. V(t, n + 1) = V(t, n)
      BY <3>1
    <3> HIDE DEF V
    <3>4. QED
      BY <2>1, <3>2, <3>3 DEF GivenBy
  <2>2. CASE l # Colonless
    <3>1. n + 1 \in F(t, n + 1) /\ F(t, n + 1) # {}
      BY <2>2
    <3>2. PICK m \in Nat : m = n + 1
      OBVIOUS
    <3>3. Max(F(t, m)) \in 1 .. m /\ Max(F(t, m)) >= n + 1
      BY <1>2, <3>1, <3>2
    <3>4. Max(F(t, n + 1)) = n + 1
      BY <3>2, <3>3
    <3> HIDE DEF F
    <3>5. V(t, n + 1) = strip(FieldOf(l)[2])
      BY <3>1, <3>4
    <3> HIDE DEF V
    <3>6. QED
      BY <2>2, <3>5 DEF GivenBy
  <2>3. QED
    BY <2>1, <2>2
<1> HIDE DEF V
<1>5. \A i \in 1 .. n : i \in 0 .. n
  OBVIOUS
<1>6. QED
  BY <1>1, <1>3, <1>4, <1>5

\* The headers that lines give: the names, each with the value of its last
\* line.
Headed(s, h) ==
    /\ DOMAIN h = {NameOf(s[i]) : i \in 1 .. Len(s)}
    /\ \A i \in 1 .. Len(s) : (\A j \in i + 1 .. Len(s) : NameOf(s[j]) # NameOf(s[i])) => h[NameOf(s[i])] = ValueAt(s, i)

\* The last value.
LastValue(s) == ValueAt(s, Len(s))

\* A line more sets its header.
LEMMA HeadedStep ==
    ASSUME NEW S, NEW s \in Seq(S), NEW l \in S, NEW h, Headed(s, h), NEW w, w = GivenBy(l, LastValue(s))
    PROVE  Headed(Append(s, l), With(h, NameOf(l), w)) /\ LastValue(Append(s, l)) = w
<1>1. PICK n \in Nat : n = Len(s)
  BY LenProperties
<1>2. PICK t : t = Append(s, l)
  OBVIOUS
<1>3. Len(t) = n + 1 /\ t[n + 1] = l /\ \A i \in 1 .. n : t[i] = s[i]
  BY <1>1, <1>2, AppendProperties
<1>4. ValueAt(t, n + 1) = w /\ \A i \in 1 .. n : ValueAt(t, i) = ValueAt(s, i)
  BY <1>1, <1>3, ValueStep, SMTT(30) DEF LastValue
<1>5. PICK g, k : g = With(h, k, w) /\ k = NameOf(l)
  OBVIOUS
<1>6. DOMAIN g = DOMAIN h \cup {k} /\ \A x \in DOMAIN g : g[x] = IF x = k THEN w ELSE h[x]
  BY <1>5 DEF With
<1>7. /\ DOMAIN h = {NameOf(s[i]) : i \in 1 .. n}
      /\ \A i \in 1 .. n : (\A j \in i + 1 .. n : NameOf(s[j]) # NameOf(s[i])) => h[NameOf(s[i])] = ValueAt(s, i)
  BY <1>1 DEF Headed
<1>8. n + 1 \in 1 .. n + 1 /\ (\A i \in 1 .. n : i \in 1 .. n + 1) /\ \A i \in 1 .. n + 1 : i \in 1 .. n \/ i = n + 1
  OBVIOUS
<1>9. DOMAIN g = {NameOf(t[i]) : i \in 1 .. n + 1}
  <2>1. \A x : x \in DOMAIN h <=> \E i \in 1 .. n : x = NameOf(t[i])
    BY <1>3, <1>7
  <2>2. \A x : x \in DOMAIN g <=> \E i \in 1 .. n + 1 : x = NameOf(t[i])
    BY <1>3, <1>5, <1>6, <1>8, <2>1
  <2>3. QED
    BY <2>2
<1>10. ASSUME NEW i \in 1 .. n + 1, \A j \in i + 1 .. n + 1 : NameOf(t[j]) # NameOf(t[i])
       PROVE  g[NameOf(t[i])] = ValueAt(t, i)
  <2>1. CASE i = n + 1
    BY <1>3, <1>4, <1>5, <1>6, <2>1
  <2>2. CASE i \in 1 .. n
    <3>1. n + 1 \in i + 1 .. n + 1 /\ \A j \in i + 1 .. n : j \in i + 1 .. n + 1 /\ j \in 1 .. n
      BY <2>2
    <3>2. NameOf(t[i]) # k
      BY <1>3, <1>5, <1>10, <3>1
    <3>3. \A j \in i + 1 .. n : NameOf(s[j]) # NameOf(s[i])
      BY <1>3, <1>10, <2>2, <3>1
    <3>4. h[NameOf(s[i])] = ValueAt(s, i)
      BY <1>7, <2>2, <3>3
    <3>5. NameOf(t[i]) \in DOMAIN g
      BY <1>9, <2>2, <1>8
    <3>6. QED
      BY <1>3, <1>4, <1>6, <2>2, <3>2, <3>4, <3>5
  <2>3. QED
    BY <1>8, <2>1, <2>2
<1>11. Headed(t, g)
  BY <1>3, <1>9, <1>10 DEF Headed
<1>12. QED
  BY <1>2, <1>3, <1>4, <1>5, <1>11 DEF LastValue

\* The headers, and the value in effect, that lines of text give a request
\* without headers.
GivesHeaders(d, h, v) ==
    \A method, uri : HeadersRead(Reading(method, uri, NoHeaders, <<>>), d) = Reading(method, uri, h, v)

\* A text more that is read as a line.
LEMMA GivesMore ==
    ASSUME NEW d \in Seq(Texts), NEW h, NEW v, GivesHeaders(d, h, v), NEW line, NEW x, Reads(x, line),
           NEW w, w = GivenBy(line, v)
    PROVE  GivesHeaders(Append(d, x), With(h, NameOf(line), w), w)
<1>1. KeyOf(x) = NameOf(line) /\ ValueOf(x, v) = w
  BY DEF Reads
<1>2. PICK g : g = With(h, NameOf(line), w)
  OBVIOUS
<1>3. ASSUME NEW method, NEW uri
      PROVE  HeadersRead(Reading(method, uri, NoHeaders, <<>>), Append(d, x)) = Reading(method, uri, g, w)
  <2>1. PICK acc : acc = Reading(method, uri, NoHeaders, <<>>)
    OBVIOUS
  <2>2. HeadersRead(acc, Append(d, x)) = ReadHeader(HeadersRead(acc, d), x)
    BY FoldsAppend
  <2>3. HeadersRead(acc, d) = Reading(method, uri, h, v)
    BY <2>1 DEF GivesHeaders
  <2>4. ReadHeader(Reading(method, uri, h, v), x) = Reading(method, uri, g, w)
    BY <1>1, <1>2, ReadLineOf
  <2>5. QED
    BY <2>1, <2>2, <2>3, <2>4
<1>4. QED
  BY <1>2, <1>3 DEF GivesHeaders

\* A text of whole lines, what they are and give.
ReadAs(s, t, d, h) ==
    t \in Texts /\ Whole(t, d) /\ d \in Seq(Texts) /\ Headed(s, h) /\ GivesHeaders(d, h, LastValue(s))

\* Header lines in a row are such a text.
LEMMA LinesRead ==
    ASSUME NEW s \in Seq(HeaderLines)
    PROVE  \E d, h : ReadAs(s, FlattenSeq(s), d, h)
<1> DEFINE T == {u \in Seq(HeaderLines) : \E d, h : ReadAs(u, FlattenSeq(u), d, h)}
<1>1. <<>> \in T
  <2>1. FlattenSeq(<<>>) = <<>> /\ <<>> \in Texts /\ <<>> \in Seq(Texts) /\ <<>> \in Seq(HeaderLines)
    BY FlattenEmpty DEF Texts
  <2>2. Whole(<<>>, <<>>)
    BY FoldsEmpty DEF Whole, NoRuns
  <2>3. PICK n : n = Len(<<>>) /\ n = 0
    OBVIOUS
  <2>4. Headed(<<>>, NoHeaders)
    <3>1. DOMAIN NoHeaders = {}
      BY DEF NoHeaders
    <3>2. 1 .. n = {}
      BY <2>3
    <3>3. QED
      BY <2>3, <3>1, <3>2 DEF Headed
  <2>5. LastValue(<<>>) = <<>>
    <3>1. {j \in 1 .. n : <<>>[j] # Colonless} = {}
      BY <2>3
    <3>2. QED
      BY <2>3, <3>1 DEF LastValue, ValueAt
  <2>6. GivesHeaders(<<>>, NoHeaders, <<>>)
    BY FoldsEmpty DEF GivesHeaders
  <2>7. ReadAs(<<>>, FlattenSeq(<<>>), <<>>, NoHeaders)
    BY <2>1, <2>2, <2>4, <2>5, <2>6 DEF ReadAs
  <2>8. QED
    BY <2>1, <2>7
<1>2. ASSUME NEW u \in Seq(HeaderLines), NEW l \in HeaderLines, u \in T PROVE Append(u, l) \in T
  <2>1. PICK t, d, h : t = FlattenSeq(u) /\ ReadAs(u, t, d, h)
    BY <1>2
  <2>2. PICK b \in Texts : Bodied(l, b)
    BY LineBody
  <2>3. PICK x : x = Append(b, "CR") /\ Reads(x, l)
    BY <2>2 DEF Bodied
  <2>4. Whole(t \o l, Append(d, x)) /\ x \in Texts
    BY <2>1, <2>2, <2>3, LineMore DEF ReadAs
  <2>5. FlattenSeq(Append(u, l)) = t \o l /\ t \o l \in Texts
    <3>1. l \in EndedLines(Symbol)
      BY LineBody
    <3>2. l \in Seq(Symbol) /\ \A e \in HeaderLines : e \in Seq(Symbol)
      BY <3>1, LineBody DEF EndedLines
    <3>3. u \in Seq(Seq(Symbol))
      BY <3>2
    <3>4. FlattenSeq(Append(u, l)) = t \o l
      BY <2>1, <3>2, <3>3, FlattenAppend
    <3>5. t \in Seq(Symbol)
      BY <2>1 DEF ReadAs, Texts
    <3>6. QED
      BY <3>2, <3>4, <3>5, ConcatProperties DEF Texts
  <2>6. PICK w : w = GivenBy(l, LastValue(u))
    OBVIOUS
  <2>7. PICK g : g = With(h, NameOf(l), w)
    OBVIOUS
  <2>8. Headed(Append(u, l), g) /\ LastValue(Append(u, l)) = w
    BY <2>1, <2>6, <2>7, HeadedStep DEF ReadAs
  <2>9. GivesHeaders(Append(d, x), g, w)
    BY <2>1, <2>3, <2>6, <2>7, GivesMore DEF ReadAs
  <2>10. Append(d, x) \in Seq(Texts)
    BY <2>1, <2>4, AppendProperties DEF ReadAs
  <2>11. ReadAs(Append(u, l), FlattenSeq(Append(u, l)), Append(d, x), g)
    BY <2>4, <2>5, <2>8, <2>9, <2>10 DEF ReadAs
  <2>12. Append(u, l) \in Seq(HeaderLines)
    OBVIOUS
  <2>13. QED
    BY <2>11, <2>12
<1> HIDE DEF T
<1>3. Seq(HeaderLines) \subseteq T
  BY <1>1, <1>2, OfStrip!SeqSetInduction
<1>4. QED
  BY <1>3 DEF T

\* The text of the lines that is read: without the end of the last one.
ReadWithoutEnd(s, b, h) ==
    /\ b \in Texts /\ FlattenSeq(s) = b \o CRLF /\ Headed(s, h)
    /\ \A method, uri : ReadHeaders(Req(method, uri, NoHeaders, <<>>), Lines(b)) = Req(method, uri, h, <<>>)

\* There is such a text if there is a line.
LEMMA HeaderRead ==
    ASSUME NEW s \in Seq(HeaderLines), s # <<>>
    PROVE  \E b, h : ReadWithoutEnd(s, b, h)
<1>1. PICK u \in Seq(HeaderLines), l \in HeaderLines : s = Append(u, l)
  <2> DEFINE T == {r \in Seq(HeaderLines) : r = <<>> \/ \E v \in Seq(HeaderLines), e \in HeaderLines : r = Append(v, e)}
  <2>1. <<>> \in T
    OBVIOUS
  <2>2. ASSUME NEW r \in Seq(HeaderLines), NEW e \in HeaderLines, r \in T PROVE Append(r, e) \in T
    <3>1. Append(r, e) \in Seq(HeaderLines)
      OBVIOUS
    <3>2. QED
      BY <3>1
  <2> HIDE DEF T
  <2>3. Seq(HeaderLines) \subseteq T
    BY <2>1, <2>2, OfStrip!SeqSetInduction
  <2>4. QED
    BY <2>3 DEF T
<1>2. PICK t, d, h : t = FlattenSeq(u) /\ ReadAs(u, t, d, h)
  BY LinesRead
<1>3. PICK c \in Texts : Bodied(l, c)
  BY LineBody
<1>4. PICK b : b = t \o c
  OBVIOUS
<1>5. t \in Texts /\ b \in Texts
  <2>1. t \in Texts
    BY <1>2 DEF ReadAs
  <2>2. QED
    BY <1>3, <1>4, <2>1, ConcatProperties DEF Texts
<1>6. FlattenSeq(s) = b \o CRLF
  <2>1. l \in Seq(Symbol) /\ \A e \in HeaderLines : e \in Seq(Symbol)
    BY LineBody DEF EndedLines
  <2>2. u \in Seq(Seq(Symbol))
    BY <2>1
  <2>3. FlattenSeq(s) = t \o l
    BY <1>1, <1>2, <2>1, <2>2, FlattenAppend
  <2>4. l = c \o CRLF
    BY <1>3 DEF Bodied
  <2>5. t \in Seq(Symbol) /\ c \in Seq(Symbol) /\ CRLF \in Seq(Symbol)
    BY <1>3, <1>5, LineEnds DEF Texts
  <2>6. t \o (c \o CRLF) = (t \o c) \o CRLF
    BY <2>5, Regroup, SMTT(30)
  <2>7. QED
    BY <1>4, <2>3, <2>4, <2>6
<1>7. LineRuns(b) = [done |-> d, now |-> c]
  <2>1. Reads(c, l) /\ Whole(t, d)
    BY <1>2, <1>3 DEF Bodied, ReadAs
  <2>2. \A i \in 1 .. Len(c) : c[i] # "LF"
    BY <2>1 DEF Reads
  <2>3. QED
    BY <1>3, <1>4, <1>5, <2>1, <2>2, LineGoesOn
<1>8. Lines(b) = Append(d, c)
  <2>1. Lines(b) = Runs(LineRuns(b))
    BY DEF Lines, LineRuns
  <2>2. c # <<>>
    BY <1>3 DEF Bodied
  <2>3. PICK r : r = LineRuns(b) /\ r = [done |-> d, now |-> c]
    BY <1>7
  <2>4. r.now = c /\ r.done = d
    BY <2>3
  <2>5. QED
    BY <2>1, <2>2, <2>3, <2>4 DEF Runs
<1>9. PICK w, g : w = GivenBy(l, LastValue(u)) /\ g = With(h, NameOf(l), w)
  OBVIOUS
<1>10. Headed(s, g)
  BY <1>1, <1>2, <1>9, HeadedStep DEF ReadAs
<1>11. GivesHeaders(Append(d, c), g, w)
  BY <1>2, <1>3, <1>9, GivesMore DEF ReadAs, Bodied
<1>12. ASSUME NEW method, NEW uri
       PROVE  ReadHeaders(Req(method, uri, NoHeaders, <<>>), Lines(b)) = Req(method, uri, g, <<>>)
  <2>1. PICK acc : acc = Reading(method, uri, NoHeaders, <<>>)
    OBVIOUS
  <2>2. HeadersRead(acc, Append(d, c)) = Reading(method, uri, g, w)
    BY <1>11, <2>1 DEF GivesHeaders
  <2>3. ReadHeaders(Req(method, uri, NoHeaders, <<>>), Lines(b)) = HeadersRead(acc, Lines(b)).request
    BY <2>1 DEF ReadHeaders, HeadersRead, Reading
  <2>4. Reading(method, uri, g, w).request = Req(method, uri, g, <<>>)
    BY DEF Reading
  <2>5. QED
    BY <1>8, <2>2, <2>3, <2>4
<1>13. ReadWithoutEnd(s, b, g)
  BY <1>5, <1>6, <1>10, <1>12 DEF ReadWithoutEnd
<1>14. QED
  BY <1>13

\* Header lines are ended lines, and in a row have no empty one among them.
LEMMA LinesNoBlank ==
    ASSUME NEW s \in Seq(HeaderLines)
    PROVE  FlattenSeq(s) \in Texts /\ (s # <<>> => NoBlank(FlattenSeq(s)))
<1> DEFINE T == {u \in Seq(HeaderLines) : FlattenSeq(u) \in Texts /\ (u # <<>> => NoBlank(FlattenSeq(u)))}
<1>1. <<>> \in T
  <2>1. FlattenSeq(<<>>) = <<>> /\ <<>> \in Texts /\ <<>> \in Seq(HeaderLines)
    BY FlattenEmpty DEF Texts
  <2>2. QED
    BY <2>1
<1>2. ASSUME NEW u \in Seq(HeaderLines), NEW l \in HeaderLines, u \in T PROVE Append(u, l) \in T
  <2>1. l \in Seq(Symbol) /\ Ended(l) /\ \A e \in HeaderLines : e \in Seq(Symbol)
    BY LineBody DEF EndedLines
  <2>2. u \in Seq(Seq(Symbol))
    BY <2>1
  <2>3. PICK t \in Texts : t = FlattenSeq(u) /\ (u # <<>> => NoBlank(t))
    BY <1>2
  <2>4. FlattenSeq(Append(u, l)) = t \o l
    BY <2>1, <2>2, <2>3, FlattenAppend
  <2>5. t \in Seq(Symbol)
    BY DEF Texts
  <2>6. t \o l \in Texts
    BY <2>1, <2>5, ConcatProperties DEF Texts
  <2>7. Append(u, l) \in Seq(HeaderLines)
    OBVIOUS
  <2>8. CASE u = <<>>
    <3>1. t = <<>>
      BY <2>3, <2>8, FlattenEmpty
    <3>2. t \o l = l
      BY <2>1, <3>1
    <3>3. NoBlank(t \o l)
      BY <2>1, <3>2, BlankNone
    <3>4. QED
      BY <2>4, <2>6, <2>7, <3>3
  <2>9. CASE u # <<>>
    <3>1. NoBlank(t \o l)
      BY <2>1, <2>3, <2>5, <2>9, BlankStep
    <3>2. QED
      BY <2>4, <2>6, <2>7, <3>1
  <2>10. QED
    BY <2>8, <2>9
<1> HIDE DEF T
<1>3. Seq(HeaderLines) \subseteq T
  BY <1>1, <1>2, OfStrip!SeqSetInduction
<1>4. QED
  BY <1>3 DEF T

\* A request that has headers h, and a content with its length.
Filled(method, uri, h, content) == Req(method, uri, With(h, ContentLength, LengthText(content)), content)

RestGives(rest, h, content) ==
    \A method, uri : ReadRest(Req(method, uri, NoHeaders, <<>>), rest) = Filled(method, uri, h, content)

\* The parts of a text in which an empty line follows header lines.
LEMMA RestParts ==
    ASSUME NEW b \in Texts, NEW c \in Texts, NoBlank(b \o CRLF)
    PROVE  LET rest == (b \o CRLF) \o (CRLF \o c)
               blank == find(rest, CRLF \o CRLF)
           IN  blank # 0 /\ SubSeq(rest, 1, blank - 1) = b /\ From(rest, blank + 4) = c
<1>1. PICK n \in Nat : n = Len(b)
  BY LenProperties DEF Texts
<1>2. PICK e \in Seq(Symbol) : e = CRLF /\ Len(e) = 2
  BY LineEnds DEF Texts
<1>3. b \in Seq(Symbol) /\ c \in Seq(Symbol) /\ e \in Seq(Symbol) /\ Len(e) = 2
  BY <1>2 DEF Texts
<1>4. PICK f \in Seq(Symbol) : f = b \o e /\ Len(f) = n + 2
  <2>1. b \o e \in Seq(Symbol) /\ Len(b \o e) = n + 2
    <3>1. b \o e \in Seq(Symbol) /\ Len(b \o e) = Len(b) + Len(e)
      BY <1>3, ConcatIs
    <3>2. QED
      BY <1>1, <1>3, <3>1
  <2>2. QED
    BY <2>1
<1>5. PICK g \in Seq(Symbol) : g = e \o c
  <2>1. e \o c \in Seq(Symbol)
    BY <1>2, <1>3, ConcatProperties
  <2>2. QED
    BY <2>1
<1>6. PICK rest : rest = f \o g
  OBVIOUS
<1>7. find(rest, CRLF \o CRLF) = n + 1
  <2>1. CRLF[1] \in Symbol /\ CRLF[2] \in Symbol
    BY LineEnds, RequestsAssumption DEF Space
  <2>2. NoBlank(f)
    BY <1>2, <1>4
  <2>3. find(f \o (CRLF \o c), CRLF \o CRLF) = Len(f) - 1
    BY <1>3, <2>1, <2>2, BlankFirst
  <2>4. Len(f) - 1 = n + 1
    BY <1>4
  <2>5. QED
    BY <1>2, <1>5, <1>6, <2>3, <2>4
<1>8. SubSeq(rest, 1, n) = b
  <2>1. e \o g \in Seq(Symbol)
    BY <1>3, <1>5, ConcatProperties
  <2>0. g \in Seq(Symbol)
    BY <1>5
  <2>2. b \o (e \o g) = (b \o e) \o g
    BY <1>3, <2>0, Regroup, SMTT(30)
  <2>3. rest = b \o (e \o g)
    BY <1>4, <1>6, <2>2
  <2>4. SubSeq(b \o (e \o g), 1, n) = b
    BY <1>1, <1>3, <2>1, ConcatParts
  <2>5. QED
    BY <2>3, <2>4
<1>9. From(rest, n + 5) = c
  <2>1. PICK x \in Seq(Symbol), k \in Nat : x = f \o e /\ k = n + 4 /\ k = Len(x) /\ k + 1 = n + 5
    <3>1. f \in Seq(Symbol) /\ Len(f) = n + 2
      BY <1>4
    <3>2. PICK x : x = f \o e
      OBVIOUS
    <3>3. x \in Seq(Symbol) /\ Len(x) = n + 4
      <4>1. f \o e \in Seq(Symbol) /\ Len(f \o e) = Len(f) + Len(e)
        BY <1>3, <3>1, ConcatIs
      <4>2. QED
        BY <1>3, <3>1, <3>2, <4>1
    <3>4. PICK k : k = n + 4
      OBVIOUS
    <3>5. k \in Nat /\ k = Len(x) /\ k + 1 = n + 5
      BY <3>3, <3>4
    <3>6. QED
      BY <3>2, <3>3, <3>4, <3>5
  <2>2. f \o (e \o c) = (f \o e) \o c
    <3>1. f \in Seq(Symbol) /\ e \in Seq(Symbol) /\ c \in Seq(Symbol)
      BY <1>3, <1>4
    <3>2. QED
      BY <3>1, Regroup, SMTT(30)
  <2>3. rest = x \o c
    BY <1>5, <1>6, <2>1, <2>2
  <2>4. From(x \o c, k + 1) = c
    BY <1>3, <2>1, ConcatParts, ZenonT(30)
  <2>5. QED
    BY <2>1, <2>3, <2>4
<1>10. PICK blank : blank = find(rest, CRLF \o CRLF)
  OBVIOUS
<1>11. blank # 0 /\ blank - 1 = n /\ blank + 4 = n + 5
  BY <1>7, <1>10
<1>12. rest = (b \o CRLF) \o (CRLF \o c)
  BY <1>2, <1>4, <1>5, <1>6
<1>13. QED
  BY <1>8, <1>9, <1>10, <1>11, <1>12

\* What is read of header lines, the empty line and what follows it.
LEMMA RestOfLines ==
    ASSUME NEW lines \in Seq(HeaderLines), lines # <<>>, NEW c \in Texts
    PROVE  \E h : Headed(lines, h) /\ RestGives(FlattenSeq(lines) \o (CRLF \o c), h, c)
<1>1. PICK b, h : ReadWithoutEnd(lines, b, h)
  BY HeaderRead
<1>2. b \in Texts /\ FlattenSeq(lines) = b \o CRLF /\ Headed(lines, h)
  BY <1>1 DEF ReadWithoutEnd
<1>3. NoBlank(b \o CRLF)
  BY <1>2, LinesNoBlank
<1>4. PICK rest, blank : rest = FlattenSeq(lines) \o (CRLF \o c) /\ blank = find(rest, CRLF \o CRLF)
  OBVIOUS
<1>5. blank # 0 /\ SubSeq(rest, 1, blank - 1) = b /\ From(rest, blank + 4) = c
  BY <1>2, <1>3, <1>4, RestParts, ZenonT(30)
<1>6. ASSUME NEW method, NEW uri
      PROVE  ReadRest(Req(method, uri, NoHeaders, <<>>), rest) = Filled(method, uri, h, c)
  <2>1. PICK q : q = Req(method, uri, NoHeaders, <<>>)
    OBVIOUS
  <2>2. ReadRest(q, rest) = SetContent(ReadHeaders(q, Lines(b)), c)
    BY <1>4, <1>5 DEF ReadRest
  <2>3. ReadHeaders(q, Lines(b)) = Req(method, uri, h, <<>>)
    BY <1>1, <2>1 DEF ReadWithoutEnd
  <2>4. QED
    BY <2>1, <2>2, <2>3, SetContentReq DEF Filled
<1>7. QED
  BY <1>2, <1>4, <1>6 DEF RestGives

\* Without a line the content is lost up to the next empty line, or all of
\* it.
LEMMA RestOfNone ==
    ASSUME NEW c \in Texts
    PROVE  \E h : RestGives(CRLF \o c, h, ContentLeft(<<>>, c))
<1>1. PICK rest, blank : rest = CRLF \o c /\ blank = find(rest, CRLF \o CRLF)
  OBVIOUS
<1>2. rest \in Texts
  BY <1>1, LineEnds, ConcatProperties DEF Texts
<1>3. ContentLeft(<<>>, c) = IF blank # 0 THEN From(rest, blank + 4) ELSE <<>>
  BY <1>1 DEF ContentLeft
<1>4. CASE blank = 0
  <2>1. ASSUME NEW method, NEW uri
        PROVE  ReadRest(Req(method, uri, NoHeaders, <<>>), rest) = Filled(method, uri, NoHeaders, <<>>)
    <3>1. PICK q : q = Req(method, uri, NoHeaders, <<>>)
      OBVIOUS
    <3>2. ReadRest(q, rest) = SetContent(q, <<>>)
      BY <1>1, <1>4 DEF ReadRest
    <3>3. QED
      BY <3>1, <3>2, SetContentReq DEF Filled
  <2>2. QED
    BY <1>1, <1>3, <1>4, <2>1 DEF RestGives
<1>5. CASE blank # 0
  <2>1. PICK d : d = Lines(SubSeq(rest, 1, blank - 1))
    OBVIOUS
  <2>2. d \in Seq(Texts)
    <3>1. SubSeq(rest, 1, blank - 1) \in Texts
      <4>1. PICK e \in Texts : e = CRLF \o CRLF /\ Len(e) = 4 /\ e # <<>>
        BY LineEnds
      <4>2. blank \in Nat /\ At(rest, e, blank)
        BY <1>1, <1>2, <1>5, <4>1, FindFirst DEF Texts
      <4>3. blank - 1 \in 0 .. Len(rest)
        <5>1. Len(rest) \in Nat
          BY <1>2 DEF Texts
        <5>2. QED
          BY <4>1, <4>2, <5>1 DEF At
      <4>4. QED
        BY <1>2, <4>2, <4>3, SMTT(30) DEF Texts
    <3>2. QED
      BY <2>1, <3>1, LinesType
  <2>3. PICK h, v : \A method, uri : HeadersRead(Reading(method, uri, NoHeaders, <<>>), d) = Reading(method, uri, h, v)
    BY <2>2, HeadersOf
  <2>4. PICK k : k = From(rest, blank + 4)
    OBVIOUS
  <2>5. ASSUME NEW method, NEW uri
        PROVE  ReadRest(Req(method, uri, NoHeaders, <<>>), rest) = Filled(method, uri, h, k)
    <3>1. PICK q : q = Req(method, uri, NoHeaders, <<>>)
      OBVIOUS
    <3>2. ReadRest(q, rest) = SetContent(ReadHeaders(q, d), k)
      BY <1>1, <1>5, <2>1, <2>4 DEF ReadRest
    <3>3. ReadHeaders(q, d) = HeadersRead(Reading(method, uri, NoHeaders, <<>>), d).request
      BY <3>1 DEF ReadHeaders, HeadersRead, Reading
    <3>4. Reading(method, uri, h, v).request = Req(method, uri, h, <<>>)
      BY DEF Reading
    <3>5. ReadHeaders(q, d) = Req(method, uri, h, <<>>)
      BY <2>3, <3>3, <3>4
    <3>6. QED
      BY <3>1, <3>2, <3>5, SetContentReq DEF Filled
  <2>6. QED
    BY <1>1, <1>3, <1>5, <2>4, <2>5 DEF RestGives
<1>6. QED
  BY <1>4, <1>5

\* The words and the word that goes on, in what was read so far.
WordsAre(s, d, w) == WordRuns(s) = [done |-> d, now |-> w]

\* A token more of a word, and the end of one.
LEMMA WordOneMore ==
    ASSUME NEW s \in Texts, NEW d, NEW w, WordsAre(s, d, w), NEW c \in Symbol
    PROVE  /\ c \notin Space => WordsAre(Append(s, c), d, Append(w, c))
           /\ c \in Space /\ w # <<>> => WordsAre(Append(s, c), Append(d, w), <<>>)
<1>1. PICK r : r = WordRuns(s) /\ r.done = d /\ r.now = w
  BY DEF WordsAre
<1>2. WordRuns(Append(s, c)) = WordStep(r, c)
  BY <1>1, FoldsAppend DEF Texts
<1>3. c \notin Space => WordStep(r, c) = [done |-> d, now |-> Append(w, c)]
  BY <1>1 DEF WordStep, GoesOn
<1>4. c \in Space /\ w # <<>> => WordStep(r, c) = [done |-> Append(d, w), now |-> <<>>]
  BY <1>1 DEF WordStep, Runs
<1>5. QED
  BY <1>2, <1>3, <1>4 DEF WordsAre

\* Lists written out.
LEMMA Lists ==
    ASSUME NEW S, NEW a \in S, NEW b \in S, NEW c \in S, NEW d \in S, NEW e \in S
    PROVE  /\ Append(<<>>, a) = <<a>> /\ Append(<<a>>, b) = <<a, b>> /\ Append(<<a, b>>, c) = <<a, b, c>>
           /\ Append(<<a, b, c>>, d) = <<a, b, c, d>> /\ Append(<<a, b, c, d>>, e) = <<a, b, c, d, e>>
<1>1. Append(<<>>, a) = <<a>>
  OBVIOUS
<1>2. ASSUME NEW n \in 1 .. 4, NEW s \in Seq(S), NEW t \in Seq(S), NEW x \in S, Len(s) = n, Len(t) = n + 1,
             t[n + 1] = x, \A i \in 1 .. n : s[i] = t[i]
      PROVE  Append(s, x) = t
  <2>1. PICK u : u = Append(s, x)
    OBVIOUS
  <2>2. u \in Seq(S) /\ Len(u) = n + 1 /\ u[n + 1] = x /\ \A i \in 1 .. n : u[i] = s[i]
    BY <1>2, <2>1, AppendProperties
  <2>3. \A i \in 1 .. n + 1 : i = n + 1 \/ i \in 1 .. n
    OBVIOUS
  <2>4. \A i \in 1 .. n + 1 : u[i] = t[i]
    BY <1>2, <2>2, <2>3
  <2>5. u = t
    BY <1>2, <2>2, <2>4, SeqEqual
  <2>6. QED
    BY <2>1, <2>5
<1>3. PICK s, t, u, v, w : s = <<a>> /\ t = <<a, b>> /\ u = <<a, b, c>> /\ v = <<a, b, c, d>> /\ w = <<a, b, c, d, e>>
  OBVIOUS
<1>4. s \in Seq(S) /\ Len(s) = 1 /\ s[1] = a
  BY <1>3
<1>5. t \in Seq(S) /\ Len(t) = 2 /\ t[1] = a /\ t[2] = b
  BY <1>3
<1>6. u \in Seq(S) /\ Len(u) = 3 /\ u[1] = a /\ u[2] = b /\ u[3] = c
  BY <1>3
<1>7. v \in Seq(S) /\ Len(v) = 4 /\ v[1] = a /\ v[2] = b /\ v[3] = c /\ v[4] = d
  BY <1>3
<1>8. w \in Seq(S) /\ Len(w) = 5 /\ w[1] = a /\ w[2] = b /\ w[3] = c /\ w[4] = d /\ w[5] = e
  BY <1>3
<1>9. Append(s, b) = t
  <2>1. \A i \in 1 .. 1 : s[i] = t[i]
    BY <1>4, <1>5
  <2>2. 1 \in 1 .. 4 /\ 2 = 1 + 1
    OBVIOUS
  <2>3. QED
    BY <1>2, <1>4, <1>5, <2>1, <2>2
<1>10. Append(t, c) = u
  <2>1. \A i \in 1 .. 2 : s[i] = s[i] /\ t[i] = u[i]
    BY <1>5, <1>6
  <2>2. 2 \in 1 .. 4 /\ 3 = 2 + 1
    OBVIOUS
  <2>3. QED
    BY <1>2, <1>5, <1>6, <2>1, <2>2
<1>11. Append(u, d) = v
  <2>1. \A i \in 1 .. 3 : u[i] = v[i]
    BY <1>6, <1>7
  <2>2. 3 \in 1 .. 4 /\ 4 = 3 + 1
    OBVIOUS
  <2>3. QED
    BY <1>2, <1>6, <1>7, <2>1, <2>2
<1>12. Append(v, e) = w
  <2>1. \A i \in 1 .. 4 : v[i] = w[i]
    BY <1>7, <1>8
  <2>2. 4 \in 1 .. 4 /\ 5 = 4 + 1
    OBVIOUS
  <2>3. QED
    BY <1>2, <1>7, <1>8, <2>1, <2>2
<1>13. QED
  BY <1>1, <1>3, <1>9, <1>10, <1>11, <1>12

\* Three words with a space between.
LEMMA ThreeWords ==
    ASSUME NEW a \in Symbol, NEW c \in Symbol, NEW e \in Symbol, NEW sp \in Symbol,
           a \notin Space, c \notin Space, e \notin Space, sp \in Space
    PROVE  Words(<<a, sp, c, sp, e>>) = << <<a>>, <<c>>, <<e>> >>
<1>1. PICK x, y, z : x = <<a>> /\ y = <<c>> /\ z = <<e>>
  OBVIOUS
<1>2. PICK s2, s3, s4, s5 : s2 = <<a, sp>> /\ s3 = <<a, sp, c>> /\ s4 = <<a, sp, c, sp>> /\ s5 = <<a, sp, c, sp, e>>
  OBVIOUS
<1>3. <<>> \in Texts /\ x \in Texts /\ s2 \in Texts /\ s3 \in Texts /\ s4 \in Texts
  BY <1>1, <1>2 DEF Texts
<1>4. /\ Append(<<>>, a) = x /\ Append(x, sp) = s2 /\ Append(s2, c) = s3 /\ Append(s3, sp) = s4 /\ Append(s4, e) = s5
      /\ Append(<<>>, c) = y /\ Append(<<>>, e) = z
  BY <1>1, <1>2, Lists
<1>5. PICK d1, d2, d3 : d1 = << x >> /\ d2 = << x, y >> /\ d3 = << x, y, z >>
  OBVIOUS
<1>6. Append(<<>>, x) = d1 /\ Append(d1, y) = d2 /\ Append(d2, z) = d3
  <2>1. ASSUME NEW U, NEW p \in U, NEW q \in U, NEW r \in U
        PROVE  Append(<<>>, p) = << p >> /\ Append(<< p >>, q) = << p, q >> /\ Append(<< p, q >>, r) = << p, q, r >>
               /\ Append(<< p, q, r >>, r) = << p, q, r, r >> /\ Append(<< p, q, r, r >>, r) = << p, q, r, r, r >>
    BY Lists
  <2>2. x \in {x, y, z} /\ y \in {x, y, z} /\ z \in {x, y, z}
    OBVIOUS
  <2>3. Append(<<>>, x) = << x >> /\ Append(<< x >>, y) = << x, y >> /\ Append(<< x, y >>, z) = << x, y, z >>
    BY <2>1, <2>2, ZenonT(30)
  <2>4. QED
    BY <1>5, <2>3
<1>7. x # <<>> /\ y # <<>> /\ z # <<>>
  BY <1>1
<1>8. WordsAre(<<>>, <<>>, <<>>)
  BY FoldsEmpty DEF NoRuns, WordsAre
<1>9. WordsAre(x, <<>>, x)
  BY <1>3, <1>4, <1>8, WordOneMore
<1>10. WordsAre(s2, d1, <<>>)
  BY <1>3, <1>4, <1>6, <1>7, <1>9, WordOneMore
<1>11. WordsAre(s3, d1, y)
  BY <1>3, <1>4, <1>10, WordOneMore
<1>12. WordsAre(s4, d2, <<>>)
  BY <1>3, <1>4, <1>6, <1>7, <1>11, WordOneMore
<1>13. WordsAre(s5, d2, z)
  BY <1>3, <1>4, <1>12, WordOneMore
<1>14. PICK r : r = WordRuns(s5) /\ r.done = d2 /\ r.now = z
  BY <1>13 DEF WordsAre
<1>15. Words(s5) = Runs(r)
  BY <1>14 DEF Words, WordRuns
<1>16. Runs(r) = d3
  BY <1>6, <1>7, <1>14 DEF Runs
<1>17. QED
  BY <1>1, <1>2, <1>5, <1>15, <1>16

\* A token that is a method, or the version, as it is or in capitals is not
\* whitespace.
LEMMA NotWhite ==
    ASSUME NEW a \in Symbol, toupper(<<a>>)[1] \in HttpMethod \cup {"HTTP/1.1"}
    PROVE  a \notin Space
<1>1. PICK w : w = <<a>>
  OBVIOUS
<1>2. DOMAIN w = 1 .. 1 /\ w[1] = a
  BY <1>1
<1>3. toupper(w)[1] = IF a \in DOMAIN Capital THEN Capital[a] ELSE a
  BY <1>2 DEF toupper
<1>4. \A x \in Space : x \notin DOMAIN Capital /\ x \notin HttpMethod /\ x # "HTTP/1.1"
  BY DEF Space, Capital, HttpMethod
<1>5. QED
  BY <1>1, <1>3, <1>4

\* What is read of a start line in order.
StartsWith(text, start, rest) ==
    /\ Readable(text) /\ From(text, find(text, CRLF) + 2) = rest
    /\ StartWords(text)[1] = <<start[1]>> /\ StartWords(text)[2] = <<start[3]>>

\* Whatever follows it.
LEMMA StartRead ==
    ASSUME NEW start \in Texts, InOrder(start), NEW rest \in Texts
    PROVE  StartsWith(start \o rest, start, rest)
<1>1. PICK a \in Symbol, c \in Symbol, e \in Symbol : a = start[1] /\ c = start[3] /\ e = start[5]
  <2>0. \A i \in 1 .. Len(start) : start[i] \in Symbol
    BY DEF Texts
  <2>1. Len(start) = 7
    BY DEF InOrder
  <2>2. start[1] \in Symbol /\ start[3] \in Symbol /\ start[5] \in Symbol
    BY <2>0, <2>1
  <2>3. QED
    BY <2>2
<1>2. PICK sp \in Symbol : sp = "SP" /\ sp \in Space
  BY RequestsAssumption DEF Space
<1>3. PICK cr \in Symbol, lf \in Symbol : cr = "CR" /\ lf = "LF" /\ cr \in Space /\ cr # sp
  BY <1>2, RequestsAssumption DEF Space
<1>4. a \notin Space /\ c \notin Space /\ e \notin Space
  <2>1. toupper(<<a>>)[1] \in HttpMethod
    BY <1>1 DEF InOrder
  <2>2. toupper(<<e>>)[1] = "HTTP/1.1"
    BY <1>1 DEF InOrder
  <2>3. c \notin Space
    BY <1>1 DEF InOrder
  <2>4. QED
    BY <2>1, <2>2, <2>3, NotWhite
<1>5. PICK b : b = <<a, sp, c, sp, e>>
  OBVIOUS
<1>6. b \in Seq(Symbol) /\ Len(b) = 5 /\ b[1] = a /\ b[2] = sp /\ b[3] = c /\ b[4] = sp /\ b[5] = e
  BY <1>5
<1>7. PICK p : p = <<cr, lf>>
  OBVIOUS
<1>8. p \in Seq(Symbol) /\ Len(p) = 2 /\ p[1] = cr /\ p[2] = lf /\ p # <<>>
  BY <1>7
<1>9. p = CRLF
  BY <1>3, <1>7 DEF CRLF
<1>10. start = b \o p
  BY <1>1, <1>2, <1>5, <1>9 DEF InOrder
<1>11. rest \in Seq(Symbol)
  BY DEF Texts
<1>12. PICK x : x = p \o rest
  OBVIOUS
<1>13. /\ x \in Seq(Symbol) /\ Len(x) = 2 + Len(rest) /\ Len(rest) \in Nat
       /\ \A i \in 1 .. 2 : x[i] = p[i]
  <2>1. p \in Seq(Symbol) /\ Len(p) = 2
    BY <1>8
  <2>2. p \o rest \in Seq(Symbol) /\ Len(p \o rest) = Len(p) + Len(rest) /\ \A i \in 1 .. Len(p) : (p \o rest)[i] = p[i]
    BY <1>11, <2>1, ConcatIs, ZenonT(30)
  <2>3. Len(rest) \in Nat
    BY <1>11, LenProperties
  <2>4. QED
    BY <1>12, <2>1, <2>2, <2>3
<1>14. PICK text : text = b \o x
  OBVIOUS
<1>15. /\ text \in Seq(Symbol) /\ Len(text) = 5 + (2 + Len(rest))
       /\ (\A i \in 1 .. 5 : text[i] = b[i]) /\ \A i \in 1 .. 2 + Len(rest) : text[5 + i] = x[i]
  <2>1. Len(b) = 5 /\ Len(x) = 2 + Len(rest)
    BY <1>6, <1>13
  <2>0. b \in Seq(Symbol) /\ x \in Seq(Symbol)
    BY <1>6, <1>13
  <2>2. /\ b \o x \in Seq(Symbol) /\ Len(b \o x) = Len(b) + Len(x)
        /\ \A i \in 1 .. Len(b) : (b \o x)[i] = b[i]
        /\ \A i \in 1 .. Len(x) : (b \o x)[Len(b) + i] = x[i]
    BY <2>0, ConcatIs
  <2>3. QED
    BY <1>14, <2>1, <2>2
<1>16. text = start \o rest
  <2>1. b \in Seq(Symbol) /\ p \in Seq(Symbol) /\ rest \in Seq(Symbol)
    BY <1>6, <1>8, <1>11
  <2>2. b \o (p \o rest) = (b \o p) \o rest
    BY <2>1, Regroup
  <2>3. QED
    BY <1>10, <1>12, <1>14, <2>2
<1>17. At(text, p, 6)
  <2>1. 6 \in 1 .. Len(text) - Len(p) + 1
    BY <1>8, <1>13, <1>15
  <2>2. text[6] = x[1] /\ text[7] = x[2]
    BY <1>13, <1>15
  <2>3. \A j \in 1 .. 2 : text[6 + j - 1] = p[j]
    BY <1>8, <1>13, <2>2
  <2>4. QED
    BY <1>8, <2>1, <2>3 DEF At
<1>18. \A i \in 1 .. 5 : ~At(text, p, i)
  <2> SUFFICES ASSUME NEW i \in 1 .. 5, At(text, p, i) PROVE FALSE
    OBVIOUS
  <2>1. text[i + 1 - 1] = p[1] /\ i + 1 - 1 = i
    BY <1>8 DEF At
  <2>2. b[i] = cr
    BY <1>8, <1>15, <2>1
  <2>3. i = 1 \/ i = 2 \/ i = 3 \/ i = 4 \/ i = 5
    OBVIOUS
  <2>4. QED
    BY <1>3, <1>4, <1>6, <2>2, <2>3
<1>19. find(text, CRLF) = 6
  <2>1. \A i \in Nat : At(text, p, i) /\ (\A j \in 1 .. i - 1 : ~At(text, p, j)) => find(text, p) = i
    BY <1>8, <1>15, FindFirst
  <2>2. 6 \in Nat /\ 6 - 1 = 5
    OBVIOUS
  <2>3. find(text, p) = 6
    BY <1>17, <1>18, <2>1, <2>2
  <2>4. QED
    BY <1>9, <2>3
<1>20. SubSeq(text, 1, 5) = b
  <2>1. 5 = Len(b) /\ 5 \in Nat
    BY <1>6
  <2>2. SubSeq(b \o x, 1, 5) = b
    BY <1>6, <1>13, <2>1, ConcatParts
  <2>3. QED
    BY <1>14, <2>2
<1>21. From(text, 8) = rest
  <2>1. PICK n \in Nat : n = 7
    OBVIOUS
  <2>2. start \in Seq(Symbol) /\ n = Len(start)
    BY <2>1 DEF InOrder, Texts
  <2>3. From(start \o rest, n + 1) = rest
    BY <1>11, <2>2, ConcatParts
  <2>4. n + 1 = 8
    BY <2>1
  <2>5. QED
    BY <1>16, <2>3, <2>4
<1>22. PICK at : at = find(text, CRLF) /\ at = 6
  BY <1>19
<1>23. at - 1 = 5 /\ at + 2 = 8 /\ at # 0
  BY <1>22
<1>24. PICK ws : ws = StartWords(text)
  OBVIOUS
<1>25. ws[1] = <<a>> /\ ws[2] = <<c>> /\ ws[3] = <<e>>
  <2>1. Words(b) = << <<a>>, <<c>>, <<e>> >>
    BY <1>2, <1>4, <1>5, ThreeWords
  <2>2. ws = << <<a>>, <<c>>, <<e>> >> \o << <<>>, <<>>, <<>> >>
    BY <1>20, <1>22, <1>23, <1>24, <2>1 DEF StartWords
  <2>3. PICK u, v, w, z : u = <<a>> /\ v = <<c>> /\ w = <<e>> /\ z = <<>>
    OBVIOUS
  <2>4. PICK l, r : l = << u, v, w >> /\ r = << z, z, z >>
    OBVIOUS
  <2>5. (l \o r)[1] = u /\ (l \o r)[2] = v /\ (l \o r)[3] = w
    BY <2>4
  <2>6. QED
    BY <2>2, <2>3, <2>4, <2>5
<1>26. Readable(text)
  <2>1. <<a>> \in Texts
    BY DEF Texts
  <2>2. Len(toupper(<<a>>)) = 1
    BY <2>1, Cased
  <2>3. toupper(<<a>>)[1] \in HttpMethod
    BY <1>1 DEF InOrder
  <2>4. Len(toupper(<<e>>)) = 1 /\ toupper(<<e>>)[1] = "HTTP/1.1"
    BY <1>1 DEF InOrder
  <2>5. QED
    BY <1>22, <1>23, <1>24, <1>25, <2>2, <2>3, <2>4 DEF Readable
<1>27. From(text, find(text, CRLF) + 2) = rest
  BY <1>21, <1>22, <1>23
<1>28. StartsWith(text, start, rest)
  BY <1>1, <1>24, <1>25, <1>26, <1>27 DEF StartsWith
<1>29. QED
  BY <1>16, <1>28

\* What is read of a request with a start line, header lines and a content.
TellsRequest(start, lines, content, r) ==
    /\ << r.method >> = toupper(<< start[1] >>) /\ r.uri = tolower(<< start[3] >>)
    /\ r.content = content /\ r.headers[ContentLength] = <<ToString(Len(content))>>
    /\ lines # <<>> => DOMAIN r.headers = {NameAt(lines, i) : i \in DOMAIN lines} \cup {ContentLength}
    /\ \A i \in DOMAIN lines :
          (\A j \in i + 1 .. Len(lines) : NameAt(lines, j) # NameAt(lines, i)) /\ NameAt(lines, i) # ContentLength
          => r.headers[NameAt(lines, i)] = ValueAt(lines, i)

\* It is a request with the headers that the lines give.
LEMMA FilledTells ==
    ASSUME NEW start, NEW S, NEW lines \in Seq(S), NEW content, NEW h, lines # <<>> => Headed(lines, h),
           NEW method, << method >> = toupper(<< start[1] >>)
    PROVE  TellsRequest(start, lines, content, Filled(method, tolower(<< start[3] >>), h, content))
<1>1. PICK uri : uri = tolower(<< start[3] >>)
  OBVIOUS
<1>2. PICK g : g = With(h, ContentLength, LengthText(content))
  OBVIOUS
<1>3. PICK r : r = Filled(method, uri, h, content) /\ r.method = method /\ r.uri = uri /\ r.headers = g /\ r.content = content
  <2>1. PICK r : r = [method |-> method, uri |-> uri, headers |-> g, content |-> content]
    OBVIOUS
  <2>2. r.method = method /\ r.uri = uri /\ r.headers = g /\ r.content = content
    BY <2>1
  <2>3. r = Filled(method, uri, h, content)
    BY <1>2, <2>1 DEF Filled, Req
  <2>4. QED
    BY <2>2, <2>3
<1>4. PICK k : k = ContentLength
  OBVIOUS
<1>5. DOMAIN g = DOMAIN h \cup {k} /\ \A x \in DOMAIN g : g[x] = IF x = k THEN LengthText(content) ELSE h[x]
  BY <1>2, <1>4 DEF With
<1>6. g[k] = <<ToString(Len(content))>>
  BY <1>4, <1>5, SMTT(30) DEF LengthText
<1>7. PICK n \in Nat : n = Len(lines) /\ DOMAIN lines = 1 .. n /\ (n # 0 => lines # <<>>)
  <2>1. Len(lines) \in Nat /\ DOMAIN lines = 1 .. Len(lines) /\ (Len(lines) # 0 => lines # <<>>)
    OBVIOUS
  <2>2. QED
    BY <2>1
<1>8. \A i : NameAt(lines, i) = NameOf(lines[i])
  BY DEF NameAt, NameOf
<1>9. lines # <<>> => /\ DOMAIN h = {NameOf(lines[i]) : i \in 1 .. n}
                      /\ \A i \in 1 .. n : (\A j \in i + 1 .. n : NameOf(lines[j]) # NameOf(lines[i]))
                                           => h[NameOf(lines[i])] = ValueAt(lines, i)
  BY <1>7 DEF Headed
<1>10. ASSUME lines # <<>> PROVE DOMAIN g = {NameAt(lines, i) : i \in 1 .. n} \cup {k}
  <2>1. {NameAt(lines, i) : i \in 1 .. n} = {NameOf(lines[i]) : i \in 1 .. n}
    BY <1>8
  <2>2. QED
    BY <1>5, <1>9, <1>10, <2>1
<1>11. ASSUME NEW i \in 1 .. n, \A j \in i + 1 .. n : NameAt(lines, j) # NameAt(lines, i), NameAt(lines, i) # k
       PROVE  g[NameAt(lines, i)] = ValueAt(lines, i)
  <2>1. lines # <<>>
    BY <1>7
  <2>2. NameOf(lines[i]) \in DOMAIN h
    BY <1>9, <2>1
  <2>3. h[NameOf(lines[i])] = ValueAt(lines, i)
    BY <1>8, <1>9, <1>11, <2>1
  <2>4. QED
    BY <1>5, <1>8, <1>11, <2>2, <2>3
<1>12. TellsRequest(start, lines, content, r)
  <2>1. << r.method >> = toupper(<< start[1] >>) /\ r.uri = tolower(<< start[3] >>)
    BY <1>1, <1>3
  <2>2. r.content = content /\ r.headers[ContentLength] = <<ToString(Len(content))>>
    BY <1>3, <1>4, <1>6
  <2>3. lines # <<>> => DOMAIN r.headers = {NameAt(lines, i) : i \in DOMAIN lines} \cup {ContentLength}
    BY <1>3, <1>4, <1>7, <1>10
  <2>4. \A i \in DOMAIN lines :
          (\A j \in i + 1 .. Len(lines) : NameAt(lines, j) # NameAt(lines, i)) /\ NameAt(lines, i) # ContentLength
          => r.headers[NameAt(lines, i)] = ValueAt(lines, i)
    BY <1>3, <1>4, <1>7, <1>11
  <2>5. QED
    BY <2>1, <2>2, <2>3, <2>4 DEF TellsRequest
<1>13. QED
  BY <1>1, <1>3, <1>12

\* A word of one token in capitals.
LEMMA OneUpper == ASSUME NEW a PROVE << toupper(<<a>>)[1] >> = toupper(<<a>>)
<1>1. PICK w, u : w = <<a>> /\ u = toupper(w)
  OBVIOUS
<1>2. DOMAIN w = 1 .. 1
  BY <1>1
<1>3. u = [i \in 1 .. 1 |-> u[1]]
  <2>1. u = [i \in 1 .. 1 |-> IF w[i] \in DOMAIN Capital THEN Capital[w[i]] ELSE w[i]]
    BY <1>1, <1>2 DEF toupper
  <2>2. \A i \in 1 .. 1 : i = 1
    OBVIOUS
  <2>3. QED
    BY <2>1, <2>2
<1>4. PICK x : x = u[1]
  OBVIOUS
<1>5. <<x>> = [i \in 1 .. 1 |-> x]
  OBVIOUS
<1>6. QED
  BY <1>1, <1>3, <1>4, <1>5

\* What string_to_request reads of a start line in order, header lines, the
\* empty line and what follows it.
THEOREM TextRead ==
    ASSUME NEW start \in Texts, InOrder(start), NEW lines \in Seq(HeaderLines), NEW c \in Texts
    PROVE  TellsRequest(start, lines, ContentLeft(lines, c),
                        string_to_request(start \o (FlattenSeq(lines) \o (CRLF \o c))))
<1>1. PICK rest, text, left : rest = FlattenSeq(lines) \o (CRLF \o c) /\ text = start \o rest /\ left = ContentLeft(lines, c)
  OBVIOUS
<1>2. rest \in Texts
  <2>1. CRLF \in Seq(Symbol) /\ c \in Seq(Symbol) /\ FlattenSeq(lines) \in Seq(Symbol)
    BY LineEnds, LinesNoBlank DEF Texts
  <2>2. CRLF \o c \in Seq(Symbol)
    BY <2>1, ConcatProperties
  <2>3. QED
    BY <1>1, <2>1, <2>2, ConcatProperties DEF Texts
<1>3. StartsWith(text, start, rest)
  BY <1>1, <1>2, StartRead
<1>4. PICK method, uri : method = toupper(<< start[1] >>)[1] /\ uri = tolower(<< start[3] >>)
  OBVIOUS
<1>5. string_to_request(text) = ReadRest(Req(method, uri, NoHeaders, <<>>), rest)
  <2>1. Readable(text) /\ From(text, find(text, CRLF) + 2) = rest
    BY <1>3 DEF StartsWith
  <2>2. StartWords(text)[1] = << start[1] >> /\ StartWords(text)[2] = << start[3] >>
    BY <1>3 DEF StartsWith
  <2>3. string_to_request(text) = ReadRest(Req(toupper(StartWords(text)[1])[1], tolower(StartWords(text)[2]),
                                               NoHeaders, <<>>), From(text, find(text, CRLF) + 2))
    BY <2>1, ReadParts
  <2>4. QED
    BY <1>4, <2>1, <2>2, <2>3
<1>6. PICK h : (lines # <<>> => Headed(lines, h)) /\ RestGives(rest, h, left)
  <2>1. CASE lines = <<>>
    <3>1. rest = CRLF \o c
      <4>1. FlattenSeq(lines) = <<>>
        BY <2>1, FlattenEmpty
      <4>2. CRLF \o c \in Seq(Symbol)
        BY LineEnds, ConcatProperties DEF Texts
      <4>3. <<>> \o (CRLF \o c) = CRLF \o c
        BY <4>2
      <4>4. QED
        BY <1>1, <4>1, <4>3
    <3>2. QED
      BY <1>1, <2>1, <3>1, RestOfNone
  <2>2. CASE lines # <<>>
    <3>1. left = c
      BY <1>1, <2>2 DEF ContentLeft
    <3>2. QED
      BY <1>1, <2>2, <3>1, RestOfLines
  <2>3. QED
    BY <2>1, <2>2
<1>7. string_to_request(text) = Filled(method, uri, h, left)
  BY <1>5, <1>6 DEF RestGives
<1>8. << method >> = toupper(<< start[1] >>)
  BY <1>4, OneUpper
<1>9. TellsRequest(start, lines, left, Filled(method, uri, h, left))
  BY <1>4, <1>6, <1>8, FilledTells
<1>10. QED
  BY <1>1, <1>7, <1>9

\* The parts of two lists in a row are those of the one and of the other.
LEMMA FlattenConcat ==
    ASSUME NEW S, NEW s \in Seq(Seq(S)), NEW t \in Seq(Seq(S))
    PROVE  FlattenSeq(s \o t) = FlattenSeq(s) \o FlattenSeq(t)
<1> DEFINE T == {u \in Seq(Seq(S)) : FlattenSeq(s \o u) = FlattenSeq(s) \o FlattenSeq(u)}
<1>0. PICK f \in Seq(S) : f = FlattenSeq(s)
  BY FlattenType
<1>1. <<>> \in T
  <2>1. s \o <<>> = s /\ f \o <<>> = f /\ <<>> \in Seq(Seq(S))
    BY <1>0
  <2>2. QED
    BY <1>0, <2>1, FlattenEmpty
<1>2. ASSUME NEW u \in Seq(Seq(S)), NEW e \in Seq(S), u \in T PROVE Append(u, e) \in T
  <2>1. PICK g \in Seq(S) : g = FlattenSeq(u)
    BY FlattenType
  <2>2. s \o u \in Seq(Seq(S)) /\ s \o Append(u, e) = Append(s \o u, e) /\ Append(u, e) \in Seq(Seq(S))
    BY SMTT(30)
  <2>3. FlattenSeq(s \o Append(u, e)) = (f \o g) \o e
    BY <1>0, <1>2, <2>1, <2>2, FlattenAppend
  <2>4. FlattenSeq(Append(u, e)) = g \o e
    BY <2>1, FlattenAppend
  <2>5. f \o (g \o e) = (f \o g) \o e
    <3>1. f \in Seq(S) /\ g \in Seq(S) /\ e \in Seq(S)
      BY <1>0, <2>1
    <3>2. Regroups(f, g, e)
      BY <3>1, Regrouped
    <3>3. QED
      BY <3>2 DEF Regroups
  <2>6. QED
    BY <1>0, <2>2, <2>3, <2>4, <2>5
<1> HIDE DEF T
<1>3. Seq(Seq(S)) \subseteq T
  BY <1>1, <1>2, OfStrip!SeqSetInduction
<1>4. QED
  BY <1>3 DEF T

\* A part and those after it.
LEMMA FirstPart ==
    ASSUME NEW S, NEW s \in Seq(Seq(S)), NEW j \in 1 .. Len(s), NEW i \in 1 .. j
    PROVE  /\ SubSeq(s, i, j) \in Seq(Seq(S)) /\ SubSeq(s, i + 1, j) \in Seq(Seq(S))
           /\ FlattenSeq(SubSeq(s, i, j)) = s[i] \o FlattenSeq(SubSeq(s, i + 1, j))
<1>1. PICK n \in Nat : n = Len(s)
  BY LenProperties
<1>2. s[i] \in Seq(S) /\ j <= n /\ i <= j /\ i >= 1
  BY <1>1
<1>3. PICK x \in Seq(Seq(S)) : x = << s[i] >> /\ Len(x) = 1 /\ x[1] = s[i]
  <2>1. PICK p \in Seq(S) : p = s[i]
    BY <1>2
  <2>2. << p >> \in Seq(Seq(S)) /\ Len(<< p >>) = 1 /\ << p >>[1] = p
    OBVIOUS
  <2>3. QED
    BY <2>1, <2>2
<1>4. PICK t \in Seq(Seq(S)) : t = SubSeq(s, i + 1, j) /\ Len(t) = j - i /\ \A k \in 1 .. j - i : t[k] = s[i + k]
  <2>1. PICK t : t = SubSeq(s, i + 1, j)
    OBVIOUS
  <2>2. i + 1 \in 1 .. n + 1 /\ j \in (i + 1) - 1 .. n
    BY <1>1, <1>2
  <2>3. t \in Seq(Seq(S)) /\ Len(t) = j - (i + 1) + 1 /\ \A k \in 1 .. j - (i + 1) + 1 : t[k] = s[(i + 1) + k - 1]
    BY <1>1, <2>1, <2>2, SubSeqProperties
  <2>4. j - (i + 1) + 1 = j - i /\ \A k \in 1 .. j - i : (i + 1) + k - 1 = i + k
    BY <1>2
  <2>5. t \in Seq(Seq(S)) /\ Len(t) = j - i /\ \A k \in 1 .. j - i : t[k] = s[i + k]
    BY <2>3, <2>4
  <2>6. QED
    BY <2>1, <2>5
<1>5. PICK u \in Seq(Seq(S)) : u = SubSeq(s, i, j) /\ Len(u) = j - i + 1 /\ \A k \in 1 .. j - i + 1 : u[k] = s[i + k - 1]
  <2>1. PICK u : u = SubSeq(s, i, j)
    OBVIOUS
  <2>2. i \in 1 .. n + 1 /\ j \in i - 1 .. n
    BY <1>1, <1>2
  <2>3. Len(u) = j - i + 1
    BY <1>1, <2>1, <2>2, SubSeqProperties
  <2>4. u \in Seq(Seq(S))
    BY <1>1, <2>1, <2>2, SubSeqProperties
  <2>5. \A k \in 1 .. j - i + 1 : u[k] = s[i + k - 1]
    <3>1. \A k \in i .. j : s[k] \in Seq(S)
      BY <1>1, <1>2
    <3>2. \A k \in 1 .. j - i + 1 : SubSeq(s, i, j)[k] = s[i + k - 1]
      BY <3>1, SubSeqProperties
    <3>3. QED
      BY <2>1, <3>2
  <2>6. QED
    BY <2>1, <2>3, <2>4, <2>5
<1>6. u = x \o t
  <2>1. PICK w : w = x \o t
    OBVIOUS
  <2>2. /\ w \in Seq(Seq(S)) /\ Len(w) = Len(x) + Len(t)
        /\ \A k \in 1 .. Len(x) : w[k] = x[k]
        /\ \A k \in 1 .. Len(t) : w[Len(x) + k] = t[k]
    <3>1. x \in Seq(Seq(S)) /\ t \in Seq(Seq(S))
      BY <1>3, <1>4
    <3>2. /\ x \o t \in Seq(Seq(S)) /\ Len(x \o t) = Len(x) + Len(t)
          /\ \A k \in 1 .. Len(x) : (x \o t)[k] = x[k]
          /\ \A k \in 1 .. Len(t) : (x \o t)[Len(x) + k] = t[k]
      BY <3>1, ConcatIs
    <3>3. QED
      BY <2>1, <3>2
  <2>3. Len(w) = j - i + 1 /\ w[1] = s[i] /\ \A k \in 1 .. j - i : w[1 + k] = s[i + k]
    BY <1>2, <1>3, <1>4, <2>2, SMTT(30)
  <2>4. ASSUME NEW k \in 1 .. j - i + 1 PROVE w[k] = u[k]
    <3>1. CASE k = 1
      <4>1. i + 1 - 1 = i /\ 1 \in 1 .. j - i + 1
        BY <1>2
      <4>2. u[1] = s[i]
        BY <1>5, <4>1
      <4>3. QED
        BY <2>3, <3>1, <4>2
    <3>2. CASE k # 1
      <4>1. PICK l \in 1 .. j - i : k = 1 + l /\ i + k - 1 = i + l
        <5>1. k - 1 \in 1 .. j - i /\ k = 1 + (k - 1) /\ i + k - 1 = i + (k - 1)
          BY <1>2, <3>2
        <5>2. QED
          BY <5>1
      <4>2. w[k] = s[i + l] /\ u[k] = s[i + l]
        BY <1>5, <2>3, <4>1
      <4>3. QED
        BY <4>2
    <3>3. QED
      BY <3>1, <3>2
  <2>5. w = u
    BY <1>5, <2>2, <2>3, <2>4, SeqEqual
  <2>6. QED
    BY <2>1, <2>5
<1>7. FlattenSeq(x) = s[i]
  <2>1. PICK p \in Seq(S) : p = s[i]
    BY <1>2
  <2>2. x = Append(<<>>, p) /\ <<>> \in Seq(Seq(S))
    BY <1>3, <2>1
  <2>3. FlattenSeq(x) = <<>> \o p
    BY <2>2, FlattenAppend, FlattenEmpty
  <2>4. QED
    BY <2>1, <2>3
<1>8. FlattenSeq(u) = FlattenSeq(x) \o FlattenSeq(t)
  BY <1>3, <1>4, <1>5, <1>6, FlattenConcat
<1>9. QED
  BY <1>4, <1>5, <1>7, <1>8

\* The text of a request is the start line, the lines, and from piece n on
\* what follows them.
LEMMA RequestParts ==
    ASSUME NEW s \in Seq(Texts), NEW n \in 2 .. Len(s), s[n] = CRLF
    PROVE  LET lines == SubSeq(s, 2, n - 1)
               c == FlattenSeq(SubSeq(s, n + 1, Len(s)))
           IN  /\ s[1] \in Texts /\ lines \in Seq(Texts) /\ c \in Texts
               /\ FlattenSeq(s) = s[1] \o (FlattenSeq(lines) \o (CRLF \o c))
<1>1. PICK m \in Nat : m = Len(s)
  BY LenProperties
<1>2. s \in Seq(Seq(Symbol))
  BY DEF Texts
<1>3. n \in Nat /\ n >= 2 /\ n <= m
  BY <1>1
<1>4. n - 1 \in 1 .. m /\ 1 \in 1 .. n - 1 /\ m \in 1 .. m /\ n \in 1 .. m /\ n - 1 \in 0 .. m /\ (n - 1) + 1 = n
  BY <1>3
<1>5. PICK k \in Nat : k = n - 1
  BY <1>3
<1>6. PICK before, after : before = SubSeq(s, 1, k) /\ after = SubSeq(s, n, m)
  OBVIOUS
<1>7. s = before \o after
  <2>1. \A r \in Seq(Texts), i \in Nat : i \in 0 .. Len(r) => r = SubSeq(r, 1, i) \o From(r, i + 1)
    BY Split
  <2>2. s = SubSeq(s, 1, k) \o From(s, k + 1)
    BY <1>1, <1>4, <1>5, <2>1
  <2>3. From(s, k + 1) = after
    BY <1>1, <1>4, <1>5, <1>6 DEF From
  <2>4. QED
    BY <1>6, <2>2, <2>3
<1>8. PICK lines : lines = SubSeq(s, 2, k)
  OBVIOUS
<1>9. PICK others : others = SubSeq(s, n + 1, m)
  OBVIOUS
<1>10. before \in Seq(Seq(Symbol)) /\ lines \in Seq(Seq(Symbol)) /\ FlattenSeq(before) = s[1] \o FlattenSeq(lines)
  <2>1. k \in 1 .. Len(s) /\ 1 \in 1 .. k /\ 1 + 1 = 2
    BY <1>1, <1>4, <1>5
  <2>2. /\ SubSeq(s, 1, k) \in Seq(Seq(Symbol)) /\ SubSeq(s, 1 + 1, k) \in Seq(Seq(Symbol))
        /\ FlattenSeq(SubSeq(s, 1, k)) = s[1] \o FlattenSeq(SubSeq(s, 1 + 1, k))
    BY <1>2, <2>1, FirstPart
  <2>3. QED
    BY <1>6, <1>8, <2>1, <2>2
<1>11. after \in Seq(Seq(Symbol)) /\ others \in Seq(Seq(Symbol)) /\ FlattenSeq(after) = CRLF \o FlattenSeq(others)
  <2>1. m \in 1 .. Len(s) /\ n \in 1 .. m
    BY <1>1, <1>4
  <2>2. /\ SubSeq(s, n, m) \in Seq(Seq(Symbol)) /\ SubSeq(s, n + 1, m) \in Seq(Seq(Symbol))
        /\ FlattenSeq(SubSeq(s, n, m)) = s[n] \o FlattenSeq(SubSeq(s, n + 1, m))
    BY <1>2, <2>1, FirstPart
  <2>3. QED
    BY <1>6, <1>9, <2>2
<1>12. PICK l \in Seq(Symbol), c \in Seq(Symbol) : l = FlattenSeq(lines) /\ c = FlattenSeq(others)
  BY <1>10, <1>11, FlattenType
<1>13. PICK e \in Seq(Symbol) : e = CRLF
  BY LineEnds DEF Texts
<1>14. PICK start \in Seq(Symbol) : start = s[1]
  <2>1. 1 \in 1 .. Len(s)
    BY <1>1, <1>3
  <2>2. s[1] \in Seq(Symbol)
    BY <1>2, <2>1, ElementOfSeq
  <2>3. QED
    BY <2>2
<1>15. FlattenSeq(s) = (start \o l) \o (e \o c)
  <2>1. FlattenSeq(before \o after) = FlattenSeq(before) \o FlattenSeq(after)
    BY <1>10, <1>11, FlattenConcat
  <2>2. QED
    BY <1>7, <1>10, <1>11, <1>12, <1>13, <1>14, <2>1
<1>16. start \o (l \o (e \o c)) = (start \o l) \o (e \o c)
  <2>1. e \in Seq(Symbol) /\ c \in Seq(Symbol)
    BY <1>12, <1>13
  <2>2. e \o c \in Seq(Symbol)
    BY <2>1, ConcatProperties
  <2>3. start \in Seq(Symbol) /\ l \in Seq(Symbol)
    BY <1>12, <1>14
  <2>4. Regroups(start, l, e \o c)
    BY <2>2, <2>3, Regrouped
  <2>5. QED
    BY <2>4 DEF Regroups
<1>17. FlattenSeq(s) = s[1] \o (FlattenSeq(lines) \o (CRLF \o FlattenSeq(others)))
  BY <1>12, <1>13, <1>14, <1>15, <1>16
<1>18. s[1] \in Texts /\ lines \in Seq(Texts) /\ FlattenSeq(others) \in Texts
  BY <1>10, <1>12, <1>14 DEF Texts
<1>19. QED
  BY <1>1, <1>5, <1>8, <1>9, <1>17, <1>18

\* What is read of every request in order (HttpServer::HandleHttpData,
\* string_to_request).
THEOREM RequestsRead == RequestsSpec => []RequestReads
<1>1. RequestsInvariant => RequestReads
  <2> SUFFICES ASSUME RequestsInvariant, NEW n \in IF kind = "request" THEN 2 .. Len(input) ELSE {},
                      InOrder(input[1]), Range(SubSeq(input, 2, n - 1)) \subseteq HeaderLines, input[n] = CRLF
               PROVE  TellsRequest(input[1], SubSeq(input, 2, n - 1),
                                   ContentLeft(SubSeq(input, 2, n - 1), FlattenSeq(SubSeq(input, n + 1, Len(input)))),
                                   string_to_request(Text))
    BY DEF RequestReads, TellsRequest, HeaderLines
  <2>1. input \in Seq(Texts) /\ n \in 2 .. Len(input)
    BY DEF RequestsInvariant
  <2>2. PICK start, lines, c : /\ start = input[1] /\ lines = SubSeq(input, 2, n - 1)
                               /\ c = FlattenSeq(SubSeq(input, n + 1, Len(input)))
    OBVIOUS
  <2>3. /\ start \in Texts /\ lines \in Seq(Texts) /\ c \in Texts
        /\ FlattenSeq(input) = start \o (FlattenSeq(lines) \o (CRLF \o c))
    BY <2>1, <2>2, RequestParts
  <2>4. lines \in Seq(HeaderLines)
    <3>1. Range(lines) \subseteq HeaderLines
      BY <2>2
    <3>2. \A i \in DOMAIN lines : lines[i] \in HeaderLines
      BY <3>1 DEF Range
    <3>3. lines \in Seq(Texts)
      BY <2>3
    <3>4. QED
      BY <3>2, <3>3
  <2>5. TellsRequest(start, lines, ContentLeft(lines, c), string_to_request(start \o (FlattenSeq(lines) \o (CRLF \o c))))
    BY <2>2, <2>3, <2>4, TextRead
  <2>6. QED
    BY <2>2, <2>3, <2>5 DEF Text
<1>2. QED
  BY <1>1, RequestsType, PTL
=============================================================================
