---------------------------- MODULE HttpMessages ----------------------------
(***************************************************************************)
(* Requests and responses as text, and the way from one to the other: how  *)
(* string_to_request reads a text, how to_string writes one, and what      *)
(* HandleHttpData answers, with the handlers that main registers.          *)
(*                                                                         *)
(* A text is a sequence of tokens: a word, a digit, or one of the          *)
(* characters the code looks at, SP CR LF NUL and ":".  A length is        *)
(* counted in tokens.  An exception is a record with the name of its class *)
(* in place of a result.                                                   *)
(***************************************************************************)
EXTENDS Integers, SequencesExt

HttpMethod == {"GET", "HEAD", "POST", "PUT", "DELETE", "CONNECT", "OPTIONS", "TRACE", "PATCH"}

\* The words that occur in two spellings, by the one in lower case.
Capital ==
    [word \in {"get", "/vars", "http/1.1"} |->
       CASE word = "get" -> "GET" [] word = "/vars" -> "/VARS" [] word = "http/1.1" -> "HTTP/1.1"]

toupper(word) == [i \in DOMAIN word |->
                    IF word[i] \in DOMAIN Capital THEN Capital[word[i]] ELSE word[i]]

tolower(word) == [i \in DOMAIN word |->
                    IF word[i] \in Range(Capital)
                    THEN CHOOSE w \in DOMAIN Capital : Capital[w] = word[i] ELSE word[i]]

\* std::isspace.
Space == {"SP", "CR", "LF"}

Throws(class) == [throws |-> class]

Threw(result) == "throws" \in DOMAIN result

Keep(kept, c) == IF c \in Space THEN kept ELSE Append(kept, c)

strip(s) == FoldLeft(Keep, <<>>, s)

CRLF == <<"CR", "LF">>

\* std::string::find: where t starts first in s, or 0.
find(s, t) ==
    LET at == {i \in 1 .. Len(s) - Len(t) + 1 : SubSeq(s, i, i + Len(t) - 1) = t}
    IN  IF at = {} THEN 0 ELSE Min(at)

From(s, i) == SubSeq(s, i, Len(s))

\* Runs of tokens: those that have ended, and the one that goes on.
NoRuns == [done |-> <<>>, now |-> <<>>]

Runs(r) == IF r.now = <<>> THEN r.done ELSE Append(r.done, r.now)

GoesOn(r, c) == [done |-> r.done, now |-> Append(r.now, c)]

\* operator>> skips whitespace: no word is empty.
WordStep(r, c) == IF c \in Space THEN [done |-> Runs(r), now |-> <<>>] ELSE GoesOn(r, c)

Words(s) == Runs(FoldLeft(WordStep, NoRuns, s))

\* getline: lines may be empty, but not the last.
LineStep(r, c) == IF c = "LF" THEN [done |-> Append(r.done, r.now), now |-> <<>>] ELSE GoesOn(r, c)

Lines(s) == Runs(FoldLeft(LineStep, NoRuns, s))
-----------------------------------------------------------------------------
(* HttpMessageInterface.  A map is a function from keys to values.          *)
SetHeader(m, key, value) ==
    [m EXCEPT !.headers = [k \in DOMAIN @ \cup {key} |-> IF k = key THEN value ELSE @[k]]]

NoHeaders == [key \in {} |-> <<>>]

ContentLength == <<"Content-Length">>

LengthText(content) == <<ToString(Len(content))>>

SetContent(m, content) ==
    [SetHeader(m, ContentLength, LengthText(content)) EXCEPT !.content = content]

Request == [method |-> "GET", uri |-> <<>>, headers |-> NoHeaders, content |-> <<>>]

SetMethod(r, method) == [r EXCEPT !.method = method]

SetUri(r, path) == [r EXCEPT !.uri = tolower(path)]

Response(status) == [status |-> status, headers |-> NoHeaders, content |-> <<>>]

HeaderText(m) ==
    LET line(key) == key \o <<":", "SP">> \o m.headers[key] \o CRLF
    IN  FlattenSeq([i \in DOMAIN SetToSeq(DOMAIN m.headers) |-> line(SetToSeq(DOMAIN m.headers)[i])])

\* to_string of a response, whose content HEAD leaves out.
ResponseText(r, send_content) ==
    <<"HTTP/1.1", "SP", r.status, "SP">> \o CRLF \o HeaderText(r) \o CRLF
    \o IF send_content THEN r.content ELSE <<>>
-----------------------------------------------------------------------------
(* string_to_request.                                                       *)
\* Mutant: a header line ends at its last ":".
ReadHeaderLast(acc, line) ==
    LET colon == Max({0} \cup {i \in DOMAIN line : line[i] = ":"})
    IN  [request |-> SetHeader(acc.request, strip(SubSeq(line, 1, colon - 1)), strip(From(line, colon + 1))),
         value |-> <<>>]

\* A line without ":" leaves the variable `value' as the line before set it:
\* the second getline fails at once.
ReadHeader(acc, line) ==
    LET colon == find(line, <<":">>)
        key == strip(IF colon = 0 THEN line ELSE SubSeq(line, 1, colon - 1))
        value == IF colon = 0 THEN acc.value ELSE strip(From(line, colon + 1))
    IN  [request |-> SetHeader(acc.request, key, value), value |-> value]

ReadHeaders(request, lines) ==
    FoldLeft(ReadHeader, [request |-> request, value |-> <<>>], lines).request

Versions == {"HTTP/0.9", "HTTP/1.0", "HTTP/1.1", "HTTP/2", "HTTP/2.0"}

\* Headers and content are there only if a second CRLF CRLF follows the
\* start line and its CRLF.
string_to_request(text) ==
    LET at == find(text, CRLF)
        words == Words(SubSeq(text, 1, at - 1)) \o << <<>>, <<>>, <<>> >>
        method == toupper(words[1])
        version == toupper(words[3])
        rest == From(text, at + 2)
        blank == find(rest, CRLF \o CRLF)
        known == method[1] \in HttpMethod /\ version[1] \in Versions
        supported == version[1] = "HTTP/1.1"
        request == SetUri(SetMethod(Request, method[1]), words[2])
    IN  CASE at = 0 \/ Len(method) # 1 \/ Len(version) # 1 -> Throws("invalid_argument")
          [] OTHER ->
             CASE ~known -> Throws("invalid_argument")
               [] known /\ ~supported -> Throws("logic_error")
               [] known /\ supported /\ blank = 0 -> SetContent(request, <<>>)
               [] OTHER -> SetContent(ReadHeaders(request, Lines(SubSeq(rest, 1, blank - 1))),
                                      From(rest, blank + 4))
-----------------------------------------------------------------------------
(* The handlers of main.cpp and how HandleHttpData comes to one.            *)
\* What a handler does: its response and the calls it makes of the window.
Effect(response, calls) == [response |-> response, calls |-> calls]

Ok(content) ==
    SetContent(SetHeader(Response("200"), <<"Content-Type">>, <<"application/json">>), content)

Refused == Effect(Response("400"), <<>>)

\* The content of a request to /func/2d and /func/3d: points of the right
\* form, other JSON, or neither.  Of other JSON nothing is looked at unless
\* there is a plot (`shown').
status_func(query, shown) ==
    IF strip(query) = <<"points">> \/ (strip(query) = <<"other">> /\ ~shown)
    THEN Effect(Ok(<<"answer">>), <<>>) ELSE Refused

\* std::stoi reads the digits that come first: "1" is a tab, "9" is none.
stoi(query) ==
    LET q == From(query, Min({i \in DOMAIN query : query[i] \notin Space} \cup {Len(query) + 1}))
    IN  SubSeq(q, 1, Min({i \in DOMAIN q : q[i] \notin {"1", "9"}} \cup {Len(q) + 1}) - 1)

\* The numbers of these digits that an int can hold: for others stoi throws
\* out_of_range.
FitsInt(digits) == Len(digits) < 10 \/ (Len(digits) = 10 /\ digits[1] = "1")

\* What stoi throws is caught.  KAlgebra::operate_tab asserts that the tab
\* exists: no response.
operate_tab(query) ==
    CASE stoi(query) = <<>> \/ ~FitsInt(stoi(query)) -> Refused
      [] stoi(query) = <<"1">> -> Effect(Ok(<<"OK">>), << <<"operate_tab", <<"1">> >> >>)
      [] OTHER -> Throws("abort")

Handler(name, query, shown) ==
    CASE name \in {"status_version", "status_vars"} -> Effect(Ok(<<name>>), <<>>)
      [] name \in {"status_func2d", "status_func3d"} -> status_func(query, shown)
      [] name = "operate_tab" -> operate_tab(query)
      [] OTHER -> Effect(Ok(<<"OK">>), << <<name, query>> >>)

\* What main registers, in its order.
main ==
    LET both(path, method, name) == << <<path, "HEAD", name>>, <<path, method, name>> >>
    IN  both("/version", "GET", "status_version") \o both("/vars", "GET", "status_vars")
        \o both("/func/2d", "POST", "status_func2d") \o both("/func/3d", "POST", "status_func3d")
        \o both("/tab", "POST", "operate_tab") \o both("/add/calc", "POST", "operate_calc")
        \o both("/add/2d", "POST", "operate_add2d") \o both("/add/3d", "POST", "operate_add3d")

\* RegisterHttpRequestHandler for each: a handler that is registered again
\* does not replace the first.
request_handlers ==
    LET first(path, method) == Min({i \in DOMAIN main : main[i][1] = path /\ main[i][2] = method})
    IN  [key \in {<<r[1], r[2]>> : r \in Range(main)} |-> main[first(key[1], key[2])][3]]

\* Mutant: a method without handler is answered like GET.
HandleAnyMethod(request, shown) ==
    LET at == {key \in DOMAIN request_handlers : << key[1] >> = request.uri}
    IN  IF at = {} THEN Effect(Response("404"), <<>>)
        ELSE Handler(request_handlers[CHOOSE k \in at : TRUE], request.content, shown)

HandleHttpRequest(request, shown) ==
    LET at == {key \in DOMAIN request_handlers : << key[1] >> = request.uri}
        key == CHOOSE k \in at : k[2] = request.method
    IN  CASE at = {} -> Effect(Response("404"), <<>>)
          [] at # {} /\ \A k \in at : k[2] # request.method -> Effect(Response("405"), <<>>)
          [] OTHER -> Handler(request_handlers[key], request.content, shown)

\* `send' says whether the content goes with the response.
Sent(effect, send) == [response |-> effect.response, calls |-> effect.calls, send |-> send]

\* What is after a NUL is not read.  A text that is no request is answered
\* with content even if it says HEAD: http_request is still the default one.
HandleHttpData(text, shown) ==
    LET nul == find(text, <<"NUL">>)
        request == string_to_request(IF nul = 0 THEN text ELSE SubSeq(text, 1, nul - 1))
        sorry(status) == Effect(SetContent(Response(status), <<"what">>), <<>>)
    IN  CASE request = Throws("invalid_argument") -> Sent(sorry("400"), TRUE)
          [] request = Throws("logic_error") -> Sent(sorry("505"), TRUE)
          [] OTHER -> LET effect == HandleHttpRequest(request, shown) IN
                      IF Threw(effect) THEN effect ELSE Sent(effect, request.method # "HEAD")
=============================================================================
