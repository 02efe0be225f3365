------------------------------ MODULE Requests ------------------------------
(***************************************************************************)
(* What a client sends, piece by piece: a start line, then header fields   *)
(* and what else may come, the empty line among it.  The properties say    *)
(* what is read of the text so far, and what it is answered.               *)
(***************************************************************************)
EXTENDS Growing, HttpMessages

CONSTANTS
    Symbol,                     \* what a text is a sequence of
    StartLines, MainLines,      \* start lines, and those followed by more pieces
    Fields,                     \* header fields: <<name, value>>
    Others,                     \* other pieces of requests, CRLF among them
    MaxPieces                   \* bound

\* Words and the characters that the code looks at; pieces are texts; a name has no colon, and neither name nor value ends
\* the line.
ASSUME RequestsAssumption ==
    /\ HttpMethod \cup Space \cup {":", "colonless"} \subseteq Symbol
    /\ StartLines \cup Others \subseteq Seq(Symbol)
    /\ Fields \subseteq Seq(Symbol) \X Seq(Symbol)
    /\ \A f \in Fields : Range(f[1]) \cap {":", "CR", "LF"} = {} /\ Range(f[2]) \cap {"CR", "LF"} = {}

Line(field) == field[1] \o <<":">> \o field[2] \o CRLF

Colonless == <<"colonless">> \o CRLF

RequestsInit == input = <<>> /\ kind = "request"

StartRequest == Grow("request", StartLines, 1)

GrowRequest ==
    /\ input # <<>>
    /\ Grow("request", {Line(f) : f \in Fields} \cup Others,
            IF Head(input) \in MainLines THEN MaxPieces ELSE MaxPieces - 2)

RequestsNext == StartRequest \/ GrowRequest

RequestsSpec == RequestsInit /\ [][RequestsNext]_vars
-----------------------------------------------------------------------------
(* What is read.                                                            *)
\* A start line as it should be.
InOrder(start) ==
    /\ Len(start) = 7 /\ start = <<start[1], "SP", start[3], "SP", start[5]>> \o CRLF
    /\ Head(toupper(<<start[1]>>)) \in HttpMethod /\ start[3] \notin Space
    /\ toupper(<<start[5]>>) = <<"HTTP/1.1">>

FieldOf(line) == CHOOSE f \in Fields : Line(f) = line

\* The name that line i gives a value, and the value: that of the last field
\* up to it, which for a line without a colon is an earlier one.
NameAt(lines, i) == IF lines[i] = Colonless THEN <<"colonless">> ELSE strip(FieldOf(lines[i])[1])

ValueAt(lines, i) ==
    LET fields == {j \in 1 .. i : lines[j] # Colonless}
    IN  IF fields = {} THEN <<>> ELSE strip(FieldOf(lines[Max(fields)])[2])

\* What is left of the content: without a line before it the empty line is
\* not seen.
ContentLeft(lines, content) ==
    LET blank == find(CRLF \o content, CRLF \o CRLF)
    IN  CASE lines # <<>> -> content
          [] lines = <<>> /\ blank # 0 -> From(CRLF \o content, blank + 4)
          [] OTHER -> <<>>

\* A request as it should be: a start line in order, lines each of which is
\* a field or has no colon, an empty line.  Whatever stands between and
\* after, the request has every name, with the value of its last line less
\* whitespace, and no other; its content is all that follows the empty line,
\* and Content-Length is the content's whatever the request said.  A line
\* without a colon is a name that has the value of the field before it.
\* Without a line the empty line is not seen, and the content is lost up to
\* the next one, or all of it.
RequestReads ==
    \A n \in IF kind = "request" THEN 2 .. Len(input) ELSE {} :
        LET start == input[1]
            lines == SubSeq(input, 2, n - 1)
            content == ContentLeft(lines, FlattenSeq(SubSeq(input, n + 1, Len(input))))
            r == string_to_request(Text)
        IN  InOrder(start) /\ Range(lines) \subseteq {Line(f) : f \in Fields} \cup {Colonless} /\ input[n] = CRLF
            => /\ << r.method >> = toupper(<< start[1] >>) /\ r.uri = tolower(<< start[3] >>)
               /\ r.content = content /\ r.headers[ContentLength] = <<ToString(Len(content))>>
               /\ lines # <<>> => DOMAIN r.headers = {NameAt(lines, i) : i \in DOMAIN lines} \cup {ContentLength}
               /\ \A i \in DOMAIN lines :
                     (\A j \in i + 1 .. Len(lines) : NameAt(lines, j) # NameAt(lines, i)) /\ NameAt(lines, i) # ContentLength
                     => r.headers[NameAt(lines, i)] = ValueAt(lines, i)
-----------------------------------------------------------------------------
(* What is answered.                                                        *)
\* The text without whitespace: its first tokens are the method and the path.
Said == strip(Text)

\* What an answer tells a client.  The window is called at most once, only
\* for an answer 200 and never for GET; HEAD does what POST or GET of the
\* same text does, effects included, and leaves out only the content; what
\* follows the empty line of an answer is as long as its Content-Length
\* says, and nothing if it is not said or if only the header was asked for;
\* only a /tab that does not exist stays without an answer.
AnswerTells ==
    \A shown \in BOOLEAN : \A a \in IF kind = "request" THEN {HandleHttpData(Text, shown)} ELSE {} :
        IF Threw(a) THEN Said[1] \in {"POST", "HEAD"} /\ Said[2] = "/tab"
        ELSE /\ a.calls # <<>> =>
                  Len(a.calls) = 1 /\ a.response.status = "200" /\ Said[1] \in {"POST", "HEAD"}
             /\ input # <<>> /\ Text[1] = "HEAD" /\ ~a.send =>
                  \E m \in {"POST", "GET"} : HandleHttpData(<<m>> \o Tail(Text), shown) = [a EXCEPT !.send = TRUE]
             /\ \A text \in {ResponseText(a.response, a.send)} :
                  LET after == Len(text) - find(text, CRLF \o CRLF) - 3
                  IN  IF ContentLength \in DOMAIN a.response.headers
                      THEN a.response.headers[ContentLength] = <<ToString(after)>> \/ (~a.send /\ after = 0)
                      ELSE after = 0 /\ a.response.status \in {"400", "404", "405"}
=============================================================================
