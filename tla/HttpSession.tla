---------------------------- MODULE HttpSession ----------------------------
(***************************************************************************)
(* What the server of src/src/http_server.cpp promises each connection: it *)
(* answers the segments it is sent in order, each in exactly one response; *)
(* a response goes out byte by byte before the next one starts; and it     *)
(* hangs up only on a client that has closed or reset, on one that only    *)
(* closed not before everything it owes is sent.  Threads, descriptors,    *)
(* epoll and memory are not visible here.                                  *)
(***************************************************************************)
EXTENDS Integers, Sequences

CONSTANTS Conns, RespLens, Pieces

VARIABLES
    peer,       \* the client's end: "none", "open", "fin", "rst", "gone"
    taken,      \* segments answered so far
    owed,       \* bytes of the current response not sent yet
    wire        \* bytes sent

sessionVars == <<peer, taken, owed, wire>>

\* The k-th segment of a connection is segment p of request r.
Segment(k) == <<((k - 1) \div Pieces) + 1, ((k - 1) % Pieces) + 1>>

Response(re, len) == [i \in 1 .. len |-> [re |-> re, at |-> i, of |-> len]]

Client(c) ==
    /\ peer' \in {[peer EXCEPT ![c] = q] : q \in {"open", "fin", "rst"}}
    /\ <<peer[c], peer'[c]>> \in
          {<<"none", "open">>, <<"open", "fin">>, <<"open", "rst">>, <<"fin", "rst">>}
    /\ UNCHANGED <<taken, owed, wire>>

Answer(c, k, len) ==
    /\ peer[c] \notin {"none", "gone"}
    /\ owed[c] = <<>>
    /\ owed' = [owed EXCEPT ![c] =
                   Response([i \in 1 .. k |-> Segment(taken[c] + i)], len)]
    /\ taken' = [taken EXCEPT ![c] = @ + k]
    /\ UNCHANGED <<peer, wire>>

Emit(c, n) ==
    /\ peer[c] \in {"open", "fin"}
    /\ n <= Len(owed[c])
    /\ wire' = [wire EXCEPT ![c] = @ \o SubSeq(owed[c], 1, n)]
    /\ owed' = [owed EXCEPT ![c] = SubSeq(@, n + 1, Len(@))]
    /\ UNCHANGED <<peer, taken>>

HangUp(c) ==
    /\ peer[c] = "rst" \/ (peer[c] = "fin" /\ owed[c] = <<>>)
    /\ peer' = [peer EXCEPT ![c] = "gone"]
    /\ owed' = [owed EXCEPT ![c] = <<>>]
    /\ UNCHANGED <<taken, wire>>

CONSTANT MaxRun     \* bound: segments one recv returns

Init ==
    /\ peer = [c \in Conns |-> "none"] /\ taken = [c \in Conns |-> 0]
    /\ owed = [c \in Conns |-> <<>>] /\ wire = [c \in Conns |-> <<>>]

Next == \E c \in Conns :
    \/ Client(c)
    \/ \E k \in 1 .. MaxRun, len \in RespLens : Answer(c, k, len)
    \/ \E n \in 1 .. Len(owed[c]) : Emit(c, n)
    \/ HangUp(c)

Spec == Init /\ [][Next]_sessionVars
=============================================================================
