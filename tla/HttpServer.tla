----------------------------- MODULE HttpServer -----------------------------
(***************************************************************************)
(* The embedded HTTP server of src/src/http_server.cpp: the main thread    *)
(* (Start, Stop), one listener (Listen) and kThreadPoolSize workers        *)
(* (ProcessEvents, HandleEpollEvent), each with its own epoll instance,    *)
(* over the sockets, the epoll registrations and the EventData heap.       *)
(* One step is one system call, or one stretch of code between two of      *)
(* them.  The kernel and the clients are the environment.                  *)
(***************************************************************************)
EXTENDS Integers, Sequences, FiniteSets

CONSTANTS
    kThreadPoolSize,    \* number of workers
    kMaxBufferSize,     \* capacity of EventData::buffer, in units of payload
    kMaxEvents,         \* most events one epoll_wait returns
    kBacklogSize,       \* most connections waiting in the listen queue
    Fds,                \* file descriptors the process may hold for clients
    Addrs,              \* addresses of EventData objects
    Conns,              \* connections clients may open
    None,               \* no connection, no descriptor, no address (nullptr)
    RespLens,           \* lengths of the responses the handlers build
    SndBuf,             \* room in a socket's send buffer
    Pieces,             \* TCP segments a request arrives in
    MaxRequests,        \* bound: requests per connection
    MaxRecvAgain,       \* bound: calls of recv that report EAGAIN
    MaxSendAgain        \* bound: calls of send that report EAGAIN

Workers == 0 .. kThreadPoolSize - 1

ASSUME PoolAssumption == kThreadPoolSize \in Nat \ {0}
ASSUME BoundsAssumption ==
    /\ {kMaxBufferSize, kMaxEvents, SndBuf, Pieces} \subseteq Nat \ {0}
    /\ {kBacklogSize, MaxRequests, MaxRecvAgain, MaxSendAgain} \subseteq Nat
    /\ RespLens \subseteq Nat \ {0}
ASSUME NoneAssumption == None \notin Conns \cup Fds \cup Addrs

VARIABLES
    fate,           \* "up", "start_failed" or "terminated" (std::terminate)
    main,           \* where the main thread is in Start and Stop
    running_,       \* HttpServer::running_
    sock,           \* sock_fd_: "created", "listening", "closed"
    epollOpen,      \* workers whose worker_epoll_fd_ is open
    lpc, lfd, ldata, current_worker,    \* Listen: pc and locals
    load,           \* history: connections handed to each worker
    wpc, batch, wdata, ctl,             \* ProcessEvents: pc and locals
    live, heap,     \* addresses allocated, and what they hold
    regs,           \* epoll registrations of all workers
    fdtab,          \* the connection behind each open descriptor
    backlog, peer, inbox,   \* listen queue; client end; bytes to recv
    wire, nread, sent,      \* bytes put in by send, read by and sent by clients
    again           \* EAGAIN results so far, of recv and of send

mainVars == <<main, running_, sock, epollOpen>>
lisVars == <<lpc, lfd, ldata, current_worker, load>>
wkVars == <<wpc, batch, wdata, ctl>>
memVars == <<live, heap>>
kernVars == <<regs, fdtab>>
netVars == <<backlog, peer, inbox, wire, nread, sent>>
vars == <<fate, mainVars, lisVars, wkVars, memVars, kernVars, netVars, again>>

-----------------------------------------------------------------------------
(* EventData and the heap.  buffer is the run of segments last received, or *)
(* for a response the run it answers.  fd is None where the constructor's 0 *)
(* stands, and in a block that was freed.                                   *)
EventData == [fd : Fds \cup {None}, buffer : Seq(Nat \X Nat), length : Nat, cursor : Nat]

\* A byte of a response: what it answers, its place, the response's length.
Byte == [re : Seq(Nat \X Nat), at : Nat, of : Nat]

NewEventData(f) == [fd |-> f, buffer |-> <<>>, length |-> 0, cursor |-> 0]

Put(a, d) ==
    /\ live' = live \cup {a}
    /\ heap' = [heap EXCEPT ![a] = d]

FreeAddrs == Addrs \ live

(* The kernel.  A registration ties a descriptor to the events asked for    *)
(* and to the pointer epoll_wait hands back.                                *)
Registration == [ep : Workers, fd : Fds, events : {"IN", "OUT"}, data : Addrs]

Registered(w, f) == \E r \in regs : r.ep = w /\ r.fd = f

Open(f) == fdtab[f] # None

Without(w, f) == {r \in regs : ~(r.ep = w /\ r.fd = f)}

(* control_epoll_event: epoll_ctl succeeds, or the exception it throws has  *)
(* no handler in the thread and std::terminate ends the process.            *)
CtlAllowed(op, w, f) ==
    /\ w \in epollOpen
    /\ Open(f)
    /\ (op = "ADD") <=> ~Registered(w, f)

control_epoll_event(op, w, f, ev, a) ==
    IF CtlAllowed(op, w, f)
    THEN /\ regs' = IF op = "DEL" THEN Without(w, f)
                    ELSE Without(w, f) \cup
                         {[ep |-> w, fd |-> f, events |-> ev, data |-> a]}
         /\ UNCHANGED fate
    ELSE /\ fate' = "terminated"
         /\ UNCHANGED regs

(* What epoll_wait reports of a registration, level-triggered.              *)
Ready(r) ==
    LET c == fdtab[r.fd] IN
    IF peer[c] = "rst" THEN {[events |-> "ERR", data |-> r.data]}
    ELSE IF \/ r.events = "IN" /\ (inbox[c] # <<>> \/ peer[c] = "fin")
            \/ r.events = "OUT" /\ Len(wire[c]) - nread[c] < SndBuf
         THEN {[events |-> r.events, data |-> r.data]}
         ELSE {}

ReadyEvents(w) == UNION {Ready(r) : r \in {q \in regs : q.ep = w}}

-----------------------------------------------------------------------------
(* The main thread: Start, the application's event loop ("exec"), Stop.     *)
Up == fate = "up"

StartFails ==
    /\ Up /\ main \in {"created", "setup"}
    /\ fate' = "start_failed"
    /\ UNCHANGED <<mainVars, lisVars, wkVars, memVars, kernVars, netVars, again>>

BindAndListen ==
    /\ Up /\ main = "created"
    /\ main' = "setup"
    /\ sock' = "listening"
    /\ UNCHANGED <<fate, running_, epollOpen, lisVars, wkVars, memVars, kernVars,
                   netVars, again>>

SetUpEpoll ==
    /\ Up /\ main = "setup"
    /\ main' = "flag"
    /\ epollOpen' = Workers
    /\ UNCHANGED <<fate, running_, sock, lisVars, wkVars, memVars, kernVars,
                   netVars, again>>

\* Mutant: the flag is not set before the threads start.
SetRunningLate ==
    /\ Up /\ main = "flag"
    /\ main' = "listener"
    /\ UNCHANGED running_
    /\ UNCHANGED <<fate, sock, epollOpen, lisVars, wkVars, memVars, kernVars,
                   netVars, again>>

SetRunning ==
    /\ Up /\ main = "flag"
    /\ main' = "listener"
    /\ running_' = TRUE
    /\ UNCHANGED <<fate, sock, epollOpen, lisVars, wkVars, memVars, kernVars,
                   netVars, again>>

SpawnListener ==
    /\ Up /\ main = "listener"
    /\ main' = "workers"
    /\ lpc' = "check"
    /\ UNCHANGED <<fate, running_, sock, epollOpen, lfd, ldata, current_worker,
                   load, wkVars, memVars, kernVars, netVars, again>>

SpawnWorker(w) ==
    /\ Up /\ main = "workers"
    /\ wpc[w] = "none"
    /\ \A v \in Workers : v < w => wpc[v] # "none"
    /\ wpc' = [wpc EXCEPT ![w] = "check"]
    /\ main' = IF w = kThreadPoolSize - 1 THEN "exec" ELSE main
    /\ UNCHANGED <<fate, running_, sock, epollOpen, lisVars, batch, wdata, ctl,
                   memVars, kernVars, netVars, again>>

\* Mutant: the threads are joined before the flag is cleared.
StopNoFlag ==
    /\ Up /\ main = "exec"
    /\ main' = "join_listener"
    /\ UNCHANGED running_
    /\ UNCHANGED <<fate, sock, epollOpen, lisVars, wkVars, memVars, kernVars,
                   netVars, again>>

Stop ==
    /\ Up /\ main = "exec"
    /\ main' = "join_listener"
    /\ running_' = FALSE
    /\ UNCHANGED <<fate, sock, epollOpen, lisVars, wkVars, memVars, kernVars,
                   netVars, again>>

JoinListener ==
    /\ Up /\ main = "join_listener"
    /\ lpc = "done"
    /\ main' = "join_workers"
    /\ UNCHANGED <<fate, running_, sock, epollOpen, lisVars, wkVars, memVars,
                   kernVars, netVars, again>>

JoinWorkers ==
    /\ Up /\ main = "join_workers"
    /\ \A w \in Workers : wpc[w] = "done"
    /\ main' = "close_epolls"
    /\ UNCHANGED <<fate, running_, sock, epollOpen, lisVars, wkVars, memVars,
                   kernVars, netVars, again>>

CloseEpolls ==
    /\ Up /\ main = "close_epolls"
    /\ main' = "close_sock"
    /\ epollOpen' = {}
    /\ regs' = {}
    /\ UNCHANGED <<fate, running_, sock, lisVars, wkVars, memVars, fdtab,
                   netVars, again>>

CloseSock ==
    /\ Up /\ main = "close_sock"
    /\ main' = "end"
    /\ sock' = "closed"
    /\ UNCHANGED <<fate, running_, epollOpen, lisVars, wkVars, memVars, kernVars,
                   netVars, again>>

MainStep ==
    \/ BindAndListen \/ SetUpEpoll \/ SetRunning \/ SpawnListener
    \/ \E w \in Workers : SpawnWorker(w)
    \/ JoinListener \/ JoinWorkers \/ CloseEpolls \/ CloseSock
-----------------------------------------------------------------------------
(* The listener thread.                                                     *)
ListenCheck ==
    /\ Up /\ lpc = "check"
    /\ lpc' = IF running_ THEN "accept" ELSE "done"
    /\ UNCHANGED <<fate, mainVars, lfd, ldata, current_worker, load, wkVars,
                   memVars, kernVars, netVars, again>>

\* Mutant: the listener gives up when accept4 fails.
AcceptNoneExits ==
    /\ Up /\ lpc = "accept"
    /\ backlog = <<>> \/ \A f \in Fds : Open(f)
    /\ lpc' = "done"
    /\ UNCHANGED <<fate, mainVars, lfd, ldata, current_worker, load, wkVars,
                   memVars, kernVars, netVars, again>>

\* accept4 finds no connection, or the process is out of descriptors.
AcceptNone ==
    /\ Up /\ lpc = "accept"
    /\ backlog = <<>> \/ \A f \in Fds : Open(f)
    /\ lpc' = "check"
    /\ UNCHANGED <<fate, mainVars, lfd, ldata, current_worker, load, wkVars,
                   memVars, kernVars, netVars, again>>

Accept(f, a) ==
    /\ Up /\ lpc = "accept"
    /\ backlog # <<>> /\ ~Open(f) /\ a \in FreeAddrs
    /\ lpc' = "add" /\ lfd' = f /\ ldata' = a
    /\ fdtab' = [fdtab EXCEPT ![f] = Head(backlog)]
    /\ backlog' = Tail(backlog)
    /\ Put(a, NewEventData(f))
    /\ UNCHANGED <<fate, mainVars, current_worker, load, wkVars, regs, peer,
                   inbox, wire, nread, sent, again>>

\* Mutant: the index is never advanced.
ListenAddSticky ==
    /\ Up /\ lpc = "add"
    /\ control_epoll_event("ADD", current_worker, lfd, "IN", ldata)
    /\ lpc' = "check" /\ lfd' = None /\ ldata' = None
    /\ load' = [load EXCEPT ![current_worker] = @ + 1]
    /\ UNCHANGED current_worker
    /\ UNCHANGED <<mainVars, wkVars, memVars, fdtab, netVars, again>>

ListenAdd ==
    /\ Up /\ lpc = "add"
    /\ control_epoll_event("ADD", current_worker, lfd, "IN", ldata)
    /\ lpc' = "check" /\ lfd' = None /\ ldata' = None
    /\ load' = [load EXCEPT ![current_worker] = @ + 1]
    /\ current_worker' = IF current_worker + 1 = kThreadPoolSize THEN 0
                         ELSE current_worker + 1
    /\ UNCHANGED <<mainVars, wkVars, memVars, fdtab, netVars, again>>

ListenerStep ==
    \/ ListenCheck \/ AcceptNone \/ ListenAdd
    \/ \E f \in Fds, a \in Addrs : Accept(f, a)
-----------------------------------------------------------------------------
(* The worker threads: the loop of ProcessEvents.                           *)
WorkerCheck(w) ==
    /\ Up /\ wpc[w] = "check"
    /\ wpc' = [wpc EXCEPT ![w] = IF running_ THEN "poll" ELSE "done"]
    /\ UNCHANGED <<fate, mainVars, lisVars, batch, wdata, ctl, memVars, kernVars,
                   netVars, again>>

\* epoll_wait with timeout 0; the events come back in any order.
EpollWait(w) ==
    /\ Up /\ wpc[w] = "poll"
    /\ \E B \in SUBSET ReadyEvents(w) :
          /\ \/ B = ReadyEvents(w) /\ Cardinality(B) <= kMaxEvents
             \/ Cardinality(B) = kMaxEvents
          /\ batch' = [batch EXCEPT ![w] = B]
          /\ wpc' = [wpc EXCEPT ![w] = IF B = {} THEN "check" ELSE "next"]
    /\ UNCHANGED <<fate, mainVars, lisVars, wdata, ctl, memVars, kernVars,
                   netVars, again>>

BatchDone(w) ==
    /\ Up /\ wpc[w] = "next"
    /\ batch[w] = {}
    /\ wpc' = [wpc EXCEPT ![w] = "check"]
    /\ UNCHANGED <<fate, mainVars, lisVars, batch, wdata, ctl, memVars, kernVars,
                   netVars, again>>

\* The worker takes event e of its batch and goes on at pc.
Take(w, e, pc) ==
    /\ Up /\ wpc[w] = "next"
    /\ e \in batch[w]
    /\ batch' = [batch EXCEPT ![w] = @ \ {e}]
    /\ wdata' = [wdata EXCEPT ![w] = e.data]
    /\ wpc' = [wpc EXCEPT ![w] = pc]

\* The epoll_ctl call the worker is about to make.
NoCtl == [op |-> "MOD", events |-> "IN", data |-> None]

Prepare(w, op, ev, a) ==
    ctl' = [ctl EXCEPT ![w] = [op |-> op, events |-> ev, data |-> a]]

\* EPOLLHUP, EPOLLERR, or a set of events the server does not expect.
TakeError(w, e) ==
    /\ Take(w, e, "del")
    /\ e.events \notin {"IN", "OUT"}
    /\ UNCHANGED <<fate, mainVars, lisVars, ctl, memVars, kernVars, netVars, again>>
-----------------------------------------------------------------------------
(* HandleEpollEvent on EPOLLIN: what recv returns.                          *)
ConnOf(a) == fdtab[heap[a].fd]

RecvData(w, e) ==
    LET c == ConnOf(e.data)
        n == IF Len(inbox[c]) < kMaxBufferSize THEN Len(inbox[c])
             ELSE kMaxBufferSize IN
    /\ Take(w, e, "handle")
    /\ e.events = "IN" /\ inbox[c] # <<>>
    /\ heap' = [heap EXCEPT ![e.data].buffer = SubSeq(inbox[c], 1, n)]
    /\ inbox' = [inbox EXCEPT ![c] = SubSeq(@, n + 1, Len(@))]
    /\ UNCHANGED <<fate, mainVars, lisVars, ctl, live, kernVars, backlog, peer,
                   wire, nread, sent, again>>

\* Mutant: end of stream is taken for EAGAIN.
RecvEndRetry(w, e) ==
    LET c == ConnOf(e.data) IN
    /\ Take(w, e, "ctl")
    /\ e.events = "IN"
    /\ \/ peer[c] = "fin" /\ inbox[c] = <<>>
       \/ peer[c] = "rst"
    /\ Prepare(w, "MOD", "IN", e.data)
    /\ UNCHANGED <<fate, mainVars, lisVars, memVars, kernVars, netVars, again>>

\* recv returns 0 after the client's FIN, or fails after its RST.
RecvEnd(w, e) ==
    LET c == ConnOf(e.data) IN
    /\ Take(w, e, "del")
    /\ e.events = "IN"
    /\ \/ peer[c] = "fin" /\ inbox[c] = <<>>
       \/ peer[c] = "rst"
    /\ UNCHANGED <<fate, mainVars, lisVars, ctl, memVars, kernVars, netVars, again>>

\* Mutant: the retry adds the descriptor again.
RecvAgainAdd(w, e) ==
    /\ Take(w, e, "ctl")
    /\ e.events = "IN" /\ again.recv < MaxRecvAgain
    /\ again' = [again EXCEPT !.recv = @ + 1]
    /\ Prepare(w, "ADD", "IN", e.data)
    /\ UNCHANGED <<fate, mainVars, lisVars, memVars, kernVars, netVars>>

RecvAgain(w, e) ==
    /\ Take(w, e, "ctl")
    /\ e.events = "IN" /\ again.recv < MaxRecvAgain
    /\ again' = [again EXCEPT !.recv = @ + 1]
    /\ Prepare(w, "MOD", "IN", e.data)
    /\ UNCHANGED <<fate, mainVars, lisVars, memVars, kernVars, netVars>>

\* Mutant: the response is registered for EPOLLIN.
HandleHttpDataIn(w, a, len) ==
    /\ Up /\ wpc[w] = "handle"
    /\ a \in FreeAddrs
    /\ Put(a, [heap[wdata[w]] EXCEPT !.length = len, !.cursor = 0])
    /\ Prepare(w, "MOD", "IN", a)
    /\ wpc' = [wpc EXCEPT ![w] = "ctl"]
    /\ UNCHANGED <<fate, mainVars, lisVars, batch, wdata, kernVars, netVars, again>>

\* HandleHttpData: the handlers answer whatever one recv returned.  A full
\* buffer is read as a string beyond its end, which may change the text but
\* not that some response answers it; memcpy always copies kMaxBufferSize
\* bytes, of which those beyond `length' are never sent.
HandleHttpData(w, a, len) ==
    /\ Up /\ wpc[w] = "handle"
    /\ a \in FreeAddrs
    /\ Put(a, [heap[wdata[w]] EXCEPT !.length = len, !.cursor = 0])
    /\ Prepare(w, "MOD", "OUT", a)
    /\ wpc' = [wpc EXCEPT ![w] = "ctl"]
    /\ UNCHANGED <<fate, mainVars, lisVars, batch, wdata, kernVars, netVars, again>>
-----------------------------------------------------------------------------
(* HandleEpollEvent on EPOLLOUT: what send returns.                         *)
Bytes(d, n) ==
    [i \in 1 .. n |-> [re |-> d.buffer, at |-> d.cursor + i,
                       of |-> d.cursor + d.length]]

CanTake(c, d, n) ==
    /\ peer[c] # "rst"
    /\ n <= d.length /\ Len(wire[c]) - nread[c] + n <= SndBuf

\* Mutant: the cursor is not advanced.
SendPartNoCursor(w, e, n) ==
    LET d == heap[e.data]
        c == ConnOf(e.data) IN
    /\ Take(w, e, "ctl")
    /\ e.events = "OUT" /\ CanTake(c, d, n) /\ n < d.length
    /\ wire' = [wire EXCEPT ![c] = @ \o Bytes(d, n)]
    /\ heap' = [heap EXCEPT ![e.data].length = @ - n]
    /\ Prepare(w, "MOD", "OUT", e.data)
    /\ UNCHANGED <<fate, mainVars, lisVars, live, kernVars, backlog, peer,
                   inbox, nread, sent, again>>

\* Mutant: the descriptor is added again for the rest.
SendPartAdd(w, e, n) ==
    LET d == heap[e.data]
        c == ConnOf(e.data) IN
    /\ Take(w, e, "ctl")
    /\ e.events = "OUT" /\ CanTake(c, d, n) /\ n < d.length
    /\ wire' = [wire EXCEPT ![c] = @ \o Bytes(d, n)]
    /\ heap' = [heap EXCEPT ![e.data].cursor = @ + n, ![e.data].length = @ - n]
    /\ Prepare(w, "ADD", "OUT", e.data)
    /\ UNCHANGED <<fate, mainVars, lisVars, live, kernVars, backlog, peer,
                   inbox, nread, sent, again>>

SendPart(w, e, n) ==
    LET d == heap[e.data]
        c == ConnOf(e.data) IN
    /\ Take(w, e, "ctl")
    /\ e.events = "OUT" /\ CanTake(c, d, n) /\ n < d.length
    /\ wire' = [wire EXCEPT ![c] = @ \o Bytes(d, n)]
    /\ heap' = [heap EXCEPT ![e.data].cursor = @ + n, ![e.data].length = @ - n]
    /\ Prepare(w, "MOD", "OUT", e.data)
    /\ UNCHANGED <<fate, mainVars, lisVars, live, kernVars, backlog, peer,
                   inbox, nread, sent, again>>

SendRest(w, e, a) ==
    LET d == heap[e.data]
        c == ConnOf(e.data) IN
    /\ Take(w, e, "ctl")
    /\ e.events = "OUT" /\ CanTake(c, d, d.length) /\ a \in FreeAddrs
    /\ wire' = [wire EXCEPT ![c] = @ \o Bytes(d, d.length)]
    /\ Put(a, NewEventData(d.fd))
    /\ Prepare(w, "MOD", "IN", a)
    /\ UNCHANGED <<fate, mainVars, lisVars, kernVars, backlog, peer, inbox,
                   nread, sent, again>>

SendAgain(w, e) ==
    /\ Take(w, e, "ctl")
    /\ e.events = "OUT" /\ again.send < MaxSendAgain
    /\ again' = [again EXCEPT !.send = @ + 1]
    /\ Prepare(w, "ADD", "OUT", e.data)
    /\ UNCHANGED <<fate, mainVars, lisVars, memVars, kernVars, netVars>>

SendError(w, e) ==
    /\ Take(w, e, "del")
    /\ e.events = "OUT" /\ peer[ConnOf(e.data)] = "rst"
    /\ UNCHANGED <<fate, mainVars, lisVars, ctl, memVars, kernVars, netVars, again>>
-----------------------------------------------------------------------------
(* The epoll_ctl, close and delete calls that finish an event.              *)
Forget(w) ==
    /\ wpc' = [wpc EXCEPT ![w] = "next"]
    /\ wdata' = [wdata EXCEPT ![w] = None]

\* Mutant: the pointer just registered again is deleted.
WorkerCtlDeletes(w) ==
    LET f == heap[wdata[w]].fd
        k == ctl[w] IN
    /\ Up /\ wpc[w] = "ctl"
    /\ control_epoll_event(k.op, w, f, k.events, k.data)
    /\ ctl' = [ctl EXCEPT ![w] = NoCtl]
    /\ IF FALSE
       THEN Forget(w)
       ELSE wpc' = [wpc EXCEPT ![w] = "free"] /\ UNCHANGED wdata
    /\ UNCHANGED <<mainVars, lisVars, batch, memVars, fdtab, netVars, again>>

WorkerCtl(w) ==
    LET f == heap[wdata[w]].fd
        k == ctl[w] IN
    /\ Up /\ wpc[w] = "ctl"
    /\ control_epoll_event(k.op, w, f, k.events, k.data)
    /\ ctl' = [ctl EXCEPT ![w] = NoCtl]
    /\ IF k.data = wdata[w]
       THEN Forget(w)
       ELSE wpc' = [wpc EXCEPT ![w] = "free"] /\ UNCHANGED wdata
    /\ UNCHANGED <<mainVars, lisVars, batch, memVars, fdtab, netVars, again>>

WorkerDel(w) ==
    /\ Up /\ wpc[w] = "del"
    /\ control_epoll_event("DEL", w, heap[wdata[w]].fd, "IN", wdata[w])
    /\ wpc' = [wpc EXCEPT ![w] = "close"]
    /\ UNCHANGED <<mainVars, lisVars, batch, wdata, ctl, memVars, fdtab, netVars,
                   again>>

\* Mutant: the EventData is not deleted.
WorkerCloseOnly(w) ==
    LET f == heap[wdata[w]].fd IN
    /\ Up /\ wpc[w] = "close"
    /\ fdtab' = [fdtab EXCEPT ![f] = None]
    /\ regs' = {r \in regs : r.fd # f}
    /\ peer' = [c \in Conns |-> IF c = fdtab[f] THEN "gone" ELSE peer[c]]
    /\ Forget(w)
    /\ UNCHANGED <<fate, mainVars, lisVars, batch, ctl, memVars, backlog,
                   inbox, wire, nread, sent, again>>

\* close also drops the descriptor from every epoll instance.
WorkerClose(w) ==
    LET f == heap[wdata[w]].fd IN
    /\ Up /\ wpc[w] = "close"
    /\ fdtab' = [fdtab EXCEPT ![f] = None]
    /\ regs' = {r \in regs : r.fd # f}
    /\ peer' = [c \in Conns |-> IF c = fdtab[f] THEN "gone" ELSE peer[c]]
    /\ wpc' = [wpc EXCEPT ![w] = "free"]
    /\ UNCHANGED <<fate, mainVars, lisVars, batch, wdata, ctl, memVars, backlog,
                   inbox, wire, nread, sent, again>>

WorkerDelete(w) ==
    /\ Up /\ wpc[w] = "free"
    /\ live' = live \ {wdata[w]}
    /\ heap' = [heap EXCEPT ![wdata[w]] = NewEventData(None)]
    /\ Forget(w)
    /\ UNCHANGED <<fate, mainVars, lisVars, batch, ctl, kernVars, netVars, again>>

WorkerStep(w) ==
    \/ WorkerCheck(w) \/ EpollWait(w) \/ BatchDone(w)
    \/ \E e \in batch[w] :
          \/ TakeError(w, e)
          \/ RecvData(w, e) \/ RecvEnd(w, e) \/ RecvAgain(w, e)
          \/ \E n \in 1 .. SndBuf : SendPart(w, e, n)
          \/ \E a \in Addrs : SendRest(w, e, a)
          \/ SendAgain(w, e) \/ SendError(w, e)
    \/ \E a \in Addrs, len \in RespLens : HandleHttpData(w, a, len)
    \/ WorkerCtl(w) \/ WorkerDel(w) \/ WorkerClose(w) \/ WorkerDelete(w)
-----------------------------------------------------------------------------
(* The clients.  Each sends a request, in Pieces segments, once it has read *)
(* the whole response to the one before; it may close or reset any time.    *)
Answered(c) ==
    \/ wire[c] = <<>> /\ sent[c] = 0
    \/ /\ wire[c] # <<>> /\ nread[c] = Len(wire[c])
       /\ LET b == wire[c][nread[c]] IN
          b.at = b.of /\ b.re # <<>> /\ b.re[Len(b.re)] = <<sent[c] \div Pieces, Pieces>>

Connect(c) ==
    /\ Up /\ sock = "listening"
    /\ peer[c] = "none" /\ Len(backlog) < kBacklogSize
    /\ peer' = [peer EXCEPT ![c] = "open"]
    /\ backlog' = Append(backlog, c)
    /\ UNCHANGED <<fate, mainVars, lisVars, wkVars, memVars, kernVars, again,
                   inbox, wire, nread, sent>>

ClientSend(c) ==
    /\ Up /\ peer[c] = "open"
    /\ sent[c] < MaxRequests * Pieces
    /\ sent[c] % Pieces # 0 \/ Answered(c)
    /\ inbox' = [inbox EXCEPT ![c] =
                    Append(@, <<(sent[c] \div Pieces) + 1, (sent[c] % Pieces) + 1>>)]
    /\ sent' = [sent EXCEPT ![c] = @ + 1]
    /\ UNCHANGED <<fate, mainVars, lisVars, wkVars, memVars, kernVars, again,
                   backlog, peer, wire, nread>>

ClientRead(c) ==
    /\ Up /\ peer[c] \in {"open", "fin"}
    /\ nread[c] < Len(wire[c])
    /\ nread' = [nread EXCEPT ![c] = Len(wire[c])]
    /\ UNCHANGED <<fate, mainVars, lisVars, wkVars, memVars, kernVars, again,
                   backlog, peer, inbox, wire, sent>>

ClientClose(c) ==
    /\ Up /\ peer[c] = "open"
    /\ peer' = [peer EXCEPT ![c] = "fin"]
    /\ UNCHANGED <<fate, mainVars, lisVars, wkVars, memVars, kernVars, again,
                   backlog, inbox, wire, nread, sent>>

ClientReset(c) ==
    /\ Up /\ peer[c] \in {"open", "fin"}
    /\ peer' = [peer EXCEPT ![c] = "rst"]
    /\ UNCHANGED <<fate, mainVars, lisVars, wkVars, memVars, kernVars, again,
                   backlog, inbox, wire, nread, sent>>

ClientStep(c) ==
    \/ Connect(c) \/ ClientSend(c) \/ ClientRead(c) \/ ClientClose(c) \/ ClientReset(c)
-----------------------------------------------------------------------------
Init ==
    /\ fate = "up" /\ main = "created" /\ running_ = FALSE
    /\ sock = "created" /\ epollOpen = {}
    /\ lpc = "none" /\ current_worker = 0
    /\ lfd = None /\ ldata = None
    /\ load = [w \in Workers |-> 0]
    /\ wpc = [w \in Workers |-> "none"]
    /\ batch = [w \in Workers |-> {}]
    /\ wdata = [w \in Workers |-> None]
    /\ ctl = [w \in Workers |-> NoCtl]
    /\ live = {} /\ heap = [a \in Addrs |-> NewEventData(None)]
    /\ regs = {} /\ fdtab = [f \in Fds |-> None]
    /\ backlog = <<>> /\ peer = [c \in Conns |-> "none"]
    /\ inbox = [c \in Conns |-> <<>>] /\ wire = [c \in Conns |-> <<>>]
    /\ nread = [c \in Conns |-> 0] /\ sent = [c \in Conns |-> 0]
    /\ again = [recv |-> 0, send |-> 0]

\* The process has ended, or the main thread has returned from Stop.
Ended == fate # "up" \/ main = "end"

Next ==
    \/ StartFails \/ MainStep \/ Stop
    \/ ListenerStep
    \/ \E w \in Workers : WorkerStep(w)
    \/ \E c \in Conns : ClientStep(c)
    \/ Ended /\ UNCHANGED vars

Spec == Init /\ [][Next]_vars

Fairness ==
    /\ WF_vars(MainStep) /\ WF_vars(ListenerStep)
    /\ \A w \in Workers : WF_vars(WorkerStep(w))
    /\ \A c \in Conns : WF_vars(ClientRead(c))

FairSpec == Spec /\ Fairness
-----------------------------------------------------------------------------
(* What the server owes a connection: the rest of the response it is        *)
(* sending or about to send.  A response that is sent and only waits to be  *)
(* deleted is owed no more.                                                 *)
Finished(a) == \E w \in Workers :
    /\ wdata[w] = a
    /\ wpc[w] = "free" \/ (wpc[w] = "ctl" /\ ctl[w].data # a)

Responses(c) ==
    {a \in live : heap[a].length > 0 /\ ConnOf(a) = c /\ ~Finished(a)}

Owed(c) == IF Responses(c) = {} THEN <<>>
           ELSE LET d == heap[CHOOSE a \in Responses(c) : TRUE]
                IN Bytes(d, d.length)

\* Segments received by a worker that has not built their response yet.
InHand(c) ==
    LET W == {w \in Workers : wpc[w] = "handle" /\ ConnOf(wdata[w]) = c}
    IN IF W = {} THEN 0 ELSE Len(heap[wdata[CHOOSE w \in W : TRUE]].buffer)

Session == INSTANCE HttpSession WITH
    MaxRun <- kMaxBufferSize,
    taken <- [c \in Conns |-> sent[c] - Len(inbox[c]) - InHand(c)],
    owed <- [c \in Conns |-> Owed(c)]

\* The threads, descriptors and epoll sets together implement HttpSession:
\* every segment answered once and in order, responses whole and not mixed,
\* no hang-up on a client that is still owed something (HandleEpollEvent).
ImplementsSession == Session!Spec
-----------------------------------------------------------------------------
PcTypeOK ==
    /\ fate \in {"up", "start_failed", "terminated"}
    /\ main \in {"created", "setup", "flag", "listener", "workers", "exec",
                 "join_listener", "join_workers", "close_epolls", "close_sock", "end"}
    /\ running_ \in BOOLEAN
    /\ sock \in {"created", "listening", "closed"}
    /\ epollOpen \subseteq Workers
    /\ lpc \in {"none", "check", "accept", "add", "done"}
    /\ lfd \in Fds \cup {None} /\ ldata \in Addrs \cup {None}
    /\ current_worker \in Workers
    /\ load \in [Workers -> Nat]
    /\ wpc \in [Workers -> {"none", "check", "poll", "next", "handle", "ctl", "del",
                            "close", "free", "done"}]
    /\ batch \in [Workers -> SUBSET [events : {"IN", "OUT", "ERR"}, data : Addrs]]
    /\ wdata \in [Workers -> Addrs \cup {None}]
    /\ ctl \in [Workers -> [op : {"MOD", "ADD"}, events : {"IN", "OUT"},
                            data : Addrs \cup {None}]]

MemTypeOK ==
    /\ live \subseteq Addrs
    /\ heap \in [Addrs -> EventData]
    /\ regs \subseteq Registration
    /\ fdtab \in [Fds -> Conns \cup {None}]

NetTypeOK ==
    /\ backlog \in Seq(Conns)
    /\ peer \in [Conns -> {"none", "open", "fin", "rst", "gone"}]
    /\ inbox \in [Conns -> Seq(Nat \X Nat)]
    /\ wire \in [Conns -> Seq(Byte)]
    /\ nread \in [Conns -> Nat] /\ sent \in [Conns -> Nat]
    /\ again \in [recv : Nat, send : Nat]

\* Every variable stays in its type.
TypeOK == PcTypeOK /\ MemTypeOK /\ NetTypeOK

\* No system call of a thread is refused by the kernel, so that no exception
\* escapes a thread and ends the process, unless a send has reported EAGAIN:
\* the orders of accept/ADD, MOD/delete, DEL/close and of Start and Stop fit
\* together over all threads, descriptor reuse included (control_epoll_event).
OnlyRetryTerminates == fate = "terminated" => again.send > 0

\* Every pointer that some thread, batch or epoll set will dereference points
\* to an EventData that is allocated and names an open descriptor, that of
\* the registration it came with (the data.ptr casts of ProcessEvents).
MemorySafe ==
    /\ \A r \in regs : r.data \in live /\ heap[r.data].fd = r.fd /\ Open(r.fd)
    /\ \A w \in Workers : \A e \in batch[w] : \E r \in regs : r.ep = w /\ r.data = e.data
    /\ \A w \in Workers : wdata[w] # None => wdata[w] \in live
    /\ ldata # None => ldata \in live

\* While the server is up, every EventData still allocated is in an epoll set
\* or in the hands of a thread, and so is every open descriptor: nothing is
\* leaked however connections come and go (the deletes of HandleEpollEvent).
NoLeak ==
    Up /\ main \notin {"close_sock", "end"} =>
        /\ live \subseteq {r.data : r \in regs} \cup {ldata}
                          \cup {wdata[w] : w \in Workers} \cup {ctl[w].data : w \in Workers}
        /\ \A f \in Fds : Open(f) =>
              \/ f = lfd
              \/ \E r \in regs : r.fd = f
              \/ \E w \in Workers : wpc[w] = "close" /\ heap[wdata[w]].fd = f

\* Connections are spread evenly: no worker was ever handed two more than
\* another (the round robin of Listen).
FairShare == \A v, w \in Workers : load[v] <= load[w] + 1

\* From Start's return to Stop no thread has left its loop: running_ is set
\* before any thread can read it.
ServingAlive ==
    main = "exec" => lpc # "done" /\ \A w \in Workers : wpc[w] \notin {"none", "done"}

\* "we have fully received the message" (http_server.cpp:159): what is
\* handed to HandleHttpData is one whole request.
FullyReceived == \A w \in Workers :
    wpc[w] = "handle" =>
        \E k \in 1 .. MaxRequests :
            heap[wdata[w]].buffer = [i \in 1 .. Pieces |-> <<k, i>>]

\* A send that reports EAGAIN is retried (http_server.cpp:194) and ends
\* neither the worker nor the process.
RetrySurvives == fate # "terminated"

\* Responses keep within the buffer they are copied to (http_server.h:22-24).
WithinBuffer == \A a \in live : heap[a].cursor + heap[a].length <= kMaxBufferSize
-----------------------------------------------------------------------------
Serving == Up /\ main = "exec"
Served(c) == \E f \in Fds : fdtab[f] = c

\* A request that reached an accepted connection is answered in full, unless
\* the client leaves or the application stops the server.
EachRequestAnswered == \A c \in Conns :
    (Served(c) /\ ~Answered(c)) ~> (Answered(c) \/ peer[c] # "open" \/ ~Serving)

\* The descriptor of a client that has left is closed again.
DescriptorsReclaimed == \A c \in Conns :
    (Served(c) /\ peer[c] \in {"fin", "rst"}) ~> (~Served(c) \/ ~Serving)

\* A waiting connection is accepted unless all descriptors are in use.
BacklogAccepted == \A c \in Conns :
    (\E i \in 1 .. Len(backlog) : backlog[i] = c) ~>
        (Served(c) \/ (\A f \in Fds : Open(f)) \/ ~Serving)

\* Stop returns: the listener and every worker see running_ and exit, in the
\* middle of whatever connections they serve.
StopReturns == main = "join_listener" ~> main = "end"
=============================================================================
