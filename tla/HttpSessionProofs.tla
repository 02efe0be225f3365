-------------------------- MODULE HttpSessionProofs --------------------------
(***************************************************************************)
(* Proof that HttpServer implements HttpSession, for every number of       *)
(* workers, descriptors, connections and every bound: what the threads,    *)
(* the epoll sets and the EventData objects do together is, seen from each *)
(* connection, to answer its segments in order, send each response whole   *)
(* before the next, and hang up only on a client that has left.            *)
(***************************************************************************)
EXTENDS HttpServerProofs

Present == {"open", "fin", "rst"}

\* A connection has one descriptor or waits in the listen queue once, and its
\* client's end exists as long as that.
ConnInv ==
    /\ \A a \in live : heap[a].fd \in Fds
    /\ \A f, g \in Fds : Open(f) /\ fdtab[f] = fdtab[g] => f = g
    /\ \A f \in Fds : Open(f) => peer[fdtab[f]] \in Present
    /\ \A i \in 1 .. Len(backlog) : peer[backlog[i]] \in Present /\ ~Served(backlog[i])
    /\ \A i, j \in 1 .. Len(backlog) : backlog[i] = backlog[j] => i = j

\* Segments k + 1 to k + n of a connection.
Run(k, n) == [i \in 1 .. n |-> Session!Segment(k + i)]

\* What waits to be received is the run of segments sent last.
SegInv == \A c \in Conns :
    /\ Len(inbox[c]) <= sent[c]
    /\ inbox[c] = Run(sent[c] - Len(inbox[c]), Len(inbox[c]))

\* What a worker has received and not answered is the run just before that.
HandOK(w) ==
    LET d == heap[wdata[w]]
        c == ConnOf(wdata[w]) IN
    /\ d.length = 0
    /\ Len(d.buffer) \in 1 .. kMaxBufferSize
    /\ Len(inbox[c]) + Len(d.buffer) <= sent[c]
    /\ d.buffer = Run(sent[c] - Len(inbox[c]) - Len(d.buffer), Len(d.buffer))

HandInv == \A w \in Workers : wpc[w] = "handle" => HandOK(w)

\* An EventData holds a response exactly if it is to be registered, is
\* registered or was reported for EPOLLOUT; an error is reported of a
\* connection that was reset.
Sends(ev, a) == (ev = "OUT") <=> heap[a].length > 0

Reported(e) == IF e.events = "ERR" THEN peer[ConnOf(e.data)] = "rst"
               ELSE Sends(e.events, e.data)

LenInv ==
    /\ \A r \in regs : Sends(r.events, r.data)
    /\ \A w \in Workers : \A e \in batch[w] : Reported(e)
    /\ \A w \in Workers : wpc[w] = "ctl" => Sends(ctl[w].events, ctl[w].data)
    /\ ldata # None => heap[ldata].length = 0

\* A worker that is about to hang up has seen the client leave, and one that
\* only closed is owed nothing.
HangOK(w) ==
    \/ peer[ConnOf(wdata[w])] = "rst"
    \/ peer[ConnOf(wdata[w])] = "fin" /\ heap[wdata[w]].length = 0

HangInv == \A w \in Workers : wpc[w] \in {"del", "close"} => HangOK(w)

SInv == ConnInv /\ SegInv /\ HandInv /\ LenInv /\ HangInv

\* Segments of c answered so far: taken in the mapping of Session.
Taken(c) == sent[c] - Len(inbox[c]) - InHand(c)
-----------------------------------------------------------------------------
(* Steps of the server and steps of the session.                            *)
Stutters ==
    /\ UNCHANGED <<peer, wire>>
    /\ \A c \in Conns : Taken(c)' = Taken(c) /\ Owed(c)' = Owed(c)

Maps == [Session!Next]_(Session!sessionVars)

\* A step that changes neither the wire, nor a client's end, nor what is
\* taken or owed is a stutter of the session.
LEMMA StutterMaps == ASSUME Stutters PROVE Maps
BY DEF Stutters, Maps, Taken, Session!sessionVars

\* The session starts where the server starts.
LEMMA InitMaps == Init => Session!Init
<1> SUFFICES ASSUME Init PROVE Session!Init
  OBVIOUS
<1>1. ASSUME NEW c \in Conns PROVE Owed(c) = <<>> /\ InHand(c) = 0
  <2>1. Responses(c) = {}
    BY DEF Init, Responses
  <2>2. {w \in Workers : wpc[w] = "handle" /\ ConnOf(wdata[w]) = c} = {}
    BY DEF Init
  <2>3. QED
    BY <2>1, <2>2 DEF Owed, InHand
<1>2. \A c \in Conns : sent[c] - Len(inbox[c]) - InHand(c) = 0
  BY <1>1 DEF Init
<1>3. QED
  BY <1>1, <1>2 DEF Init, Session!Init

-----------------------------------------------------------------------------
(* Who can hold a response of a connection, and what is in hand.            *)

\* A registered EventData is that of an open connection.
LEMMA RegConn ==
    ASSUME TypeOK, OwnerInv, ConnInv, NEW w \in Workers, NEW a, HasReg(w, a)
    PROVE  /\ a \in live /\ a \in Addrs /\ heap[a] \in EventData
           /\ heap[a].fd \in Fds /\ Open(heap[a].fd)
           /\ ConnOf(a) \in Conns /\ peer[ConnOf(a)] \in Present
BY DEF HasReg, OwnerInv, RegsInv, ConnInv, ConnOf, Open, TypeOK, MemTypeOK, Registration

\* So is one a worker is to close.
LEMMA CloseConn ==
    ASSUME TypeOK, OwnerInv, ConnInv, NEW w \in Workers,
           wpc[w] \in {"handle", "ctl", "del", "close"}
    PROVE  /\ wdata[w] \in live /\ wdata[w] \in Addrs /\ heap[wdata[w]] \in EventData
           /\ heap[wdata[w]].fd \in Fds /\ Open(heap[wdata[w]].fd)
           /\ ConnOf(wdata[w]) \in Conns /\ peer[ConnOf(wdata[w])] \in Present
BY HeldLive DEF ConnInv, ConnOf, Open, TypeOK, MemTypeOK

\* Two workers work on different EventData of different connections.
LEMMA Apart ==
    ASSUME TypeOK, OwnerInv, ConnInv, NEW w \in Workers, NEW v \in Workers, v # w,
           NEW a, NEW b, HasReg(w, a), HasReg(v, b) \/ (wpc[v] = "close" /\ b = wdata[v])
    PROVE  a # b /\ ConnOf(a) # ConnOf(b)
<1>1. heap[a].fd \in Fds /\ Open(heap[a].fd)
  BY RegConn
<1>2. PICK r \in regs : r.ep = w /\ r.data = a /\ r.fd = heap[a].fd
  BY DEF HasReg, OwnerInv, RegsInv
<1>3. CASE HasReg(v, b)
  <2>1. PICK q \in regs : q.ep = v /\ q.data = b /\ q.fd = heap[b].fd
    BY <1>3 DEF HasReg, OwnerInv, RegsInv
  <2>2. heap[a].fd # heap[b].fd
    BY <1>2, <2>1 DEF OwnerInv, RegsInv
  <2>3. heap[b].fd \in Fds
    BY <1>3, RegConn
  <2>4. QED
    BY <1>1, <2>2, <2>3 DEF ConnInv, ConnOf
<1>4. CASE wpc[v] = "close" /\ b = wdata[v]
  <2>1. heap[b].fd \in Fds /\ NoRegFd(heap[b].fd)
    BY <1>4 DEF OwnerInv, WorkerInv, WorkerOK
  <2>2. heap[a].fd # heap[b].fd
    BY <1>2, <2>1 DEF NoRegFd
  <2>3. QED
    BY <1>1, <2>1, <2>2 DEF ConnInv, ConnOf
<1>5. QED
  BY <1>3, <1>4

\* The only response a connection can have, when the worker at work on it
\* has none to register, is in the EventData that worker has.
LEMMA RespOnly ==
    ASSUME TypeOK, OwnerInv, LeakInv, ConnInv, LenInv, Up, NEW w \in Workers, NEW x,
           \/ wpc[w] \in {"next", "handle"} /\ HasReg(w, x)
           \/ wpc[w] = "close" /\ x = wdata[w]
    PROVE  Responses(ConnOf(x)) \subseteq {x}
<1> SUFFICES ASSUME NEW a \in Responses(ConnOf(x)) PROVE a = x
  OBVIOUS
<1> DEFINE f == heap[x].fd
<1>1. f \in Fds /\ Open(f)
  BY RegConn, CloseConn
<1>2. /\ a \in live /\ a \in Addrs /\ a # None /\ heap[a].length > 0 /\ ~Finished(a)
      /\ heap[a].fd \in Fds /\ ConnOf(a) = ConnOf(x)
  BY NoneAssumption DEF Responses, ConnInv, TypeOK, MemTypeOK
<1>3. heap[a].fd = f
  BY <1>1, <1>2 DEF ConnInv, ConnOf
<1>4. Held(a)
  BY <1>2 DEF LeakInv, OwnerInv, PcInv
<1>5. \A r \in regs : r.fd = f => r.data = x /\ wpc[w] # "close" /\ r.ep = w
  BY DEF OwnerInv, RegsInv, WorkerInv, WorkerOK, HasReg, NoRegFd
<1>6. CASE \E r \in regs : r.data = a
  BY <1>3, <1>5, <1>6 DEF OwnerInv, RegsInv
<1>7. CASE a = ldata
  BY <1>2, <1>7 DEF LenInv
<1>8. ASSUME NEW v \in Workers, wdata[v] = a PROVE a = x
  <2>1. CASE wpc[v] \in {"handle", "ctl", "del"}
    BY <1>6, <1>8, <2>1 DEF OwnerInv, WorkerInv, WorkerOK, HasReg
  <2>2. CASE wpc[v] = "close"
    <3>1. HoldsFd(v, f) /\ NoRegFd(f)
      BY <1>3, <1>8, <2>2 DEF HoldsFd, OwnerInv, WorkerInv, WorkerOK
    <3>2. ~HasReg(w, x)
      BY <3>1 DEF HasReg, NoRegFd, OwnerInv, RegsInv
    <3>3. HoldsFd(w, f)
      BY <3>2 DEF HoldsFd
    <3>4. QED
      BY <1>1, <1>8, <3>1, <3>2, <3>3 DEF OwnerInv, PrivateInv
  <2>3. CASE wpc[v] = "free"
    BY <1>2, <1>8, <2>3 DEF Finished
  <2>4. QED
    BY <1>2, <1>8, <2>1, <2>2, <2>3 DEF OwnerInv, WorkerInv, WorkerOK
<1>9. ASSUME NEW v \in Workers, ctl[v].data = a PROVE a = x
  <2>1. wpc[v] = "ctl" /\ heap[wdata[v]].fd = f /\ HasReg(v, wdata[v])
    BY <1>2, <1>3, <1>9 DEF OwnerInv, WorkerInv, WorkerOK
  <2>2. v = w /\ wpc[w] # "close"
    BY <1>5, <2>1 DEF HasReg, OwnerInv, RegsInv
  <2>3. QED
    BY <2>1, <2>2
<1>10. QED
  BY <1>4, <1>6, <1>7, <1>8, <1>9 DEF Held

\* What is owed depends on the responses of the connection only.
LEMMA OwedFrame ==
    ASSUME NEW c, Responses(c)' = Responses(c),
           \A a \in Responses(c) : heap'[a] = heap[a]
    PROVE  Owed(c)' = Owed(c)
<1>1. CASE Responses(c) = {}
  BY <1>1 DEF Owed
<1>2. CASE Responses(c) # {}
  <2> DEFINE a == CHOOSE a \in Responses(c) : TRUE
  <2>1. a \in Responses(c) /\ a' = a
    BY <1>2
  <2>2. heap'[a] = heap[a]
    BY <2>1
  <2>3. Owed(c) = Bytes(heap[a], heap[a].length)
    BY <1>2 DEF Owed
  <2>4. Owed(c)' = Bytes(heap[a], heap[a].length)
    BY <1>2, <2>1, <2>2 DEF Owed, Bytes
  <2>5. QED
    BY <2>3, <2>4
<1>3. QED
  BY <1>1, <1>2

Handles(w, c) == wpc[w] = "handle" /\ ConnOf(wdata[w]) = c

\* What is in hand depends on the workers at work on the connection only.
LEMMA InHandFrame ==
    ASSUME NEW c, \A w \in Workers : Handles(w, c)' <=> Handles(w, c),
           \A w \in Workers : Handles(w, c) => heap'[wdata'[w]] = heap[wdata[w]]
    PROVE  InHand(c)' = InHand(c)
<1> DEFINE W == {w \in Workers : wpc[w] = "handle" /\ ConnOf(wdata[w]) = c}
<1>1. W' = W
  BY DEF Handles
<1>2. CASE W = {}
  BY <1>1, <1>2 DEF InHand
<1>3. CASE W # {}
  <2> DEFINE w == CHOOSE w \in W : TRUE
  <2>1. w \in W /\ w' = w
    BY <1>1, <1>3
  <2>2. heap'[wdata'[w]] = heap[wdata[w]]
    BY <2>1 DEF Handles
  <2>3. InHand(c) = Len(heap[wdata[w]].buffer)
    BY <1>3 DEF InHand
  <2>4. InHand(c)' = Len(heap'[wdata'[w]].buffer)
    BY <1>1, <1>3, <2>1 DEF InHand
  <2>5. QED
    BY <2>2, <2>3, <2>4
<1>4. QED
  BY <1>2, <1>3

\* Nothing is in hand of a connection no worker is at work on.
LEMMA InHandNone ==
    ASSUME NEW c, \A w \in Workers : ~Handles(w, c) PROVE InHand(c) = 0
<1>1. {w \in Workers : wpc[w] = "handle" /\ ConnOf(wdata[w]) = c} = {}
  BY DEF Handles
<1>2. QED
  BY <1>1 DEF InHand

\* What one worker alone has received is all that is in hand.
LEMMA InHandOne ==
    ASSUME NEW c, NEW w \in Workers, Handles(w, c), \A v \in Workers : Handles(v, c) => v = w
    PROVE  InHand(c) = Len(heap[wdata[w]].buffer)
<1>1. {v \in Workers : wpc[v] = "handle" /\ ConnOf(wdata[v]) = c} = {w}
  BY DEF Handles
<1>2. QED
  BY <1>1 DEF InHand
-----------------------------------------------------------------------------
(* Steps that touch neither a connection nor an EventData.                  *)
Idle == {"none", "check", "poll", "next", "done"}

\* Such a step keeps SInv and is a stutter of the session, whatever it does to
\* the epoll sets and to the batches, if what they hold fits the EventData.
LEMMA Quiet ==
    ASSUME TypeOK, OwnerInv, SInv,
           UNCHANGED <<wdata, ctl, memVars, fdtab, netVars>>,
           \A w \in Workers : \/ wpc'[w] = wpc[w]
                              \/ wpc[w] \in Idle /\ wpc'[w] \in Idle
                              \/ wpc[w] = "del" /\ wpc'[w] = "close",
           ldata' \in {ldata, None},
           \A r \in regs' : r \in regs \/ Sends(r.events, r.data),
           \A w \in Workers : \A e \in batch'[w] : e \in batch[w] \/ Reported(e)
    PROVE  SInv' /\ Stutters
<1> USE DEF SInv, memVars, netVars
<1>1. ConnInv'
  BY DEF ConnInv, Open, Served
<1>2. SegInv'
  BY DEF SegInv
<1>3. HandInv'
  BY DEF HandInv, HandOK, ConnOf, Idle
<1>4. LenInv'
  <2>1. \A r \in regs' : Sends(r.events, r.data)'
    BY DEF LenInv, Sends
  <2>2. \A w \in Workers : \A e \in batch'[w] : Reported(e)'
    BY DEF LenInv, Reported, Sends, ConnOf
  <2>3. \A w \in Workers : wpc'[w] = "ctl" => Sends(ctl[w].events, ctl[w].data)'
    BY DEF LenInv, Sends, Idle
  <2>4. ldata' # None => heap'[ldata'].length = 0
    BY DEF LenInv
  <2>5. QED
    BY <2>1, <2>2, <2>3, <2>4 DEF LenInv
<1>5. HangInv'
  BY DEF HangInv, HangOK, ConnOf, Idle
<1>6. Stutters
  <2>1. \A a : Finished(a)' <=> Finished(a)
    BY DEF Finished, Idle
  <2>2. \A c : Responses(c)' = Responses(c)
    BY <2>1 DEF Responses, ConnOf
  <2>3. \A c : Owed(c)' = Owed(c)
    BY <2>2, OwedFrame
  <2>4. \A c : \A w \in Workers : Handles(w, c)' <=> Handles(w, c)
    BY DEF Handles, ConnOf, Idle
  <2>5. \A c : InHand(c)' = InHand(c)
    BY <2>4, InHandFrame
  <2>6. QED
    BY <2>3, <2>5 DEF Stutters, Taken
<1>7. QED
  BY <1>1, <1>2, <1>3, <1>4, <1>5, <1>6

\* The main thread, whose last steps close epoll sets that no thread uses.
LEMMA MainMaps ==
    ASSUME IInv, SInv, MainStep \/ Stop \/ StartFails PROVE SInv' /\ Maps
<1> USE DEF lisVars, wkVars, kernVars, IInv
<1>1. CASE \E w \in Workers : SpawnWorker(w)
  <2>1. PICK u \in Workers : SpawnWorker(u)
    BY <1>1
  <2>2. \A w \in Workers : wpc'[w] = wpc[w] \/ (wpc[w] \in Idle /\ wpc'[w] \in Idle)
    BY <2>1 DEF SpawnWorker, Idle, TypeOK, PcTypeOK
  <2>3. UNCHANGED <<wdata, ctl, batch, memVars, kernVars, netVars, lisVars>>
    BY <2>1 DEF SpawnWorker
  <2>4. QED
    BY <2>2, <2>3, Quiet, StutterMaps
<1>2. CASE ~\E w \in Workers : SpawnWorker(w)
  <2>1. /\ UNCHANGED <<wkVars, memVars, fdtab, netVars, ldata>>
        /\ regs' \subseteq regs
    BY <1>2 DEF MainStep, StartFails, BindAndListen, SetUpEpoll, SetRunning,
       SpawnListener, Stop, JoinListener, JoinWorkers, CloseEpolls, CloseSock
  <2>2. QED
    BY <2>1, Quiet, StutterMaps
<1>3. QED
  BY <1>1, <1>2

\* What epoll_wait reports fits the EventData it leads to.
LEMMA ReadyReported ==
    ASSUME TypeOK, OwnerInv, LenInv, NEW r \in regs, NEW e \in Ready(r) PROVE Reported(e)
<1>1. /\ e.data = r.data /\ heap[r.data].fd = r.fd /\ r.events \in {"IN", "OUT"}
      /\ Sends(r.events, r.data)
  BY DEF Ready, OwnerInv, RegsInv, LenInv, TypeOK, MemTypeOK, Registration
<1>2. e.events = r.events \/ (e.events = "ERR" /\ peer[fdtab[r.fd]] = "rst")
  BY DEF Ready
<1>3. QED
  BY <1>1, <1>2 DEF Reported, ConnOf

\* The worker's loop outside the handling of an event, and EPOLL_CTL_DEL.
LEMMA LoopMaps ==
    ASSUME IInv, SInv, NEW u \in Workers,
           WorkerCheck(u) \/ EpollWait(u) \/ BatchDone(u) \/ WorkerDel(u)
    PROVE  SInv' /\ Maps
<1> USE DEF lisVars, wkVars, kernVars, IInv
<1>1. CASE WorkerCheck(u) \/ BatchDone(u)
  <2>1. UNCHANGED <<wdata, ctl, batch, memVars, kernVars, netVars, lisVars>>
    BY <1>1 DEF WorkerCheck, BatchDone
  <2>2. \A w \in Workers : wpc'[w] = wpc[w] \/ (wpc[w] \in Idle /\ wpc'[w] \in Idle)
    BY <1>1 DEF WorkerCheck, BatchDone, Idle, TypeOK, PcTypeOK
  <2>3. QED
    BY <2>1, <2>2, Quiet, StutterMaps
<1>2. CASE EpollWait(u)
  <2>1. PICK B \in SUBSET ReadyEvents(u) :
           /\ batch' = [batch EXCEPT ![u] = B]
           /\ wpc' = [wpc EXCEPT ![u] = IF B = {} THEN "check" ELSE "next"]
    BY <1>2 DEF EpollWait
  <2>2. UNCHANGED <<wdata, ctl, memVars, kernVars, netVars, lisVars>> /\ wpc[u] = "poll"
    BY <1>2 DEF EpollWait
  <2>3. \A w \in Workers : wpc'[w] = wpc[w] \/ (wpc[w] \in Idle /\ wpc'[w] \in Idle)
    BY <2>1, <2>2 DEF Idle, TypeOK, PcTypeOK
  <2>4. \A e \in B : Reported(e)
    BY ReadyReported DEF ReadyEvents, SInv
  <2>5. \A w \in Workers : \A e \in batch'[w] : e \in batch[w] \/ Reported(e)
    BY <2>1, <2>4 DEF TypeOK, PcTypeOK
  <2>6. QED
    BY <2>2, <2>3, <2>5, Quiet, StutterMaps
<1>3. CASE WorkerDel(u)
  <2>1. UNCHANGED <<wdata, ctl, batch, memVars, fdtab, netVars, lisVars>> /\ wpc[u] = "del"
    BY <1>3 DEF WorkerDel
  <2>2. regs' \subseteq regs
    BY <1>3 DEF WorkerDel, control_epoll_event, Without
  <2>3. \A w \in Workers : wpc'[w] = wpc[w] \/ (wpc[w] = "del" /\ wpc'[w] = "close")
    BY <1>3 DEF WorkerDel, TypeOK, PcTypeOK
  <2>4. QED
    BY <2>1, <2>2, <2>3, Quiet, StutterMaps
<1>4. QED
  BY <1>1, <1>2, <1>3

\* A new connection comes in through a descriptor nothing refers to any more:
\* an EventData that still names it only waits to be deleted.
LEMMA AcceptMaps ==
    ASSUME IInv, LeakInv, SInv, NEW f \in Fds, NEW a \in Addrs, Accept(f, a)
    PROVE  SInv' /\ Maps
<1> USE DEF IInv, SInv
<1> DEFINE h == Head(backlog)
<1>1. /\ Up /\ lpc = "accept" /\ backlog # <<>> /\ ~Open(f) /\ a \in Addrs /\ a \notin live
      /\ ldata' = a /\ live' = live \cup {a}
      /\ heap' = [heap EXCEPT ![a] = NewEventData(f)]
      /\ fdtab' = [fdtab EXCEPT ![f] = h] /\ backlog' = Tail(backlog)
      /\ UNCHANGED <<wkVars, regs, peer, inbox, wire, nread, sent>>
  BY DEF Accept, FreeAddrs, Put
<1>2. /\ \A b \in live : b # a /\ b \in Addrs /\ heap'[b] = heap[b]
      /\ heap'[a] = NewEventData(f)
      /\ heap'[a].fd = f /\ heap'[a].length = 0
      /\ fdtab'[f] = h
      /\ \A g \in Fds : g # f => fdtab'[g] = fdtab[g]
      /\ fdtab[f] = None
  BY <1>1 DEF TypeOK, MemTypeOK, NewEventData, Open
<1>3. /\ h = backlog[1] /\ 1 \in 1 .. Len(backlog) /\ h \in Conns /\ h # None
      /\ peer[h] \in Present /\ ~Served(h)
      /\ Len(backlog') = Len(backlog) - 1 /\ Len(backlog) \in Nat
      /\ \A i \in 1 .. Len(backlog') : backlog'[i] = backlog[i + 1]
  BY <1>1, HeadTailProperties, LenProperties, ElementOfSeq, NoneAssumption
     DEF TypeOK, NetTypeOK, ConnInv
<1>4. \A w \in Workers : \A b : HasReg(w, b) =>
          b \in live /\ heap[b].fd # f /\ heap[b].fd \in Fds
  BY <1>1, RegConn
<1>5. \A w \in Workers : wpc[w] \in {"handle", "ctl", "del", "close"} =>
          wdata[w] \in live /\ heap[wdata[w]].fd # f /\ heap[wdata[w]].fd \in Fds
  BY <1>1, CloseConn
<1>6. \A b \in live : heap[b].fd = f => Finished(b)
  <2> SUFFICES ASSUME NEW b \in live, heap[b].fd = f PROVE Finished(b)
    OBVIOUS
  <2>1. b \in Addrs /\ b # None /\ Held(b)
    BY <1>1, NoneAssumption DEF LeakInv, OwnerInv, PcInv, TypeOK, MemTypeOK
  <2>2. ~\E r \in regs : r.data = b
    BY <1>1 DEF OwnerInv, RegsInv
  <2>3. b # ldata
    BY <1>1, <2>1 DEF OwnerInv, ListenerInv
  <2>4. PICK w \in Workers : wdata[w] = b \/ ctl[w].data = b
    BY <2>1, <2>2, <2>3 DEF Held
  <2>5. CASE wdata[w] = b
    BY <1>5, <2>1, <2>5 DEF Finished, OwnerInv, WorkerInv, WorkerOK
  <2>6. CASE ctl[w].data = b
    <3>1. wpc[w] = "ctl" /\ heap[b].fd = heap[wdata[w]].fd
      BY <2>1, <2>6 DEF OwnerInv, WorkerInv, WorkerOK
    <3>2. QED
      BY <1>5, <3>1
  <2>7. QED
    BY <2>4, <2>5, <2>6
<1>7. ConnInv'
  <2>1. \A b \in live' : heap'[b].fd \in Fds
    BY <1>1, <1>2 DEF ConnInv
  <2>2. \A g, k \in Fds : Open(g)' /\ fdtab'[g] = fdtab'[k] => g = k
    BY <1>2, <1>3 DEF ConnInv, Open, Served
  <2>3. \A g \in Fds : Open(g)' => peer'[fdtab'[g]] \in Present
    BY <1>1, <1>2, <1>3 DEF ConnInv, Open
  <2>4. \A i \in 1 .. Len(backlog') : i + 1 \in 1 .. Len(backlog) /\ i + 1 # 1
    BY <1>3
  <2>5. \A i \in 1 .. Len(backlog') : peer'[backlog'[i]] \in Present /\ ~Served(backlog[i])'
    <3> SUFFICES ASSUME NEW i \in 1 .. Len(backlog')
                 PROVE  peer'[backlog'[i]] \in Present /\ ~Served(backlog[i])'
      OBVIOUS
    <3>1. backlog'[i] = backlog[i + 1] /\ i + 1 \in 1 .. Len(backlog) /\ i + 1 # 1
      BY <1>3, <2>4
    <3>2. backlog[i + 1] # h
      BY <1>3, <3>1 DEF ConnInv
    <3>3. peer[backlog[i + 1]] \in Present /\ ~Served(backlog[i + 1])
      BY <3>1 DEF ConnInv
    <3>4. QED
      BY <1>1, <1>2, <3>1, <3>2, <3>3 DEF Served
  <2>6. \A i, j \in 1 .. Len(backlog') : backlog'[i] = backlog'[j] => i = j
    BY <1>3, <2>4 DEF ConnInv
  <2>7. QED
    BY <2>1, <2>2, <2>3, <2>5, <2>6 DEF ConnInv
<1>8. SegInv'
  BY <1>1 DEF SegInv
<1>9. HandInv'
  <2> SUFFICES ASSUME NEW w \in Workers, wpc'[w] = "handle" PROVE HandOK(w)'
    BY DEF HandInv
  <2>1. HandOK(w) /\ wdata' = wdata
    BY <1>1 DEF HandInv, wkVars
  <2>2. heap'[wdata[w]] = heap[wdata[w]] /\ fdtab'[heap[wdata[w]].fd] = fdtab[heap[wdata[w]].fd]
    BY <1>1, <1>2, <1>5 DEF wkVars
  <2>3. QED
    BY <1>1, <2>1, <2>2 DEF HandOK, ConnOf
<1>10. LenInv'
  <2>1. \A r \in regs' : Sends(r.events, r.data)'
    BY <1>1, <1>2 DEF LenInv, Sends, OwnerInv, RegsInv
  <2>2. \A w \in Workers : \A e \in batch'[w] : Reported(e)'
    BY <1>1, <1>2, <1>4 DEF LenInv, Reported, Sends, ConnOf, wkVars, OwnerInv, BatchInv, BatchOK
  <2>3. \A w \in Workers : wpc'[w] = "ctl" => Sends(ctl[w].events, ctl[w].data)'
    BY <1>1, <1>2, HeldLive DEF LenInv, Sends, wkVars
  <2>4. QED
    BY <1>1, <1>2, <2>1, <2>2, <2>3 DEF LenInv
<1>11. HangInv'
  BY <1>1, <1>2, <1>5 DEF HangInv, HangOK, ConnOf, wkVars
<1>12. Stutters
  <2>1. \A b : Finished(b)' <=> Finished(b)
    BY <1>1 DEF Finished, wkVars
  <2>2. ASSUME NEW c \in Conns PROVE Responses(c)' = Responses(c)
    <3>1. \A b \in live : heap[b].fd # f => ConnOf(b)' = ConnOf(b)
      BY <1>2 DEF ConnOf, ConnInv
    <3>2. \A b \in live : heap[b].fd = f => b \notin Responses(c) /\ b \notin Responses(c)'
      BY <1>6, <2>1 DEF Responses
    <3>3. a \notin Responses(c)' /\ a \notin Responses(c)
      BY <1>1, <1>2 DEF Responses
    <3>4. \A b \in live : b \in Responses(c)' <=> b \in Responses(c)
      BY <1>1, <1>2, <2>1, <3>1, <3>2 DEF Responses
    <3>5. \A b : b \in Responses(c)' \/ b \in Responses(c) => b \in live \/ b = a
      BY <1>1 DEF Responses
    <3>6. QED
      BY <3>3, <3>4, <3>5
  <2>3. \A c \in Conns : Owed(c)' = Owed(c)
    <3>1. \A c \in Conns : \A b \in Responses(c) : heap'[b] = heap[b]
      BY <1>2 DEF Responses
    <3>2. QED
      BY <2>2, <3>1, OwedFrame
  <2>4. \A c \in Conns : InHand(c)' = InHand(c)
    <3>1. \A c : \A w \in Workers : Handles(w, c)' <=> Handles(w, c)
      BY <1>1, <1>2, <1>5 DEF Handles, ConnOf, wkVars
    <3>2. \A c : \A w \in Workers : Handles(w, c) => heap'[wdata'[w]] = heap[wdata[w]]
      BY <1>1, <1>2, <1>5 DEF Handles, wkVars
    <3>3. QED
      BY <3>1, <3>2, InHandFrame
  <2>5. QED
    BY <1>1, <2>3, <2>4 DEF Stutters, Taken
<1>13. QED
  BY <1>7, <1>8, <1>9, <1>10, <1>11, <1>12, StutterMaps

\* The listener.
LEMMA ListenMaps ==
    ASSUME IInv, LeakInv, SInv, ListenerStep PROVE SInv' /\ Maps
<1> USE DEF lisVars, wkVars, kernVars, IInv
<1>1. CASE ListenCheck \/ AcceptNone
  <2>1. UNCHANGED <<wkVars, memVars, kernVars, netVars, ldata>>
    BY <1>1 DEF ListenCheck, AcceptNone
  <2>2. QED
    BY <2>1, Quiet, StutterMaps
<1>2. CASE ListenAdd
  <2>1. UNCHANGED <<wkVars, memVars, fdtab, netVars>> /\ ldata' = None /\ lpc = "add"
    BY <1>2 DEF ListenAdd
  <2>2. \A r \in regs' : r \in regs \/ (r.events = "IN" /\ r.data = ldata)
    BY <1>2 DEF ListenAdd, control_epoll_event, Without
  <2>3. Sends("IN", ldata)
    <3>1. ldata # None
      BY <2>1, HeldLive, PoolAssumption, NoneAssumption DEF Workers
    <3>2. QED
      BY <3>1 DEF SInv, LenInv, Sends
  <2>4. \A r \in regs' : r \in regs \/ Sends(r.events, r.data)
    BY <2>2, <2>3
  <2>5. QED
    BY <2>1, <2>4, Quiet, StutterMaps
<1>3. QED
  BY <1>1, <1>2, AcceptMaps DEF ListenerStep
-----------------------------------------------------------------------------
(* Steps of a worker that has an event in hand.                             *)

\* Two registered EventData are of different connections.
LEMMA RegsApart ==
    ASSUME TypeOK, OwnerInv, ConnInv, NEW w \in Workers, NEW v \in Workers,
           NEW a, NEW b, HasReg(w, a), HasReg(v, b), a # b
    PROVE  ConnOf(a) # ConnOf(b)
<1>1. heap[a].fd \in Fds /\ Open(heap[a].fd) /\ heap[b].fd \in Fds
  BY RegConn
<1>2. heap[a].fd # heap[b].fd
  BY DEF HasReg, OwnerInv, RegsInv
<1>3. QED
  BY <1>1, <1>2 DEF ConnInv, ConnOf

\* What the others hold while worker w is at work on x: other EventData, of
\* other connections.
LEMMA Others ==
    ASSUME TypeOK, OwnerInv, ConnInv, NEW w \in Workers, NEW x, HasReg(w, x),
           wpc[w] = "next" \/ wdata[w] = x
    PROVE  /\ \A v \in Workers : v # w /\ wpc[v] \in {"handle", "ctl", "del", "close"} =>
                 wdata[v] # x /\ ConnOf(wdata[v]) # ConnOf(x)
           /\ \A v \in Workers : v # w /\ wpc[v] = "free" => wdata[v] # x
           /\ \A v \in Workers : v # w /\ wpc[v] = "ctl" => ctl[v].data # x
           /\ \A v \in Workers : \A e \in batch[v] :
                 e.data # x => ConnOf(e.data) # ConnOf(x)
           /\ \A v \in Workers : \A e \in batch[v] : v # w => e.data # x
           /\ \A r \in regs : r.data # x => ConnOf(r.data) # ConnOf(x)
<1>1. ASSUME NEW v \in Workers, v # w, wpc[v] \in {"handle", "ctl", "del", "close"}
      PROVE  wdata[v] # x /\ ConnOf(wdata[v]) # ConnOf(x)
  BY <1>1, Apart DEF OwnerInv, WorkerInv, WorkerOK
<1>2. ASSUME NEW v \in Workers, v # w, wpc[v] = "free" PROVE wdata[v] # x
  BY <1>2 DEF OwnerInv, WorkerInv, WorkerOK, HasReg, NoReg
<1>3. ASSUME NEW v \in Workers, v # w, wpc[v] = "ctl" PROVE ctl[v].data # x
  <2>1. CASE ctl[v].data = wdata[v]
    BY <1>1, <1>3, <2>1
  <2>2. CASE NoReg(ctl[v].data)
    BY <2>2 DEF HasReg, NoReg
  <2>3. QED
    BY <1>3, <2>1, <2>2 DEF OwnerInv, WorkerInv, WorkerOK
<1>4. ASSUME NEW v \in Workers, NEW e \in batch[v] PROVE HasReg(v, e.data)
  BY DEF OwnerInv, BatchInv, BatchOK
<1>5. ASSUME NEW v \in Workers, NEW e \in batch[v], e.data # x
      PROVE  ConnOf(e.data) # ConnOf(x)
  BY <1>4, <1>5, RegsApart
<1>6. ASSUME NEW v \in Workers, NEW e \in batch[v], v # w PROVE e.data # x
  BY <1>4, <1>6, Apart
<1>7. ASSUME NEW r \in regs, r.data # x PROVE ConnOf(r.data) # ConnOf(x)
  <2>1. HasReg(r.ep, r.data) /\ r.ep \in Workers
    BY DEF HasReg, TypeOK, MemTypeOK, Registration
  <2>2. QED
    BY <1>7, <2>1, RegsApart
<1>8. QED
  BY <1>1, <1>2, <1>3, <1>5, <1>6, <1>7

\* An event that is put off or answered by hanging up: the EventData stays as
\* it is.
LEMMA TakeQuiet ==
    ASSUME TypeOK, OwnerInv, SInv, NEW w \in Workers, NEW e \in batch[w],
           NEW pc \in {"ctl", "del"}, Take(w, e, pc),
           pc = "del" => UNCHANGED ctl /\ \/ peer[ConnOf(e.data)] = "rst"
                                          \/ /\ peer[ConnOf(e.data)] = "fin"
                                             /\ heap[e.data].length = 0,
           pc = "ctl" => \E op \in {"MOD", "ADD"}, ev \in {"IN", "OUT"} :
                            Prepare(w, op, ev, e.data) /\ Sends(ev, e.data),
           UNCHANGED <<lisVars, memVars, kernVars, netVars>>
    PROVE  SInv' /\ Stutters
<1> USE DEF SInv, lisVars, memVars, kernVars, netVars
<1>1. /\ wpc[w] = "next" /\ wdata[w] = None /\ ctl[w].data = None /\ e.data \in Addrs
      /\ wpc'[w] = pc /\ wdata'[w] = e.data /\ batch'[w] \subseteq batch[w]
      /\ \A v \in Workers : v # w => /\ wpc'[v] = wpc[v] /\ wdata'[v] = wdata[v]
                                    /\ batch'[v] = batch[v] /\ ctl'[v] = ctl[v]
  BY TakeFacts DEF TypeOK, PcTypeOK, Prepare
<1>2. pc = "ctl" => ctl'[w].data = e.data /\ Sends(ctl'[w].events, e.data)
  BY DEF Prepare, TypeOK, PcTypeOK
<1>3. ConnInv' /\ SegInv'
  BY DEF ConnInv, SegInv, Open, Served
<1>4. HandInv'
  <2> SUFFICES ASSUME NEW v \in Workers, wpc'[v] = "handle" PROVE HandOK(v)'
    BY DEF HandInv
  <2>1. HandOK(v) /\ wdata'[v] = wdata[v]
    BY <1>1 DEF HandInv
  <2>2. QED
    BY <2>1 DEF HandOK, ConnOf
<1>5. LenInv'
  <2>1. \A r \in regs' : Sends(r.events, r.data)'
    BY DEF LenInv, Sends
  <2>2. \A v \in Workers : \A g \in batch'[v] : Reported(g)'
    BY <1>1 DEF LenInv, Reported, Sends, ConnOf
  <2>3. \A v \in Workers : wpc'[v] = "ctl" => Sends(ctl[v].events, ctl[v].data)'
    BY <1>1, <1>2 DEF LenInv, Sends
  <2>4. QED
    BY <2>1, <2>2, <2>3 DEF LenInv
<1>6. HangInv'
  BY <1>1 DEF HangInv, HangOK, ConnOf
<1>7. Stutters
  <2>1. \A a : Finished(a)' <=> Finished(a)
    BY <1>1, <1>2 DEF Finished
  <2>2. \A c : Responses(c)' = Responses(c)
    BY <2>1 DEF Responses, ConnOf
  <2>3. \A c : Owed(c)' = Owed(c)
    BY <2>2, OwedFrame
  <2>4. \A c : \A v \in Workers : Handles(v, c)' <=> Handles(v, c)
    BY <1>1 DEF Handles, ConnOf
  <2>5. \A c : \A v \in Workers : Handles(v, c) => wdata'[v] = wdata[v]
    BY <1>1 DEF Handles
  <2>6. \A c : InHand(c)' = InHand(c)
    BY <2>4, <2>5, InHandFrame
  <2>7. QED
    BY <2>3, <2>6 DEF Stutters, Taken
<1>8. QED
  BY <1>3, <1>4, <1>5, <1>6, <1>7

\* Errors, the end of the stream, and the calls that report EAGAIN.
LEMMA TakeMaps ==
    ASSUME IInv, SInv, NEW w \in Workers, NEW e \in batch[w],
           \/ TakeError(w, e) \/ RecvEnd(w, e) \/ RecvAgain(w, e)
           \/ SendAgain(w, e) \/ SendError(w, e)
    PROVE  SInv' /\ Maps
<1> USE DEF IInv
<1>1. /\ e.events \in {"IN", "OUT", "ERR"} /\ Reported(e)
      /\ HasReg(w, e.data) /\ heap[e.data].length \in Nat
  <2>1. HasReg(w, e.data)
    BY DEF OwnerInv, BatchInv, BatchOK
  <2>2. heap[e.data] \in EventData
    BY <2>1, RegConn DEF SInv
  <2>3. QED
    BY <2>1, <2>2 DEF SInv, LenInv, TypeOK, PcTypeOK, EventData
<1>2. CASE TakeError(w, e) \/ RecvEnd(w, e) \/ SendError(w, e)
  <2>1. /\ Take(w, e, "del")
        /\ UNCHANGED <<ctl, lisVars, memVars, kernVars, netVars>>
    BY <1>2 DEF TakeError, RecvEnd, SendError
  <2>2. \/ peer[ConnOf(e.data)] = "rst"
        \/ peer[ConnOf(e.data)] = "fin" /\ heap[e.data].length = 0
    BY <1>1, <1>2 DEF TakeError, RecvEnd, SendError, Reported, Sends
  <2>3. QED
    BY <2>1, <2>2, TakeQuiet, StutterMaps
<1>3. CASE RecvAgain(w, e) \/ SendAgain(w, e)
  <2>1. /\ Take(w, e, "ctl")
        /\ UNCHANGED <<lisVars, memVars, kernVars, netVars>>
    BY <1>3 DEF RecvAgain, SendAgain
  <2>2. \E op \in {"MOD", "ADD"}, ev \in {"IN", "OUT"} :
           Prepare(w, op, ev, e.data) /\ Sends(ev, e.data)
    BY <1>1, <1>3 DEF RecvAgain, SendAgain, Reported
  <2>3. QED
    BY <2>1, <2>2, TakeQuiet, StutterMaps
<1>4. QED
  BY <1>2, <1>3
\* A run of segments is a sequence.
LEMMA RunType ==
    ASSUME NEW S, NEW k \in Nat, NEW n \in Nat,
           \A i \in 1 .. n : Session!Segment(k + i) \in S
    PROVE  Run(k, n) \in Seq(S) /\ Len(Run(k, n)) = n
<1>1. Run(k, n) \in [1 .. n -> S]
  BY DEF Run
<1>2. Run(k, n) \in Seq(S)
  BY <1>1, SeqDef
<1>3. QED
  BY <1>1, <1>2, LenProperties

\* A run of n segments has n segments.
LEMMA RunLen == ASSUME NEW k \in Nat, NEW n \in Nat PROVE Len(Run(k, n)) = n
<1> DEFINE S == {Session!Segment(j) : j \in Nat}
<1>1. \A i \in 1 .. n : Session!Segment(k + i) \in S
  OBVIOUS
<1> HIDE DEF S
<1>2. QED
  BY <1>1, RunType

\* The elements of a sequence that is cut in two.
LEMMA CutElements ==
    ASSUME NEW S, NEW s \in Seq(S), NEW n \in Nat, n <= Len(s)
    PROVE  /\ SubSeq(s, 1, n) \in Seq(S) /\ Len(SubSeq(s, 1, n)) = n
           /\ \A i \in 1 .. n : SubSeq(s, 1, n)[i] = s[i]
           /\ SubSeq(s, n + 1, Len(s)) \in Seq(S) /\ Len(SubSeq(s, n + 1, Len(s))) = Len(s) - n
           /\ \A i \in 1 .. Len(s) - n : SubSeq(s, n + 1, Len(s))[i] = s[n + i]
<1>1. PICK l \in Nat : l = Len(s)
  BY LenProperties
<1>2. 1 \in 1 .. l + 1 /\ n \in 1 - 1 .. l /\ n + 1 \in 1 .. l + 1 /\ l \in (n + 1) - 1 .. l
  BY <1>1
<1>3. /\ SubSeq(s, 1, n) \in Seq(S) /\ Len(SubSeq(s, 1, n)) = n - 1 + 1
      /\ \A i \in 1 .. n - 1 + 1 : SubSeq(s, 1, n)[i] = s[1 + i - 1]
  BY <1>1, <1>2, SubSeqProperties
<1>4. /\ SubSeq(s, n + 1, l) \in Seq(S) /\ Len(SubSeq(s, n + 1, l)) = l - (n + 1) + 1
      /\ \A i \in 1 .. l - (n + 1) + 1 : SubSeq(s, n + 1, l)[i] = s[(n + 1) + i - 1]
  BY <1>1, <1>2, SubSeqProperties
<1>5. QED
  BY <1>1, <1>3, <1>4

\* A run of segments, cut in two.
LEMMA RunSplit ==
    ASSUME NEW k \in Nat, NEW m \in Nat, NEW n \in Nat, n <= m
    PROVE  /\ SubSeq(Run(k, m), 1, n) = Run(k, n)
           /\ SubSeq(Run(k, m), n + 1, m) = Run(k + n, m - n)
<1> DEFINE S == {Session!Segment(j) : j \in Nat}
<1>1. ASSUME NEW j \in Nat, NEW l \in Nat
      PROVE  Run(j, l) \in Seq(S) /\ Len(Run(j, l)) = l
  <2>1. \A i \in 1 .. l : Session!Segment(j + i) \in S
    OBVIOUS
  <2> HIDE DEF S
  <2>2. QED
    BY <2>1, RunType
<1>2. /\ Len(SubSeq(Run(k, m), 1, n)) = n
      /\ \A i \in 1 .. n : SubSeq(Run(k, m), 1, n)[i] = Run(k, m)[i]
      /\ SubSeq(Run(k, m), 1, n) \in Seq(S)
  <2> HIDE DEF S
  <2>1. PICK s : s = Run(k, m)
    OBVIOUS
  <2>2. s \in Seq(S) /\ n <= Len(s)
    BY <1>1, <2>1
  <2>3. QED
    BY <2>1, <2>2, CutElements
<1>3. /\ Len(SubSeq(Run(k, m), n + 1, m)) = m - n
      /\ \A i \in 1 .. m - n : SubSeq(Run(k, m), n + 1, m)[i] = Run(k, m)[n + i]
      /\ SubSeq(Run(k, m), n + 1, m) \in Seq(S)
  <2> HIDE DEF S
  <2>1. PICK s : s = Run(k, m)
    OBVIOUS
  <2>2. s \in Seq(S) /\ n <= Len(s) /\ Len(s) = m
    BY <1>1, <2>1
  <2>3. QED
    BY <2>1, <2>2, CutElements
<1> HIDE DEF S
<1>4. SubSeq(Run(k, m), 1, n) = Run(k, n)
  <2>1. \A i \in 1 .. n : Run(k, m)[i] = Run(k, n)[i]
    BY DEF Run
  <2>2. Run(k, n) \in Seq(S) /\ Len(Run(k, n)) = n
    BY <1>1
  <2>3. QED
    BY <1>2, <2>1, <2>2, SeqEqual
<1>5. SubSeq(Run(k, m), n + 1, m) = Run(k + n, m - n)
  <2>1. \A i \in 1 .. m - n : Run(k, m)[n + i] = Run(k + n, m - n)[i]
    BY DEF Run
  <2>2. Run(k + n, m - n) \in Seq(S) /\ Len(Run(k + n, m - n)) = m - n
    BY <1>1
  <2>3. QED
    BY <1>3, <2>1, <2>2, SeqEqual
<1>6. QED
  BY <1>4, <1>5

\* One segment more.
LEMMA RunAppend ==
    ASSUME NEW k \in Nat, NEW n \in Nat
    PROVE  Append(Run(k, n), Session!Segment(k + n + 1)) = Run(k, n + 1)
<1> DEFINE S == {Session!Segment(j) : j \in Nat}
           s == Session!Segment(k + n + 1)
<1>1. ASSUME NEW l \in Nat PROVE Run(k, l) \in Seq(S) /\ Len(Run(k, l)) = l
  <2>1. \A i \in 1 .. l : Session!Segment(k + i) \in S
    OBVIOUS
  <2> HIDE DEF S
  <2>2. QED
    BY <2>1, RunType
<1>2. s \in S
  OBVIOUS
<1> HIDE DEF S, s
<1>3. /\ Append(Run(k, n), s) \in Seq(S)
      /\ Len(Append(Run(k, n), s)) = n + 1
      /\ \A i \in 1 .. n : Append(Run(k, n), s)[i] = Run(k, n)[i]
      /\ Append(Run(k, n), s)[n + 1] = s
  <2>1. PICK r : r = Run(k, n)
    OBVIOUS
  <2>2. r \in Seq(S) /\ Len(r) = n
    BY <1>1, <2>1
  <2>3. QED
    BY <1>2, <2>1, <2>2, AppendProperties
<1>4. \A i \in 1 .. n : Run(k, n)[i] = Run(k, n + 1)[i]
  BY DEF Run
<1>5. Run(k, n + 1)[n + 1] = s
  <2>1. k + (n + 1) = k + n + 1 /\ n + 1 \in 1 .. n + 1
    OBVIOUS
  <2>2. QED
    BY <2>1 DEF Run, s
<1>6. \A i \in 1 .. n + 1 : Append(Run(k, n), s)[i] = Run(k, n + 1)[i]
  BY <1>3, <1>4, <1>5
<1>7. Append(Run(k, n), s) = Run(k, n + 1)
  <2>1. Run(k, n + 1) \in Seq(S) /\ Len(Run(k, n + 1)) = n + 1
    BY <1>1
  <2>2. QED
    BY <1>3, <1>6, <2>1, SeqEqual
<1>8. QED
  BY <1>7 DEF s

\* A recv moves a run of segments from the socket into the worker's hand.
LEMMA RecvMaps ==
    ASSUME IInv, SInv, NEW w \in Workers, NEW e \in batch[w], RecvData(w, e)
    PROVE  SInv' /\ Maps
<1> USE DEF IInv, SInv, lisVars, kernVars
<1>1. PICK x, c, m, n :
         /\ x = e.data /\ c = ConnOf(x) /\ m = Len(inbox[c])
         /\ n = IF m < kMaxBufferSize THEN m ELSE kMaxBufferSize
  OBVIOUS
<1>2. /\ Take(w, e, "handle") /\ e.events = "IN" /\ inbox[c] # <<>>
      /\ heap' = [heap EXCEPT ![x].buffer = SubSeq(inbox[c], 1, n)]
      /\ inbox' = [inbox EXCEPT ![c] = SubSeq(inbox[c], n + 1, m)]
      /\ UNCHANGED <<ldata, ctl, live, regs, fdtab, backlog, peer, wire, nread, sent>>
  BY <1>1 DEF RecvData
<1>3. /\ wpc[w] = "next" /\ wdata[w] = None /\ ctl[w].data = None /\ HasReg(w, x)
      /\ wpc'[w] = "handle" /\ wdata'[w] = x
      /\ \A g \in batch'[w] : g \in batch[w] /\ g.data # x
      /\ \A v \in Workers : v # w => /\ wpc'[v] = wpc[v] /\ wdata'[v] = wdata[v]
                                    /\ batch'[v] = batch[v]
  BY <1>1, <1>2, TakeFacts DEF TypeOK, PcTypeOK
<1>4. /\ x \in live /\ x \in Addrs /\ heap[x] \in EventData /\ heap[x].fd \in Fds
      /\ c \in Conns
  BY <1>1, <1>3, RegConn
<1>5. /\ \A v \in Workers : v # w /\ wpc[v] \in {"handle", "ctl", "del", "close"} =>
               wdata[v] # x /\ ConnOf(wdata[v]) # c
      /\ \A v \in Workers : \A g \in batch[v] : v # w => g.data # x
  BY <1>1, <1>3, Others
<1>6. /\ sent[c] \in Nat /\ m \in Nat /\ n \in Nat /\ m <= sent[c] /\ n \in 1 .. kMaxBufferSize /\ n <= m
      /\ inbox[c] = Run(sent[c] - m, m)
  <2>1. inbox[c] \in Seq(Nat \X Nat) /\ sent[c] \in Nat
    BY <1>4 DEF TypeOK, NetTypeOK
  <2>2. m \in Nat \ {0}
    BY <1>1, <1>2, <2>1, EmptySeq
  <2>3. m <= sent[c] /\ inbox[c] = Run(sent[c] - m, m)
    BY <1>1, <1>4 DEF SegInv
  <2>4. n \in Nat /\ n \in 1 .. kMaxBufferSize /\ n <= m
    BY <1>1, <2>2, BoundsAssumption
  <2>5. QED
    BY <2>1, <2>2, <2>3, <2>4
<1>7. /\ SubSeq(inbox[c], 1, n) = Run(sent[c] - m, n)
      /\ SubSeq(inbox[c], n + 1, m) = Run(sent[c] - m + n, m - n)
      /\ Len(Run(sent[c] - m, n)) = n /\ Len(Run(sent[c] - m + n, m - n)) = m - n
  <2>1. PICK k \in Nat : k = sent[c] - m
    BY <1>6
  <2>2. n \in Nat /\ n <= m
    BY <1>6
  <2>3. m \in Nat
    BY <1>6
  <2>4. SubSeq(Run(k, m), 1, n) = Run(k, n)
    BY <2>2, <2>3, RunSplit
  <2>5. SubSeq(Run(k, m), n + 1, m) = Run(k + n, m - n)
    BY <2>2, <2>3, RunSplit
  <2>6. Len(Run(k, n)) = n /\ Len(Run(k + n, m - n)) = m - n
    <3>1. n \in Nat /\ k + n \in Nat /\ m - n \in Nat
      BY <2>2, <2>3
    <3>2. QED
      BY <3>1, RunLen
  <2>7. QED
    BY <1>6, <2>1, <2>4, <2>5, <2>6
<1>8. /\ \A a \in Addrs : a # x => heap'[a] = heap[a]
      /\ heap'[x].buffer = Run(sent[c] - m, n) /\ heap'[x].length = heap[x].length
      /\ \A a \in Addrs : heap'[a].fd = heap[a].fd /\ heap'[a].length = heap[a].length
  BY <1>2, <1>4, <1>7 DEF TypeOK, MemTypeOK, EventData
<1>9. /\ inbox'[c] = Run(sent[c] - m + n, m - n)
      /\ \A b \in Conns : b # c => inbox'[b] = inbox[b]
  BY <1>2, <1>4, <1>7 DEF TypeOK, NetTypeOK
<1>10. heap[x].length = 0
  <2>1. Reported(e)
    BY DEF LenInv
  <2>2. QED
    BY <1>1, <1>2, <1>4, <2>1 DEF Reported, Sends, EventData
<1>11. \A v \in Workers : wpc[v] \in {"handle", "ctl", "del", "close"} =>
           wdata[v] \in Addrs /\ ConnOf(wdata[v])' = ConnOf(wdata[v])
  <2>1. \A v \in Workers : wpc[v] \in {"handle", "ctl", "del", "close"} => wdata[v] \in Addrs /\ wdata'[v] = wdata[v]
    BY <1>3, CloseConn
  <2>2. QED
    BY <1>2, <1>8, <2>1 DEF ConnOf
<1>12. ConnInv'
  BY <1>2, <1>8 DEF ConnInv, Open, Served, TypeOK, MemTypeOK
<1>13. SegInv'
  <2> SUFFICES ASSUME NEW b \in Conns
               PROVE  /\ Len(inbox'[b]) <= sent'[b]
                      /\ inbox'[b] = Run(sent'[b] - Len(inbox'[b]), Len(inbox'[b]))
    BY DEF SegInv, Run
  <2>1. CASE b # c
    BY <1>2, <1>9, <2>1 DEF SegInv
  <2>2. CASE b = c
    <3>1. Len(inbox'[c]) = m - n
      BY <1>7, <1>9
    <3>2. sent[c] - (m - n) = sent[c] - m + n /\ m - n <= sent[c]
      BY <1>6
    <3>3. QED
      BY <1>2, <1>9, <2>2, <3>1, <3>2
  <2>3. QED
    BY <2>1, <2>2
<1>14. HandInv'
  <2> SUFFICES ASSUME NEW v \in Workers, wpc'[v] = "handle" PROVE HandOK(v)'
    BY DEF HandInv
  <2>1. CASE v # w
    <3>1. HandOK(v) /\ wpc[v] = "handle" /\ wdata'[v] = wdata[v]
      BY <1>3, <2>1 DEF HandInv
    <3>2. heap'[wdata[v]] = heap[wdata[v]] /\ ConnOf(wdata[v]) \in Conns /\ ConnOf(wdata[v]) # c
      BY <1>5, <1>8, <2>1, <3>1, CloseConn
    <3>3. ConnOf(wdata[v])' = ConnOf(wdata[v])
      BY <1>11, <3>1
    <3>4. QED
      BY <1>2, <1>9, <3>1, <3>2, <3>3 DEF HandOK
  <2>2. CASE v = w
    <3>1. ConnOf(wdata[w])' = c
      BY <1>1, <1>2, <1>3, <1>4, <1>8 DEF ConnOf
    <3>2. Len(inbox'[c]) = m - n /\ Len(heap'[x].buffer) = n
      BY <1>7, <1>8, <1>9
    <3>3. /\ m - n + n <= sent[c] /\ sent[c] - (m - n) - n = sent[c] - m
      BY <1>6
    <3>4. PICK d : d = heap'[x]
      OBVIOUS
    <3>5. /\ d.length = 0 /\ Len(d.buffer) \in 1 .. kMaxBufferSize
          /\ Len(inbox'[c]) + Len(d.buffer) <= sent'[c]
          /\ d.buffer = Run(sent'[c] - Len(inbox'[c]) - Len(d.buffer), Len(d.buffer))
      BY <1>2, <1>6, <1>8, <1>10, <3>2, <3>3, <3>4
    <3>6. d = heap'[wdata'[w]]
      BY <1>3, <3>4
    <3>7. QED
      BY <2>2, <3>1, <3>5, <3>6 DEF HandOK, Run
  <2>3. QED
    BY <2>1, <2>2
<1>15. LenInv'
  <2>1. \A ev, a : a \in Addrs => (Sends(ev, a)' <=> Sends(ev, a))
    BY <1>8 DEF Sends
  <2>2. \A r \in regs' : Sends(r.events, r.data)'
    BY <1>2, <2>1 DEF LenInv, TypeOK, MemTypeOK, Registration
  <2>3. \A v \in Workers : \A g \in batch'[v] : Reported(g)'
    <3> SUFFICES ASSUME NEW v \in Workers, NEW g \in batch'[v] PROVE Reported(g)'
      OBVIOUS
    <3>1. g \in batch[v] /\ Reported(g) /\ g.data \in Addrs
      BY <1>3 DEF LenInv, TypeOK, PcTypeOK
    <3>2. QED
      BY <1>2, <1>8, <2>1, <3>1 DEF Reported, ConnOf
  <2>4. \A v \in Workers : wpc'[v] = "ctl" => Sends(ctl[v].events, ctl[v].data)'
    BY <1>2, <1>3, <2>1, HeldLive DEF LenInv
  <2>5. ldata' # None => heap'[ldata'].length = 0
    BY <1>2, <1>8 DEF LenInv, TypeOK, PcTypeOK
  <2>6. QED
    BY <2>2, <2>3, <2>4, <2>5 DEF LenInv
<1>16. HangInv'
  <2> SUFFICES ASSUME NEW v \in Workers, wpc'[v] \in {"del", "close"} PROVE HangOK(v)'
    BY DEF HangInv
  <2>1. v # w /\ wpc[v] \in {"del", "close"} /\ HangOK(v) /\ wdata'[v] = wdata[v]
    BY <1>3 DEF HangInv
  <2>2. heap'[wdata[v]] = heap[wdata[v]] /\ ConnOf(wdata[v])' = ConnOf(wdata[v])
    BY <1>5, <1>8, <1>11, <2>1
  <2>3. QED
    BY <1>2, <2>1, <2>2 DEF HangOK
<1>17. Stutters
  <2>1. \A a : Finished(a)' <=> Finished(a)
    BY <1>2, <1>3 DEF Finished
  <2>2. ASSUME NEW b \in Conns PROVE Owed(b)' = Owed(b)
    <3>1. x \notin Responses(b) /\ x \notin Responses(b)'
      BY <1>8, <1>10 DEF Responses
    <3>2. \A a \in live : a # x => (a \in Responses(b)' <=> a \in Responses(b))
      BY <1>2, <1>8, <2>1 DEF Responses, ConnOf, TypeOK, MemTypeOK
    <3>3. \A a : a \in Responses(b)' \/ a \in Responses(b) => a \in live
      BY <1>2 DEF Responses
    <3>4. Responses(b)' = Responses(b)
      BY <3>1, <3>2, <3>3
    <3>5. \A a \in Responses(b) : heap'[a] = heap[a]
      BY <1>8, <3>1, <3>3 DEF TypeOK, MemTypeOK
    <3>6. QED
      BY <3>4, <3>5, OwedFrame
  <2>3. ASSUME NEW b \in Conns, b # c PROVE Taken(b)' = Taken(b)
    <3>1. \A v \in Workers : Handles(v, b)' <=> Handles(v, b)
      <4> SUFFICES ASSUME NEW v \in Workers PROVE Handles(v, b)' <=> Handles(v, b)
        OBVIOUS
      <4>1. CASE v = w
        <5>1. ConnOf(wdata[w])' = c
          BY <1>1, <1>2, <1>3, <1>4, <1>8 DEF ConnOf
        <5>2. QED
          BY <1>3, <2>3, <4>1, <5>1 DEF Handles
      <4>2. CASE v # w
        BY <1>3, <1>11, <4>2 DEF Handles
      <4>3. QED
        BY <4>1, <4>2
    <3>2. \A v \in Workers : Handles(v, b) => heap'[wdata'[v]] = heap[wdata[v]]
      BY <1>3, <1>5, <1>8, <1>11 DEF Handles
    <3>3. InHand(b)' = InHand(b)
      BY <3>1, <3>2, InHandFrame
    <3>4. QED
      BY <1>2, <1>9, <2>3, <3>3 DEF Taken
  <2>4. Taken(c)' = Taken(c)
    <3>1. \A v \in Workers : ~Handles(v, c)
      BY <1>3, <1>5 DEF Handles
    <3>2. InHand(c) = 0
      BY <3>1, InHandNone
    <3>3. {v \in Workers : wpc'[v] = "handle" /\ ConnOf(wdata[v])' = c} = {w}
      <4>1. ConnOf(wdata[w])' = c
        BY <1>1, <1>2, <1>3, <1>4, <1>8 DEF ConnOf
      <4>2. \A v \in Workers : v # w => ~Handles(v, c)'
        BY <1>3, <1>5, <1>11 DEF Handles
      <4>3. QED
        BY <1>3, <4>1, <4>2 DEF Handles
    <3>4. InHand(c)' = n
      BY <1>3, <1>7, <1>8, <3>3 DEF InHand
    <3>5. Len(inbox'[c]) = m - n
      BY <1>7, <1>9
    <3>6. Taken(c) = sent[c] - m
      BY <1>1, <1>6, <3>2 DEF Taken
    <3>7. Taken(c)' = sent[c] - (m - n) - n
      BY <1>2, <3>4, <3>5 DEF Taken
    <3>8. QED
      BY <1>6, <3>6, <3>7
  <2>5. QED
    BY <1>2, <2>2, <2>3, <2>4 DEF Stutters
<1>18. QED
  BY <1>12, <1>13, <1>14, <1>15, <1>16, <1>17, StutterMaps
-----------------------------------------------------------------------------
(* Sending.                                                                 *)

\* Bytes of a response are a sequence.
LEMMA BytesLen ==
    ASSUME NEW d \in EventData, NEW n \in Nat
    PROVE  /\ Bytes(d, n) \in Seq(Byte) /\ Len(Bytes(d, n)) = n
           /\ \A i \in 1 .. n :
                 Bytes(d, n)[i] = [re |-> d.buffer, at |-> d.cursor + i,
                                   of |-> d.cursor + d.length]
<1>1. Bytes(d, n) \in Seq(Byte)
  BY BytesType
<1>2. DOMAIN Bytes(d, n) = 1 .. n
  BY DEF Bytes
<1>3. Len(Bytes(d, n)) = n
  BY <1>1, <1>2, LenProperties
<1>4. QED
  BY <1>1, <1>3 DEF Bytes

\* The bytes still to send, after the first n are gone: a send that takes part
\* of a response advances the cursor by what it leaves shorter.
LEMMA BytesSplit ==
    ASSUME NEW d \in EventData, NEW l \in Nat, l = d.length, NEW n \in Nat, n <= l,
           NEW g \in EventData, g.buffer = d.buffer, g.cursor = d.cursor + n,
           g.length = l - n
    PROVE  /\ SubSeq(Bytes(d, l), 1, n) = Bytes(d, n)
           /\ SubSeq(Bytes(d, l), n + 1, l) = Bytes(g, l - n)
<1> DEFINE s == Bytes(d, l)
<1>1. s \in Seq(Byte) /\ Len(s) = l
  BY BytesLen
<1>2. d.cursor \in Nat /\ d.length \in Nat
  BY DEF EventData
<1>3. SubSeq(s, 1, n) = Bytes(d, n)
  <2>1. /\ SubSeq(s, 1, n) \in Seq(Byte) /\ Len(SubSeq(s, 1, n)) = n
        /\ \A i \in 1 .. n : SubSeq(s, 1, n)[i] = s[i]
    <3> HIDE DEF s
    <3>1. QED
      BY <1>1, SubSeqProperties
  <2>2. Bytes(d, n) \in Seq(Byte) /\ Len(Bytes(d, n)) = n
    BY BytesLen
  <2>3. \A i \in 1 .. n : s[i] = Bytes(d, n)[i]
    BY DEF Bytes
  <2>4. \A i \in 1 .. n : SubSeq(s, 1, n)[i] = Bytes(d, n)[i]
    BY <2>1, <2>3
  <2> HIDE DEF s
  <2>5. QED
    BY <2>1, <2>2, <2>4, SeqEqual
<1>4. SubSeq(s, n + 1, l) = Bytes(g, l - n)
  <2>1. /\ SubSeq(s, n + 1, l) \in Seq(Byte) /\ Len(SubSeq(s, n + 1, l)) = l - n
        /\ \A i \in 1 .. l - n : SubSeq(s, n + 1, l)[i] = s[n + i]
    <3> HIDE DEF s
    <3>1. QED
      BY <1>1, SubSeqProperties
  <2>2. Bytes(g, l - n) \in Seq(Byte) /\ Len(Bytes(g, l - n)) = l - n
    BY BytesLen
  <2>3. \A i \in 1 .. l - n : s[n + i] = Bytes(g, l - n)[i]
    <3> SUFFICES ASSUME NEW i \in 1 .. l - n PROVE s[n + i] = Bytes(g, l - n)[i]
      OBVIOUS
    <3>1. n + i \in 1 .. l
      OBVIOUS
    <3>2. s[n + i] = [re |-> d.buffer, at |-> d.cursor + (n + i), of |-> d.cursor + l]
      BY <3>1 DEF Bytes
    <3>3. Bytes(g, l - n)[i] = [re |-> d.buffer, at |-> (d.cursor + n) + i,
                                of |-> (d.cursor + n) + (l - n)]
      BY DEF Bytes
    <3>4. d.cursor + (n + i) = (d.cursor + n) + i /\ d.cursor + l = (d.cursor + n) + (l - n)
      BY <1>2
    <3>5. QED
      BY <3>2, <3>3, <3>4
  <2>4. \A i \in 1 .. l - n : SubSeq(s, n + 1, l)[i] = Bytes(g, l - n)[i]
    BY <2>1, <2>3
  <2> HIDE DEF s
  <2>5. QED
    BY <2>1, <2>2, <2>4, SeqEqual
<1>5. QED
  BY <1>3, <1>4

\* What a connection is owed is the rest of the one response it has.
LEMMA OwedOne ==
    ASSUME NEW c, NEW x, Responses(c) = {x} PROVE Owed(c) = Bytes(heap[x], heap[x].length)
<1>1. (CHOOSE a \in Responses(c) : TRUE) = x
  OBVIOUS
<1>2. QED
  BY <1>1 DEF Owed

\* A step that puts the first n of the bytes owed to c on its wire is a step
\* of the session.
LEMMA EmitMaps ==
    ASSUME TypeOK, NEW c \in Conns, NEW n \in 1 .. Len(Owed(c)), peer[c] \in {"open", "fin"},
           UNCHANGED peer, wire' = [wire EXCEPT ![c] = @ \o SubSeq(Owed(c), 1, n)],
           Owed(c)' = SubSeq(Owed(c), n + 1, Len(Owed(c))),
           \A b \in Conns : b # c => Owed(b)' = Owed(b),
           \A b \in Conns : Taken(b)' = Taken(b)
    PROVE  Maps
<1>1. [b \in Conns |-> Owed(b)]'
        = [[b \in Conns |-> Owed(b)] EXCEPT ![c] = SubSeq(@, n + 1, Len(@))]
  OBVIOUS
<1>2. [b \in Conns |-> sent[b] - Len(inbox[b]) - InHand(b)]'
        = [b \in Conns |-> sent[b] - Len(inbox[b]) - InHand(b)]
  BY DEF Taken
<1>3. Session!Emit(c, n)
  BY <1>1, <1>2 DEF Session!Emit
<1>4. \E b \in Conns : \E i \in 1 .. Len([a \in Conns |-> Owed(a)][b]) : Session!Emit(b, i)
  BY <1>3
<1>5. QED
  BY <1>4 DEF Maps, Session!Next

\* A step that answers the k segments in hand of c is a step of the session.
LEMMA AnswerMaps ==
    ASSUME NEW c \in Conns, NEW k \in 1 .. kMaxBufferSize, NEW len \in RespLens,
           peer[c] \notin {"none", "gone"}, UNCHANGED <<peer, wire>>,
           Owed(c) = <<>>,
           Owed(c)' = [i \in 1 .. len |-> [re |-> Run(Taken(c), k), at |-> i, of |-> len]],
           \A b \in Conns : b # c => Owed(b)' = Owed(b),
           Taken(c)' = Taken(c) + k,
           \A b \in Conns : b # c => Taken(b)' = Taken(b)
    PROVE  Maps
<1>1. [b \in Conns |-> Owed(b)]'
        = [[b \in Conns |-> Owed(b)] EXCEPT ![c] =
              Session!Response([i \in 1 .. k |-> Session!Segment(Taken(c) + i)], len)]
  BY DEF Run, Session!Response
<1>2. [b \in Conns |-> sent[b] - Len(inbox[b]) - InHand(b)]'
        = [[b \in Conns |-> sent[b] - Len(inbox[b]) - InHand(b)] EXCEPT ![c] = @ + k]
  BY DEF Taken
<1>3. [b \in Conns |-> sent[b] - Len(inbox[b]) - InHand(b)][c] = Taken(c)
  BY DEF Taken
<1>4. Session!Answer(c, k, len)
  BY <1>1, <1>2, <1>3 DEF Session!Answer
<1>5. QED
  BY <1>4 DEF Maps, Session!Next

\* A send that takes part of a response: the session emits that part.
LEMMA PartMaps ==
    ASSUME IInv, IInv', LeakInv, SInv, NEW w \in Workers, NEW e \in batch[w],
           NEW n \in 1 .. SndBuf, SendPart(w, e, n)
    PROVE  SInv' /\ Maps
<1> USE DEF IInv, SInv, lisVars, kernVars
<1>1. PICK x, c, d : x = e.data /\ c = ConnOf(x) /\ d = heap[x]
  OBVIOUS
<1>2. /\ Take(w, e, "ctl") /\ Prepare(w, "MOD", "OUT", x)
      /\ e.events = "OUT" /\ CanTake(c, d, n) /\ n < d.length /\ Up
      /\ wire' = [wire EXCEPT ![c] = @ \o Bytes(d, n)]
      /\ heap' = [heap EXCEPT ![x].cursor = @ + n, ![x].length = @ - n]
      /\ UNCHANGED <<ldata, live, regs, fdtab, backlog, peer, inbox, nread, sent>>
  BY <1>1 DEF SendPart, Take
<1>3. /\ wpc[w] = "next" /\ wdata[w] = None /\ ctl[w].data = None /\ HasReg(w, x)
      /\ wpc'[w] = "ctl" /\ wdata'[w] = x
      /\ ctl'[w].data = x /\ ctl'[w].events = "OUT"
      /\ \A g \in batch'[w] : g \in batch[w] /\ g.data # x
      /\ \A v \in Workers : v # w => /\ wpc'[v] = wpc[v] /\ wdata'[v] = wdata[v]
                                    /\ batch'[v] = batch[v] /\ ctl'[v] = ctl[v]
  BY <1>1, <1>2, TakeFacts DEF Prepare, TypeOK, PcTypeOK
<1>4. /\ x \in live /\ x \in Addrs /\ d \in EventData /\ d.fd \in Fds
      /\ c \in Conns /\ peer[c] \in Present
  BY <1>1, <1>3, RegConn
<1>5. /\ \A v \in Workers : v # w /\ wpc[v] \in {"handle", "ctl", "del", "close"} =>
               wdata[v] # x
      /\ \A v \in Workers : v # w /\ wpc[v] = "ctl" => ctl[v].data # x
      /\ \A v \in Workers : \A g \in batch[v] : v # w => g.data # x
  BY <1>1, <1>3, Others
<1>6. n \in Nat /\ d.length \in Nat /\ d.cursor \in Nat /\ n < d.length
      /\ d.length - n > 0 /\ d.length > 0 /\ n > 0
  BY <1>2, <1>4, BoundsAssumption DEF EventData
<1>7. /\ \A a \in Addrs : a # x => heap'[a] = heap[a]
      /\ heap'[x] \in EventData /\ heap'[x].buffer = d.buffer
      /\ heap'[x].cursor = d.cursor + n /\ heap'[x].length = d.length - n
      /\ \A a \in Addrs : heap'[a].fd = heap[a].fd
      /\ \A a \in Addrs : heap'[a].length > 0 <=> heap[a].length > 0
  BY <1>1, <1>2, <1>4, <1>6 DEF TypeOK, MemTypeOK, EventData
<1>8. \A v \in Workers : wpc[v] \in {"handle", "ctl", "del", "close"} =>
          /\ wdata'[v] = wdata[v] /\ wdata[v] \in Addrs /\ heap'[wdata[v]] = heap[wdata[v]]
          /\ ConnOf(wdata[v])' = ConnOf(wdata[v])
  <2> SUFFICES ASSUME NEW v \in Workers, wpc[v] \in {"handle", "ctl", "del", "close"}
               PROVE  /\ wdata'[v] = wdata[v] /\ wdata[v] \in Addrs
                      /\ heap'[wdata[v]] = heap[wdata[v]]
                      /\ ConnOf(wdata[v])' = ConnOf(wdata[v])
    OBVIOUS
  <2>1. v # w /\ wdata'[v] = wdata[v] /\ wdata[v] \in Addrs
    BY <1>3, CloseConn
  <2>2. QED
    BY <1>2, <1>5, <1>7, <2>1 DEF ConnOf
<1>9. ConnInv' /\ SegInv'
  BY <1>2, <1>7 DEF ConnInv, SegInv, Open, Served, TypeOK, MemTypeOK
<1>10. HandInv'
  <2> SUFFICES ASSUME NEW v \in Workers, wpc'[v] = "handle" PROVE HandOK(v)'
    BY DEF HandInv
  <2>1. HandOK(v) /\ wpc[v] = "handle"
    BY <1>3 DEF HandInv
  <2>2. QED
    BY <1>2, <1>8, <2>1 DEF HandOK
<1>11. LenInv'
  <2>1. \A ev, a : a \in Addrs => (Sends(ev, a)' <=> Sends(ev, a))
    BY <1>7 DEF Sends
  <2>2. \A r \in regs' : Sends(r.events, r.data)'
    BY <1>2, <2>1 DEF LenInv, TypeOK, MemTypeOK, Registration
  <2>3. \A v \in Workers : \A g \in batch'[v] : Reported(g)'
    <3> SUFFICES ASSUME NEW v \in Workers, NEW g \in batch'[v] PROVE Reported(g)'
      OBVIOUS
    <3>1. g \in batch[v] /\ Reported(g) /\ g.data \in Addrs
      BY <1>3 DEF LenInv, TypeOK, PcTypeOK
    <3>2. QED
      BY <1>2, <1>7, <2>1, <3>1 DEF Reported, ConnOf
  <2>4. ASSUME NEW v \in Workers, wpc'[v] = "ctl" PROVE Sends(ctl[v].events, ctl[v].data)'
    <3>1. CASE v = w
      BY <1>3, <1>6, <1>7, <3>1 DEF Sends
    <3>2. CASE v # w
      <4>1. wpc[v] = "ctl" /\ ctl'[v] = ctl[v] /\ ctl[v].data \in Addrs
        BY <1>3, <2>4, <3>2, HeldLive
      <4>2. heap'[ctl[v].data] = heap[ctl[v].data]
        BY <1>5, <1>7, <3>2, <4>1
      <4>3. QED
        BY <4>1, <4>2 DEF LenInv, Sends
    <3>3. QED
      BY <3>1, <3>2
  <2>5. ldata' # None => heap'[ldata'].length = 0
    <3>1. ldata # None => ldata # x /\ ldata \in Addrs
      BY <1>1, <1>6 DEF LenInv, TypeOK, PcTypeOK
    <3>2. QED
      BY <1>2, <1>7, <3>1 DEF LenInv
  <2>6. QED
    BY <2>2, <2>3, <2>4, <2>5 DEF LenInv
<1>12. HangInv'
  <2> SUFFICES ASSUME NEW v \in Workers, wpc'[v] \in {"del", "close"} PROVE HangOK(v)'
    BY DEF HangInv
  <2>1. wpc[v] \in {"del", "close"} /\ HangOK(v)
    BY <1>3 DEF HangInv
  <2>2. QED
    BY <1>2, <1>8, <2>1 DEF HangOK
<1>13. \A b \in Conns : Taken(b)' = Taken(b)
  <2>1. \A b : \A v \in Workers : Handles(v, b)' <=> Handles(v, b)
    BY <1>3, <1>8 DEF Handles
  <2>2. \A b : \A v \in Workers : Handles(v, b) => heap'[wdata'[v]] = heap[wdata[v]]
    BY <1>8 DEF Handles
  <2>3. \A b : InHand(b)' = InHand(b)
    BY <2>1, <2>2, InHandFrame
  <2>4. QED
    BY <1>2, <2>3 DEF Taken
<1>14. \A a : Finished(a)' <=> Finished(a)
  BY <1>3 DEF Finished
<1>15. \A b : Responses(b)' = Responses(b)
  <2>1. \A a \in live : \A b : ConnOf(a)' = b <=> ConnOf(a) = b
    BY <1>2, <1>7 DEF ConnOf, TypeOK, MemTypeOK
  <2>2. \A a \in live : heap'[a].length > 0 <=> heap[a].length > 0
    BY <1>7 DEF TypeOK, MemTypeOK
  <2>3. QED
    BY <1>2, <1>14, <2>1, <2>2 DEF Responses
<1>16. Responses(c) = {x}
  <2>1. x \in Responses(c)
    <3>1. ~Finished(x)
      BY <1>3, <1>5, HeldLive, Others DEF Finished
    <3>2. QED
      BY <1>1, <1>4, <1>6, <3>1 DEF Responses
  <2>2. Responses(c) \subseteq {x}
    BY <1>1, <1>2, <1>3, RespOnly
  <2>3. QED
    BY <2>1, <2>2
<1>17. /\ Owed(c) = Bytes(d, d.length)
       /\ Owed(c)' = Bytes(heap'[x], heap'[x].length)
  <2>1. Owed(c) = Bytes(d, d.length)
    BY <1>1, <1>16, OwedOne
  <2>2. (CHOOSE a \in Responses(c)' : TRUE) = x /\ Responses(c)' # {}
    BY <1>15, <1>16
  <2>3. Owed(c)' = Bytes(heap'[x], heap'[x].length)
    BY <2>2 DEF Owed, Bytes
  <2>4. QED
    BY <2>1, <2>3
<1>18. PICK g : g = heap'[x]
  OBVIOUS
<1>19. /\ SubSeq(Owed(c), 1, n) = Bytes(d, n)
       /\ SubSeq(Owed(c), n + 1, Len(Owed(c))) = Owed(c)'
       /\ Len(Owed(c)) = d.length
  <2>1. PICK l \in Nat : l = d.length
    BY <1>6
  <2>a. /\ d \in EventData /\ g \in EventData /\ n \in Nat /\ n <= l
        /\ g.buffer = d.buffer /\ g.cursor = d.cursor + n /\ g.length = l - n
    BY <1>4, <1>6, <1>7, <1>18, <2>1
  <2>2. SubSeq(Bytes(d, l), 1, n) = Bytes(d, n)
    BY <2>1, <2>a, BytesSplit
  <2>3. SubSeq(Bytes(d, l), n + 1, l) = Bytes(g, l - n)
    BY <2>1, <2>a, BytesSplit
  <2>4. Len(Bytes(d, l)) = l
    BY <1>4, BytesLen
  <2>5. QED
    BY <1>7, <1>17, <1>18, <2>1, <2>2, <2>3, <2>4
<1>20. \A b \in Conns : b # c => Owed(b)' = Owed(b)
  <2> SUFFICES ASSUME NEW b \in Conns, b # c PROVE Owed(b)' = Owed(b)
    OBVIOUS
  <2>1. x \notin Responses(b)
    BY <1>1 DEF Responses
  <2>2. \A a \in Responses(b) : heap'[a] = heap[a]
    BY <1>7, <2>1 DEF Responses, TypeOK, MemTypeOK
  <2>3. QED
    BY <1>15, <2>2, OwedFrame
<1>21. peer[c] \in {"open", "fin"}
  BY <1>2, <1>4 DEF CanTake, Present
<1>22. n \in 1 .. Len(Owed(c))
  BY <1>6, <1>19
<1>23. Maps
  BY <1>2, <1>4, <1>13, <1>19, <1>20, <1>21, <1>22, EmitMaps
<1>24. QED
  BY <1>9, <1>10, <1>11, <1>12, <1>23
-----------------------------------------------------------------------------
(* Allocating the EventData to register next.                               *)

\* Worker w, done with x, allocates a holding d and is to register it for ev.
Allocates(w, x, a, d, ev) ==
    /\ a \notin live /\ live' = live \cup {a} /\ heap' = [heap EXCEPT ![a] = d]
    /\ d.fd = heap[x].fd /\ HasReg(w, x)
    /\ wpc[w] = "next" \/ (wpc[w] = "handle" /\ wdata[w] = x)
    /\ wdata'[w] = x /\ wpc'[w] = "ctl" /\ ctl'[w].data = a /\ ctl'[w].events = ev
    /\ (ev = "OUT") <=> d.length > 0
    /\ \A v \in Workers : v # w => /\ wpc'[v] = wpc[v] /\ wdata'[v] = wdata[v]
                                   /\ batch'[v] = batch[v] /\ ctl'[v] = ctl[v]
    /\ batch'[w] \subseteq batch[w]
    /\ UNCHANGED <<ldata, regs, fdtab, backlog, peer, inbox, sent>>

\* A worker at work on x allocates a for the same descriptor: SInv is kept if
\* what it is to register for fits what a holds; x is finished with, and a is
\* a response of the connection if it has a length.
LEMMA AllocSession ==
    ASSUME TypeOK, OwnerInv, SInv, NEW w \in Workers, NEW x \in Addrs, NEW a \in Addrs,
           NEW d \in EventData, NEW ev, Allocates(w, x, a, d, ev)
    PROVE  /\ SInv'
           /\ \A y \in live : heap'[y] = heap[y]
           /\ heap'[a] = d
           /\ \A b \in Conns : Responses(b)' = (Responses(b) \ {x}) \cup
                   (IF d.length > 0 /\ b = ConnOf(x) THEN {a} ELSE {})
           /\ \A b \in Conns : \A v \in Workers :
                 /\ Handles(v, b)' <=> v # w /\ Handles(v, b)
                 /\ v # w /\ Handles(v, b) => heap'[wdata'[v]] = heap[wdata[v]]
<1> USE DEF SInv, Allocates
<1>1. /\ \A y \in live : heap'[y] = heap[y] /\ y # a /\ y \in Addrs
      /\ heap'[a] = d /\ x \in live /\ x # a
  BY RegConn DEF TypeOK, MemTypeOK
<1>2. \A v \in Workers : v # w /\ wpc[v] \in {"handle", "ctl", "del", "close"} =>
          /\ wdata'[v] = wdata[v] /\ wdata[v] \in live /\ heap'[wdata[v]] = heap[wdata[v]]
          /\ ConnOf(wdata[v])' = ConnOf(wdata[v])
  <2> SUFFICES ASSUME NEW v \in Workers, v # w,
                      wpc[v] \in {"handle", "ctl", "del", "close"}
               PROVE  /\ wdata'[v] = wdata[v] /\ wdata[v] \in live
                      /\ heap'[wdata[v]] = heap[wdata[v]]
                      /\ ConnOf(wdata[v])' = ConnOf(wdata[v])
    OBVIOUS
  <2>1. wdata'[v] = wdata[v] /\ wdata[v] \in live
    BY CloseConn
  <2>2. heap'[wdata[v]] = heap[wdata[v]]
    BY <1>1, <2>1
  <2>3. QED
    BY <2>1, <2>2 DEF ConnOf
<1>3. ConnInv' /\ SegInv'
  <2>1. \A y \in live' : heap'[y].fd \in Fds
    BY <1>1 DEF ConnInv
  <2>2. QED
    BY <2>1 DEF ConnInv, SegInv, Open, Served
<1>4. HandInv'
  <2> SUFFICES ASSUME NEW v \in Workers, wpc'[v] = "handle" PROVE HandOK(v)'
    BY DEF HandInv
  <2>1. HandOK(v) /\ wpc[v] = "handle" /\ v # w
    BY DEF HandInv
  <2>2. QED
    BY <1>2, <2>1 DEF HandOK
<1>5. LenInv'
  <2>1. \A ev1, y : y \in live => (Sends(ev1, y)' <=> Sends(ev1, y))
    BY <1>1 DEF Sends
  <2>2. \A r \in regs' : Sends(r.events, r.data)'
    BY <2>1 DEF LenInv, OwnerInv, RegsInv
  <2>3. \A v \in Workers : \A g \in batch'[v] : Reported(g)'
    <3> SUFFICES ASSUME NEW v \in Workers, NEW g \in batch'[v] PROVE Reported(g)'
      OBVIOUS
    <3>1. g \in batch[v] /\ Reported(g)
      BY DEF LenInv
    <3>2. g.data \in live
      BY <3>1, RegConn DEF OwnerInv, BatchInv, BatchOK
    <3>3. QED
      BY <1>1, <2>1, <3>1, <3>2 DEF Reported, ConnOf
  <2>4. ASSUME NEW v \in Workers, wpc'[v] = "ctl" PROVE Sends(ctl[v].events, ctl[v].data)'
    <3>1. CASE v = w
      BY <1>1, <3>1 DEF Sends
    <3>2. CASE v # w
      BY <2>1, <2>4, <3>2, HeldLive DEF LenInv
    <3>3. QED
      BY <3>1, <3>2
  <2>5. ldata' # None => heap'[ldata'].length = 0
    BY <1>1 DEF LenInv, OwnerInv, ListenerInv
  <2>6. QED
    BY <2>2, <2>3, <2>4, <2>5 DEF LenInv
<1>6. HangInv'
  <2> SUFFICES ASSUME NEW v \in Workers, wpc'[v] \in {"del", "close"} PROVE HangOK(v)'
    BY DEF HangInv
  <2>1. wpc[v] \in {"del", "close"} /\ HangOK(v) /\ v # w
    BY DEF HangInv
  <2>2. QED
    BY <1>2, <2>1 DEF HangOK
<1>7. /\ Finished(x)' /\ ~Finished(a)'
      /\ \A y : y # x /\ y # a => (Finished(y)' <=> Finished(y))
  <2>1. Finished(x)'
    BY <1>1 DEF Finished
  <2>2. ~Finished(a)'
    BY <1>1, HeldLive DEF Finished
  <2>3. \A y : y # x => (Finished(y)' <=> Finished(y))
    BY DEF Finished
  <2>4. QED
    BY <2>1, <2>2, <2>3
<1>8. ASSUME NEW b \in Conns
      PROVE  Responses(b)' = (Responses(b) \ {x}) \cup
                   (IF d.length > 0 /\ b = ConnOf(x) THEN {a} ELSE {})
  <2>1. \A y \in live : y # x => (y \in Responses(b)' <=> y \in Responses(b))
    BY <1>1, <1>7 DEF Responses, ConnOf
  <2>2. x \notin Responses(b)'
    BY <1>7 DEF Responses
  <2>3. a \in Responses(b)' <=> d.length > 0 /\ b = ConnOf(x)
    BY <1>1, <1>7 DEF Responses, ConnOf
  <2>4. a \notin Responses(b)
    BY DEF Responses
  <2>5. \A y : y \in Responses(b)' \/ y \in Responses(b) => y \in live \/ y = a
    BY DEF Responses
  <2>6. QED
    BY <2>1, <2>2, <2>3, <2>4, <2>5
<1>9. \A b \in Conns : \A v \in Workers :
          /\ Handles(v, b)' <=> v # w /\ Handles(v, b)
          /\ v # w /\ Handles(v, b) => heap'[wdata'[v]] = heap[wdata[v]]
  BY <1>2 DEF Handles
<1>10. QED
  BY <1>1, <1>3, <1>4, <1>5, <1>6, <1>8, <1>9

\* A send that takes the rest: the session emits it and owes nothing more.
LEMMA RestMaps ==
    ASSUME IInv, LeakInv, SInv, NEW w \in Workers, NEW e \in batch[w], NEW a \in Addrs,
           SendRest(w, e, a)
    PROVE  SInv' /\ Maps
<1> USE DEF IInv, lisVars, kernVars
<1>1. PICK x, c, d : x = e.data /\ c = ConnOf(x) /\ d = heap[x]
  OBVIOUS
<1>2. PICK g : g = NewEventData(d.fd)
  OBVIOUS
<1>3. /\ Take(w, e, "ctl") /\ Prepare(w, "MOD", "IN", a)
      /\ e.events = "OUT" /\ CanTake(c, d, d.length) /\ a \notin live /\ Up
      /\ wire' = [wire EXCEPT ![c] = @ \o Bytes(d, d.length)]
      /\ live' = live \cup {a} /\ heap' = [heap EXCEPT ![a] = g]
      /\ UNCHANGED <<ldata, regs, fdtab, backlog, peer, inbox, nread, sent>>
  BY <1>1, <1>2 DEF SendRest, Take, FreeAddrs, Put
<1>4. /\ wpc[w] = "next" /\ wdata[w] = None /\ HasReg(w, x)
      /\ wpc'[w] = "ctl" /\ wdata'[w] = x
      /\ ctl'[w].data = a /\ ctl'[w].events = "IN"
      /\ batch'[w] \subseteq batch[w]
      /\ \A v \in Workers : v # w => /\ wpc'[v] = wpc[v] /\ wdata'[v] = wdata[v]
                                    /\ batch'[v] = batch[v] /\ ctl'[v] = ctl[v]
  BY <1>1, <1>3, TakeFacts DEF Prepare, TypeOK, PcTypeOK
<1>5. /\ x \in live /\ x \in Addrs /\ d \in EventData /\ d.fd \in Fds
      /\ c \in Conns /\ peer[c] \in Present
  BY <1>1, <1>4, RegConn DEF SInv
<1>6. d.length \in Nat /\ d.length > 0
  <2>1. Reported(e)
    BY DEF SInv, LenInv
  <2>2. QED
    BY <1>1, <1>3, <1>5, <2>1 DEF Reported, Sends, EventData
<1>7. g \in EventData /\ g.length = 0 /\ g.fd = heap[x].fd
  BY <1>1, <1>2, <1>5 DEF NewEventData, EventData
<1>8. /\ SInv'
      /\ \A y \in live : heap'[y] = heap[y]
      /\ \A b \in Conns : Responses(b)' = Responses(b) \ {x}
      /\ \A b \in Conns : \A v \in Workers :
            /\ Handles(v, b)' <=> v # w /\ Handles(v, b)
            /\ v # w /\ Handles(v, b) => heap'[wdata'[v]] = heap[wdata[v]]
  <2>1. ("IN" = "OUT") <=> g.length > 0
    BY <1>7
  <2>0. Allocates(w, x, a, g, "IN")
    BY <1>3, <1>4, <1>7, <2>1 DEF Allocates
  <2>2. /\ SInv'
        /\ \A y \in live : heap'[y] = heap[y]
        /\ \A b \in Conns : Responses(b)' = (Responses(b) \ {x}) \cup
                (IF g.length > 0 /\ b = ConnOf(x) THEN {a} ELSE {})
        /\ \A b \in Conns : \A v \in Workers :
              /\ Handles(v, b)' <=> v # w /\ Handles(v, b)
              /\ v # w /\ Handles(v, b) => heap'[wdata'[v]] = heap[wdata[v]]
    BY <1>5, <1>7, <2>0, AllocSession
  <2>3. QED
    BY <1>7, <2>2
<1>9. \A b \in Conns : Taken(b)' = Taken(b)
  <2>1. \A b \in Conns : \A v \in Workers : Handles(v, b)' <=> Handles(v, b)
    BY <1>4, <1>8 DEF Handles
  <2>2. \A b \in Conns : \A v \in Workers : Handles(v, b) => heap'[wdata'[v]] = heap[wdata[v]]
    BY <1>8, <2>1
  <2>3. \A b \in Conns : InHand(b)' = InHand(b)
    BY <2>1, <2>2, InHandFrame
  <2>4. QED
    BY <1>3, <2>3 DEF Taken
<1>10. Responses(c) = {x}
  <2>1. ~Finished(x)
    <3>1. \A v \in Workers : v # w /\ wpc[v] \in {"ctl", "free"} => wdata[v] # x
      BY <1>4, Others DEF SInv
    <3>2. QED
      BY <1>4, <3>1 DEF Finished
  <2>2. x \in Responses(c)
    BY <1>1, <1>5, <1>6, <2>1 DEF Responses
  <2>3. Responses(c) \subseteq {x}
    BY <1>1, <1>3, <1>4, RespOnly DEF SInv
  <2>4. QED
    BY <2>2, <2>3
<1>11. Owed(c) = Bytes(d, d.length) /\ Owed(c)' = <<>>
  <2>1. Owed(c) = Bytes(d, d.length)
    BY <1>1, <1>10, OwedOne
  <2>2. Responses(c)' = {}
    BY <1>5, <1>8, <1>10
  <2>3. QED
    BY <2>1, <2>2 DEF Owed
<1>12. \A b \in Conns : b # c => Owed(b)' = Owed(b)
  <2> SUFFICES ASSUME NEW b \in Conns, b # c PROVE Owed(b)' = Owed(b)
    OBVIOUS
  <2>1. x \notin Responses(b)
    BY <1>1 DEF Responses
  <2>2. Responses(b)' = Responses(b)
    BY <1>8, <2>1
  <2>3. \A y \in Responses(b) : heap'[y] = heap[y]
    BY <1>8 DEF Responses
  <2>4. QED
    BY <2>2, <2>3, OwedFrame
<1>13. PICK l \in Nat : l = d.length
  BY <1>6
<1>14. /\ SubSeq(Owed(c), 1, l) = Bytes(d, l) /\ Len(Owed(c)) = l
       /\ SubSeq(Owed(c), l + 1, l) = <<>>
  <2>1. PICK h : h = [fd |-> d.fd, buffer |-> d.buffer, length |-> 0, cursor |-> d.cursor + l]
    OBVIOUS
  <2>2. /\ h \in EventData /\ l <= l
        /\ h.buffer = d.buffer /\ h.cursor = d.cursor + l /\ h.length = l - l
    BY <1>5, <1>13, <2>1 DEF EventData
  <2>3. SubSeq(Bytes(d, l), 1, l) = Bytes(d, l)
    BY <1>5, <1>13, <2>2, BytesSplit
  <2>4. Len(Bytes(d, l)) = l
    BY <1>5, BytesLen
  <2>5. SubSeq(Owed(c), l + 1, l) = <<>>
    <3>1. l + 1 \in Int /\ l \in Int /\ l < l + 1
      OBVIOUS
    <3>2. QED
      BY <3>1, SubSeqEmpty
  <2>6. QED
    BY <1>11, <1>13, <2>3, <2>4, <2>5
<1>15. peer[c] \in {"open", "fin"}
  BY <1>3, <1>5 DEF CanTake, Present
<1>16. /\ l \in 1 .. Len(Owed(c))
       /\ Owed(c)' = SubSeq(Owed(c), l + 1, Len(Owed(c)))
       /\ wire' = [wire EXCEPT ![c] = @ \o SubSeq(Owed(c), 1, l)]
  <2>1. l \in 1 .. Len(Owed(c))
    BY <1>6, <1>13, <1>14
  <2>2. Owed(c)' = SubSeq(Owed(c), l + 1, Len(Owed(c)))
    BY <1>11, <1>14
  <2>3. SubSeq(Owed(c), 1, l) = Bytes(d, d.length)
    BY <1>13, <1>14
  <2>4. QED
    BY <1>3, <2>1, <2>2, <2>3
<1>17. Maps
  BY <1>3, <1>5, <1>9, <1>12, <1>15, <1>16, EmitMaps
<1>18. QED
  BY <1>8, <1>17

\* The handlers answer what is in hand: the session answers those segments.
LEMMA HandleMaps ==
    ASSUME IInv, LeakInv, SInv, NEW w \in Workers, NEW a \in Addrs, NEW len \in RespLens,
           HandleHttpData(w, a, len)
    PROVE  SInv' /\ Maps
<1> USE DEF IInv, lisVars, kernVars
<1>1. PICK x, c, k : x = wdata[w] /\ c = ConnOf(x) /\ k = Len(heap[x].buffer)
  OBVIOUS
<1>2. PICK d : d = [heap[x] EXCEPT !.length = len, !.cursor = 0]
  OBVIOUS
<1>3. /\ Up /\ wpc[w] = "handle" /\ a \notin live /\ Prepare(w, "MOD", "OUT", a)
      /\ wpc' = [wpc EXCEPT ![w] = "ctl"] /\ UNCHANGED wdata
      /\ live' = live \cup {a} /\ heap' = [heap EXCEPT ![a] = d]
      /\ UNCHANGED <<ldata, batch, regs, fdtab, backlog, peer, inbox, wire, nread, sent>>
  BY <1>1, <1>2 DEF HandleHttpData, FreeAddrs, Put, netVars
<1>4. /\ HasReg(w, x) /\ wdata[w] = x /\ HandOK(w)
      /\ wpc'[w] = "ctl" /\ wdata'[w] = x
      /\ ctl'[w].data = a /\ ctl'[w].events = "OUT"
      /\ \A v \in Workers : v # w => /\ wpc'[v] = wpc[v] /\ wdata'[v] = wdata[v]
                                    /\ batch'[v] = batch[v] /\ ctl'[v] = ctl[v]
  BY <1>1, <1>3
     DEF Prepare, TypeOK, PcTypeOK, OwnerInv, WorkerInv, WorkerOK, SInv, HandInv
<1>5. /\ x \in live /\ x \in Addrs /\ heap[x] \in EventData /\ heap[x].fd \in Fds
      /\ c \in Conns /\ peer[c] \in Present
  BY <1>1, <1>4, RegConn DEF SInv
<1>6. len \in Nat /\ len > 0
  BY BoundsAssumption
<1>7. /\ d \in EventData /\ d.fd = heap[x].fd /\ d.length = len /\ d.cursor = 0
      /\ d.buffer = heap[x].buffer
  BY <1>2, <1>5, <1>6 DEF EventData
<1>8. /\ SInv'
      /\ \A y \in live : heap'[y] = heap[y]
      /\ heap'[a] = d
      /\ \A b \in Conns : Responses(b)' = (Responses(b) \ {x}) \cup
              (IF d.length > 0 /\ b = ConnOf(x) THEN {a} ELSE {})
      /\ \A b \in Conns : \A v \in Workers :
            /\ Handles(v, b)' <=> v # w /\ Handles(v, b)
            /\ v # w /\ Handles(v, b) => heap'[wdata'[v]] = heap[wdata[v]]
  <2>1. ("OUT" = "OUT") <=> d.length > 0
    BY <1>6, <1>7
  <2>2. batch'[w] \subseteq batch[w]
    BY <1>3
  <2>3. QED
    <3>1. Allocates(w, x, a, d, "OUT")
      BY <1>3, <1>4, <1>7, <2>1, <2>2 DEF Allocates
    <3>2. QED
      BY <1>5, <1>7, <3>1, AllocSession
<1>9. /\ heap[x].length = 0 /\ k \in 1 .. kMaxBufferSize /\ k \in Nat
      /\ heap[x].buffer = Run(sent[c] - Len(inbox[c]) - k, k)
  BY <1>1, <1>4, BoundsAssumption DEF HandOK
<1>10. Responses(c) = {}
  <2>1. Responses(c) \subseteq {x}
    BY <1>1, <1>3, <1>4, RespOnly DEF SInv
  <2>2. x \notin Responses(c)
    BY <1>9 DEF Responses
  <2>3. QED
    BY <2>1, <2>2
<1>11. Responses(c)' = {a}
  BY <1>1, <1>5, <1>6, <1>7, <1>8, <1>10
<1>12. \A v \in Workers : Handles(v, c) <=> v = w
  <2>1. Handles(w, c)
    BY <1>1, <1>3 DEF Handles
  <2>2. \A v \in Workers : v # w => ~Handles(v, c)
    BY <1>1, <1>4, Others DEF Handles, SInv
  <2>3. QED
    BY <2>1, <2>2
<1>13. Taken(c) = sent[c] - Len(inbox[c]) - k
  BY <1>1, <1>12, InHandOne DEF Taken
<1>14. Taken(c)' = sent[c] - Len(inbox[c])
  <2>1. {v \in Workers : wpc'[v] = "handle" /\ ConnOf(wdata[v])' = c} = {}
    BY <1>5, <1>8, <1>12 DEF Handles
  <2>2. InHand(c)' = 0
    BY <2>1 DEF InHand
  <2>3. Taken(c)' = sent'[c] - Len(inbox'[c]) - 0
    BY <2>2 DEF Taken
  <2>4. sent[c] \in Nat /\ Len(inbox[c]) \in Nat
    BY <1>5, LenProperties DEF TypeOK, NetTypeOK
  <2>5. QED
    BY <1>3, <2>3, <2>4
<1>15. Taken(c)' = Taken(c) + k
  <2>1. sent[c] \in Nat /\ Len(inbox[c]) \in Nat
    BY <1>5, LenProperties DEF TypeOK, NetTypeOK
  <2>2. QED
    BY <1>9, <1>13, <1>14, <2>1
<1>16. \A b \in Conns : b # c => Taken(b)' = Taken(b)
  <2> SUFFICES ASSUME NEW b \in Conns, b # c PROVE Taken(b)' = Taken(b)
    OBVIOUS
  <2>1. \A v \in Workers : Handles(v, b)' <=> Handles(v, b)
    BY <1>1, <1>8 DEF Handles
  <2>2. \A v \in Workers : Handles(v, b) => heap'[wdata'[v]] = heap[wdata[v]]
    BY <1>8, <2>1
  <2>3. InHand(b)' = InHand(b)
    BY <2>1, <2>2, InHandFrame
  <2>4. QED
    BY <1>3, <2>3 DEF Taken
<1>17. \A b \in Conns : b # c => Owed(b)' = Owed(b)
  <2> SUFFICES ASSUME NEW b \in Conns, b # c PROVE Owed(b)' = Owed(b)
    OBVIOUS
  <2>1. x \notin Responses(b)
    BY <1>1 DEF Responses
  <2>2. Responses(b)' = Responses(b)
    <3>1. (IF d.length > 0 /\ b = ConnOf(x) THEN {a} ELSE {}) = {}
      BY <1>1
    <3>2. Responses(b)' = (Responses(b) \ {x}) \cup {}
      BY <1>8, <3>1
    <3>3. QED
      BY <2>1, <3>2
  <2>3. \A y \in Responses(b) : heap'[y] = heap[y]
    BY <1>8 DEF Responses
  <2>4. QED
    BY <2>2, <2>3, OwedFrame
<1>18. Owed(c) = <<>>
  BY <1>10 DEF Owed
<1>19. Owed(c)' = [i \in 1 .. len |-> [re |-> Run(Taken(c), k), at |-> i, of |-> len]]
  <2>1. (CHOOSE y \in Responses(c)' : TRUE) = a /\ Responses(c)' # {}
    BY <1>11
  <2>2. Owed(c)' = [i \in 1 .. d.length |-> [re |-> d.buffer, at |-> d.cursor + i,
                                             of |-> d.cursor + d.length]]
    BY <1>8, <2>1 DEF Owed, Bytes
  <2>3. d.buffer = Run(Taken(c), k)
    BY <1>7, <1>9, <1>13
  <2>4. d.cursor + d.length = len /\ \A i \in 1 .. len : d.cursor + i = i
    BY <1>6, <1>7
  <2>5. QED
    BY <1>7, <2>2, <2>3, <2>4
<1>20. peer[c] \notin {"none", "gone"}
  BY <1>5 DEF Present
<1>21. Maps
  BY <1>3, <1>5, <1>9, <1>15, <1>16, <1>17, <1>18, <1>19, <1>20, AnswerMaps
<1>22. QED
  BY <1>8, <1>21
-----------------------------------------------------------------------------
(* The calls that finish an event.                                          *)

\* epoll_ctl registers what the worker prepared, which fits its EventData;
\* what the worker has sent stays finished with until it is deleted.
LEMMA CtlMaps ==
    ASSUME IInv, SInv, NEW w \in Workers, WorkerCtl(w) PROVE SInv' /\ Maps
<1> USE DEF IInv, SInv, lisVars, memVars, netVars
<1>1. PICK x, y, ev : x = wdata[w] /\ y = ctl[w].data /\ ev = ctl[w].events
  OBVIOUS
<1>2. /\ wpc[w] = "ctl"
      /\ control_epoll_event(ctl[w].op, w, heap[x].fd, ev, y)
      /\ ctl' = [ctl EXCEPT ![w] = NoCtl]
      /\ \/ y = x /\ wpc' = [wpc EXCEPT ![w] = "next"] /\ wdata' = [wdata EXCEPT ![w] = None]
         \/ y # x /\ wpc' = [wpc EXCEPT ![w] = "free"] /\ UNCHANGED wdata
      /\ UNCHANGED <<lisVars, batch, memVars, fdtab, netVars>>
  BY <1>1 DEF WorkerCtl, Forget
<1>3. /\ y = x => wpc'[w] = "next"
      /\ y # x => wpc'[w] = "free" /\ wdata'[w] = x
      /\ \A v \in Workers : v # w => /\ wpc'[v] = wpc[v] /\ wdata'[v] = wdata[v]
                                    /\ ctl'[v] = ctl[v]
  BY <1>1, <1>2 DEF TypeOK, PcTypeOK
<1>4. \A r \in regs' : r \in regs \/ (r.events = ev /\ r.data = y)
  BY <1>2 DEF control_epoll_event, Without
<1>5. ConnInv' /\ SegInv'
  BY <1>2 DEF ConnInv, SegInv, Open, Served
<1>6. HandInv'
  <2> SUFFICES ASSUME NEW v \in Workers, wpc'[v] = "handle" PROVE HandOK(v)'
    BY DEF HandInv
  <2>1. HandOK(v) /\ wdata'[v] = wdata[v]
    BY <1>3 DEF HandInv
  <2>2. QED
    BY <1>2, <2>1 DEF HandOK, ConnOf
<1>7. LenInv'
  <2>1. Sends(ev, y)
    BY <1>1, <1>2 DEF LenInv
  <2>2. \A r \in regs' : Sends(r.events, r.data)'
    BY <1>2, <1>4, <2>1 DEF LenInv, Sends
  <2>3. \A v \in Workers : \A g \in batch'[v] : Reported(g)'
    BY <1>2 DEF LenInv, Reported, Sends, ConnOf
  <2>4. \A v \in Workers : wpc'[v] = "ctl" => Sends(ctl[v].events, ctl[v].data)'
    BY <1>2, <1>3 DEF LenInv, Sends
  <2>5. QED
    BY <1>2, <2>2, <2>3, <2>4 DEF LenInv
<1>8. HangInv'
  <2> SUFFICES ASSUME NEW v \in Workers, wpc'[v] \in {"del", "close"} PROVE HangOK(v)'
    BY DEF HangInv
  <2>1. wpc[v] \in {"del", "close"} /\ HangOK(v) /\ wdata'[v] = wdata[v]
    BY <1>3 DEF HangInv
  <2>2. QED
    BY <1>2, <2>1 DEF HangOK, ConnOf
<1>9. Stutters
  <2>1. \A a : Finished(a)' <=> Finished(a)
    BY <1>1, <1>2, <1>3 DEF Finished
  <2>2. \A c : Responses(c)' = Responses(c)
    BY <1>2, <2>1 DEF Responses, ConnOf
  <2>3. \A c : Owed(c)' = Owed(c)
    BY <1>2, <2>2, OwedFrame
  <2>4. \A c : \A v \in Workers : Handles(v, c)' <=> Handles(v, c)
    BY <1>2, <1>3 DEF Handles, ConnOf
  <2>5. \A c : \A v \in Workers : Handles(v, c) => wdata'[v] = wdata[v]
    BY <1>2, <1>3 DEF Handles
  <2>6. \A c : InHand(c)' = InHand(c)
    BY <1>2, <2>4, <2>5, InHandFrame
  <2>7. QED
    BY <1>2, <2>3, <2>6 DEF Stutters, Taken
<1>10. QED
  BY <1>5, <1>6, <1>7, <1>8, <1>9, StutterMaps

\* A step that ends a connection whose client has left, and is owed nothing
\* unless it reset, is a step of the session.
LEMMA HangUpMaps ==
    ASSUME TypeOK, NEW c \in Conns, peer[c] = "rst" \/ (peer[c] = "fin" /\ Owed(c) = <<>>),
           peer' = [b \in Conns |-> IF b = c THEN "gone" ELSE peer[b]], UNCHANGED wire,
           Owed(c)' = <<>>, \A b \in Conns : b # c => Owed(b)' = Owed(b),
           \A b \in Conns : Taken(b)' = Taken(b)
    PROVE  Maps
<1>1. [b \in Conns |-> Owed(b)]' = [[b \in Conns |-> Owed(b)] EXCEPT ![c] = <<>>]
  OBVIOUS
<1>2. [b \in Conns |-> sent[b] - Len(inbox[b]) - InHand(b)]'
        = [b \in Conns |-> sent[b] - Len(inbox[b]) - InHand(b)]
  BY DEF Taken
<1>3. peer' = [peer EXCEPT ![c] = "gone"]
  BY DEF TypeOK, NetTypeOK
<1>4. Session!HangUp(c)
  BY <1>1, <1>2, <1>3 DEF Session!HangUp
<1>5. QED
  BY <1>4 DEF Maps, Session!Next

\* close: no other thread is at work on the connection, and what is left of
\* its response, if the client reset, will never be sent.
LEMMA CloseMaps ==
    ASSUME IInv, LeakInv, SInv, NEW w \in Workers, WorkerClose(w) PROVE SInv' /\ Maps
<1> USE DEF IInv, lisVars, memVars
<1>1. PICK x, f, c : x = wdata[w] /\ f = heap[x].fd /\ c = fdtab[f]
  OBVIOUS
<1>2. /\ Up /\ wpc[w] = "close"
      /\ fdtab' = [fdtab EXCEPT ![f] = None]
      /\ regs' = {r \in regs : r.fd # f}
      /\ peer' = [b \in Conns |-> IF b = c THEN "gone" ELSE peer[b]]
      /\ wpc' = [wpc EXCEPT ![w] = "free"]
      /\ UNCHANGED <<ldata, batch, wdata, ctl, live, heap, backlog, inbox, wire, nread, sent>>
  BY <1>1 DEF WorkerClose
<1>3. /\ x \in live /\ x \in Addrs /\ f \in Fds /\ Open(f) /\ c \in Conns
      /\ ConnOf(x) = c /\ NoRegFd(f)
  BY <1>1, <1>2, CloseConn DEF ConnOf, SInv, OwnerInv, WorkerInv, WorkerOK
<1>4. /\ wpc'[w] = "free" /\ \A v \in Workers : v # w => wpc'[v] = wpc[v]
      /\ fdtab'[f] = None /\ \A g \in Fds : g # f => fdtab'[g] = fdtab[g]
      /\ \A b \in Conns : b # c => peer'[b] = peer[b]
  BY <1>2, <1>3 DEF TypeOK, PcTypeOK, MemTypeOK
<1>5. \A g \in Fds : g # f => fdtab[g] # c
  BY <1>1, <1>3 DEF SInv, ConnInv
<1>6. ASSUME NEW a, heap[a].fd \in Fds, heap[a].fd # f
      PROVE  ConnOf(a)' = ConnOf(a) /\ ConnOf(a) # c
  BY <1>2, <1>4, <1>5, <1>6 DEF ConnOf
<1>7. ASSUME NEW v \in Workers, NEW a, HasReg(v, a)
      PROVE  ConnOf(a)' = ConnOf(a) /\ ConnOf(a) # c /\ ConnOf(a) \in Conns
  <2>1. heap[a].fd # f /\ heap[a].fd \in Fds /\ ConnOf(a) \in Conns
    BY <1>3, <1>7, RegConn DEF HasReg, NoRegFd, OwnerInv, RegsInv, SInv
  <2>2. QED
    BY <1>6, <2>1
<1>8. ASSUME NEW v \in Workers, v # w, wpc[v] \in {"handle", "ctl", "del", "close"}
      PROVE  /\ ConnOf(wdata[v])' = ConnOf(wdata[v]) /\ ConnOf(wdata[v]) # c
             /\ ConnOf(wdata[v]) \in Conns
  <2>1. CASE wpc[v] # "close"
    <3>1. PICK y : y = wdata[v]
      OBVIOUS
    <3>2. HasReg(v, y)
      BY <1>8, <2>1, <3>1 DEF OwnerInv, WorkerInv, WorkerOK
    <3>3. ConnOf(y)' = ConnOf(y) /\ ConnOf(y) # c /\ ConnOf(y) \in Conns
      BY <1>7, <3>2
    <3>4. ConnOf(wdata[v])' = ConnOf(y)'
      BY <1>2, <3>1 DEF ConnOf
    <3>5. QED
      BY <3>1, <3>3, <3>4
  <2>2. CASE wpc[v] = "close"
    <3>1. heap[wdata[v]].fd \in Fds /\ ConnOf(wdata[v]) \in Conns
      BY <2>2, CloseConn DEF SInv
    <3>2. heap[wdata[v]].fd # f
      BY <1>1, <1>2, <1>3, <1>8, <2>2 DEF HoldsFd, OwnerInv, PrivateInv
    <3>3. wdata'[v] = wdata[v]
      BY <1>2
    <3>4. QED
      BY <1>2, <1>4, <1>5, <3>1, <3>2, <3>3 DEF ConnOf
  <2>3. QED
    BY <2>1, <2>2
<1>9. ConnInv'
  <2> USE DEF SInv, ConnInv
  <2>1. \A a \in live' : heap'[a].fd \in Fds
    BY <1>2
  <2>2. \A g, k \in Fds : Open(g)' /\ fdtab'[g] = fdtab'[k] => g = k
    BY <1>4 DEF Open
  <2>3. \A g \in Fds : Open(g)' => peer'[fdtab'[g]] \in Present
    BY <1>4, <1>5 DEF Open, TypeOK, MemTypeOK
  <2>4. \A b : Served(b)' => Served(b) \/ b = None
    BY <1>4 DEF Served
  <2>5. \A i \in 1 .. Len(backlog) : backlog[i] \in Conns /\ backlog[i] # c /\ backlog[i] # None
    <3> SUFFICES ASSUME NEW i \in 1 .. Len(backlog)
                 PROVE  backlog[i] \in Conns /\ backlog[i] # c /\ backlog[i] # None
      OBVIOUS
    <3>1. backlog[i] \in Conns
      BY ElementOfSeq DEF TypeOK, NetTypeOK
    <3>2. Served(c)
      BY <1>1, <1>3 DEF Served
    <3>3. QED
      BY <3>1, <3>2, NoneAssumption
  <2>6. \A i \in 1 .. Len(backlog') : peer'[backlog'[i]] \in Present /\ ~Served(backlog[i])'
    <3> SUFFICES ASSUME NEW i \in 1 .. Len(backlog)
                 PROVE  peer'[backlog[i]] \in Present /\ ~Served(backlog[i])'
      BY <1>2
    <3>1. peer[backlog[i]] \in Present /\ ~Served(backlog[i])
      OBVIOUS
    <3>2. QED
      BY <1>2, <1>4, <2>5, <3>1 DEF Served
  <2>7. \A i, j \in 1 .. Len(backlog') : backlog'[i] = backlog'[j] => i = j
    BY <1>2
  <2>8. QED
    BY <2>1, <2>2, <2>3, <2>6, <2>7
<1>10. SegInv'
  BY <1>2 DEF SInv, SegInv
<1>11. HandInv'
  <2> SUFFICES ASSUME NEW v \in Workers, wpc'[v] = "handle" PROVE HandOK(v)'
    BY DEF HandInv
  <2>1. HandOK(v) /\ wpc[v] = "handle" /\ v # w
    BY <1>4 DEF SInv, HandInv
  <2>2. ConnOf(wdata[v])' = ConnOf(wdata[v])
    BY <1>8, <2>1
  <2>3. QED
    BY <1>2, <2>1, <2>2 DEF HandOK
<1>12. LenInv'
  <2>1. \A r \in regs' : Sends(r.events, r.data)'
    BY <1>2 DEF SInv, LenInv, Sends
  <2>2. \A v \in Workers : \A g \in batch'[v] : Reported(g)'
    <3> SUFFICES ASSUME NEW v \in Workers, NEW g \in batch[v] PROVE Reported(g)'
      BY <1>2
    <3>1. Reported(g) /\ HasReg(v, g.data)
      BY DEF SInv, LenInv, OwnerInv, BatchInv, BatchOK
    <3>2. ConnOf(g.data)' = ConnOf(g.data) /\ ConnOf(g.data) # c /\ ConnOf(g.data) \in Conns
      BY <1>7, <3>1
    <3>3. QED
      BY <1>2, <1>4, <3>1, <3>2 DEF Reported, Sends
  <2>3. \A v \in Workers : wpc'[v] = "ctl" => Sends(ctl[v].events, ctl[v].data)'
    BY <1>2, <1>4 DEF SInv, LenInv, Sends
  <2>4. QED
    BY <1>2, <2>1, <2>2, <2>3 DEF SInv, LenInv
<1>13. HangInv'
  <2> SUFFICES ASSUME NEW v \in Workers, wpc'[v] \in {"del", "close"} PROVE HangOK(v)'
    BY DEF HangInv
  <2>1. HangOK(v) /\ wpc[v] \in {"del", "close"} /\ v # w
    BY <1>4 DEF SInv, HangInv
  <2>2. /\ ConnOf(wdata[v])' = ConnOf(wdata[v]) /\ ConnOf(wdata[v]) # c
        /\ ConnOf(wdata[v]) \in Conns
    BY <1>8, <2>1
  <2>3. QED
    BY <1>2, <1>4, <2>1, <2>2 DEF HangOK
<1>14. peer[c] = "rst" \/ (peer[c] = "fin" /\ Owed(c) = <<>>)
  <2>1. peer[c] = "rst" \/ (peer[c] = "fin" /\ heap[x].length = 0)
    BY <1>1, <1>2, <1>3 DEF SInv, HangInv, HangOK
  <2>2. Responses(c) \subseteq {x}
    BY <1>1, <1>2, <1>3, RespOnly DEF SInv
  <2>3. ASSUME heap[x].length = 0 PROVE Owed(c) = <<>>
    <3>1. x \notin Responses(c)
      BY <2>3 DEF Responses
    <3>2. Responses(c) = {}
      BY <2>2, <3>1
    <3>3. QED
      BY <3>2 DEF Owed
  <2>4. QED
    BY <2>1, <2>3
<1>15. ASSUME NEW a \in live
       PROVE  /\ ConnOf(a)' # c
              /\ \A b \in Conns : b # c => (ConnOf(a)' = b <=> ConnOf(a) = b)
  <2>1. heap[a].fd \in Fds
    BY DEF SInv, ConnInv
  <2>2. CASE heap[a].fd = f
    <3>1. ConnOf(a)' = None /\ ConnOf(a) = c
      BY <1>1, <1>2, <1>4, <2>2 DEF ConnOf
    <3>2. QED
      BY <1>3, <3>1, NoneAssumption
  <2>3. CASE heap[a].fd # f
    BY <1>6, <2>1, <2>3
  <2>4. QED
    BY <2>2, <2>3
<1>16. Owed(c)' = <<>>
  <2>1. Responses(c)' = {}
    BY <1>2, <1>15 DEF Responses
  <2>2. QED
    BY <2>1 DEF Owed
<1>17. ASSUME NEW b \in Conns, b # c PROVE Owed(b)' = Owed(b)
  <2>1. \A a : a # x => (Finished(a)' <=> Finished(a))
    BY <1>1, <1>2, <1>4 DEF Finished
  <2>2. x \notin Responses(b) /\ x \notin Responses(b)'
    BY <1>3, <1>15, <1>17 DEF Responses
  <2>3. \A a \in live : a # x => (a \in Responses(b)' <=> a \in Responses(b))
    BY <1>2, <1>15, <1>17, <2>1 DEF Responses
  <2>4. \A a : a \in Responses(b)' \/ a \in Responses(b) => a \in live
    BY <1>2 DEF Responses
  <2>5. Responses(b)' = Responses(b)
    BY <2>2, <2>3, <2>4
  <2>6. QED
    BY <1>2, <2>5, OwedFrame
<1>18. ASSUME NEW b \in Conns PROVE Taken(b)' = Taken(b)
  <2>1. \A v \in Workers : Handles(v, b)' <=> Handles(v, b)
    BY <1>2, <1>4, <1>8 DEF Handles
  <2>2. InHand(b)' = InHand(b)
    BY <1>2, <2>1, InHandFrame
  <2>3. QED
    BY <1>2, <2>2 DEF Taken
<1>19. Maps
  BY <1>2, <1>3, <1>14, <1>16, <1>17, <1>18, HangUpMaps
<1>20. QED
  BY <1>9, <1>10, <1>11, <1>12, <1>13, <1>19 DEF SInv

\* delete: the EventData was finished with, and nobody else holds it.
LEMMA DeleteMaps ==
    ASSUME IInv, SInv, NEW w \in Workers, WorkerDelete(w) PROVE SInv' /\ Maps
<1> USE DEF IInv, lisVars, kernVars, netVars
<1>1. PICK x : x = wdata[w]
  OBVIOUS
<1>2. /\ wpc[w] = "free" /\ wpc' = [wpc EXCEPT ![w] = "next"]
      /\ wdata' = [wdata EXCEPT ![w] = None]
      /\ live' = live \ {x} /\ heap' = [heap EXCEPT ![x] = NewEventData(None)]
      /\ UNCHANGED <<lisVars, batch, ctl, kernVars, netVars>>
  BY <1>1 DEF WorkerDelete, Forget
<1>3. /\ x \in live /\ NoReg(x) /\ HoldsAddr(w, x) /\ x # None
  BY <1>1, <1>2, NoneAssumption
     DEF OwnerInv, WorkerInv, WorkerOK, HoldsAddr, TypeOK, MemTypeOK
<1>4. /\ wpc'[w] = "next" /\ wdata'[w] = None
      /\ \A v \in Workers : v # w => wpc'[v] = wpc[v] /\ wdata'[v] = wdata[v]
      /\ \A a \in live : a # x => heap'[a] = heap[a]
  BY <1>2 DEF TypeOK, PcTypeOK, MemTypeOK
<1>5. \A v \in Workers : v # w => ~HoldsAddr(v, x)
  BY <1>3 DEF OwnerInv, PrivateInv, TypeOK, MemTypeOK
<1>6. ASSUME NEW v \in Workers, NEW a, HasReg(v, a)
      PROVE  a \in live /\ a # x /\ ConnOf(a)' = ConnOf(a)
  <2>1. a \in live /\ a # x
    BY <1>3, <1>6 DEF HasReg, NoReg, OwnerInv, RegsInv
  <2>2. QED
    BY <1>2, <1>4, <2>1 DEF ConnOf
<1>7. ASSUME NEW v \in Workers, v # w, wpc[v] \in {"handle", "ctl", "del", "close"}
      PROVE  /\ wdata[v] \in live /\ wdata[v] # x /\ wdata'[v] = wdata[v]
             /\ heap'[wdata[v]] = heap[wdata[v]]
             /\ ConnOf(wdata[v])' = ConnOf(wdata[v])
  <2>1. wdata[v] \in live
    BY <1>7, HeldLive
  <2>2. wdata[v] # x
    BY <1>3, <1>5, <1>7 DEF HoldsAddr, OwnerInv, WorkerInv, WorkerOK, HasReg, NoReg
  <2>3. wdata'[v] = wdata[v] /\ heap'[wdata[v]] = heap[wdata[v]]
    BY <1>4, <1>7, <2>1, <2>2
  <2>4. QED
    BY <1>2, <2>1, <2>2, <2>3 DEF ConnOf
<1>8. ConnInv' /\ SegInv'
  BY <1>2, <1>4 DEF SInv, ConnInv, SegInv, Open, Served
<1>9. HandInv'
  <2> SUFFICES ASSUME NEW v \in Workers, wpc'[v] = "handle" PROVE HandOK(v)'
    BY DEF HandInv
  <2>1. HandOK(v) /\ wpc[v] = "handle" /\ v # w
    BY <1>4 DEF SInv, HandInv
  <2>2. QED
    BY <1>2, <1>7, <2>1 DEF HandOK
<1>10. LenInv'
  <2>1. ASSUME NEW ev, NEW a \in live, a # x PROVE Sends(ev, a)' <=> Sends(ev, a)
    BY <1>4, <2>1 DEF Sends
  <2>2. \A r \in regs' : Sends(r.events, r.data)'
    <3> SUFFICES ASSUME NEW r \in regs PROVE Sends(r.events, r.data)'
      BY <1>2
    <3>1. r.data \in live /\ r.data # x /\ Sends(r.events, r.data)
      BY <1>3 DEF SInv, LenInv, OwnerInv, RegsInv, NoReg
    <3>2. QED
      BY <2>1, <3>1
  <2>3. \A v \in Workers : \A g \in batch'[v] : Reported(g)'
    <3> SUFFICES ASSUME NEW v \in Workers, NEW g \in batch[v] PROVE Reported(g)'
      BY <1>2
    <3>1. Reported(g) /\ HasReg(v, g.data)
      BY DEF SInv, LenInv, OwnerInv, BatchInv, BatchOK
    <3>2. g.data \in live /\ g.data # x /\ ConnOf(g.data)' = ConnOf(g.data)
      BY <1>6, <3>1
    <3>3. QED
      BY <1>2, <2>1, <3>1, <3>2 DEF Reported
  <2>4. ASSUME NEW v \in Workers, wpc'[v] = "ctl" PROVE Sends(ctl[v].events, ctl[v].data)'
    <3>1. v # w /\ wpc[v] = "ctl" /\ ctl[v].data \in live /\ Sends(ctl[v].events, ctl[v].data)
      BY <1>4, <2>4, HeldLive DEF SInv, LenInv
    <3>2. ctl[v].data # x
      BY <1>5, <1>7, <3>1 DEF HoldsAddr
    <3>3. QED
      BY <1>2, <1>4, <3>1, <3>2 DEF Sends
  <2>5. ldata' # None => heap'[ldata'].length = 0
    <3>1. ldata # None => ldata \in live /\ ldata # x
      BY <1>3 DEF OwnerInv, ListenerInv, PrivateInv
    <3>2. QED
      BY <1>2, <1>4, <3>1 DEF SInv, LenInv
  <2>6. QED
    BY <2>2, <2>3, <2>4, <2>5 DEF LenInv
<1>11. HangInv'
  <2> SUFFICES ASSUME NEW v \in Workers, wpc'[v] \in {"del", "close"} PROVE HangOK(v)'
    BY DEF HangInv
  <2>1. HangOK(v) /\ wpc[v] \in {"del", "close"} /\ v # w
    BY <1>4 DEF SInv, HangInv
  <2>2. QED
    BY <1>2, <1>7, <2>1 DEF HangOK
<1>12. Stutters
  <2>1. \A a \in live : a # x => (Finished(a)' <=> Finished(a))
    BY <1>1, <1>2, <1>4, NoneAssumption DEF Finished, TypeOK, MemTypeOK
  <2>2. ASSUME NEW b \in Conns PROVE Owed(b)' = Owed(b)
    <3>1. Finished(x)
      BY <1>1, <1>2 DEF Finished
    <3>2. x \notin Responses(b) /\ x \notin Responses(b)'
      BY <1>2, <3>1 DEF Responses
    <3>3. \A a \in live : a # x => (a \in Responses(b)' <=> a \in Responses(b))
      BY <1>2, <1>4, <2>1 DEF Responses, ConnOf
    <3>4. \A a : a \in Responses(b)' \/ a \in Responses(b) => a \in live
      BY <1>2 DEF Responses
    <3>5. Responses(b)' = Responses(b)
      BY <3>2, <3>3, <3>4
    <3>6. \A a \in Responses(b) : heap'[a] = heap[a]
      BY <1>4, <3>2, <3>4
    <3>7. QED
      BY <3>5, <3>6, OwedFrame
  <2>3. ASSUME NEW b \in Conns PROVE InHand(b)' = InHand(b)
    <3>1. \A v \in Workers : Handles(v, b)' <=> Handles(v, b)
      BY <1>2, <1>4, <1>7 DEF Handles
    <3>2. \A v \in Workers : Handles(v, b) => heap'[wdata'[v]] = heap[wdata[v]]
      BY <1>2, <1>7 DEF Handles
    <3>3. QED
      BY <3>1, <3>2, InHandFrame
  <2>4. QED
    BY <1>2, <2>2, <2>3 DEF Stutters, Taken
<1>13. QED
  BY <1>8, <1>9, <1>10, <1>11, <1>12, StutterMaps DEF SInv
-----------------------------------------------------------------------------
(* The clients.                                                             *)

\* What a client does leaves the workers' knowledge true: a connection that
\* was reset stays so, and one that was closed can only be reset.
LEMMA ClientKeeps ==
    ASSUME SInv, UNCHANGED <<ldata, wkVars, memVars, kernVars>>,
           \A b : peer[b] = "rst" => peer'[b] = "rst",
           \A b : peer[b] = "fin" => peer'[b] \in {"fin", "rst"}
    PROVE  /\ LenInv' /\ HangInv'
           /\ \A b \in Conns : Owed(b)' = Owed(b) /\ InHand(b)' = InHand(b)
<1> USE DEF wkVars, memVars, kernVars
<1>1. LenInv'
  <2>1. \A r \in regs' : Sends(r.events, r.data)'
    BY DEF SInv, LenInv, Sends
  <2>2. \A w \in Workers : \A e \in batch'[w] : Reported(e)'
    BY DEF SInv, LenInv, Reported, Sends, ConnOf
  <2>3. \A w \in Workers : wpc'[w] = "ctl" => Sends(ctl[w].events, ctl[w].data)'
    BY DEF SInv, LenInv, Sends
  <2>4. ldata' # None => heap'[ldata'].length = 0
    BY DEF SInv, LenInv
  <2>5. QED
    BY <2>1, <2>2, <2>3, <2>4 DEF LenInv
<1>2. HangInv'
  BY DEF SInv, HangInv, HangOK, ConnOf
<1>3. ASSUME NEW b \in Conns PROVE Owed(b)' = Owed(b) /\ InHand(b)' = InHand(b)
  <2>1. Responses(b)' = Responses(b)
    BY DEF Responses, Finished, ConnOf
  <2>2. \A w \in Workers : Handles(w, b)' <=> Handles(w, b)
    BY DEF Handles, ConnOf
  <2>3. QED
    BY <2>1, <2>2, OwedFrame, InHandFrame
<1>4. QED
  BY <1>1, <1>2, <1>3

\* A client connects, closes or resets: a step of the session's client.
LEMMA PeerMaps ==
    ASSUME IInv, SInv, NEW c \in Conns, Connect(c) \/ ClientClose(c) \/ ClientReset(c)
    PROVE  SInv' /\ Maps
<1> USE DEF IInv, lisVars, wkVars, memVars, kernVars
<1>1. PICK q \in {"open", "fin", "rst"} :
         /\ peer' = [peer EXCEPT ![c] = q]
         /\ <<peer[c], q>> \in {<<"none", "open">>, <<"open", "fin">>, <<"open", "rst">>,
                                <<"fin", "rst">>}
  <2>1. CASE Connect(c)
    BY <2>1 DEF Connect
  <2>2. CASE ClientClose(c)
    BY <2>2 DEF ClientClose
  <2>3. CASE ClientReset(c)
    BY <2>3 DEF ClientReset
  <2>4. QED
    BY <2>1, <2>2, <2>3
<1>2. /\ UNCHANGED <<ldata, wkVars, memVars, kernVars, inbox, wire, nread, sent>>
      /\ backlog' = backlog \/ (peer[c] = "none" /\ backlog' = Append(backlog, c))
  BY DEF Connect, ClientClose, ClientReset
<1>3. /\ peer'[c] = q /\ \A b \in Conns : b # c => peer'[b] = peer[b]
      /\ \A b : peer[b] = "rst" => peer'[b] = "rst"
      /\ \A b : peer[b] = "fin" => peer'[b] \in {"fin", "rst"}
      /\ \A b \in Conns : peer[b] \in Present => peer'[b] \in Present
  BY <1>1 DEF TypeOK, NetTypeOK, Present
<1>4. LenInv' /\ HangInv' /\ \A b \in Conns : Owed(b)' = Owed(b) /\ InHand(b)' = InHand(b)
  BY <1>2, <1>3, ClientKeeps
<1>5. ConnInv'
  <2>1. /\ \A a \in live' : heap'[a].fd \in Fds
        /\ \A f, g \in Fds : Open(f)' /\ fdtab'[f] = fdtab'[g] => f = g
    BY <1>2 DEF SInv, ConnInv, Open
  <2>2. \A f \in Fds : Open(f)' => peer'[fdtab'[f]] \in Present
    BY <1>2, <1>3 DEF SInv, ConnInv, Open, TypeOK, MemTypeOK
  <2>3. /\ \A i \in 1 .. Len(backlog) :
              /\ backlog[i] \in Conns /\ peer'[backlog[i]] \in Present
              /\ ~Served(backlog[i])' /\ (peer[c] = "none" => backlog[i] # c)
        /\ \A i, j \in 1 .. Len(backlog) : backlog[i] = backlog[j] => i = j
    <3> SUFFICES ASSUME NEW i \in 1 .. Len(backlog)
                 PROVE  /\ backlog[i] \in Conns /\ peer'[backlog[i]] \in Present
                        /\ ~Served(backlog[i])' /\ (peer[c] = "none" => backlog[i] # c)
      BY DEF SInv, ConnInv
    <3>1. backlog[i] \in Conns
      BY ElementOfSeq DEF TypeOK, NetTypeOK
    <3>2. peer[backlog[i]] \in Present /\ ~Served(backlog[i])
      BY DEF SInv, ConnInv
    <3>3. ~Served(backlog[i])'
      <4>1. backlog'[i] = backlog[i]
        <5>1. CASE backlog' = Append(backlog, c)
          BY <5>1, AppendProperties DEF TypeOK, NetTypeOK
        <5>2. QED
          BY <1>2, <5>1
      <4>2. QED
        BY <1>2, <3>2, <4>1 DEF Served
    <3>4. QED
      BY <1>3, <3>1, <3>2, <3>3 DEF Present
  <2>4. CASE backlog' = backlog
    BY <2>1, <2>2, <2>3, <2>4 DEF ConnInv
  <2>5. CASE peer[c] = "none" /\ backlog' = Append(backlog, c)
    <3>1. PICK n \in Nat : n = Len(backlog)
      BY LenProperties DEF TypeOK, NetTypeOK
    <3>2. /\ Len(backlog') = n + 1 /\ backlog'[n + 1] = c
          /\ \A i \in 1 .. n : backlog'[i] = backlog[i]
      BY <2>5, <3>1, AppendProperties DEF TypeOK, NetTypeOK
    <3>3. peer'[c] \in Present /\ ~\E f \in Fds : fdtab'[f] = c
      BY <1>1, <1>2, <1>3, <2>5, NoneAssumption DEF SInv, ConnInv, Present, Open
    <3>4. ASSUME NEW i \in 1 .. n + 1
          PROVE  peer'[backlog'[i]] \in Present /\ ~Served(backlog[i])'
      <4>1. CASE i = n + 1
        BY <3>2, <3>3, <4>1 DEF Served
      <4>2. CASE i \in 1 .. n
        BY <2>3, <3>1, <3>2, <4>2
      <4>3. QED
        BY <4>1, <4>2
    <3>5. ASSUME NEW i \in 1 .. n + 1, NEW j \in 1 .. n + 1, backlog'[i] = backlog'[j]
          PROVE  i = j
      <4>1. \A k \in 1 .. n : backlog'[k] = backlog[k] /\ backlog[k] # c
        BY <2>3, <2>5, <3>1, <3>2
      <4>2. CASE i \in 1 .. n /\ j \in 1 .. n
        BY <2>3, <3>1, <3>5, <4>1, <4>2
      <4>3. CASE i = n + 1 \/ j = n + 1
        BY <3>2, <3>5, <4>1, <4>3
      <4>4. QED
        BY <4>2, <4>3
    <3>6. QED
      BY <2>1, <2>2, <3>2, <3>4, <3>5 DEF ConnInv
  <2>6. QED
    BY <1>2, <2>4, <2>5
<1>6. SegInv' /\ HandInv'
  <2>1. SegInv'
    BY <1>2 DEF SInv, SegInv
  <2>2. HandInv'
    BY <1>2 DEF SInv, HandInv, HandOK, ConnOf
  <2>3. QED
    BY <2>1, <2>2
<1>7. Maps
  <2>1. [b \in Conns |-> Owed(b)]' = [b \in Conns |-> Owed(b)]
    BY <1>4
  <2>2. [b \in Conns |-> sent[b] - Len(inbox[b]) - InHand(b)]'
          = [b \in Conns |-> sent[b] - Len(inbox[b]) - InHand(b)]
    BY <1>2, <1>4
  <2>3. Session!Client(c)
    BY <1>1, <1>2, <1>3, <2>1, <2>2 DEF Session!Client
  <2>4. QED
    BY <2>3 DEF Maps, Session!Next
<1>8. QED
  BY <1>4, <1>5, <1>6, <1>7 DEF SInv

\* A client sends its next segment: the run waiting to be received grows at
\* its end, and nothing is taken.
LEMMA SendMaps ==
    ASSUME IInv, SInv, NEW c \in Conns, ClientSend(c) PROVE SInv' /\ Maps
<1> USE DEF IInv, lisVars
<1>1. PICK s, m : s = sent[c] /\ m = Len(inbox[c])
  OBVIOUS
<1>2. /\ s \in Nat /\ m \in Nat /\ m <= s /\ inbox[c] = Run(s - m, m)
      /\ sent \in [Conns -> Nat] /\ inbox \in [Conns -> Seq(Nat \X Nat)]
  BY <1>1, LenProperties DEF SInv, SegInv, TypeOK, NetTypeOK
<1>3. /\ inbox' = [inbox EXCEPT ![c] =
                      Append(@, <<(s \div Pieces) + 1, (s % Pieces) + 1>>)]
      /\ sent' = [sent EXCEPT ![c] = @ + 1]
      /\ UNCHANGED <<ldata, wkVars, memVars, kernVars, backlog, peer, wire, nread>>
  BY <1>1 DEF ClientSend
<1>4. /\ sent'[c] = s + 1 /\ \A b \in Conns : b # c => sent'[b] = sent[b]
      /\ \A b \in Conns : b # c => inbox'[b] = inbox[b]
  BY <1>1, <1>2, <1>3
<1>5. inbox'[c] = Run(s - m, m + 1) /\ Len(inbox'[c]) = m + 1
  <2>1. PICK k \in Nat : k = s - m
    BY <1>2
  <2>2. Session!Segment(k + m + 1) = <<(s \div Pieces) + 1, (s % Pieces) + 1>>
    <3>1. PICK j : j = k + m + 1
      OBVIOUS
    <3>2. j - 1 = s
      BY <1>2, <2>1, <3>1
    <3>3. Session!Segment(j) = <<(s \div Pieces) + 1, (s % Pieces) + 1>>
      BY <3>2 DEF Session!Segment
    <3>4. QED
      BY <3>1, <3>3
  <2>3. Append(Run(k, m), Session!Segment(k + m + 1)) = Run(k, m + 1)
    BY <1>2, RunAppend
  <2>4. inbox'[c] = Run(k, m + 1)
    BY <1>2, <1>3, <2>1, <2>2, <2>3
  <2>5. Len(Run(k, m + 1)) = m + 1
    <3>1. m + 1 \in Nat
      BY <1>2
    <3>2. QED
      BY <3>1, RunLen
  <2>6. QED
    BY <2>1, <2>4, <2>5
<1>6. LenInv' /\ HangInv' /\ \A b \in Conns : Owed(b)' = Owed(b) /\ InHand(b)' = InHand(b)
  BY <1>3, ClientKeeps
<1>7. ConnInv'
  BY <1>3 DEF SInv, ConnInv, Open, Served, memVars, kernVars
<1>8. SegInv'
  <2> SUFFICES ASSUME NEW b \in Conns
               PROVE  /\ Len(inbox'[b]) <= sent'[b]
                      /\ inbox'[b] = Run(sent'[b] - Len(inbox'[b]), Len(inbox'[b]))
    BY DEF SegInv, Run
  <2>1. CASE b # c
    BY <1>4, <2>1 DEF SInv, SegInv
  <2>2. CASE b = c
    <3>1. s + 1 - (m + 1) = s - m /\ m + 1 <= s + 1
      BY <1>2
    <3>2. sent'[c] - Len(inbox'[c]) = s - m /\ Len(inbox'[c]) <= sent'[c]
      <4>1. PICK t, l : t = sent'[c] /\ l = Len(inbox'[c])
        OBVIOUS
      <4>2. t = s + 1 /\ l = m + 1
        BY <1>4, <1>5, <4>1
      <4>3. t - l = s - m /\ l <= t
        BY <1>2, <4>2
      <4>4. QED
        BY <4>1, <4>3
    <3>3. Run(sent'[c] - Len(inbox'[c]), Len(inbox'[c])) = Run(s - m, m + 1)
      BY <1>5, <3>2
    <3>4. QED
      BY <1>5, <2>2, <3>2, <3>3
  <2>3. QED
    BY <2>1, <2>2
<1>9. HandInv'
  <2> SUFFICES ASSUME NEW w \in Workers, wpc'[w] = "handle" PROVE HandOK(w)'
    BY DEF HandInv
  <2>1. PICK d, b : d = heap[wdata[w]] /\ b = ConnOf(wdata[w])
    OBVIOUS
  <2>2. /\ d = heap'[wdata'[w]] /\ b = ConnOf(wdata[w])' /\ b \in Conns
        /\ wpc[w] = "handle"
    BY <1>3, <2>1, CloseConn DEF ConnOf, wkVars, memVars, kernVars, SInv
  <2>3. /\ d.length = 0 /\ Len(d.buffer) \in 1 .. kMaxBufferSize
        /\ Len(inbox[b]) + Len(d.buffer) <= sent[b]
        /\ d.buffer = Run(sent[b] - Len(inbox[b]) - Len(d.buffer), Len(d.buffer))
    BY <2>1, <2>2 DEF SInv, HandInv, HandOK
  <2>4. /\ Len(inbox'[b]) + Len(d.buffer) <= sent'[b]
        /\ d.buffer = Run(sent'[b] - Len(inbox'[b]) - Len(d.buffer), Len(d.buffer))
    <3>1. CASE b # c
      BY <1>4, <2>2, <2>3, <3>1
    <3>2. CASE b = c
      <4>1. PICK l \in Nat : l = Len(d.buffer)
        BY <2>3, BoundsAssumption
      <4>2. (s + 1) - (m + 1) - l = s - m - l /\ (m + l <= s => (m + 1) + l <= s + 1)
        BY <1>2
      <4>3. m + l <= s /\ d.buffer = Run(s - m - l, l)
        BY <1>1, <2>3, <3>2, <4>1
      <4>4. QED
        BY <1>4, <1>5, <3>2, <4>1, <4>2, <4>3
    <3>3. QED
      BY <3>1, <3>2
  <2>5. QED
    BY <2>2, <2>3, <2>4 DEF HandOK, Run
<1>10. Stutters
  <2>1. ASSUME NEW b \in Conns PROVE Taken(b)' = Taken(b)
    <3>1. InHand(b)' = InHand(b)
      BY <1>6
    <3>2. sent'[b] - Len(inbox'[b]) = sent[b] - Len(inbox[b])
      <4>1. CASE b # c
        BY <1>4, <4>1
      <4>2. CASE b = c
        <5>1. (s + 1) - (m + 1) = s - m
          BY <1>2
        <5>2. QED
          BY <1>1, <1>4, <1>5, <4>2, <5>1
      <4>3. QED
        BY <4>1, <4>2
    <3>3. QED
      BY <3>1, <3>2 DEF Taken
  <2>2. QED
    BY <1>3, <1>6, <2>1 DEF Stutters
<1>11. QED
  BY <1>6, <1>7, <1>8, <1>9, <1>10, StutterMaps DEF SInv

\* Whatever a client does.
LEMMA ClientMaps ==
    ASSUME IInv, SInv, NEW c \in Conns, ClientStep(c) PROVE SInv' /\ Maps
<1>1. CASE ClientRead(c)
  <2>1. UNCHANGED <<ldata, wkVars, memVars, kernVars, backlog, peer, inbox, wire, sent>>
    BY <1>1 DEF ClientRead, lisVars
  <2>2. LenInv' /\ HangInv' /\ \A b \in Conns : Owed(b)' = Owed(b) /\ InHand(b)' = InHand(b)
    BY <2>1, ClientKeeps
  <2>3. ConnInv' /\ SegInv' /\ HandInv'
    BY <2>1 DEF SInv, ConnInv, SegInv, HandInv, HandOK, ConnOf, Open, Served, wkVars,
                memVars, kernVars
  <2>4. Stutters
    BY <2>1, <2>2 DEF Stutters, Taken
  <2>5. QED
    BY <2>2, <2>3, <2>4, StutterMaps DEF SInv
<1>2. QED
  BY <1>1, PeerMaps, SendMaps DEF ClientStep
-----------------------------------------------------------------------------
(* The theorem.                                                             *)

\* Before Start there is neither a connection nor an EventData.
LEMMA InitSInv == Init => SInv
<1> SUFFICES ASSUME Init PROVE SInv
  OBVIOUS
<1>1. ConnInv
  <2>1. \A f \in Fds : ~Open(f)
    BY DEF Init, Open
  <2>2. live = {} /\ Len(backlog) = 0
    BY DEF Init
  <2>3. QED
    BY <2>1, <2>2 DEF ConnInv
<1>2. SegInv
  <2> SUFFICES ASSUME NEW c \in Conns
               PROVE  Len(inbox[c]) <= sent[c] /\ inbox[c] = Run(sent[c] - Len(inbox[c]), Len(inbox[c]))
    BY DEF SegInv
  <2>1. inbox[c] = <<>> /\ sent[c] = 0 /\ Len(inbox[c]) = 0
    BY DEF Init
  <2>2. Run(0, 0) = <<>>
    BY RunLen, RunType, EmptySeq
  <2>3. QED
    BY <2>1, <2>2
<1>3. HandInv /\ LenInv /\ HangInv
  BY DEF Init, HandInv, LenInv, HangInv
<1>4. QED
  BY <1>1, <1>2, <1>3 DEF SInv

\* Every step of every thread and client keeps SInv and is a step of the
\* session or a stutter.
LEMMA NextSInv == IInv /\ LeakInv /\ SInv /\ IInv' /\ [Next]_vars => SInv' /\ Maps
<1> SUFFICES ASSUME IInv, LeakInv, SInv, IInv', [Next]_vars PROVE SInv' /\ Maps
  OBVIOUS
<1>1. CASE MainStep \/ Stop \/ StartFails
  BY <1>1, MainMaps
<1>2. CASE ListenerStep
  BY <1>2, ListenMaps
<1>3. ASSUME NEW w \in Workers, WorkerStep(w) PROVE SInv' /\ Maps
  <2>1. CASE WorkerCheck(w) \/ EpollWait(w) \/ BatchDone(w) \/ WorkerDel(w)
    BY <2>1, LoopMaps
  <2>2. ASSUME NEW e \in batch[w],
               \/ TakeError(w, e) \/ RecvEnd(w, e) \/ RecvAgain(w, e)
               \/ SendAgain(w, e) \/ SendError(w, e)
        PROVE  SInv' /\ Maps
    BY <2>2, TakeMaps
  <2>3. ASSUME NEW e \in batch[w], RecvData(w, e) PROVE SInv' /\ Maps
    BY <2>3, RecvMaps
  <2>4. ASSUME NEW e \in batch[w], NEW n \in 1 .. SndBuf, SendPart(w, e, n)
        PROVE  SInv' /\ Maps
    BY <2>4, PartMaps
  <2>5. ASSUME NEW e \in batch[w], NEW a \in Addrs, SendRest(w, e, a) PROVE SInv' /\ Maps
    BY <2>5, RestMaps
  <2>6. ASSUME NEW a \in Addrs, NEW len \in RespLens, HandleHttpData(w, a, len)
        PROVE  SInv' /\ Maps
    BY <2>6, HandleMaps
  <2>7. CASE WorkerCtl(w) \/ WorkerClose(w) \/ WorkerDelete(w)
    BY <2>7, CtlMaps, CloseMaps, DeleteMaps
  <2>8. QED
    BY <1>3, <2>1, <2>2, <2>3, <2>4, <2>5, <2>6, <2>7 DEF WorkerStep
<1>4. ASSUME NEW c \in Conns, ClientStep(c) PROVE SInv' /\ Maps
  BY <1>4, ClientMaps
<1>5. CASE UNCHANGED vars
  <2>1. UNCHANGED <<wkVars, memVars, kernVars, netVars, lisVars>>
    BY <1>5 DEF vars
  <2>2. QED
    BY <2>1, Quiet, StutterMaps DEF IInv, wkVars, kernVars, lisVars
<1>6. QED
  BY <1>1, <1>2, <1>3, <1>4, <1>5 DEF Next

\* HttpServer implements HttpSession, whatever the bounds: over all threads,
\* descriptors and epoll sets, every segment a client sends is answered once
\* and in order, responses go out whole and are not mixed, and only a client
\* that has left is hung up on (HandleEpollEvent).
THEOREM Implements == Spec => ImplementsSession
<1>1. LeakInv <=> NoLeak
  BY LeakIsNoLeak
<1>2. QED
  BY <1>1, InitMaps, InitSInv, NextSInv, Invariance, NothingLeaked, PTL
     DEF Spec, ImplementsSession, Session!Spec, Maps
=============================================================================
