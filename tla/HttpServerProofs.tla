-------------------------- MODULE HttpServerProofs --------------------------
(***************************************************************************)
(* Proofs about HttpServer, for every number of workers, descriptors,      *)
(* connections and every bound: the types, the inductive invariant on who  *)
(* owns which EventData and descriptor, and what follows from it.          *)
(***************************************************************************)
EXTENDS HttpServer, SequenceTheorems, TLAPS

Starting == {"created", "setup", "flag", "listener"}
EpollsOpen == {"flag", "listener", "workers", "exec", "join_listener",
               "join_workers", "close_epolls"}

\* Where the threads can be while the main thread is in Start or Stop.
PcInv ==
    /\ main \in Starting => lpc = "none" /\ \A w \in Workers : wpc[w] = "none"
    /\ main \in {"listener", "workers", "exec"} =>
          running_ /\ lpc # "done" /\ \A w \in Workers : wpc[w] # "done"
    /\ main = "exec" => \A w \in Workers : wpc[w] # "none"
    /\ main \in {"join_workers", "close_epolls", "close_sock", "end"} => lpc = "done"
    /\ main \in {"close_epolls", "close_sock", "end"} =>
          \A w \in Workers : wpc[w] = "done"
    /\ main \in EpollsOpen => epollOpen = Workers

\* A registration leads to an allocated EventData of an open descriptor, and
\* a descriptor is registered once over all epoll sets.
RegsInv ==
    /\ \A r \in regs : r.data \in live /\ heap[r.data].fd = r.fd /\ Open(r.fd)
    /\ \A r, q \in regs : r.fd = q.fd => r = q

HasReg(w, a) == \E r \in regs : r.ep = w /\ r.data = a
NoReg(a) == \A r \in regs : r.data # a
NoRegFd(f) == \A r \in regs : r.fd # f

\* The events a worker has still to handle are of its own registrations.
BatchOK(w) ==
    /\ \A e \in batch[w] : HasReg(w, e.data) /\ e.data # wdata[w]
    /\ \A e, g \in batch[w] : e.data = g.data => e = g
    /\ wpc[w] \in {"none", "check", "poll", "done"} => batch[w] = {}

BatchInv == \A w \in Workers : BatchOK(w)

\* What a worker knows of the EventData it handles, by place.
WorkerOK(w) ==
    /\ wpc[w] \notin {"handle", "ctl", "del", "close", "free"} => wdata[w] = None
    /\ wpc[w] \in {"handle", "ctl", "del"} => HasReg(w, wdata[w])
    /\ wpc[w] # "ctl" => ctl[w].data = None
    /\ wpc[w] = "ctl" =>
          /\ ctl[w].data \in live
          /\ heap[ctl[w].data].fd = heap[wdata[w]].fd
          /\ ctl[w].op = "ADD" => ctl[w].data = wdata[w] /\ again.send > 0
          /\ ctl[w].data = wdata[w] \/ NoReg(ctl[w].data)
    /\ wpc[w] \in {"close", "free"} => wdata[w] \in live /\ NoReg(wdata[w])
    /\ wpc[w] = "close" =>
          /\ heap[wdata[w]].fd \in Fds
          /\ Open(heap[wdata[w]].fd)
          /\ NoRegFd(heap[wdata[w]].fd)

WorkerInv == \A w \in Workers : WorkerOK(w)

ListenerInv ==
    /\ lpc # "add" => lfd = None /\ ldata = None
    /\ lpc = "add" =>
          /\ lfd \in Fds /\ Open(lfd) /\ NoRegFd(lfd)
          /\ ldata \in live /\ NoReg(ldata) /\ heap[ldata].fd = lfd

\* Addresses and descriptors no epoll set knows are each held by one thread.
HoldsAddr(w, a) ==
    \/ wpc[w] \in {"close", "free"} /\ a = wdata[w]
    \/ wpc[w] = "ctl" /\ a = ctl[w].data /\ a # wdata[w]

HoldsFd(w, f) == wpc[w] = "close" /\ f = heap[wdata[w]].fd

PrivateInv ==
    /\ \A v, w \in Workers, a \in Addrs : HoldsAddr(v, a) /\ HoldsAddr(w, a) => v = w
    /\ \A v, w \in Workers, f \in Fds : HoldsFd(v, f) /\ HoldsFd(w, f) => v = w
    /\ \A w \in Workers : ~HoldsAddr(w, ldata) /\ ~HoldsFd(w, lfd)

OwnerInv ==
    /\ PcInv /\ RegsInv /\ BatchInv /\ WorkerInv /\ ListenerInv /\ PrivateInv
    /\ OnlyRetryTerminates
-----------------------------------------------------------------------------
\* What send copies of a response is a sequence of bytes.
LEMMA BytesType ==
    ASSUME NEW d \in EventData, NEW n \in Nat
    PROVE  Bytes(d, n) \in Seq(Byte)
BY DEF Bytes, EventData, Byte

\* Both parts of a sequence cut in two are sequences of the same kind.
LEMMA PrefixType ==
    ASSUME NEW S, NEW s \in Seq(S), NEW n \in Nat, n <= Len(s)
    PROVE  /\ SubSeq(s, 1, n) \in Seq(S)
           /\ SubSeq(s, n + 1, Len(s)) \in Seq(S)
BY SubSeqProperties, LenProperties

(* The parts of TypeOK a step leaves alone.                                 *)
LEMMA PcSame == PcTypeOK /\ UNCHANGED <<fate, mainVars, lisVars, wkVars>> => PcTypeOK'
BY DEF PcTypeOK, mainVars, lisVars, wkVars, Workers

\* Objects, registrations and descriptors that do not change keep their types.
LEMMA MemSame == MemTypeOK /\ UNCHANGED <<memVars, kernVars>> => MemTypeOK'
BY DEF MemTypeOK, memVars, kernVars

\* Connections and their bytes that do not change keep their types.
LEMMA NetSame == NetTypeOK /\ UNCHANGED <<netVars, again>> => NetTypeOK'
BY DEF NetTypeOK, netVars

\* epoll_ctl leaves registrations in the sets and the process up or ended by
\* an exception, whether the call succeeds or is refused.
LEMMA CtlType ==
    ASSUME MemTypeOK, Up, NEW op, NEW w \in Workers, NEW f \in Fds \cup {None},
           NEW ev \in {"IN", "OUT"}, NEW a \in Addrs \cup {None},
           op = "DEL" \/ (f \in Fds /\ a \in Addrs),
           control_epoll_event(op, w, f, ev, a)
    PROVE  regs' \subseteq Registration /\ fate' \in {"up", "terminated"}
BY DEF MemTypeOK, Up, control_epoll_event, Without, Registration

\* A client's steps keep the types.
LEMMA ClientType ==
    ASSUME TypeOK, NEW c \in Conns, ClientStep(c) PROVE TypeOK'
<1>1. PcTypeOK' /\ MemTypeOK'
  BY PcSame, MemSame
     DEF TypeOK, ClientStep, Connect, ClientSend, ClientRead, ClientClose, ClientReset,
         mainVars, lisVars, wkVars, memVars, kernVars
<1>2. NetTypeOK'
  <2>1. CASE Connect(c)
    <3>1. Append(backlog, c) \in Seq(Conns)
      BY AppendProperties DEF TypeOK, NetTypeOK
    <3>2. QED
      BY <2>1, <3>1 DEF TypeOK, NetTypeOK, Connect
  <2>2. CASE ClientSend(c)
    <3> DEFINE seg == <<(sent[c] \div Pieces) + 1, (sent[c] % Pieces) + 1>>
    <3>1. sent[c] \in Nat /\ Pieces \in Nat \ {0}
      BY BoundsAssumption DEF TypeOK, NetTypeOK
    <3>2. seg \in Nat \X Nat
      BY <3>1
    <3>3. Append(inbox[c], seg) \in Seq(Nat \X Nat)
      BY <3>2, AppendProperties DEF TypeOK, NetTypeOK
    <3>4. /\ inbox' = [inbox EXCEPT ![c] = Append(inbox[c], seg)]
          /\ sent' = [sent EXCEPT ![c] = @ + 1]
          /\ UNCHANGED <<backlog, peer, wire, nread, again>>
      BY <2>2 DEF ClientSend
    <3> HIDE DEF seg
    <3>5. QED
      BY <3>1, <3>3, <3>4 DEF TypeOK, NetTypeOK
  <2>3. CASE ClientRead(c)
    BY <2>3, LenProperties DEF TypeOK, NetTypeOK, ClientRead
  <2>4. CASE ClientClose(c) \/ ClientReset(c)
    BY <2>4 DEF TypeOK, NetTypeOK, ClientClose, ClientReset
  <2>5. QED
    BY <2>1, <2>2, <2>3, <2>4 DEF ClientStep
<1>3. QED
  BY <1>1, <1>2 DEF TypeOK

\* The listener's steps keep the types; ListenAdd needs to know that what it
\* holds is a descriptor and an object.
LEMMA ListenerType == ASSUME TypeOK, ListenerInv, ListenerStep PROVE TypeOK'
<1>1. CASE ListenCheck \/ AcceptNone
  BY <1>1, MemSame, NetSame DEF TypeOK, PcTypeOK, ListenCheck, AcceptNone, mainVars, wkVars
<1>2. CASE ListenAdd
  <2> USE <1>2 DEF ListenAdd
  <2>1. regs' \subseteq Registration /\ fate' \in {"up", "terminated"}
    BY CtlType DEF TypeOK, PcTypeOK, MemTypeOK, ListenerInv
  <2>2. current_worker' \in Workers
    BY PoolAssumption DEF TypeOK, PcTypeOK, Workers
  <2>3. PcTypeOK'
    BY <2>1, <2>2 DEF TypeOK, PcTypeOK, mainVars, wkVars
  <2>4. MemTypeOK' /\ NetTypeOK'
    BY <2>1, NetSame DEF TypeOK, MemTypeOK, memVars
  <2>5. QED
    BY <2>3, <2>4 DEF TypeOK
<1>3. ASSUME NEW f \in Fds, NEW a \in Addrs, Accept(f, a) PROVE TypeOK'
  <2> USE <1>3 DEF Accept
  <2>1. PcTypeOK'
    BY DEF TypeOK, PcTypeOK, mainVars, wkVars
  <2>2. Head(backlog) \in Conns /\ Tail(backlog) \in Seq(Conns)
    BY HeadTailProperties DEF TypeOK, NetTypeOK
  <2>3. NewEventData(f) \in EventData
    BY DEF NewEventData, EventData
  <2>4. MemTypeOK'
    BY <2>2, <2>3 DEF TypeOK, MemTypeOK, Put
  <2>5. NetTypeOK'
    BY <2>2 DEF TypeOK, NetTypeOK
  <2>6. QED
    BY <2>1, <2>4, <2>5 DEF TypeOK
<1>4. QED
  BY <1>1, <1>2, <1>3 DEF ListenerStep

\* Start and Stop keep the types.
LEMMA MainType == ASSUME TypeOK, MainStep \/ Stop \/ StartFails PROVE TypeOK'
<1>1. CASE BindAndListen \/ SetUpEpoll \/ SetRunning \/ SpawnListener
  BY <1>1, MemSame, NetSame DEF TypeOK, PcTypeOK, BindAndListen, SetUpEpoll, SetRunning,
     SpawnListener, lisVars, wkVars
<1>2. ASSUME NEW w \in Workers, SpawnWorker(w) PROVE TypeOK'
  BY <1>2, MemSame, NetSame DEF TypeOK, PcTypeOK, SpawnWorker, lisVars
<1>3. CASE Stop \/ StartFails \/ JoinListener \/ JoinWorkers \/ CloseSock
  BY <1>3, MemSame, NetSame DEF TypeOK, PcTypeOK, Stop, StartFails, JoinListener,
     JoinWorkers, CloseSock, mainVars, lisVars, wkVars
<1>4. CASE CloseEpolls
  BY <1>4, NetSame DEF TypeOK, PcTypeOK, MemTypeOK, CloseEpolls, lisVars, wkVars, memVars
<1>5. QED
  BY <1>1, <1>2, <1>3, <1>4 DEF MainStep

\* A worker's steps keep the types; that the events of its batch and the
\* call it is about to make are well formed is part of what it holds.
LEMMA WorkerType ==
    ASSUME TypeOK, RegsInv, BatchInv, WorkerInv, NEW w \in Workers, WorkerStep(w)
    PROVE  TypeOK'
<1>1. CASE WorkerCheck(w) \/ BatchDone(w)
  BY <1>1, MemSame, NetSame DEF TypeOK, PcTypeOK, WorkerCheck, BatchDone, mainVars, lisVars
<1>2. CASE EpollWait(w)
  <2>1. ReadyEvents(w) \subseteq [events : {"IN", "OUT", "ERR"}, data : Addrs]
    BY DEF ReadyEvents, Ready, TypeOK, MemTypeOK, Registration
  <2>2. QED
    BY <1>2, <2>1, MemSame, NetSame DEF TypeOK, PcTypeOK, EpollWait, mainVars, lisVars
<1>3. ASSUME NEW e \in batch[w], NEW pc \in {"handle", "ctl", "del"}, Take(w, e, pc)
      PROVE  /\ wpc' \in [Workers -> {"none", "check", "poll", "next", "handle", "ctl",
                                      "del", "close", "free", "done"}]
             /\ batch' \in [Workers -> SUBSET [events : {"IN", "OUT", "ERR"}, data : Addrs]]
             /\ wdata' \in [Workers -> Addrs \cup {None}]
             /\ e.data \in Addrs
  BY <1>3 DEF TypeOK, PcTypeOK, Take
<1>4. ASSUME NEW e \in batch[w], TakeError(w, e) \/ RecvEnd(w, e) \/ SendError(w, e)
      PROVE  TypeOK'
  BY <1>3, <1>4, MemSame, NetSame
     DEF TypeOK, PcTypeOK, TakeError, RecvEnd, SendError, mainVars, lisVars
<1>5. ASSUME NEW e \in batch[w], RecvData(w, e) PROVE TypeOK'
  <2> DEFINE c == ConnOf(e.data)
             n == IF Len(inbox[c]) < kMaxBufferSize THEN Len(inbox[c]) ELSE kMaxBufferSize
  <2>1. c \in Conns /\ e.data \in Addrs
    BY DEF TypeOK, PcTypeOK, MemTypeOK, BatchInv, BatchOK, HasReg, RegsInv, Registration, ConnOf, Open
  <2>2. n \in Nat /\ n <= Len(inbox[c])
    BY <2>1, BoundsAssumption, LenProperties DEF TypeOK, NetTypeOK
  <2>3. /\ SubSeq(inbox[c], 1, n) \in Seq(Nat \X Nat)
        /\ SubSeq(inbox[c], n + 1, Len(inbox[c])) \in Seq(Nat \X Nat)
    BY <2>1, <2>2, PrefixType DEF TypeOK, NetTypeOK
  <2>4. PcTypeOK'
    BY <1>3, <1>5 DEF TypeOK, PcTypeOK, RecvData, mainVars, lisVars
  <2>5. MemTypeOK'
    BY <1>5, <2>1, <2>3 DEF TypeOK, MemTypeOK, RecvData, kernVars, EventData
  <2>6. NetTypeOK'
    BY <1>5, <2>1, <2>3 DEF TypeOK, NetTypeOK, RecvData
  <2>7. QED
    BY <2>4, <2>5, <2>6 DEF TypeOK
<1>6. ASSUME NEW e \in batch[w], RecvAgain(w, e) \/ SendAgain(w, e) PROVE TypeOK'
  <2>1. again' \in [recv : Nat, send : Nat] /\ UNCHANGED netVars
    <3>1. again \in [recv : Nat, send : Nat]
      BY DEF TypeOK, NetTypeOK
    <3>2. again' = [again EXCEPT !.recv = @ + 1] \/ again' = [again EXCEPT !.send = @ + 1]
      BY <1>6 DEF RecvAgain, SendAgain
    <3>3. again' \in [recv : Nat, send : Nat]
      BY <3>1, <3>2
    <3>4. UNCHANGED netVars
      BY <1>6 DEF RecvAgain, SendAgain
    <3>5. QED
      BY <3>3, <3>4
  <2>2. Take(w, e, "ctl") /\ UNCHANGED <<fate, mainVars, lisVars, memVars, kernVars>>
    BY <1>6 DEF RecvAgain, SendAgain
  <2>3. /\ ctl' \in [Workers -> [op : {"MOD", "ADD"}, events : {"IN", "OUT"},
                                 data : Addrs \cup {None}]]
        /\ e.data \in Addrs
    BY <1>3, <1>6, <2>2 DEF TypeOK, PcTypeOK, RecvAgain, SendAgain, Prepare
  <2>4. PcTypeOK'
    BY <1>3, <2>2, <2>3 DEF TypeOK, PcTypeOK, mainVars, lisVars
  <2>5. MemTypeOK' /\ NetTypeOK'
    BY <2>1, <2>2, MemSame DEF TypeOK, NetTypeOK, netVars
  <2>6. QED
    BY <2>4, <2>5 DEF TypeOK
<1>7. ASSUME NEW a \in Addrs, NEW len \in RespLens, HandleHttpData(w, a, len) PROVE TypeOK'
  <2> USE <1>7 DEF HandleHttpData
  <2>1. wdata[w] \in Addrs /\ len \in Nat
    BY BoundsAssumption
       DEF TypeOK, MemTypeOK, WorkerInv, WorkerOK, HasReg, Registration
  <2>2. PcTypeOK'
    BY DEF TypeOK, PcTypeOK, Prepare, mainVars, lisVars
  <2>3. MemTypeOK'
    BY <2>1 DEF TypeOK, MemTypeOK, Put, kernVars, EventData
  <2>4. QED
    BY <2>2, <2>3, NetSame DEF TypeOK
<1>8. ASSUME NEW e \in batch[w], NEW n \in 1 .. SndBuf, SendPart(w, e, n) PROVE TypeOK'
  <2> DEFINE d == heap[e.data]
             c == ConnOf(e.data)
  <2>1. c \in Conns /\ e.data \in Addrs /\ d \in EventData
    BY DEF TypeOK, PcTypeOK, MemTypeOK, BatchInv, BatchOK, HasReg, RegsInv, Registration, ConnOf, Open
  <2>2. n \in Nat /\ d.length - n \in Nat /\ d.cursor + n \in Nat
    <3>1. SndBuf \in Nat
      BY BoundsAssumption
    <3>2. n < d.length
      BY <1>8 DEF SendPart
    <3>3. QED
      BY <2>1, <3>1, <3>2 DEF EventData
  <2>3. wire[c] \o Bytes(d, n) \in Seq(Byte)
    BY <2>1, <2>2, BytesType, ConcatProperties DEF TypeOK, NetTypeOK
  <2>4. PcTypeOK'
    BY <1>3, <1>8 DEF TypeOK, PcTypeOK, SendPart, Prepare, mainVars, lisVars
  <2>5. MemTypeOK'
    BY <1>8, <2>1, <2>2 DEF TypeOK, MemTypeOK, SendPart, kernVars, EventData
  <2>6. NetTypeOK'
    BY <1>8, <2>1, <2>3 DEF TypeOK, NetTypeOK, SendPart
  <2>7. QED
    BY <2>4, <2>5, <2>6 DEF TypeOK
<1>9. ASSUME NEW e \in batch[w], NEW a \in Addrs, SendRest(w, e, a) PROVE TypeOK'
  <2> DEFINE d == heap[e.data]
             c == ConnOf(e.data)
  <2>1. c \in Conns /\ e.data \in Addrs /\ d \in EventData
    BY DEF TypeOK, PcTypeOK, MemTypeOK, BatchInv, BatchOK, HasReg, RegsInv, Registration, ConnOf, Open
  <2>2. wire[c] \o Bytes(d, d.length) \in Seq(Byte)
    BY <2>1, BytesType, ConcatProperties DEF TypeOK, NetTypeOK, EventData
  <2>3. NewEventData(d.fd) \in EventData
    BY <2>1 DEF NewEventData, EventData
  <2>4. PcTypeOK'
    BY <1>3, <1>9 DEF TypeOK, PcTypeOK, SendRest, Prepare, mainVars, lisVars
  <2>5. MemTypeOK'
    BY <1>9, <2>3 DEF TypeOK, MemTypeOK, SendRest, Put, kernVars
  <2>6. NetTypeOK'
    BY <1>9, <2>1, <2>2 DEF TypeOK, NetTypeOK, SendRest
  <2>7. QED
    BY <2>4, <2>5, <2>6 DEF TypeOK
<1>10. CASE WorkerCtl(w)
  <2> DEFINE f == heap[wdata[w]].fd
  <2> USE <1>10 DEF WorkerCtl
  <2>1. wdata[w] \in Addrs /\ f \in Fds /\ ctl[w].data \in Addrs
    BY DEF TypeOK, MemTypeOK, WorkerInv, WorkerOK, RegsInv, HasReg, Registration
  <2>2. regs' \subseteq Registration /\ fate' \in {"up", "terminated"}
    <3>1. ctl[w].events \in {"IN", "OUT"}
      BY DEF TypeOK, PcTypeOK
    <3>2. control_epoll_event(ctl[w].op, w, f, ctl[w].events, ctl[w].data) /\ Up
      OBVIOUS
    <3>3. QED
      BY <2>1, <3>1, <3>2, CtlType DEF TypeOK
  <2>3. PcTypeOK'
    <3>1. /\ ctl' = [ctl EXCEPT ![w] = NoCtl]
          /\ UNCHANGED <<mainVars, lisVars, batch>>
      OBVIOUS
    <3>2. \/ /\ wpc' = [wpc EXCEPT ![w] = "next"]
             /\ wdata' = [wdata EXCEPT ![w] = None]
          \/ /\ wpc' = [wpc EXCEPT ![w] = "free"]
             /\ UNCHANGED wdata
      BY DEF Forget
    <3>3. QED
      BY <2>2, <3>1, <3>2 DEF TypeOK, PcTypeOK, NoCtl, mainVars, lisVars
  <2>4. MemTypeOK' /\ NetTypeOK'
    BY <2>2, NetSame DEF TypeOK, MemTypeOK, memVars
  <2>5. QED
    BY <2>3, <2>4 DEF TypeOK
<1>11. CASE WorkerDel(w)
  <2> USE <1>11 DEF WorkerDel
  <2>1. regs' \subseteq Registration /\ fate' \in {"up", "terminated"}
    BY DEF TypeOK, MemTypeOK, control_epoll_event, Without, Up
  <2>2. PcTypeOK'
    BY <2>1 DEF TypeOK, PcTypeOK, mainVars, lisVars
  <2>3. MemTypeOK' /\ NetTypeOK'
    BY <2>1, NetSame DEF TypeOK, MemTypeOK, memVars
  <2>4. QED
    BY <2>2, <2>3 DEF TypeOK
<1>12. CASE WorkerClose(w)
  <2> USE <1>12 DEF WorkerClose
  <2>1. PcTypeOK'
    BY DEF TypeOK, PcTypeOK, mainVars, lisVars
  <2>2. MemTypeOK'
    BY DEF TypeOK, MemTypeOK, memVars
  <2>3. NetTypeOK'
    BY DEF TypeOK, NetTypeOK
  <2>4. QED
    BY <2>1, <2>2, <2>3 DEF TypeOK
<1>13. CASE WorkerDelete(w)
  <2> USE <1>13 DEF WorkerDelete
  <2>1. PcTypeOK'
    BY DEF TypeOK, PcTypeOK, Forget, mainVars, lisVars
  <2>2. NewEventData(None) \in EventData
    BY DEF NewEventData, EventData
  <2>3. MemTypeOK'
    BY <2>2 DEF TypeOK, MemTypeOK, kernVars
  <2>4. QED
    BY <2>1, <2>3, NetSame DEF TypeOK
<1>14. QED
  BY <1>1, <1>2, <1>4, <1>5, <1>6, <1>7, <1>8, <1>9, <1>10, <1>11, <1>12, <1>13
     DEF WorkerStep
-----------------------------------------------------------------------------
(* Preservation of OwnerInv, by thread.                                     *)
Rest == RegsInv /\ BatchInv /\ WorkerInv /\ ListenerInv /\ PrivateInv

\* Steps that touch no object, descriptor or worker keep every ownership.
LEMMA RestSame ==
    ASSUME Rest, UNCHANGED <<lpc, lfd, ldata, wkVars, memVars, kernVars, again>>
    PROVE  Rest'
BY DEF Rest, RegsInv, BatchInv, BatchOK, WorkerInv, WorkerOK, ListenerInv, PrivateInv, HasReg, NoReg, NoRegFd,
       HoldsAddr, HoldsFd, Open, wkVars, memVars, kernVars

\* A client owns nothing in the server, so that it disturbs nothing.
LEMMA OwnerClient ==
    ASSUME OwnerInv, NEW c \in Conns, ClientStep(c) PROVE OwnerInv'
<1>1. UNCHANGED <<fate, mainVars, lisVars, wkVars, memVars, kernVars, again>>
  BY DEF ClientStep, Connect, ClientSend, ClientRead, ClientClose, ClientReset
<1>2. PcInv' /\ OnlyRetryTerminates'
  BY <1>1 DEF OwnerInv, PcInv, OnlyRetryTerminates, mainVars, lisVars, wkVars
<1>3. Rest'
  BY <1>1, RestSame DEF OwnerInv, Rest, lisVars
<1>4. QED
  BY <1>2, <1>3 DEF OwnerInv, Rest

\* Start and Stop keep ownership: epoll instances are closed only after every
\* thread that could hold an object has left its loop.
LEMMA OwnerMain ==
    ASSUME TypeOK, OwnerInv, MainStep \/ Stop \/ StartFails PROVE OwnerInv'
<1> USE DEF mainVars, lisVars, wkVars
<1>1. PcInv' /\ OnlyRetryTerminates'
  <2>1. CASE \E w \in Workers : SpawnWorker(w)
    <3>1. PICK w \in Workers : SpawnWorker(w)
      BY <2>1
    <3>2. main' = "exec" => \A v \in Workers : wpc'[v] # "none"
      BY <3>1, PoolAssumption DEF SpawnWorker, Workers, TypeOK, PcTypeOK
    <3>3. QED
      BY <3>1, <3>2
         DEF SpawnWorker, OwnerInv, PcInv, OnlyRetryTerminates, TypeOK, PcTypeOK,
             Starting, EpollsOpen
  <2>2. CASE BindAndListen \/ SetUpEpoll \/ SetRunning \/ SpawnListener
    BY <2>2 DEF BindAndListen, SetUpEpoll, SetRunning, SpawnListener, OwnerInv, PcInv,
       OnlyRetryTerminates, Starting, EpollsOpen
  <2>3. CASE Stop \/ StartFails \/ JoinListener
    BY <2>3 DEF Stop, StartFails, JoinListener, OwnerInv, PcInv, OnlyRetryTerminates,
       Starting, EpollsOpen
  <2>4. CASE JoinWorkers \/ CloseEpolls \/ CloseSock
    BY <2>4 DEF JoinWorkers, CloseEpolls, CloseSock, OwnerInv, PcInv, OnlyRetryTerminates,
       Starting, EpollsOpen
  <2>5. QED
    BY <2>1, <2>2, <2>3, <2>4 DEF MainStep
<1>2. Rest'
  <2>1. CASE \E w \in Workers : SpawnWorker(w)
    BY <2>1 DEF SpawnWorker, OwnerInv, Rest, RegsInv, BatchInv, BatchOK, WorkerInv, WorkerOK, ListenerInv,
       PrivateInv, HasReg, NoReg, NoRegFd, HoldsAddr, HoldsFd, Open, memVars, kernVars,
       TypeOK, PcTypeOK
  <2>2. CASE SpawnListener
    BY <2>2 DEF SpawnListener, OwnerInv, Rest, RegsInv, BatchInv, BatchOK, WorkerInv, WorkerOK, ListenerInv,
       PrivateInv, HasReg, NoReg, NoRegFd, HoldsAddr, HoldsFd, Open, memVars, kernVars,
       PcInv, Starting
  <2>3. CASE CloseEpolls
    <3>1. \A w \in Workers : wpc[w] = "done"
      BY <2>3 DEF CloseEpolls, OwnerInv, PcInv
    <3>2. QED
      BY <2>3, <3>1 DEF CloseEpolls, OwnerInv, Rest, RegsInv, BatchInv, BatchOK, WorkerInv, WorkerOK,
         ListenerInv, PrivateInv, HasReg, NoReg, NoRegFd, HoldsAddr, HoldsFd, Open,
         memVars, kernVars
  <2>4. CASE BindAndListen \/ SetUpEpoll \/ SetRunning \/ Stop \/ StartFails
             \/ JoinListener \/ JoinWorkers \/ CloseSock
    BY <2>4, RestSame DEF BindAndListen, SetUpEpoll, SetRunning, Stop, StartFails,
       JoinListener, JoinWorkers, CloseSock, OwnerInv, Rest
  <2>5. QED
    BY <2>1, <2>2, <2>3, <2>4 DEF MainStep
<1>3. QED
  BY <1>1, <1>2 DEF OwnerInv, Rest

\* The listener owns what it accepted until epoll_ctl gave it to a worker's
\* epoll instance.
LEMMA OwnerListener ==
    ASSUME TypeOK, OwnerInv, ListenerStep PROVE OwnerInv'
<1> USE DEF OwnerInv
<1>1. CASE ListenCheck \/ AcceptNone
  <2>1. PcInv' /\ OnlyRetryTerminates'
    BY <1>1 DEF ListenCheck, AcceptNone, PcInv, OnlyRetryTerminates, mainVars, wkVars,
       Starting, EpollsOpen
  <2>2. Rest'
    BY <1>1 DEF ListenCheck, AcceptNone, Rest, RegsInv, BatchInv, BatchOK, WorkerInv, WorkerOK, ListenerInv,
       PrivateInv, HasReg, NoReg, NoRegFd, HoldsAddr, HoldsFd, Open, memVars, kernVars, wkVars
  <2>3. QED
    BY <2>1, <2>2 DEF Rest
<1>2. ASSUME NEW f \in Fds, NEW a \in Addrs, Accept(f, a) PROVE OwnerInv'
  <2> USE <1>2 DEF Accept, Put, FreeAddrs
  <2>1. PcInv' /\ OnlyRetryTerminates'
    BY DEF PcInv, OnlyRetryTerminates, mainVars, wkVars, Starting, EpollsOpen
  <2>2. NoRegFd(f) /\ NoReg(a)
    BY DEF RegsInv, NoRegFd, NoReg
  <2>3. /\ \A b \in live : b # a /\ heap'[b] = heap[b]
        /\ heap'[a].fd = f
    BY DEF TypeOK, MemTypeOK, NewEventData
  <2>4. /\ \A g \in Fds : g # f => fdtab'[g] = fdtab[g]
        /\ fdtab'[f] # None
    BY HeadTailProperties, NoneAssumption DEF TypeOK, MemTypeOK, NetTypeOK
  <2>5. RegsInv'
    BY <2>2, <2>3, <2>4 DEF RegsInv, NoRegFd, Open, TypeOK, MemTypeOK, Registration
  <2>6. BatchInv'
    BY DEF BatchInv, BatchOK, HasReg, wkVars
  <2>7. \A w \in Workers : /\ wpc[w] \in {"handle", "ctl", "del", "close", "free"} =>
                                 wdata[w] \in live
                           /\ wpc[w] = "close" => heap[wdata[w]].fd # f
    BY DEF WorkerInv, WorkerOK, HasReg, RegsInv
  <2>8. WorkerInv'
    BY <2>3, <2>4, <2>7
       DEF WorkerInv, WorkerOK, HasReg, NoReg, NoRegFd, Open, wkVars, TypeOK, MemTypeOK
  <2>9. ListenerInv'
    BY <2>2, <2>3, <2>4 DEF ListenerInv, NoReg, NoRegFd, Open
  <2>10. PrivateInv'
    BY <2>3, <2>7 DEF PrivateInv, HoldsAddr, HoldsFd, wkVars, WorkerInv, WorkerOK
  <2>11. QED
    BY <2>1, <2>5, <2>6, <2>8, <2>9, <2>10
<1>3. CASE ListenAdd
  <2> USE <1>3 DEF ListenAdd
  <2> DEFINE r == [ep |-> current_worker, fd |-> lfd, events |-> "IN", data |-> ldata]
  <2>1. CtlAllowed("ADD", current_worker, lfd)
    BY DEF CtlAllowed, ListenerInv, NoRegFd, Registered, PcInv, EpollsOpen, Starting,
       TypeOK, PcTypeOK
  <2>2. regs' = regs \cup {r} /\ UNCHANGED fate
    BY <2>1 DEF control_epoll_event, Without, ListenerInv, NoRegFd
  <2>3. PcInv' /\ OnlyRetryTerminates'
    BY <2>2 DEF PcInv, OnlyRetryTerminates, mainVars, wkVars, Starting, EpollsOpen
  <2>4. RegsInv'
    BY <2>2 DEF RegsInv, ListenerInv, NoRegFd, Open, memVars
  <2>5. BatchInv'
    BY <2>2 DEF BatchInv, BatchOK, HasReg, wkVars
  <2>6. WorkerInv'
    BY <2>2 DEF WorkerInv, WorkerOK, HasReg, NoReg, NoRegFd, Open, wkVars, memVars, PrivateInv,
       HoldsAddr, HoldsFd, ListenerInv
  <2>7. ListenerInv'
    BY DEF ListenerInv
  <2>8. PrivateInv'
    BY NoneAssumption DEF PrivateInv, HoldsAddr, HoldsFd, wkVars, memVars, WorkerInv, WorkerOK, TypeOK,
       MemTypeOK
  <2>9. QED
    BY <2>3, <2>4, <2>5, <2>6, <2>7, <2>8
<1>4. QED
  BY <1>1, <1>2, <1>3 DEF ListenerStep
(* Taking an event of the batch: what holds of its pointer.                 *)
LEMMA TakeFacts ==
    ASSUME TypeOK, OwnerInv, NEW w \in Workers, NEW e \in batch[w],
           NEW pc \in {"handle", "ctl", "del"}, Take(w, e, pc)
    PROVE  /\ e.data \in live /\ e.data \in Addrs
           /\ heap[e.data].fd \in Fds /\ Open(heap[e.data].fd)
           /\ HasReg(w, e.data)
           /\ batch' = [batch EXCEPT ![w] = @ \ {e}]
           /\ wdata' = [wdata EXCEPT ![w] = e.data]
           /\ wpc' = [wpc EXCEPT ![w] = pc]
           /\ wpc[w] = "next" /\ wdata[w] = None /\ ctl[w].data = None
           /\ \A g \in batch'[w] : g \in batch[w] /\ g.data # e.data
BY DEF Take, OwnerInv, BatchInv, BatchOK, RegsInv, WorkerInv, WorkerOK, HasReg, TypeOK, MemTypeOK, PcTypeOK,
       Registration

(* Steps that take an event and neither allocate nor change descriptors.    *)
LEMMA TakeKeeps ==
    ASSUME TypeOK, OwnerInv, NEW w \in Workers, NEW e \in batch[w],
           NEW pc \in {"handle", "ctl", "del"}, Take(w, e, pc),
           pc # "ctl" => UNCHANGED ctl,
           pc = "ctl" => \E op \in {"MOD", "ADD"}, ev \in {"IN", "OUT"} :
                            Prepare(w, op, ev, e.data) /\ (op = "ADD" => again'.send > 0),
           UNCHANGED <<fate, mainVars, lisVars, live, kernVars>>,
           again'.send \in Nat, again'.send >= again.send,
           heap' \in [Addrs -> EventData],
           \A a \in Addrs : heap'[a].fd = heap[a].fd
    PROVE  OwnerInv'
<1> USE DEF OwnerInv, mainVars, lisVars, kernVars
<1>0. /\ e.data \in live /\ e.data \in Addrs
      /\ heap[e.data].fd \in Fds /\ Open(heap[e.data].fd)
      /\ HasReg(w, e.data)
      /\ batch' = [batch EXCEPT ![w] = @ \ {e}]
      /\ wdata' = [wdata EXCEPT ![w] = e.data]
      /\ wpc' = [wpc EXCEPT ![w] = pc]
      /\ wpc[w] = "next" /\ wdata[w] = None /\ ctl[w].data = None
      /\ \A g \in batch'[w] : g \in batch[w] /\ g.data # e.data
  BY TakeFacts
<1>1. PcInv' /\ OnlyRetryTerminates'
  BY <1>0 DEF PcInv, OnlyRetryTerminates, Starting, EpollsOpen, TypeOK, PcTypeOK, NetTypeOK
<1>2. RegsInv'
  BY DEF RegsInv, Open, TypeOK, MemTypeOK, Registration
<1>a. \A v \in Workers : v # w => /\ wpc'[v] = wpc[v] /\ wdata'[v] = wdata[v]
                                 /\ batch'[v] = batch[v] /\ ctl'[v] = ctl[v]
  BY <1>0 DEF TypeOK, PcTypeOK, Prepare
<1>b. wpc'[w] = pc /\ wdata'[w] = e.data
  BY <1>0 DEF TypeOK, PcTypeOK
<1>c. IF pc = "ctl" THEN ctl'[w].data = e.data /\ (ctl'[w].op = "ADD" => again'.send > 0)
      ELSE ctl'[w].data = None
  BY <1>0 DEF TypeOK, PcTypeOK, Prepare
<1>3. BatchInv'
  <2> SUFFICES ASSUME NEW v \in Workers PROVE BatchOK(v)'
    BY DEF BatchInv
  <2>1. CASE v # w
    BY <1>a, <2>1 DEF BatchInv, BatchOK, HasReg
  <2>2. CASE v = w
    BY <1>0, <1>b, <2>2 DEF BatchInv, BatchOK, HasReg
  <2>3. QED
    BY <2>1, <2>2
<1>4. WorkerInv'
  <2> SUFFICES ASSUME NEW v \in Workers PROVE WorkerOK(v)'
    BY DEF WorkerInv
  <2>1. CASE v # w
    <3>1. WorkerOK(v) /\ again.send \in Nat
      BY DEF WorkerInv, TypeOK, NetTypeOK
    <3>2. /\ wpc[v] \in {"handle", "ctl", "del", "close"} => wdata[v] \in Addrs
          /\ wpc[v] = "ctl" => ctl[v].data \in Addrs
      BY <3>1 DEF WorkerOK, HasReg, TypeOK, MemTypeOK, Registration
    <3>3. QED
      BY <1>a, <2>1, <3>1, <3>2 DEF WorkerOK, HasReg, NoReg, NoRegFd, Open
  <2>2. CASE v = w
    BY <1>0, <1>b, <1>c, <2>2 DEF WorkerOK, HasReg
  <2>3. QED
    BY <2>1, <2>2
<1>5. ListenerInv'
  BY DEF ListenerInv, NoReg, NoRegFd, Open, TypeOK, MemTypeOK
<1>6. PrivateInv'
  <2>1. \A a : \A v \in Workers : HoldsAddr(v, a)' => HoldsAddr(v, a)
    BY <1>0, <1>a, <1>b, <1>c DEF HoldsAddr
  <2>2. \A f : \A v \in Workers : HoldsFd(v, f)' => HoldsFd(v, f)
    BY <1>0, <1>a, <1>b DEF HoldsFd, WorkerInv, WorkerOK, TypeOK, MemTypeOK
  <2>3. QED
    BY <2>1, <2>2 DEF PrivateInv
<1>7. QED
  BY <1>1, <1>2, <1>3, <1>4, <1>5, <1>6
\* What a worker holds is allocated and has an address.
LEMMA HeldLive ==
    ASSUME TypeOK, OwnerInv, NEW v \in Workers
    PROVE  /\ wpc[v] \in {"handle", "ctl", "del", "close", "free"} =>
                 wdata[v] \in live /\ wdata[v] \in Addrs
           /\ wpc[v] \in {"handle", "ctl", "del", "close"} =>
                 heap[wdata[v]].fd \in Fds /\ Open(heap[wdata[v]].fd)
           /\ wpc[v] = "ctl" => ctl[v].data \in live /\ ctl[v].data \in Addrs
           /\ \A a : HoldsAddr(v, a) => a \in live /\ NoReg(a)
           /\ lpc = "add" => ldata \in live /\ ldata \in Addrs /\ lfd \in Fds
BY DEF OwnerInv, WorkerInv, WorkerOK, RegsInv, HasReg, HoldsAddr, ListenerInv, TypeOK,
       MemTypeOK, Registration

\* A worker that polls gets events of its own registrations, and one that
\* finds its batch empty holds nothing.
LEMMA OwnerLoop ==
    ASSUME TypeOK, OwnerInv, NEW w \in Workers,
           WorkerCheck(w) \/ EpollWait(w) \/ BatchDone(w)
    PROVE  OwnerInv'
<1> USE DEF OwnerInv
<1>1. /\ wpc[w] \in {"check", "poll", "next"}
      /\ \E pc \in {"check", "poll", "next", "done"} :
            /\ wpc' = [wpc EXCEPT ![w] = pc]
            /\ pc = "done" => ~running_
            /\ pc # "next" => batch'[w] = {}
      /\ \A e \in batch'[w] : \E r \in regs : r.ep = w /\ e \in Ready(r)
      /\ \E B : batch' = [batch EXCEPT ![w] = B]
      /\ UNCHANGED <<fate, mainVars, lisVars, wdata, ctl, memVars, kernVars, again>>
  <2>1. CASE WorkerCheck(w)
    BY <2>1 DEF WorkerCheck, BatchInv, BatchOK, TypeOK, PcTypeOK
  <2>2. CASE EpollWait(w)
    <3>1. PICK B \in SUBSET ReadyEvents(w) :
             /\ batch' = [batch EXCEPT ![w] = B]
             /\ wpc' = [wpc EXCEPT ![w] = IF B = {} THEN "check" ELSE "next"]
      BY <2>2 DEF EpollWait
    <3>2. batch'[w] = B
      BY <3>1 DEF TypeOK, PcTypeOK
    <3>3. \A e \in B : \E r \in regs : r.ep = w /\ e \in Ready(r)
      BY DEF ReadyEvents
    <3>4. wpc[w] = "poll" /\ UNCHANGED <<fate, mainVars, lisVars, wdata, ctl, memVars,
                                        kernVars, again>>
      BY <2>2 DEF EpollWait
    <3>5. \E pc \in {"check", "poll", "next", "done"} :
             /\ wpc' = [wpc EXCEPT ![w] = pc]
             /\ pc = "done" => ~running_
             /\ pc # "next" => batch'[w] = {}
      BY <3>1, <3>2
    <3>6. QED
      BY <3>1, <3>2, <3>3, <3>4, <3>5
  <2>3. CASE BatchDone(w)
    BY <2>3 DEF BatchDone, TypeOK, PcTypeOK
  <2>4. QED
    BY <2>1, <2>2, <2>3
<1>2. PICK pc \in {"check", "poll", "next", "done"} :
         /\ wpc' = [wpc EXCEPT ![w] = pc]
         /\ pc = "done" => ~running_
         /\ pc # "next" => batch'[w] = {}
  BY <1>1
<1>3. /\ wpc'[w] = pc
      /\ \A v \in Workers : v # w => wpc'[v] = wpc[v] /\ batch'[v] = batch[v]
  BY <1>1, <1>2 DEF TypeOK, PcTypeOK
<1>4. PcInv' /\ OnlyRetryTerminates'
  BY <1>1, <1>2, <1>3 DEF PcInv, OnlyRetryTerminates, mainVars, lisVars, Starting, EpollsOpen
<1>5. RegsInv' /\ ListenerInv'
  BY <1>1 DEF RegsInv, ListenerInv, NoReg, NoRegFd, Open, lisVars, memVars, kernVars
<1>6. BatchInv'
  <2> SUFFICES ASSUME NEW v \in Workers PROVE BatchOK(v)'
    BY DEF BatchInv
  <2>1. CASE v # w
    BY <1>1, <1>3, <2>1 DEF BatchInv, BatchOK, HasReg, kernVars
  <2>2. CASE v = w
    <3>1. \A e \in batch'[w] : HasReg(w, e.data)
      BY <1>1 DEF Ready, HasReg
    <3>2. wdata[w] = None
      BY <1>1 DEF WorkerInv, WorkerOK
    <3>3. \A e, g \in batch'[w] : e.data = g.data => e = g
      <4> SUFFICES ASSUME NEW e \in batch'[w], NEW g \in batch'[w], e.data = g.data
                   PROVE e = g
        OBVIOUS
      <4>1. PICK r \in regs, q \in regs : e \in Ready(r) /\ g \in Ready(q)
        BY <1>1
      <4>2. r.data = e.data /\ q.data = g.data
        BY <4>1 DEF Ready
      <4>3. r = q
        BY <4>2 DEF RegsInv
      <4>4. QED
        BY <4>1, <4>3 DEF Ready
    <3>4. \A e \in batch'[w] : e.data # wdata[w]
      BY <3>1, <3>2, NoneAssumption DEF HasReg, TypeOK, MemTypeOK, Registration
    <3>5. QED
      BY <1>1, <1>2, <1>3, <2>2, <3>1, <3>3, <3>4 DEF BatchOK, HasReg, kernVars
  <2>3. QED
    BY <2>1, <2>2
<1>7. WorkerInv'
  <2> SUFFICES ASSUME NEW v \in Workers PROVE WorkerOK(v)'
    BY DEF WorkerInv
  <2>1. WorkerOK(v)
    BY DEF WorkerInv
  <2>2. QED
    BY <1>1, <1>3, <2>1 DEF WorkerOK, HasReg, NoReg, NoRegFd, Open, memVars, kernVars
<1>8. PrivateInv'
  BY <1>1, <1>3 DEF PrivateInv, HoldsAddr, HoldsFd, lisVars, memVars
<1>9. QED
  BY <1>4, <1>5, <1>6, <1>7, <1>8

\* A worker that takes an event owns what the event points to from then on.
LEMMA OwnerTake ==
    ASSUME TypeOK, TypeOK', OwnerInv, NEW w \in Workers, NEW e \in batch[w],
           \/ TakeError(w, e) \/ RecvData(w, e) \/ RecvEnd(w, e) \/ RecvAgain(w, e)
           \/ \E n \in 1 .. SndBuf : SendPart(w, e, n)
           \/ SendAgain(w, e) \/ SendError(w, e)
    PROVE  OwnerInv'
<1>0. /\ again'.send \in Nat /\ heap' \in [Addrs -> EventData]
      /\ again.send \in Nat /\ heap \in [Addrs -> EventData]
      /\ again \in [recv : Nat, send : Nat]
  BY DEF TypeOK, NetTypeOK, MemTypeOK
<1>1. CASE TakeError(w, e) \/ RecvEnd(w, e) \/ SendError(w, e)
  <2>1. Take(w, e, "del") /\ UNCHANGED <<fate, mainVars, lisVars, ctl, memVars, kernVars, again>>
    BY <1>1 DEF TakeError, RecvEnd, SendError
  <2>2. QED
    BY <1>0, <2>1, TakeKeeps DEF memVars
<1>2. CASE RecvData(w, e)
  <2>1. \A a \in Addrs : heap'[a].fd = heap[a].fd
    BY <1>0, <1>2 DEF RecvData, EventData
  <2>2. Take(w, e, "handle")
        /\ UNCHANGED <<fate, mainVars, lisVars, ctl, live, kernVars, again>>
    BY <1>2 DEF RecvData
  <2>3. QED
    BY <1>0, <2>1, <2>2, TakeKeeps
<1>3. CASE RecvAgain(w, e)
  <2>1. again'.send = again.send
    BY <1>0, <1>3 DEF RecvAgain
  <2>2. /\ Take(w, e, "ctl") /\ Prepare(w, "MOD", "IN", e.data)
        /\ UNCHANGED <<fate, mainVars, lisVars, memVars, kernVars>>
    BY <1>3 DEF RecvAgain
  <2>3. QED
    BY <1>0, <2>1, <2>2, TakeKeeps DEF memVars
<1>4. CASE SendAgain(w, e)
  <2>1. again'.send = again.send + 1
    BY <1>0, <1>4 DEF SendAgain
  <2>2. /\ Take(w, e, "ctl") /\ Prepare(w, "ADD", "OUT", e.data)
        /\ UNCHANGED <<fate, mainVars, lisVars, memVars, kernVars>>
    BY <1>4 DEF SendAgain
  <2>3. QED
    BY <1>0, <2>1, <2>2, TakeKeeps DEF memVars
<1>5. ASSUME NEW n \in 1 .. SndBuf, SendPart(w, e, n) PROVE OwnerInv'
  <2>1. \A a \in Addrs : heap'[a].fd = heap[a].fd
    BY <1>0, <1>5 DEF SendPart, EventData
  <2>2. /\ Take(w, e, "ctl") /\ Prepare(w, "MOD", "OUT", e.data)
        /\ UNCHANGED <<fate, mainVars, lisVars, live, kernVars, again>>
    BY <1>5 DEF SendPart
  <2>3. QED
    BY <1>0, <2>1, <2>2, TakeKeeps
<1>6. QED
  BY <1>1, <1>2, <1>3, <1>4, <1>5
(* Steps that allocate the EventData to register next.                      *)
LEMMA AllocKeeps ==
    ASSUME TypeOK, OwnerInv, NEW w \in Workers, NEW x \in Addrs, NEW a \in Addrs, NEW d,
           NEW ev \in {"IN", "OUT"},
           a \in FreeAddrs, Put(a, d), d.fd = heap[x].fd,
           HasReg(w, x), wpc[w] \in {"next", "handle"},
           wdata' = [wdata EXCEPT ![w] = x], wpc' = [wpc EXCEPT ![w] = "ctl"],
           Prepare(w, "MOD", ev, a),
           \A v \in Workers : v # w => batch'[v] = batch[v],
           \A g \in batch'[w] : g \in batch[w] /\ g.data # x,
           UNCHANGED <<fate, mainVars, lisVars, kernVars, again>>
    PROVE  OwnerInv'
<1> USE DEF OwnerInv, mainVars, lisVars, kernVars
<1>1. /\ x \in live /\ a \notin live /\ a # x
      /\ \A b \in live : b \in Addrs /\ b # a /\ heap'[b] = heap[b]
      /\ heap'[a] = d
      /\ live' = live \cup {a}
  BY DEF HasReg, RegsInv, Put, FreeAddrs, TypeOK, MemTypeOK
<1>2. /\ wpc'[w] = "ctl" /\ wdata'[w] = x /\ ctl'[w].data = a /\ ctl'[w].op = "MOD"
      /\ \A v \in Workers : v # w => /\ wpc'[v] = wpc[v] /\ wdata'[v] = wdata[v]
                                    /\ ctl'[v] = ctl[v]
  BY DEF TypeOK, PcTypeOK, Prepare
<1>3. PcInv' /\ OnlyRetryTerminates'
  BY <1>2 DEF PcInv, OnlyRetryTerminates, Starting, EpollsOpen
<1>4. RegsInv'
  BY <1>1 DEF RegsInv, Open
<1>5. BatchInv'
  <2> SUFFICES ASSUME NEW v \in Workers PROVE BatchOK(v)'
    BY DEF BatchInv
  <2>1. CASE v # w
    BY <1>2, <2>1 DEF BatchInv, BatchOK, HasReg
  <2>2. CASE v = w
    BY <1>2, <2>2 DEF BatchInv, BatchOK, HasReg
  <2>3. QED
    BY <2>1, <2>2
<1>6. NoReg(a)
  BY <1>1 DEF NoReg, RegsInv
<1>7. WorkerInv'
  <2> SUFFICES ASSUME NEW v \in Workers PROVE WorkerOK(v)'
    BY DEF WorkerInv
  <2>1. CASE v # w
    <3>1. WorkerOK(v)
      BY DEF WorkerInv
    <3>2. QED
      BY <1>1, <1>2, <2>1, <3>1, HeldLive DEF WorkerOK, HasReg, NoReg, NoRegFd, Open
  <2>2. CASE v = w
    BY <1>1, <1>2, <1>6, <2>2 DEF WorkerOK, HasReg, NoReg
  <2>3. QED
    BY <2>1, <2>2
<1>8. ListenerInv'
  BY <1>1 DEF ListenerInv, NoReg, NoRegFd, Open
<1>9. PrivateInv'
  <2>1. \A b : \A v \in Workers : HoldsAddr(v, b)' => HoldsAddr(v, b) \/ (v = w /\ b = a)
    BY <1>1, <1>2 DEF HoldsAddr
  <2>2. \A v \in Workers : ~HoldsAddr(v, a)
    BY <1>1, HeldLive
  <2>3. \A f : \A v \in Workers : HoldsFd(v, f)' => HoldsFd(v, f)
    BY <1>1, <1>2, HeldLive DEF HoldsFd
  <2>4. ldata # a
    BY <1>1, HeldLive, NoneAssumption DEF ListenerInv
  <2>5. QED
    BY <2>1, <2>2, <2>3, <2>4 DEF PrivateInv
<1>10. QED
  BY <1>3, <1>4, <1>5, <1>7, <1>8, <1>9

\* An object made for a response is its worker's own and has the descriptor
\* of the one it will replace in the registration.
LEMMA OwnerAlloc ==
    ASSUME TypeOK, OwnerInv, NEW w \in Workers, NEW a \in Addrs,
           \/ \E len \in RespLens : HandleHttpData(w, a, len)
           \/ \E e \in batch[w] : SendRest(w, e, a)
    PROVE  OwnerInv'
<1>1. ASSUME NEW len \in RespLens, HandleHttpData(w, a, len) PROVE OwnerInv'
  <2> DEFINE x == wdata[w]
             d == [heap[x] EXCEPT !.length = len, !.cursor = 0]
  <2>1. HasReg(w, x) /\ x \in Addrs /\ wpc[w] = "handle"
    BY <1>1, HeldLive DEF HandleHttpData, OwnerInv, WorkerInv, WorkerOK
  <2>2. d.fd = heap[x].fd
    BY <2>1 DEF TypeOK, MemTypeOK, EventData
  <2>3. \A g \in batch[w] : g.data # x
    BY DEF OwnerInv, BatchInv, BatchOK
  <2>4. wdata' = [wdata EXCEPT ![w] = x]
    BY <1>1 DEF HandleHttpData, TypeOK, PcTypeOK
  <2>5. /\ a \in FreeAddrs /\ Put(a, d) /\ Prepare(w, "MOD", "OUT", a)
        /\ wpc' = [wpc EXCEPT ![w] = "ctl"] /\ batch' = batch
        /\ UNCHANGED <<fate, mainVars, lisVars, kernVars, again>>
    BY <1>1 DEF HandleHttpData
  <2>6. QED
    BY <2>1, <2>2, <2>3, <2>4, <2>5, AllocKeeps
<1>2. ASSUME NEW e \in batch[w], SendRest(w, e, a) PROVE OwnerInv'
  <2> DEFINE x == e.data
             d == NewEventData(heap[x].fd)
  <2>1. /\ Take(w, e, "ctl") /\ a \in FreeAddrs /\ Put(a, d) /\ Prepare(w, "MOD", "IN", a)
        /\ UNCHANGED <<fate, mainVars, lisVars, kernVars, again>>
    BY <1>2 DEF SendRest
  <2>2. /\ x \in Addrs /\ HasReg(w, x) /\ wpc[w] = "next"
        /\ wdata' = [wdata EXCEPT ![w] = x] /\ wpc' = [wpc EXCEPT ![w] = "ctl"]
        /\ batch' = [batch EXCEPT ![w] = @ \ {e}]
        /\ \A g \in batch'[w] : g \in batch[w] /\ g.data # x
    BY <2>1, TakeFacts
  <2>3. d.fd = heap[x].fd
    BY DEF NewEventData
  <2>4. \A v \in Workers : v # w => batch'[v] = batch[v]
    BY <2>2 DEF TypeOK, PcTypeOK
  <2>5. QED
    BY <2>1, <2>2, <2>3, <2>4, AllocKeeps
<1>3. QED
  BY <1>1, <1>2
\* A worker's epoll_ctl moves ownership to the registration and leaves the
\* old object to be freed by it, or is refused after a send reported EAGAIN.
LEMMA OwnerCtl ==
    ASSUME TypeOK, OwnerInv, NEW w \in Workers, WorkerCtl(w) PROVE OwnerInv'
<1> USE DEF OwnerInv, mainVars, lisVars, memVars
<1> DEFINE x == wdata[w]
           y == ctl[w].data
           f == heap[x].fd
<1>1. /\ wpc[w] = "ctl" /\ Up
      /\ control_epoll_event(ctl[w].op, w, f, ctl[w].events, y)
      /\ ctl' = [ctl EXCEPT ![w] = NoCtl]
      /\ \/ y = x /\ wpc' = [wpc EXCEPT ![w] = "next"] /\ wdata' = [wdata EXCEPT ![w] = None]
         \/ y # x /\ wpc' = [wpc EXCEPT ![w] = "free"] /\ UNCHANGED wdata
      /\ UNCHANGED <<mainVars, lisVars, batch, memVars, fdtab, again>>
  BY DEF WorkerCtl, Forget
<1>2. /\ x \in live /\ x \in Addrs /\ y \in live /\ y \in Addrs
      /\ f \in Fds /\ Open(f) /\ heap[y].fd = f
      /\ ctl[w].op = "ADD" => y = x /\ again.send > 0
      /\ y = x \/ NoReg(y)
  BY <1>1, HeldLive DEF WorkerInv, WorkerOK
<1>3. PICK r \in regs : r.ep = w /\ r.data = x /\ r.fd = f
  BY <1>1 DEF WorkerInv, WorkerOK, HasReg, RegsInv
<1>4. \A q \in regs : (q.fd = f => q = r) /\ (q.data = x => q = r)
  BY <1>3 DEF RegsInv
<1>5. \/ /\ regs' = (regs \ {r}) \cup
                    {[ep |-> w, fd |-> f, events |-> ctl[w].events, data |-> y]}
         /\ UNCHANGED fate
      \/ UNCHANGED regs /\ y = x /\ again.send > 0
  <2>1. CASE ctl[w].op = "ADD"
    BY <1>1, <1>2, <1>3, <2>1 DEF control_epoll_event, CtlAllowed, Registered
  <2>2. CASE ctl[w].op = "MOD"
    <3>1. w \in epollOpen
      BY <1>1 DEF PcInv, EpollsOpen, Starting, TypeOK, PcTypeOK
    <3>2. CtlAllowed("MOD", w, f)
      BY <1>2, <1>3, <3>1 DEF CtlAllowed, Registered
    <3>3. Without(w, f) = regs \ {r}
      BY <1>3, <1>4 DEF Without
    <3>4. QED
      BY <1>1, <2>2, <3>2, <3>3 DEF control_epoll_event
  <2>3. QED
    BY <2>1, <2>2 DEF TypeOK, PcTypeOK
<1>6. /\ wpc'[w] \in {"next", "free"} /\ ctl'[w].data = None
      /\ IF y = x THEN wpc'[w] = "next" /\ wdata'[w] = None
         ELSE wpc'[w] = "free" /\ wdata'[w] = x
      /\ \A v \in Workers : v # w => /\ wpc'[v] = wpc[v] /\ wdata'[v] = wdata[v]
                                    /\ ctl'[v] = ctl[v]
  BY <1>1 DEF TypeOK, PcTypeOK, NoCtl
<1>7. /\ \A b : \A v \in Workers : v # w /\ HasReg(v, b) => HasReg(v, b)'
      /\ \A b : HasReg(w, b) /\ b # x => HasReg(w, b)'
      /\ \A b : NoReg(b) /\ b # y => NoReg(b)'
      /\ \A g : NoRegFd(g) => NoRegFd(g)'
  <2>1. \A q \in regs : q # r => q \in regs'
    BY <1>5
  <2>2. \A q \in regs' : q \in regs \/ (q.data = y /\ q.fd = f)
    BY <1>5
  <2>3. QED
    BY <1>3, <2>1, <2>2 DEF HasReg, NoReg, NoRegFd
<1>8. PcInv'
  BY <1>1, <1>6 DEF PcInv, Starting, EpollsOpen
<1>9. OnlyRetryTerminates'
  BY <1>1, <1>5 DEF OnlyRetryTerminates, Up
<1>10. RegsInv'
  BY <1>1, <1>2, <1>4, <1>5 DEF RegsInv, Open
<1>11. BatchInv'
  <2> SUFFICES ASSUME NEW v \in Workers PROVE BatchOK(v)'
    BY DEF BatchInv
  <2>1. BatchOK(v) /\ (v = w => \A e \in batch[v] : e.data # x)
    BY DEF BatchInv, BatchOK
  <2>2. \A e \in batch'[v] : e.data # wdata'[v]
    <3>1. \A e \in batch[v] : e.data \in Addrs
      BY DEF TypeOK, PcTypeOK
    <3>2. QED
      BY <1>1, <1>6, <2>1, <3>1, NoneAssumption DEF BatchOK
  <2>3. \A e \in batch'[v] : HasReg(v, e.data)'
    BY <1>1, <1>7, <2>1 DEF BatchOK
  <2>4. QED
    BY <1>1, <1>6, <2>1, <2>2, <2>3 DEF BatchOK
<1>12. WorkerInv'
  <2> SUFFICES ASSUME NEW v \in Workers PROVE WorkerOK(v)'
    BY DEF WorkerInv
  <2>1. WorkerOK(v)
    BY DEF WorkerInv
  <2>2. CASE v # w
    <3>1. HoldsAddr(v, y) => FALSE
      <4>1. CASE y = x
        BY <1>3, <4>1, HeldLive DEF NoReg
      <4>2. CASE y # x
        <5>1. HoldsAddr(w, y)
          BY <1>1, <4>2 DEF HoldsAddr
        <5>2. QED
          BY <1>2, <2>2, <5>1 DEF PrivateInv
      <4>3. QED
        BY <4>1, <4>2
    <3>2. QED
      BY <1>1, <1>6, <1>7, <2>1, <2>2, <3>1, HeldLive
         DEF WorkerOK, HoldsAddr, Open
  <2>3. CASE v = w
    <3>1. y # x => NoReg(x)'
      <4>1. \A q \in regs' : y # x => q.data # x
        BY <1>4, <1>5
      <4>2. QED
        BY <1>6, <4>1 DEF NoReg
    <3>2. QED
      BY <1>1, <1>2, <1>6, <2>3, <3>1 DEF WorkerOK
  <2>4. QED
    BY <2>2, <2>3
<1>13. ListenerInv'
  <2>1. lpc = "add" => ldata # y
    <3>1. lpc = "add" => NoReg(ldata)
      BY DEF ListenerInv
    <3>2. CASE y = x
      BY <1>3, <3>1, <3>2 DEF NoReg
    <3>3. CASE y # x
      BY <1>1, <3>3 DEF PrivateInv, HoldsAddr
    <3>4. QED
      BY <3>2, <3>3
  <2>2. QED
    BY <1>1, <1>7, <2>1 DEF ListenerInv, Open
<1>14. PrivateInv'
  <2>1. \A b : \A v \in Workers : HoldsAddr(v, b)' => HoldsAddr(v, b) \/ (v = w /\ b = x /\ y # x)
    BY <1>1, <1>6 DEF HoldsAddr
  <2>2. \A g : \A v \in Workers : HoldsFd(v, g)' => HoldsFd(v, g)
    BY <1>1, <1>6 DEF HoldsFd
  <2>3. \A v \in Workers : ~HoldsAddr(v, x)
    BY <1>3, HeldLive DEF NoReg
  <2>4. ldata # x
    BY <1>2, <1>3, NoneAssumption DEF ListenerInv, NoReg
  <2>5. QED
    BY <1>1, <2>1, <2>2, <2>3, <2>4 DEF PrivateInv
<1>15. QED
  BY <1>8, <1>9, <1>10, <1>11, <1>12, <1>13, <1>14
\* Removing a registration leaves its object and descriptor to the worker.
LEMMA OwnerDel ==
    ASSUME TypeOK, OwnerInv, NEW w \in Workers, WorkerDel(w) PROVE OwnerInv'
<1> USE DEF OwnerInv, mainVars, lisVars, memVars
<1> DEFINE x == wdata[w]
           f == heap[x].fd
<1>1. /\ wpc[w] = "del" /\ Up /\ wpc' = [wpc EXCEPT ![w] = "close"]
      /\ control_epoll_event("DEL", w, f, "IN", x)
      /\ UNCHANGED <<mainVars, lisVars, batch, wdata, ctl, memVars, fdtab, again>>
  BY DEF WorkerDel
<1>2. x \in live /\ x \in Addrs /\ f \in Fds /\ Open(f)
  BY <1>1, HeldLive
<1>3. PICK r \in regs : r.ep = w /\ r.data = x /\ r.fd = f
  BY <1>1 DEF WorkerInv, WorkerOK, HasReg, RegsInv
<1>4. \A q \in regs : (q.fd = f => q = r) /\ (q.data = x => q = r)
  BY <1>3 DEF RegsInv
<1>5. regs' = regs \ {r} /\ UNCHANGED fate
  <2>1. w \in epollOpen
    BY <1>1 DEF PcInv, EpollsOpen, Starting, TypeOK, PcTypeOK
  <2>2. CtlAllowed("DEL", w, f)
    BY <1>2, <1>3, <2>1 DEF CtlAllowed, Registered
  <2>3. Without(w, f) = regs \ {r}
    BY <1>3, <1>4 DEF Without
  <2>4. QED
    BY <1>1, <2>2, <2>3 DEF control_epoll_event
<1>6. wpc'[w] = "close" /\ \A v \in Workers : v # w => wpc'[v] = wpc[v]
  BY <1>1 DEF TypeOK, PcTypeOK
<1>7. /\ \A b : \A v \in Workers : (v # w \/ b # x) /\ HasReg(v, b) => HasReg(v, b)'
      /\ \A b : NoReg(b) => NoReg(b)'
      /\ \A g : NoRegFd(g) => NoRegFd(g)'
      /\ NoReg(x)' /\ NoRegFd(f)'
  <2>1. x' = x /\ f' = f
    BY <1>1
  <2>2. \A q : q \in regs' <=> q \in regs /\ q # r
    BY <1>5
  <2>3. QED
    BY <1>3, <1>4, <2>1, <2>2 DEF HasReg, NoReg, NoRegFd
<1>8. PcInv' /\ OnlyRetryTerminates'
  BY <1>1, <1>5, <1>6 DEF PcInv, OnlyRetryTerminates, Starting, EpollsOpen
<1>9. RegsInv'
  BY <1>1, <1>5 DEF RegsInv, Open
<1>10. BatchInv'
  <2> SUFFICES ASSUME NEW v \in Workers PROVE BatchOK(v)'
    BY DEF BatchInv
  <2>1. BatchOK(v)
    BY DEF BatchInv
  <2>2. QED
    BY <1>1, <1>6, <1>7, <2>1 DEF BatchOK
<1>11. WorkerInv'
  <2> SUFFICES ASSUME NEW v \in Workers PROVE WorkerOK(v)'
    BY DEF WorkerInv
  <2>1. WorkerOK(v)
    BY DEF WorkerInv
  <2>2. CASE v # w
    BY <1>1, <1>6, <1>7, <2>1, <2>2 DEF WorkerOK, Open
  <2>3. CASE v = w
    BY <1>1, <1>2, <1>6, <1>7, <2>1, <2>3 DEF WorkerOK, Open
  <2>4. QED
    BY <2>2, <2>3
<1>12. ListenerInv'
  BY <1>1, <1>7 DEF ListenerInv, Open
<1>13. PrivateInv'
  <2>1. \A b : \A v \in Workers : HoldsAddr(v, b)' => HoldsAddr(v, b) \/ (v = w /\ b = x)
    BY <1>1, <1>6 DEF HoldsAddr
  <2>2. \A g : \A v \in Workers : HoldsFd(v, g)' => HoldsFd(v, g) \/ (v = w /\ g = f)
    BY <1>1, <1>6 DEF HoldsFd
  <2>3. \A v \in Workers : ~HoldsAddr(v, x) /\ ~HoldsFd(v, f)
    BY <1>3, HeldLive DEF NoReg, HoldsFd, NoRegFd, WorkerInv, WorkerOK
  <2>4. ldata # x /\ lfd # f
    BY <1>2, <1>3, NoneAssumption DEF ListenerInv, NoReg, NoRegFd
  <2>5. QED
    BY <1>1, <2>1, <2>2, <2>3, <2>4 DEF PrivateInv
<1>14. QED
  BY <1>8, <1>9, <1>10, <1>11, <1>12, <1>13

\* A closed descriptor is in no registration and in no other thread's hands.
LEMMA OwnerClose ==
    ASSUME TypeOK, OwnerInv, NEW w \in Workers, WorkerClose(w) PROVE OwnerInv'
<1> USE DEF OwnerInv, mainVars, lisVars, memVars
<1> DEFINE x == wdata[w]
           f == heap[x].fd
<1>1. /\ wpc[w] = "close" /\ wpc' = [wpc EXCEPT ![w] = "free"]
      /\ fdtab' = [fdtab EXCEPT ![f] = None]
      /\ UNCHANGED <<fate, mainVars, lisVars, batch, wdata, ctl, memVars, again>>
  BY DEF WorkerClose
<1>2. x \in live /\ f \in Fds /\ NoRegFd(f) /\ NoReg(x)
  BY <1>1 DEF WorkerInv, WorkerOK
<1>3. UNCHANGED regs
  BY <1>2 DEF WorkerClose, NoRegFd
<1>4. /\ wpc'[w] = "free" /\ \A v \in Workers : v # w => wpc'[v] = wpc[v]
      /\ \A g \in Fds : g # f => fdtab'[g] = fdtab[g]
  BY <1>1 DEF TypeOK, PcTypeOK, MemTypeOK
<1>5. \A v \in Workers : v # w => ~HoldsFd(v, f)
  BY <1>1, <1>2 DEF PrivateInv, HoldsFd
<1>6. PcInv' /\ OnlyRetryTerminates'
  BY <1>1, <1>4 DEF PcInv, OnlyRetryTerminates, Starting, EpollsOpen
<1>7. RegsInv'
  BY <1>1, <1>2, <1>3, <1>4 DEF RegsInv, Open, NoRegFd, TypeOK, MemTypeOK, Registration
<1>8. BatchInv'
  BY <1>1, <1>3, <1>4 DEF BatchInv, BatchOK, HasReg
<1>9. WorkerInv'
  <2> SUFFICES ASSUME NEW v \in Workers PROVE WorkerOK(v)'
    BY DEF WorkerInv
  <2>1. WorkerOK(v)
    BY DEF WorkerInv
  <2>2. CASE v # w
    BY <1>1, <1>3, <1>4, <1>5, <2>1, <2>2
       DEF WorkerOK, Open, HoldsFd, HasReg, NoReg, NoRegFd
  <2>3. CASE v = w
    BY <1>1, <1>2, <1>3, <1>4, <2>1, <2>3 DEF WorkerOK, NoReg
  <2>4. QED
    BY <2>2, <2>3
<1>10. ListenerInv'
  <2>1. lpc = "add" => lfd # f
    BY <1>1 DEF PrivateInv, HoldsFd
  <2>2. QED
    BY <1>1, <1>3, <1>4, <2>1 DEF ListenerInv, Open, NoReg, NoRegFd
<1>11. PrivateInv'
  BY <1>1, <1>4 DEF PrivateInv, HoldsAddr, HoldsFd
<1>12. QED
  BY <1>6, <1>7, <1>8, <1>9, <1>10, <1>11

\* A freed object is in no registration, no batch and no other thread's hands.
LEMMA OwnerDelete ==
    ASSUME TypeOK, OwnerInv, NEW w \in Workers, WorkerDelete(w) PROVE OwnerInv'
<1> USE DEF OwnerInv, mainVars, lisVars, kernVars
<1> DEFINE x == wdata[w]
<1>1. /\ wpc[w] = "free" /\ wpc' = [wpc EXCEPT ![w] = "next"]
      /\ wdata' = [wdata EXCEPT ![w] = None]
      /\ live' = live \ {x} /\ heap' = [heap EXCEPT ![x] = NewEventData(None)]
      /\ UNCHANGED <<fate, mainVars, lisVars, batch, ctl, kernVars, again>>
  BY DEF WorkerDelete, Forget
<1>2. x \in live /\ NoReg(x) /\ HoldsAddr(w, x)
  BY <1>1 DEF WorkerInv, WorkerOK, HoldsAddr
<1>3. /\ wpc'[w] = "next" /\ wdata'[w] = None
      /\ \A v \in Workers : v # w => wpc'[v] = wpc[v] /\ wdata'[v] = wdata[v]
      /\ \A a \in live : a # x => heap'[a] = heap[a]
  BY <1>1 DEF TypeOK, PcTypeOK, MemTypeOK
<1>4. \A v \in Workers : v # w => ~HoldsAddr(v, x)
  BY <1>2 DEF PrivateInv, TypeOK, MemTypeOK
<1>5. \A v \in Workers : v # w /\ wpc[v] \in {"handle", "ctl", "del"} => wdata[v] # x
  BY <1>2 DEF WorkerInv, WorkerOK, HasReg, NoReg
<1>6. PcInv' /\ OnlyRetryTerminates'
  BY <1>1, <1>3 DEF PcInv, OnlyRetryTerminates, Starting, EpollsOpen
<1>7. RegsInv'
  BY <1>1, <1>2, <1>3 DEF RegsInv, Open, NoReg
<1>8. BatchInv'
  <2>1. \A v \in Workers : \A e \in batch[v] : e.data # None
    BY NoneAssumption DEF TypeOK, PcTypeOK
  <2>2. QED
    BY <1>1, <1>3, <2>1 DEF BatchInv, BatchOK, HasReg
<1>9. WorkerInv'
  <2> SUFFICES ASSUME NEW v \in Workers PROVE WorkerOK(v)'
    BY DEF WorkerInv
  <2>1. WorkerOK(v)
    BY DEF WorkerInv
  <2>2. CASE v # w
    <3>1. /\ wpc[v] \in {"handle", "ctl", "del", "close", "free"} => wdata[v] # x
          /\ wpc[v] = "ctl" => ctl[v].data # x
      BY <1>4, <1>5, <2>2 DEF HoldsAddr
    <3>2. QED
      BY <1>1, <1>3, <2>1, <2>2, <3>1, HeldLive
         DEF WorkerOK, Open, HasReg, NoReg, NoRegFd
  <2>3. CASE v = w
    BY <1>1, <1>3, <2>1, <2>3 DEF WorkerOK
  <2>4. QED
    BY <2>2, <2>3
<1>10. ListenerInv'
  <2>1. lpc = "add" => ldata # x
    BY <1>2 DEF PrivateInv
  <2>2. QED
    BY <1>1, <1>3, <2>1 DEF ListenerInv, Open, NoReg, NoRegFd
<1>11. PrivateInv'
  <2>1. \A b : \A v \in Workers : HoldsAddr(v, b)' => HoldsAddr(v, b)
    BY <1>1, <1>3 DEF HoldsAddr
  <2>2. \A g : \A v \in Workers : HoldsFd(v, g)' => HoldsFd(v, g)
    BY <1>1, <1>3, <1>4, HeldLive DEF HoldsFd, HoldsAddr
  <2>3. QED
    BY <1>1, <2>1, <2>2 DEF PrivateInv
<1>12. QED
  BY <1>6, <1>7, <1>8, <1>9, <1>10, <1>11
-----------------------------------------------------------------------------
(* The theorems.                                                            *)
IInv == TypeOK /\ OwnerInv

\* Before Start nothing is allocated or open.
LEMMA InitIInv == Init => IInv
<1> SUFFICES ASSUME Init PROVE IInv
  OBVIOUS
<1>1. PcTypeOK
  BY PoolAssumption DEF Init, PcTypeOK, Workers, NoCtl
<1>2. MemTypeOK
  <2>1. NewEventData(None) \in EventData
    BY DEF NewEventData, EventData
  <2>2. QED
    BY <2>1 DEF Init, MemTypeOK
<1>3. NetTypeOK
  BY DEF Init, NetTypeOK
<1>4. OwnerInv
  BY DEF Init, OwnerInv, PcInv, RegsInv, BatchInv, BatchOK, WorkerInv, WorkerOK, ListenerInv,
     PrivateInv, HoldsAddr, HoldsFd, OnlyRetryTerminates, Starting, EpollsOpen, NoCtl
<1>5. QED
  BY <1>1, <1>2, <1>3, <1>4 DEF IInv, TypeOK

\* Every step of every thread, of the kernel and of a client keeps it.
LEMMA NextIInv == IInv /\ [Next]_vars => IInv'
<1> SUFFICES ASSUME IInv, [Next]_vars PROVE IInv'
  OBVIOUS
<1> USE DEF IInv
<1>1. CASE MainStep \/ Stop \/ StartFails
  BY <1>1, MainType, OwnerMain
<1>2. CASE ListenerStep
  BY <1>2, ListenerType, OwnerListener DEF OwnerInv
<1>3. ASSUME NEW w \in Workers, WorkerStep(w) PROVE IInv'
  <2>1. TypeOK'
    BY <1>3, WorkerType DEF OwnerInv
  <2>2. OwnerInv'
    BY <1>3, <2>1, OwnerLoop, OwnerTake, OwnerAlloc, OwnerCtl, OwnerDel, OwnerClose,
       OwnerDelete DEF WorkerStep
  <2>3. QED
    BY <2>1, <2>2
<1>4. ASSUME NEW c \in Conns, ClientStep(c) PROVE IInv'
  BY <1>4, ClientType, OwnerClient
<1>5. CASE UNCHANGED vars
  <2>1. UNCHANGED <<fate, mainVars, lisVars, wkVars, memVars, kernVars, netVars, again>>
    BY <1>5 DEF vars
  <2>2. TypeOK'
    BY <2>1, PcSame, MemSame, NetSame DEF TypeOK
  <2>3. PcInv' /\ OnlyRetryTerminates'
    BY <2>1 DEF OwnerInv, PcInv, OnlyRetryTerminates, mainVars, lisVars, wkVars
  <2>4. Rest'
    BY <2>1, RestSame DEF OwnerInv, Rest, lisVars
  <2>5. QED
    BY <2>2, <2>3, <2>4 DEF OwnerInv, Rest
<1>6. QED
  BY <1>1, <1>2, <1>3, <1>4, <1>5 DEF Next

\* Each EventData and each descriptor has exactly one owner, at any time and
\* for every number of workers, connections, addresses and descriptors.
THEOREM Invariance == Spec => []IInv
BY InitIInv, NextIInv, PTL DEF Spec

\* Every variable stays in its type, whatever the bounds (HttpServer.TypeOK).
THEOREM TypeCorrect == Spec => []TypeOK
<1>1. IInv => TypeOK
  BY DEF IInv
<1>2. QED
  BY <1>1, Invariance, PTL

\* For any number of workers and connections, the only thing that ends the
\* process by an exception escaping a thread is a send that reported EAGAIN.
THEOREM TerminatesOnlyOnRetry == Spec => []OnlyRetryTerminates
<1>1. IInv => OnlyRetryTerminates
  BY DEF IInv, OwnerInv
<1>2. QED
  BY <1>1, Invariance, PTL

\* No thread ever follows a pointer to an EventData that was deleted.
THEOREM MemoryAlwaysSafe == Spec => []MemorySafe
<1>1. IInv => MemorySafe
  <2> SUFFICES ASSUME IInv PROVE MemorySafe
    OBVIOUS
  <2>1. \A r \in regs : r.data \in live /\ heap[r.data].fd = r.fd /\ Open(r.fd)
    BY DEF IInv, OwnerInv, RegsInv
  <2>2. \A w \in Workers : \A e \in batch[w] : \E r \in regs : r.ep = w /\ r.data = e.data
    BY DEF IInv, OwnerInv, BatchInv, BatchOK, HasReg
  <2>3. \A w \in Workers : wdata[w] # None => wdata[w] \in live
    BY HeldLive DEF IInv, OwnerInv, WorkerInv, WorkerOK
  <2>4. ldata # None => ldata \in live
    BY DEF IInv, OwnerInv, ListenerInv
  <2>5. QED
    BY <2>1, <2>2, <2>3, <2>4 DEF MemorySafe
<1>2. QED
  BY <1>1, Invariance, PTL

\* Between Start and Stop no thread has left its loop.
THEOREM AlwaysServing == Spec => []ServingAlive
<1>1. IInv => ServingAlive
  BY DEF IInv, OwnerInv, PcInv, ServingAlive, TypeOK, PcTypeOK, Starting
<1>2. QED
  BY <1>1, Invariance, PTL
-----------------------------------------------------------------------------
\* The connections handed out so far follow the round robin exactly: the
\* workers before current_worker have had one more than the others.
ShareInv == \A v, w \in Workers :
    load[v] + (IF w < current_worker THEN 1 ELSE 0)
      = load[w] + (IF v < current_worker THEN 1 ELSE 0)

\* However many connections come, no worker is handed two more than another.
THEOREM SharesFair == Spec => []FairShare
<1>1. Init => ShareInv
  BY PoolAssumption DEF Init, ShareInv, Workers
<1>2. TypeOK /\ ShareInv /\ [Next]_vars => ShareInv'
  <2> SUFFICES ASSUME TypeOK, ShareInv, [Next]_vars PROVE ShareInv'
    OBVIOUS
  <2>1. CASE ListenAdd
    <3>1. /\ current_worker \in Workers /\ load \in [Workers -> Nat]
          /\ load' = [load EXCEPT ![current_worker] = @ + 1]
          /\ current_worker' = IF current_worker + 1 = kThreadPoolSize THEN 0
                               ELSE current_worker + 1
      BY <2>1 DEF ListenAdd, TypeOK, PcTypeOK
    <3>2. QED
      BY <3>1, PoolAssumption DEF ShareInv, Workers
  <2>2. CASE ~ListenAdd
    <3> USE DEF lisVars
    <3>1. CASE MainStep \/ Stop \/ StartFails
      BY <3>1 DEF ShareInv, MainStep, StartFails, BindAndListen, SetUpEpoll, SetRunning,
         SpawnListener, SpawnWorker, Stop, JoinListener, JoinWorkers, CloseEpolls, CloseSock
    <3>2. CASE ListenerStep
      BY <2>2, <3>2 DEF ShareInv, ListenerStep, ListenCheck, AcceptNone, Accept
    <3>3. ASSUME NEW w \in Workers, WorkerStep(w) PROVE UNCHANGED lisVars
      BY <3>3 DEF WorkerStep, WorkerCheck, EpollWait, BatchDone, TakeError, RecvData,
         RecvEnd, RecvAgain, HandleHttpData, SendPart, SendRest, SendAgain, SendError,
         WorkerCtl, WorkerDel, WorkerClose, WorkerDelete
    <3>4. ASSUME NEW c \in Conns, ClientStep(c) PROVE UNCHANGED lisVars
      BY <3>4 DEF ClientStep, Connect, ClientSend, ClientRead, ClientClose, ClientReset
    <3>5. CASE UNCHANGED vars
      BY <3>5 DEF vars, ShareInv
    <3>6. CASE UNCHANGED lisVars
      BY <3>6 DEF ShareInv
    <3>7. QED
      BY <3>1, <3>2, <3>3, <3>4, <3>5, <3>6 DEF Next
  <2>3. QED
    BY <2>1, <2>2
<1>3. TypeOK /\ ShareInv => FairShare
  BY DEF ShareInv, FairShare, TypeOK, PcTypeOK
<1>4. QED
  BY <1>1, <1>2, <1>3, TypeCorrect, PTL DEF Spec
-----------------------------------------------------------------------------
(* No EventData and no descriptor is lost.                                  *)
Held(a) ==
    \/ \E r \in regs : r.data = a
    \/ a = ldata
    \/ \E w \in Workers : wdata[w] = a \/ ctl[w].data = a

HeldFd(f) ==
    \/ f = lfd
    \/ \E r \in regs : r.fd = f
    \/ \E w \in Workers : HoldsFd(w, f)

LeakInv ==
    Up /\ main \notin {"close_sock", "end"} =>
        /\ \A a \in live : Held(a)
        /\ \A f \in Fds : Open(f) => HeldFd(f)

\* The form of NoLeak used in the proofs.
LEMMA LeakIsNoLeak == LeakInv <=> NoLeak
BY DEF LeakInv, NoLeak, Held, HeldFd, HoldsFd

\* Start and Stop leak nothing while the process serves.
LEMMA LeakMain ==
    ASSUME TypeOK, LeakInv, MainStep \/ Stop \/ StartFails PROVE LeakInv'
<1>1. CASE CloseEpolls
  BY <1>1 DEF CloseEpolls, LeakInv
<1>2. CASE CloseSock \/ StartFails
  BY <1>2 DEF CloseSock, StartFails, LeakInv, Up
<1>3. CASE \E w \in Workers : SpawnWorker(w)
  <2>1. PICK w \in Workers : SpawnWorker(w)
    BY <1>3
  <2>2. \A f : HeldFd(f) => HeldFd(f)'
    BY <2>1 DEF SpawnWorker, HeldFd, HoldsFd, TypeOK, PcTypeOK, lisVars, memVars, kernVars
  <2>3. QED
    BY <2>1, <2>2 DEF SpawnWorker, LeakInv, Up, Held, Open, lisVars, memVars, kernVars
<1>4. CASE BindAndListen \/ SetUpEpoll \/ SetRunning \/ SpawnListener \/ Stop
           \/ JoinListener \/ JoinWorkers
  <2>1. UNCHANGED <<lfd, ldata, wkVars, memVars, kernVars, fate>>
        /\ main \notin {"close_sock", "end"}
    BY <1>4 DEF BindAndListen, SetUpEpoll, SetRunning, SpawnListener, Stop, JoinListener,
       JoinWorkers, lisVars
  <2>2. QED
    BY <2>1 DEF LeakInv, Up, Held, HeldFd, HoldsFd, Open, wkVars, memVars, kernVars
<1>5. QED
  BY <1>1, <1>2, <1>3, <1>4 DEF MainStep

\* What the listener accepts is in its hands until it is registered.
LEMMA LeakListener ==
    ASSUME TypeOK, OwnerInv, LeakInv, ListenerStep PROVE LeakInv'
<1> USE DEF mainVars, wkVars
<1>1. CASE ListenCheck \/ AcceptNone
  BY <1>1 DEF ListenCheck, AcceptNone, LeakInv, Up, Held, HeldFd, HoldsFd, Open,
     memVars, kernVars
<1>2. ASSUME NEW f \in Fds, NEW a \in Addrs, Accept(f, a) PROVE LeakInv'
  <2> USE <1>2 DEF Accept, Put, FreeAddrs
  <2>1. lfd = None /\ ldata = None
    BY DEF OwnerInv, ListenerInv
  <2>2. \A b : Held(b) /\ b # None => Held(b)'
    BY <2>1 DEF Held
  <2>3. \A g \in Fds : HeldFd(g) => HeldFd(g)'
    <3>1. \A w \in Workers : wpc[w] = "close" => heap'[wdata[w]] = heap[wdata[w]]
      BY HeldLive DEF TypeOK, MemTypeOK
    <3>2. QED
      BY <2>1, <3>1, NoneAssumption DEF HeldFd, HoldsFd
  <2>4. Held(a)' /\ HeldFd(f)'
    BY DEF Held, HeldFd
  <2>5. \A g \in Fds : g # f /\ Open(g)' => Open(g)
    BY DEF Open, TypeOK, MemTypeOK
  <2>6. \A b \in live : b # None
    BY NoneAssumption DEF TypeOK, MemTypeOK
  <2>7. QED
    BY <2>2, <2>3, <2>4, <2>5, <2>6 DEF LeakInv, Up
<1>3. CASE ListenAdd
  <2> USE <1>3 DEF ListenAdd
  <2>1. CASE UNCHANGED fate
    <3>1. regs \subseteq regs'
          /\ \E r \in regs' : r.data = ldata /\ r.fd = lfd
      <4> DEFINE r == [ep |-> current_worker, fd |-> lfd, events |-> "IN", data |-> ldata]
      <4>1. CtlAllowed("ADD", current_worker, lfd)
            /\ regs' = Without(current_worker, lfd) \cup {r}
        BY <2>1 DEF control_epoll_event, Up
      <4>2. Without(current_worker, lfd) = regs
        BY <4>1 DEF CtlAllowed, Registered, Without
      <4>3. r \in regs' /\ r.data = ldata /\ r.fd = lfd
        BY <4>1
      <4>4. QED
        BY <4>1, <4>2, <4>3
    <3>2. (\A a : Held(a) => Held(a)') /\ (\A f : HeldFd(f) => HeldFd(f)')
      BY <3>1 DEF Held, HeldFd, HoldsFd, memVars
    <3>3. QED
      BY <2>1, <3>2 DEF LeakInv, Up, Open, memVars
  <2>2. CASE fate' # "up"
    BY <2>2 DEF LeakInv, Up
  <2>3. QED
    BY <2>1, <2>2 DEF control_epoll_event, Up
<1>4. QED
  BY <1>1, <1>2, <1>3 DEF ListenerStep

\* What a taken event points to stays registered or in the worker's hands.
LEMMA LeakTake ==
    ASSUME TypeOK, OwnerInv, LeakInv, NEW w \in Workers, NEW e \in batch[w],
           NEW pc \in {"handle", "ctl", "del"}, Take(w, e, pc),
           UNCHANGED <<fate, mainVars, lisVars, kernVars>>,
           \A a \in live' : a \in live \/ ctl'[w].data = a,
           \A v \in Workers : v # w => ctl'[v] = ctl[v],
           \A a \in live : heap'[a].fd = heap[a].fd
    PROVE  LeakInv'
<1> USE DEF mainVars, lisVars, kernVars
<1>1. /\ wdata[w] = None /\ ctl[w].data = None /\ wpc[w] = "next"
      /\ \A v \in Workers : v # w => wpc'[v] = wpc[v] /\ wdata'[v] = wdata[v]
  BY TakeFacts DEF TypeOK, PcTypeOK
<1>2. \A a : Held(a) /\ a # None => Held(a)'
  BY <1>1 DEF Held
<1>3. \A f : HeldFd(f) => HeldFd(f)'
  <2>1. \A f : \A v \in Workers : HoldsFd(v, f) => HoldsFd(v, f)'
    BY <1>1, HeldLive DEF HoldsFd
  <2>2. QED
    BY <2>1 DEF HeldFd
<1>4. \A a \in live : a # None
  BY NoneAssumption DEF TypeOK, MemTypeOK
<1>5. \A a : ctl'[w].data = a => Held(a)'
  BY DEF Held
<1>6. QED
  BY <1>2, <1>3, <1>4, <1>5 DEF LeakInv, Up, Open

\* A worker frees and closes what it removes before it goes on.
LEMMA LeakWorker ==
    ASSUME TypeOK, OwnerInv, LeakInv, NEW w \in Workers, WorkerStep(w) PROVE LeakInv'
<1>1. CASE WorkerCheck(w) \/ EpollWait(w) \/ BatchDone(w)
  <2>1. /\ UNCHANGED <<fate, mainVars, lisVars, wdata, ctl, memVars, kernVars>>
        /\ \A v \in Workers : wpc[v] = "close" => wpc'[v] = wpc[v]
    BY <1>1 DEF WorkerCheck, EpollWait, BatchDone, TypeOK, PcTypeOK
  <2>2. QED
    BY <2>1 DEF LeakInv, Up, Held, HeldFd, HoldsFd, Open, mainVars, lisVars, memVars, kernVars
<1>2. ASSUME NEW e \in batch[w],
             TakeError(w, e) \/ RecvEnd(w, e) \/ SendError(w, e)
      PROVE  LeakInv'
  <2>1. Take(w, e, "del") /\ UNCHANGED <<fate, mainVars, lisVars, ctl, memVars, kernVars>>
    BY <1>2 DEF TakeError, RecvEnd, SendError
  <2>2. QED
    BY <2>1, LeakTake DEF memVars
<1>3. ASSUME NEW e \in batch[w], RecvAgain(w, e) \/ SendAgain(w, e) PROVE LeakInv'
  <2>1. Take(w, e, "ctl") /\ UNCHANGED <<fate, mainVars, lisVars, memVars, kernVars>>
    BY <1>3 DEF RecvAgain, SendAgain
  <2>2. \A v \in Workers : v # w => ctl'[v] = ctl[v]
    BY <1>3 DEF RecvAgain, SendAgain, Prepare, TypeOK, PcTypeOK
  <2>3. QED
    BY <2>1, <2>2, LeakTake DEF memVars
<1>4. ASSUME NEW e \in batch[w], RecvData(w, e) PROVE LeakInv'
  <2>1. \A a \in live : heap'[a].fd = heap[a].fd
    BY <1>4 DEF RecvData, TypeOK, MemTypeOK, EventData
  <2>2. Take(w, e, "handle") /\ UNCHANGED <<fate, mainVars, lisVars, ctl, live, kernVars>>
    BY <1>4 DEF RecvData
  <2>3. QED
    BY <2>1, <2>2, LeakTake
<1>5. ASSUME NEW e \in batch[w], NEW n \in 1 .. SndBuf, SendPart(w, e, n) PROVE LeakInv'
  <2>1. \A a \in live : heap'[a].fd = heap[a].fd
    BY <1>5 DEF SendPart, TypeOK, MemTypeOK, EventData
  <2>2. Take(w, e, "ctl") /\ UNCHANGED <<fate, mainVars, lisVars, live, kernVars>>
    BY <1>5 DEF SendPart
  <2>3. \A v \in Workers : v # w => ctl'[v] = ctl[v]
    BY <1>5 DEF SendPart, Prepare, TypeOK, PcTypeOK
  <2>4. QED
    BY <2>1, <2>2, <2>3, LeakTake
<1>6. ASSUME NEW e \in batch[w], NEW a \in Addrs, SendRest(w, e, a) PROVE LeakInv'
  <2>1. Take(w, e, "ctl") /\ UNCHANGED <<fate, mainVars, lisVars, kernVars>>
    BY <1>6 DEF SendRest
  <2>2. /\ \A b \in live : heap'[b].fd = heap[b].fd
        /\ live' = live \cup {a}
    BY <1>6 DEF SendRest, Put, FreeAddrs, TypeOK, MemTypeOK
  <2>3. /\ \A v \in Workers : v # w => ctl'[v] = ctl[v]
        /\ ctl'[w].data = a
    BY <1>6 DEF SendRest, Prepare, TypeOK, PcTypeOK
  <2>4. QED
    BY <2>1, <2>2, <2>3, LeakTake
<1>7. ASSUME NEW a \in Addrs, NEW len \in RespLens, HandleHttpData(w, a, len) PROVE LeakInv'
  <2> USE <1>7 DEF HandleHttpData
  <2>1. /\ wpc[w] = "handle" /\ ctl[w].data = None /\ ctl'[w].data = a
        /\ \A v \in Workers : v # w => ctl'[v] = ctl[v] /\ wpc'[v] = wpc[v]
        /\ live' = live \cup {a} /\ \A b \in live : heap'[b] = heap[b]
    BY DEF OwnerInv, WorkerInv, WorkerOK, Prepare, Put, FreeAddrs, TypeOK, PcTypeOK, MemTypeOK
  <2>2. \A b : Held(b) /\ b # None => Held(b)'
    BY <2>1 DEF Held, lisVars, kernVars
  <2>3. Held(a)'
    BY <2>1 DEF Held
  <2>4. \A f : HeldFd(f) => HeldFd(f)'
    <3>1. \A f : \A v \in Workers : HoldsFd(v, f) => HoldsFd(v, f)'
      BY <2>1, HeldLive DEF HoldsFd
    <3>2. QED
      BY <3>1 DEF HeldFd, lisVars, kernVars
  <2>5. \A b \in live : b # None
    BY NoneAssumption DEF TypeOK, MemTypeOK
  <2>6. QED
    BY <2>1, <2>2, <2>3, <2>4, <2>5 DEF LeakInv, Up, Open, mainVars, kernVars
<1>8. CASE WorkerCtl(w)
  <2> DEFINE x == wdata[w]
             y == ctl[w].data
             f == heap[x].fd
  <2>1. /\ wpc[w] = "ctl" /\ ctl' = [ctl EXCEPT ![w] = NoCtl]
        /\ control_epoll_event(ctl[w].op, w, f, ctl[w].events, y)
        /\ \/ y = x /\ wpc' = [wpc EXCEPT ![w] = "next"] /\ wdata' = [wdata EXCEPT ![w] = None]
           \/ y # x /\ wpc' = [wpc EXCEPT ![w] = "free"] /\ UNCHANGED wdata
        /\ UNCHANGED <<mainVars, lisVars, memVars, fdtab>>
    BY <1>8 DEF WorkerCtl, Forget
  <2>2. CASE fate' # "up"
    BY <2>2 DEF LeakInv, Up
  <2>3. CASE fate' = "up" /\ fate = "up"
    <3>1. /\ \A r \in regs : r.fd # f => r \in regs'
          /\ \E r \in regs' : r.data = y /\ r.fd = f
      <4> DEFINE q == [ep |-> w, fd |-> f, events |-> ctl[w].events, data |-> y]
      <4>1. ctl[w].op # "DEL"
        BY DEF TypeOK, PcTypeOK
      <4>2. regs' = Without(w, f) \cup {q}
        BY <2>1, <2>3, <4>1 DEF control_epoll_event
      <4>3. q \in regs' /\ q.data = y /\ q.fd = f
        BY <4>2
      <4>4. QED
        BY <4>2, <4>3 DEF Without
    <3>2. /\ \A r \in regs : r.fd = f => r.data = x
          /\ f \in Fds
      BY <2>1, HeldLive DEF OwnerInv, RegsInv, WorkerInv, WorkerOK, HasReg
    <3>3. /\ \A v \in Workers : v # w => /\ wpc'[v] = wpc[v] /\ wdata'[v] = wdata[v]
                                        /\ ctl'[v] = ctl[v]
          /\ y # x => wdata'[w] = x
      BY <2>1 DEF TypeOK, PcTypeOK
    <3>4. \A a : Held(a) => Held(a)'
      BY <2>1, <3>1, <3>2, <3>3 DEF Held, lisVars
    <3>5. \A g : HeldFd(g) => HeldFd(g)'
      BY <2>1, <3>1, <3>3 DEF HeldFd, HoldsFd, lisVars, memVars
    <3>6. QED
      BY <2>1, <2>3, <3>4, <3>5 DEF LeakInv, Up, Open, mainVars, memVars
  <2>4. QED
    BY <1>8, <2>2, <2>3 DEF WorkerCtl, Up
<1>9. CASE WorkerDel(w)
  <2> DEFINE x == wdata[w]
             f == heap[x].fd
  <2> USE <1>9 DEF WorkerDel
  <2>1. CASE fate' # "up"
    BY <2>1 DEF LeakInv, Up
  <2>2. CASE fate' = "up"
    <3>1. regs' = Without(w, f)
      BY <2>2 DEF control_epoll_event, Up
    <3>2. \A r \in regs : r \in regs' \/ (r.fd = f /\ r.data = x)
      BY <3>1, HeldLive DEF Without, OwnerInv, RegsInv, WorkerInv, WorkerOK, HasReg
    <3>3. wpc'[w] = "close" /\ \A v \in Workers : v # w => wpc'[v] = wpc[v]
      BY DEF TypeOK, PcTypeOK
    <3>4. \A a : Held(a) => Held(a)'
      BY <3>2 DEF Held, lisVars
    <3>5. \A g : HeldFd(g) => HeldFd(g)'
      BY <3>2, <3>3 DEF HeldFd, HoldsFd, lisVars, memVars
    <3>6. QED
      BY <2>2, <3>4, <3>5 DEF LeakInv, Up, Open, mainVars, memVars
  <2>3. QED
    BY <2>1, <2>2
<1>10. CASE WorkerClose(w)
  <2> DEFINE x == wdata[w]
             f == heap[x].fd
  <2> USE <1>10 DEF WorkerClose
  <2>1. \A r \in regs : r \in regs'
    BY DEF OwnerInv, WorkerInv, WorkerOK, NoRegFd
  <2>2. \A a : Held(a) => Held(a)'
    BY <2>1 DEF Held, lisVars
  <2>3. \A g : g # f /\ HeldFd(g) => HeldFd(g)'
    BY <2>1 DEF HeldFd, HoldsFd, lisVars, memVars, TypeOK, PcTypeOK
  <2>4. \A g \in Fds : Open(g)' => g # f /\ Open(g)
    BY DEF Open, TypeOK, MemTypeOK
  <2>5. QED
    BY <2>2, <2>3, <2>4 DEF LeakInv, Up, mainVars, memVars
<1>11. CASE WorkerDelete(w)
  <2> DEFINE x == wdata[w]
  <2> USE <1>11 DEF WorkerDelete, Forget
  <2>1. \A a : a # x /\ Held(a) => Held(a)'
    BY DEF Held, lisVars, kernVars, TypeOK, PcTypeOK
  <2>2. \A v \in Workers : wpc[v] = "close" => wdata[v] # x
    BY DEF OwnerInv, PrivateInv, HoldsAddr, WorkerInv, WorkerOK, TypeOK, MemTypeOK
  <2>3. \A g : \A v \in Workers : HoldsFd(v, g) => HoldsFd(v, g)'
    BY <2>2, HeldLive DEF HoldsFd, TypeOK, PcTypeOK, MemTypeOK
  <2>4. \A g : HeldFd(g) => HeldFd(g)'
    BY <2>3 DEF HeldFd, lisVars, kernVars
  <2>5. QED
    BY <2>1, <2>4 DEF LeakInv, Up, Open, mainVars, kernVars
<1>12. QED
  BY <1>1, <1>2, <1>3, <1>4, <1>5, <1>6, <1>7, <1>8, <1>9, <1>10, <1>11 DEF WorkerStep

\* While the server is up, every EventData and every open descriptor is in an
\* epoll set or in the hands of a thread.
THEOREM NothingLeaked == Spec => []NoLeak
<1>1. Init => LeakInv
  BY DEF Init, LeakInv, Open
<1>2. IInv /\ LeakInv /\ [Next]_vars => LeakInv'
  <2> SUFFICES ASSUME IInv, LeakInv, [Next]_vars PROVE LeakInv'
    OBVIOUS
  <2>1. CASE MainStep \/ Stop \/ StartFails
    BY <2>1, LeakMain DEF IInv
  <2>2. CASE ListenerStep
    BY <2>2, LeakListener DEF IInv
  <2>3. ASSUME NEW w \in Workers, WorkerStep(w) PROVE LeakInv'
    BY <2>3, LeakWorker DEF IInv
  <2>4. ASSUME NEW c \in Conns, ClientStep(c) PROVE LeakInv'
    <3>1. UNCHANGED <<fate, mainVars, lisVars, wkVars, memVars, kernVars>>
      BY <2>4 DEF ClientStep, Connect, ClientSend, ClientRead, ClientClose, ClientReset
    <3>2. QED
      BY <3>1 DEF LeakInv, Up, Held, HeldFd, HoldsFd, Open, mainVars, lisVars, wkVars,
         memVars, kernVars
  <2>5. CASE UNCHANGED vars
    <3>1. UNCHANGED <<fate, mainVars, lisVars, wkVars, memVars, kernVars>>
      BY <2>5 DEF vars
    <3>2. QED
      BY <3>1 DEF LeakInv, Up, Held, HeldFd, HoldsFd, Open, mainVars, lisVars, wkVars,
         memVars, kernVars
  <2>6. QED
    BY <2>1, <2>2, <2>3, <2>4, <2>5 DEF Next
<1>3. QED
  BY <1>1, <1>2, LeakIsNoLeak, Invariance, PTL DEF Spec
=============================================================================
