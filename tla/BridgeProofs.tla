---------------------------- MODULE BridgeProofs ----------------------------
(***************************************************************************)
(* Proofs about Bridge: the window outlives the handlers, calls run once   *)
(* and in the order in which they were answered, and what a handler reads  *)
(* is right unless the GUI thread changed it meanwhile; for any number of  *)
(* workers, requests, variables and plots.                                 *)
(***************************************************************************)
EXTENDS Bridge, SequenceTheorems, TLAPS

USE BoundsAssumption, ReadsAssumption, TabsAssumption, TextsAssumption
-----------------------------------------------------------------------------
(* The inductive invariant.  First the types, by groups of variables that   *)
(* the same steps change.                                                   *)
LoopPcs == {"check", "key", "value", "name"}

SolidPcs == {"expr", "size", "eqn", "fun", "args"}

ReadPcs == LoopPcs \cup SolidPcs \cup {"plot"}

Pcs == ReadPcs \cup {"none", "idle", "done", "settab", "emit", "post", "reply"}

Args == {NoText} \cup TabsUsed \cup PointReads \cup Operation \cup Curves \cup Solids \cup Broken

\* The argument of a call is of the kind's.
Fits(e) ==
    /\ e.kind = "calc" => e.arg \in Operation
    /\ e.kind = "add2d" => e.arg \in Curves
    /\ e.kind = "add3d" => e.arg \in Solids \cup Broken
    /\ e.kind = "tab" => e.arg \in TabsUsed
    /\ e.kind = "func3d" => e.arg \in PointReads

Task == [kind : Adds \cup {"tab", "vars", "func2d", "func3d", "none"}, arg : Args, id : Nat]

Event == [kind : Adds \cup {"tab"}, arg : Args, id : Nat]

Pairs == Names \X (Values \cup {NoText})

Part == (SUBSET Pairs) \cup [expr : Curves \cup {NoText}, vars : SUBSET Pairs] \cup Solids \cup {NoText}

Locals == [idx : Nat, key : Names \cup {NoText}, val : Values \cup {NoText}, copied : SUBSET Pairs,
           item : Nat, expr : Curves \cup {NoText}, end : Nat, answer : Seq(Part)]

MainTyped ==
    /\ fate \in {"up", "crashed"} /\ global_app \in BOOLEAN
    /\ main \in {"window", "server", "exec", "stop", "end"}

WindowTyped ==
    /\ keys \in Seq(Names)
    /\ value \in [DOMAIN value -> Values] /\ DOMAIN value \subseteq Names
    /\ DOMAIN value = {keys[i] : i \in DOMAIN keys}
    /\ \A i, j \in DOMAIN keys : keys[i] = keys[j] => i = j
    /\ plots \in Seq(Curves) /\ Len(plots) <= MaxPlots
    /\ expr_3d \in Solids \cup {NoText}
    /\ t_model3d.text \in Solids \cup {NoText}

BarTyped == {bar, shown} \subseteq TabsUsed \cup {0, 2} /\ raced \in BOOLEAN

WorkersTyped ==
    /\ wpc \in [Workers -> Pcs] /\ req \in [Workers -> Task] /\ loc \in [Workers -> Locals]
    /\ \A w \in Workers : Fits(req[w]) /\ req[w].id \in 0 .. started

DirtyTyped == dirty \in [Workers -> BOOLEAN]

LogTyped ==
    /\ posted \in Seq(Event)
    /\ \A i \in DOMAIN posted : Fits(posted[i]) /\ posted[i].id \in 0 .. started
    /\ started \in 0 .. MaxRequests /\ since \in Seq(SUBSET Nat) /\ Len(since) = started
    /\ acked \subseteq 1 .. started /\ executed \in Seq(Nat) /\ user \in 0 .. MaxUser

\* A place belongs to a kind of request.
PcKinds ==
    \A w \in Workers :
        /\ wpc[w] \in LoopPcs => req[w].kind \in {"vars", "func2d"}
        /\ wpc[w] = "plot" => req[w].kind = "func2d"
        /\ wpc[w] \in SolidPcs => req[w].kind = "func3d"
        /\ wpc[w] \in {"settab", "emit"} => req[w].kind = "tab"
        /\ wpc[w] = "post" => req[w].kind \in Adds

\* main and the lives of the workers.
LifeInv ==
    /\ main # "window" => global_app
    /\ main = "end" => posted = <<>>
    /\ \A w \in Workers : /\ wpc[w] = "none" <=> main \in {"window", "server"}
                          /\ wpc[w] = "done" => main \in {"stop", "end"}
                          /\ main = "end" => wpc[w] = "done"

Defined == {<<v, value[v]>> : v \in DOMAIN value}

\* What a loop has copied when it comes to the n-th name or plot.
Begun(n) == {<<keys[i], value[keys[i]]>> : i \in 1 .. n - 1}

Facts(n) == [i \in 1 .. n |-> [expr |-> plots[i], vars |-> Defined]]

\* The locals of a handler, as long as what it reads has not changed.
VarLoop(w) ==
    wpc[w] \in LoopPcs =>
        /\ loc[w].idx \in 1 .. Len(keys) + 1 /\ loc[w].copied = Begun(loc[w].idx)
        /\ wpc[w] # "check" => loc[w].idx \in DOMAIN keys
        /\ wpc[w] = "value" => loc[w].key = keys[loc[w].idx]
        /\ wpc[w] = "name" => loc[w].val = value[keys[loc[w].idx]]

PlotLoop(w) ==
    /\ wpc[w] = "plot" =>
          loc[w].idx = 1 /\ loc[w].copied = {} /\ loc[w].item \in 1 .. Len(plots) + 1
    /\ wpc[w] \in LoopPcs /\ req[w].kind = "func2d" =>
          loc[w].item \in DOMAIN plots /\ loc[w].expr = plots[loc[w].item]
    /\ wpc[w] \in LoopPcs \cup {"plot"} /\ req[w].kind = "func2d" =>
          loc[w].end = Len(plots) /\ loc[w].answer = Facts(loc[w].item - 1)

\* What was read n times.
Same(n) == [i \in 1 .. n |-> expr_3d]

SolidReads(w) ==
    /\ wpc[w] \in SolidPcs => loc[w].answer = Same(Len(loc[w].answer))
    /\ wpc[w] = "expr" => Len(loc[w].answer) = 0
    /\ wpc[w] \in {"size", "eqn"} => Len(loc[w].answer) = 1
    /\ wpc[w] = "fun" => Len(loc[w].answer) = 2
    /\ wpc[w] = "args" => Len(loc[w].answer) \in 3 .. 3 + req[w].arg
    /\ wpc[w] \in {"eqn", "fun", "args"} => expr_3d # NoText

Answered(w) ==
    wpc[w] = "reply" =>
        /\ req[w].kind = "vars" => loc[w].answer = <<Defined>>
        /\ req[w].kind = "func2d" => loc[w].answer = Facts(Len(plots))
        /\ req[w].kind = "func3d" =>
              loc[w].answer = IF expr_3d = NoText THEN <<NoText>> ELSE Same(3 + req[w].arg)

LoopOK(w) == ~dirty[w] => VarLoop(w) /\ PlotLoop(w) /\ SolidReads(w) /\ Answered(w)

LoopInv == \A w \in Workers : LoopOK(w)

\* The calls that wait, and the places of calls before the k-th of them.
IsCall(e) == e.kind # "tab"

Waiting == {posted[k].id : k \in {k \in DOMAIN posted : IsCall(posted[k])}}

WaitingBefore(k) == {posted[j].id : j \in {j \in 1 .. k - 1 : IsCall(posted[j])}}

\* What is executed and what waits are one sequence of calls, in which each
\* stands once, after all that were acknowledged before its request came.
OrderInv ==
    /\ ExecutedInOrder
    /\ \A i \in DOMAIN executed : executed[i] \in 1 .. started
    /\ \A k \in DOMAIN posted : IsCall(posted[k]) =>
          /\ posted[k].id \in 1 .. started
          /\ posted[k].id \notin Executed \cup WaitingBefore(k)
          /\ since[posted[k].id] \subseteq Executed \cup WaitingBefore(k)
    /\ \A n \in 1 .. started : since[n] \subseteq acked
    /\ main # "end" => acked \subseteq Executed \cup Waiting
    /\ \A v, w \in Workers : req[v].kind # "none" /\ req[v].id = req[w].id => v = w
    /\ \A w \in Workers :
          /\ wpc[w] \in ReadPcs \cup {"settab", "emit", "post", "reply"} <=> req[w].kind # "none"
          /\ req[w].kind # "none" => req[w].id # 0
          /\ wpc[w] = "post" => req[w].id \notin Executed \cup Waiting
          /\ wpc[w] = "reply" /\ req[w].kind \in Adds => req[w].id \in Executed \cup Waiting

\* Of the changes of the tab that are under way the last is for the bar's.
Emitting(w) == wpc[w] = "emit"

LastTab(i) == /\ posted[i].kind = "tab"
              /\ \A j \in DOMAIN posted : j > i => posted[j].kind # "tab"

TabInv ==
    main # "end" /\ ~raced =>
        /\ \A v, w \in Workers : Emitting(v) /\ Emitting(w) => v = w
        /\ \A w \in Workers : Emitting(w) => req[w].arg = bar
        /\ (\A w \in Workers : ~Emitting(w)) =>
              \A i \in DOMAIN posted : LastTab(i) => posted[i].arg = bar
        /\ ~Outstanding => bar = shown

IInv ==
    /\ MainTyped /\ WindowTyped /\ BarTyped /\ WorkersTyped /\ DirtyTyped /\ LogTyped
    /\ PcKinds /\ LifeInv /\ LoopInv /\ OrderInv /\ TabInv
    /\ ShownIsReported /\ CrashOnlyRaced
-----------------------------------------------------------------------------
\* There is no worker, no call and no plot at the start.
LEMMA InitIInv == Init => IInv
<1> SUFFICES ASSUME Init PROVE IInv
  OBVIOUS
<1>1. posted = <<>> /\ keys = <<>> /\ plots = <<>> /\ executed = <<>> /\ since = <<>>
      /\ DOMAIN posted = {} /\ DOMAIN keys = {} /\ DOMAIN plots = {} /\ DOMAIN executed = {}
  BY DEF Init
<1>2. value = [v \in {} |-> NoText] /\ DOMAIN value = {}
  BY DEF Init
<1>3. \A w \in Workers : wpc[w] = "none" /\ req[w] = NoRequest /\ loc[w] = NoLocals /\ dirty[w] = FALSE
  BY DEF Init
<1>4. MainTyped /\ BarTyped /\ DirtyTyped
  BY DEF Init, MainTyped, BarTyped, DirtyTyped
<1>5. WindowTyped
  BY <1>1, <1>2 DEF Init, WindowTyped
<1>6. NoRequest \in Task /\ Fits(NoRequest)
  BY DEF NoRequest, Task, Fits, Args
<1>7. NoLocals \in Locals
  BY DEF NoLocals, Locals
<1>8. WorkersTyped
  BY <1>3, <1>6, <1>7 DEF Init, WorkersTyped, Pcs, NoRequest
<1>9. LogTyped
  BY <1>1 DEF Init, LogTyped
<1>10. PcKinds /\ LifeInv /\ LoopInv
  BY <1>1, <1>3 DEF Init, PcKinds, LifeInv, LoopInv, LoopOK, VarLoop, PlotLoop, SolidReads, Answered,
         ReadPcs, LoopPcs, SolidPcs
<1>11. OrderInv
  BY <1>1, <1>3 DEF Init, OrderInv, ExecutedInOrder, Waiting, ReadPcs, LoopPcs, SolidPcs, NoRequest, Adds
<1>12. TabInv /\ ShownIsReported /\ CrashOnlyRaced
  BY <1>1, <1>3 DEF Init, TabInv, Emitting, ShownIsReported, CrashOnlyRaced
<1> QED BY <1>4, <1>5, <1>8, <1>9, <1>10, <1>11, <1>12 DEF IInv
-----------------------------------------------------------------------------
(* Frames: what a step keeps of a part that it hardly touches.              *)
\* What the loops compare their copies with stays while the window does.
LEMMA WindowKept ==
    ASSUME UNCHANGED <<keys, value, plots, expr_3d>>
    PROVE  /\ Defined' = Defined
           /\ \A n : Begun(n)' = Begun(n)
           /\ \A n : Facts(n)' = Facts(n)
<1>1. Defined' = Defined
  BY DEF Defined
<1>2. ASSUME NEW n PROVE Begun(n)' = Begun(n)
  BY DEF Begun
<1>3. ASSUME NEW n PROVE Facts(n)' = Facts(n)
  BY <1>1 DEF Facts
<1> QED BY <1>1, <1>2, <1>3

\* Appending gives the longer sequence.
LEMMA AppendIs ==
    ASSUME NEW S, NEW s \in Seq(S), NEW b \in S, NEW t \in Seq(S), Len(t) = Len(s) + 1,
           \A i \in 1 .. Len(s) : t[i] = s[i], t[Len(s) + 1] = b
    PROVE  Append(s, b) = t
<1>1. Append(s, b) \in Seq(S) /\ Len(Append(s, b)) = Len(s) + 1
  OBVIOUS
<1>2. \A i \in 1 .. Len(s) + 1 : Append(s, b)[i] = t[i]
  OBVIOUS
<1> QED BY <1>1, <1>2, SeqEqual

\* The answers of /func/3d, one read after the other.
LEMMA AppendSame ==
    ASSUME NEW S, expr_3d \in S, NEW a \in Seq(S), a = Same(Len(a))
    PROVE  Append(a, expr_3d) = Same(Len(a) + 1)
<1> DEFINE t == Same(Len(a) + 1)
<1>1. Len(a) \in Nat /\ Append(a, expr_3d) \in Seq(S) /\ Len(Append(a, expr_3d)) = Len(a) + 1
  OBVIOUS
<1>2. t \in Seq(S) /\ Len(t) = Len(a) + 1
  BY <1>1 DEF Same
<1>3. \A i \in 1 .. Len(a) + 1 : t[i] = expr_3d
  BY DEF Same
<1>4. \A i \in 1 .. Len(a) : a[i] = expr_3d
  BY <1>1 DEF Same
<1> HIDE DEF t
<1>5. Append(a, expr_3d) = t
  BY <1>1, <1>2, <1>3, <1>4, AppendIs
<1> QED BY <1>5 DEF t

\* A handler at rest keeps its part unless what it reads changes.
LEMMA LoopFrame ==
    ASSUME NEW w, PcKinds, w \in Workers, LoopOK(w),
           wpc'[w] = wpc[w], req'[w] = req[w], loc'[w] = loc[w],
           ~dirty'[w] => /\ ~dirty[w]
                         /\ "vars" \in Reads(w) => UNCHANGED <<keys, value>>
                         /\ "plots" \in Reads(w) => UNCHANGED plots
                         /\ "expr_3d" \in Reads(w) => UNCHANGED expr_3d
    PROVE  LoopOK(w)'
<1> SUFFICES ASSUME ~dirty'[w] PROVE (VarLoop(w) /\ PlotLoop(w) /\ SolidReads(w) /\ Answered(w))'
  BY DEF LoopOK
<1> DEFINE k == req[w].kind
<1>1. VarLoop(w) /\ PlotLoop(w) /\ SolidReads(w) /\ Answered(w)
  BY DEF LoopOK
<1>2. CASE k = "vars"
  <2>1. UNCHANGED <<keys, value>> /\ wpc[w] \notin SolidPcs /\ wpc[w] # "plot"
    BY <1>2 DEF Reads, PcKinds
  <2> QED BY <1>1, <1>2, <2>1 DEF VarLoop, PlotLoop, SolidReads, Answered, Begun, Defined, SolidPcs
<1>3. CASE k = "func2d"
  <2>1. UNCHANGED <<keys, value, plots>> /\ wpc[w] \notin SolidPcs
    BY <1>3 DEF Reads, PcKinds
  <2> QED BY <1>1, <1>3, <2>1 DEF VarLoop, PlotLoop, SolidReads, Answered, Begun, Defined, Facts, SolidPcs
<1>4. CASE k = "func3d"
  <2>1. UNCHANGED expr_3d /\ wpc[w] \notin LoopPcs \cup {"plot"}
    BY <1>4 DEF Reads, PcKinds
  <2> QED BY <1>1, <1>4, <2>1 DEF VarLoop, PlotLoop, SolidReads, Answered, Same
<1>5. CASE k \notin {"vars", "func2d", "func3d"}
  <2>1. wpc[w] \notin LoopPcs \cup SolidPcs \cup {"plot"}
    BY <1>5 DEF PcKinds
  <2> QED BY <1>5, <2>1 DEF VarLoop, PlotLoop, SolidReads, Answered, SolidPcs
<1> QED BY <1>2, <1>3, <1>4, <1>5

\* A step that leaves the calls alone, and moves no worker to or from them.
LEMMA OrderFrame ==
    ASSUME OrderInv, UNCHANGED <<posted, executed, started, since, acked, req>>,
           main = "end" => main' = "end",
           \A w \in Workers :
              /\ wpc'[w] \in {"none", "idle", "done"} <=> wpc[w] \in {"none", "idle", "done"}
              /\ wpc[w] \in Pcs /\ wpc'[w] \in Pcs
              /\ wpc'[w] = "post" => wpc[w] = "post"
              /\ wpc'[w] = "reply" /\ req[w].kind \in Adds => wpc[w] = "reply"
    PROVE  OrderInv'
<1>1. UNCHANGED <<Executed, Waiting>> /\ \A k : WaitingBefore(k)' = WaitingBefore(k)
  BY DEF Executed, Waiting, WaitingBefore
<1>2. ExecutedInOrder'
  BY DEF OrderInv, ExecutedInOrder
<1>3. \A w \in Workers :
        wpc'[w] \in ReadPcs \cup {"settab", "emit", "post", "reply"} <=> req[w].kind # "none"
  BY DEF OrderInv, Pcs, ReadPcs, LoopPcs, SolidPcs
<1> QED BY <1>1, <1>2, <1>3 DEF OrderInv

\* A step that leaves the tabs alone, and those who change them.
LEMMA TabFrame ==
    ASSUME TabInv, UNCHANGED <<bar, shown, raced, posted>>, main = "end" => main' = "end",
           \A w \in Workers : /\ wpc'[w] = "emit" <=> wpc[w] = "emit"
                              /\ wpc[w] = "emit" => req'[w] = req[w]
    PROVE  TabInv'
<1>1. \A w \in Workers : Emitting(w)' <=> Emitting(w)
  BY DEF Emitting
<1>2. Outstanding' <=> Outstanding
  BY DEF Outstanding
<1>3. \A i : LastTab(i)' <=> LastTab(i)
  BY DEF LastTab
<1>4. \A w \in Workers : Emitting(w) => req'[w] = req[w]
  BY DEF Emitting
<1> SUFFICES ASSUME main' # "end", ~raced'
             PROVE  TabInv'
  BY DEF TabInv
<1> QED BY <1>1, <1>2, <1>3, <1>4 DEF TabInv
-----------------------------------------------------------------------------
(* Handlers that read.                                                      *)

\* A handler that reads changes its place and its locals and nothing else.
LEMMA ReadingFrame ==
    ASSUME IInv, Up, NEW w \in Workers, Reading, UNCHANGED fate,
           NEW pc \in ReadPcs \cup {"reply"}, wpc[w] \in ReadPcs, wpc' = [wpc EXCEPT ![w] = pc],
           pc \in LoopPcs => req[w].kind \in {"vars", "func2d"},
           pc = "plot" => req[w].kind = "func2d",
           pc \in SolidPcs => req[w].kind = "func3d",
           NEW l \in Locals, loc' = [loc EXCEPT ![w] = l],
           LoopOK(w)'
    PROVE  IInv'
<1> USE DEF IInv
<1>0. /\ UNCHANGED <<main, global_app, posted, keys, value, plots, expr_3d, t_model3d, bar, shown, raced,
                     req, dirty, started, acked, since, executed, user>>
  BY DEF Reading, mainVars, window, varVars, solidVars, tabVars, logVars
<1>1. /\ wpc \in [Workers -> Pcs] /\ loc \in [Workers -> Locals]
      /\ wpc'[w] = pc /\ loc'[w] = l
      /\ \A v \in Workers : v # w => wpc'[v] = wpc[v] /\ loc'[v] = loc[v]
      /\ ReadPcs \subseteq Pcs /\ "reply" \in Pcs
  BY DEF WorkersTyped, Pcs
<1>2. MainTyped' /\ WindowTyped' /\ BarTyped' /\ DirtyTyped' /\ LogTyped' /\ ShownIsReported'
  BY <1>0 DEF MainTyped, WindowTyped, BarTyped, DirtyTyped, LogTyped, ShownIsReported
<1>3. WorkersTyped'
  <2>1. wpc' \in [Workers -> Pcs] /\ loc' \in [Workers -> Locals]
    BY <1>1
  <2> QED BY <1>0, <2>1 DEF WorkersTyped
<1>4. req[w].kind \in {"vars", "func2d", "func3d"}
  BY DEF PcKinds, ReadPcs
<1>5. PcKinds'
  BY <1>0, <1>1, <1>4 DEF PcKinds, ReadPcs, LoopPcs, SolidPcs
<1>6. LifeInv'
  BY <1>0, <1>1 DEF LifeInv, ReadPcs, LoopPcs, SolidPcs
<1>7. LoopInv'
  <2> SUFFICES ASSUME NEW v \in Workers, v # w PROVE LoopOK(v)'
    BY DEF LoopInv
  <2> QED BY <1>0, <1>1, LoopFrame DEF LoopInv
<1>8. OrderInv'
  BY <1>0, <1>1, <1>4, OrderFrame DEF WorkersTyped, ReadPcs, LoopPcs, SolidPcs, Adds
<1>9. TabInv'
  BY <1>0, <1>1, TabFrame DEF ReadPcs, LoopPcs, SolidPcs
<1>10. CrashOnlyRaced'
  BY DEF CrashOnlyRaced, Up
<1> QED BY <1>2, <1>3, <1>5, <1>6, <1>7, <1>8, <1>9, <1>10

\* A read that fails ends the process, if what it reads had changed.
LEMMA CrashStep ==
    ASSUME IInv, Up, NEW w \in Workers, Reading, Crash, dirty[w]
    PROVE  IInv'
<1> USE DEF IInv
<1>0. /\ UNCHANGED <<main, global_app, posted, keys, value, plots, expr_3d, t_model3d, bar, shown, raced,
                     wpc, req, loc, dirty, started, acked, since, executed, user>>
      /\ fate' = "crashed"
  BY DEF Reading, Crash, mainVars, window, varVars, solidVars, tabVars, logVars
<1>1. MainTyped' /\ WindowTyped' /\ BarTyped' /\ DirtyTyped' /\ LogTyped' /\ ShownIsReported'
  BY <1>0 DEF MainTyped, WindowTyped, BarTyped, DirtyTyped, LogTyped, ShownIsReported
<1>2. WorkersTyped' /\ PcKinds' /\ LifeInv' /\ CrashOnlyRaced'
  BY <1>0 DEF WorkersTyped, PcKinds, LifeInv, CrashOnlyRaced
<1>3. LoopInv'
  BY <1>0, LoopFrame DEF LoopInv
<1>4. OrderInv' /\ TabInv'
  BY <1>0, OrderFrame, TabFrame DEF WorkersTyped
<1> QED BY <1>1, <1>2, <1>3, <1>4

\* The variables copied so far, and all of them at the end of the loop.
LEMMA AllCopied ==
    ASSUME WindowTyped
    PROVE  Begun(Len(keys) + 1) = Defined
BY DEF WindowTyped, Begun, Defined

\* The loop over the variables is over: the answer has them all.
LEMMA CopiedStep ==
    ASSUME IInv, NEW w \in Workers, Up, wpc[w] = "check", Reading, UNCHANGED fate,
           loc[w].idx > Len(keys), Copied(w)
    PROVE  IInv'
<1> USE DEF IInv
<1> DEFINE l == loc[w]
<1>1. l \in Locals /\ wpc \in [Workers -> Pcs] /\ loc \in [Workers -> Locals]
  BY DEF WorkersTyped
<1>2. UNCHANGED <<keys, value, plots, expr_3d, req, dirty>>
  BY DEF Reading, window, varVars, solidVars
<1>3. req[w].kind \in {"vars", "func2d"} /\ wpc[w] \in LoopPcs
  BY DEF PcKinds, LoopPcs
<1>4. ~dirty[w] => l.copied = Defined
  <2> SUFFICES ASSUME ~dirty[w] PROVE l.copied = Defined
    OBVIOUS
  <2>1. l.idx \in 1 .. Len(keys) + 1 /\ l.copied = Begun(l.idx)
    BY <1>3 DEF LoopInv, LoopOK, VarLoop
  <2>2. l.idx = Len(keys) + 1
    BY <2>1 DEF WindowTyped
  <2> QED BY <2>1, <2>2, AllCopied
<1>5. CASE req[w].kind = "vars"
  <2> DEFINE m == [l EXCEPT !.answer = <<l.copied>>]
  <2>1. loc' = [loc EXCEPT ![w] = m] /\ wpc' = [wpc EXCEPT ![w] = "reply"]
    BY <1>1, <1>5 DEF Copied, Goto
  <2>2. <<l.copied>> \in Seq(Part)
    BY <1>1 DEF Locals, Part
  <2>3. m \in Locals /\ m.answer = <<l.copied>>
    BY <1>1, <2>2 DEF Locals
  <2>4. loc'[w] = m /\ wpc'[w] = "reply"
    BY <1>1, <2>1
  <2>5. LoopOK(w)'
    BY <1>2, <1>4, <1>5, <2>3, <2>4
    DEF LoopOK, VarLoop, PlotLoop, SolidReads, Answered, LoopPcs, SolidPcs, Defined
  <2> QED BY <1>3, <2>1, <2>3, <2>5, ReadingFrame DEF ReadPcs, LoopPcs, SolidPcs
<1>6. CASE req[w].kind = "func2d"
  <2> DEFINE p == [expr |-> l.expr, vars |-> l.copied]
             m == [NoLocals EXCEPT !.item = l.item + 1, !.end = l.end, !.answer = Append(l.answer, p)]
  <2>1. loc' = [loc EXCEPT ![w] = m] /\ wpc' = [wpc EXCEPT ![w] = "plot"]
    BY <1>1, <1>6 DEF Copied, Goto
  <2>2. p \in Part
    BY <1>1 DEF Locals, Part
  <2>3. Append(l.answer, p) \in Seq(Part)
    BY <1>1, <2>2 DEF Locals
  <2>4. /\ m \in Locals /\ m.idx = 1 /\ m.copied = {}
        /\ m.item = l.item + 1 /\ m.end = l.end /\ m.answer = Append(l.answer, p)
    <3>1. l.item + 1 \in Nat /\ l.end \in Nat
      BY <1>1 DEF Locals
    <3>2. NoLocals \in Locals /\ NoLocals.idx = 1 /\ NoLocals.copied = {}
      BY DEF NoLocals, Locals
    <3> QED BY <2>3, <3>1, <3>2 DEF Locals
  <2>5. loc'[w] = m /\ wpc'[w] = "plot"
    BY <1>1, <2>1
  <2> HIDE DEF m
  <2>6. ~dirty[w] => m.item \in 1 .. Len(plots) + 1 /\ m.end = Len(plots) /\ m.answer = Facts(m.item - 1)
    <3> SUFFICES ASSUME ~dirty[w]
                 PROVE  m.item \in 1 .. Len(plots) + 1 /\ m.end = Len(plots) /\ m.answer = Facts(m.item - 1)
      OBVIOUS
    <3>1. /\ l.item \in DOMAIN plots /\ l.expr = plots[l.item]
          /\ l.end = Len(plots) /\ l.answer = Facts(l.item - 1)
      BY <1>3, <1>6 DEF LoopInv, LoopOK, PlotLoop
    <3>2. l.item \in 1 .. Len(plots) /\ Len(plots) \in Nat
      BY <3>1 DEF WindowTyped
    <3> DEFINE F == Facts(l.item - 1)
    <3>3. F \in Seq(Part)
      BY <1>1, <3>1 DEF Locals
    <3>4. Len(F) = l.item - 1 /\ \A i \in 1 .. l.item - 1 : F[i] = [expr |-> plots[i], vars |-> Defined]
      BY <3>2, <3>3 DEF Facts
    <3> HIDE DEF F
    <3>5. p = [expr |-> plots[l.item], vars |-> Defined]
      BY <1>4, <3>1
    <3>6. /\ Append(F, p) \in Seq(Part) /\ DOMAIN Append(F, p) = 1 .. l.item
          /\ \A i \in 1 .. l.item : Append(F, p)[i] = [expr |-> plots[i], vars |-> Defined]
      <4> DEFINE t == Append(F, p)
      <4>1. /\ t \in Seq(Part) /\ DOMAIN t = 1 .. Len(F) + 1
            /\ t[Len(F) + 1] = p /\ \A i \in 1 .. Len(F) : t[i] = F[i]
        BY <2>2, <3>3
      <4> HIDE DEF t, p
      <4>2. Len(F) + 1 = l.item
        BY <3>2, <3>4
      <4>3. ASSUME NEW i \in 1 .. l.item PROVE t[i] = [expr |-> plots[i], vars |-> Defined]
        <5>1. CASE i = l.item
          BY <3>5, <4>1, <4>2, <5>1
        <5>2. CASE i # l.item
          <6>1. i \in 1 .. l.item - 1 /\ i \in 1 .. Len(F)
            BY <3>2, <3>4, <4>3, <5>2
          <6> QED BY <3>4, <4>1, <6>1
        <5> QED BY <5>1, <5>2
      <4> QED BY <4>1, <4>2, <4>3 DEF t
    <3> DEFINE G == [i \in 1 .. l.item |-> [expr |-> plots[i], vars |-> Defined]]
    <3>7. Append(F, p) = G
      <4>1. \A i \in 1 .. l.item : [expr |-> plots[i], vars |-> Defined] \in Part
        <5>1. Defined \in SUBSET Pairs
          BY DEF WindowTyped, Defined, Pairs
        <5>2. \A i \in 1 .. l.item : plots[i] \in Curves
          BY <3>2 DEF WindowTyped
        <5> QED BY <5>1, <5>2 DEF Part
      <4>2. G \in Seq(Part) /\ Len(G) = l.item
        BY <3>2, <4>1
      <4>3. /\ Len(G) = Len(F) + 1 /\ (\A i \in 1 .. Len(F) : G[i] = F[i])
            /\ G[Len(F) + 1] = p
        BY <3>2, <3>4, <3>5, <4>2
      <4> HIDE DEF G, p
      <4> QED BY <2>2, <3>3, <4>2, <4>3, AppendIs
    <3>8. l.item = m.item - 1 /\ m.answer = Append(F, p)
      BY <2>4, <3>1, <3>2 DEF F
    <3>9. Facts(m.item - 1) = G
      BY <3>2, <3>8 DEF Facts
    <3> HIDE DEF G, p
    <3>10. m.item \in 1 .. Len(plots) + 1
      BY <2>4, <3>2
    <3> QED BY <2>4, <3>1, <3>7, <3>8, <3>9, <3>10
  <2>7. LoopOK(w)'
    BY <1>2, <1>6, <2>4, <2>5, <2>6, WindowKept
    DEF LoopOK, VarLoop, PlotLoop, SolidReads, Answered, LoopPcs, SolidPcs
  <2> QED BY <1>3, <1>6, <2>1, <2>4, <2>7, ReadingFrame DEF ReadPcs, LoopPcs, SolidPcs
<1> QED BY <1>3, <1>5, <1>6

\* The loop over the variables: the length is right unless it has changed,
LEMMA CheckStep ==
    ASSUME IInv, NEW w \in Workers, Check(w)
    PROVE  IInv'
<1> USE DEF IInv, Check, At
<1>1. loc[w] \in Locals /\ wpc \in [Workers -> Pcs] /\ loc \in [Workers -> Locals]
  BY DEF WorkersTyped
<1>2. CASE loc[w].idx <= Len(keys)
  <2>1. wpc' = [wpc EXCEPT ![w] = "key"] /\ loc' = [loc EXCEPT ![w] = loc[w]]
    BY <1>1, <1>2 DEF Goto
  <2>2. wpc'[w] = "key" /\ loc'[w] = loc[w]
    BY <1>1, <2>1
  <2>3. req[w].kind \in {"vars", "func2d"} /\ wpc[w] \in LoopPcs
    BY DEF PcKinds, LoopPcs
  <2>4. UNCHANGED <<keys, value, plots, expr_3d, req, dirty>>
    BY DEF Reading, window, varVars, solidVars
  <2>5. ~dirty[w] => loc[w].idx \in DOMAIN keys
    BY <1>2, <2>3 DEF LoopInv, LoopOK, VarLoop, WindowTyped
  <2>6. LoopOK(w)
    BY DEF LoopInv
  <2>7. LoopOK(w)'
    BY <2>2, <2>3, <2>4, <2>5, <2>6
    DEF LoopOK, VarLoop, PlotLoop, SolidReads, Answered, LoopPcs, SolidPcs, Begun, Facts, Defined
  <2> QED BY <1>1, <2>1, <2>3, <2>7, ReadingFrame DEF ReadPcs, LoopPcs, SolidPcs
<1>3. CASE ~(loc[w].idx <= Len(keys))
  <2>1. loc[w].idx > Len(keys)
    BY <1>1, <1>3 DEF Locals, WindowTyped
  <2> QED BY <1>3, <2>1, CopiedStep
<1> QED BY <1>2, <1>3

\* there is a key at the index,
LEMMA KeyStep ==
    ASSUME IInv, NEW w \in Workers, Key(w)
    PROVE  IInv'
<1> USE DEF IInv, Key, At
<1>1. loc[w] \in Locals /\ wpc \in [Workers -> Pcs] /\ loc \in [Workers -> Locals]
  BY DEF WorkersTyped
<1>2. req[w].kind \in {"vars", "func2d"} /\ wpc[w] \in LoopPcs
  BY DEF PcKinds, LoopPcs
<1>3. CASE loc[w].idx \in DOMAIN keys
  <2> DEFINE m == [loc[w] EXCEPT !.key = keys[loc[w].idx]]
  <2>1. wpc' = [wpc EXCEPT ![w] = "value"] /\ loc' = [loc EXCEPT ![w] = m] /\ UNCHANGED fate
    BY <1>1, <1>3 DEF Goto
  <2>2. keys[loc[w].idx] \in Names
    BY <1>3 DEF WindowTyped
  <2>3. /\ m \in Locals /\ m.key = keys[loc[w].idx]
        /\ m.idx = loc[w].idx /\ m.copied = loc[w].copied /\ m.item = loc[w].item
        /\ m.expr = loc[w].expr /\ m.end = loc[w].end /\ m.answer = loc[w].answer
    BY <1>1, <2>2 DEF Locals
  <2>4. wpc'[w] = "value" /\ loc'[w] = m
    BY <1>1, <2>1
  <2> HIDE DEF m
  <2>5. UNCHANGED <<keys, value, plots, expr_3d, req, dirty>>
    BY DEF Reading, window, varVars, solidVars
  <2>6. LoopOK(w)
    BY DEF LoopInv
  <2>7. LoopOK(w)'
    BY <1>2, <1>3, <2>3, <2>4, <2>5, <2>6, WindowKept
    DEF LoopOK, VarLoop, PlotLoop, SolidReads, Answered, LoopPcs, SolidPcs
  <2> QED BY <1>2, <2>1, <2>3, <2>7, ReadingFrame DEF ReadPcs, LoopPcs, SolidPcs
<1>4. CASE loc[w].idx \notin DOMAIN keys
  <2>1. dirty[w]
    BY <1>2, <1>4 DEF LoopInv, LoopOK, VarLoop, DirtyTyped
  <2> QED BY <1>4, <2>1, CrashStep
<1> QED BY <1>3, <1>4

\* the key has a value,
LEMMA ValueStep ==
    ASSUME IInv, NEW w \in Workers, Value(w)
    PROVE  IInv'
<1> USE DEF IInv, Value, At
<1>1. loc[w] \in Locals /\ wpc \in [Workers -> Pcs] /\ loc \in [Workers -> Locals]
  BY DEF WorkersTyped
<1>2. req[w].kind \in {"vars", "func2d"} /\ wpc[w] \in LoopPcs
  BY DEF PcKinds, LoopPcs
<1>3. ~dirty[w] => loc[w].idx \in DOMAIN keys /\ loc[w].key = keys[loc[w].idx]
  BY <1>2 DEF LoopInv, LoopOK, VarLoop
<1>4. CASE loc[w].key \in DOMAIN value
  <2> DEFINE m == [loc[w] EXCEPT !.val = value[loc[w].key]]
  <2>1. wpc' = [wpc EXCEPT ![w] = "name"] /\ loc' = [loc EXCEPT ![w] = m] /\ UNCHANGED fate
    BY <1>1, <1>4 DEF Goto
  <2>2. value[loc[w].key] \in Values
    BY <1>4 DEF WindowTyped
  <2>3. /\ m \in Locals /\ m.val = value[loc[w].key]
        /\ m.idx = loc[w].idx /\ m.copied = loc[w].copied /\ m.item = loc[w].item
        /\ m.expr = loc[w].expr /\ m.end = loc[w].end /\ m.answer = loc[w].answer
    BY <1>1, <2>2 DEF Locals
  <2>4. wpc'[w] = "name" /\ loc'[w] = m
    BY <1>1, <2>1
  <2> HIDE DEF m
  <2>5. UNCHANGED <<keys, value, plots, expr_3d, req, dirty>>
    BY DEF Reading, window, varVars, solidVars
  <2>6. LoopOK(w)
    BY DEF LoopInv
  <2>7. LoopOK(w)'
    BY <1>2, <1>3, <2>3, <2>4, <2>5, <2>6, WindowKept
    DEF LoopOK, VarLoop, PlotLoop, SolidReads, Answered, LoopPcs, SolidPcs
  <2> QED BY <1>2, <2>1, <2>3, <2>7, ReadingFrame DEF ReadPcs, LoopPcs, SolidPcs
<1>5. CASE loc[w].key \notin DOMAIN value
  <2>1. dirty[w]
    BY <1>3, <1>5 DEF WindowTyped, DirtyTyped
  <2> QED BY <1>5, <2>1, CrashStep
<1> QED BY <1>4, <1>5

\* A range one longer.
LEMMA RangeLonger == ASSUME NEW i \in Nat \ {0} PROVE 1 .. (i + 1) - 1 = (1 .. i - 1) \cup {i}
OBVIOUS

\* and the value goes to the key that it belongs to.
LEMMA NameStep ==
    ASSUME IInv, NEW w \in Workers, Name(w)
    PROVE  IInv'
<1> USE DEF IInv
<1> DEFINE l == loc[w]
<1>1. l \in Locals /\ wpc \in [Workers -> Pcs] /\ loc \in [Workers -> Locals]
  BY DEF WorkersTyped
<1>0. Up /\ wpc[w] = "name" /\ Reading
  BY DEF Name, At
<1>2. req[w].kind \in {"vars", "func2d"} /\ wpc[w] \in LoopPcs
  BY <1>0 DEF PcKinds, LoopPcs
<1>3. CASE l.idx \in DOMAIN keys
  <2> DEFINE all == {p \in l.copied : p[1] # keys[l.idx]} \cup {<<keys[l.idx], l.val>>}
             m == [l EXCEPT !.copied = all, !.idx = l.idx + 1, !.key = NoText, !.val = NoText]
  <2>1. wpc' = [wpc EXCEPT ![w] = "check"] /\ loc' = [loc EXCEPT ![w] = m] /\ UNCHANGED fate
    BY <1>1, <1>3 DEF Name, Goto
  <2>2. /\ keys[l.idx] \in Names /\ l.idx \in 1 .. Len(keys) /\ l.idx + 1 \in Nat
        /\ l.val \in Values \cup {NoText}
    <3>1. keys \in Seq(Names)
      BY DEF WindowTyped
    <3>2. l.idx \in Nat /\ l.val \in Values \cup {NoText}
      BY <1>1 DEF Locals
    <3>3. l.idx \in 1 .. Len(keys)
      BY <1>3, <3>1
    <3>4. keys[l.idx] \in Names
      BY <3>1, <3>3
    <3> QED BY <3>2, <3>3, <3>4
  <2>3. all \in SUBSET Pairs
    <3>1. l.copied \in SUBSET Pairs
      BY <1>1 DEF Locals
    <3>2. <<keys[l.idx], l.val>> \in Pairs
      BY <2>2 DEF Pairs
    <3> QED BY <3>1, <3>2
  <2> HIDE DEF all
  <2>4. /\ m \in Locals /\ m.idx = l.idx + 1 /\ m.copied = all /\ m.item = l.item
        /\ m.expr = l.expr /\ m.end = l.end /\ m.answer = l.answer
    BY <1>1, <2>2, <2>3 DEF Locals
  <2>5. wpc'[w] = "check" /\ loc'[w] = m
    BY <1>1, <2>1
  <2> HIDE DEF m
  <2>6. UNCHANGED <<keys, value, plots, expr_3d, req, dirty>>
    BY <1>0 DEF Reading, window, varVars, solidVars
  <2>7. LoopOK(w)
    BY DEF LoopInv
  <2>8. ~dirty[w] => m.idx \in 1 .. Len(keys) + 1 /\ m.copied = Begun(m.idx)
    <3> SUFFICES ASSUME ~dirty[w] PROVE m.idx \in 1 .. Len(keys) + 1 /\ m.copied = Begun(m.idx)
      OBVIOUS
    <3>1. l.copied = Begun(l.idx) /\ l.val = value[keys[l.idx]]
      BY <1>0, <1>2, <2>7 DEF LoopOK, VarLoop
    <3>2. \A i \in 1 .. l.idx - 1 : keys[i] # keys[l.idx]
      <4>1. DOMAIN keys = 1 .. Len(keys) /\ \A i, j \in DOMAIN keys : keys[i] = keys[j] => i = j
        BY DEF WindowTyped
      <4> QED BY <2>2, <4>1
    <3>3. {p \in l.copied : p[1] # keys[l.idx]} = Begun(l.idx)
      BY <3>1, <3>2 DEF Begun
    <3>4. Begun(l.idx + 1) = Begun(l.idx) \cup {<<keys[l.idx], value[keys[l.idx]]>>}
      <4>1. l.idx \in Nat \ {0}
        BY <2>2
      <4>2. 1 .. (l.idx + 1) - 1 = (1 .. l.idx - 1) \cup {l.idx}
        BY ONLY <4>1, RangeLonger
      <4> QED BY <4>2 DEF Begun
    <3> QED BY <2>2, <2>4, <3>1, <3>3, <3>4 DEF WindowTyped, all
  <2>9. LoopOK(w)'
    BY <1>2, <2>4, <2>5, <2>6, <2>7, <2>8, WindowKept
    DEF LoopOK, VarLoop, PlotLoop, SolidReads, Answered, LoopPcs, SolidPcs
  <2> QED BY <1>0, <1>2, <2>1, <2>4, <2>9, ReadingFrame DEF ReadPcs, LoopPcs, SolidPcs
<1>4. CASE l.idx \notin DOMAIN keys
  <2>1. dirty[w]
    BY <1>0, <1>2, <1>4 DEF LoopInv, LoopOK, VarLoop, DirtyTyped
  <2>2. Crash
    BY <1>4 DEF Name
  <2> QED BY <1>0, <2>1, <2>2, CrashStep
<1> QED BY <1>3, <1>4

\* The loop over the plots ends where the list does, unless it has changed.
LEMMA PlotStep ==
    ASSUME IInv, NEW w \in Workers, PlotOf(w)
    PROVE  IInv'
<1> USE DEF IInv, PlotOf, At
<1> DEFINE l == loc[w]
<1>1. l \in Locals /\ wpc \in [Workers -> Pcs] /\ loc \in [Workers -> Locals]
  BY DEF WorkersTyped
<1>2. req[w].kind = "func2d" /\ wpc[w] = "plot" /\ wpc[w] \in ReadPcs
  BY DEF PcKinds, ReadPcs
<1>3. UNCHANGED <<keys, value, plots, expr_3d, req, dirty>>
  BY DEF Reading, window, varVars, solidVars
<1>4. ~dirty[w] => /\ l.idx = 1 /\ l.copied = {} /\ l.item \in 1 .. Len(plots) + 1
                   /\ l.end = Len(plots) /\ l.answer = Facts(l.item - 1)
  BY <1>2 DEF LoopInv, LoopOK, PlotLoop
<1>5. Len(plots) \in Nat /\ DOMAIN plots = 1 .. Len(plots)
  BY DEF WindowTyped
<1>6. CASE l.item > l.end
  <2>1. wpc' = [wpc EXCEPT ![w] = "reply"] /\ loc' = [loc EXCEPT ![w] = l] /\ UNCHANGED fate
    BY <1>1, <1>6 DEF Goto
  <2>2. wpc'[w] = "reply" /\ loc'[w] = l
    BY <1>1, <2>1
  <2>3. ~dirty[w] => l.answer = Facts(Len(plots))
    BY <1>4, <1>5, <1>6
  <2>4. LoopOK(w)'
    BY <1>2, <1>3, <2>2, <2>3
    DEF LoopOK, VarLoop, PlotLoop, SolidReads, Answered, LoopPcs, SolidPcs, Facts, Defined
  <2> QED BY <1>1, <1>2, <2>1, <2>4, ReadingFrame DEF LoopPcs, SolidPcs
<1>7. CASE ~(l.item > l.end) /\ l.item \in DOMAIN plots
  <2> DEFINE m == [l EXCEPT !.expr = plots[l.item]]
  <2>1. wpc' = [wpc EXCEPT ![w] = "check"] /\ loc' = [loc EXCEPT ![w] = m] /\ UNCHANGED fate
    BY <1>1, <1>7 DEF Goto
  <2>2. plots[l.item] \in Curves
    BY <1>7 DEF WindowTyped
  <2>3. /\ m \in Locals /\ m.expr = plots[l.item]
        /\ m.idx = l.idx /\ m.copied = l.copied /\ m.item = l.item
        /\ m.end = l.end /\ m.answer = l.answer
    BY <1>1, <2>2 DEF Locals
  <2>4. wpc'[w] = "check" /\ loc'[w] = m
    BY <1>1, <2>1
  <2> HIDE DEF m
  <2>5. Begun(1) = {} /\ 1 \in 1 .. Len(keys) + 1
    BY DEF Begun, WindowTyped
  <2>6. VarLoop(w)' \/ dirty[w]
    <3>1. ~dirty[w] => m.idx \in 1 .. Len(keys) + 1 /\ m.copied = Begun(m.idx)
      BY <1>4, <2>3, <2>5
    <3> QED BY <1>3, <2>4, <3>1, WindowKept DEF VarLoop
  <2>7. PlotLoop(w)' \/ dirty[w]
    BY <1>2, <1>3, <1>4, <1>7, <2>3, <2>4, WindowKept DEF PlotLoop
  <2>8. LoopOK(w)'
    BY <1>3, <2>4, <2>6, <2>7 DEF LoopOK, SolidReads, Answered, SolidPcs
  <2> QED BY <1>2, <2>1, <2>3, <2>8, ReadingFrame DEF ReadPcs, LoopPcs, SolidPcs
<1>8. CASE ~(l.item > l.end) /\ l.item \notin DOMAIN plots
  <2>1. dirty[w]
    BY <1>1, <1>4, <1>5, <1>8 DEF DirtyTyped, Locals
  <2> QED BY <1>8, <2>1, CrashStep
<1> QED BY <1>6, <1>7, <1>8

\* A read of expr_3d is one of these steps.
LEMMA SolidReadsApart ==
    ASSUME NEW w, Expr3D(w)
    PROVE  LET l == loc[w]
               read == loc' = [loc EXCEPT ![w].answer = Append(@, expr_3d)]
               more == Len(l.answer) < 3 + req[w].arg
               to(pc) == wpc' = [wpc EXCEPT ![w] = pc]
           IN  /\ Up /\ Reading /\ UNCHANGED fate /\ wpc[w] \in SolidPcs
               /\ wpc[w] = "expr" => read /\ to("size")
               /\ wpc[w] = "size" => UNCHANGED loc /\ to(IF expr_3d = NoText THEN "reply" ELSE "eqn")
               /\ wpc[w] = "eqn" => read /\ to("fun")
               /\ wpc[w] = "fun" => read /\ to("args")
               /\ wpc[w] = "args" /\ more => read /\ to("args")
               /\ wpc[w] = "args" /\ ~more => UNCHANGED loc /\ to("reply")
BY DEF Expr3D, At, Goto, SolidPcs

\* All reads of expr_3d of one request read the same, unless it has changed.
LEMMA SolidStep ==
    ASSUME IInv, NEW w \in Workers, Expr3D(w)
    PROVE  IInv'
<1> USE DEF IInv
<1> DEFINE l == loc[w]
           m == [l EXCEPT !.answer = Append(@, expr_3d)]
           n == Len(l.answer)
<1>1. l \in Locals /\ wpc \in [Workers -> Pcs] /\ loc \in [Workers -> Locals]
  BY DEF WorkersTyped
<1>2. Up /\ Reading /\ UNCHANGED fate /\ wpc[w] \in SolidPcs
  BY SolidReadsApart
<1>3. UNCHANGED <<keys, value, plots, expr_3d, req, dirty>>
  BY <1>2 DEF Reading, window, varVars, solidVars
<1>4. /\ m \in Locals /\ m.answer = Append(l.answer, expr_3d) /\ Len(m.answer) = n + 1
      /\ n \in Nat /\ l.answer \in Seq(Part) /\ expr_3d \in Part
  <2>1. expr_3d \in Part /\ l.answer \in Seq(Part)
    BY <1>1 DEF WindowTyped, Part, Locals
  <2>2. Append(l.answer, expr_3d) \in Seq(Part) /\ Len(Append(l.answer, expr_3d)) = n + 1 /\ n \in Nat
    BY <2>1
  <2> QED BY <1>1, <2>1, <2>2 DEF Locals
<1>5. req[w].kind = "func3d" /\ wpc[w] \in ReadPcs /\ req[w].arg \in Nat
  BY <1>2 DEF PcKinds, ReadPcs, WorkersTyped, Fits
<1>6. SolidReads(w) \/ dirty[w]
  BY DEF LoopInv, LoopOK
<1>7. SolidReads(w) => l.answer = Same(n) /\ m.answer = Same(n + 1)
  BY <1>2, <1>4, AppendSame DEF SolidReads
<1>8. ASSUME NEW pc \in {"size", "fun", "args"}, wpc' = [wpc EXCEPT ![w] = pc],
             loc' = [loc EXCEPT ![w].answer = Append(@, expr_3d)],
             SolidReads(w) => /\ pc = "size" => n = 0
                              /\ pc = "fun" => n = 1 /\ expr_3d # NoText
                              /\ pc = "args" => n + 1 \in 3 .. 3 + req[w].arg /\ expr_3d # NoText
      PROVE  IInv'
  <2>1. loc' = [loc EXCEPT ![w] = m]
    BY <1>1, <1>8
  <2>2. wpc'[w] = pc /\ loc'[w] = m
    BY <1>1, <1>8, <2>1
  <2>3. SolidReads(w) => SolidReads(w)'
    <3> SUFFICES ASSUME SolidReads(w) PROVE SolidReads(w)'
      OBVIOUS
    <3>1. m.answer = [i \in 1 .. n + 1 |-> expr_3d'] /\ Len(m.answer) = n + 1
      <4> HIDE DEF m, n
      <4> QED BY <1>3, <1>4, <1>7 DEF Same
    <3>2. /\ pc = "size" => n + 1 = 1
          /\ pc = "fun" => n + 1 = 2 /\ expr_3d # NoText
          /\ pc = "args" => n + 1 \in 3 .. 3 + req[w].arg /\ expr_3d # NoText
      <4> HIDE DEF n
      <4> QED BY <1>8
    <3>3. /\ loc'[w].answer = [i \in 1 .. n + 1 |-> expr_3d'] /\ Len(loc'[w].answer) = n + 1
          /\ wpc'[w] = pc /\ expr_3d' = expr_3d /\ req'[w] = req[w]
      <4> HIDE DEF m, n
      <4> QED BY <1>3, <2>2, <3>1
    <3> HIDE DEF n
    <3> QED BY <3>2, <3>3 DEF SolidReads, Same, SolidPcs
  <2>4. LoopOK(w)'
    BY <1>3, <1>5, <1>6, <2>2, <2>3 DEF LoopOK, VarLoop, PlotLoop, Answered, LoopPcs
  <2> QED BY <1>2, <1>4, <1>5, <1>8, <2>1, <2>4, ReadingFrame DEF ReadPcs, LoopPcs, SolidPcs
<1>9. ASSUME NEW pc \in {"eqn", "reply"}, wpc' = [wpc EXCEPT ![w] = pc], UNCHANGED loc,
             SolidReads(w) => /\ pc = "eqn" => n = 1 /\ expr_3d # NoText
                              /\ pc = "reply" => n = IF expr_3d = NoText THEN 1 ELSE 3 + req[w].arg
      PROVE  IInv'
  <2>1. loc' = [loc EXCEPT ![w] = l]
    BY <1>1, <1>9
  <2>2. wpc'[w] = pc /\ loc'[w] = l
    BY <1>1, <1>9, <2>1
  <2>3. SolidReads(w) => SolidReads(w)' /\ Answered(w)'
    <3> SUFFICES ASSUME SolidReads(w) PROVE SolidReads(w)' /\ Answered(w)'
      OBVIOUS
    <3>1. /\ loc'[w].answer = [i \in 1 .. n |-> expr_3d'] /\ Len(loc'[w].answer) = n
          /\ wpc'[w] = pc /\ expr_3d' = expr_3d /\ req'[w] = req[w]
      BY <1>3, <1>7, <2>2 DEF Same
    <3>2. pc = "reply" => l.answer = IF expr_3d = NoText THEN <<NoText>> ELSE Same(3 + req[w].arg)
      <4>1. Same(1) = <<expr_3d>>
        BY DEF Same
      <4> QED BY <1>7, <1>9, <4>1
    <3>3. pc = "eqn" => n = 1 /\ expr_3d # NoText
      BY <1>9
    <3>4. SolidReads(w)'
      <4> HIDE DEF n
      <4> QED BY <3>1, <3>3 DEF SolidReads, Same, SolidPcs
    <3>5. Answered(w)'
      BY <1>3, <1>5, <2>2, <3>2 DEF Answered, Same
    <3> QED BY <3>4, <3>5
  <2>4. LoopOK(w)'
    BY <1>3, <1>5, <1>6, <2>2, <2>3 DEF LoopOK, VarLoop, PlotLoop, LoopPcs
  <2> QED BY <1>1, <1>2, <1>5, <1>9, <2>1, <2>4, ReadingFrame DEF ReadPcs, LoopPcs, SolidPcs
<1> HIDE DEF m
<1>10. CASE wpc[w] = "expr"
  BY <1>8, <1>10, SolidReadsApart DEF SolidReads
<1>11. CASE wpc[w] = "size"
  <2> DEFINE pc == IF expr_3d = NoText THEN "reply" ELSE "eqn"
  <2>1. wpc' = [wpc EXCEPT ![w] = pc] /\ UNCHANGED loc
    BY <1>11, SolidReadsApart
  <2>2. pc \in {"eqn", "reply"}
    OBVIOUS
  <2>3. SolidReads(w) => /\ pc = "eqn" => n = 1 /\ expr_3d # NoText
                         /\ pc = "reply" => n = IF expr_3d = NoText THEN 1 ELSE 3 + req[w].arg
    BY <1>11 DEF SolidReads
  <2> HIDE DEF pc
  <2> QED BY <1>9, <2>1, <2>2, <2>3
<1>12. CASE wpc[w] = "eqn"
  BY <1>8, <1>12, SolidReadsApart DEF SolidReads
<1>13. CASE wpc[w] = "fun"
  <2>1. SolidReads(w) => n = 2 /\ expr_3d # NoText
    BY <1>13 DEF SolidReads
  <2>2. wpc' = [wpc EXCEPT ![w] = "args"] /\ loc' = [loc EXCEPT ![w].answer = Append(@, expr_3d)]
    BY <1>13, SolidReadsApart
  <2> HIDE DEF n
  <2>3. SolidReads(w) => n + 1 \in 3 .. 3 + req[w].arg
    BY <1>5, <2>1
  <2> QED BY <1>8, <2>1, <2>2, <2>3
<1>14. CASE wpc[w] = "args"
  <2>1. CASE n < 3 + req[w].arg
    <3>1. SolidReads(w) => n + 1 \in 3 .. 3 + req[w].arg /\ expr_3d # NoText
      BY <1>4, <1>5, <1>14, <2>1 DEF SolidReads
    <3>2. wpc' = [wpc EXCEPT ![w] = "args"] /\ loc' = [loc EXCEPT ![w].answer = Append(@, expr_3d)]
      BY <1>14, <2>1, SolidReadsApart
    <3> HIDE DEF n
    <3> QED BY <1>8, <3>1, <3>2
  <2>2. CASE ~(n < 3 + req[w].arg)
    BY <1>4, <1>5, <1>9, <1>14, <2>2, SolidReadsApart DEF SolidReads
  <2> QED BY <2>1, <2>2
<1> QED BY <1>2, <1>10, <1>11, <1>12, <1>13, <1>14 DEF SolidPcs

\* A torn read needs a change.
LEMMA TearStep ==
    ASSUME IInv, NEW w \in Workers, Tear(w)
    PROVE  IInv'
BY CrashStep DEF Tear
-----------------------------------------------------------------------------
(* main().                                                                  *)
\* A handler that is not at a read or at its answer has nothing to keep.
LEMMA LoopRest ==
    ASSUME NEW w, wpc'[w] \notin ReadPcs \cup {"reply"}
    PROVE  LoopOK(w)'
BY DEF LoopOK, VarLoop, PlotLoop, SolidReads, Answered, ReadPcs, LoopPcs, SolidPcs

\* main() sets global_app before the workers start, and leaves the rest.
LEMMA MainFrame ==
    ASSUME IInv, Up, MainUnchanged, UNCHANGED posted, global_app' = TRUE,
           \/ main = "window" /\ main' = "server" /\ UNCHANGED wpc
           \/ main = "server" /\ main' = "exec" /\ wpc' = [w \in Workers |-> "idle"]
           \/ main = "exec" /\ main' = "stop" /\ UNCHANGED wpc
    PROVE  IInv'
<1> USE DEF IInv
<1>0. UNCHANGED <<fate, keys, value, plots, expr_3d, t_model3d, bar, shown, raced, req, loc, dirty,
                  started, acked, since, executed, user>>
  BY DEF MainUnchanged, window, varVars, solidVars, tabVars, logVars
<1>1. MainTyped' /\ WindowTyped' /\ BarTyped' /\ DirtyTyped' /\ LogTyped' /\ ShownIsReported'
  BY <1>0 DEF MainTyped, WindowTyped, BarTyped, DirtyTyped, LogTyped, ShownIsReported
<1>2. \A w \in Workers : wpc'[w] = wpc[w] \/ (wpc[w] = "none" /\ wpc'[w] = "idle")
  BY DEF LifeInv
<1>3. WorkersTyped' /\ PcKinds'
  <2>1. wpc' \in [Workers -> Pcs]
    BY DEF WorkersTyped, Pcs
  <2>2. WorkersTyped'
    BY <1>0, <2>1 DEF WorkersTyped
  <2> QED BY <1>0, <1>2, <2>2 DEF PcKinds, LoopPcs, SolidPcs
<1>4. LifeInv'
  BY <1>0 DEF LifeInv, MainTyped
<1>5. LoopInv'
  <2> SUFFICES ASSUME NEW w \in Workers PROVE LoopOK(w)'
    BY DEF LoopInv
  <2>1. CASE wpc'[w] = wpc[w]
    BY <1>0, <2>1, LoopFrame DEF LoopInv
  <2>2. CASE wpc'[w] = "idle"
    BY <2>2, LoopRest DEF ReadPcs, LoopPcs, SolidPcs
  <2> QED BY <1>2, <2>1, <2>2
<1>6. OrderInv'
  BY <1>0, <1>2, <1>3, OrderFrame DEF WorkersTyped
<1>7. TabInv'
  BY <1>0, <1>2, TabFrame
<1>8. CrashOnlyRaced'
  BY <1>0 DEF CrashOnlyRaced, Up
<1> QED BY <1>1, <1>3, <1>4, <1>5, <1>6, <1>7, <1>8

\* The three steps of main() before the end.
LEMMA MainStepInv ==
    ASSUME IInv, SetApp \/ Start \/ Quit
    PROVE  IInv'
<1>1. CASE SetApp
  BY <1>1, MainFrame DEF SetApp
<1>2. CASE Start
  <2>1. global_app' = TRUE
    BY <1>2 DEF Start, IInv, LifeInv, MainTyped
  <2> QED BY <1>2, <2>1, MainFrame DEF Start
<1>3. CASE Quit
  <2>1. global_app' = TRUE
    BY <1>3 DEF Quit, IInv, LifeInv, MainTyped
  <2> QED BY <1>3, <2>1, MainFrame DEF Quit
<1> QED BY <1>1, <1>2, <1>3

\* The workers have left their loops: there is no handler to see the end.
LEMMA StopStep ==
    ASSUME IInv, Stop
    PROVE  IInv'
<1> USE DEF IInv
<1>0. /\ main' = "end" /\ posted' = <<>> /\ DOMAIN posted' = {}
      /\ UNCHANGED <<fate, global_app, keys, value, plots, expr_3d, t_model3d, bar, shown, raced,
                     wpc, req, loc, dirty, started, acked, since, executed, user>>
      /\ main = "stop" /\ Up /\ \A w \in Workers : wpc[w] = "done"
  BY DEF Stop, MainUnchanged, window, varVars, solidVars, tabVars, logVars
<1>1. MainTyped' /\ WindowTyped' /\ BarTyped' /\ DirtyTyped' /\ ShownIsReported'
  BY <1>0 DEF MainTyped, WindowTyped, BarTyped, DirtyTyped, ShownIsReported
<1>2. LogTyped'
  BY <1>0 DEF LogTyped
<1>3. WorkersTyped' /\ PcKinds' /\ CrashOnlyRaced'
  BY <1>0 DEF WorkersTyped, PcKinds, CrashOnlyRaced
<1>4. LifeInv'
  BY <1>0 DEF LifeInv
<1>5. LoopInv'
  BY <1>0, LoopFrame DEF LoopInv
<1>6. OrderInv'
  <2>1. UNCHANGED Executed /\ ExecutedInOrder'
    BY <1>0 DEF OrderInv, ExecutedInOrder, Executed
  <2> QED BY <1>0, <2>1 DEF OrderInv
<1>7. TabInv'
  BY <1>0 DEF TabInv
<1> QED BY <1>1, <1>2, <1>3, <1>4, <1>5, <1>6, <1>7
-----------------------------------------------------------------------------
(* Handlers that come, call and answer.                                     *)
\* A worker leaves its loop between two requests.
LEMMA LeaveStep ==
    ASSUME IInv, NEW w \in Workers, Leave(w)
    PROVE  IInv'
<1> USE DEF IInv
<1>0. /\ wpc[w] = "idle" /\ main = "stop" /\ Up /\ wpc' = [wpc EXCEPT ![w] = "done"]
      /\ UNCHANGED <<fate, main, global_app, posted, keys, value, plots, expr_3d, t_model3d, bar, shown,
                     raced, req, loc, dirty, started, acked, since, executed, user>>
  BY DEF Leave, At, Goto, mainVars, window, varVars, solidVars, tabVars, logVars
<1>1. wpc'[w] = "done" /\ \A v \in Workers : v # w => wpc'[v] = wpc[v]
  BY <1>0 DEF WorkersTyped
<1>2. MainTyped' /\ WindowTyped' /\ BarTyped' /\ DirtyTyped' /\ LogTyped' /\ ShownIsReported'
  BY <1>0 DEF MainTyped, WindowTyped, BarTyped, DirtyTyped, LogTyped, ShownIsReported
<1>3. WorkersTyped'
  <2>1. wpc' \in [Workers -> Pcs]
    BY <1>0 DEF WorkersTyped, Pcs
  <2> QED BY <1>0, <2>1 DEF WorkersTyped
<1>4. PcKinds' /\ LifeInv' /\ CrashOnlyRaced'
  BY <1>0, <1>1 DEF PcKinds, LifeInv, CrashOnlyRaced, Up, LoopPcs, SolidPcs
<1>5. LoopInv'
  <2> SUFFICES ASSUME NEW v \in Workers PROVE LoopOK(v)'
    BY DEF LoopInv
  <2>1. CASE v = w
    BY <1>1, <2>1, LoopRest DEF ReadPcs, LoopPcs, SolidPcs
  <2>2. CASE v # w
    BY <1>0, <1>1, <2>2, LoopFrame DEF LoopInv
  <2> QED BY <2>1, <2>2
<1>6. OrderInv'
  BY <1>0, <1>1, <1>3, OrderFrame DEF WorkersTyped
<1>7. TabInv'
  BY <1>0, <1>1, TabFrame
<1> QED BY <1>2, <1>3, <1>4, <1>5, <1>6, <1>7

\* The bar shows the tab that is asked for, and one worker is to tell the page.
LEMMA SetTabStep ==
    ASSUME IInv, NEW w \in Workers, SetTab(w)
    PROVE  IInv'
<1> USE DEF IInv
<1> DEFINE a == req[w].arg
           pc == IF bar = a THEN "reply" ELSE "emit"
<1>0. /\ wpc[w] = "settab" /\ Up /\ wpc' = [wpc EXCEPT ![w] = pc] /\ bar' = a
      /\ raced' = (raced \/ (bar # a /\ \E v \in Workers : wpc[v] = "emit"))
      /\ UNCHANGED <<fate, main, global_app, posted, keys, value, plots, expr_3d, t_model3d, shown,
                     req, loc, dirty, started, acked, since, executed, user>>
  BY DEF SetTab, At, Goto, mainVars, window, varVars, solidVars, logVars
<1>1. wpc'[w] = pc /\ \A v \in Workers : v # w => wpc'[v] = wpc[v]
  BY <1>0 DEF WorkersTyped
<1>2. req[w].kind = "tab" /\ a \in TabsUsed
  BY <1>0 DEF PcKinds, WorkersTyped, Fits
<1>3. MainTyped' /\ WindowTyped' /\ DirtyTyped' /\ LogTyped' /\ ShownIsReported' /\ CrashOnlyRaced'
  BY <1>0 DEF MainTyped, WindowTyped, DirtyTyped, LogTyped, ShownIsReported, CrashOnlyRaced, Up
<1>4. BarTyped'
  BY <1>0, <1>2 DEF BarTyped
<1>5. WorkersTyped'
  <2>1. wpc' \in [Workers -> Pcs]
    BY <1>0 DEF WorkersTyped, Pcs
  <2> QED BY <1>0, <2>1 DEF WorkersTyped
<1>6. PcKinds' /\ LifeInv'
  BY <1>0, <1>1, <1>2 DEF PcKinds, LifeInv, LoopPcs, SolidPcs
<1>7. LoopInv'
  <2> SUFFICES ASSUME NEW v \in Workers PROVE LoopOK(v)'
    BY DEF LoopInv
  <2>1. CASE v = w
    BY <1>0, <1>1, <1>2, <2>1
    DEF LoopOK, VarLoop, PlotLoop, SolidReads, Answered, LoopPcs, SolidPcs
  <2>2. CASE v # w
    BY <1>0, <1>1, <2>2, LoopFrame DEF LoopInv
  <2> QED BY <2>1, <2>2
<1>8. OrderInv'
  BY <1>0, <1>1, <1>2, <1>5, OrderFrame DEF WorkersTyped, Adds
<1>9. TabInv'
  <2>1. CASE bar = a
    <3>1. UNCHANGED <<bar, raced>> /\ pc = "reply"
      BY <1>0, <2>1 DEF BarTyped
    <3> QED BY <1>0, <1>1, <3>1, TabFrame
  <2>2. CASE bar # a
    <3> SUFFICES ASSUME ~raced' PROVE TabInv'
      BY DEF TabInv
    <3>1. \A v \in Workers : wpc[v] # "emit"
      BY <1>0, <2>2
    <3>2. \A v \in Workers : Emitting(v)' <=> v = w
      BY <1>1, <2>2, <3>1 DEF Emitting
    <3>3. Outstanding'
      BY <3>2 DEF Outstanding, Emitting
    <3> QED BY <1>0, <3>2, <3>3 DEF TabInv
  <2> QED BY <2>1, <2>2
<1> QED BY <1>3, <1>4, <1>5, <1>6, <1>7, <1>8, <1>9

\* The queue one event longer: who waits, and who waits before whom.
LEMMA QueueLonger ==
    ASSUME posted \in Seq(Event), NEW e \in Event, posted' = Append(posted, e),
           NEW n, n = Len(posted)
    PROVE  /\ posted' \in Seq(Event)
           /\ n \in Nat /\ DOMAIN posted = 1 .. n /\ DOMAIN posted' = 1 .. n + 1
           /\ posted'[n + 1] = e
           /\ \A k \in 1 .. n : posted'[k] = posted[k] /\ WaitingBefore(k)' = WaitingBefore(k)
           /\ WaitingBefore(n + 1)' = Waiting
           /\ IsCall(e) => Waiting' = Waiting \cup {e.id}
           /\ ~IsCall(e) => Waiting' = Waiting
<1>1. n \in Nat /\ DOMAIN posted = 1 .. n
  OBVIOUS
<1>2. /\ posted' \in Seq(Event) /\ Len(posted') = n + 1 /\ posted'[n + 1] = e
      /\ \A k \in 1 .. n : posted'[k] = posted[k]
  BY AppendProperties
<1>3. DOMAIN posted' = 1 .. n + 1
  BY <1>1, <1>2
<1>4. \A k \in 1 .. n + 1 : WaitingBefore(k)' = WaitingBefore(k)
  <2> SUFFICES ASSUME NEW k \in 1 .. n + 1 PROVE WaitingBefore(k)' = WaitingBefore(k)
    OBVIOUS
  <2>1. \A j \in 1 .. k - 1 : posted'[j] = posted[j]
    BY <1>1, <1>2
  <2>2. \A j \in 1 .. k - 1 : IsCall(posted'[j]) <=> IsCall(posted[j])
    BY <2>1 DEF IsCall
  <2> QED BY <2>1, <2>2 DEF WaitingBefore
<1>5. WaitingBefore(n + 1) = Waiting
  BY <1>1 DEF WaitingBefore, Waiting
<1>6. (IsCall(e) => Waiting' = Waiting \cup {e.id}) /\ (~IsCall(e) => Waiting' = Waiting)
  <2>1. \A j \in 1 .. n : posted'[j] = posted[j]
    BY <1>2
  <2>2. 1 .. n + 1 = (1 .. n) \cup {n + 1}
    BY <1>1
  <2>3. Waiting' = {posted'[k].id : k \in {k \in 1 .. n + 1 : IsCall(posted'[k])}}
    BY <1>3 DEF Waiting, IsCall
  <2>4. Waiting = {posted[k].id : k \in {k \in 1 .. n : IsCall(posted[k])}}
    BY <1>1 DEF Waiting
  <2> QED BY <1>2, <2>1, <2>2, <2>3, <2>4 DEF IsCall
<1> QED BY <1>1, <1>2, <1>3, <1>4, <1>5, <1>6

\* A handler that posts an event and goes on to its answer.
LEMMA PostFrame ==
    ASSUME IInv, NEW w \in Workers, Up, Posts, wpc[w] \in {"emit", "post"}, Goto(w, "reply"),
           NEW e \in Event, posted' = Append(posted, e), Fits(e), e.id \in 0 .. started,
           OrderInv', TabInv'
    PROVE  IInv'
<1> USE DEF IInv
<1>0. UNCHANGED <<fate, main, global_app, keys, value, plots, expr_3d, t_model3d, bar, shown, raced,
                  req, loc, dirty, started, acked, since, executed, user>>
  BY DEF Posts, mainVars, window, varVars, solidVars, tabVars, logVars
<1>1. wpc' = [wpc EXCEPT ![w] = "reply"] /\ wpc \in [Workers -> Pcs]
  BY DEF Goto, WorkersTyped
<1>2. wpc'[w] = "reply" /\ \A v \in Workers : v # w => wpc'[v] = wpc[v]
  BY <1>1
<1>3. MainTyped' /\ WindowTyped' /\ BarTyped' /\ DirtyTyped' /\ ShownIsReported' /\ CrashOnlyRaced'
  BY <1>0 DEF MainTyped, WindowTyped, BarTyped, DirtyTyped, ShownIsReported, CrashOnlyRaced, Up
<1>4. WorkersTyped'
  <2>1. wpc' \in [Workers -> Pcs]
    BY <1>1 DEF Pcs
  <2> QED BY <1>0, <2>1 DEF WorkersTyped
<1>5. LogTyped'
  <2>1. PICK n : n = Len(posted)
    OBVIOUS
  <2>2. posted \in Seq(Event)
    BY DEF LogTyped
  <2>3. /\ posted' \in Seq(Event) /\ DOMAIN posted = 1 .. n /\ DOMAIN posted' = 1 .. n + 1 /\ n \in Nat
        /\ posted'[n + 1] = e /\ \A k \in 1 .. n : posted'[k] = posted[k]
    BY <2>1, <2>2, QueueLonger
  <2>4. ASSUME NEW k \in DOMAIN posted' PROVE Fits(posted'[k]) /\ posted'[k].id \in 0 .. started
    <3>1. CASE k = n + 1
      BY <2>3, <3>1
    <3>2. CASE k \in 1 .. n
      BY <2>3, <3>2 DEF LogTyped
    <3> QED BY <2>3, <3>1, <3>2
  <2> QED BY <1>0, <2>3, <2>4 DEF LogTyped, Fits
<1>6. main # "end"
  BY DEF LifeInv
<1>7. PcKinds' /\ LifeInv'
  BY <1>0, <1>2, <1>6 DEF PcKinds, LifeInv, LoopPcs, SolidPcs
<1>8. LoopInv'
  <2> SUFFICES ASSUME NEW v \in Workers PROVE LoopOK(v)'
    BY DEF LoopInv
  <2>1. CASE v = w
    <3>1. req[w].kind \in Adds \cup {"tab"}
      BY DEF PcKinds
    <3> QED BY <1>0, <1>2, <2>1, <3>1
            DEF LoopOK, VarLoop, PlotLoop, SolidReads, Answered, LoopPcs, SolidPcs, Adds
  <2>2. CASE v # w
    BY <1>0, <1>2, <2>2, LoopFrame DEF LoopInv
  <2> QED BY <2>1, <2>2
<1> QED BY <1>3, <1>4, <1>5, <1>7, <1>8

\* The page's signal is no call; it is the last of the changes under way.
LEMMA EmitStep ==
    ASSUME IInv, NEW w \in Workers, Emit(w)
    PROVE  IInv'
<1> USE DEF IInv
<1>0. /\ wpc[w] = "emit" /\ Up /\ Posts /\ Goto(w, "reply")
      /\ UNCHANGED <<main, bar, shown, raced, req, started, acked, since, executed>>
  BY DEF Emit, At, Posts, mainVars, tabVars, logVars
<1>1. PICK e : e = [kind |-> "tab", arg |-> req[w].arg, id |-> 0]
  OBVIOUS
<1>2. req[w].kind = "tab" /\ req[w].arg \in TabsUsed /\ req[w].arg \in Args
  BY <1>0 DEF PcKinds, WorkersTyped, Fits, Args
<1>3. /\ e \in Event /\ Fits(e) /\ e.id \in 0 .. started /\ ~IsCall(e) /\ posted' = Append(posted, e)
      /\ e.kind = "tab" /\ e.arg = req[w].arg
  BY <1>1, <1>2 DEF Emit, Event, Fits, LogTyped, IsCall
<1>4. PICK n : n = Len(posted)
  OBVIOUS
<1>5. /\ n \in Nat /\ DOMAIN posted = 1 .. n /\ DOMAIN posted' = 1 .. n + 1 /\ posted'[n + 1] = e
      /\ \A k \in 1 .. n : posted'[k] = posted[k] /\ WaitingBefore(k)' = WaitingBefore(k)
      /\ Waiting' = Waiting
  BY <1>3, <1>4, QueueLonger DEF LogTyped
<1>6. wpc \in [Workers -> Pcs] /\ wpc' = [wpc EXCEPT ![w] = "reply"]
  BY <1>0 DEF Goto, WorkersTyped
<1>7. wpc'[w] = "reply" /\ \A v \in Workers : v # w => wpc'[v] = wpc[v]
  BY <1>6
<1>8. OrderInv'
  <2>1. UNCHANGED Executed /\ ExecutedInOrder'
    BY <1>0 DEF OrderInv, ExecutedInOrder, Executed
  <2>2. ASSUME NEW k \in DOMAIN posted', IsCall(posted'[k])
        PROVE  /\ posted'[k].id \in 1 .. started
               /\ posted'[k].id \notin Executed \cup WaitingBefore(k)'
               /\ since[posted'[k].id] \subseteq Executed \cup WaitingBefore(k)'
    <3>1. k \in 1 .. n /\ posted'[k] = posted[k]
      BY <1>3, <1>5, <2>2
    <3> QED BY <1>5, <2>2, <3>1 DEF OrderInv
  <2>3. \A v \in Workers :
          wpc'[v] \in ReadPcs \cup {"settab", "emit", "post", "reply"} <=> req[v].kind # "none"
    BY <1>0, <1>7 DEF OrderInv
  <2>4. req[w].kind \notin Adds
    BY <1>2 DEF Adds
  <2>5. \A k \in DOMAIN posted' : IsCall(posted[k])' =>
          /\ posted'[k].id \in 1 .. started'
          /\ posted'[k].id \notin Executed' \cup WaitingBefore(k)'
          /\ since'[posted'[k].id] \subseteq Executed' \cup WaitingBefore(k)'
    BY <1>0, <2>1, <2>2 DEF IsCall
  <2> QED BY <1>0, <1>5, <1>7, <2>1, <2>3, <2>4, <2>5 DEF OrderInv
<1>9. TabInv'
  <2> SUFFICES ASSUME ~raced PROVE TabInv'
    BY <1>0 DEF TabInv
  <2>1. /\ \A v \in Workers : Emitting(v) => v = w
        /\ req[w].arg = bar
    BY <1>0 DEF TabInv, Emitting, LifeInv
  <2>2. \A v \in Workers : ~Emitting(v)'
    BY <1>7, <2>1 DEF Emitting
  <2>3. Outstanding'
    BY <1>3, <1>5 DEF Outstanding
  <2>4. \A i \in DOMAIN posted' : LastTab(i)' => posted'[i].arg = bar
    <3> SUFFICES ASSUME NEW i \in DOMAIN posted', LastTab(i)' PROVE posted'[i].arg = bar
      OBVIOUS
    <3>1. i = n + 1
      BY <1>3, <1>5 DEF LastTab
    <3> QED BY <1>3, <1>5, <2>1, <3>1
  <2> QED BY <1>0, <2>2, <2>3, <2>4 DEF TabInv
<1> QED BY <1>0, <1>3, <1>8, <1>9, PostFrame

\* The call comes after everything that was acknowledged before its request.
LEMMA PostStep ==
    ASSUME IInv, NEW w \in Workers, Post(w)
    PROVE  IInv'
<1> USE DEF IInv
<1>0. /\ wpc[w] = "post" /\ Up /\ Posts /\ Goto(w, "reply") /\ main # "end"
      /\ UNCHANGED <<main, bar, shown, raced, req, started, acked, since, executed>>
  BY DEF Post, At, Posts, mainVars, tabVars, logVars, LifeInv
<1>1. PICK e : e = req[w]
  OBVIOUS
<1>2. e.kind \in Adds /\ e \in Task /\ Fits(e) /\ e.id \in 1 .. started
  <2>1. e.id # 0 /\ e.kind \in Adds
    BY <1>0, <1>1 DEF OrderInv, PcKinds, Adds
  <2> QED BY <1>1, <2>1 DEF WorkersTyped, LogTyped
<1>3. e \in Event /\ IsCall(e) /\ posted' = Append(posted, e) /\ e.id \in 0 .. started
  BY <1>1, <1>2 DEF Post, Event, Task, IsCall, Adds, LogTyped
<1>4. PICK n : n = Len(posted)
  OBVIOUS
<1>5. /\ n \in Nat /\ DOMAIN posted = 1 .. n /\ DOMAIN posted' = 1 .. n + 1 /\ posted'[n + 1] = e
      /\ \A k \in 1 .. n : posted'[k] = posted[k] /\ WaitingBefore(k)' = WaitingBefore(k)
      /\ WaitingBefore(n + 1)' = Waiting /\ Waiting' = Waiting \cup {e.id}
  BY <1>3, <1>4, QueueLonger DEF LogTyped
<1>6. wpc \in [Workers -> Pcs] /\ wpc' = [wpc EXCEPT ![w] = "reply"]
  BY <1>0 DEF Goto, WorkersTyped
<1>7. wpc'[w] = "reply" /\ \A v \in Workers : v # w => wpc'[v] = wpc[v]
  BY <1>6
<1>8. e.id \notin Executed \cup Waiting /\ since[e.id] \subseteq Executed \cup Waiting
  BY <1>0, <1>1, <1>2 DEF OrderInv
<1>9. OrderInv'
  <2>1. UNCHANGED Executed /\ ExecutedInOrder'
    BY <1>0 DEF OrderInv, ExecutedInOrder, Executed
  <2>2. ASSUME NEW k \in DOMAIN posted', IsCall(posted'[k])
        PROVE  /\ posted'[k].id \in 1 .. started
               /\ posted'[k].id \notin Executed \cup WaitingBefore(k)'
               /\ since[posted'[k].id] \subseteq Executed \cup WaitingBefore(k)'
    <3>1. CASE k \in 1 .. n
      BY <1>5, <2>2, <3>1 DEF OrderInv
    <3>2. CASE k = n + 1
      BY <1>2, <1>5, <1>8, <3>2
    <3> QED BY <1>5, <3>1, <3>2
  <2>3. \A v \in Workers :
          wpc'[v] \in ReadPcs \cup {"settab", "emit", "post", "reply"} <=> req[v].kind # "none"
    BY <1>0, <1>7 DEF OrderInv
  <2>4. \A v \in Workers : wpc'[v] = "post" => req[v].id \notin Executed \cup Waiting'
    <3> SUFFICES ASSUME NEW v \in Workers, wpc'[v] = "post" PROVE req[v].id \notin Executed \cup Waiting'
      OBVIOUS
    <3>1. v # w /\ wpc[v] = "post"
      BY <1>7
    <3>2. req[v].id # req[w].id
      BY <3>1 DEF OrderInv
    <3> QED BY <1>1, <1>5, <3>1, <3>2 DEF OrderInv
  <2>5. \A k \in DOMAIN posted' : IsCall(posted[k])' =>
          /\ posted'[k].id \in 1 .. started'
          /\ posted'[k].id \notin Executed' \cup WaitingBefore(k)'
          /\ since'[posted'[k].id] \subseteq Executed' \cup WaitingBefore(k)'
    BY <1>0, <2>1, <2>2 DEF IsCall
  <2>6. \A v \in Workers : wpc'[v] = "reply" /\ req[v].kind \in Adds => req[v].id \in Executed \cup Waiting'
    BY <1>1, <1>5, <1>7 DEF OrderInv
  <2> QED BY <1>0, <1>5, <2>1, <2>3, <2>4, <2>5, <2>6 DEF OrderInv
<1>10. TabInv'
  <2> SUFFICES ASSUME ~raced PROVE TabInv'
    BY <1>0 DEF TabInv
  <2>1. \A v \in Workers : Emitting(v)' <=> Emitting(v)
    BY <1>0, <1>7 DEF Emitting
  <2>2. e.kind # "tab"
    BY <1>3 DEF IsCall
  <2>3. Outstanding' <=> Outstanding
    <3>1. (\E v \in Workers : wpc'[v] = "emit") <=> \E v \in Workers : wpc[v] = "emit"
      BY <1>0, <1>7
    <3>2. (\E i \in DOMAIN posted' : posted'[i].kind = "tab") <=> \E i \in DOMAIN posted : posted[i].kind = "tab"
      BY <1>5, <2>2
    <3> QED BY <3>1, <3>2 DEF Outstanding
  <2>4. ASSUME NEW i \in DOMAIN posted', LastTab(i)' PROVE i \in DOMAIN posted /\ LastTab(i) /\ posted'[i] = posted[i]
    BY <1>5, <2>2, <2>4 DEF LastTab
  <2> QED BY <1>0, <2>1, <2>3, <2>4 DEF TabInv
<1> QED BY <1>0, <1>2, <1>3, <1>9, <1>10, PostFrame

\* An answered call is one that is executed or waits.
LEMMA ReplyStep ==
    ASSUME IInv, NEW w \in Workers, Reply(w)
    PROVE  IInv'
<1> USE DEF IInv
<1>0. /\ wpc[w] = "reply" /\ Up /\ Forget(w) /\ main # "end"
      /\ acked' = IF req[w].kind \in Adds THEN acked \cup {req[w].id} ELSE acked
      /\ UNCHANGED <<fate, main, global_app, posted, keys, value, plots, expr_3d, t_model3d, bar, shown,
                     raced, started, since, executed, user>>
  BY DEF Reply, At, mainVars, window, varVars, solidVars, tabVars, LifeInv
<1>1. /\ wpc'[w] = "idle" /\ req'[w] = NoRequest /\ loc'[w] = NoLocals /\ dirty'[w] = FALSE
      /\ wpc' \in [Workers -> Pcs] /\ dirty' \in [Workers -> BOOLEAN]
      /\ \A v \in Workers : v # w =>
            wpc'[v] = wpc[v] /\ req'[v] = req[v] /\ loc'[v] = loc[v] /\ dirty'[v] = dirty[v]
  BY <1>0 DEF Forget, Goto, WorkersTyped, DirtyTyped, Pcs
<1>2. NoRequest \in Task /\ Fits(NoRequest) /\ NoLocals \in Locals
      /\ NoRequest.kind = "none" /\ NoRequest.id = 0
  BY DEF NoRequest, Task, Fits, Args, NoLocals, Locals
<1>3. MainTyped' /\ WindowTyped' /\ BarTyped' /\ DirtyTyped' /\ ShownIsReported' /\ CrashOnlyRaced'
  BY <1>0, <1>1 DEF MainTyped, WindowTyped, BarTyped, DirtyTyped, ShownIsReported, CrashOnlyRaced, Up
<1>4. req[w].kind \in Adds => req[w].id \in 1 .. started /\ req[w].id \in Executed \cup Waiting
  <2>1. req[w].kind \in Adds => req[w].id # 0 /\ req[w].id \in Executed \cup Waiting
    BY <1>0 DEF OrderInv, Adds
  <2> QED BY <2>1 DEF WorkersTyped, LogTyped
<1>5. LogTyped'
  BY <1>0, <1>4 DEF LogTyped
<1>6. WorkersTyped'
  <2>1. req' \in [Workers -> Task] /\ loc' \in [Workers -> Locals]
    BY <1>0, <1>2 DEF Forget, WorkersTyped
  <2>2. ASSUME NEW v \in Workers PROVE Fits(req'[v]) /\ req'[v].id \in 0 .. started
    <3>1. CASE v = w
      <4>1. 0 \in 0 .. started
        BY DEF LogTyped
      <4> QED BY <1>1, <1>2, <3>1, <4>1
    <3>2. CASE v # w
      BY <1>1, <3>2 DEF WorkersTyped
    <3> QED BY <3>1, <3>2
  <2> QED BY <1>0, <1>1, <2>1, <2>2 DEF WorkersTyped, Fits
<1>7. PcKinds' /\ LifeInv'
  BY <1>0, <1>1 DEF PcKinds, LifeInv, LoopPcs, SolidPcs
<1>8. LoopInv'
  <2> SUFFICES ASSUME NEW v \in Workers PROVE LoopOK(v)'
    BY DEF LoopInv
  <2>1. CASE v = w
    BY <1>1, <2>1, LoopRest DEF ReadPcs, LoopPcs, SolidPcs
  <2>2. CASE v # w
    BY <1>0, <1>1, <2>2, LoopFrame DEF LoopInv
  <2> QED BY <2>1, <2>2
<1>9. OrderInv'
  <2>1. UNCHANGED <<Executed, Waiting>> /\ (\A k : WaitingBefore(k)' = WaitingBefore(k)) /\ ExecutedInOrder'
    BY <1>0 DEF OrderInv, ExecutedInOrder, Executed, Waiting, WaitingBefore
  <2>2. \A n \in 1 .. started : since[n] \subseteq acked'
    BY <1>0 DEF OrderInv
  <2>3. acked' \subseteq Executed \cup Waiting
    BY <1>0, <1>4 DEF OrderInv
  <2>4. \A u, v \in Workers : req'[v].kind # "none" /\ req'[v].id = req'[u].id => v = u
    <3> SUFFICES ASSUME NEW u \in Workers, NEW v \in Workers, req'[v].kind # "none", req'[v].id = req'[u].id
                 PROVE  v = u
      OBVIOUS
    <3>1. v # w /\ req'[v] = req[v] /\ req[v].id # 0
      BY <1>1, <1>2 DEF OrderInv
    <3>2. u # w
      BY <1>1, <1>2, <3>1
    <3> QED BY <1>1, <3>1, <3>2 DEF OrderInv
  <2>5. \A v \in Workers :
          /\ wpc'[v] \in ReadPcs \cup {"settab", "emit", "post", "reply"} <=> req'[v].kind # "none"
          /\ req'[v].kind # "none" => req'[v].id # 0
          /\ wpc'[v] = "post" => req'[v].id \notin Executed \cup Waiting
          /\ wpc'[v] = "reply" /\ req'[v].kind \in Adds => req'[v].id \in Executed \cup Waiting
    BY <1>1, <1>2 DEF OrderInv, ReadPcs, LoopPcs, SolidPcs
  <2> QED BY <1>0, <2>1, <2>2, <2>3, <2>4, <2>5 DEF OrderInv
<1>10. TabInv'
  BY <1>0, <1>1, TabFrame
<1> QED BY <1>3, <1>5, <1>6, <1>7, <1>8, <1>9, <1>10

\* A request comes with a number of its own, after those acknowledged.
LEMMA HandleStep ==
    ASSUME IInv, NEW w \in Workers, NEW r \in Request, Handle(w, r)
    PROVE  IInv'
<1> USE DEF IInv
<1> DEFINE task == [kind |-> r.kind, arg |-> r.arg, id |-> started + 1]
           l == [NoLocals EXCEPT !.end = Len(plots)]
           pc == First[r.kind]
<1>0. /\ wpc[w] = "idle" /\ Up /\ started < MaxRequests
      /\ started' = started + 1 /\ since' = Append(since, acked)
      /\ req' = [req EXCEPT ![w] = task] /\ loc' = [loc EXCEPT ![w] = l]
      /\ dirty' = [dirty EXCEPT ![w] = FALSE] /\ wpc' = [wpc EXCEPT ![w] = pc]
      /\ UNCHANGED <<fate, main, global_app, posted, keys, value, plots, expr_3d, t_model3d, bar, shown,
                     raced, acked, executed, user>>
  BY DEF Handle, At, Goto, mainVars, window, varVars, solidVars, tabVars
<1>1. /\ started \in Nat /\ started + 1 \in 0 .. MaxRequests /\ started + 1 # 0
      /\ since \in Seq(SUBSET Nat) /\ Len(since) = started /\ acked \subseteq 1 .. started
  BY <1>0 DEF LogTyped
<1>2. r.kind \in Adds \cup {"tab", "vars", "func2d", "func3d"}
  BY DEF Request, Adds
<1>3. /\ r.kind \in {"vars", "func2d"} => r.arg = NoText
      /\ r.kind = "func3d" => r.arg \in PointReads
      /\ r.kind = "tab" => r.arg \in TabsUsed
      /\ r.kind = "calc" => r.arg \in Operation
      /\ r.kind = "add2d" => r.arg \in Curves
      /\ r.kind = "add3d" => r.arg \in Solids \cup Broken
  BY DEF Request
<1>4. r.arg \in Args
  BY <1>2, <1>3 DEF Args, Adds
<1>5. task \in Task /\ Fits(task) /\ task.id = started + 1 /\ task.kind = r.kind
  BY <1>1, <1>2, <1>3, <1>4 DEF Task, Fits
<1>6. /\ l \in Locals /\ l.idx = 1 /\ l.copied = {} /\ l.item = 1 /\ l.end = Len(plots) /\ l.answer = <<>>
  <2>1. NoLocals \in Locals /\ Len(plots) \in Nat
    BY DEF NoLocals, Locals, WindowTyped
  <2>2. /\ NoLocals.idx = 1 /\ NoLocals.copied = {} /\ NoLocals.item = 1 /\ NoLocals.answer = <<>>
    BY DEF NoLocals
  <2> QED BY <2>1, <2>2 DEF Locals
<1>7. /\ r.kind = "vars" => pc = "check"
      /\ r.kind = "func2d" => pc = "plot"
      /\ r.kind = "func3d" => pc = "expr"
      /\ r.kind = "tab" => pc = "settab"
      /\ r.kind \in Adds => pc = "post"
  BY DEF First, Adds
<1> HIDE DEF task, l, pc
<1>8. pc \in ReadPcs \cup {"settab", "post"} /\ pc \in Pcs
  BY <1>2, <1>7 DEF Pcs, ReadPcs, LoopPcs, SolidPcs, Adds
<1>9. /\ wpc'[w] = pc /\ req'[w] = task /\ loc'[w] = l /\ dirty'[w] = FALSE
      /\ wpc' \in [Workers -> Pcs] /\ req' \in [Workers -> Task] /\ loc' \in [Workers -> Locals]
      /\ dirty' \in [Workers -> BOOLEAN]
      /\ \A v \in Workers : v # w =>
            wpc'[v] = wpc[v] /\ req'[v] = req[v] /\ loc'[v] = loc[v] /\ dirty'[v] = dirty[v]
  BY <1>0, <1>5, <1>6, <1>8 DEF WorkersTyped, DirtyTyped
<1>10. MainTyped' /\ WindowTyped' /\ BarTyped' /\ DirtyTyped' /\ ShownIsReported' /\ CrashOnlyRaced'
  BY <1>0, <1>9 DEF MainTyped, WindowTyped, BarTyped, DirtyTyped, ShownIsReported, CrashOnlyRaced, Up
<1>11. /\ since' \in Seq(SUBSET Nat) /\ Len(since') = started + 1 /\ since'[started + 1] = acked
       /\ \A n \in 1 .. started : since'[n] = since[n]
  <2>1. acked \in SUBSET Nat
    BY <1>1
  <2> QED BY <1>0, <1>1, <2>1, AppendProperties
<1>12. LogTyped'
  BY <1>0, <1>1, <1>11 DEF LogTyped, Fits
<1>13. WorkersTyped'
  <2>1. \A v \in Workers : Fits(req'[v]) /\ req'[v].id \in 0 .. started + 1
    BY <1>1, <1>5, <1>9 DEF WorkersTyped
  <2> QED BY <1>0, <1>9, <2>1 DEF WorkersTyped, Fits
<1>14. PcKinds'
  <2>1. /\ wpc'[w] \in LoopPcs => req'[w].kind \in {"vars", "func2d"}
        /\ wpc'[w] = "plot" => req'[w].kind = "func2d"
        /\ wpc'[w] \in SolidPcs => req'[w].kind = "func3d"
        /\ wpc'[w] \in {"settab", "emit"} => req'[w].kind = "tab"
        /\ wpc'[w] = "post" => req'[w].kind \in Adds
    BY <1>2, <1>5, <1>7, <1>9 DEF LoopPcs, SolidPcs, Adds
  <2> QED BY <1>9, <2>1 DEF PcKinds
<1>15. LifeInv' /\ main # "end"
  BY <1>0, <1>8, <1>9 DEF LifeInv, ReadPcs, LoopPcs, SolidPcs
<1>16. LoopInv'
  <2> SUFFICES ASSUME NEW v \in Workers PROVE LoopOK(v)'
    BY DEF LoopInv
  <2>1. CASE v = w
    <3>1. Begun(1) = {} /\ 1 \in 1 .. Len(keys) + 1
      BY DEF Begun, WindowTyped
    <3>2. Facts(0) = <<>> /\ 1 \in 1 .. Len(plots) + 1
      BY DEF Facts, WindowTyped
    <3>3. VarLoop(w)'
      <4>1. CASE pc = "check"
        <5>1. l.idx \in 1 .. Len(keys) + 1 /\ l.copied = Begun(l.idx)
          BY <1>6, <3>1
        <5> QED BY <1>0, <1>9, <4>1, <5>1, WindowKept DEF VarLoop
      <4>2. CASE pc # "check"
        BY <1>8, <1>9, <4>2, <1>2, <1>7 DEF VarLoop, LoopPcs, Adds
      <4> QED BY <4>1, <4>2
    <3>4. PlotLoop(w)'
      <4>1. CASE pc = "plot"
        <5>1. l.idx = 1 /\ l.copied = {} /\ l.item \in 1 .. Len(plots) + 1
              /\ l.end = Len(plots) /\ l.answer = Facts(l.item - 1)
          BY <1>6, <3>2
        <5> QED BY <1>0, <1>9, <4>1, <5>1, WindowKept DEF PlotLoop, LoopPcs
      <4>2. CASE pc # "plot"
        BY <1>2, <1>5, <1>7, <1>9, <4>2 DEF PlotLoop, LoopPcs, Adds
      <4> QED BY <4>1, <4>2
    <3>5. SolidReads(w)' /\ Answered(w)'
      <4>1. pc # "reply" /\ pc \notin SolidPcs \ {"expr"}
        BY <1>2, <1>7 DEF Adds, SolidPcs
      <4>2. l.answer = [i \in 1 .. Len(l.answer) |-> expr_3d'] /\ Len(l.answer) = 0
        BY <1>6
      <4> QED BY <1>9, <4>1, <4>2 DEF SolidReads, Answered, Same, SolidPcs
    <3> QED BY <2>1, <3>3, <3>4, <3>5 DEF LoopOK
  <2>2. CASE v # w
    BY <1>0, <1>9, <2>2, LoopFrame DEF LoopInv
  <2> QED BY <2>1, <2>2
<1>17. OrderInv'
  <2>1. UNCHANGED <<Executed, Waiting>> /\ \A k : WaitingBefore(k)' = WaitingBefore(k)
    BY <1>0 DEF Executed, Waiting, WaitingBefore
  <2>2. /\ Executed \subseteq 1 .. started /\ Waiting \subseteq 1 .. started
        /\ \A i \in DOMAIN executed : executed[i] \in 1 .. started
    BY DEF OrderInv, Executed, Waiting
  <2>3. ExecutedInOrder'
    <3>1. \A i \in DOMAIN executed : since'[executed[i]] = since[executed[i]]
      BY <1>11, <2>2
    <3>2. \A i \in DOMAIN executed :
            /\ since'[executed[i]] \subseteq {executed[j] : j \in 1 .. i - 1}
            /\ executed[i] \notin {executed[j] : j \in 1 .. i - 1}
      BY <3>1 DEF OrderInv, ExecutedInOrder
    <3>3. executed' = executed
      BY <1>0
    <3> QED BY ONLY <3>2, <3>3 DEF ExecutedInOrder
  <2>4. \A k \in DOMAIN posted : IsCall(posted[k]) =>
          /\ posted[k].id \in 1 .. started'
          /\ posted[k].id \notin Executed \cup WaitingBefore(k)
          /\ since'[posted[k].id] \subseteq Executed \cup WaitingBefore(k)
    BY <1>0, <1>1, <1>11 DEF OrderInv
  <2>5. \A n \in 1 .. started' : since'[n] \subseteq acked
    BY <1>0, <1>1, <1>11 DEF OrderInv
  <2>6. \A u, v \in Workers : req'[v].kind # "none" /\ req'[v].id = req'[u].id => v = u
    <3>1. \A v \in Workers : v # w => req'[v] = req[v] /\ req[v].id # started + 1
      BY <1>1, <1>9 DEF WorkersTyped
    <3>2. req'[w].id = started + 1
      BY <1>5, <1>9
    <3> QED BY <3>1, <3>2 DEF OrderInv
  <2>7. /\ req'[w].kind # "none" /\ req'[w].id # 0 /\ req'[w].id \notin Executed \cup Waiting
        /\ wpc'[w] \in ReadPcs \cup {"settab", "emit", "post", "reply"} /\ wpc'[w] # "reply"
    BY <1>1, <1>2, <1>5, <1>8, <1>9, <2>2 DEF Adds, ReadPcs, LoopPcs, SolidPcs
  <2>8. \A v \in Workers :
          /\ wpc'[v] \in ReadPcs \cup {"settab", "emit", "post", "reply"} <=> req'[v].kind # "none"
          /\ req'[v].kind # "none" => req'[v].id # 0
          /\ wpc'[v] = "post" => req'[v].id \notin Executed \cup Waiting
          /\ wpc'[v] = "reply" /\ req'[v].kind \in Adds => req'[v].id \in Executed \cup Waiting
    BY <1>9, <2>7 DEF OrderInv
  <2>9. \A i \in DOMAIN executed : executed[i] \in 1 .. started'
    BY <1>0, <1>1, <2>2
  <2> QED BY <1>0, <2>1, <2>3, <2>4, <2>5, <2>6, <2>8, <2>9 DEF OrderInv, IsCall
<1>18. TabInv'
  BY <1>0, <1>8, <1>9, TabFrame DEF ReadPcs, LoopPcs, SolidPcs
<1> QED BY <1>10, <1>12, <1>13, <1>14, <1>15, <1>16, <1>17, <1>18
-----------------------------------------------------------------------------
(* The GUI thread.                                                          *)
\* The queue without the event at its head.
LEMMA QueueShorter ==
    ASSUME posted \in Seq(Event), posted # <<>>, posted' = Tail(posted), NEW n, n = Len(posted),
           NEW e, e = Head(posted)
    PROVE  /\ posted' \in Seq(Event) /\ n \in Nat \ {0} /\ e \in Event /\ e = posted[1]
           /\ DOMAIN posted = 1 .. n /\ DOMAIN posted' = 1 .. n - 1
           /\ \A k \in 1 .. n - 1 : posted'[k] = posted[k + 1]
           /\ \A k \in 1 .. n - 1 :
                 /\ IsCall(e) => WaitingBefore(k)' \cup {e.id} = WaitingBefore(k + 1)
                 /\ ~IsCall(e) => WaitingBefore(k)' = WaitingBefore(k + 1)
           /\ IsCall(e) => Waiting' \cup {e.id} = Waiting
           /\ ~IsCall(e) => Waiting' = Waiting
           /\ WaitingBefore(1) = {}
<1>1. n \in Nat \ {0} /\ DOMAIN posted = 1 .. n /\ e \in Event /\ e = posted[1]
  OBVIOUS
<1>2. posted' \in Seq(Event) /\ Len(posted') = n - 1 /\ \A k \in 1 .. n - 1 : posted'[k] = posted[k + 1]
  BY HeadTailProperties
<1>3. DOMAIN posted' = 1 .. n - 1
  BY <1>1, <1>2
<1>4. ASSUME NEW k \in 1 .. n
      PROVE  /\ IsCall(e) => {posted'[j].id : j \in {j \in 1 .. k - 1 : IsCall(posted'[j])}} \cup {e.id}
                            = {posted[j].id : j \in {j \in 1 .. k : IsCall(posted[j])}}
             /\ ~IsCall(e) => {posted'[j].id : j \in {j \in 1 .. k - 1 : IsCall(posted'[j])}}
                             = {posted[j].id : j \in {j \in 1 .. k : IsCall(posted[j])}}
  <2> DEFINE A == {posted'[j].id : j \in {j \in 1 .. k - 1 : IsCall(posted'[j])}}
             B == {posted[j].id : j \in {j \in 1 .. k : IsCall(posted[j])}}
  <2>1. \A j \in 1 .. k - 1 : posted'[j] = posted[j + 1] /\ j + 1 \in 1 .. k
    BY <1>1, <1>2
  <2>2. A \subseteq B
    BY <2>1 DEF IsCall
  <2>3. IsCall(e) => e.id \in B
    BY <1>1
  <2>4. ASSUME NEW j \in 1 .. k, IsCall(posted[j]) PROVE posted[j].id \in A \/ (IsCall(e) /\ posted[j].id = e.id)
    <3>1. CASE j = 1
      BY <1>1, <2>4, <3>1
    <3>2. CASE j # 1
      <4>1. j - 1 \in 1 .. k - 1 /\ posted'[j - 1] = posted[j]
        BY <1>1, <2>1, <3>2
      <4> QED BY <2>4, <4>1
    <3> QED BY <3>1, <3>2
  <2> QED BY <2>2, <2>3, <2>4
<1>5. ASSUME NEW k \in 1 .. n - 1
      PROVE  /\ IsCall(e) => WaitingBefore(k)' \cup {e.id} = WaitingBefore(k + 1)
             /\ ~IsCall(e) => WaitingBefore(k)' = WaitingBefore(k + 1)
  <2>1. k \in 1 .. n /\ (k + 1) - 1 = k
    BY <1>1
  <2>2. WaitingBefore(k)' = {posted'[j].id : j \in {j \in 1 .. k - 1 : IsCall(posted'[j])}}
    BY DEF WaitingBefore, IsCall
  <2>3. WaitingBefore(k + 1) = {posted[j].id : j \in {j \in 1 .. k : IsCall(posted[j])}}
    BY <2>1 DEF WaitingBefore
  <2> QED BY <1>4, <2>1, <2>2, <2>3
<1>6. (IsCall(e) => Waiting' \cup {e.id} = Waiting) /\ (~IsCall(e) => Waiting' = Waiting)
  <2>1. n \in 1 .. n
    BY <1>1
  <2>2. Waiting' = {posted'[j].id : j \in {j \in 1 .. n - 1 : IsCall(posted'[j])}}
    BY <1>3 DEF Waiting, IsCall
  <2>3. Waiting = {posted[j].id : j \in {j \in 1 .. n : IsCall(posted[j])}}
    BY <1>1 DEF Waiting
  <2> QED BY <1>4, <2>1, <2>2, <2>3
<1>7. WaitingBefore(1) = {}
  BY DEF WaitingBefore
<1> QED BY <1>1, <1>2, <1>3, <1>5, <1>6, <1>7

\* What is left of a sequence when its i-th element is taken out.
Without(s, i) == SubSeq(s, 1, i - 1) \o SubSeq(s, i + 1, Len(s))

\* Its length and its elements.
LEMMA WithoutOne ==
    ASSUME NEW S, NEW s \in Seq(S), NEW i \in 1 .. Len(s)
    PROVE  /\ Without(s, i) \in Seq(S) /\ Len(Without(s, i)) = Len(s) - 1
           /\ \A j \in 1 .. Len(s) - 1 : Without(s, i)[j] = IF j < i THEN s[j] ELSE s[j + 1]
<1> DEFINE a == SubSeq(s, 1, i - 1)
           b == SubSeq(s, i + 1, Len(s))
<1>1. a \in Seq(S) /\ Len(a) = i - 1 /\ \A j \in 1 .. i - 1 : a[j] = s[j]
  OBVIOUS
<1>2. b \in Seq(S) /\ Len(b) = Len(s) - i /\ \A j \in 1 .. Len(s) - i : b[j] = s[i + j]
  <2>1. \A j \in i + 1 .. Len(s) : s[j] \in S
    OBVIOUS
  <2>2. /\ b \in Seq(S) /\ Len(b) = IF i + 1 <= Len(s) THEN Len(s) - (i + 1) + 1 ELSE 0
        /\ \A j \in 1 .. Len(s) - (i + 1) + 1 : b[j] = s[(i + 1) + j - 1]
    BY <2>1, SubSeqProperties
  <2> HIDE DEF b
  <2>3. Len(b) = Len(s) - i
    <3>1. Len(s) \in Nat /\ i \in 1 .. Len(s)
      OBVIOUS
    <3>2. CASE i = Len(s)
      BY <2>2, <3>1, <3>2
    <3>3. CASE i < Len(s)
      BY <2>2, <3>1, <3>3
    <3> QED BY <3>1, <3>2, <3>3
  <2>4. ASSUME NEW j \in 1 .. Len(s) - i PROVE b[j] = s[i + j]
    <3>1. j \in 1 .. Len(s) - (i + 1) + 1 /\ (i + 1) + j - 1 = i + j
      OBVIOUS
    <3> QED BY <2>2, <3>1
  <2> QED BY <2>2, <2>3, <2>4
<1> HIDE DEF a, b
<1>3. /\ a \o b \in Seq(S) /\ Len(a \o b) = Len(s) - 1
      /\ \A j \in 1 .. Len(s) - 1 : (a \o b)[j] = IF j <= i - 1 THEN a[j] ELSE b[j - (i - 1)]
  <2>1. Len(a) + Len(b) = Len(s) - 1 /\ i \in 1 .. Len(s)
    BY <1>1, <1>2
  <2>2. /\ a \o b \in Seq(S) /\ Len(a \o b) = Len(a) + Len(b)
        /\ \A j \in 1 .. Len(a) + Len(b) :
              (a \o b)[j] = IF j <= Len(a) THEN a[j] ELSE b[j - Len(a)]
    BY <1>1, <1>2, ConcatProperties
  <2> QED BY <1>1, <2>1, <2>2
<1>4. \A j \in 1 .. Len(s) - 1 : (a \o b)[j] = IF j < i THEN s[j] ELSE s[j + 1]
  <2> SUFFICES ASSUME NEW j \in 1 .. Len(s) - 1
               PROVE  (a \o b)[j] = IF j < i THEN s[j] ELSE s[j + 1]
    OBVIOUS
  <2>1. CASE j < i
    BY <1>1, <1>3, <2>1
  <2>2. CASE ~(j < i)
    <3>1. j - (i - 1) \in 1 .. Len(s) - i /\ i + (j - (i - 1)) = j + 1
      BY <2>2
    <3>2. b[j - (i - 1)] = s[j + 1]
      BY <1>2, <3>1
    <3> QED BY <1>3, <2>2, <3>2
  <2> QED BY <2>1, <2>2
<1> QED BY <1>3, <1>4 DEF Without, a, b

\* What a slot of the window keeps, and tells the handlers that read it.
WindowEffect ==
    /\ WindowTyped' /\ DirtyTyped' /\ ShownIsReported'
    /\ \A w \in Workers : ~dirty'[w] =>
          /\ ~dirty[w]
          /\ "vars" \in Reads(w) => UNCHANGED <<keys, value>>
          /\ "plots" \in Reads(w) => UNCHANGED plots
          /\ "expr_3d" \in Reads(w) => UNCHANGED expr_3d

\* Who reads what is changed knows it.
LEMMA TouchEffect ==
    ASSUME DirtyTyped, NEW what, Touch(what)
    PROVE  DirtyTyped' /\ \A w \in Workers : ~dirty'[w] => ~dirty[w] /\ what \notin Reads(w)
<1>1. \A w \in Workers : dirty'[w] = (dirty[w] \/ what \in Reads(w))
  BY DEF Touch
<1>2. dirty' \in [Workers -> BOOLEAN]
  BY Zenon DEF Touch
<1> QED BY <1>1, <1>2 DEF DirtyTyped

\* keys() lists what value has, in whatever order.
LEMMA DefineEffect ==
    ASSUME IInv, NEW o \in Operation, Define(o)
    PROVE  WindowEffect
<1> USE DEF IInv
<1> DEFINE names == DOMAIN value \cup {o.var, Ans}
           n == Len(keys) + (IF o.var \in DOMAIN value THEN 0 ELSE 1)
                + (IF Ans \in DOMAIN value \cup {o.var} THEN 0 ELSE 1)
<1>1. /\ value' = [v \in names |-> IF v \in {o.var, Ans} THEN o.val ELSE value[v]]
      /\ Touch("vars") /\ UNCHANGED <<plots, expr_3d, t_model3d>>
  BY DEF Define, solidVars
<1>2. \/ names = DOMAIN value /\ UNCHANGED keys
      \/ \E order \in [1 .. n -> names] :
            /\ \A v \in names : \E i \in 1 .. n : order[i] = v
            /\ \A i, j \in 1 .. n : order[i] = order[j] => i = j
            /\ keys' = order
  BY Zenon DEF Define
<1>3. /\ o.var \in Names /\ o.val \in Values /\ Ans \in Names
      /\ names \subseteq Names
  BY DEF Operation, Names, WindowTyped
<1>4. Len(keys) \in Nat
  BY DEF WindowTyped
<1>5. n \in Nat
  <2> DEFINE a == IF o.var \in DOMAIN value THEN 0 ELSE 1
             b == IF Ans \in DOMAIN value \cup {o.var} THEN 0 ELSE 1
  <2>1. a \in Nat /\ b \in Nat
    OBVIOUS
  <2> HIDE DEF a, b
  <2>2. Len(keys) + a + b \in Nat
    BY <1>4, <2>1
  <2> QED BY <2>2 DEF a, b
<1> HIDE DEF n
<1>6. DOMAIN value' = names /\ value' \in [DOMAIN value' -> Values]
  <2>1. \A v \in names : (IF v \in {o.var, Ans} THEN o.val ELSE value[v]) \in Values
    BY <1>3 DEF WindowTyped
  <2> QED BY <1>1, <2>1
<1> HIDE DEF names
<1>7. /\ keys' \in Seq(Names) /\ names = {keys'[i] : i \in DOMAIN keys'}
      /\ \A i, j \in DOMAIN keys' : keys'[i] = keys'[j] => i = j
  <2>1. CASE names = DOMAIN value /\ UNCHANGED keys
    BY <2>1 DEF WindowTyped
  <2>2. CASE ~(names = DOMAIN value /\ UNCHANGED keys)
    <3>1. PICK order \in [1 .. n -> names] :
            /\ \A v \in names : \E i \in 1 .. n : order[i] = v
            /\ \A i, j \in 1 .. n : order[i] = order[j] => i = j
            /\ keys' = order
      BY <1>2, <2>2
    <3>2. order \in Seq(Names) /\ DOMAIN order = 1 .. n
      BY <1>3, <1>5
    <3> QED BY <3>1, <3>2
  <2> QED BY <2>1, <2>2
<1>8. WindowTyped'
  BY <1>1, <1>3, <1>6, <1>7 DEF WindowTyped
<1>9. ShownIsReported'
  BY <1>1 DEF ShownIsReported
<1> QED BY <1>1, <1>8, <1>9, TouchEffect DEF WindowEffect

\* The name goes with its value, and the other names stay in their order.
LEMMA RemoveEffect ==
    ASSUME IInv, NEW v, RemoveVariable(v)
    PROVE  WindowEffect
<1> USE DEF IInv
<1>1. /\ v \in DOMAIN value /\ value' = [u \in DOMAIN value \ {v} |-> value[u]]
      /\ Touch("vars") /\ UNCHANGED <<plots, expr_3d, t_model3d>>
  BY DEF RemoveVariable, solidVars
<1>2. PICK i \in DOMAIN keys :
        keys[i] = v /\ keys' = SubSeq(keys, 1, i - 1) \o SubSeq(keys, i + 1, Len(keys))
  BY DEF RemoveVariable
<1>3. /\ keys \in Seq(Names) /\ DOMAIN keys = 1 .. Len(keys) /\ Len(keys) \in Nat
      /\ DOMAIN value = {keys[j] : j \in DOMAIN keys}
      /\ \A j, k \in DOMAIN keys : keys[j] = keys[k] => j = k
  BY DEF WindowTyped
<1>4. /\ keys' \in Seq(Names) /\ Len(keys') = Len(keys) - 1
      /\ \A j \in 1 .. Len(keys) - 1 : keys'[j] = IF j < i THEN keys[j] ELSE keys[j + 1]
  <2>1. keys' = Without(keys, i) /\ i \in 1 .. Len(keys)
    BY <1>2, <1>3 DEF Without
  <2>2. keys \in Seq(Names)
    BY <1>3
  <2>3. /\ Without(keys, i) \in Seq(Names) /\ Len(Without(keys, i)) = Len(keys) - 1
        /\ \A j \in 1 .. Len(keys) - 1 :
              Without(keys, i)[j] = IF j < i THEN keys[j] ELSE keys[j + 1]
    BY ONLY <2>1, <2>2, WithoutOne
  <2> QED BY ONLY <2>1, <2>3
<1> DEFINE at(j) == IF j < i THEN j ELSE j + 1
<1>5. /\ DOMAIN keys' = 1 .. Len(keys) - 1
      /\ \A j \in DOMAIN keys' : keys'[j] = keys[at(j)] /\ at(j) \in DOMAIN keys /\ at(j) # i
  <2>1. DOMAIN keys' = 1 .. Len(keys) - 1
    BY <1>3, <1>4
  <2>2. ASSUME NEW j \in 1 .. Len(keys) - 1
        PROVE  keys'[j] = keys[at(j)] /\ at(j) \in 1 .. Len(keys) /\ at(j) # i
    BY <1>3, <1>4
  <2> QED BY <1>3, <2>1, <2>2
<1>6. \A j, k \in DOMAIN keys' : keys'[j] = keys'[k] => j = k
  <2>1. \A j, k \in DOMAIN keys' : at(j) = at(k) => j = k
    BY <1>3, <1>5
  <2> HIDE DEF at
  <2> QED BY <1>3, <1>5, <2>1
<1>7. DOMAIN value' = {keys'[j] : j \in DOMAIN keys'}
  <2>1. DOMAIN value' = DOMAIN value \ {v}
    BY <1>1
  <2>2. ASSUME NEW j \in DOMAIN keys' PROVE keys'[j] \in DOMAIN value \ {v}
    <3> HIDE DEF at
    <3> QED BY <1>2, <1>3, <1>5
  <2>3. ASSUME NEW u \in DOMAIN value \ {v} PROVE \E j \in DOMAIN keys' : keys'[j] = u
    <3>1. PICK j \in 1 .. Len(keys) : keys[j] = u
      BY <1>3
    <3>2. j # i
      BY <1>2, <3>1
    <3>3. CASE j < i
      <4>1. j \in 1 .. Len(keys) - 1
        BY <1>3, <3>3
      <4> QED BY <1>4, <1>5, <3>1, <3>3, <4>1
    <3>4. CASE j > i
      <4>1. j - 1 \in 1 .. Len(keys) - 1 /\ ~(j - 1 < i) /\ (j - 1) + 1 = j
        BY <1>3, <3>4
      <4> QED BY <1>4, <1>5, <3>1, <4>1
    <3> QED BY <1>3, <3>2, <3>3, <3>4
  <2> QED BY <2>1, <2>2, <2>3
<1>8. value' \in [DOMAIN value' -> Values] /\ DOMAIN value' \subseteq Names
  BY <1>1 DEF WindowTyped
<1>9. WindowTyped'
  BY <1>1, <1>4, <1>6, <1>7, <1>8 DEF WindowTyped
<1>10. ShownIsReported'
  BY <1>1 DEF ShownIsReported
<1> QED BY <1>1, <1>9, <1>10, TouchEffect DEF WindowEffect

\* A list of plots that is still one, whoever changed it.
LEMMA PlotsEffect ==
    ASSUME IInv, plots' \in Seq(Curves), Len(plots') <= MaxPlots, Touch("plots"),
           UNCHANGED <<varVars, solidVars>>
    PROVE  WindowEffect
<1> USE DEF IInv
<1>1. UNCHANGED <<keys, value, expr_3d, t_model3d>>
  BY DEF varVars, solidVars
<1>2. WindowTyped' /\ ShownIsReported'
  BY <1>1 DEF WindowTyped, ShownIsReported
<1> QED BY <1>1, <1>2, TouchEffect DEF WindowEffect

\* The list takes a plot at its end while there is room, or in place of one.
LEMMA AddPlotEffect ==
    ASSUME IInv, NEW c \in Curves,
           \/ Len(plots) < MaxPlots /\ plots' = Append(plots, c)
           \/ \E i \in DOMAIN plots : plots' = [plots EXCEPT ![i] = c]
           \/ UNCHANGED plots
    PROVE  plots' \in Seq(Curves) /\ Len(plots') <= MaxPlots
<1>1. plots \in Seq(Curves) /\ Len(plots) <= MaxPlots /\ MaxPlots \in Nat /\ Len(plots) \in Nat
  BY DEF IInv, WindowTyped
<1>2. CASE Len(plots) < MaxPlots /\ plots' = Append(plots, c)
  BY <1>1, <1>2, AppendProperties
<1>3. CASE \E i \in DOMAIN plots : plots' = [plots EXCEPT ![i] = c]
  BY <1>1, <1>3
<1> QED BY <1>1, <1>2, <1>3

\* What the 2D tab does to the list,
LEMMA ChangePlotsEffect ==
    ASSUME IInv, NEW c \in Curves, ChangePlots(c)
    PROVE  WindowEffect
<1>1. Touch("plots") /\ UNCHANGED <<varVars, solidVars>>
  BY DEF ChangePlots
<1>2. CASE \E i \in DOMAIN plots :
             plots' = SubSeq(plots, 1, i - 1) \o SubSeq(plots, i + 1, Len(plots))
  <2>1. PICK i \in DOMAIN plots : plots' = Without(plots, i)
    BY <1>2 DEF Without
  <2>2. plots \in Seq(Curves) /\ Len(plots) <= MaxPlots /\ MaxPlots \in Nat /\ i \in 1 .. Len(plots)
    BY DEF IInv, WindowTyped
  <2>3. Without(plots, i) \in Seq(Curves) /\ Len(Without(plots, i)) = Len(plots) - 1
    BY ONLY <2>2, WithoutOne
  <2>4. plots' \in Seq(Curves) /\ Len(plots') <= MaxPlots
    BY ONLY <2>1, <2>2, <2>3
  <2> QED BY <1>1, <2>4, PlotsEffect
<1>3. CASE ~\E i \in DOMAIN plots :
              plots' = SubSeq(plots, 1, i - 1) \o SubSeq(plots, i + 1, Len(plots))
  <2>1. \/ Len(plots) < MaxPlots /\ plots' = Append(plots, c)
        \/ \E i \in DOMAIN plots : plots' = [plots EXCEPT ![i] = c]
    BY <1>3 DEF ChangePlots
  <2> QED BY <1>1, <2>1, AddPlotEffect, PlotsEffect
<1> QED BY <1>2, <1>3

\* and what a request does to it.
LEMMA Add2DEffect ==
    ASSUME IInv, NEW c \in Curves, operate_add2d(c)
    PROVE  WindowEffect
<1>1. /\ Touch("plots") /\ UNCHANGED <<varVars, solidVars>>
      /\ \/ Len(plots) < MaxPlots /\ plots' = Append(plots, c)
         \/ \E i \in DOMAIN plots : plots' = [plots EXCEPT ![i] = c]
         \/ UNCHANGED plots
  BY DEF operate_add2d
<1> QED BY <1>1, AddPlotEffect, PlotsEffect

\* The text is kept exactly when the plot is made.
LEMMA Func3DEffect ==
    ASSUME IInv, NEW t \in Solids \cup Broken, new_func3d(t)
    PROVE  WindowEffect
<1> USE DEF IInv
<1>1. /\ t_model3d' = IF t \in Solids THEN [name |-> "func3d", text |-> t] ELSE t_model3d
      /\ expr_3d' = IF t \in Solids THEN t ELSE expr_3d
      /\ IF t \in Solids THEN Touch("expr_3d") ELSE UNCHANGED dirty
      /\ UNCHANGED <<keys, value, plots>>
  BY DEF new_func3d, varVars
<1>2. CASE t \in Solids
  <2>1. expr_3d' = t /\ t_model3d' = [name |-> "func3d", text |-> t] /\ Touch("expr_3d")
    BY <1>1, <1>2
  <2>2. WindowTyped' /\ ShownIsReported'
    BY <1>1, <1>2, <2>1 DEF WindowTyped, ShownIsReported
  <2> QED BY <1>1, <2>1, <2>2, TouchEffect DEF WindowEffect
<1>3. CASE t \notin Solids
  <2>1. UNCHANGED <<expr_3d, t_model3d, dirty, keys, value, plots>>
    BY <1>1, <1>3
  <2> QED BY <2>1 DEF WindowEffect, WindowTyped, DirtyTyped, ShownIsReported
<1> QED BY <1>2, <1>3

\* A step that leaves the window's objects alone.
LEMMA NoEffect ==
    ASSUME IInv, UNCHANGED <<window, dirty>>
    PROVE  WindowEffect
BY DEF IInv, WindowEffect, WindowTyped, DirtyTyped, ShownIsReported, window, varVars, solidVars

\* The plot of the console is shown under a name of its own.
LEMMA Add3DEffect ==
    ASSUME IInv, NEW t \in Solids, add3D(t)
    PROVE  WindowEffect
<1> USE DEF IInv
<1>1. /\ t_model3d' = [name |-> "func3d_console", text |-> t]
      /\ UNCHANGED <<keys, value, plots, expr_3d, dirty>>
  BY DEF add3D, varVars
<1>2. WindowTyped' /\ ShownIsReported' /\ DirtyTyped'
  BY <1>1 DEF WindowTyped, ShownIsReported, DirtyTyped
<1> QED BY <1>1, <1>2 DEF WindowEffect

\* The GUI thread moves the bar and the page at once; if a worker's change
\* is under way it knows that two of them overlap.
LEMMA IndexStep ==
    ASSUME IInv, NEW i \in TabsUsed \cup {2}, setCurrentIndex(i),
           UNCHANGED <<main, posted, wpc, req>>
    PROVE  BarTyped' /\ TabInv'
<1> USE DEF IInv
<1>1. CASE bar = i
  <2>1. UNCHANGED <<bar, shown, raced>>
    BY <1>1 DEF setCurrentIndex, tabVars
  <2> QED BY <2>1, TabFrame DEF BarTyped
<1>2. CASE bar # i
  <2>1. bar' = i /\ shown' = i /\ raced' = (raced \/ Outstanding)
    BY <1>2 DEF setCurrentIndex
  <2>2. Outstanding \in BOOLEAN
    BY DEF Outstanding
  <2>3. BarTyped'
    BY <2>1, <2>2 DEF BarTyped
  <2>4. TabInv'
    <3> SUFFICES ASSUME ~raced' PROVE TabInv'
      BY DEF TabInv
    <3>1. ~Outstanding /\ (\A w \in Workers : ~Emitting(w)')
      BY <2>1 DEF Outstanding, Emitting
    <3>2. \A k \in DOMAIN posted' : ~LastTab(k)'
      BY <3>1 DEF Outstanding, LastTab
    <3> QED BY <2>1, <3>1, <3>2 DEF TabInv
  <2> QED BY <2>3, <2>4
<1> QED BY <1>1, <1>2

\* An event of the GUI thread leaves the workers where they are.
LEMMA GuiFrame ==
    ASSUME IInv, Up, UNCHANGED <<fate, mainVars, wkVars, logVars>>,
           WindowEffect, BarTyped', TabInv', OrderInv',
           posted' \in Seq(Event), executed' \in Seq(Nat), user' \in 0 .. MaxUser,
           \A i \in DOMAIN posted' : Fits(posted'[i]) /\ posted'[i].id \in 0 .. started,
           main = "exec"
    PROVE  IInv'
<1> USE DEF IInv
<1>1. UNCHANGED <<fate, main, global_app, wpc, req, loc, started, acked, since>>
  BY DEF mainVars, wkVars, logVars
<1>2. WindowTyped' /\ DirtyTyped' /\ ShownIsReported'
  BY DEF WindowEffect
<1>3. MainTyped' /\ PcKinds' /\ WorkersTyped'
  BY <1>1 DEF MainTyped, PcKinds, WorkersTyped
<1>4. LogTyped'
  BY <1>1 DEF LogTyped, Fits
<1>5. LifeInv'
  BY <1>1 DEF LifeInv
<1>6. LoopInv'
  <2> SUFFICES ASSUME NEW w \in Workers PROVE LoopOK(w)'
    BY DEF LoopInv
  <2>1. LoopOK(w) /\ wpc'[w] = wpc[w] /\ req'[w] = req[w] /\ loc'[w] = loc[w]
    BY <1>1 DEF LoopInv
  <2>2. ~dirty'[w] => /\ ~dirty[w]
                      /\ "vars" \in Reads(w) => UNCHANGED <<keys, value>>
                      /\ "plots" \in Reads(w) => UNCHANGED plots
                      /\ "expr_3d" \in Reads(w) => UNCHANGED expr_3d
    BY DEF WindowEffect
  <2> QED BY <2>1, <2>2, LoopFrame
<1>7. CrashOnlyRaced'
  BY <1>1 DEF CrashOnlyRaced, Up
<1> QED BY <1>2, <1>3, <1>4, <1>5, <1>6, <1>7

\* What the user does leaves the queue alone.
LEMMA UserStepInv ==
    ASSUME IInv, UserStep
    PROVE  IInv'
<1> USE DEF IInv
<1>0. /\ Up /\ main = "exec" /\ user < MaxUser /\ user' = user + 1
      /\ UNCHANGED <<fate, mainVars, posted, wkVars, logVars, executed>>
      /\ UNCHANGED <<main, wpc, req, started, acked, since>>
  BY DEF UserStep, mainVars, wkVars, logVars
<1>1. user' \in 0 .. MaxUser
  BY <1>0 DEF LogTyped
<1>2. OrderInv'
  BY <1>0, OrderFrame DEF WorkersTyped
<1>3. WindowEffect /\ BarTyped' /\ TabInv'
  <2>1. ASSUME UNCHANGED tabVars PROVE BarTyped' /\ TabInv'
    <3>1. UNCHANGED <<bar, shown, raced>>
      BY <2>1 DEF tabVars
    <3> QED BY <1>0, <3>1, TabFrame DEF BarTyped
  <2>2. CASE \E o \in Operation : Define(o)
    BY <2>1, <2>2, DefineEffect DEF Define
  <2>3. CASE \E v \in Names : RemoveVariable(v)
    BY <2>1, <2>3, RemoveEffect DEF RemoveVariable
  <2>4. CASE \E c \in Curves : ChangePlots(c)
    BY <2>1, <2>4, ChangePlotsEffect DEF ChangePlots
  <2>5. CASE \E t \in Solids \cup Broken : new_func3d(t)
    BY <2>1, <2>5, Func3DEffect DEF new_func3d
  <2>6. CASE \E t \in Solids : add3D(t)
    BY <1>0, <2>6, Add3DEffect, IndexStep DEF add3D
  <2>7. CASE \E i \in TabsUsed : ClickTab(i)
    BY <1>0, <2>7, NoEffect, IndexStep DEF ClickTab
  <2> QED BY <2>2, <2>3, <2>4, <2>5, <2>6, <2>7 DEF UserStep
<1>4. /\ posted' \in Seq(Event) /\ executed' \in Seq(Nat)
      /\ \A i \in DOMAIN posted' : Fits(posted'[i]) /\ posted'[i].id \in 0 .. started
  BY <1>0 DEF LogTyped
<1> QED BY <1>0, <1>1, <1>2, <1>3, <1>4, GuiFrame

\* The call at the head of the queue is the next of the one sequence.
LEMMA DeliverStep ==
    ASSUME IInv, Deliver
    PROVE  IInv'
<1> USE DEF IInv
<1>1. PICK e : e = Head(posted)
  OBVIOUS
<1>2. PICK n : n = Len(posted)
  OBVIOUS
<1>0. /\ Up /\ main = "exec" /\ posted # <<>> /\ posted' = Tail(posted)
      /\ \/ e.kind = "calc" /\ Define(e.arg)
         \/ e.kind = "add2d" /\ operate_add2d(e.arg)
         \/ e.kind = "add3d" /\ new_func3d(e.arg)
         \/ e.kind = "tab" /\ ShowTab(e.arg)
      /\ executed' = IF e.kind = "tab" THEN executed ELSE Append(executed, e.id)
      /\ UNCHANGED <<fate, mainVars, wkVars, logVars, user>>
      /\ UNCHANGED <<main, wpc, req, started, acked, since>>
  BY <1>1 DEF Deliver, mainVars, wkVars, logVars
<1>3. /\ posted' \in Seq(Event) /\ n \in Nat \ {0} /\ e \in Event /\ e = posted[1]
      /\ DOMAIN posted = 1 .. n /\ DOMAIN posted' = 1 .. n - 1
      /\ \A k \in 1 .. n - 1 : posted'[k] = posted[k + 1]
      /\ \A k \in 1 .. n - 1 :
            /\ IsCall(e) => WaitingBefore(k)' \cup {e.id} = WaitingBefore(k + 1)
            /\ ~IsCall(e) => WaitingBefore(k)' = WaitingBefore(k + 1)
      /\ IsCall(e) => Waiting' \cup {e.id} = Waiting
      /\ ~IsCall(e) => Waiting' = Waiting
      /\ WaitingBefore(1) = {}
  <2>1. posted \in Seq(Event) /\ posted # <<>> /\ posted' = Tail(posted)
    BY <1>0 DEF LogTyped
  <2> QED BY ONLY <1>1, <1>2, <2>1, QueueShorter
<1>4. Fits(e) /\ e.id \in 0 .. started /\ 1 \in DOMAIN posted
  BY <1>3 DEF LogTyped
<1>5. \A k \in 1 .. n - 1 : k + 1 \in 1 .. n
  BY <1>3
<1>6. \A i \in DOMAIN posted' : Fits(posted'[i]) /\ posted'[i].id \in 0 .. started
  BY <1>3, <1>5 DEF LogTyped
<1>7. WindowEffect
  <2>1. CASE e.kind = "calc"
    BY <1>0, <1>4, <2>1, DefineEffect DEF Fits
  <2>2. CASE e.kind = "add2d"
    BY <1>0, <1>4, <2>2, Add2DEffect DEF Fits
  <2>3. CASE e.kind = "add3d"
    BY <1>0, <1>4, <2>3, Func3DEffect DEF Fits
  <2>4. CASE e.kind = "tab"
    BY <1>0, <2>4, NoEffect DEF ShowTab
  <2> QED BY <1>0, <2>1, <2>2, <2>3, <2>4
<1>8. /\ IsCall(e) => UNCHANGED <<bar, shown, raced>>
      /\ ~IsCall(e) => UNCHANGED <<bar, raced>> /\ shown' = e.arg /\ e.arg \in TabsUsed /\ e.kind = "tab"
  BY <1>0, <1>4 DEF IsCall, Fits, Define, operate_add2d, new_func3d, ShowTab, tabVars
<1>9. BarTyped'
  BY <1>8 DEF BarTyped
<1>10. IsCall(e) => e.id \in 1 .. started /\ e.id \notin Executed /\ since[e.id] \subseteq Executed
  BY <1>3, <1>4 DEF OrderInv
<1>11. executed' \in Seq(Nat) /\ (\A i \in DOMAIN executed' : executed'[i] \in 1 .. started)
       /\ ExecutedInOrder' /\ (IsCall(e) => Executed' = Executed \cup {e.id})
       /\ (~IsCall(e) => Executed' = Executed)
  <2>1. CASE ~IsCall(e)
    <3>1. executed' = executed
      BY <1>0, <2>1 DEF IsCall
    <3>2. since' = since /\ started' = started
      BY <1>0
    <3> QED BY <2>1, <3>1, <3>2 DEF OrderInv, ExecutedInOrder, Executed, LogTyped
  <2>2. CASE IsCall(e)
    <3>1. executed' = Append(executed, e.id) /\ e.id \in Nat /\ executed \in Seq(Nat)
      BY <1>0, <1>10, <2>2 DEF IsCall, LogTyped
    <3>2. PICK m : m = Len(executed)
      OBVIOUS
    <3>3. /\ m \in Nat /\ DOMAIN executed = 1 .. m /\ executed' \in Seq(Nat)
          /\ DOMAIN executed' = 1 .. m + 1 /\ executed'[m + 1] = e.id
          /\ \A i \in 1 .. m : executed'[i] = executed[i]
      BY <3>1, <3>2, AppendProperties
    <3>4. Executed = {executed[i] : i \in 1 .. m}
      BY <3>3 DEF Executed
    <3>5. Executed' = Executed \cup {e.id}
      <4>1. Executed' = {executed'[i] : i \in 1 .. m + 1}
        BY <3>3 DEF Executed
      <4>2. 1 .. m + 1 = (1 .. m) \cup {m + 1}
        BY <3>3
      <4> QED BY <3>3, <3>4, <4>1, <4>2
    <3>6. ASSUME NEW i \in 1 .. m + 1
          PROVE  /\ since[executed'[i]] \subseteq {executed'[j] : j \in 1 .. i - 1}
                 /\ executed'[i] \notin {executed'[j] : j \in 1 .. i - 1}
                 /\ executed'[i] \in 1 .. started
      <4>1. \A j \in 1 .. i - 1 : executed'[j] = executed[j]
        BY <3>3
      <4>2. {executed'[j] : j \in 1 .. i - 1} = {executed[j] : j \in 1 .. i - 1}
        BY <4>1
      <4>3. CASE i = m + 1
        <5>1. {executed[j] : j \in 1 .. i - 1} = Executed
          BY <3>3, <3>4, <4>3
        <5> QED BY <1>10, <2>2, <3>3, <4>2, <4>3, <5>1
      <4>4. CASE i \in 1 .. m
        <5>1. executed'[i] = executed[i] /\ i \in DOMAIN executed
          BY <3>3, <4>4
        <5> QED BY <4>2, <5>1 DEF OrderInv, ExecutedInOrder
      <4> QED BY <3>3, <4>3, <4>4
    <3>7. ExecutedInOrder'
      <4>1. since' = since
        BY <1>0
      <4> QED BY ONLY <3>3, <3>6, <4>1 DEF ExecutedInOrder
    <3> QED BY <2>2, <3>3, <3>5, <3>6, <3>7
  <2> QED BY <2>1, <2>2
<1>12. Executed' \cup Waiting' = Executed \cup Waiting
  BY <1>3, <1>11
<1>13. \A k \in 1 .. n - 1 : Executed' \cup WaitingBefore(k)' = Executed \cup WaitingBefore(k + 1)
  BY <1>3, <1>11
<1>14. OrderInv'
  <2>1. \A k \in DOMAIN posted' : IsCall(posted[k])' =>
          /\ posted'[k].id \in 1 .. started
          /\ posted'[k].id \notin Executed' \cup WaitingBefore(k)'
          /\ since[posted'[k].id] \subseteq Executed' \cup WaitingBefore(k)'
    <3> SUFFICES ASSUME NEW k \in 1 .. n - 1, IsCall(posted'[k])
                 PROVE  /\ posted'[k].id \in 1 .. started
                        /\ posted'[k].id \notin Executed' \cup WaitingBefore(k)'
                        /\ since[posted'[k].id] \subseteq Executed' \cup WaitingBefore(k)'
      BY <1>3 DEF IsCall
    <3>1. posted'[k] = posted[k + 1] /\ k + 1 \in DOMAIN posted
      BY <1>3, <1>5
    <3>2. /\ posted[k + 1].id \in 1 .. started
          /\ posted[k + 1].id \notin Executed \cup WaitingBefore(k + 1)
          /\ since[posted[k + 1].id] \subseteq Executed \cup WaitingBefore(k + 1)
      BY <3>1 DEF OrderInv
    <3> QED BY <1>13, <3>1, <3>2
  <2>2. acked \subseteq Executed' \cup Waiting'
    BY <1>0, <1>12 DEF OrderInv
  <2>3. \A w \in Workers :
          /\ wpc[w] = "post" => req[w].id \notin Executed' \cup Waiting'
          /\ wpc[w] = "reply" /\ req[w].kind \in Adds => req[w].id \in Executed' \cup Waiting'
    BY <1>12 DEF OrderInv
  <2> QED BY <1>0, <1>11, <2>1, <2>2, <2>3 DEF OrderInv
<1>15. TabInv'
  <2> SUFFICES ASSUME ~raced PROVE TabInv'
    BY <1>8 DEF TabInv
  <2>1. \A w \in Workers : Emitting(w)' <=> Emitting(w)
    BY <1>0 DEF Emitting
  <2>2. UNCHANGED <<bar, req, main>> /\ main # "end"
    BY <1>0, <1>8
  <2>3. /\ \A v, w \in Workers : Emitting(v) /\ Emitting(w) => v = w
        /\ \A w \in Workers : Emitting(w) => req[w].arg = bar
        /\ (\A w \in Workers : ~Emitting(w)) =>
              \A i \in DOMAIN posted : LastTab(i) => posted[i].arg = bar
        /\ ~Outstanding => bar = shown
    BY <2>2 DEF TabInv
  <2>4. ASSUME NEW i \in DOMAIN posted', LastTab(i)'
        PROVE  i + 1 \in DOMAIN posted /\ LastTab(i + 1) /\ posted'[i] = posted[i + 1]
    <3>1. i \in 1 .. n - 1 /\ i + 1 \in 1 .. n /\ posted'[i] = posted[i + 1]
      BY <1>3, <1>5
    <3>2. ASSUME NEW k \in DOMAIN posted, k > i + 1 PROVE posted[k].kind # "tab"
      <4>1. k - 1 \in 1 .. n - 1 /\ k - 1 > i /\ (k - 1) + 1 = k
        BY <1>3, <3>1, <3>2
      <4> QED BY <1>3, <2>4, <4>1 DEF LastTab
    <3> QED BY <1>3, <2>4, <3>1, <3>2 DEF LastTab
  <2>5. ASSUME ~Outstanding' PROVE bar' = shown'
    <3>1. (\A w \in Workers : ~Emitting(w)) /\ (\A i \in DOMAIN posted' : posted'[i].kind # "tab")
      BY <2>1, <2>5 DEF Outstanding, Emitting
    <3>2. ASSUME NEW k \in DOMAIN posted, k # 1 PROVE posted[k].kind # "tab"
      <4>1. k - 1 \in 1 .. n - 1 /\ (k - 1) + 1 = k
        BY <1>3, <3>2
      <4> QED BY <1>3, <3>1, <4>1
    <3>3. CASE IsCall(e)
      <4>1. ~Outstanding
        BY <1>3, <3>1, <3>2, <3>3 DEF Outstanding, Emitting, IsCall
      <4> QED BY <1>8, <2>3, <3>3, <4>1
    <3>4. CASE ~IsCall(e)
      <4>1. LastTab(1)
        BY <1>3, <1>4, <1>8, <3>2, <3>4 DEF LastTab
      <4> QED BY <1>3, <1>4, <1>8, <2>3, <3>1, <3>4, <4>1
    <3> QED BY <3>3, <3>4
  <2> QED BY <2>1, <2>2, <2>3, <2>4, <2>5 DEF TabInv
<1>16. user' \in 0 .. MaxUser
  BY <1>0 DEF LogTyped
<1> QED BY <1>0, <1>6, <1>7, <1>9, <1>11, <1>14, <1>15, <1>16, <1>3, GuiFrame
-----------------------------------------------------------------------------
(* The theorems.                                                            *)

\* Every step keeps the invariant.
LEMMA Inductive == IInv /\ [Next]_vars => IInv'
<1> SUFFICES ASSUME IInv, [Next]_vars PROVE IInv'
  OBVIOUS
<1>1. CASE MainStep \/ Quit
  BY <1>1, MainStepInv, StopStep DEF MainStep
<1>2. CASE Deliver
  BY <1>2, DeliverStep
<1>3. CASE UserStep
  BY <1>3, UserStepInv
<1>4. ASSUME NEW w \in Workers, NEW r \in Request, Handle(w, r) PROVE IInv'
  BY <1>4, HandleStep
<1>5. ASSUME NEW w \in Workers, WorkerStep(w) PROVE IInv'
  <2>1. CASE Leave(w)
    BY <2>1, LeaveStep
  <2>2. CASE Check(w)
    BY <2>2, CheckStep
  <2>3. CASE Key(w)
    BY <2>3, KeyStep
  <2>4. CASE Value(w)
    BY <2>4, ValueStep
  <2>5. CASE Name(w)
    BY <2>5, NameStep
  <2>6. CASE PlotOf(w)
    BY <2>6, PlotStep
  <2>7. CASE Expr3D(w)
    BY <2>7, SolidStep
  <2>8. CASE SetTab(w)
    BY <2>8, SetTabStep
  <2>9. CASE Emit(w)
    BY <2>9, EmitStep
  <2>10. CASE Post(w)
    BY <2>10, PostStep
  <2>11. CASE Reply(w)
    BY <2>11, ReplyStep
  <2> QED BY <1>5, <2>1, <2>2, <2>3, <2>4, <2>5, <2>6, <2>7, <2>8, <2>9, <2>10, <2>11 DEF WorkerStep
<1>6. ASSUME NEW w \in Workers, Tear(w) PROVE IInv'
  BY <1>6, TearStep
<1>7. CASE UNCHANGED vars
  <2>1. /\ UNCHANGED <<fate, main, global_app, posted, keys, value, plots, expr_3d, t_model3d, bar, shown,
                       raced, wpc, req, loc, dirty, started, acked, since, executed, user>>
    BY <1>7 DEF vars, mainVars, varVars, solidVars, tabVars, wkVars, logVars
  <2>2. UNCHANGED <<Executed, Waiting>> /\ \A k : WaitingBefore(k)' = WaitingBefore(k)
    BY <2>1 DEF Executed, Waiting, WaitingBefore
  <2>3. (MainTyped /\ WindowTyped /\ BarTyped /\ WorkersTyped /\ DirtyTyped /\ LogTyped)'
    BY <2>1 DEF IInv, MainTyped, WindowTyped, BarTyped, WorkersTyped, DirtyTyped, LogTyped
  <2>4. (PcKinds /\ LifeInv /\ ShownIsReported /\ CrashOnlyRaced)'
    BY <2>1 DEF IInv, PcKinds, LifeInv, ShownIsReported, CrashOnlyRaced
  <2>5. LoopInv'
    BY <2>1, LoopFrame DEF IInv, LoopInv
  <2>6. OrderInv' /\ TabInv'
    BY <2>1, OrderFrame, TabFrame DEF IInv, WorkersTyped
  <2> QED BY <2>3, <2>4, <2>5, <2>6 DEF IInv
<1> QED BY <1>1, <1>2, <1>3, <1>4, <1>5, <1>6, <1>7 DEF Next

\* The invariant holds throughout.
THEOREM Invariance == Spec => []IInv
<1> QED BY InitIInv, Inductive, PTL DEF Spec

\* Every variable stays in its type, and keys() lists each variable once,
\* however many threads read while the GUI thread writes.
THEOREM TypeCorrect == Spec => []TypeOK
<1>1. IInv => TypeOK
  <2> SUFFICES ASSUME IInv PROVE TypeOK
    OBVIOUS
  <2>1. \A i \in DOMAIN posted :
          posted[i].kind \in Adds \cup {"tab"} /\ posted[i].id \in 0 .. started
    <3> SUFFICES ASSUME NEW i \in DOMAIN posted
                 PROVE  posted[i].kind \in Adds \cup {"tab"} /\ posted[i].id \in 0 .. started
      OBVIOUS
    <3>1. posted \in Seq(Event) /\ posted[i].id \in 0 .. started
      BY DEF IInv, LogTyped
    <3>2. posted[i] \in Event
      BY <3>1
    <3> QED BY <3>1, <3>2 DEF Event
  <2> QED BY <2>1 DEF IInv, TypeOK, MainTyped, WindowTyped, BarTyped, DirtyTyped, LogTyped
<1> QED BY <1>1, Invariance, PTL

\* A handler runs only while global_app points to the window, with any
\* number of workers and wherever each of them is when exec() returns.
THEOREM WindowOutlives == Spec => []WindowAlive
<1>1. IInv => WindowAlive
  BY DEF IInv, LifeInv, MainTyped, WindowAlive
<1> QED BY <1>1, Invariance, PTL

\* A read of the window fails only if the GUI thread changed what is read.
THEOREM OnlyRacesCrash == Spec => []CrashOnlyRaced
<1>1. IInv => CrashOnlyRaced
  BY DEF IInv
<1> QED BY <1>1, Invariance, PTL

\* The loops of /vars and /func/2d and the reads of /func/3d put together
\* exactly the window's state, if it holds still while they run.
THEOREM ReadsAnswer == Spec => []AnswerExact
<1>1. IInv => AnswerExact
  <2> SUFFICES ASSUME IInv, NEW w \in Workers, wpc[w] = "reply", ~dirty[w]
               PROVE  /\ req[w].kind = "vars" => loc[w].answer = <<Defined>>
                      /\ req[w].kind = "func2d" =>
                            loc[w].answer = [i \in DOMAIN plots |-> [expr |-> plots[i], vars |-> Defined]]
                      /\ req[w].kind = "func3d" =>
                            loc[w].answer = IF expr_3d = NoText THEN <<NoText>>
                                            ELSE [i \in 1 .. 3 + req[w].arg |-> expr_3d]
    BY DEF AnswerExact, Defined
  <2>1. Answered(w)
    BY DEF IInv, LoopInv, LoopOK
  <2>2. Facts(Len(plots)) = [i \in DOMAIN plots |-> [expr |-> plots[i], vars |-> Defined]]
    BY DEF Facts, IInv, WindowTyped
  <2> QED BY <2>1, <2>2 DEF Answered, Same
<1> QED BY <1>1, Invariance, PTL

\* Calls are executed once each, and after all that were answered before
\* their requests came, for any number of workers and requests.
THEOREM CallsInOrder == Spec => []ExecutedInOrder
<1>1. IInv => ExecutedInOrder
  BY DEF IInv, OrderInv
<1> QED BY <1>1, Invariance, PTL

\* The bar and the page agree when nothing is under way, unless a worker's
\* change of the tab overlapped another.
THEOREM TabsSettle == Spec => []TabsAgree
<1>1. IInv => TabsAgree
  BY DEF IInv, TabInv, TabsAgree
<1> QED BY <1>1, Invariance, PTL

\* /func/3d speaks of the 3D tab's plot on show, whatever was tried since.
THEOREM ShownPlotReported == Spec => []ShownIsReported
<1>1. IInv => ShownIsReported
  BY DEF IInv
<1> QED BY <1>1, Invariance, PTL
=============================================================================
