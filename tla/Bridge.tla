------------------------------- MODULE Bridge -------------------------------
(***************************************************************************)
(* The endpoints of src/src/main.cpp between the HTTP server's workers and *)
(* the GUI thread of src/src/kalgebra.cpp.  A worker handles one request   *)
(* at a time: /add/calc, /add/2d and /add/3d post a call to the GUI        *)
(* thread's event queue and answer OK; /vars, /func/2d, /func/3d and /tab  *)
(* read and change the window's own objects on the worker.  One step of a  *)
(* worker is one such access; one step of the GUI thread is one event.     *)
(***************************************************************************)
EXTENDS Integers, Sequences

CONSTANTS
    Workers,        \* threads of the server
    Vars,           \* names an operation can define
    Ans,            \* the variable "ans"
    Values,         \* values of variables
    Curves,         \* 2D plots
    Solids,         \* texts that are 3D plots
    Broken,         \* texts that are none
    NoText,         \* the empty string
    TabsUsed,       \* tabs asked for
    PointReads,     \* reads of expr_3d that the points of a request take
    MaxPlots,       \* bound: plots in the 2D list
    MaxRequests,    \* bound: requests
    MaxUser         \* bound: events of the user

Names == Vars \cup {Ans}

ASSUME BoundsAssumption == {MaxPlots, MaxRequests, MaxUser} \subseteq Nat
ASSUME ReadsAssumption == PointReads \subseteq Nat
ASSUME TabsAssumption == TabsUsed \subseteq 0 .. 3
ASSUME TextsAssumption == NoText \notin Solids /\ Solids \cap Broken = {}

VARIABLES
    fate,           \* "up" or "crashed"
    main,           \* where main() is: see MainStep
    global_app,     \* whether the pointer is set
    posted,         \* the GUI thread's queue of posted events
    keys, value,    \* Analitza::Variables: keys() in their order, value()
    plots,          \* b_funcsModel->m_items
    expr_3d, t_model3d,     \* KAlgebra::expr_3d; name and text of the 3D plot
    bar, shown,     \* m_tabs: index of its tab bar, page on show
    wpc, req, loc,  \* workers: pc, request, locals of the handler
    dirty,          \* history: what the request reads changed under it
    raced,          \* history: two changes of the tab overlapped
    started, acked, executed, since,    \* history: requests, see Handle
    user            \* events of the user so far

mainVars == <<main, global_app>>
varVars == <<keys, value>>
solidVars == <<expr_3d, t_model3d>>
tabVars == <<bar, shown, raced>>
wkVars == <<wpc, req, loc>>
logVars == <<started, acked, since>>
vars == <<fate, mainVars, posted, varVars, plots, solidVars, tabVars, wkVars,
          dirty, logVars, executed, user>>
window == <<varVars, plots, solidVars>>

Up == fate = "up"

Adds == {"calc", "add2d", "add3d"}

\* An operation that succeeds sets one variable, and ans.
Operation == [var : Names, val : Values]

Request ==
    [kind : {"vars", "func2d"}, arg : {NoText}] \cup [kind : {"func3d"}, arg : PointReads]
    \cup [kind : {"tab"}, arg : TabsUsed] \cup [kind : {"calc"}, arg : Operation]
    \cup [kind : {"add2d"}, arg : Curves] \cup [kind : {"add3d"}, arg : Solids \cup Broken]

(* The locals of a handler: of the loop over the variables the index, the   *)
(* key looked up, its value and what was copied; of the loop over the plots *)
(* the item, its expression and how many there are; and the answer.         *)
NoLocals == [idx |-> 1, key |-> NoText, val |-> NoText, copied |-> {},
             item |-> 1, expr |-> NoText, end |-> 0, answer |-> <<>>]

NoRequest == [kind |-> "none", arg |-> NoText, id |-> 0]

\* What the request at work reads.
Reads(w) ==
    CASE req[w].kind = "vars" -> {"vars"}
      [] req[w].kind = "func2d" -> {"vars", "plots"}
      [] req[w].kind = "func3d" -> {"expr_3d"}
      [] OTHER -> {}

Touch(what) == dirty' = [w \in Workers |-> dirty[w] \/ what \in Reads(w)]
-----------------------------------------------------------------------------
(* main(): "window" the window is built, "server" global_app is set,        *)
(* "exec" the server runs and so does the event loop, "stop" exec() has     *)
(* returned, "end" the window is destroyed, with the events posted to it.   *)
MainUnchanged ==
    UNCHANGED <<fate, window, tabVars, req, loc, dirty, logVars, executed, user>>

SetApp ==
    /\ Up /\ main = "window"
    /\ main' = "server" /\ global_app' = TRUE
    /\ MainUnchanged /\ UNCHANGED <<posted, wpc>>

Start ==
    /\ Up /\ main = "server"
    /\ main' = "exec" /\ wpc' = [w \in Workers |-> "idle"]
    /\ MainUnchanged /\ UNCHANGED <<global_app, posted>>

\* The last window is closed: exec() returns.
Quit ==
    /\ Up /\ main = "exec"
    /\ main' = "stop"
    /\ MainUnchanged /\ UNCHANGED <<global_app, posted, wpc>>

\* Mutant: main does not wait for the workers.
StopNoJoin ==
    /\ Up /\ main = "stop"
    /\ main' = "end" /\ posted' = <<>>
    /\ MainUnchanged /\ UNCHANGED <<global_app, wpc>>

\* server.Stop() joins the workers; then the window is destroyed.
Stop ==
    /\ Up /\ main = "stop"
    /\ \A w \in Workers : wpc[w] = "done"
    /\ main' = "end" /\ posted' = <<>>
    /\ MainUnchanged /\ UNCHANGED <<global_app, wpc>>

MainStep == SetApp \/ Start \/ Stop
-----------------------------------------------------------------------------
(* Handlers, on a worker.                                                   *)
At(w, pc) == Up /\ wpc[w] = pc

Goto(w, pc) == wpc' = [wpc EXCEPT ![w] = pc]

First == [vars |-> "check", func2d |-> "plot", func3d |-> "expr", tab |-> "settab",
          calc |-> "post", add2d |-> "post", add3d |-> "post"]

\* A request arrives.  since: the calls acknowledged before it came.
Handle(w, r) ==
    /\ At(w, "idle") /\ started < MaxRequests
    /\ started' = started + 1
    /\ since' = Append(since, acked)
    /\ req' = [req EXCEPT ![w] = [kind |-> r.kind, arg |-> r.arg, id |-> started + 1]]
    /\ loc' = [loc EXCEPT ![w] = [NoLocals EXCEPT !.end = Len(plots)]]
    /\ dirty' = [dirty EXCEPT ![w] = FALSE]
    /\ Goto(w, First[r.kind])
    /\ UNCHANGED <<fate, mainVars, posted, window, tabVars, acked, executed, user>>

\* A worker leaves its loop once Stop has cleared the flag.
Leave(w) ==
    /\ At(w, "idle") /\ main = "stop"
    /\ Goto(w, "done")
    /\ UNCHANGED <<fate, mainVars, posted, window, tabVars, req, loc, dirty,
                   logVars, executed, user>>

Reading ==
    UNCHANGED <<mainVars, posted, window, tabVars, req, dirty, logVars, executed, user>>

\* An index out of range or a null pointer ends the process.
Crash == fate' = "crashed" /\ UNCHANGED <<wpc, loc>>

\* The variables are copied: /vars is done, /func/2d goes to the next plot.
Copied(w) ==
    LET l == loc[w] IN
    IF req[w].kind = "vars"
    THEN loc' = [loc EXCEPT ![w].answer = <<l.copied>>] /\ Goto(w, "reply")
    ELSE /\ loc' = [loc EXCEPT ![w] =
                [NoLocals EXCEPT !.item = l.item + 1, !.end = l.end,
                    !.answer = Append(l.answer, [expr |-> l.expr, vars |-> l.copied])]]
         /\ Goto(w, "plot")

\* Mutant: the loop runs once too often.
CheckPast(w) ==
    /\ At(w, "check") /\ Reading /\ UNCHANGED fate
    /\ IF loc[w].idx <= Len(keys) + 1 THEN Goto(w, "key") /\ UNCHANGED loc ELSE Copied(w)

\* The loop over vs->keys() of both handlers: the length,
Check(w) ==
    /\ At(w, "check") /\ Reading /\ UNCHANGED fate
    /\ IF loc[w].idx <= Len(keys) THEN Goto(w, "key") /\ UNCHANGED loc ELSE Copied(w)

\* the key whose value is asked for,
Key(w) ==
    /\ At(w, "key") /\ Reading
    /\ IF loc[w].idx \in DOMAIN keys
       THEN /\ loc' = [loc EXCEPT ![w].key = keys[loc[w].idx]]
            /\ Goto(w, "value") /\ UNCHANGED fate
       ELSE Crash

\* its value,
Value(w) ==
    /\ At(w, "value") /\ Reading
    /\ IF loc[w].key \in DOMAIN value
       THEN /\ loc' = [loc EXCEPT ![w].val = value[loc[w].key]]
            /\ Goto(w, "name") /\ UNCHANGED fate
       ELSE Crash

\* Mutant: every value goes to the first key.
NameFirst(w) ==
    LET l == loc[w] IN
    /\ At(w, "name") /\ Reading
    /\ IF l.idx \in DOMAIN keys
       THEN /\ loc' = [loc EXCEPT ![w].copied =
                  {p \in l.copied : p[1] # keys[1]} \cup {<<keys[1], l.val>>},
                  ![w].idx = l.idx + 1, ![w].key = NoText, ![w].val = NoText]
            /\ Goto(w, "check") /\ UNCHANGED fate
       ELSE Crash

\* and the key again, under which the value is stored.
Name(w) ==
    LET l == loc[w] IN
    /\ At(w, "name") /\ Reading
    /\ IF l.idx \in DOMAIN keys
       THEN /\ loc' = [loc EXCEPT ![w].copied =
                  {p \in l.copied : p[1] # keys[l.idx]} \cup {<<keys[l.idx], l.val>>},
                  ![w].idx = l.idx + 1, ![w].key = NoText, ![w].val = NoText]
            /\ Goto(w, "check") /\ UNCHANGED fate
       ELSE Crash

\* The loop over m_items of /func/2d, whose end was taken at its start.
PlotOf(w) ==
    LET l == loc[w] IN
    /\ At(w, "plot") /\ Reading
    /\ IF l.item > l.end THEN Goto(w, "reply") /\ UNCHANGED <<fate, loc>>
       ELSE IF l.item \in DOMAIN plots
            THEN /\ loc' = [loc EXCEPT ![w].expr = plots[l.item]]
                 /\ Goto(w, "check") /\ UNCHANGED fate
            ELSE Crash

\* /func/3d reads expr_3d for "expr", for its size, for "->", for the function
\* to evaluate, and two or three times for each point, for its coordinates.
Expr3D(w) ==
    LET Read == loc' = [loc EXCEPT ![w].answer = Append(@, expr_3d)]
        More == Len(loc[w].answer) < 3 + req[w].arg IN
    /\ Reading /\ UNCHANGED fate
    /\ \/ At(w, "expr") /\ Read /\ Goto(w, "size")
       \/ At(w, "size") /\ UNCHANGED loc /\ Goto(w, IF expr_3d = NoText THEN "reply" ELSE "eqn")
       \/ At(w, "eqn") /\ Read /\ Goto(w, "fun")
       \/ At(w, "fun") /\ Read /\ Goto(w, "args")
       \/ At(w, "args") /\ More /\ Read /\ Goto(w, "args")
       \/ At(w, "args") /\ ~More /\ UNCHANGED loc /\ Goto(w, "reply")

\* A read in a loop over an object that another thread has changed.
Tear(w) ==
    /\ Up /\ dirty[w]
    /\ wpc[w] \in {"check", "key", "value", "name", "plot", "expr", "size", "eqn", "fun", "args"}
    /\ Reading /\ Crash

\* Two changes of the tab overlap: the bar is at one while the page of the
\* other is still to be shown.
Outstanding ==
    \/ \E w \in Workers : wpc[w] = "emit"
    \/ \E i \in DOMAIN posted : posted[i].kind = "tab"

\* m_tabs->setCurrentIndex on a worker: the bar's index changes here,
SetTab(w) ==
    /\ At(w, "settab")
    /\ bar' = req[w].arg
    /\ raced' = (raced \/ (bar # req[w].arg /\ \E v \in Workers : wpc[v] = "emit"))
    /\ Goto(w, IF bar = req[w].arg THEN "reply" ELSE "emit")
    /\ UNCHANGED <<fate, mainVars, posted, window, shown, req, loc, dirty, logVars,
                   executed, user>>

Posts == UNCHANGED <<fate, mainVars, window, tabVars, req, loc, dirty, logVars,
                     executed, user>>

\* Mutant: the page is not told.
EmitNothing(w) == At(w, "emit") /\ Goto(w, "reply") /\ Posts /\ UNCHANGED posted

\* the page, which lives in the GUI thread, gets the signal through its queue.
Emit(w) ==
    /\ At(w, "emit")
    /\ posted' = Append(posted, [kind |-> "tab", arg |-> req[w].arg, id |-> 0])
    /\ Goto(w, "reply") /\ Posts

\* Mutant: invokeMethod finds no such slot and the answer is OK all the same.
PostNothing(w) == At(w, "post") /\ Goto(w, "reply") /\ Posts /\ UNCHANGED posted

\* QMetaObject::invokeMethod(..., Qt::QueuedConnection, ...).
Post(w) ==
    /\ At(w, "post")
    /\ posted' = Append(posted, req[w])
    /\ Goto(w, "reply") /\ Posts

Executed == {executed[i] : i \in DOMAIN executed}

Forget(w) ==
    /\ Goto(w, "idle")
    /\ req' = [req EXCEPT ![w] = NoRequest]
    /\ loc' = [loc EXCEPT ![w] = NoLocals]
    /\ dirty' = [dirty EXCEPT ![w] = FALSE]

\* Mutant: Qt::BlockingQueuedConnection.
ReplyBlocking(w) ==
    /\ At(w, "reply")
    /\ req[w].kind \in Adds => req[w].id \in Executed
    /\ acked' = IF req[w].kind \in Adds THEN acked \cup {req[w].id} ELSE acked
    /\ Forget(w)
    /\ UNCHANGED <<fate, mainVars, posted, window, tabVars, started, since,
                   executed, user>>

\* The handler returns its response.
Reply(w) ==
    /\ At(w, "reply")
    /\ acked' = IF req[w].kind \in Adds THEN acked \cup {req[w].id} ELSE acked
    /\ Forget(w)
    /\ UNCHANGED <<fate, mainVars, posted, window, tabVars, started, since,
                   executed, user>>

WorkerStep(w) ==
    \/ Leave(w) \/ Check(w) \/ Key(w) \/ Value(w) \/ Name(w) \/ PlotOf(w) \/ Expr3D(w)
    \/ SetTab(w) \/ Emit(w) \/ Post(w) \/ Reply(w)
-----------------------------------------------------------------------------
(* The GUI thread: slots and events, each run to its end.                   *)
\* insertVariable and modify: a new name may land anywhere in keys().
Define(o) ==
    LET names == DOMAIN value \cup {o.var, Ans}
        n == Len(keys) + (IF o.var \in DOMAIN value THEN 0 ELSE 1)
             + (IF Ans \in DOMAIN value \cup {o.var} THEN 0 ELSE 1) IN
    /\ value' = [v \in names |-> IF v \in {o.var, Ans} THEN o.val ELSE value[v]]
    /\ IF names = DOMAIN value THEN UNCHANGED keys
       ELSE \E order \in [1 .. n -> names] :
               /\ \A v \in names : \E i \in 1 .. n : order[i] = v
               /\ \A i, j \in 1 .. n : order[i] = order[j] => i = j
               /\ keys' = order
    /\ Touch("vars") /\ UNCHANGED <<plots, solidVars, tabVars>>

\* Mutant: the value goes and the name stays.
RemoveVariableOnly(v) ==
    /\ v \in DOMAIN value
    /\ value' = [u \in DOMAIN value \ {v} |-> value[u]]
    /\ Touch("vars") /\ UNCHANGED <<keys, plots, solidVars, tabVars>>

\* VarEdit::removeVariable.
RemoveVariable(v) ==
    /\ v \in DOMAIN value
    /\ value' = [u \in DOMAIN value \ {v} |-> value[u]]
    /\ \E i \in DOMAIN keys : /\ keys[i] = v
                            /\ keys' = SubSeq(keys, 1, i - 1) \o SubSeq(keys, i + 1, Len(keys))
    /\ Touch("vars") /\ UNCHANGED <<plots, solidVars, tabVars>>

\* What the 2D tab does to its list: a plot is added, replaced or removed.
ChangePlots(c) ==
    /\ \/ Len(plots) < MaxPlots /\ plots' = Append(plots, c)
       \/ \E i \in DOMAIN plots : plots' = [plots EXCEPT ![i] = c]
       \/ \E i \in DOMAIN plots :
             plots' = SubSeq(plots, 1, i - 1) \o SubSeq(plots, i + 1, Len(plots))
    /\ Touch("plots") /\ UNCHANGED <<varVars, solidVars, tabVars>>

\* operate_add2d adds a plot, replaces the one being edited, or is refused.
operate_add2d(c) ==
    /\ \/ Len(plots) < MaxPlots /\ plots' = Append(plots, c)
       \/ \E i \in DOMAIN plots : plots' = [plots EXCEPT ![i] = c]
       \/ UNCHANGED plots
    /\ Touch("plots") /\ UNCHANGED <<varVars, solidVars, tabVars>>

\* Mutant: the text is kept before it is known to be a plot.
new_func3dEarly(t) ==
    /\ t_model3d' = IF t \in Solids THEN [name |-> "func3d", text |-> t] ELSE t_model3d
    /\ expr_3d' = t
    /\ Touch("expr_3d") /\ UNCHANGED <<varVars, plots, tabVars>>

\* new_func3d with t in t_exp: by Return, or by operate_add3d.
new_func3d(t) ==
    /\ t_model3d' = IF t \in Solids THEN [name |-> "func3d", text |-> t] ELSE t_model3d
    /\ expr_3d' = IF t \in Solids THEN t ELSE expr_3d
    /\ IF t \in Solids THEN Touch("expr_3d") ELSE UNCHANGED dirty
    /\ UNCHANGED <<varVars, plots, tabVars>>

\* m_tabs->setCurrentIndex(i) in the GUI thread, by a click or a link.
setCurrentIndex(i) ==
    IF bar = i THEN UNCHANGED tabVars
    ELSE bar' = i /\ shown' = i /\ raced' = (raced \/ Outstanding)

ClickTab(i) ==
    /\ setCurrentIndex(i)
    /\ UNCHANGED <<window, dirty>>

\* The "Plot 3D" link of the console.
add3D(t) ==
    /\ shown = 0
    /\ t_model3d' = [name |-> "func3d_console", text |-> t]
    /\ setCurrentIndex(2)
    /\ UNCHANGED <<varVars, plots, expr_3d, dirty>>

\* QTabWidget shows the page a worker asked for, and calls tabChanged.
ShowTab(i) ==
    /\ shown' = i
    /\ UNCHANGED <<window, bar, raced, dirty>>

UserStep ==
    /\ Up /\ main = "exec" /\ user < MaxUser
    /\ user' = user + 1
    /\ \/ \E o \in Operation : Define(o)
       \/ \E v \in Names : RemoveVariable(v)
       \/ \E c \in Curves : ChangePlots(c)
       \/ \E t \in Solids \cup Broken : new_func3d(t)
       \/ \E t \in Solids : add3D(t)
       \/ \E i \in TabsUsed : ClickTab(i)
    /\ UNCHANGED <<fate, mainVars, posted, wkVars, logVars, executed>>

\* Mutant: the event posted last is run first.
DeliverLast ==
    /\ Up /\ main = "exec" /\ posted # <<>>
    /\ LET e == posted[Len(posted)] IN
          /\ \/ e.kind = "calc" /\ Define(e.arg)
             \/ e.kind = "add2d" /\ operate_add2d(e.arg)
             \/ e.kind = "add3d" /\ new_func3d(e.arg)
             \/ e.kind = "tab" /\ ShowTab(e.arg)
          /\ executed' = IF e.kind = "tab" THEN executed ELSE Append(executed, e.id)
    /\ posted' = SubSeq(posted, 1, Len(posted) - 1)
    /\ UNCHANGED <<fate, mainVars, wkVars, logVars, user>>

\* The event loop runs the event posted first.
Deliver ==
    /\ Up /\ main = "exec" /\ posted # <<>>
    /\ LET e == Head(posted) IN
          /\ \/ e.kind = "calc" /\ Define(e.arg)
             \/ e.kind = "add2d" /\ operate_add2d(e.arg)
             \/ e.kind = "add3d" /\ new_func3d(e.arg)
             \/ e.kind = "tab" /\ ShowTab(e.arg)
          /\ executed' = IF e.kind = "tab" THEN executed ELSE Append(executed, e.id)
    /\ posted' = Tail(posted)
    /\ UNCHANGED <<fate, mainVars, wkVars, logVars, user>>
-----------------------------------------------------------------------------
Init ==
    /\ fate = "up" /\ main = "window" /\ global_app = FALSE
    /\ posted = <<>>
    /\ keys = <<>> /\ value = [v \in {} |-> NoText]
    /\ plots = <<>>
    /\ expr_3d = NoText /\ t_model3d = [name |-> "none", text |-> NoText]
    /\ bar = 0 /\ shown = 0 /\ raced = FALSE
    /\ wpc = [w \in Workers |-> "none"]
    /\ req = [w \in Workers |-> NoRequest] /\ loc = [w \in Workers |-> NoLocals]
    /\ dirty = [w \in Workers |-> FALSE]
    /\ started = 0 /\ acked = {} /\ executed = <<>> /\ since = <<>>
    /\ user = 0

\* There is no process left to take a step.
Ended == main = "end" \/ fate = "crashed"

Next ==
    \/ MainStep \/ Quit \/ Deliver \/ UserStep
    \/ \E w \in Workers :
          \/ \E r \in Request : Handle(w, r)
          \/ WorkerStep(w) \/ Tear(w)

(* Fairness: every thread that can go on is scheduled.  Requests, the user, *)
(* Quit and Tear may never come.                                            *)
Fairness ==
    /\ WF_vars(MainStep) /\ WF_vars(Deliver)
    /\ \A w \in Workers : WF_vars(WorkerStep(w))

Spec == Init /\ [][Next]_vars /\ Fairness
-----------------------------------------------------------------------------
\* Every variable stays in its type; keys() lists each variable once.
TypeOK ==
    /\ fate \in {"up", "crashed"}
    /\ main \in {"window", "server", "exec", "stop", "end"} /\ global_app \in BOOLEAN
    /\ \A i \in DOMAIN posted :
          posted[i].kind \in Adds \cup {"tab"} /\ posted[i].id \in 0 .. started
    /\ value \in [DOMAIN value -> Values] /\ DOMAIN value \subseteq Names
    /\ DOMAIN value = {keys[i] : i \in DOMAIN keys}
    /\ \A i, j \in DOMAIN keys : keys[i] = keys[j] => i = j
    /\ plots \in Seq(Curves) /\ Len(plots) <= MaxPlots
    /\ expr_3d \in Solids \cup {NoText}
    /\ t_model3d.text \in Solids \cup {NoText}
    /\ {bar, shown} \subseteq TabsUsed \cup {0, 2} /\ raced \in BOOLEAN
    /\ dirty \in [Workers -> BOOLEAN]
    /\ started \in 0 .. MaxRequests /\ Len(since) = started
    /\ acked \subseteq 1 .. started /\ user \in 0 .. MaxUser

\* A handler runs only while global_app points to the window: main sets it
\* before Start, and Stop joins the workers before the window is destroyed
\* (assert(global_app != nullptr) in every handler).
WindowAlive ==
    \A w \in Workers :
        wpc[w] \notin {"none", "done"} => global_app /\ main \in {"exec", "stop"}

\* A handler that reads the window from a worker fails only if the GUI
\* thread changed what it reads while it ran.
CrashOnlyRaced == fate = "crashed" => \E w \in Workers : dirty[w]

\* The answer to /vars, /func/2d or /func/3d is the state of the window,
\* if what it reads did not change while it was put together.
AnswerExact ==
    \A w \in Workers : wpc[w] = "reply" /\ ~dirty[w] =>
        LET defined == {<<v, value[v]>> : v \in DOMAIN value} IN
        /\ req[w].kind = "vars" => loc[w].answer = <<defined>>
        /\ req[w].kind = "func2d" =>
              loc[w].answer = [i \in DOMAIN plots |-> [expr |-> plots[i], vars |-> defined]]
        /\ req[w].kind = "func3d" =>
              loc[w].answer = IF expr_3d = NoText THEN <<NoText>>
                              ELSE [i \in 1 .. 3 + req[w].arg |-> expr_3d]

\* A call is executed once, and after every call that had been answered
\* before its request came, whichever workers handled the two.
ExecutedInOrder ==
    \A i \in DOMAIN executed :
        /\ since[executed[i]] \subseteq {executed[j] : j \in 1 .. i - 1}
        /\ executed[i] \notin {executed[j] : j \in 1 .. i - 1}

\* The tab bar and the page on show agree once the events posted are run,
\* unless a worker changed the tab while another change was under way.
TabsAgree == bar = shown \/ raced \/ Outstanding \/ main = "end"

\* /func/3d speaks of the plot on show, if that plot was made in the 3D tab.
ShownIsReported == t_model3d.name = "func3d" => t_model3d.text = expr_3d

\* A call that was answered OK is executed, unless the application quits.
AcknowledgedRuns ==
    \A id \in 1 .. MaxRequests :
        (id \in acked) ~> (id \in Executed \/ main # "exec" \/ fate = "crashed")

\* Once exec() has returned main returns: no worker waits for the GUI thread.
QuitEnds == main = "stop" ~> Ended
=============================================================================
