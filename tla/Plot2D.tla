------------------------------ MODULE Plot2D ------------------------------
(***************************************************************************)
(* The 2D graph tab: the list of plots (b_funcsModel), the tools tabs next *)
(* to it (List, Add, Variables, Viewport) and the form that adds and edits *)
(* plots (FunctionEdit, b_funced).  src/src/kalgebra.cpp and               *)
(* src/src/functionedit.cpp.  One action is one event of the GUI thread: a *)
(* click, a key, or a call queued by the HTTP server (operate_add2d).      *)
(***************************************************************************)
EXTENDS Integers, Sequences

CONSTANTS
    Ids,            \* names freeId() returns
    NoName,         \* the empty name the form starts with
    Curves,         \* texts that are curves
    VarCurves,      \* texts that are curves while a variable they use exists
    Broken,         \* texts that are none
    NoText,         \* the empty text
    Limits,         \* what a limit of the interval may evaluate to
    MaxPlots,       \* bound: plots in the list
    TabsUsed,       \* bound: the tabs of m_tabs that are turned to
    ToolsUsed       \* bound: the tabs of b_tools that are turned to

Texts == Curves \cup VarCurves \cup Broken
Names == Ids \cup {NoName}

ASSUME LimitsAssumption == Limits \subseteq Int /\ 0 \in Limits
ASSUME TextsAssumption ==
    /\ NoText \notin Texts
    /\ Broken \cap (Curves \cup VarCurves) = {}
ASSUME NamesAssumption == NoName \notin Ids
ASSUME PlotsAssumption == MaxPlots \in Nat
ASSUME TabsAssumption == TabsUsed \subseteq 0 .. 3 /\ ToolsUsed \subseteq 0 .. 3

VARIABLES
    fate,               \* "up", or "crashed" in a failed assertion
    tab,                \* m_tabs: 0 console, 1 2D graph, 2 3D graph, 3 dictionary
    tool,               \* b_tools: 0 List, 1 Add, 2 Variables, 3 Viewport
    title,              \* what tab 1 of b_tools is called
    plots,              \* b_funcsModel
    current,            \* b_funcs->currentIndex(): a row, or 0 for none
    name, text,         \* FunctionEdit::m_name and m_func
    uplimit, downlimit, \* m_uplimit's isCorrect() with m_calcUplimit, ...
    okEnabled,          \* m_ok->isEnabled()
    preview,            \* the curve in m_funcsModel, or NoText
    editing,            \* m_modmode
    defined,            \* whether the variable that VarCurves use exists
    target,             \* history: the row edit_func opened last
    remote,             \* history: operate_add2d has accepted a plot
    moved               \* history: variables changed since edit()'s last verdict

tabVars == <<tab, tool, title>>
listVars == <<plots, current>>
formVars == <<name, text, uplimit, downlimit, okEnabled, preview, editing>>
vars == <<fate, tabVars, listVars, formVars, defined, target, remote, moved>>

Plot == [name : Names, text : Texts]

PlotNames == {plots[i].name : i \in DOMAIN plots}

(* PlotsFactory::requestPlot(exp, Dim2D, vars).canDraw()                    *)
Draws(t) == t \in Curves \/ (t \in VarCurves /\ defined)

(* PlotsModel::indexForName: the first row of that name, 0 if there is none *)
FirstNamed(s, n) ==
    IF \E i \in DOMAIN s : s[i].name = n
    THEN CHOOSE i \in DOMAIN s : s[i].name = n /\ \A j \in 1 .. i - 1 : s[j].name # n
    ELSE 0

Without(s, i) == SubSeq(s, 1, i - 1) \o SubSeq(s, i + 1, Len(s))
-----------------------------------------------------------------------------
(* FunctionEdit.                                                            *)
GoodLimits(u, d) == u.correct /\ d.correct /\ ~(d.calc > u.calc)

\* edit() comes to a verdict on text t: there is none, or the limits are good.
Judges(t, u, d) == t = NoText \/ GoodLimits(u, d)

\* Mutant: any text will do.
VerdictAny(t, u, d) == IF Judges(t, u, d) THEN t # NoText ELSE okEnabled

\* m_ok->isEnabled() once edit() has returned.
Verdict(t, u, d) == IF Judges(t, u, d) THEN Draws(t) ELSE okEnabled

edit(t, u, d) ==
    /\ okEnabled' = Verdict(t, u, d)
    /\ IF Judges(t, u, d)
       THEN preview' = (IF Draws(t) THEN t ELSE NoText) /\ moved' = FALSE
       ELSE UNCHANGED <<preview, moved>>

\* setFunction, and what typing in m_func does: textChanged calls edit().
setFunction(t) ==
    /\ text' = t
    /\ edit(t, uplimit, downlimit)

\* The curve that text t makes; colour, resolution and interval are left out.
createFunction(t) == [name |-> name, text |-> t]

\* Mutant: the form stays in editing mode.
functoolsKeepsMode(i) ==
    \/ i = 0 /\ title' = "Add" /\ UNCHANGED <<name, editing>>
    \/ i # 0 /\ name' \in Ids \ PlotNames /\ UNCHANGED <<title, editing>>

\* functools(i), the slot of b_tools' currentChanged.
functools(i) ==
    \/ i = 0 /\ title' = "Add" /\ UNCHANGED <<name, editing>>
    \/ i # 0 /\ name' \in Ids \ PlotNames /\ editing' = FALSE /\ UNCHANGED title

\* b_tools->setCurrentIndex(i).
ShowTool(i) ==
    /\ tool' = i
    /\ IF i # tool THEN functools(i) ELSE UNCHANGED <<title, name, editing>>
-----------------------------------------------------------------------------
(* KAlgebra's slots.                                                        *)
Up == fate = "up"
FormShown == tab = 1 /\ tool = 1
ListShown == tab = 1 /\ tool = 0

\* FunctionEdit::clear
clear == text' = NoText /\ edit(NoText, uplimit, downlimit)

\* Mutant: the row updated is the current one of the list.
new_funcCurrent(t) ==
    LET row == current IN
    \/ /\ ~Draws(t) \/ (editing /\ row = 0)
       /\ fate' = "crashed" /\ text' = t
       /\ UNCHANGED <<tabVars, listVars, name, uplimit, downlimit, okEnabled,
                      preview, editing, moved>>
    \/ /\ Draws(t) /\ (editing => row # 0)
       /\ plots' = IF editing THEN [plots EXCEPT ![row] = createFunction(t)]
                   ELSE Append(plots, createFunction(t))
       /\ editing' = FALSE
       /\ clear
       /\ tool' = 0 /\ title' = IF tool # 0 THEN "Add" ELSE title
       /\ current' = FirstNamed(plots', name)
       /\ UNCHANGED <<fate, tab, name, uplimit, downlimit>>

\* What accept, connected to new_func, does with text t in the form.  A text
\* that cannot be drawn, or no row of that name, fails an assertion.
new_func(t) ==
    LET row == FirstNamed(plots, name) IN
    \/ /\ ~Draws(t) \/ (editing /\ row = 0)
       /\ fate' = "crashed" /\ text' = t
       /\ UNCHANGED <<tabVars, listVars, name, uplimit, downlimit, okEnabled,
                      preview, editing, moved>>
    \/ /\ Draws(t) /\ (editing => row # 0)
       /\ plots' = IF editing THEN [plots EXCEPT ![row] = createFunction(t)]
                   ELSE Append(plots, createFunction(t))
       /\ editing' = FALSE
       /\ clear
       /\ tool' = 0 /\ title' = IF tool # 0 THEN "Add" ELSE title
       /\ current' = FirstNamed(plots', name)
       /\ UNCHANGED <<fate, tab, name, uplimit, downlimit>>

\* m_tabs->setCurrentIndex(i), by a click or by operate_tab, and tabChanged.
SelectTab(i) ==
    /\ Up /\ tab # i
    /\ tab' = i
    /\ IF i = 1 /\ plots = <<>> THEN ShowTool(1)
       ELSE UNCHANGED <<tool, title, name, editing>>
    /\ UNCHANGED <<fate, listVars, text, uplimit, downlimit, okEnabled, preview,
                   defined, target, remote, moved>>

SelectTool(i) ==
    /\ Up /\ tab = 1 /\ tool # i
    /\ ShowTool(i)
    /\ UNCHANGED <<fate, tab, listVars, text, uplimit, downlimit, okEnabled, preview,
                   defined, target, remote, moved>>

TypeFunction(t) ==
    /\ Up /\ FormShown /\ t # text
    /\ setFunction(t)
    /\ UNCHANGED <<fate, tabVars, listVars, name, uplimit, downlimit, editing,
                   defined, target, remote>>

Limit == [correct : BOOLEAN, calc : Limits]

\* A limit as typed: no expression, one that is no real number, or a number.
LimitTyped(old, new) ==
    \/ ~new.correct /\ new.calc \in {old.calc, 0}
    \/ new.correct

updateUplimit(u) ==
    /\ Up /\ FormShown
    /\ LimitTyped(uplimit, u)
    /\ uplimit' = u
    /\ IF u.correct THEN edit(text, u, downlimit)
       ELSE UNCHANGED <<okEnabled, preview, moved>>
    /\ UNCHANGED <<fate, tabVars, listVars, name, text, downlimit, editing,
                   defined, target, remote>>

\* Mutant: a good limit is stored and edit() is not called.
updateDownlimitNoEdit(d) ==
    /\ Up /\ FormShown
    /\ LimitTyped(downlimit, d)
    /\ downlimit' = d
    /\ UNCHANGED <<okEnabled, preview, moved>>
    /\ UNCHANGED <<fate, tabVars, listVars, name, text, uplimit, editing,
                   defined, target, remote>>

updateDownlimit(d) ==
    /\ Up /\ FormShown
    /\ LimitTyped(downlimit, d)
    /\ downlimit' = d
    /\ IF d.correct THEN edit(text, uplimit, d)
       ELSE UNCHANGED <<okEnabled, preview, moved>>
    /\ UNCHANGED <<fate, tabVars, listVars, name, text, uplimit, editing,
                   defined, target, remote>>

\* The OK button, or Return in the form.
Ok ==
    /\ Up /\ FormShown /\ okEnabled
    /\ editing \/ Len(plots) < MaxPlots
    /\ new_func(text)
    /\ UNCHANGED <<defined, target, remote>>

\* operate_add2d as the GUI thread runs it, whatever is shown.
operate_add2d(t) ==
    /\ Up
    /\ editing \/ Len(plots) < MaxPlots
    /\ IF Verdict(t, uplimit, downlimit)
       THEN new_func(t) /\ remote' = TRUE
       ELSE /\ setFunction(t)
            /\ UNCHANGED <<fate, tabVars, listVars, name, uplimit, downlimit,
                           editing, remote>>
    /\ UNCHANGED <<defined, target>>

\* The Remove button, visible while editing, and remove_func.
Remove ==
    /\ Up /\ FormShown /\ editing
    /\ plots' = IF current = 0 THEN plots ELSE Without(plots, current)
    /\ editing' = FALSE
    /\ clear
    /\ tool' = 0 /\ title' = "Add"
    /\ current' = 0
    /\ UNCHANGED <<fate, tab, name, uplimit, downlimit, defined, target, remote>>

Click(r) ==
    /\ Up /\ ListShown
    /\ current' = r
    /\ UNCHANGED <<fate, tabVars, plots, formVars, defined, target, remote, moved>>

\* A double click makes the row current and calls edit_func.  The name that
\* functools(1) sets on the way is overwritten.
DoubleClick(r) ==
    /\ Up /\ ListShown
    /\ current' = r /\ target' = r
    /\ title' = "Editing" /\ tool' = 1
    /\ name' = plots[r].name
    /\ setFunction(plots[r].text)
    /\ editing' = TRUE
    /\ UNCHANGED <<fate, tab, plots, uplimit, downlimit, defined, remote>>

\* Mutant: the plot gets the name the form holds.
add2DFormName(t, id) ==
    /\ Up /\ tab = 0 /\ Len(plots) < MaxPlots
    /\ id \notin PlotNames \cup {name}
    /\ plots' = Append(plots, [name |-> name, text |-> t])
    /\ tab' = 1
    /\ UNCHANGED <<fate, tool, title, current, formVars, defined, target, remote, moved>>

\* The "Plot 2D" link of the console (Add2DOption, add2D).
add2D(t, id) ==
    /\ Up /\ tab = 0 /\ Len(plots) < MaxPlots
    /\ id \notin PlotNames \cup {name}
    /\ plots' = Append(plots, [name |-> id, text |-> t])
    /\ tab' = 1
    /\ UNCHANGED <<fate, tool, title, current, formVars, defined, target, remote, moved>>

\* The console or the Variables tab defines or removes the variable.
VariableChanges ==
    /\ Up
    /\ defined' = ~defined /\ moved' = TRUE
    /\ UNCHANGED <<fate, tabVars, listVars, formVars, target, remote>>
-----------------------------------------------------------------------------
Init ==
    /\ fate = "up"
    /\ tab = 0 /\ tool = 0 /\ title = "Add"
    /\ plots = <<>> /\ current = 0
    /\ name = NoName /\ text = NoText
    /\ uplimit = [correct |-> TRUE, calc |-> 0]
    /\ downlimit = [correct |-> TRUE, calc |-> 0]
    /\ okEnabled = FALSE /\ preview = NoText /\ editing = FALSE
    /\ defined = FALSE
    /\ target = 0 /\ remote = FALSE /\ moved = FALSE

Next ==
    \/ \E i \in TabsUsed : SelectTab(i)
    \/ \E i \in ToolsUsed : SelectTool(i)
    \/ \E t \in Texts \cup {NoText} : TypeFunction(t) \/ operate_add2d(t)
    \/ \E l \in Limit : updateUplimit(l) \/ updateDownlimit(l)
    \/ Ok \/ Remove
    \/ \E r \in DOMAIN plots : Click(r) \/ DoubleClick(r)
    \/ \E t \in Curves, id \in Ids : add2D(t, id)
    \/ VariableChanges
    \/ fate = "crashed" /\ UNCHANGED vars

Spec == Init /\ [][Next]_vars
-----------------------------------------------------------------------------
\* Every variable stays in its type.
TypeOK ==
    /\ fate \in {"up", "crashed"}
    /\ tab \in 0 .. 3 /\ tool \in 0 .. 3 /\ title \in {"Add", "Editing"}
    /\ plots \in Seq(Plot) /\ Len(plots) <= MaxPlots
    /\ current \in 0 .. Len(plots)
    /\ name \in Names /\ text \in Texts \cup {NoText}
    /\ uplimit \in Limit /\ downlimit \in Limit
    /\ okEnabled \in BOOLEAN /\ preview \in Texts \cup {NoText}
    /\ editing \in BOOLEAN /\ defined \in BOOLEAN
    /\ target \in Nat /\ remote \in BOOLEAN /\ moved \in BOOLEAN

\* While the form edits, the plot it was opened for is in the list under the
\* name the form holds, so that new_func finds a row to update; the form that
\* offers Remove has that plot as the current row, the one remove_func
\* removes ("asks the currently edited plot to be removed",
\* functionedit.h:108); and the tab is called Editing.  Clicks, tab changes
\* and calls of the HTTP server may come in between.
EditedPlotThere ==
    editing =>
        /\ target \in DOMAIN plots /\ plots[target].name = name
        /\ tool \in {0, 1}
        /\ tool = 1 => current = target /\ title = "Editing"

\* No two plots have one name, as long as operate_add2d has added none.
NamesUnique ==
    ~remote => \A i, j \in DOMAIN plots : plots[i].name = plots[j].name => i = j

\* A step that neither adds nor removes a plot changes only the plot being
\* edited: new_func updates the row the user opened.
EditsOnlyTarget ==
    [][~remote /\ Len(plots') = Len(plots) =>
          \A i \in DOMAIN plots : plots'[i] # plots[i] => editing /\ i = target]_vars

\* With good limits OK is enabled for just the texts that can be drawn, and
\* the preview shows what OK would accept, if no variable changed since.
OkChecked ==
    GoodLimits(uplimit, downlimit) /\ ~moved /\ fate = "up" =>
        /\ okEnabled = Draws(text)
        /\ preview = IF okEnabled THEN text ELSE NoText

\* No assertion of the plotting library fails unless the limits are not good
\* or a variable changed after the text was checked.
CrashOnlyUnchecked ==
    fate = "crashed" => moved \/ ~GoodLimits(uplimit, downlimit)

\* "Let's see if the exp is correct" (functionedit.cpp:215), "The options you
\* specified are not correct" (:230), "Downlimit cannot be greater than
\* uplimit" (:235): while OK can be pressed what it accepts is correct.
OkMeansCorrect ==
    okEnabled => Draws(text) /\ GoodLimits(uplimit, downlimit)

\* "open an Editing tab to edit or remove a function with double-click"
\* (index.docbook:388): OK changes the function that was double-clicked.
EditsTheFunctionOpened ==
    [][Len(plots') = Len(plots) =>
          \A i \in DOMAIN plots : plots'[i] # plots[i] => i = target]_vars
=============================================================================
