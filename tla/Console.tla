------------------------------ MODULE Console ------------------------------
(***************************************************************************)
(* The console: ConsoleModel (the script, the log, the variables), the     *)
(* page that ConsoleHtml shows of it with the options for the last result, *)
(* and the dialog VarEdit, whose event loop runs calls queued by the HTTP  *)
(* server while the user is in it.  One action is one event of the GUI     *)
(* thread.  What an expression evaluates to is left to Analitza: the model *)
(* keeps which variable it sets, which it uses, and whether it succeeds.   *)
(***************************************************************************)
EXTENDS Integers, Sequences

CONSTANTS
    Vars,       \* names of variables
    Ans,        \* the variable "ans"
    NoVar,      \* an expression that sets no variable; no dialog
    None,       \* no expression: no options, no operation of a message
    MaxLog,     \* bound: entries of the log
    MaxSession  \* bound: operations of a session

ASSUME NamesAssumption == Ans \notin Vars /\ NoVar \notin Vars \cup {Ans}
ASSUME BoundsAssumption == MaxLog \in Nat /\ MaxSession \in Nat

VARIABLES
    variables,      \* Analitza::Variables: name -> the names its value uses
    m_script, m_htmlLog, mode,      \* ConsoleModel
    m_optionsString, page,          \* ConsoleHtml: options; what is on show
    dialog,         \* VarEdit::m_var while the dialog is open, or NoVar
    removable, m_correct, typed,    \* VarEdit: m_removeBtn, m_correct, m_exp
    opened,         \* history: the value on show when the dialog opened
    late,           \* history: a queued call ran while the dialog was open
    entered,        \* history: how many operations succeeded
    newest,         \* history: the last of them
    saved           \* how many instructions the script saved last has

modelVars == <<variables, m_script, m_htmlLog, mode>>
htmlVars == <<m_optionsString, page>>
dialogVars == <<dialog, removable, m_correct, typed, opened>>
history == <<late, entered, newest, saved>>
vars == <<modelVars, htmlVars, dialogVars, history>>

Names == Vars \cup {Ans}

Uses == {{}} \cup {{v} : v \in Names}

Operation == [sets : Names \cup {NoVar}, uses : Uses]

Entry == [kind : {"result", "error", "imported"}, op : Operation \cup {None}]

\* A name is set, or its value replaced; NoVar sets none.
Set(table, v, uses) ==
    [u \in DOMAIN table \cup ({v} \ {NoVar}) |-> IF u = v THEN uses ELSE table[u]]
-----------------------------------------------------------------------------
(* ConsoleModel and the view.                                               *)
\* ConsoleHtml::updateView: the options stand before the newest entry.
updateView ==
    page' = [entries |-> m_htmlLog',
             options |-> IF m_htmlLog' = <<>> THEN None ELSE m_optionsString']

\* An option is offered for a result that can be plotted, or none.
includeOperation(o) == m_optionsString' \in {o, None}

addMessage(kind, o) ==
    /\ m_htmlLog' = Append(m_htmlLog, [kind |-> kind, op |-> o])
    /\ updateView

\* Mutant: the message is shown before the options are made.
SucceedLate(o) ==
    /\ \E d \in {{}, o.uses} : variables' = Set(Set(variables, o.sets, o.uses), Ans, d)
    /\ m_script' = Append(m_script, o)
    /\ includeOperation(o)
    /\ m_htmlLog' = Append(m_htmlLog, [kind |-> "result", op |-> o])
    /\ page' = [entries |-> m_htmlLog', options |-> m_optionsString]
    /\ entered' = entered + 1 /\ newest' = o

\* The operation sets its variable, then ans to the result, which may still
\* use what o uses; operationSuccessful makes the options for the result.
Succeed(o) ==
    /\ \E d \in {{}, o.uses} : variables' = Set(Set(variables, o.sets, o.uses), Ans, d)
    /\ m_script' = Append(m_script, o)
    /\ includeOperation(o)
    /\ addMessage("result", o)
    /\ entered' = entered + 1 /\ newest' = o

\* Mutant: the script keeps what failed.
FailKept(o) ==
    /\ m_script' = Append(m_script, o)
    /\ UNCHANGED <<variables, m_optionsString, entered, newest>>
    /\ addMessage("error", None)

Fail(o) ==
    /\ UNCHANGED <<variables, m_script, m_optionsString, entered, newest>>
    /\ addMessage("error", None)

Room == Len(m_htmlLog) < MaxLog /\ entered < MaxSession

addOperation(o) == Room /\ (Succeed(o) \/ Fail(o))
-----------------------------------------------------------------------------
Idle == dialog = NoVar

\* Return in the input line.
operate(o) ==
    /\ Idle
    /\ addOperation(o)
    /\ UNCHANGED <<mode, dialogVars, late, saved>>

\* /add/calc, run by whichever event loop the GUI thread is in.
operate_calc(o) ==
    /\ addOperation(o)
    /\ late' = (late \/ ~Idle)
    /\ UNCHANGED <<mode, dialogVars, saved>>

\* A script sets names until its end or its first error; o stands for them.
loadScript(o) ==
    /\ Idle /\ Room
    /\ variables' = Set(variables, o.sets, o.uses)
    /\ UNCHANGED <<m_script, mode, m_optionsString, dialogVars, history>>
    /\ addMessage("imported", None) \/ addMessage("error", None)

\* The file cannot be opened.
loadNothing ==
    /\ Idle /\ Room
    /\ UNCHANGED <<variables, m_script, mode, m_optionsString, dialogVars, history>>
    /\ addMessage("error", None)

\* m_script is written to a file.
saveScript ==
    /\ Idle
    /\ saved' = Len(m_script)
    /\ UNCHANGED <<modelVars, htmlVars, dialogVars, late, entered, newest>>

setMode(m) ==
    /\ Idle /\ mode' = m
    /\ UNCHANGED <<variables, m_script, m_htmlLog, htmlVars, dialogVars, history>>

\* ans and the other variables stay, and so does m_optionsString.
clear ==
    /\ Idle
    /\ m_script' = <<>> /\ m_htmlLog' = <<>>
    /\ UNCHANGED <<variables, mode, m_optionsString, dialogVars, history>>
    /\ updateView
-----------------------------------------------------------------------------
(* The dialog.                                                              *)
\* Mutant: one variable that does not use v is enough.
canRemoveFirst(v) == \E u \in DOMAIN variables : v \notin variables[u]

canRemove(v) == \A u \in DOMAIN variables : v \notin variables[u]

\* A click on the value of v in the list of variables.
edit_var(v) ==
    /\ Idle /\ v \in DOMAIN variables
    /\ dialog' = v /\ removable' = canRemove(v)
    /\ m_correct' = TRUE /\ typed' = variables[v] /\ opened' = variables[v]
    /\ late' = FALSE
    /\ UNCHANGED <<modelVars, htmlVars, entered, newest, saved>>

\* Typing calls edit(), hence val().
TypeValue(uses) ==
    /\ ~Idle
    /\ typed' = uses /\ m_correct' \in BOOLEAN
    /\ UNCHANGED <<modelVars, htmlVars, dialog, removable, opened, history>>

Close == dialog' = NoVar /\ removable' = FALSE /\ m_correct' = FALSE /\ typed' = {} /\ opened' = {}

\* OK, or Return: val() is computed again and assigned, as an operation.
Accept ==
    /\ ~Idle /\ m_correct
    /\ addOperation([sets |-> dialog, uses |-> typed])
    /\ Close
    /\ UNCHANGED <<mode, late, saved>>

Cancel ==
    /\ ~Idle
    /\ Close
    /\ UNCHANGED <<modelVars, htmlVars, history>>

removeVariable ==
    /\ ~Idle /\ removable
    /\ variables' = [u \in DOMAIN variables \ {dialog} |-> variables[u]]
    /\ Close
    /\ UNCHANGED <<m_script, m_htmlLog, mode, htmlVars, history>>

\* The Variables tab: a new variable, or a new value.
setVariable(v, uses) ==
    /\ Idle
    /\ variables' = Set(variables, v, uses)
    /\ UNCHANGED <<m_script, m_htmlLog, mode, htmlVars, dialogVars, history>>
-----------------------------------------------------------------------------
Init ==
    /\ variables = [v \in {} |-> {}]
    /\ m_script = <<>> /\ m_htmlLog = <<>> /\ mode = "Evaluation"
    /\ m_optionsString = None /\ page = [entries |-> <<>>, options |-> None]
    /\ dialog = NoVar /\ removable = FALSE /\ m_correct = FALSE /\ typed = {} /\ opened = {}
    /\ late = FALSE /\ entered = 0 /\ newest = None /\ saved = 0

Next ==
    \/ \E o \in Operation : operate(o) \/ operate_calc(o) \/ loadScript(o)
    \/ loadNothing \/ saveScript \/ clear
    \/ \E m \in {"Evaluation", "Calculation"} : setMode(m)
    \/ \E v \in Names : edit_var(v)
    \/ \E u \in Uses : TypeValue(u)
    \/ Accept \/ Cancel \/ removeVariable
    \/ \E v \in Names, u \in Uses : setVariable(v, u)

Spec == Init /\ [][Next]_vars
-----------------------------------------------------------------------------
\* Every variable stays in its type.
TypeOK ==
    /\ variables \in [DOMAIN variables -> Uses] /\ DOMAIN variables \subseteq Names
    /\ m_script \in Seq(Operation) /\ m_htmlLog \in Seq(Entry)
    /\ Len(m_htmlLog) <= MaxLog /\ {entered, saved} \subseteq 0 .. MaxSession
    /\ mode \in {"Evaluation", "Calculation"}
    /\ m_optionsString \in Operation \cup {None}
    /\ page.entries \in Seq(Entry) /\ page.options \in Operation \cup {None}
    /\ dialog \in Names \cup {NoVar} /\ removable \in BOOLEAN /\ m_correct \in BOOLEAN
    /\ {typed, opened} \subseteq Uses /\ late \in BOOLEAN /\ newest \in Operation \cup {None}

\* "Script won't have the errors" (consolemodel.cpp:88): the script is the
\* operations whose results the log shows, in its order, whichever of the
\* input line, the dialog and /add/calc they came from: `at' gives the place
\* of an instruction's result in the log.
ScriptIsResults ==
    \E at \in [DOMAIN m_script -> DOMAIN m_htmlLog] :
        /\ \A i, j \in DOMAIN m_script : i < j => at[i] < at[j]
        /\ \A i \in DOMAIN m_script : m_htmlLog[at[i]] = [kind |-> "result", op |-> m_script[i]]
        /\ \A n \in DOMAIN m_htmlLog :
              m_htmlLog[n].kind = "result" => \E i \in DOMAIN m_script : at[i] = n

\* The page shows the log, with the options of the newest operation that
\* succeeded, or none.  Above its result that is the right place; when Clear
\* has removed the result or an error, a failed or imported script stands
\* below them, they are still those and never older ones.
PageCurrent ==
    /\ page.entries = m_htmlLog
    /\ {page.options, m_optionsString} \subseteq {newest, None}
    /\ LET n == Len(m_htmlLog) IN
         n > 0 /\ m_htmlLog[n].kind = "result" => m_htmlLog[n].op = newest

\* Unless a call of the HTTP server ran while the dialog was open, Remove
\* removes no variable that another one uses, and OK replaces the value that
\* the dialog showed when it opened (the checks of setName hold at the end).
DialogSafe ==
    [][~late =>
          /\ \A v \in DOMAIN variables \ DOMAIN variables' :
                \A u \in DOMAIN variables' : v \notin variables'[u]
          /\ dialog # NoVar /\ entered' # entered =>
                dialog \in DOMAIN variables /\ variables[dialog] = opened]_vars
=============================================================================
