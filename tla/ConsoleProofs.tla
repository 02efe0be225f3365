---------------------------- MODULE ConsoleProofs ----------------------------
(***************************************************************************)
(* Proofs about Console: the script and the page follow the log, and the   *)
(* dialog does what it showed, for any variables and sessions.             *)
(***************************************************************************)
EXTENDS Console, TLAPS

USE NamesAssumption, BoundsAssumption

(* TypeOK, in the parts that the operations change together.                *)
TableTyped == variables \in [DOMAIN variables -> Uses] /\ DOMAIN variables \subseteq Names

LogTyped ==
    /\ m_script \in Seq(Operation) /\ m_htmlLog \in Seq(Entry)
    /\ Len(m_htmlLog) <= MaxLog /\ entered \in 0 .. MaxSession
    /\ m_optionsString \in Operation \cup {None} /\ newest \in Operation \cup {None}
    /\ page.entries \in Seq(Entry) /\ page.options \in Operation \cup {None}

DialogTyped ==
    /\ dialog \in Names \cup {NoVar} /\ removable \in BOOLEAN /\ m_correct \in BOOLEAN
    /\ {typed, opened} \subseteq Uses /\ late \in BOOLEAN

RestTyped == mode \in {"Evaluation", "Calculation"} /\ saved \in 0 .. MaxSession

\* A script is no longer than the session, so that what is saved is counted.
ScriptBounded == Len(m_script) <= entered

\* As long as nothing ran behind it, the dialog's variable is there, with
\* the value that was shown, and Remove is enabled only if no other uses it.
DialogTrue ==
    ~late /\ dialog # NoVar =>
        /\ dialog \in DOMAIN variables /\ variables[dialog] = opened
        /\ removable => canRemove(dialog)

LogInv == LogTyped /\ ScriptBounded /\ ScriptIsResults /\ PageCurrent

IInv == TableTyped /\ LogInv /\ DialogTyped /\ RestTyped /\ DialogTrue

\* An empty script is the results of an empty log.
LEMMA NoResults ==
    ASSUME NEW script, NEW log, script = << >>, log = << >>
    PROVE  \E at \in [DOMAIN script -> DOMAIN log] :
             /\ \A i, j \in DOMAIN script : i < j => at[i] < at[j]
             /\ \A i \in DOMAIN script : log[at[i]] = [kind |-> "result", op |-> script[i]]
             /\ \A n \in DOMAIN log : log[n].kind = "result" => \E i \in DOMAIN script : at[i] = n
<1> DEFINE f == [i \in DOMAIN script |-> i]
<1>1. DOMAIN script = {} /\ DOMAIN log = {}
  OBVIOUS
<1>2. f \in [DOMAIN script -> DOMAIN log]
  BY <1>1
<1> HIDE DEF f
<1> QED BY <1>1, <1>2

\* The console starts with no log, no script and no dialog.
LEMMA InitIInv == Init => IInv
<1> SUFFICES ASSUME Init PROVE IInv
  OBVIOUS
<1>1. TableTyped
  <2>1. variables = [v \in {} |-> {}] /\ DOMAIN variables = {}
    BY DEF Init
  <2> QED BY <2>1 DEF TableTyped
<1>0. DialogTyped /\ RestTyped /\ DialogTrue
  <2>1. NoVar \notin Names /\ {} \in Uses
    BY DEF Names, Uses
  <2>2. DialogTyped /\ DialogTrue
    BY <2>1 DEF Init, DialogTyped, DialogTrue
  <2>3. RestTyped
    BY DEF Init, RestTyped
  <2> QED BY <2>2, <2>3
<1>2. LogTyped /\ ScriptBounded /\ PageCurrent
  BY DEF Init, LogTyped, ScriptBounded, PageCurrent
<1>3. ScriptIsResults
  <2>1. m_script = <<>> /\ m_htmlLog = <<>>
    BY DEF Init
  <2>2. \E at \in [DOMAIN m_script -> DOMAIN m_htmlLog] :
          /\ \A i, j \in DOMAIN m_script : i < j => at[i] < at[j]
          /\ \A i \in DOMAIN m_script : m_htmlLog[at[i]] = [kind |-> "result", op |-> m_script[i]]
          /\ \A n \in DOMAIN m_htmlLog : m_htmlLog[n].kind = "result" => \E i \in DOMAIN m_script : at[i] = n
      BY <2>1, NoResults
  <2> QED BY <2>2 DEF ScriptIsResults
<1> QED BY <1>0, <1>1, <1>2, <1>3 DEF IInv, LogInv
-----------------------------------------------------------------------------
(* The parts.                                                               *)
\* Setting a name keeps the table in its type and forgets no name.
LEMMA SetTyped ==
    ASSUME NEW table, table \in [DOMAIN table -> Uses], DOMAIN table \subseteq Names,
           NEW v \in Names \cup {NoVar}, NEW uses \in Uses
    PROVE  /\ Set(table, v, uses) \in [DOMAIN Set(table, v, uses) -> Uses]
           /\ DOMAIN Set(table, v, uses) = DOMAIN table \cup ({v} \ {NoVar})
           /\ DOMAIN Set(table, v, uses) \subseteq Names
BY DEF Set

\* A message that is no result.
LEMMA MessageStep ==
    ASSUME LogInv, NEW kind \in {"error", "imported"}, addMessage(kind, None),
           Len(m_htmlLog) < MaxLog, UNCHANGED <<m_script, m_optionsString, entered, newest>>
    PROVE  LogInv'
<1> USE DEF LogInv
<1> DEFINE e == [kind |-> kind, op |-> None]
<1>1. /\ m_htmlLog' = Append(m_htmlLog, e)
      /\ page' = [entries |-> m_htmlLog', options |-> IF m_htmlLog' = <<>> THEN None ELSE m_optionsString']
  BY DEF addMessage, updateView
<1>2. e \in Entry /\ e.kind # "result"
  BY DEF Entry
<1>3. /\ m_htmlLog' \in Seq(Entry) /\ Len(m_htmlLog') = Len(m_htmlLog) + 1
      /\ \A n \in DOMAIN m_htmlLog : m_htmlLog'[n] = m_htmlLog[n]
      /\ m_htmlLog'[Len(m_htmlLog) + 1] = e
      /\ DOMAIN m_htmlLog' = 1 .. Len(m_htmlLog) + 1 /\ DOMAIN m_htmlLog = 1 .. Len(m_htmlLog)
  BY <1>1, <1>2 DEF LogTyped
<1>4. LogTyped' /\ ScriptBounded'
  BY <1>1, <1>3 DEF LogTyped, ScriptBounded
<1>5. PageCurrent'
  BY <1>1, <1>2, <1>3 DEF PageCurrent, LogTyped
<1>6. ScriptIsResults'
  <2>1. PICK at \in [DOMAIN m_script -> DOMAIN m_htmlLog] :
          /\ \A i, j \in DOMAIN m_script : i < j => at[i] < at[j]
          /\ \A i \in DOMAIN m_script : m_htmlLog[at[i]] = [kind |-> "result", op |-> m_script[i]]
          /\ \A n \in DOMAIN m_htmlLog :
                m_htmlLog[n].kind = "result" => \E i \in DOMAIN m_script : at[i] = n
    BY DEF ScriptIsResults
  <2>2. at \in [DOMAIN m_script' -> DOMAIN m_htmlLog']
    BY <1>3, <2>1
  <2>3. \A i \in DOMAIN m_script : m_htmlLog'[at[i]] = [kind |-> "result", op |-> m_script[i]]
    BY <1>3, <2>1
  <2>4. \A n \in DOMAIN m_htmlLog' :
           m_htmlLog'[n].kind = "result" => \E i \in DOMAIN m_script : at[i] = n
    BY <1>2, <1>3, <2>1
  <2> QED BY <2>1, <2>2, <2>3, <2>4 DEF ScriptIsResults
<1> QED BY <1>4, <1>5, <1>6

\* The script and the log grow by the same operation.
LEMMA SucceedStep ==
    ASSUME LogInv, NEW o \in Operation, Succeed(o), Room
    PROVE  LogInv'
<1> USE DEF LogInv
<1> DEFINE e == [kind |-> "result", op |-> o]
<1>1. /\ m_htmlLog' = Append(m_htmlLog, e) /\ m_script' = Append(m_script, o)
      /\ page' = [entries |-> m_htmlLog', options |-> IF m_htmlLog' = <<>> THEN None ELSE m_optionsString']
      /\ m_optionsString' \in {o, None} /\ entered' = entered + 1 /\ newest' = o
  BY DEF Succeed, includeOperation, addMessage, updateView
<1>2. e \in Entry /\ e.kind = "result" /\ e.op = o
  BY DEF Entry
<1>3. /\ m_htmlLog' \in Seq(Entry) /\ Len(m_htmlLog') = Len(m_htmlLog) + 1
      /\ \A n \in DOMAIN m_htmlLog : m_htmlLog'[n] = m_htmlLog[n]
      /\ m_htmlLog'[Len(m_htmlLog) + 1] = e
      /\ DOMAIN m_htmlLog' = 1 .. Len(m_htmlLog) + 1 /\ DOMAIN m_htmlLog = 1 .. Len(m_htmlLog)
  BY <1>1, <1>2 DEF LogTyped
<1>4. /\ m_script' \in Seq(Operation) /\ Len(m_script') = Len(m_script) + 1
      /\ \A i \in DOMAIN m_script : m_script'[i] = m_script[i]
      /\ m_script'[Len(m_script) + 1] = o
      /\ DOMAIN m_script' = 1 .. Len(m_script) + 1 /\ DOMAIN m_script = 1 .. Len(m_script)
  BY <1>1 DEF LogTyped
<1>5. LogTyped' /\ ScriptBounded'
  BY <1>1, <1>3, <1>4 DEF LogTyped, ScriptBounded, Room
<1>6. PageCurrent'
  BY <1>1, <1>2, <1>3 DEF PageCurrent, LogTyped
<1>7. ScriptIsResults'
  <2>1. PICK at \in [DOMAIN m_script -> DOMAIN m_htmlLog] :
          /\ \A i, j \in DOMAIN m_script : i < j => at[i] < at[j]
          /\ \A i \in DOMAIN m_script : m_htmlLog[at[i]] = [kind |-> "result", op |-> m_script[i]]
          /\ \A n \in DOMAIN m_htmlLog :
                m_htmlLog[n].kind = "result" => \E i \in DOMAIN m_script : at[i] = n
    BY DEF ScriptIsResults
  <2> DEFINE at1 == [i \in DOMAIN m_script' |-> IF i \in DOMAIN m_script THEN at[i] ELSE Len(m_htmlLog) + 1]
  <2>2. Len(m_script) \in Nat /\ Len(m_htmlLog) \in Nat
    BY DEF LogTyped
  <2>3. /\ \A i \in DOMAIN m_script : at1[i] = at[i] /\ at1[i] \in 1 .. Len(m_htmlLog)
        /\ at1[Len(m_script) + 1] = Len(m_htmlLog) + 1
    BY <1>3, <1>4, <2>1, <2>2
  <2>4. at1 \in [DOMAIN m_script' -> DOMAIN m_htmlLog']
    BY <1>3, <1>4, <2>1, <2>2
  <2> HIDE DEF at1
  <2>5. \A i, j \in DOMAIN m_script' : i < j => at1[i] < at1[j]
    BY <1>4, <2>1, <2>2, <2>3
  <2>6. \A i \in DOMAIN m_script' : m_htmlLog'[at1[i]] = [kind |-> "result", op |-> m_script'[i]]
    BY <1>3, <1>4, <2>1, <2>2, <2>3
  <2>7. \A n \in DOMAIN m_htmlLog' :
           m_htmlLog'[n].kind = "result" => \E i \in DOMAIN m_script' : at1[i] = n
    <3> SUFFICES ASSUME NEW n \in DOMAIN m_htmlLog', m_htmlLog'[n].kind = "result"
                 PROVE  \E i \in DOMAIN m_script' : at1[i] = n
      OBVIOUS
    <3>1. CASE n \in DOMAIN m_htmlLog
      <4>1. m_htmlLog[n].kind = "result"
        BY <1>3, <3>1
      <4>2. PICK i \in DOMAIN m_script : at[i] = n
        BY <2>1, <3>1, <4>1
      <4>3. i \in DOMAIN m_script' /\ at1[i] = n
        BY <1>4, <2>2, <2>3, <4>2
      <4> QED BY <4>3
    <3>2. CASE n = Len(m_htmlLog) + 1
      BY <1>4, <2>2, <2>3, <3>2
    <3> QED BY <1>3, <2>2, <3>1, <3>2
  <2> QED BY <2>4, <2>5, <2>6, <2>7 DEF ScriptIsResults
<1> QED BY <1>5, <1>6, <1>7

\* An operation keeps log, script and page in step, and forgets no name.
LEMMA AddOperationStep ==
    ASSUME LogInv, TableTyped, NEW o \in Operation, addOperation(o)
    PROVE  LogInv' /\ TableTyped' /\ DOMAIN variables \subseteq DOMAIN variables'
<1>1. CASE Succeed(o)
  <2>1. LogInv'
    BY <1>1, SucceedStep DEF addOperation
  <2>2. PICK d \in {{}, o.uses} : variables' = Set(Set(variables, o.sets, o.uses), Ans, d)
    BY <1>1 DEF Succeed
  <2>3. o.sets \in Names \cup {NoVar} /\ o.uses \in Uses /\ d \in Uses /\ Ans \in Names
    BY <2>2 DEF Operation, Uses, Names
  <2> DEFINE t == Set(variables, o.sets, o.uses)
  <2>4. t \in [DOMAIN t -> Uses] /\ DOMAIN t \subseteq Names /\ DOMAIN variables \subseteq DOMAIN t
    <3>1. variables \in [DOMAIN variables -> Uses] /\ DOMAIN variables \subseteq Names
      BY DEF TableTyped
    <3>2. /\ t \in [DOMAIN t -> Uses] /\ DOMAIN t \subseteq Names
          /\ DOMAIN t = DOMAIN variables \cup ({o.sets} \ {NoVar})
      BY <2>3, <3>1, SetTyped, Zenon
    <3> QED BY <3>2
  <2> HIDE DEF t
  <2>5. /\ Set(t, Ans, d) \in [DOMAIN Set(t, Ans, d) -> Uses]
        /\ DOMAIN Set(t, Ans, d) \subseteq Names /\ DOMAIN t \subseteq DOMAIN Set(t, Ans, d)
    <3>1. Ans \in Names \cup {NoVar}
      BY <2>3
    <3>2. /\ Set(t, Ans, d) \in [DOMAIN Set(t, Ans, d) -> Uses] /\ DOMAIN Set(t, Ans, d) \subseteq Names
          /\ DOMAIN Set(t, Ans, d) = DOMAIN t \cup ({Ans} \ {NoVar})
      BY <2>3, <2>4, <3>1, SetTyped, Zenon
    <3> QED BY <3>2
  <2> QED BY <2>1, <2>2, <2>4, <2>5 DEF TableTyped, t
<1>2. CASE Fail(o)
  <2>1. LogInv'
    BY <1>2, MessageStep DEF addOperation, Fail, Room
  <2> QED BY <1>2, <2>1 DEF Fail, TableTyped
<1> QED BY <1>1, <1>2 DEF addOperation

\* What does not touch log, script and page.
LEMMA LogUnchanged ==
    ASSUME LogInv, UNCHANGED <<m_script, m_htmlLog, m_optionsString, page, entered, newest>>
    PROVE  LogInv'
BY DEF LogInv, LogTyped, ScriptBounded, ScriptIsResults, PageCurrent
-----------------------------------------------------------------------------
\* Every operation, from the console, the dialog or a posted call, keeps it.
LEMMA NextIInv == IInv /\ [Next]_vars => IInv'
<1> SUFFICES ASSUME IInv, [Next]_vars PROVE IInv'
  OBVIOUS
<1> USE DEF IInv
<1>0. NoVar \notin Names
  BY DEF Names
<1>1. ASSUME NEW o \in Operation, operate(o) PROVE IInv'
  <2>1. LogInv' /\ TableTyped'
    BY <1>1, AddOperationStep DEF operate
  <2>2. DialogTyped' /\ RestTyped' /\ DialogTrue'
    BY <1>1 DEF operate, Idle, dialogVars, DialogTyped, RestTyped, DialogTrue
  <2> QED BY <2>1, <2>2
<1>2. ASSUME NEW o \in Operation, operate_calc(o) PROVE IInv'
  <2>1. LogInv' /\ TableTyped'
    BY <1>2, AddOperationStep DEF operate_calc
  <2>2. DialogTyped' /\ RestTyped' /\ DialogTrue'
    BY <1>2 DEF operate_calc, Idle, dialogVars, DialogTyped, RestTyped, DialogTrue
  <2> QED BY <2>1, <2>2
<1>3. ASSUME NEW o \in Operation, loadScript(o) PROVE IInv'
  <2>1. LogInv'
    BY <1>3, MessageStep DEF loadScript, Room, history
  <2>2. TableTyped'
    <3>1. o.sets \in Names \cup {NoVar} /\ o.uses \in Uses
      BY DEF Operation
    <3> QED BY <1>3, <3>1, SetTyped DEF loadScript, TableTyped
  <2>3. DialogTyped' /\ RestTyped' /\ DialogTrue'
    BY <1>3 DEF loadScript, Idle, dialogVars, history, DialogTyped, RestTyped, DialogTrue
  <2> QED BY <2>1, <2>2, <2>3
<1>4. CASE loadNothing
  <2>1. LogInv'
    BY <1>4, MessageStep DEF loadNothing, Room, history
  <2>2. TableTyped' /\ DialogTyped' /\ RestTyped' /\ DialogTrue'
    BY <1>4 DEF loadNothing, Idle, dialogVars, history, TableTyped, DialogTyped, RestTyped, DialogTrue
  <2> QED BY <2>1, <2>2
<1>5. CASE saveScript
  <2>1. LogInv'
    BY <1>5, LogUnchanged DEF saveScript, modelVars, htmlVars
  <2>2. RestTyped'
    BY <1>5 DEF saveScript, RestTyped, modelVars, LogInv, LogTyped, ScriptBounded
  <2>3. TableTyped' /\ DialogTyped' /\ DialogTrue'
    BY <1>5 DEF saveScript, modelVars, dialogVars, TableTyped, DialogTyped, DialogTrue, canRemove
  <2> QED BY <2>1, <2>2, <2>3
<1>6. ASSUME NEW m \in {"Evaluation", "Calculation"}, setMode(m) PROVE IInv'
  <2>1. LogInv'
    BY <1>6, LogUnchanged DEF setMode, htmlVars, history
  <2>2. TableTyped' /\ DialogTyped' /\ RestTyped' /\ DialogTrue'
    BY <1>6 DEF setMode, Idle, dialogVars, history, TableTyped, DialogTyped, RestTyped, DialogTrue
  <2> QED BY <2>1, <2>2
<1>7. CASE clear
  <2>1. m_script' = <<>> /\ m_htmlLog' = <<>> /\ page' = [entries |-> <<>>, options |-> None]
        /\ UNCHANGED <<m_optionsString, entered, newest>>
    BY <1>7 DEF clear, updateView, history
  <2>2. LogTyped' /\ ScriptBounded' /\ PageCurrent'
    BY <2>1 DEF LogInv, LogTyped, ScriptBounded, PageCurrent
  <2>3. ScriptIsResults'
    <3>1. \E at \in [DOMAIN m_script' -> DOMAIN m_htmlLog'] :
            /\ \A i, j \in DOMAIN m_script' : i < j => at[i] < at[j]
            /\ \A i \in DOMAIN m_script' : m_htmlLog'[at[i]] = [kind |-> "result", op |-> m_script'[i]]
            /\ \A n \in DOMAIN m_htmlLog' : m_htmlLog'[n].kind = "result" => \E i \in DOMAIN m_script' : at[i] = n
        BY <2>1, NoResults
    <3> QED BY <3>1 DEF ScriptIsResults
  <2>4. TableTyped' /\ DialogTyped' /\ RestTyped' /\ DialogTrue'
    BY <1>7 DEF clear, Idle, dialogVars, history, TableTyped, DialogTyped, RestTyped, DialogTrue
  <2> QED BY <2>2, <2>3, <2>4 DEF LogInv
<1>8. ASSUME NEW v \in Names, edit_var(v) PROVE IInv'
  <2>1. LogInv'
    BY <1>8, LogUnchanged DEF edit_var, modelVars, htmlVars
  <2>2. TableTyped' /\ RestTyped'
    BY <1>8 DEF edit_var, modelVars, TableTyped, RestTyped
  <2>3. canRemove(v) \in BOOLEAN /\ variables[v] \in Uses
    BY <1>8 DEF edit_var, canRemove, TableTyped
  <2>4. DialogTyped'
    BY <1>8, <2>3 DEF edit_var, DialogTyped
  <2>5. DialogTrue'
    BY <1>8 DEF edit_var, modelVars, DialogTrue, canRemove
  <2> QED BY <2>1, <2>2, <2>4, <2>5
<1>9. ASSUME NEW u \in Uses, TypeValue(u) PROVE IInv'
  <2>1. LogInv'
    BY <1>9, LogUnchanged DEF TypeValue, modelVars, htmlVars, history
  <2>2. TableTyped' /\ DialogTyped' /\ RestTyped'
    BY <1>9 DEF TypeValue, modelVars, history, TableTyped, DialogTyped, RestTyped
  <2>3. DialogTrue'
    BY <1>9 DEF TypeValue, modelVars, history, DialogTrue, canRemove
  <2> QED BY <2>1, <2>2, <2>3
<1>10. CASE Accept
  <2> DEFINE o == [sets |-> dialog, uses |-> typed]
  <2>1. o \in Operation
    BY DEF Operation, DialogTyped
  <2>2. LogInv' /\ TableTyped'
    BY <1>10, <2>1, AddOperationStep DEF Accept
  <2>3. DialogTyped' /\ RestTyped' /\ DialogTrue'
    BY <1>10 DEF Accept, Close, DialogTyped, RestTyped, DialogTrue, Uses
  <2> QED BY <2>2, <2>3
<1>11. CASE Cancel
  <2>1. LogInv'
    BY <1>11, LogUnchanged DEF Cancel, modelVars, htmlVars, history
  <2>2. TableTyped' /\ DialogTyped' /\ RestTyped' /\ DialogTrue'
    BY <1>11 DEF Cancel, Close, modelVars, history, TableTyped, DialogTyped, RestTyped, DialogTrue, Uses
  <2> QED BY <2>1, <2>2
<1>12. CASE removeVariable
  <2>1. LogInv'
    BY <1>12, LogUnchanged DEF removeVariable, htmlVars, history
  <2>2. TableTyped'
    BY <1>12 DEF removeVariable, TableTyped
  <2>3. DialogTyped' /\ RestTyped' /\ DialogTrue'
    BY <1>12 DEF removeVariable, Close, history, DialogTyped, RestTyped, DialogTrue, Uses
  <2> QED BY <2>1, <2>2, <2>3
<1>13. ASSUME NEW v \in Names, NEW u \in Uses, setVariable(v, u) PROVE IInv'
  <2>1. LogInv'
    BY <1>13, LogUnchanged DEF setVariable, htmlVars, history
  <2>2. TableTyped'
    BY <1>13, SetTyped DEF setVariable, TableTyped
  <2>3. DialogTyped' /\ RestTyped' /\ DialogTrue'
    BY <1>13 DEF setVariable, Idle, dialogVars, history, DialogTyped, RestTyped, DialogTrue
  <2> QED BY <2>1, <2>2, <2>3
<1>14. CASE UNCHANGED vars
  <2>1. LogInv'
    BY <1>14, LogUnchanged DEF vars, modelVars, htmlVars, history
  <2>2. TableTyped' /\ DialogTyped' /\ RestTyped' /\ DialogTrue'
    BY <1>14 DEF vars, modelVars, dialogVars, history, TableTyped, DialogTyped, RestTyped, DialogTrue, canRemove
  <2> QED BY <2>1, <2>2
<1> QED BY <1>1, <1>2, <1>3, <1>4, <1>5, <1>6, <1>7, <1>8, <1>9, <1>10, <1>11, <1>12, <1>13, <1>14 DEF Next

\* Log, script, page and dialog stay in step, for any names and any length.
THEOREM Invariance == Spec => []IInv
BY InitIInv, NextIInv, PTL DEF Spec
-----------------------------------------------------------------------------
\* Every variable of the console and of the dialog stays in its type.
THEOREM TypeCorrect == Spec => []TypeOK
<1>1. IInv => TypeOK
  BY DEF IInv, LogInv, TableTyped, LogTyped, DialogTyped, RestTyped, TypeOK
<1> QED BY <1>1, Invariance, PTL

\* The script is always the operations whose results the log shows, however
\* long the session, and whoever the operations came from.
THEOREM ScriptFollowsLog == Spec => []ScriptIsResults
<1>1. IInv => ScriptIsResults
  BY DEF IInv, LogInv
<1> QED BY <1>1, Invariance, PTL

\* The page always shows the log, and no options but those of the newest
\* operation that succeeded.
THEOREM PageFollowsLog == Spec => []PageCurrent
<1>1. IInv => PageCurrent
  BY DEF IInv, LogInv
<1> QED BY <1>1, Invariance, PTL

\* Names go only by Remove.
LEMMA OnlyRemoveForgets ==
    ASSUME IInv, [Next]_vars, ~removeVariable
    PROVE  DOMAIN variables \subseteq DOMAIN variables'
<1> USE DEF IInv
<1>1. ASSUME NEW o \in Operation, addOperation(o)
      PROVE  DOMAIN variables \subseteq DOMAIN variables'
  BY <1>1, AddOperationStep
<1>2. CASE Accept
  <2>1. [sets |-> dialog, uses |-> typed] \in Operation
    BY DEF Operation, DialogTyped
  <2> QED BY <1>1, <1>2, <2>1 DEF Accept
<1>3. ASSUME NEW v, NEW uses, variables' = Set(variables, v, uses)
      PROVE  DOMAIN variables \subseteq DOMAIN variables'
  BY <1>3 DEF Set
<1>4. ASSUME NEW o \in Operation, operate(o) \/ operate_calc(o) \/ loadScript(o)
      PROVE  DOMAIN variables \subseteq DOMAIN variables'
  BY <1>1, <1>3, <1>4 DEF operate, operate_calc, loadScript
<1>5. ASSUME NEW v \in Names, NEW u \in Uses, setVariable(v, u)
      PROVE  DOMAIN variables \subseteq DOMAIN variables'
  BY <1>3, <1>5 DEF setVariable
<1>6. CASE UNCHANGED variables
  BY <1>6
<1>7. CASE loadNothing \/ saveScript \/ clear \/ Cancel \/ UNCHANGED vars
  BY <1>7 DEF loadNothing, saveScript, clear, Cancel, vars, modelVars
<1>8. CASE (\E m \in {"Evaluation", "Calculation"} : setMode(m)) \/ (\E v \in Names : edit_var(v))
           \/ (\E u \in Uses : TypeValue(u))
  BY <1>8 DEF setMode, edit_var, TypeValue, modelVars
<1> QED BY <1>2, <1>4, <1>5, <1>7, <1>8 DEF Next

\* Unless a queued call ran while it was open, the dialog removes no variable
\* that another uses, and OK replaces the value that it showed.
THEOREM DialogStaysSafe == Spec => DialogSafe
<1> DEFINE Safe == ~late =>
          /\ \A v \in DOMAIN variables \ DOMAIN variables' :
                \A u \in DOMAIN variables' : v \notin variables'[u]
          /\ dialog # NoVar /\ entered' # entered =>
                dialog \in DOMAIN variables /\ variables[dialog] = opened
<1>1. ASSUME IInv, [Next]_vars PROVE [Safe]_vars
  <2> SUFFICES ASSUME ~late PROVE Safe
    OBVIOUS
  <2>1. CASE removeVariable
    <3>1. /\ variables' = [u \in DOMAIN variables \ {dialog} |-> variables[u]]
          /\ dialog # NoVar /\ removable /\ UNCHANGED entered
      BY <2>1 DEF removeVariable, Idle, history
    <3>2. \A u \in DOMAIN variables : dialog \notin variables[u]
      BY <1>1, <3>1 DEF IInv, DialogTrue, canRemove
    <3> QED BY <3>1, <3>2
  <2>2. CASE ~removeVariable
    BY <1>1, <2>2, OnlyRemoveForgets DEF IInv, DialogTrue
  <2> QED BY <2>1, <2>2
<1>2. Spec => [][Safe]_vars
  BY <1>1, Invariance, PTL DEF Spec
<1> QED BY <1>2 DEF DialogSafe
=============================================================================
