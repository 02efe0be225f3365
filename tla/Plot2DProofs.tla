---------------------------- MODULE Plot2DProofs ----------------------------
(***************************************************************************)
(* Proofs about Plot2D: the plot being edited stays in the list under the  *)
(* name the form holds, whatever clicks, tab changes and HTTP calls come   *)
(* in between, and OK is enabled for just what can be drawn.               *)
(***************************************************************************)
EXTENDS Plot2D, SequenceTheorems, WellFoundedInduction, TLAPS

\* A set of natural numbers that is not empty has a least element.
LEMMA LeastNat ==
    ASSUME NEW T \in SUBSET Nat, T # {}
    PROVE  \E x \in T : \A y \in T : x <= y
<1>1. PICK x \in T : \A y \in T : ~(<<y, x>> \in OpToRel(<, Nat))
  BY NatLessThanWellFounded, WFMin
<1>2. \A y \in T : ~(y < x)
  BY <1>1 DEF OpToRel
<1> QED BY <1>2

\* indexForName finds a row of that name exactly if there is one.
LEMMA FirstNamedFinds ==
    ASSUME NEW s \in Seq(Plot), NEW n
    PROVE  /\ FirstNamed(s, n) \in 0 .. Len(s)
           /\ FirstNamed(s, n) # 0 => s[FirstNamed(s, n)].name = n
           /\ (\E i \in DOMAIN s : s[i].name = n) => FirstNamed(s, n) # 0
<1>1. CASE \E i \in DOMAIN s : s[i].name = n
  <2> DEFINE T == {i \in DOMAIN s : s[i].name = n}
  <2>1. T \in SUBSET Nat /\ T # {}
    BY <1>1
  <2>2. PICK x \in T : \A y \in T : x <= y
    BY <2>1, LeastNat
  <2>3. x \in DOMAIN s /\ s[x].name = n /\ \A j \in 1 .. x - 1 : s[j].name # n
    BY <2>2
  <2>4. /\ FirstNamed(s, n) \in DOMAIN s
        /\ s[FirstNamed(s, n)].name = n
    BY <1>1, <2>3 DEF FirstNamed
  <2> QED BY <2>4
<1>2. CASE ~\E i \in DOMAIN s : s[i].name = n
  BY <1>2 DEF FirstNamed
<1> QED BY <1>1, <1>2

\* What is left of a sequence when row i is removed.
LEMMA WithoutRow ==
    ASSUME NEW s \in Seq(Plot), NEW i \in DOMAIN s
    PROVE  /\ Without(s, i) \in Seq(Plot)
           /\ Len(Without(s, i)) = Len(s) - 1
           /\ \A j \in 1 .. Len(s) - 1 :
                 Without(s, i)[j] = IF j < i THEN s[j] ELSE s[j + 1]
<1> DEFINE a == SubSeq(s, 1, i - 1)
           b == SubSeq(s, i + 1, Len(s))
<1>1. a \in Seq(Plot) /\ Len(a) = i - 1 /\ \A j \in 1 .. i - 1 : a[j] = s[j]
  OBVIOUS
<1>2. b \in Seq(Plot) /\ Len(b) = Len(s) - i /\ \A j \in 1 .. Len(s) - i : b[j] = s[i + j]
  OBVIOUS
<1> HIDE DEF a, b
<1>3. /\ a \o b \in Seq(Plot) /\ Len(a \o b) = Len(s) - 1
      /\ \A j \in 1 .. Len(s) - 1 : (a \o b)[j] = IF j <= i - 1 THEN a[j] ELSE b[j - (i - 1)]
  <2>1. Len(a) + Len(b) = Len(s) - 1 /\ i \in 1 .. Len(s)
    BY <1>1, <1>2
  <2>2. /\ a \o b \in Seq(Plot) /\ Len(a \o b) = Len(a) + Len(b)
        /\ \A j \in 1 .. Len(a) + Len(b) :
              (a \o b)[j] = IF j <= Len(a) THEN a[j] ELSE b[j - Len(a)]
    BY <1>1, <1>2, ConcatProperties
  <2> QED BY <1>1, <2>1, <2>2
<1>4. \A j \in 1 .. Len(s) - 1 : (a \o b)[j] = IF j < i THEN s[j] ELSE s[j + 1]
  <2> SUFFICES ASSUME NEW j \in 1 .. Len(s) - 1
               PROVE  (a \o b)[j] = IF j < i THEN s[j] ELSE s[j + 1]
    OBVIOUS
  <2>1. CASE j < i
    BY <1>1, <1>3, <2>1
  <2>2. CASE ~(j < i)
    <3>1. j - (i - 1) \in 1 .. Len(s) - i /\ i + (j - (i - 1)) = j + 1
      BY <2>2
    <3>2. b[j - (i - 1)] = s[j + 1]
      BY <1>2, <3>1
    <3> QED BY <1>3, <2>2, <3>2
  <2> QED BY <2>1, <2>2
<1> QED BY <1>3, <1>4 DEF Without, a, b
-----------------------------------------------------------------------------
(* The inductive invariant.  What the properties need beside themselves is  *)
(* that the name functools gave the form stays unused until OK uses it.     *)
FormNameFresh == ~remote /\ tool # 0 /\ ~editing => name \notin PlotNames

IInv ==
    /\ TypeOK
    /\ EditedPlotThere /\ NamesUnique /\ FormNameFresh
    /\ OkChecked /\ CrashOnlyUnchecked

USE LimitsAssumption, TextsAssumption, NamesAssumption, PlotsAssumption, TabsAssumption

\* The tab starts with no plot and an empty form.
LEMMA InitIInv == Init => IInv
<1> SUFFICES ASSUME Init PROVE IInv
  OBVIOUS
<1>1. plots = <<>> /\ plots \in Seq(Plot) /\ Len(plots) = 0
  BY DEF Init
<1>2. uplimit \in Limit /\ downlimit \in Limit
  BY DEF Init, Limit
<1>3. TypeOK
  <2>1. fate \in {"up", "crashed"} /\ tab \in 0 .. 3 /\ tool \in 0 .. 3
    BY DEF Init
  <2>2. title \in {"Add", "Editing"} /\ name \in Names /\ text \in Texts \cup {NoText}
    BY DEF Init, Names
  <2>3. /\ okEnabled \in BOOLEAN /\ preview \in Texts \cup {NoText}
        /\ editing \in BOOLEAN /\ defined \in BOOLEAN
        /\ target \in Nat /\ remote \in BOOLEAN /\ moved \in BOOLEAN
    BY DEF Init
  <2>4. Len(plots) <= MaxPlots /\ current \in 0 .. Len(plots)
    BY <1>1 DEF Init
  <2> QED BY <1>1, <1>2, <2>1, <2>2, <2>3, <2>4 DEF TypeOK
<1>4. EditedPlotThere /\ NamesUnique /\ FormNameFresh /\ CrashOnlyUnchecked
  BY <1>1 DEF Init, EditedPlotThere, NamesUnique, FormNameFresh, CrashOnlyUnchecked
<1>5. OkChecked
  BY DEF Init, OkChecked, Draws, Texts
<1> QED BY <1>3, <1>4, <1>5 DEF IInv

\* edit() leaves OK and the preview right, whatever text and limits it judges.
LEMMA EditJudges ==
    ASSUME TypeOK, OkChecked, CrashOnlyUnchecked, Up, fate' = "up", UNCHANGED defined,
           NEW t \in Texts \cup {NoText}, NEW u \in Limit, NEW d \in Limit,
           edit(t, u, d), text' = t, uplimit' = u, downlimit' = d
    PROVE  /\ okEnabled' \in BOOLEAN /\ preview' \in Texts \cup {NoText} /\ moved' \in BOOLEAN
           /\ OkChecked' /\ CrashOnlyUnchecked'
BY DEF edit, Judges, Verdict, OkChecked, CrashOnlyUnchecked, GoodLimits, Draws, TypeOK,
       Up, Limit, Texts
-----------------------------------------------------------------------------
\* new_func, called by the OK button or by operate_add2d: the text can be
\* drawn if the limits are good and no variable changed.
LEMMA NewFunc ==
    ASSUME IInv, Up, NEW t \in Texts \cup {NoText},
           editing \/ Len(plots) < MaxPlots,
           GoodLimits(uplimit, downlimit) /\ ~moved => Draws(t),
           tool # 0 \/ remote',
           new_func(t), UNCHANGED <<defined, target>>,
           remote' \in {remote, TRUE}
    PROVE  IInv'
<1> DEFINE row == FirstNamed(plots, name)
<1> USE DEF IInv
<1>1. /\ row \in 0 .. Len(plots)
      /\ row # 0 => plots[row].name = name
      /\ (\E i \in DOMAIN plots : plots[i].name = name) => row # 0
  BY FirstNamedFinds DEF TypeOK
<1>2. editing => row # 0
  BY <1>1 DEF EditedPlotThere
<1>3. CASE fate' = "crashed"
  <2>1. /\ ~Draws(t) /\ text' = t
        /\ UNCHANGED <<tabVars, listVars, name, uplimit, downlimit, okEnabled,
                       preview, editing, moved>>
    BY <1>2, <1>3 DEF new_func, Up
  <2>2. TypeOK'
    BY <1>3, <2>1 DEF TypeOK, tabVars, listVars
  <2>3. EditedPlotThere' /\ NamesUnique' /\ FormNameFresh'
    BY <2>1 DEF TypeOK, EditedPlotThere, NamesUnique, FormNameFresh, PlotNames, tabVars, listVars
  <2>4. OkChecked' /\ CrashOnlyUnchecked'
    BY <1>3, <2>1 DEF OkChecked, CrashOnlyUnchecked, GoodLimits
  <2> QED BY <2>2, <2>3, <2>4
<1>4. CASE fate' # "crashed"
  <2>1. /\ t \in Texts
        /\ plots' = IF editing THEN [plots EXCEPT ![row] = createFunction(t)]
                    ELSE Append(plots, createFunction(t))
        /\ editing' = FALSE
        /\ text' = NoText /\ edit(NoText, uplimit, downlimit)
        /\ tool' = 0 /\ title' = IF tool # 0 THEN "Add" ELSE title
        /\ current' = FirstNamed(plots', name)
        /\ UNCHANGED <<fate, tab, name, uplimit, downlimit>>
    BY <1>4 DEF new_func, clear, Draws, Texts
  <2>2. createFunction(t) \in Plot /\ createFunction(t).name = name
    BY <2>1 DEF createFunction, Plot, TypeOK
  <2>3. plots' \in Seq(Plot) /\ Len(plots') <= MaxPlots
    BY <1>1, <1>2, <2>1, <2>2 DEF TypeOK
  <2>4. current' \in 0 .. Len(plots')
    BY <2>1, <2>3, FirstNamedFinds
  <2>5. /\ okEnabled' \in BOOLEAN /\ preview' \in Texts \cup {NoText} /\ moved' \in BOOLEAN
        /\ OkChecked' /\ CrashOnlyUnchecked'
    BY <2>1, EditJudges DEF Up, TypeOK
  <2>6. TypeOK'
    <3>1. fate' \in {"up", "crashed"} /\ tab' \in 0 .. 3 /\ tool' \in 0 .. 3
      BY <2>1 DEF TypeOK
    <3>2. title' \in {"Add", "Editing"} /\ name' \in Names
      BY <2>1 DEF TypeOK
    <3>3. text' \in Texts \cup {NoText} /\ uplimit' \in Limit /\ downlimit' \in Limit
      BY <2>1 DEF TypeOK
    <3>4. editing' \in BOOLEAN /\ defined' \in BOOLEAN /\ target' \in Nat /\ remote' \in BOOLEAN
      BY <2>1 DEF TypeOK
    <3> QED BY <2>3, <2>4, <2>5, <3>1, <3>2, <3>3, <3>4 DEF TypeOK
  <2>7. NamesUnique'
    <3> SUFFICES ASSUME ~remote'
                 PROVE  \A i, j \in DOMAIN plots' : plots'[i].name = plots'[j].name => i = j
      BY DEF NamesUnique
    <3>1. ~remote /\ \A i, j \in DOMAIN plots : plots[i].name = plots[j].name => i = j
      BY DEF NamesUnique, TypeOK
    <3>2. CASE editing
      <4>1. \A i \in DOMAIN plots : plots'[i].name = plots[i].name
        BY <1>1, <1>2, <2>1, <2>2, <3>2 DEF TypeOK
      <4>2. DOMAIN plots' = DOMAIN plots
        BY <1>1, <1>2, <2>1, <3>2 DEF TypeOK
      <4> QED BY <3>1, <4>1, <4>2
    <3>3. CASE ~editing
      <4>1. \A i \in DOMAIN plots : plots[i].name # name
        BY <3>1, <3>3 DEF FormNameFresh, PlotNames
      <4>2. /\ Len(plots') = Len(plots) + 1
            /\ \A i \in DOMAIN plots : plots'[i] = plots[i]
            /\ plots'[Len(plots) + 1].name = name
        BY <2>1, <2>2, <3>3 DEF TypeOK
      <4> QED BY <2>3, <3>1, <4>1, <4>2 DEF TypeOK
    <3> QED BY <3>2, <3>3
  <2>8. EditedPlotThere' /\ FormNameFresh'
    BY <2>1 DEF EditedPlotThere, FormNameFresh
  <2> QED BY <2>5, <2>6, <2>7, <2>8
<1> QED BY <1>3, <1>4
-----------------------------------------------------------------------------
\* functools names the form afresh and ends editing.
LEMMA SelectTabStep ==
    ASSUME IInv, NEW i \in 0 .. 3, SelectTab(i)
    PROVE  IInv'
<1> USE DEF IInv, SelectTab
<1>1. CASE i = 1 /\ plots = <<>> /\ tool # 1
  <2>1. tool' = 1 /\ name' \in Ids \ PlotNames /\ editing' = FALSE /\ UNCHANGED title
    BY <1>1 DEF ShowTool, functools
  <2>2. TypeOK'
    BY <2>1 DEF TypeOK, listVars, Names
  <2>3. EditedPlotThere' /\ NamesUnique' /\ FormNameFresh'
    BY <2>1 DEF EditedPlotThere, NamesUnique, FormNameFresh, PlotNames, listVars
  <2>4. OkChecked' /\ CrashOnlyUnchecked'
    BY DEF OkChecked, CrashOnlyUnchecked, GoodLimits, Draws
  <2> QED BY <2>2, <2>3, <2>4
<1>2. CASE ~(i = 1 /\ plots = <<>> /\ tool # 1)
  <2>1. UNCHANGED <<tool, title, name, editing>>
    BY <1>2 DEF ShowTool
  <2>2. TypeOK'
    BY <2>1 DEF TypeOK, listVars
  <2>3. EditedPlotThere' /\ NamesUnique' /\ FormNameFresh'
    BY <2>1 DEF EditedPlotThere, NamesUnique, FormNameFresh, PlotNames, listVars
  <2>4. OkChecked' /\ CrashOnlyUnchecked'
    BY DEF OkChecked, CrashOnlyUnchecked, GoodLimits, Draws
  <2> QED BY <2>2, <2>3, <2>4
<1> QED BY <1>1, <1>2

\* Turning to List keeps what is being edited; any other tab starts afresh.
LEMMA SelectToolStep ==
    ASSUME IInv, NEW i \in 0 .. 3, SelectTool(i)
    PROVE  IInv'
<1> USE DEF IInv, SelectTool
<1>1. tool' = i /\ functools(i)
  BY DEF ShowTool
<1>2. \/ i = 0 /\ title' = "Add" /\ UNCHANGED <<name, editing>>
      \/ i # 0 /\ name' \in Ids \ PlotNames /\ editing' = FALSE /\ UNCHANGED title
  BY <1>1 DEF functools
<1>3. TypeOK'
  BY <1>1, <1>2 DEF TypeOK, listVars, Names
<1>4. EditedPlotThere' /\ NamesUnique' /\ FormNameFresh'
  BY <1>1, <1>2 DEF EditedPlotThere, NamesUnique, FormNameFresh, PlotNames, listVars
<1>5. OkChecked' /\ CrashOnlyUnchecked'
  BY DEF OkChecked, CrashOnlyUnchecked, GoodLimits, Draws
<1> QED BY <1>3, <1>4, <1>5

\* Typing a text leaves the list and the mode alone.
LEMMA TypeFunctionStep ==
    ASSUME IInv, NEW t \in Texts \cup {NoText}, TypeFunction(t)
    PROVE  IInv'
<1> USE DEF IInv, TypeFunction
<1>1. /\ okEnabled' \in BOOLEAN /\ preview' \in Texts \cup {NoText} /\ moved' \in BOOLEAN
      /\ OkChecked' /\ CrashOnlyUnchecked'
  BY EditJudges DEF setFunction, TypeOK, Up
<1>2. TypeOK'
  BY <1>1 DEF TypeOK, setFunction, tabVars, listVars
<1>3. EditedPlotThere' /\ NamesUnique' /\ FormNameFresh'
  BY DEF EditedPlotThere, NamesUnique, FormNameFresh, PlotNames, tabVars, listVars
<1> QED BY <1>1, <1>2, <1>3

\* A limit that is no number makes the limits bad; one that is gets judged.
LEMMA UpdateLimitStep ==
    ASSUME IInv, NEW l \in Limit, updateUplimit(l) \/ updateDownlimit(l)
    PROVE  IInv'
<1> USE DEF IInv
<1>1. /\ UNCHANGED <<fate, tabVars, listVars, name, text, editing, defined, target, remote>>
      /\ uplimit' \in Limit /\ downlimit' \in Limit /\ Up
      /\ \/ edit(text, uplimit', downlimit')
         \/ ~GoodLimits(uplimit', downlimit') /\ UNCHANGED <<okEnabled, preview, moved>>
  BY DEF updateUplimit, updateDownlimit, TypeOK, GoodLimits, Limit
<1>2. /\ okEnabled' \in BOOLEAN /\ preview' \in Texts \cup {NoText} /\ moved' \in BOOLEAN
      /\ OkChecked' /\ CrashOnlyUnchecked'
  <2>1. CASE edit(text, uplimit', downlimit')
    BY <1>1, <2>1, EditJudges DEF TypeOK, Up
  <2>2. CASE ~GoodLimits(uplimit', downlimit') /\ UNCHANGED <<okEnabled, preview, moved>>
    BY <1>1, <2>2 DEF TypeOK, OkChecked, CrashOnlyUnchecked, Up
  <2> QED BY <1>1, <2>1, <2>2
<1>3. TypeOK'
  BY <1>1, <1>2 DEF TypeOK, tabVars, listVars
<1>4. EditedPlotThere' /\ NamesUnique' /\ FormNameFresh'
  BY <1>1 DEF EditedPlotThere, NamesUnique, FormNameFresh, PlotNames, tabVars, listVars
<1> QED BY <1>2, <1>3, <1>4

\* OK adds the plot or replaces the one that was opened, and clears the form.
LEMMA OkStep ==
    ASSUME IInv, Ok
    PROVE  IInv'
<1>1. GoodLimits(uplimit, downlimit) /\ ~moved => Draws(text)
  BY DEF IInv, Ok, OkChecked, Up
<1>2. text \in Texts \cup {NoText} /\ tool # 0 /\ remote' \in {remote, TRUE}
  BY DEF IInv, TypeOK, Ok, FormShown
<1> QED BY <1>1, <1>2, NewFunc DEF Ok

\* A call of /add/2d adds a plot while the form may be editing another.
LEMMA OperateAdd2DStep ==
    ASSUME IInv, NEW t \in Texts \cup {NoText}, operate_add2d(t)
    PROVE  IInv'
<1>1. CASE Verdict(t, uplimit, downlimit)
  <2>1. GoodLimits(uplimit, downlimit) /\ ~moved => Draws(t)
    BY <1>1 DEF Verdict, Judges
  <2> QED BY <1>1, <2>1, NewFunc DEF operate_add2d
<1>2. CASE ~Verdict(t, uplimit, downlimit)
  <2> USE DEF IInv
  <2>1. /\ setFunction(t) /\ Up
        /\ UNCHANGED <<fate, tabVars, listVars, name, uplimit, downlimit, editing, remote>>
        /\ UNCHANGED <<defined, target>>
    BY <1>2 DEF operate_add2d
  <2>2. /\ okEnabled' \in BOOLEAN /\ preview' \in Texts \cup {NoText} /\ moved' \in BOOLEAN
        /\ OkChecked' /\ CrashOnlyUnchecked'
    BY <2>1, EditJudges DEF setFunction, TypeOK, Up
  <2>3. TypeOK'
    BY <2>1, <2>2 DEF TypeOK, setFunction, tabVars, listVars
  <2>4. EditedPlotThere' /\ NamesUnique' /\ FormNameFresh'
    BY <2>1 DEF EditedPlotThere, NamesUnique, FormNameFresh, PlotNames, tabVars, listVars
  <2> QED BY <2>2, <2>3, <2>4
<1> QED BY <1>1, <1>2

\* Remove takes out the current row, and the form edits no more.
LEMMA RemoveStep ==
    ASSUME IInv, Remove
    PROVE  IInv'
<1> USE DEF IInv, Remove
<1>1. /\ okEnabled' \in BOOLEAN /\ preview' \in Texts \cup {NoText} /\ moved' \in BOOLEAN
      /\ OkChecked' /\ CrashOnlyUnchecked'
  BY EditJudges DEF clear, TypeOK, Up
<1>2. /\ plots' \in Seq(Plot) /\ Len(plots') <= Len(plots)
      /\ ~remote => \A i, j \in DOMAIN plots' : plots'[i].name = plots'[j].name => i = j
  <2>1. CASE current = 0
    BY <2>1 DEF TypeOK, NamesUnique
  <2>2. CASE current # 0
    <3>1. current \in DOMAIN plots /\ plots' = Without(plots, current)
      BY <2>2 DEF TypeOK
    <3>2. /\ plots' \in Seq(Plot) /\ Len(plots') = Len(plots) - 1
          /\ \A j \in 1 .. Len(plots) - 1 :
                plots'[j] = IF j < current THEN plots[j] ELSE plots[j + 1]
      BY <3>1, WithoutRow DEF TypeOK
    <3>3. ASSUME ~remote, NEW i \in DOMAIN plots', NEW j \in DOMAIN plots',
                 plots'[i].name = plots'[j].name
          PROVE  i = j
      <4> DEFINE at(k) == IF k < current THEN k ELSE k + 1
      <4>1. \A k \in DOMAIN plots' : at(k) \in DOMAIN plots /\ plots'[k] = plots[at(k)]
        BY <3>1, <3>2 DEF TypeOK
      <4>2. at(i) = at(j)
        BY <3>3, <4>1 DEF NamesUnique
      <4> QED BY <3>1, <3>2, <4>2 DEF TypeOK
    <3> QED BY <3>2, <3>3 DEF TypeOK
  <2> QED BY <2>1, <2>2
<1>3. TypeOK'
  <2>1. plots' \in Seq(Plot) /\ current' \in 0 .. Len(plots') /\ Len(plots') <= MaxPlots
    BY <1>2 DEF TypeOK
  <2>2. /\ fate' \in {"up", "crashed"} /\ tab' \in 0 .. 3 /\ tool' \in 0 .. 3
        /\ title' \in {"Add", "Editing"}
    BY DEF TypeOK
  <2>3. /\ name' \in Names /\ text' \in Texts \cup {NoText}
        /\ uplimit' \in Limit /\ downlimit' \in Limit
    BY DEF TypeOK, clear
  <2>4. editing' \in BOOLEAN /\ defined' \in BOOLEAN /\ target' \in Nat /\ remote' \in BOOLEAN
    BY DEF TypeOK
  <2> QED BY <1>1, <2>1, <2>2, <2>3, <2>4 DEF TypeOK
<1>4. EditedPlotThere' /\ NamesUnique' /\ FormNameFresh'
  BY <1>2 DEF EditedPlotThere, NamesUnique, FormNameFresh
<1> QED BY <1>1, <1>3, <1>4

\* A click moves the current row while the list is shown; that it is the plot
\* being edited matters only while the form is.
LEMMA ClickStep ==
    ASSUME IInv, NEW r \in DOMAIN plots, Click(r)
    PROVE  IInv'
<1> USE DEF IInv, Click
<1>1. TypeOK'
  BY DEF TypeOK, tabVars, formVars
<1>2. EditedPlotThere' /\ NamesUnique' /\ FormNameFresh'
  BY DEF EditedPlotThere, NamesUnique, FormNameFresh, PlotNames, tabVars, formVars,
         ListShown, TypeOK
<1>3. OkChecked' /\ CrashOnlyUnchecked'
  BY DEF OkChecked, CrashOnlyUnchecked, GoodLimits, Draws, formVars
<1> QED BY <1>1, <1>2, <1>3

\* The plot that is opened is in the list under the name given to the form.
LEMMA DoubleClickStep ==
    ASSUME IInv, NEW r \in DOMAIN plots, DoubleClick(r)
    PROVE  IInv'
<1> USE DEF IInv, DoubleClick
<1>1. plots[r] \in Plot /\ r \in 1 .. Len(plots)
  BY DEF TypeOK
<1>2. name' \in Names /\ text' \in Texts
  BY <1>1 DEF Plot, setFunction
<1>3. /\ okEnabled' \in BOOLEAN /\ preview' \in Texts \cup {NoText} /\ moved' \in BOOLEAN
      /\ OkChecked' /\ CrashOnlyUnchecked'
  BY <1>2, EditJudges DEF setFunction, TypeOK, Up
<1>4. TypeOK'
  <2>1. /\ fate' \in {"up", "crashed"} /\ tab' \in 0 .. 3 /\ tool' \in 0 .. 3
        /\ title' \in {"Add", "Editing"}
    BY DEF TypeOK
  <2>2. plots' \in Seq(Plot) /\ Len(plots') <= MaxPlots /\ current' \in 0 .. Len(plots')
    BY <1>1 DEF TypeOK
  <2>3. /\ uplimit' \in Limit /\ downlimit' \in Limit
        /\ target' \in Nat /\ remote' \in BOOLEAN /\ defined' \in BOOLEAN /\ editing' \in BOOLEAN
    BY <1>1 DEF TypeOK
  <2> QED BY <1>2, <1>3, <2>1, <2>2, <2>3 DEF TypeOK
<1>5. EditedPlotThere' /\ NamesUnique' /\ FormNameFresh'
  BY <1>1 DEF EditedPlotThere, NamesUnique, FormNameFresh
<1> QED BY <1>3, <1>4, <1>5

\* A name from freeId() is neither in the list nor in the form.
LEMMA Add2DStep ==
    ASSUME IInv, NEW t \in Curves, NEW id \in Ids, add2D(t, id)
    PROVE  IInv'
<1> USE DEF IInv, add2D
<1> DEFINE p == [name |-> id, text |-> t]
<1>1. p \in Plot /\ p.name = id
  BY DEF Plot, Names, Texts
<1>2. /\ plots' \in Seq(Plot) /\ Len(plots') = Len(plots) + 1
      /\ \A i \in DOMAIN plots : plots'[i] = plots[i]
      /\ plots'[Len(plots) + 1].name = id
  BY <1>1 DEF TypeOK
<1>3. TypeOK'
  <2>1. Len(plots') <= MaxPlots /\ current' \in 0 .. Len(plots')
    BY <1>2 DEF TypeOK
  <2>2. tab' \in 0 .. 3
    OBVIOUS
  <2> QED BY <1>2, <2>1, <2>2 DEF TypeOK, formVars
<1>4. \A i \in DOMAIN plots : plots[i].name # id
  BY DEF PlotNames
<1>5. DOMAIN plots' = DOMAIN plots \cup {Len(plots) + 1}
  BY <1>2 DEF TypeOK
<1>6. EditedPlotThere'
  BY <1>2, <1>5 DEF EditedPlotThere, formVars, TypeOK
<1>7. NamesUnique'
  BY <1>2, <1>4, <1>5 DEF NamesUnique
<1>8. FormNameFresh'
  BY <1>2, <1>5 DEF FormNameFresh, PlotNames, formVars
<1>9. OkChecked' /\ CrashOnlyUnchecked'
  BY DEF OkChecked, CrashOnlyUnchecked, GoodLimits, Draws, formVars
<1> QED BY <1>3, <1>6, <1>7, <1>8, <1>9

\* A variable that comes or goes changes which texts can be drawn.
LEMMA VariableChangesStep ==
    ASSUME IInv, VariableChanges
    PROVE  IInv'
<1> USE DEF IInv, VariableChanges
<1>1. TypeOK'
  BY DEF TypeOK, tabVars, listVars, formVars
<1>2. EditedPlotThere' /\ NamesUnique' /\ FormNameFresh'
  BY DEF EditedPlotThere, NamesUnique, FormNameFresh, PlotNames, tabVars, listVars, formVars
<1>3. OkChecked' /\ CrashOnlyUnchecked'
  BY DEF OkChecked, CrashOnlyUnchecked
<1> QED BY <1>1, <1>2, <1>3

\* Steps of others change nothing here.
LEMMA StutterStep ==
    ASSUME IInv, UNCHANGED vars
    PROVE  IInv'
BY DEF IInv, vars, tabVars, listVars, formVars, TypeOK, EditedPlotThere, NamesUnique,
       FormNameFresh, PlotNames, OkChecked, CrashOnlyUnchecked, GoodLimits, Draws
-----------------------------------------------------------------------------
\* The inductive invariant holds of every behaviour of the form and the list.
THEOREM Invariance == Spec => []IInv
<1>1. ASSUME IInv, [Next]_vars PROVE IInv'
  <2>1. ASSUME NEW i \in TabsUsed, SelectTab(i) PROVE IInv'
    BY <1>1, <2>1, SelectTabStep
  <2>2. ASSUME NEW i \in ToolsUsed, SelectTool(i) PROVE IInv'
    BY <1>1, <2>2, SelectToolStep
  <2>3. ASSUME NEW t \in Texts \cup {NoText}, TypeFunction(t) \/ operate_add2d(t) PROVE IInv'
    BY <1>1, <2>3, TypeFunctionStep, OperateAdd2DStep
  <2>4. ASSUME NEW l \in Limit, updateUplimit(l) \/ updateDownlimit(l) PROVE IInv'
    BY <1>1, <2>4, UpdateLimitStep
  <2>5. CASE Ok \/ Remove
    BY <1>1, <2>5, OkStep, RemoveStep
  <2>6. ASSUME NEW r \in DOMAIN plots, Click(r) \/ DoubleClick(r) PROVE IInv'
    BY <1>1, <2>6, ClickStep, DoubleClickStep
  <2>7. ASSUME NEW t \in Curves, NEW id \in Ids, add2D(t, id) PROVE IInv'
    BY <1>1, <2>7, Add2DStep
  <2>8. CASE VariableChanges
    BY <1>1, <2>8, VariableChangesStep
  <2>9. CASE UNCHANGED vars
    BY <1>1, <2>9, StutterStep
  <2> QED BY <1>1, <2>1, <2>2, <2>3, <2>4, <2>5, <2>6, <2>7, <2>8, <2>9 DEF Next
<1> QED BY <1>1, InitIInv, PTL DEF Spec

\* Every variable stays in its type.
THEOREM TypeCorrect == Spec => []TypeOK
BY Invariance, PTL DEF IInv

\* new_func finds the row of the plot being edited and Remove removes that
\* plot, for every number of plots and names.
THEOREM EditedPlotStays == Spec => []EditedPlotThere
BY Invariance, PTL DEF IInv

\* The GUI alone never gives two plots one name.
THEOREM NamesStayUnique == Spec => []NamesUnique
BY Invariance, PTL DEF IInv

\* OK is enabled for what can be drawn as long as the limits are good.
THEOREM OkFollowsText == Spec => []OkChecked
BY Invariance, PTL DEF IInv

\* Only bad limits or a variable changed in between lead to the assertion.
THEOREM OnlyUncheckedCrashes == Spec => []CrashOnlyUnchecked
BY Invariance, PTL DEF IInv

\* What new_func changes in a list of the same length is the plot opened.
LEMMA NewFuncEditsTarget ==
    ASSUME IInv, NEW t, new_func(t), ~remote, Len(plots') = Len(plots),
           NEW i \in DOMAIN plots, plots'[i] # plots[i]
    PROVE  editing /\ i = target
<1> DEFINE row == FirstNamed(plots, name)
<1>1. /\ plots' = IF editing THEN [plots EXCEPT ![row] = createFunction(t)]
                  ELSE Append(plots, createFunction(t))
      /\ editing => row # 0
  BY DEF new_func, listVars
<1>2. editing
  BY <1>1 DEF IInv, TypeOK
<1>3. row \in DOMAIN plots /\ plots[row].name = name
  BY <1>1, <1>2, FirstNamedFinds DEF IInv, TypeOK
<1>4. row = target
  BY <1>2, <1>3 DEF IInv, EditedPlotThere, NamesUnique
<1>5. i = row
  BY <1>1, <1>2
<1> QED BY <1>2, <1>4, <1>5

\* Editing a plot changes that plot and no other, as long as the HTTP server
\* has added none.
THEOREM EditingIsLocal == Spec => EditsOnlyTarget
<1> DEFINE Local == ~remote /\ Len(plots') = Len(plots) =>
                       \A i \in DOMAIN plots : plots'[i] # plots[i] => editing /\ i = target
<1>1. ASSUME IInv, [Next]_vars PROVE Local
  <2> SUFFICES ASSUME ~remote, Len(plots') = Len(plots),
                      NEW i \in DOMAIN plots, plots'[i] # plots[i]
               PROVE  editing /\ i = target
    OBVIOUS
  <2>1. ASSUME NEW t, new_func(t) PROVE editing /\ i = target
    BY <1>1, <2>1, NewFuncEditsTarget
  <2>2. CASE Ok
    BY <2>1, <2>2 DEF Ok
  <2>3. ASSUME NEW t \in Texts \cup {NoText}, TypeFunction(t) \/ operate_add2d(t)
        PROVE  editing /\ i = target
    BY <2>1, <2>3 DEF TypeFunction, operate_add2d, listVars
  <2>4. CASE Remove
    <3>1. current = 0 \/ (current \in DOMAIN plots /\ plots' = Without(plots, current))
      BY <1>1, <2>4 DEF Remove, IInv, TypeOK
    <3>2. current = 0
      BY <1>1, <3>1, WithoutRow DEF IInv, TypeOK
    <3> QED BY <2>4, <3>2 DEF Remove
  <2>5. ASSUME NEW t \in Curves, NEW id \in Ids, add2D(t, id) PROVE FALSE
    BY <1>1, <2>5 DEF add2D, IInv, TypeOK
  <2>6. ASSUME UNCHANGED plots PROVE FALSE
    BY <2>6
  <2>7. CASE UNCHANGED vars
    BY <2>6, <2>7 DEF vars, listVars
  <2>8. CASE \/ \E j \in TabsUsed : SelectTab(j)
             \/ \E j \in ToolsUsed : SelectTool(j)
             \/ \E l \in Limit : updateUplimit(l) \/ updateDownlimit(l)
             \/ \E r \in DOMAIN plots : Click(r) \/ DoubleClick(r)
             \/ VariableChanges
    BY <2>6, <2>8 DEF SelectTab, SelectTool, updateUplimit, updateDownlimit, Click,
                      DoubleClick, VariableChanges, listVars
  <2> QED BY <1>1, <2>2, <2>3, <2>4, <2>5, <2>7, <2>8 DEF Next
<1>2. Spec => [][Local]_vars
  BY <1>1, Invariance, PTL DEF Spec
<1> QED BY <1>2 DEF EditsOnlyTarget
=============================================================================
