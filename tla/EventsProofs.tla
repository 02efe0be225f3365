---------------------------- MODULE EventsProofs ----------------------------
(***************************************************************************)
(* Proofs about what the code makes of a sequence of events, for every     *)
(* sequence and all names, lines, rectangles and values: the variables of  *)
(* the plots, the arguments and the entries of the command line, the       *)
(* Viewport tab.  The code runs once for each event, so that an event more *)
(* is a step from what the invariant says of the others.                   *)
(***************************************************************************)
EXTENDS Events, SequenceTheorems, TLAPS

OfPlots == INSTANCE FoldProofs WITH op <- Event

OfArguments == INSTANCE FoldProofs WITH op <- Argument

OfLines == INSTANCE FoldProofs WITH op <- ReadLine

OfHistory == INSTANCE FoldProofs WITH op <- remove_history

OfViewport == INSTANCE FoldProofs WITH op <- ViewportEvent
-----------------------------------------------------------------------------
(* Sequences.                                                               *)
\* An element more leaves the others and their prefixes as they were.
LEMMA Appended ==
    ASSUME NEW S, NEW s \in Seq(S), NEW e \in S
    PROVE  /\ Append(s, e) \in Seq(S) /\ Len(s) \in Nat /\ Len(Append(s, e)) = Len(s) + 1
           /\ Append(s, e)[Len(s) + 1] = e /\ \A i \in 1 .. Len(s) : Append(s, e)[i] = s[i]
           /\ DOMAIN s = 1 .. Len(s) /\ DOMAIN Append(s, e) = 1 .. Len(s) + 1
OBVIOUS

\* So the prefixes of the others are prefixes of the whole.
LEMMA PrefixesKept ==
    ASSUME NEW S, NEW s \in Seq(S), NEW e \in S
    PROVE  \A i \in 0 .. Len(s) : SubSeq(Append(s, e), 1, i) = SubSeq(s, 1, i)
<1> TAKE i \in 0 .. Len(s)
<1>1. PICK t : t = Append(s, e)
  OBVIOUS
<1>2. t \in Seq(S) /\ Len(t) = Len(s) + 1 /\ \A j \in 1 .. Len(s) : t[j] = s[j]
  BY <1>1
<1>3. /\ Len(SubSeq(t, 1, i)) = i /\ Len(SubSeq(s, 1, i)) = i
      /\ \A j \in 1 .. i : SubSeq(t, 1, i)[j] = t[j] /\ SubSeq(s, 1, i)[j] = s[j]
  BY <1>2, SubSeqProperties
<1>4. SubSeq(t, 1, i) \in Seq(S) /\ SubSeq(s, 1, i) \in Seq(S)
  BY <1>2, SubSeqProperties
<1>5. SubSeq(t, 1, i) = SubSeq(s, 1, i)
  BY <1>2, <1>3, <1>4, SeqEqual
<1>6. QED
  BY <1>1, <1>5

\* A sequence is its own longest prefix.
LEMMA WholePrefix == ASSUME NEW S, NEW s \in Seq(S) PROVE SubSeq(s, 1, Len(s)) = s
OBVIOUS

\* The largest of some indices, when one more is larger than all.
LEMMA MaxWithNext ==
    ASSUME NEW n \in Nat, NEW t \in SUBSET (1 .. n) PROVE Max(t \cup {n + 1}) = n + 1
<1>1. PICK m, u : m = n + 1 /\ u = t \cup {m}
  OBVIOUS
<1>2. m \in Nat /\ u \in SUBSET (1 .. m) /\ u # {} /\ m \in u
  BY <1>1
<1>3. Max(u) \in u /\ \A y \in u : Max(u) >= y
  BY <1>2, OfPlots!MaxIn DEF Max, OfPlots!Max
<1>4. PICK x : x = Max(u)
  OBVIOUS
<1>5. x \in 1 .. m /\ x >= m
  BY <1>2, <1>3, <1>4
<1>6. x = m
  BY <1>2, <1>5
<1>7. QED
  BY <1>1, <1>4, <1>6

\* The smallest of some numbers.
LEMMA MinIs == ASSUME NEW T \in SUBSET Nat, NEW m \in T, \A x \in T : m <= x PROVE Min(T) = m
<1>1. Min(T) \in T /\ \A y \in T : Min(T) =< y
  BY DEF Min
<1>2. PICK x : x = Min(T)
  OBVIOUS
<1>3. x \in Nat /\ x <= m /\ m <= x
  BY <1>1, <1>2
<1>4. QED
  BY <1>2, <1>3
-----------------------------------------------------------------------------
(* FlattenSeq.                                                              *)
\* FlattenSeq is that of the module of folds.
LEMMA Flattened == ASSUME NEW s PROVE FlattenSeq(s) = OfPlots!FlattenSeq(s)
BY DEF FlattenSeq, OfPlots!FlattenSeq

\* No parts, no elements.
LEMMA FlattenEmpty == FlattenSeq(<<>>) = <<>>
BY Flattened, OfPlots!FlattenNone

\* A part more comes after the others.
LEMMA FlattenAppend ==
    ASSUME NEW S, NEW s \in Seq(Seq(S)), NEW e \in Seq(S)
    PROVE  FlattenSeq(Append(s, e)) = FlattenSeq(s) \o e
BY Flattened, OfPlots!FlattenOneMore

\* The elements of the parts are those of the whole.
LEMMA FlattenType == ASSUME NEW S, NEW s \in Seq(Seq(S)) PROVE FlattenSeq(s) \in Seq(S)
BY Flattened, OfPlots!FlattenInSeq

\* The same for functions: one of them has one part more.
LEMMA PartsAppend ==
    ASSUME NEW S, NEW n \in Nat, NEW u \in [1 .. n -> Seq(S)], NEW v \in [1 .. n + 1 -> Seq(S)],
           \A i \in 1 .. n : v[i] = u[i]
    PROVE  FlattenSeq(v) = FlattenSeq(u) \o v[n + 1] /\ FlattenSeq(u) \in Seq(S)
<1>1. PICK N \in Nat : N = n + 1
  OBVIOUS
<1>2. N \in 1 .. N /\ 1 .. N = (1 .. n) \cup {N}
  BY <1>1
<1>3. u \in Seq(Seq(S)) /\ Len(u) = n /\ v \in Seq(Seq(S)) /\ Len(v) = N
  BY <1>1
<1>4. PICK e \in Seq(S) : e = v[N]
  BY <1>1, <1>2
<1>5. PICK w : w = Append(u, e)
  OBVIOUS
<1>6. w \in Seq(Seq(S)) /\ Len(w) = N /\ w[N] = e /\ \A i \in 1 .. n : w[i] = u[i]
  BY <1>1, <1>3, <1>4, <1>5
<1>7. \A i \in 1 .. N : v[i] = w[i]
  BY <1>2, <1>4, <1>6
<1>8. v = w
  BY <1>3, <1>6, <1>7, SeqEqual
<1>9. FlattenSeq(w) = FlattenSeq(u) \o e
  BY <1>3, <1>4, <1>5, FlattenAppend
<1>10. FlattenSeq(u) \in Seq(S)
  BY <1>3, FlattenType
<1>11. QED
  BY <1>1, <1>4, <1>8, <1>9, <1>10
-----------------------------------------------------------------------------
(* The variables of the plots.                                              *)
\* Plots is a fold.
LEMMA PlotsFolded == ASSUME NEW s PROVE Plots(s) = OfPlots!Folded(NoPlots, s)
BY DEF Plots, FoldLeft, MapThenFoldSet, Max, OfPlots!Folded, OfPlots!FoldLeft, OfPlots!MapThenFoldSet, OfPlots!Max

\* At first there are no plots.
LEMMA PlotsEmpty == Plots(<<>>) = NoPlots
BY PlotsFolded, OfPlots!FoldEmpty

\* An event more changes what there is once.
LEMMA PlotsAppend ==
    ASSUME NEW S, NEW s \in Seq(S), NEW e PROVE Plots(Append(s, e)) = Event(Plots(s), e)
BY PlotsFolded, OfPlots!FoldAppend

PlotEvents ==
    {<<"add", n>> : n \in PlotNames} \cup {<<"set", n>> : n \in PlotNames}
    \cup {<<"clear">>} \cup {<<"remove", i>> : i \in Nat}

\* What VariableOfPlot says of one name.
VariableOf(events, n) ==
    /\ n \in DOMAIN Plots(events).m_vars <=> Lives(events, n) # {}
    /\ Lives(events, n) # {} =>
          Plots(events).m_vars[n] = IF events[Max(Lives(events, n))][1] = "add" THEN "plot" ELSE "other"

\* The events are events of plots, and the rows have names.
PlotsOK(events) ==
    /\ events \in Seq(PlotEvents)
    /\ \E rows \in Seq(PlotNames) : \E m_vars : Plots(events) = [rows |-> rows, m_vars |-> m_vars]
    /\ \A n \in PlotNames : VariableOf(events, n)

\* An event more does not change which rows the others removed.
LEMMA AboveAppend ==
    ASSUME NEW S, NEW s \in Seq(S), NEW e \in S, NEW n
    PROVE  /\ \A i \in 1 .. Len(s) : RemovesAbove(Append(s, e), i, n) <=> RemovesAbove(s, i, n)
           /\ RemovesAbove(Append(s, e), Len(s) + 1, n) <=>
                 e[1] = "remove" /\ e[2] < Len(Plots(s).rows) /\ Plots(s).rows[e[2] + 1] = n
<1>1. PICK t : t = Append(s, e)
  OBVIOUS
<1>2. t[Len(s) + 1] = e /\ \A i \in 1 .. Len(s) : t[i] = s[i]
  BY <1>1
<1>3. \A i \in 0 .. Len(s) : SubSeq(t, 1, i) = SubSeq(s, 1, i)
  <2>1. \A i \in 0 .. Len(s) : SubSeq(Append(s, e), 1, i) = SubSeq(s, 1, i)
    BY PrefixesKept
  <2>2. QED
    BY <1>1, <2>1
<1>4. \A i \in 1 .. Len(s) : SubSeq(t, 1, i - 1) = SubSeq(s, 1, i - 1)
  <2>1. ASSUME NEW i \in 1 .. Len(s), NEW j, j = i - 1
        PROVE  SubSeq(t, 1, j) = SubSeq(s, 1, j)
    <3>1. j \in 0 .. Len(s)
      BY <2>1
    <3>2. QED
      BY <1>3, <3>1
  <2>2. QED
    BY <2>1
<1>5. SubSeq(t, 1, Len(s) + 1 - 1) = s
  <2>1. PICK j : j = Len(s) /\ j \in 0 .. Len(s) /\ Len(s) + 1 - 1 = j
    OBVIOUS
  <2>2. SubSeq(t, 1, j) = SubSeq(s, 1, j)
    BY <1>3, <2>1
  <2>3. QED
    BY <2>1, <2>2, WholePrefix
<1>6. \A i \in 1 .. Len(s) : RemovesAbove(t, i, n) <=> RemovesAbove(s, i, n)
  BY <1>2, <1>4 DEF RemovesAbove
<1>7. RemovesAbove(t, Len(s) + 1, n) <=>
         e[1] = "remove" /\ e[2] < Len(Plots(s).rows) /\ Plots(s).rows[e[2] + 1] = n
  <2>1. PICK k : k = Len(s) + 1
    OBVIOUS
  <2>2. t[k] = e /\ SubSeq(t, 1, k - 1) = s
    BY <1>2, <1>5, <2>1
  <2>3. RemovesAbove(t, k, n) <=>
           e[1] = "remove" /\ e[2] < Len(Plots(s).rows) /\ Plots(s).rows[e[2] + 1] = n
    BY <2>2 DEF RemovesAbove
  <2>4. QED
    BY <2>1, <2>3
<1>8. QED
  BY <1>1, <1>6, <1>7

\* What an event more does to the lives of a name.
LEMMA LivesAppend ==
    ASSUME NEW S, NEW s \in Seq(S), NEW e \in S, NEW n
    PROVE  Lives(Append(s, e), n) =
              IF RemovesAbove(Append(s, e), Len(s) + 1, n) THEN {}
              ELSE Lives(s, n) \cup {i \in {Len(s) + 1} : Gives(e, n)}
<1>1. PICK t, k : t = Append(s, e) /\ k = Len(s) + 1
  OBVIOUS
<1>2. /\ Len(s) \in Nat /\ Len(t) = k /\ DOMAIN t = 1 .. k /\ DOMAIN s = 1 .. Len(s) /\ t[k] = e
      /\ \A i \in 1 .. Len(s) : t[i] = s[i]
  BY <1>1
<1>3. \A i \in 1 .. Len(s) : RemovesAbove(t, i, n) <=> RemovesAbove(s, i, n)
  BY <1>1, AboveAppend
<1>4. ASSUME NEW i
      PROVE  i \in Lives(t, n) <=>
               ~RemovesAbove(t, k, n) /\ (i \in Lives(s, n) \/ (i = k /\ Gives(e, n)))
  <2>1. CASE i \in 1 .. Len(s)
    <3>1. i \in 1 .. k /\ i # k /\ k \in i .. k /\ i .. k = (i .. Len(s)) \cup {k} /\ i .. Len(s) \subseteq 1 .. Len(s)
      BY <1>1, <1>2, <2>1
    <3>2. Gives(t[i], n) <=> Gives(s[i], n)
      BY <1>2, <2>1
    <3>3. QED
      BY <1>2, <1>3, <2>1, <3>1, <3>2 DEF Lives
  <2>2. CASE i = k
    <3>1. i \in 1 .. k /\ i \notin 1 .. Len(s) /\ i .. k = {k}
      BY <1>1, <1>2, <2>2
    <3>2. QED
      BY <1>2, <2>2, <3>1 DEF Lives
  <2>3. CASE i \notin 1 .. Len(s) /\ i # k
    <3>1. i \notin 1 .. k
      BY <1>1, <1>2, <2>3
    <3>2. QED
      BY <1>2, <2>3, <3>1 DEF Lives
  <2>4. QED
    BY <2>1, <2>2, <2>3
<1>5. QED
  BY <1>1, <1>4

\* What modify makes of the variables.
LEMMA Modified ==
    ASSUME NEW m_vars, NEW name, NEW value, NEW n
    PROVE  /\ n \in DOMAIN modify(m_vars, name, value) <=> n = name \/ n \in DOMAIN m_vars
           /\ modify(m_vars, name, value)[name] = value
           /\ n # name /\ n \in DOMAIN m_vars => modify(m_vars, name, value)[n] = m_vars[n]
BY DEF modify

\* What the removal of a row leaves.
LEMMA RowRemoved ==
    ASSUME NEW S, NEW rows \in Seq(S), NEW i \in 1 .. Len(rows)
    PROVE  /\ RemoveAt(rows, i) \in Seq(S) /\ Len(RemoveAt(rows, i)) = Len(rows) - 1
           /\ i < Len(rows) => RemoveAt(rows, i)[i] = rows[i + 1]
<1>1. PICK a, b : a = SubSeq(rows, 1, i - 1) /\ b = SubSeq(rows, i + 1, Len(rows))
  OBVIOUS
<1>2. PICK n \in Nat : n = Len(rows)
  OBVIOUS
<1>3. /\ a \in Seq(S) /\ Len(a) = i - 1 /\ b \in Seq(S) /\ Len(b) = n - i
      /\ i < n => b[1] = rows[i + 1]
  BY <1>1, <1>2
<1>4. /\ a \o b \in Seq(S) /\ Len(a \o b) = n - 1
      /\ i < n => (a \o b)[i] = b[1]
  BY <1>2, <1>3
<1>5. QED
  BY <1>1, <1>2, <1>3, <1>4 DEF RemoveAt

\* The event removes the plot in the row above that of the name.
Takes(e, rows, n) == e[1] = "remove" /\ e[2] < Len(rows) /\ rows[e[2] + 1] = n

\* What an event makes of the variable of a name.
Turns(e, rows, old, new, n) ==
    /\ Gives(e, n) => ~Takes(e, rows, n)
    /\ n \in DOMAIN new <=> ~Takes(e, rows, n) /\ (Gives(e, n) \/ n \in DOMAIN old)
    /\ n \in DOMAIN new => new[n] = IF Gives(e, n) THEN IF e[1] = "add" THEN "plot" ELSE "other" ELSE old[n]

\* It is what VariableOfPlot says of the name.
LEMMA VariableAppend ==
    ASSUME NEW S, NEW s \in Seq(S), NEW e \in S, NEW n, VariableOf(s, n), NEW old, NEW new, NEW rows,
           old = Plots(s).m_vars, rows = Plots(s).rows, new = Plots(Append(s, e)).m_vars,
           Turns(e, rows, old, new, n)
    PROVE  VariableOf(Append(s, e), n)
<1>0. PICK above : above <=> Takes(e, rows, n)
  OBVIOUS
<1>1. PICK t, k, before, after : t = Append(s, e) /\ k = Len(s) + 1 /\ before = Lives(s, n) /\ after = Lives(t, n)
  OBVIOUS
<1>2. after = IF above THEN {} ELSE before \cup {i \in {k} : Gives(e, n)}
  <2>1. RemovesAbove(t, k, n) <=> above
    BY <1>0, <1>1, AboveAppend DEF Takes
  <2>2. QED
    BY <1>1, <2>1, LivesAppend
<1>3. before \in SUBSET (1 .. Len(s)) /\ Len(s) \in Nat /\ t[k] = e /\ \A i \in 1 .. Len(s) : t[i] = s[i]
  BY <1>1 DEF Lives
<1>4. n \in DOMAIN old <=> before # {}
  BY <1>1 DEF VariableOf
<1>5. n \in DOMAIN new <=> after # {}
  BY <1>0, <1>2, <1>4 DEF Turns
<1>6. ASSUME after # {} PROVE new[n] = IF t[Max(after)][1] = "add" THEN "plot" ELSE "other"
  <2>1. CASE Gives(e, n)
    <3>1. Max(after) = k
      <4>1. after = before \cup {Len(s) + 1}
        BY <1>0, <1>1, <1>2, <2>1 DEF Turns
      <4>2. QED
        BY <1>1, <1>3, <4>1, MaxWithNext
    <3>2. QED
      BY <1>3, <1>5, <1>6, <2>1, <3>1 DEF Turns
  <2>2. CASE ~Gives(e, n)
    <3>1. after = before /\ new[n] = old[n]
      BY <1>2, <1>5, <1>6, <2>2 DEF Turns
    <3>2. Max(before) \in 1 .. Len(s)
      <4>1. before # {}
        BY <1>6, <3>1
      <4>2. Max(before) \in before
        BY <1>3, <4>1, OfPlots!MaxIn DEF Max, OfPlots!Max
      <4>3. QED
        BY <1>3, <4>2
    <3>3. old[n] = IF s[Max(before)][1] = "add" THEN "plot" ELSE "other"
      BY <1>1, <1>6, <3>1 DEF VariableOf
    <3>4. QED
      BY <1>3, <3>1, <3>2, <3>3
  <2>3. QED
    BY <2>1, <2>2
<1>7. QED
  BY <1>1, <1>5, <1>6 DEF VariableOf

\* An event that the model of the plots may have keeps the invariant.
LEMMA PlotsStep ==
    ASSUME NEW s, PlotsOK(s), NEW e \in PlotEvents, e[1] = "remove" => e[2] \in DOMAIN Plots(s).rows
    PROVE  PlotsOK(Append(s, e))
<1>1. PICK rows, m_vars : rows \in Seq(PlotNames) /\ Plots(s) = [rows |-> rows, m_vars |-> m_vars]
  BY DEF PlotsOK
<1>2. PICK t : t = Append(s, e)
  OBVIOUS
<1>3. s \in Seq(PlotEvents) /\ t \in Seq(PlotEvents)
  BY <1>2 DEF PlotsOK
<1>4. Plots(t) = Event(Plots(s), e)
  BY <1>2, <1>3, PlotsAppend
<1>5. PICK new, vars2 : /\ new \in Seq(PlotNames) /\ Plots(t) = [rows |-> new, m_vars |-> vars2]
                        /\ \A n : Turns(e, rows, m_vars, vars2, n)
  <2>1. CASE \E name \in PlotNames : e = <<"add", name>>
    <3>1. PICK name \in PlotNames : e = <<"add", name>>
      BY <2>1
    <3>2. Plots(t) = [rows |-> Append(rows, name), m_vars |-> modify(m_vars, name, "plot")]
      BY <1>1, <1>4, <3>1 DEF Event, addFunction
    <3>3. e[1] = "add" /\ \A n : Gives(e, n) <=> n = name
      BY <3>1 DEF Gives
    <3>4. \A n : Turns(e, rows, m_vars, modify(m_vars, name, "plot"), n)
      BY <3>1, <3>3, Modified DEF Turns, Takes
    <3>5. Append(rows, name) \in Seq(PlotNames)
      BY <1>1, <3>1
    <3>6. QED
      BY <3>2, <3>4, <3>5
  <2>2. CASE \E name \in PlotNames : e = <<"set", name>>
    <3>1. PICK name \in PlotNames : e = <<"set", name>>
      BY <2>2
    <3>2. Plots(t) = [rows |-> rows, m_vars |-> modify(m_vars, name, "other")]
      BY <1>1, <1>4, <3>1 DEF Event, consoleSets
    <3>3. e[1] = "set" /\ \A n : Gives(e, n) <=> n = name
      BY <3>1 DEF Gives
    <3>4. \A n : Turns(e, rows, m_vars, modify(m_vars, name, "other"), n)
      BY <3>1, <3>3, Modified DEF Turns, Takes
    <3>5. QED
      BY <1>1, <3>2, <3>4
  <2>3. CASE e = <<"clear">>
    <3>1. Plots(t) = [rows |-> <<>>, m_vars |-> m_vars]
      BY <1>1, <1>4, <2>3 DEF Event, clearPlots
    <3>2. e[1] = "clear" /\ \A n : ~Gives(e, n)
      BY <2>3 DEF Gives
    <3>3. \A n : Turns(e, rows, m_vars, m_vars, n)
      BY <3>2 DEF Turns, Takes
    <3>4. <<>> \in Seq(PlotNames)
      OBVIOUS
    <3>5. QED
      BY <3>1, <3>3, <3>4
  <2>4. CASE \E i \in Nat : e = <<"remove", i>>
    <3>1. PICK i \in 1 .. Len(rows) : e = <<"remove", i>>
      BY <1>1, <2>4
    <3>2. PICK less : less = RemoveAt(rows, i) /\ less \in Seq(PlotNames) /\ Len(less) = Len(rows) - 1
                      /\ (i < Len(rows) => less[i] = rows[i + 1])
      BY <1>1, RowRemoved
    <3>3. Plots(t) = functionRemoved([rows |-> less, m_vars |-> m_vars], i)
      BY <1>1, <1>4, <3>1, <3>2 DEF Event, removeRow
    <3>4. e[1] = "remove" /\ e[2] = i /\ \A n : ~Gives(e, n)
      BY <3>1 DEF Gives
    <3>5. CASE i = Len(rows)
      <4>1. i > Len(less) /\ ~(i < Len(rows))
        BY <3>2, <3>5
      <4>2. Plots(t) = [rows |-> less, m_vars |-> m_vars]
        BY <3>3, <4>1 DEF functionRemoved
      <4>3. QED
        BY <3>2, <3>4, <4>1, <4>2 DEF Turns, Takes
    <3>6. CASE i < Len(rows)
      <4>1. ~(i > Len(less))
        BY <3>2, <3>6
      <4>2. PICK left : left = Restrict(m_vars, DOMAIN m_vars \ {rows[i + 1]})
        OBVIOUS
      <4>3. Plots(t) = [rows |-> less, m_vars |-> left]
        BY <3>2, <3>3, <3>6, <4>1, <4>2 DEF functionRemoved
      <4>4. \A n : /\ n \in DOMAIN left <=> n \in DOMAIN m_vars /\ n # rows[i + 1]
                   /\ n \in DOMAIN left => left[n] = m_vars[n]
        BY <4>2 DEF Restrict
      <4>5. QED
        BY <3>2, <3>4, <3>6, <4>3, <4>4 DEF Turns, Takes
    <3>7. QED
      BY <3>5, <3>6
  <2>5. QED
    BY <2>1, <2>2, <2>3, <2>4 DEF PlotEvents
<1>6. ASSUME NEW n \in PlotNames PROVE VariableOf(t, n)
  <2>1. m_vars = Plots(s).m_vars /\ rows = Plots(s).rows /\ vars2 = Plots(t).m_vars
    BY <1>1, <1>5
  <2>2. VariableOf(s, n) /\ Turns(e, rows, m_vars, vars2, n)
    BY <1>5 DEF PlotsOK
  <2>3. QED
    BY <1>2, <1>3, <2>1, <2>2, VariableAppend
<1>7. QED
  BY <1>2, <1>3, <1>5, <1>6 DEF PlotsOK

\* Without events no name has a variable.
LEMMA PlotsBegin == PlotsOK(<<>>)
<1>1. Plots(<<>>) = [rows |-> <<>>, m_vars |-> <<>>]
  BY PlotsEmpty DEF NoPlots
<1>2. <<>> \in Seq(PlotEvents) /\ <<>> \in Seq(PlotNames)
  OBVIOUS
<1>3. \A n \in PlotNames : VariableOf(<<>>, n)
  BY <1>1 DEF VariableOf, Lives
<1>4. QED
  BY <1>1, <1>2, <1>3 DEF PlotsOK

PlotsInv == kind = "plots" => PlotsOK(input)

\* The state of the plots is in order, whatever comes and goes.
LEMMA PlotsInvariant == EventsSpec => []PlotsInv
<1>1. EventsInit => PlotsInv
  BY PlotsBegin DEF EventsInit, PlotsInv
<1>2. PlotsInv /\ [EventsNext]_vars => PlotsInv'
  <2>1. SUFFICES ASSUME PlotsInv, [EventsNext]_vars, kind' = "plots" PROVE PlotsOK(input)'
    BY DEF PlotsInv
  <2>2. CASE UNCHANGED vars
    BY <2>1, <2>2 DEF vars, PlotsInv
  <2>3. CASE GrowPlots
    <3>1. PlotsOK(input)
      BY <2>1, <2>3 DEF GrowPlots, PlotsInv
    <3>2. PICK s, rows : s = input /\ rows = Plots(s).rows
      OBVIOUS
    <3>3. PICK e \in {<<"add", n>> : n \in PlotNames \ Range(rows)} \cup {<<"remove", i>> : i \in DOMAIN rows}
                     \cup {<<"clear">>} \cup {<<"set", n>> : n \in PlotNames} :
            input' = Append(s, e)
      BY <2>3, <3>2 DEF GrowPlots, Grow
    <3>4. DOMAIN rows \subseteq Nat
      BY <3>1, <3>2 DEF PlotsOK
    <3>5. e \in PlotEvents /\ (e[1] = "remove" => e[2] \in DOMAIN rows)
      BY <3>3, <3>4 DEF PlotEvents
    <3>6. PlotsOK(Append(s, e))
      BY <3>1, <3>2, <3>5, PlotsStep
    <3>7. QED
      BY <3>3, <3>6
  <2>4. CASE GrowArguments \/ GrowLines \/ GrowViewport
    BY <2>1, <2>4 DEF GrowArguments, GrowLines, GrowViewport, Grow
  <2>5. QED
    BY <2>1, <2>2, <2>3, <2>4 DEF EventsNext
<1>3. QED
  BY <1>1, <1>2, PTL DEF EventsSpec

\* A name has a variable if and only if it was given one and since then no
\* plot was removed from the row above it: for all names and all sequences
\* of plots that come and go and of variables set by the console.
THEOREM VariablesOfPlots == EventsSpec => []VariableOfPlot
<1>1. PlotsInv => VariableOfPlot
  BY DEF PlotsInv, PlotsOK, VariableOf, VariableOfPlot
<1>2. QED
  BY <1>1, PlotsInvariant, PTL
-----------------------------------------------------------------------------
(* The arguments of the command line.                                       *)
\* Arguments is a fold.
LEMMA ArgumentsFolded == ASSUME NEW s PROVE Arguments(s) = OfArguments!Folded(Calculator, s)
BY DEF Arguments, FoldLeft, MapThenFoldSet, Max,
       OfArguments!Folded, OfArguments!FoldLeft, OfArguments!MapThenFoldSet, OfArguments!Max

\* Without arguments the session is as it begins.
LEMMA ArgumentsEmpty == Arguments(<<>>) = Calculator
BY ArgumentsFolded, OfArguments!FoldEmpty

\* An argument more changes it once.
LEMMA ArgumentsAppend ==
    ASSUME NEW S, NEW s \in Seq(S), NEW e PROVE Arguments(Append(s, e)) = Argument(Arguments(s), e)
BY ArgumentsFolded, OfArguments!FoldAppend

Ends == {"--help", "missing"}

\* The arguments that end the program, with one more.
LEMMA EndingsAppend ==
    ASSUME NEW S, NEW s \in Seq(S), NEW e \in S
    PROVE  /\ Endings(Append(s, e)) = Endings(s) \cup {i \in {Len(s) + 1} : e \in Ends}
           /\ Endings(s) \in SUBSET (1 .. Len(s)) /\ Len(s) \in Nat
<1>1. PICK t, k : t = Append(s, e) /\ k = Len(s) + 1
  OBVIOUS
<1>2. /\ Len(s) \in Nat /\ DOMAIN s = 1 .. Len(s) /\ DOMAIN t = 1 .. k /\ t[k] = e
      /\ \A i \in 1 .. Len(s) : t[i] = s[i]
  BY <1>1
<1>3. 1 .. k = (1 .. Len(s)) \cup {k}
  BY <1>1, <1>2
<1>4. Endings(t) = Endings(s) \cup {i \in {k} : e \in Ends}
  BY <1>2, <1>3 DEF Endings, Ends
<1>5. QED
  BY <1>1, <1>2, <1>4 DEF Endings

\* If none ends the program, all are obeyed.
LEMMA AllObeyed == ASSUME NEW S, NEW s \in Seq(S), Endings(s) = {} PROVE Obeyed(s) = s
<1>1. PICK n, m, T : n = Len(s) /\ m = n + 1 /\ T = {m}
  OBVIOUS
<1>2. n \in Nat
  BY <1>1, LenProperties
<1>3. m \in Nat /\ m - 1 = n
  BY <1>1, <1>2
<1>4. T \in SUBSET Nat /\ m \in T /\ \A x \in T : m <= x
  BY <1>1, <1>3
<1>5. Min(T) = m
  BY <1>4, MinIs
<1>6. Endings(s) \cup {Len(s) + 1} = T
  BY <1>1
<1>7. Obeyed(s) = SubSeq(s, 1, n)
  BY <1>3, <1>5, <1>6 DEF Obeyed
<1>8. QED
  BY <1>1, <1>7, WholePrefix

\* Otherwise those before the first that does.
LEMMA SomeObeyed ==
    ASSUME NEW S, NEW s \in Seq(S), NEW m \in Endings(s), \A i \in Endings(s) : m <= i
    PROVE  Min(Endings(s)) = m /\ m \in 1 .. Len(s) /\ Obeyed(s) = SubSeq(s, 1, m - 1)
<1>1. PICK n : n = Len(s) /\ n \in Nat
  OBVIOUS
<1>2. Endings(s) \in SUBSET (1 .. n)
  BY <1>1 DEF Endings
<1>3. PICK T : T = Endings(s) \cup {n + 1}
  OBVIOUS
<1>4. m \in T /\ T \in SUBSET Nat /\ Endings(s) \in SUBSET Nat /\ \A i \in T : m <= i
  BY <1>1, <1>2, <1>3
<1>5. Min(T) = m /\ Min(Endings(s)) = m
  BY <1>4, MinIs
<1>6. QED
  BY <1>1, <1>2, <1>3, <1>5 DEF Obeyed

\* The first that ends the program stays the first, and what is obeyed too.
LEMMA ObeyedStays ==
    ASSUME NEW S, NEW s \in Seq(S), NEW e \in S, Endings(s) # {}
    PROVE  LET t == Append(s, e) IN
           /\ Endings(t) # {} /\ Obeyed(t) = Obeyed(s) /\ t[Min(Endings(t))] = s[Min(Endings(s))]
<1>1. PICK t, n : t = Append(s, e) /\ n = Len(s)
  OBVIOUS
<1>2. n \in Nat /\ Endings(s) \in SUBSET (1 .. n) /\ Endings(t) = Endings(s) \cup {i \in {n + 1} : e \in Ends}
  BY <1>1, EndingsAppend
<1>3. PICK m \in Endings(s) : \A i \in Endings(s) : m <= i
  BY <1>2, OfPlots!LeastNat
<1>4. m \in 1 .. n /\ m \in Endings(t) /\ \A i \in Endings(t) : m <= i
  BY <1>2, <1>3
<1>5. t \in Seq(S)
  BY <1>1
<1>6. /\ Min(Endings(s)) = m /\ Obeyed(s) = SubSeq(s, 1, m - 1)
      /\ Min(Endings(t)) = m /\ Obeyed(t) = SubSeq(t, 1, m - 1)
  BY <1>3, <1>4, <1>5, SomeObeyed
<1>7. t[m] = s[m]
  BY <1>1, <1>4
<1>8. PICK j : j = m - 1 /\ j \in 0 .. n
  BY <1>2, <1>4
<1>9. \A i \in 0 .. Len(s) : SubSeq(Append(s, e), 1, i) = SubSeq(s, 1, i)
  BY PrefixesKept
<1>10. SubSeq(t, 1, j) = SubSeq(s, 1, j)
  BY <1>1, <1>8, <1>9
<1>11. QED
  BY <1>1, <1>4, <1>6, <1>7, <1>8, <1>10

\* If it is the last, all others are obeyed.
LEMMA ObeyedEnds ==
    ASSUME NEW S, NEW s \in Seq(S), NEW e \in S, Endings(s) = {}, e \in Ends
    PROVE  LET t == Append(s, e) IN
           Endings(t) # {} /\ Obeyed(t) = s /\ t[Min(Endings(t))] = e
<1>1. PICK t, n, k : t = Append(s, e) /\ n = Len(s) /\ k = n + 1
  OBVIOUS
<1>2. n \in Nat /\ Endings(t) = {k}
  BY <1>1, EndingsAppend
<1>3. k \in Endings(t) /\ \A i \in Endings(t) : k <= i
  BY <1>1, <1>2
<1>4. t \in Seq(S) /\ t[k] = e
  BY <1>1
<1>5. Min(Endings(t)) = k /\ Obeyed(t) = SubSeq(t, 1, k - 1)
  BY <1>3, <1>4, SomeObeyed
<1>6. \A i \in 0 .. Len(s) : SubSeq(Append(s, e), 1, i) = SubSeq(s, 1, i)
  BY PrefixesKept
<1>7. k - 1 = n /\ n \in 0 .. n
  BY <1>1, <1>2
<1>8. SubSeq(t, 1, n) = s
  BY <1>1, <1>6, <1>7, WholePrefix
<1>9. QED
  BY <1>1, <1>3, <1>4, <1>5, <1>7, <1>8

\* The last mode that is given is to calculate.
ToCalculate(s) == \E i \in DOMAIN s : s[i] = "--calculate" /\ \A j \in i .. Len(s) : s[j] # "--evaluate"

\* An argument more may be the last mode.
LEMMA ModeAppend ==
    ASSUME NEW S, NEW s \in Seq(S), NEW e \in S
    PROVE  ToCalculate(Append(s, e)) <=> e = "--calculate" \/ (ToCalculate(s) /\ e # "--evaluate")
<1>1. PICK t, n, k : t = Append(s, e) /\ n = Len(s) /\ k = n + 1
  OBVIOUS
<1>2. /\ n \in Nat /\ Len(t) = k /\ DOMAIN s = 1 .. n /\ DOMAIN t = 1 .. k /\ t[k] = e
      /\ \A i \in 1 .. n : t[i] = s[i]
  BY <1>1
<1>3. ASSUME NEW i \in 1 .. n
      PROVE  (\A j \in i .. k : t[j] # "--evaluate") <=> (\A j \in i .. n : s[j] # "--evaluate") /\ e # "--evaluate"
  <2>1. i .. k = (i .. n) \cup {k} /\ i .. n \subseteq 1 .. n
    BY <1>1, <1>2
  <2>2. QED
    BY <1>2, <2>1
<1>4. 1 .. k = (1 .. n) \cup {k} /\ k .. k = {k}
  BY <1>1, <1>2
<1>5. ToCalculate(t) <=> \/ t[k] = "--calculate" /\ \A j \in k .. k : t[j] # "--evaluate"
                         \/ \E i \in 1 .. n : t[i] = "--calculate" /\ \A j \in i .. k : t[j] # "--evaluate"
  BY <1>2, <1>4 DEF ToCalculate
<1>6. ToCalculate(s) <=> \E i \in 1 .. n : s[i] = "--calculate" /\ \A j \in i .. n : s[j] # "--evaluate"
  BY <1>1, <1>2 DEF ToCalculate
<1>7. QED
  BY <1>1, <1>2, <1>3, <1>4, <1>5, <1>6

\* What is imported of an argument.
File(e) == IF e \in Files THEN <<e>> ELSE <<>>

\* A file more is imported after the others.
LEMMA ImportedAppend ==
    ASSUME NEW S, NEW s \in Seq(S), NEW e \in S
    PROVE  Imported(Append(s, e)) = Imported(s) \o File(e) /\ Imported(s) \in Seq(Files)
<1>1. PICK t, n : t = Append(s, e) /\ n = Len(s)
  OBVIOUS
<1>2. /\ n \in Nat /\ DOMAIN s = 1 .. n /\ DOMAIN t = 1 .. n + 1 /\ t[n + 1] = e
      /\ \A i \in 1 .. n : t[i] = s[i]
  BY <1>1, Appended
<1>3. \A a : File(a) \in Seq(Files)
  BY DEF File
<1>4. PICK u, v : u = [i \in 1 .. n |-> File(s[i])] /\ v = [i \in 1 .. n + 1 |-> File(t[i])]
  OBVIOUS
<1>5. u \in [1 .. n -> Seq(Files)] /\ v \in [1 .. n + 1 -> Seq(Files)] /\ v[n + 1] = File(e)
  <2>1. n + 1 \in 1 .. n + 1
    BY <1>2
  <2>2. QED
    BY <1>2, <1>3, <1>4, <2>1
<1>6. \A i \in 1 .. n : v[i] = u[i]
  <2>1. 1 .. n \subseteq 1 .. n + 1
    BY <1>2
  <2>2. QED
    BY <1>2, <1>4, <2>1
<1>7. FlattenSeq(v) = FlattenSeq(u) \o v[n + 1] /\ FlattenSeq(u) \in Seq(Files)
  BY <1>2, <1>5, <1>6, PartsAppend
<1>8. Imported(s) = FlattenSeq(u) /\ Imported(t) = FlattenSeq(v)
  BY <1>2, <1>4 DEF Imported, File
<1>9. QED
  BY <1>1, <1>5, <1>7, <1>8

\* The session after arguments: how it calculates, whether it has ended, and
\* with which files.
Started(type, code, files) == [Calculator EXCEPT !.calcType = type, !.exit = code, !.imported = files]

\* What an argument does to it.
LEMMA StartedStep ==
    ASSUME NEW type, NEW code, NEW files, NEW e
    PROVE  LET d == Argument(Started(type, code, files), e) IN
           /\ code # -1 => d = Started(type, code, files)
           /\ code = -1 =>
                /\ e = "--calculate" => d = Started("Calculate", -1, files)
                /\ e = "--evaluate" => d = Started("Evaluate", -1, files)
                /\ e = "--print-time" => d = Started(type, -1, files)
                /\ e = "--help" => d = Started(type, 0, files)
                /\ e = "missing" => d = Started(type, 1, files)
                /\ e \in Files => d = Started(type, -1, Append(files, e))
BY DEF Argument, Started, Calculator, Files

\* The code the program ends with, or -1.
Code(s) == IF Endings(s) = {} THEN -1 ELSE IF s[Min(Endings(s))] = "missing" THEN 1 ELSE 0

\* What ArgumentsObeyed says of arguments, with the rest of the session.
ArgumentsOK(s) ==
    /\ s \in Seq(Args)
    /\ \E type : /\ Arguments(s) = Started(type, Code(s), Imported(Obeyed(s)))
                 /\ type = "Calculate" <=> ToCalculate(Obeyed(s))

\* An argument more.
LEMMA ArgumentsStep ==
    ASSUME NEW s, ArgumentsOK(s), NEW e \in Args
    PROVE  ArgumentsOK(Append(s, e))
<1>1. PICK t : t = Append(s, e)
  OBVIOUS
<1>2. s \in Seq(Args) /\ t \in Seq(Args)
  BY <1>1 DEF ArgumentsOK
<1>3. PICK type, code, files :
        /\ Arguments(s) = Started(type, code, files) /\ code = Code(s) /\ files = Imported(Obeyed(s))
        /\ type = "Calculate" <=> ToCalculate(Obeyed(s))
  BY DEF ArgumentsOK
<1>4. PICK d : d = Arguments(t) /\ d = Argument(Started(type, code, files), e)
  BY <1>1, <1>2, <1>3, ArgumentsAppend
<1>5. CASE Endings(s) # {}
  <2>1. code # -1
    BY <1>3, <1>5 DEF Code
  <2>2. d = Started(type, code, files)
    BY <1>4, <2>1, StartedStep
  <2>3. Endings(t) # {} /\ Obeyed(t) = Obeyed(s) /\ t[Min(Endings(t))] = s[Min(Endings(s))]
    BY <1>1, <1>2, <1>5, ObeyedStays
  <2>4. Code(t) = code
    BY <1>3, <1>5, <2>3 DEF Code
  <2>5. QED
    BY <1>1, <1>2, <1>3, <1>4, <2>2, <2>3, <2>4 DEF ArgumentsOK
<1>6. CASE Endings(s) = {} /\ e \in Ends
  <2>1. code = -1
    BY <1>3, <1>6 DEF Code
  <2>2. Endings(t) # {} /\ Obeyed(t) = s /\ t[Min(Endings(t))] = e /\ Obeyed(s) = s
    BY <1>1, <1>2, <1>6, ObeyedEnds, AllObeyed
  <2>3. Code(t) = IF e = "missing" THEN 1 ELSE 0
    BY <2>2 DEF Code
  <2>4. d = Started(type, Code(t), files)
    BY <1>4, <1>6, <2>1, <2>3, StartedStep DEF Ends
  <2>5. QED
    BY <1>1, <1>2, <1>3, <1>4, <2>2, <2>4 DEF ArgumentsOK
<1>7. CASE Endings(s) = {} /\ e \notin Ends
  <2>1. Endings(t) = {}
    BY <1>1, <1>2, <1>7, EndingsAppend
  <2>2. code = -1 /\ Code(t) = -1 /\ Obeyed(s) = s /\ Obeyed(t) = t
    BY <1>2, <1>3, <1>7, <2>1, AllObeyed DEF Code
  <2>3. PICK files2 : files2 = Imported(t)
    OBVIOUS
  <2>4. files2 = files \o File(e) /\ files \in Seq(Files)
    BY <1>1, <1>2, <1>3, <2>2, <2>3, ImportedAppend
  <2>5. ToCalculate(t) <=> e = "--calculate" \/ (ToCalculate(s) /\ e # "--evaluate")
    BY <1>1, <1>2, ModeAppend
  <2>6. files2 = IF e \in Files THEN Append(files, e) ELSE files
    BY <2>4 DEF File
  <2>7. e \in {"--calculate", "--evaluate", "--print-time"} \cup Files
    BY <1>7, EventsAssumption DEF Ends
  <2>8. PICK type2 : d = Started(type2, -1, files2) /\ (type2 = "Calculate" <=> ToCalculate(t))
    <3>1. CASE e = "--calculate"
      BY <1>4, <2>2, <2>5, <2>6, <3>1, StartedStep DEF Files
    <3>2. CASE e = "--evaluate"
      BY <1>4, <2>2, <2>5, <2>6, <3>2, StartedStep DEF Files
    <3>3. CASE e = "--print-time"
      BY <1>3, <1>4, <2>2, <2>5, <2>6, <3>3, StartedStep DEF Files
    <3>4. CASE e \in Files
      <4>1. e # "--calculate" /\ e # "--evaluate"
        BY <3>4 DEF Files
      <4>2. QED
        BY <1>3, <1>4, <2>2, <2>5, <2>6, <3>4, <4>1, StartedStep
    <3>5. QED
      BY <2>7, <3>1, <3>2, <3>3, <3>4
  <2>9. QED
    BY <1>1, <1>2, <1>4, <2>2, <2>3, <2>8 DEF ArgumentsOK
<1>8. QED
  BY <1>5, <1>6, <1>7

\* No arguments.
LEMMA ArgumentsBegin == ArgumentsOK(<<>>)
<1>1. Endings(<<>>) = {} /\ <<>> \in Seq(Args)
  BY DEF Endings
<1>2. Obeyed(<<>>) = <<>>
  BY <1>1, AllObeyed
<1>3. Imported(<<>>) = <<>>
  <2>1. [i \in DOMAIN <<>> |-> IF <<>>[i] \in Files THEN <<<<>>[i]>> ELSE <<>>] = <<>>
    OBVIOUS
  <2>2. QED
    BY <2>1, FlattenEmpty DEF Imported
<1>4. ~ToCalculate(<<>>)
  BY DEF ToCalculate
<1>5. Code(<<>>) = -1
  BY <1>1 DEF Code
<1>6. Arguments(<<>>) = Started("Evaluate", -1, <<>>)
  <2>1. PICK c : c = Calculator
    OBVIOUS
  <2>2. c.calcType = "Evaluate" /\ c.exit = -1 /\ c.imported = <<>>
    BY <2>1 DEF Calculator
  <2>3. c = [x \in DOMAIN c |-> c[x]]
    BY <2>1 DEF Calculator
  <2>4. Started("Evaluate", -1, <<>>) = c
    BY <2>1, <2>2, <2>3 DEF Started
  <2>5. QED
    BY <2>1, <2>4, ArgumentsEmpty
<1>7. QED
  BY <1>1, <1>2, <1>3, <1>4, <1>5, <1>6 DEF ArgumentsOK

\* It says what the property says.
LEMMA ArgumentsMean == ASSUME kind = "arguments", ArgumentsOK(input) PROVE ArgumentsObeyed
<1>1. PICK type, code, files :
        /\ Arguments(input) = Started(type, code, files)
        /\ code = Code(input) /\ files = Imported(Obeyed(input))
        /\ type = "Calculate" <=> ToCalculate(Obeyed(input))
  BY DEF ArgumentsOK
<1>2. PICK c : c = Arguments(input) /\ c.exit = code /\ c.imported = files /\ c.calcType = type
  BY <1>1 DEF Started, Calculator
<1>3. QED
  BY <1>1, <1>2 DEF ArgumentsObeyed, Code, ToCalculate

ArgumentsInv == kind = "arguments" => ArgumentsOK(input)

\* The session has done what the arguments say, whatever they are.
LEMMA ArgumentsInvariant == EventsSpec => []ArgumentsInv
<1>1. EventsInit => ArgumentsInv
  BY ArgumentsBegin DEF EventsInit, ArgumentsInv
<1>2. ArgumentsInv /\ [EventsNext]_vars => ArgumentsInv'
  <2>1. SUFFICES ASSUME ArgumentsInv, [EventsNext]_vars, kind' = "arguments" PROVE ArgumentsOK(input)'
    BY DEF ArgumentsInv
  <2>2. CASE UNCHANGED vars
    BY <2>1, <2>2 DEF vars, ArgumentsInv
  <2>3. CASE GrowArguments
    <3>1. ArgumentsOK(input) /\ \E e \in Args : input' = Append(input, e)
      BY <2>1, <2>3 DEF GrowArguments, Grow, ArgumentsInv
    <3>2. QED
      BY <3>1, ArgumentsStep
  <2>4. CASE GrowPlots \/ GrowLines \/ GrowViewport
    BY <2>1, <2>4 DEF GrowPlots, GrowLines, GrowViewport, Grow
  <2>5. QED
    BY <2>1, <2>2, <2>3, <2>4 DEF EventsNext
<1>3. QED
  BY <1>1, <1>2, PTL DEF EventsSpec
-----------------------------------------------------------------------------
(* The lines of the command line.                                           *)
\* Session is a fold.
LEMMA SessionFolded == ASSUME NEW s PROVE Session(s) = OfLines!Folded(Calculator, s)
BY DEF Session, FoldLeft, MapThenFoldSet, Max,
       OfLines!Folded, OfLines!FoldLeft, OfLines!MapThenFoldSet, OfLines!Max

\* Without lines the session is as it begins.
LEMMA SessionEmpty == Session(<<>>) = Calculator
BY SessionFolded, OfLines!FoldEmpty

\* A line more changes it once.
LEMMA SessionAppend ==
    ASSUME NEW S, NEW s \in Seq(S), NEW e PROVE Session(Append(s, e)) = ReadLine(Session(s), e)
BY SessionFolded, OfLines!FoldAppend

\* A line more leaves the entries of the others as they were.
LEMMA JoinedKept ==
    ASSUME NEW S, NEW s \in Seq(Seq(S)), NEW e \in Seq(S), NEW i \in 1 .. Len(s) + 1, NEW j \in 0 .. Len(s)
    PROVE  Joined(Append(s, e), i, j) = Joined(s, i, j)
<1>1. PICK t, n : t = Append(s, e) /\ n = Len(s)
  OBVIOUS
<1>2. /\ n \in Nat /\ t \in Seq(Seq(S)) /\ Len(t) = n + 1 /\ i \in 1 .. n + 1 /\ j \in 0 .. n
      /\ \A k \in 1 .. n : t[k] = s[k]
  BY <1>1, Appended
<1>3. SubSeq(t, i, j) = SubSeq(s, i, j)
  <2>1. CASE i <= j
    <3>1. i \in 1 .. n /\ i \in 1 .. n + 1 /\ j \in i - 1 .. n /\ j \in i - 1 .. n + 1
      BY <1>2, <2>1
    <3>2. PICK a, b, m : a = SubSeq(t, i, j) /\ b = SubSeq(s, i, j) /\ m = j - i + 1
      OBVIOUS
    <3>3. /\ a \in Seq(Seq(S)) /\ b \in Seq(Seq(S)) /\ Len(a) = m /\ Len(b) = m
          /\ \A k \in 1 .. m : a[k] = t[i + k - 1] /\ b[k] = s[i + k - 1]
      BY <1>1, <1>2, <2>1, <3>1, <3>2
    <3>4. \A k \in 1 .. m : i + k - 1 \in 1 .. n
      BY <1>2, <3>1, <3>2
    <3>5. \A k \in 1 .. m : a[k] = b[k]
      BY <1>2, <3>3, <3>4
    <3>6. a = b
      BY <3>3, <3>5, SeqEqual
    <3>7. QED
      BY <3>2, <3>6
  <2>2. CASE ~(i <= j)
    <3>1. SubSeq(t, i, j) = <<>> /\ SubSeq(s, i, j) = <<>>
      BY <1>1, <1>2, <2>2
    <3>2. QED
      BY <3>1
  <2>3. QED
    BY <2>1, <2>2
<1>4. QED
  BY <1>1, <1>3 DEF Joined

\* It is joined to the lines before it.
LEMMA JoinedNext ==
    ASSUME NEW S, NEW s \in Seq(Seq(S)), NEW e \in Seq(S), NEW i \in 1 .. Len(s) + 1
    PROVE  /\ Joined(Append(s, e), i, Len(s) + 1) = Joined(s, i, Len(s)) \o e
           /\ Joined(s, i, Len(s)) \in Seq(S)
<1>1. PICK t, n, N : t = Append(s, e) /\ n = Len(s) /\ N = n + 1
  OBVIOUS
<1>2. /\ n \in Nat /\ t \in Seq(Seq(S)) /\ Len(t) = N /\ i \in 1 .. N /\ t[N] = e
      /\ \A k \in 1 .. n : t[k] = s[k]
  BY <1>1, Appended
<1>3. PICK a, b, m : a = SubSeq(t, i, N) /\ b = SubSeq(s, i, n) /\ m = N - i
  OBVIOUS
<1>4. /\ m \in Nat /\ a \in Seq(Seq(S)) /\ Len(a) = m + 1
      /\ \A k \in 1 .. m + 1 : a[k] = t[i + k - 1]
  <2>1. m \in Nat /\ N \in Nat /\ i <= N /\ N - i + 1 = m + 1 /\ N \in i - 1 .. N /\ i \in 1 .. N + 1
    BY <1>1, <1>2, <1>3
  <2>2. a \in Seq(Seq(S)) /\ Len(a) = N - i + 1
    BY <1>2, <1>3, <2>1, SubSeqProperties
  <2>3. \A k \in 1 .. N - i + 1 : a[k] = t[i + k - 1]
    BY <1>2, <1>3, <2>1, SubSeqProperties
  <2>4. QED
    BY <2>1, <2>2, <2>3
<1>5. /\ b \in Seq(Seq(S)) /\ Len(b) = m
      /\ \A k \in 1 .. m : b[k] = s[i + k - 1]
  BY <1>1, <1>2, <1>3
<1>6. PICK c : c = Append(b, e)
  OBVIOUS
<1>7. c \in Seq(Seq(S)) /\ Len(c) = m + 1 /\ c[m + 1] = e /\ \A k \in 1 .. m : c[k] = b[k]
  BY <1>4, <1>5, <1>6
<1>8. ASSUME NEW k \in 1 .. m + 1 PROVE a[k] = c[k]
  <2>1. CASE k = m + 1
    <3>1. i + k - 1 = N
      BY <1>1, <1>2, <1>3, <2>1
    <3>2. QED
      BY <1>2, <1>4, <1>7, <2>1, <3>1
  <2>2. CASE k # m + 1
    <3>1. k \in 1 .. m /\ i + k - 1 \in 1 .. n
      BY <1>1, <1>2, <1>3, <1>4, <2>2
    <3>2. QED
      BY <1>2, <1>4, <1>5, <1>7, <3>1
  <2>3. QED
    BY <2>1, <2>2
<1>9. a = c
  BY <1>4, <1>7, <1>8, SeqEqual
<1>10. FlattenSeq(c) = FlattenSeq(b) \o e /\ FlattenSeq(b) \in Seq(S)
  BY <1>5, <1>6, FlattenAppend, FlattenType
<1>11. QED
  BY <1>1, <1>3, <1>9, <1>10 DEF Joined

\* Lines i to the last are no entry yet.
Goes(s, i) == \A k \in i .. Len(s) : s[k] # <<>> /\ ~isCompleteExpression(Joined(s, i, k))

\* Which lines are an entry does not change, and with a line more those are
\* that were none yet and are complete with it.
LEMMA CompletesAppend ==
    ASSUME NEW S, NEW s \in Seq(Seq(S)), NEW e \in Seq(S), NEW i \in 1 .. Len(s) + 1
    PROVE  LET t == Append(s, e)
               whole == Joined(t, i, Len(s) + 1)
           IN  /\ \A j \in 0 .. Len(s) : Completes(t, i, j) <=> Completes(s, i, j)
               /\ Completes(t, i, Len(s) + 1) <=> Goes(s, i) /\ e # <<>> /\ isCompleteExpression(whole)
               /\ Goes(t, i) <=> Goes(s, i) /\ e # <<>> /\ ~isCompleteExpression(whole)
<1>1. PICK t, n, N : t = Append(s, e) /\ n = Len(s) /\ N = n + 1
  OBVIOUS
<1>2. /\ n \in Nat /\ Len(t) = N /\ i \in 1 .. N /\ t[N] = e
      /\ \A k \in 1 .. n : t[k] = s[k]
  BY <1>1, Appended
<1>3. \A j \in 0 .. n : Joined(t, i, j) = Joined(s, i, j)
  BY <1>1, JoinedKept
<1>4. ASSUME NEW j \in 0 .. n PROVE Completes(t, i, j) <=> Completes(s, i, j)
  <2>1. i .. j \subseteq 1 .. n /\ i .. j \subseteq 0 .. n /\ i .. j - 1 \subseteq 0 .. n
    BY <1>1, <1>2
  <2>2. \A k \in i .. j : t[k] = s[k]
    BY <1>2, <2>1
  <2>3. \A k \in i .. j - 1 : Joined(t, i, k) = Joined(s, i, k)
    BY <1>3, <2>1
  <2>4. QED
    BY <1>3, <2>2, <2>3 DEF Completes
<1>5. i .. N = (i .. n) \cup {N} /\ N - 1 = n /\ i .. n \subseteq 1 .. n /\ i .. n \subseteq 0 .. n
  BY <1>1, <1>2
<1>6. \A k \in i .. n : t[k] = s[k] /\ Joined(t, i, k) = Joined(s, i, k)
  BY <1>2, <1>3, <1>5
<1>7. Goes(s, i) <=> \A k \in i .. n : t[k] # <<>> /\ ~isCompleteExpression(Joined(t, i, k))
  BY <1>1, <1>6 DEF Goes
<1>8. Completes(t, i, N) <=> Goes(s, i) /\ e # <<>> /\ isCompleteExpression(Joined(t, i, N))
  BY <1>2, <1>5, <1>7 DEF Completes
<1>9. Goes(t, i) <=> Goes(s, i) /\ e # <<>> /\ ~isCompleteExpression(Joined(t, i, N))
  BY <1>2, <1>5, <1>7 DEF Goes
<1>10. QED
  BY <1>1, <1>4, <1>8, <1>9

\* Starts: a recursive function over the lines.
IsStarts(f, lines, n) ==
    f = [i \in 1 .. n |->
            i = 1 \/ lines[i - 1] = <<>> \/ \E h \in 1 .. i - 1 : f[h] /\ Completes(lines, h, i - 1)]

\* There is such a function for every number of lines.
LEMMA StartsExists == ASSUME NEW s, NEW N \in Nat PROVE \E f : IsStarts(f, s, N)
<1> DEFINE T == {n \in Nat : \E f : IsStarts(f, s, n)}
<1>1. 0 \in T
  <2>1. IsStarts([i \in 1 .. 0 |-> 0], s, 0)
    BY DEF IsStarts
  <2>2. QED
    BY <2>1
<1>2. ASSUME NEW n \in Nat, n \in T PROVE n + 1 \in T
  <2>1. PICK f : IsStarts(f, s, n)
    BY <1>2
  <2> DEFINE value(g, i) == i = 1 \/ s[i - 1] = <<>> \/ \E h \in 1 .. i - 1 : g[h] /\ Completes(s, h, i - 1)
             g == [i \in 1 .. n + 1 |-> value(f, i)]
  <2>2. ASSUME NEW i \in 1 .. n PROVE g[i] = f[i]
    <3>1. i \in 1 .. n + 1
      OBVIOUS
    <3>2. g[i] = value(f, i)
      BY <3>1
    <3>3. f[i] = value(f, i)
      BY <2>1 DEF IsStarts
    <3>4. QED
      BY <3>2, <3>3
  <2>3. ASSUME NEW i \in 1 .. n + 1 PROVE g[i] = value(g, i)
    <3>1. g[i] = value(f, i)
      OBVIOUS
    <3>2. 1 .. i - 1 \subseteq 1 .. n
      OBVIOUS
    <3>3. \A h \in 1 .. i - 1 : g[h] = f[h]
      BY <2>2, <3>2
    <3> HIDE DEF g
    <3>4. QED
      BY <3>1, <3>3
  <2>4. g = [i \in 1 .. n + 1 |-> g[i]]
    OBVIOUS
  <2> HIDE DEF g
  <2>5. IsStarts(g, s, n + 1)
    BY <2>3, <2>4 DEF IsStarts
  <2>6. QED
    BY <2>5
<1> HIDE DEF T
<1>3. Nat \subseteq T
  BY <1>1, <1>2, OfPlots!NatSetInduction
<1>4. QED
  BY <1>3 DEF T

\* So Starts says what its definition says.
LEMMA StartsIs ==
    ASSUME NEW S, NEW s \in Seq(S), NEW i \in 1 .. Len(s) + 1
    PROVE  Starts(s)[i] <=> i = 1 \/ s[i - 1] = <<>> \/ \E h \in 1 .. i - 1 : Starts(s)[h] /\ Completes(s, h, i - 1)
<1> DEFINE F == CHOOSE f : f = [k \in 1 .. Len(s) + 1 |->
                    k = 1 \/ s[k - 1] = <<>> \/ \E h \in 1 .. k - 1 : f[h] /\ Completes(s, h, k - 1)]
<1>1. Len(s) + 1 \in Nat
  OBVIOUS
<1>2. \E f : f = [k \in 1 .. Len(s) + 1 |->
                    k = 1 \/ s[k - 1] = <<>> \/ \E h \in 1 .. k - 1 : f[h] /\ Completes(s, h, k - 1)]
  <2>1. PICK f : IsStarts(f, s, Len(s) + 1)
    BY <1>1, StartsExists
  <2>2. QED
    BY <2>1 DEF IsStarts
<1>3. F = [k \in 1 .. Len(s) + 1 |->
                    k = 1 \/ s[k - 1] = <<>> \/ \E h \in 1 .. k - 1 : F[h] /\ Completes(s, h, k - 1)]
  BY <1>2
<1>4. Starts(s) = F
  BY DEF Starts
<1> HIDE DEF F
<1>5. F[i] <=> i = 1 \/ s[i - 1] = <<>> \/ \E h \in 1 .. i - 1 : F[h] /\ Completes(s, h, i - 1)
  BY <1>3
<1>6. QED
  BY <1>4, <1>5

\* A line more does not change where the entries of the others may start; it
\* is one after an empty line or an entry.
LEMMA StartsAppend ==
    ASSUME NEW S, NEW s \in Seq(Seq(S)), NEW e \in Seq(S)
    PROVE  LET t == Append(s, e) IN
           /\ \A i \in 1 .. Len(s) + 1 : Starts(t)[i] <=> Starts(s)[i]
           /\ Starts(t)[Len(s) + 2] <=>
                e = <<>> \/ \E h \in 1 .. Len(s) + 1 : Starts(s)[h] /\ Completes(t, h, Len(s) + 1)
<1>1. PICK t, n, N, M : t = Append(s, e) /\ n = Len(s) /\ N = n + 1 /\ M = n + 2
  OBVIOUS
<1>2. /\ n \in Nat /\ t \in Seq(Seq(S)) /\ Len(t) = N /\ t[N] = e
      /\ \A k \in 1 .. n : t[k] = s[k]
  BY <1>1, Appended
<1>3. ASSUME NEW i \in 1 .. N, NEW j \in 0 .. n PROVE Completes(t, i, j) <=> Completes(s, i, j)
  BY <1>1, <1>3, CompletesAppend
<1> DEFINE T == {k \in Nat : k <= N => \A i \in 1 .. k : Starts(t)[i] <=> Starts(s)[i]}
<1>4. 0 \in T
  OBVIOUS
<1>5. ASSUME NEW k \in Nat, k \in T PROVE k + 1 \in T
  <2>1. SUFFICES ASSUME k + 1 <= N, NEW i \in 1 .. k + 1 PROVE Starts(t)[i] <=> Starts(s)[i]
    OBVIOUS
  <2>2. \A h \in 1 .. k : Starts(t)[h] <=> Starts(s)[h]
    BY <1>1, <1>2, <1>5, <2>1
  <2>3. CASE i \in 1 .. k
    BY <2>2, <2>3
  <2>4. CASE i \notin 1 .. k
    <3>1. i = k + 1 /\ i - 1 = k /\ k \in 0 .. n /\ i \in 1 .. N /\ i \in 1 .. N + 1 /\ (i # 1 => k \in 1 .. n)
      BY <1>1, <1>2, <2>1, <2>4
    <3>2. 1 .. k \subseteq 1 .. N
      BY <1>1, <1>2, <3>1
    <3>3. Starts(t)[i] <=> i = 1 \/ t[k] = <<>> \/ \E h \in 1 .. k : Starts(t)[h] /\ Completes(t, h, k)
      <4>1. i \in 1 .. Len(t) + 1
        BY <1>2, <3>1
      <4>2. QED
        BY <1>2, <3>1, <4>1, StartsIs
    <3>4. Starts(s)[i] <=> i = 1 \/ s[k] = <<>> \/ \E h \in 1 .. k : Starts(s)[h] /\ Completes(s, h, k)
      <4>1. i \in 1 .. Len(s) + 1
        BY <1>1, <3>1
      <4>2. QED
        BY <3>1, <4>1, StartsIs
    <3>5. \A h \in 1 .. k : Completes(t, h, k) <=> Completes(s, h, k)
      BY <1>3, <3>1, <3>2
    <3>6. i # 1 => t[k] = s[k]
      BY <1>2, <3>1
    <3>7. QED
      BY <2>2, <3>3, <3>4, <3>5, <3>6
  <2>5. QED
    BY <2>3, <2>4
<1> HIDE DEF T
<1>6. Nat \subseteq T
  BY <1>4, <1>5, OfPlots!NatSetInduction
<1>7. \A i \in 1 .. N : Starts(t)[i] <=> Starts(s)[i]
  BY <1>1, <1>2, <1>6 DEF T
<1>8. Starts(t)[M] <=> e = <<>> \/ \E h \in 1 .. N : Starts(s)[h] /\ Completes(t, h, N)
  <2>1. M \in 1 .. Len(t) + 1 /\ M - 1 = N /\ M # 1
    BY <1>1, <1>2
  <2>2. Starts(t)[M] <=> M = 1 \/ t[M - 1] = <<>> \/ \E h \in 1 .. M - 1 : Starts(t)[h] /\ Completes(t, h, M - 1)
    BY <1>2, <2>1, StartsIs
  <2>3. QED
    BY <1>2, <1>7, <2>1, <2>2
<1>9. QED
  BY <1>1, <1>7, <1>8

\* The lines an entry may have as its first that the next line goes on with.
Open(s) == {i \in 1 .. Len(s) + 1 : Starts(s)[i] /\ Goes(s, i)}

\* The entries that end with the lines before stay what they were.  The next
\* line ends those that are open and complete with it.
LEMMA FirstsAppend ==
    ASSUME NEW S, NEW s \in Seq(Seq(S)), NEW e \in Seq(S)
    PROVE  LET t == Append(s, e) IN
           /\ \A j \in 1 .. Len(s) : Firsts(t, j) = Firsts(s, j) /\ Entries(t, j) = Entries(s, j)
           /\ Firsts(t, Len(s) + 1) =
                {i \in Open(s) : e # <<>> /\ isCompleteExpression(Joined(t, i, Len(s) + 1))}
<1>1. PICK t, n, N : t = Append(s, e) /\ n = Len(s) /\ N = n + 1
  OBVIOUS
<1>2. n \in Nat
  BY <1>1, LenProperties
<1>3. \A i \in 1 .. N : Starts(t)[i] <=> Starts(s)[i]
  BY <1>1, StartsAppend
<1>4. ASSUME NEW j \in 1 .. n PROVE Firsts(t, j) = Firsts(s, j) /\ Entries(t, j) = Entries(s, j)
  <2>1. 1 .. j \subseteq 1 .. N /\ j \in 0 .. n
    BY <1>1, <1>2
  <2>2. ASSUME NEW i \in 1 .. j
        PROVE  (Starts(t)[i] <=> Starts(s)[i]) /\ (Completes(t, i, j) <=> Completes(s, i, j))
               /\ Joined(t, i, j) = Joined(s, i, j)
    <3>1. i \in 1 .. Len(s) + 1 /\ j \in 0 .. Len(s) /\ i \in 1 .. N
      BY <1>1, <2>1
    <3>2. QED
      BY <1>1, <1>3, <3>1, CompletesAppend, JoinedKept
  <2>3. Firsts(t, j) = Firsts(s, j)
    BY <2>2 DEF Firsts
  <2>4. Firsts(s, j) \subseteq 1 .. j
    BY DEF Firsts
  <2>5. QED
    BY <2>2, <2>3, <2>4 DEF Entries
<1>5. Firsts(t, N) = {i \in Open(s) : e # <<>> /\ isCompleteExpression(Joined(t, i, N))}
  <2>1. ASSUME NEW i \in 1 .. N
        PROVE  Completes(t, i, N) <=> Goes(s, i) /\ e # <<>> /\ isCompleteExpression(Joined(t, i, N))
    BY <1>1, <2>1, CompletesAppend
  <2>2. Open(s) = {i \in 1 .. N : Starts(s)[i] /\ Goes(s, i)}
    BY <1>1 DEF Open
  <2>3. QED
    BY <1>3, <2>1, <2>2 DEF Firsts
<1>6. QED
  BY <1>1, <1>4, <1>5

\* The lines that are open with a line more.
LEMMA OpenAppend ==
    ASSUME NEW S, NEW s \in Seq(Seq(S)), NEW e \in Seq(S)
    PROVE  LET t == Append(s, e) IN
           Open(t) = {i \in Open(s) : e # <<>> /\ ~isCompleteExpression(Joined(t, i, Len(s) + 1))}
                     \cup {i \in {Len(s) + 2} : Starts(t)[i]}
<1>1. PICK t, n, N, M : t = Append(s, e) /\ n = Len(s) /\ N = n + 1 /\ M = n + 2
  OBVIOUS
<1>2. n \in Nat /\ Len(t) = N /\ Len(t) + 1 = M /\ 1 .. M = (1 .. N) \cup {M} /\ M .. N = {} /\ M \notin 1 .. N
  BY <1>1, Appended
<1>3. \A i \in 1 .. N : Starts(t)[i] <=> Starts(s)[i]
  BY <1>1, StartsAppend
<1>4. ASSUME NEW i \in 1 .. N
      PROVE  Goes(t, i) <=> Goes(s, i) /\ e # <<>> /\ ~isCompleteExpression(Joined(t, i, N))
  BY <1>1, <1>4, CompletesAppend
<1>5. Goes(t, M)
  BY <1>2 DEF Goes
<1>6. Open(s) = {i \in 1 .. N : Starts(s)[i] /\ Goes(s, i)}
  BY <1>1 DEF Open
<1>7. Open(t) = {i \in 1 .. M : Starts(t)[i] /\ Goes(t, i)}
  BY <1>2 DEF Open
<1>8. Open(t) = {i \in Open(s) : e # <<>> /\ ~isCompleteExpression(Joined(t, i, N))} \cup {i \in {M} : Starts(t)[i]}
  BY <1>2, <1>3, <1>4, <1>5, <1>6, <1>7
<1>9. QED
  BY <1>1, <1>8

\* The text of some entries, if one is correct, or not.
EntryText(entries, correct) ==
    LET text == {e \in entries : Correct(e) = correct} IN IF text = {} THEN <<>> ELSE <<CHOOSE e \in text : TRUE>>

\* An entry is correct or not.
LEMMA CorrectType == ASSUME NEW e PROVE Correct(e) \in BOOLEAN
BY DEF Correct

\* The text of one entry, and of none.
LEMMA TextOfOne ==
    ASSUME NEW e, NEW correct \in BOOLEAN
    PROVE  /\ EntryText({e}, correct) = IF Correct(e) = correct THEN <<e>> ELSE <<>>
           /\ EntryText({}, correct) = <<>>
<1>1. ASSUME Correct(e) = correct PROVE EntryText({e}, correct) = <<e>>
  <2>1. {x \in {e} : Correct(x) = correct} = {e}
    BY <1>1
  <2>2. QED
    BY <2>1 DEF EntryText
<1>2. ASSUME Correct(e) # correct PROVE EntryText({e}, correct) = <<>>
  <2>1. {x \in {e} : Correct(x) = correct} = {}
    BY <1>2
  <2>2. QED
    BY <2>1 DEF EntryText
<1>3. EntryText({}, correct) = <<>>
  BY DEF EntryText
<1>4. QED
  BY <1>1, <1>2, <1>3

\* Entries are sequences of tokens.
LEMMA EntriesType ==
    ASSUME NEW S, NEW s \in Seq(Seq(S)), NEW j \in 1 .. Len(s), NEW correct
    PROVE  EntryText(Entries(s, j), correct) \in Seq(Seq(S))
<1>1. ASSUME NEW i \in 1 .. j PROVE Joined(s, i, j) \in Seq(S)
  <2>1. i \in Int /\ j \in Int /\ \A k \in i .. j : s[k] \in Seq(S)
    BY <1>1
  <2>2. SubSeq(s, i, j) \in Seq(Seq(S))
    BY <2>1, SubSeqProperties
  <2>3. QED
    BY <2>2, FlattenType DEF Joined
<1>2. \A e \in Entries(s, j) : e \in Seq(S)
  BY <1>1 DEF Entries, Firsts
<1>3. PICK text : text = {e \in Entries(s, j) : Correct(e) = correct}
  OBVIOUS
<1>4. CASE text = {}
  BY <1>3, <1>4 DEF EntryText
<1>5. CASE text # {}
  <2>1. (CHOOSE e \in text : TRUE) \in Seq(S)
    BY <1>2, <1>3, <1>5
  <2>2. QED
    BY <1>3, <1>5, <2>1 DEF EntryText
<1>6. QED
  BY <1>4, <1>5

\* The texts with a line more.
LEMMA TextsAppend ==
    ASSUME NEW S, NEW s \in Seq(Seq(S)), NEW e \in Seq(S), NEW correct
    PROVE  /\ Texts(Append(s, e), correct) = Texts(s, correct) \o EntryText(Entries(Append(s, e), Len(s) + 1), correct)
           /\ Texts(s, correct) \in Seq(Seq(S))
<1>1. PICK t, n : t = Append(s, e) /\ n = Len(s)
  OBVIOUS
<1>2. /\ n \in Nat /\ t \in Seq(Seq(S)) /\ Len(t) = n + 1 /\ DOMAIN s = 1 .. n /\ DOMAIN t = 1 .. n + 1
  BY <1>1, Appended
<1>3. PICK u, v : /\ u = [j \in 1 .. n |-> EntryText(Entries(s, j), correct)]
                  /\ v = [j \in 1 .. n + 1 |-> EntryText(Entries(t, j), correct)]
  OBVIOUS
<1>4. /\ \A j \in 1 .. n : EntryText(Entries(s, j), correct) \in Seq(Seq(S))
      /\ \A j \in 1 .. n + 1 : EntryText(Entries(t, j), correct) \in Seq(Seq(S))
  BY <1>1, <1>2, EntriesType
<1>5. /\ u \in [1 .. n -> Seq(Seq(S))] /\ v \in [1 .. n + 1 -> Seq(Seq(S))]
      /\ v[n + 1] = EntryText(Entries(t, n + 1), correct)
  <2>1. n + 1 \in 1 .. n + 1
    BY <1>2
  <2>2. QED
    BY <1>3, <1>4, <2>1
<1>6. \A j \in 1 .. n : v[j] = u[j]
  <2>1. 1 .. n \subseteq 1 .. n + 1
    BY <1>2
  <2>2. \A j \in 1 .. n : Entries(t, j) = Entries(s, j)
    BY <1>1, FirstsAppend
  <2>3. QED
    BY <1>3, <2>1, <2>2
<1>7. FlattenSeq(v) = FlattenSeq(u) \o v[n + 1] /\ FlattenSeq(u) \in Seq(Seq(S))
  BY <1>2, <1>5, <1>6, PartsAppend
<1>8. Texts(s, correct) = FlattenSeq(u) /\ Texts(t, correct) = FlattenSeq(v)
  BY <1>2, <1>3 DEF Texts, EntryText
<1>9. QED
  BY <1>1, <1>5, <1>7, <1>8

\* The history of a line.
Kept(e) == IF e = <<>> THEN <<>> ELSE <<e>>

\* The lines that are not empty, with a line more.
LEMMA NonEmptyAppend ==
    ASSUME NEW S, NEW s \in Seq(Seq(S)), NEW e \in Seq(S)
    PROVE  NonEmpty(Append(s, e)) = NonEmpty(s) \o Kept(e) /\ NonEmpty(s) \in Seq(Seq(S))
<1>1. PICK t, n : t = Append(s, e) /\ n = Len(s)
  OBVIOUS
<1>2. /\ n \in Nat /\ DOMAIN s = 1 .. n /\ DOMAIN t = 1 .. n + 1 /\ t[n + 1] = e
      /\ \A i \in 1 .. n : t[i] = s[i]
  BY <1>1, Appended
<1>3. \A a \in Seq(S) : Kept(a) \in Seq(Seq(S))
  BY DEF Kept
<1>4. PICK u, v : u = [i \in 1 .. n |-> Kept(s[i])] /\ v = [i \in 1 .. n + 1 |-> Kept(t[i])]
  OBVIOUS
<1>5. u \in [1 .. n -> Seq(Seq(S))] /\ v \in [1 .. n + 1 -> Seq(Seq(S))] /\ v[n + 1] = Kept(e)
  <2>1. n + 1 \in 1 .. n + 1
    BY <1>2
  <2>2. (\A i \in 1 .. n : s[i] \in Seq(S)) /\ \A i \in 1 .. n + 1 : t[i] \in Seq(S)
    BY <1>1, <1>2
  <2>3. QED
    BY <1>2, <1>3, <1>4, <2>1, <2>2
<1>6. \A i \in 1 .. n : v[i] = u[i]
  <2>1. 1 .. n \subseteq 1 .. n + 1
    BY <1>2
  <2>2. QED
    BY <1>2, <1>4, <2>1
<1>7. FlattenSeq(v) = FlattenSeq(u) \o v[n + 1] /\ FlattenSeq(u) \in Seq(Seq(S))
  BY <1>2, <1>5, <1>6, PartsAppend
<1>8. NonEmpty(s) = FlattenSeq(u) /\ NonEmpty(t) = FlattenSeq(v)
  BY <1>2, <1>4 DEF NonEmpty, Kept
<1>9. QED
  BY <1>1, <1>5, <1>7, <1>8
-----------------------------------------------------------------------------
(* The history that is freed.                                               *)
\* remove_history takes a line away, unless it is out of range.
LEMMA Freed ==
    ASSUME NEW S, NEW s \in Seq(S), NEW i \in Nat
    PROVE  /\ remove_history(s, i) \in Seq(S)
           /\ Len(remove_history(s, i)) = IF i < Len(s) THEN Len(s) - 1 ELSE Len(s)
<1>1. CASE i < Len(s)
  <2>1. i + 1 \in 1 .. Len(s)
    BY <1>1
  <2>2. RemoveAt(s, i + 1) \in Seq(S) /\ Len(RemoveAt(s, i + 1)) = Len(s) - 1
    BY <2>1, RowRemoved
  <2>3. QED
    BY <1>1, <2>2 DEF remove_history
<1>2. CASE ~(i < Len(s))
  BY <1>2 DEF remove_history
<1>3. QED
  BY <1>1, <1>2

\* After k turns of the loop: so many lines are gone, until the index is out of
\* range, from half of the history on.
Remaining(k, length, left) ==
    /\ 2 * k <= length + 1 => left = length - k
    /\ 2 * k > length + 1 => 2 * left \in {length, length - 1}

\* One turn.
LEMMA RemainingStep ==
    ASSUME NEW k \in Nat, NEW length \in Nat, NEW left \in Nat, Remaining(k, length, left)
    PROVE  Remaining(k + 1, length, IF k < left THEN left - 1 ELSE left)
BY DEF Remaining

\* The loop over the history leaves half of it.
LEMMA HistoryHalved ==
    ASSUME NEW S, NEW s \in Seq(S) PROVE Len(RemoveHistory(s)) = Len(s) \div 2
<1>1. PICK n \in Nat : n = Len(s) /\ DOMAIN s = 1 .. n
  OBVIOUS
<1> DEFINE turns(k) == [i \in 1 .. k |-> i - 1]
           after(k) == OfHistory!Folded(s, turns(k))
           T == {k \in Nat : after(k) \in Seq(S) /\ Remaining(k, n, Len(after(k)))}
<1>2. 0 \in T
  <2>1. turns(0) = <<>>
    OBVIOUS
  <2>2. after(0) = s
    BY <2>1, OfHistory!FoldEmpty
  <2>3. Remaining(0, n, n)
    BY DEF Remaining
  <2>4. QED
    BY <1>1, <2>2, <2>3
<1>3. ASSUME NEW k \in Nat, k \in T PROVE k + 1 \in T
  <2>1. turns(k) \in Seq(Nat) /\ turns(k + 1) = Append(turns(k), k)
    <3>1. turns(k) \in Seq(Nat) /\ Len(turns(k)) = k /\ turns(k + 1) \in Seq(Nat) /\ Len(turns(k + 1)) = k + 1
      OBVIOUS
    <3>2. PICK a, b : a = turns(k) /\ b = turns(k + 1)
      OBVIOUS
    <3>3. (\A i \in 1 .. k : a[i] = i - 1) /\ \A i \in 1 .. k + 1 : b[i] = i - 1
      BY <3>2
    <3> HIDE DEF turns
    <3>4. PICK c : c = Append(a, k)
      OBVIOUS
    <3>5. /\ c \in Seq(Nat) /\ Len(c) = k + 1 /\ c[k + 1] = k /\ \A i \in 1 .. k : c[i] = a[i]
      BY <3>1, <3>2, <3>4
    <3>6. \A i \in 1 .. k + 1 : b[i] = c[i]
      BY <3>3, <3>5
    <3>7. b = c
      BY <3>1, <3>2, <3>5, <3>6, SeqEqual
    <3>8. QED
      BY <3>1, <3>2, <3>4, <3>7
  <2> HIDE DEF turns
  <2>2. after(k + 1) = remove_history(after(k), k)
    <3>1. PICK a : a = turns(k) /\ a \in Seq(Nat) /\ turns(k + 1) = Append(a, k)
      BY <2>1
    <3>2. OfHistory!Folded(s, Append(a, k)) = remove_history(OfHistory!Folded(s, a), k)
      BY <3>1, OfHistory!FoldAppend
    <3>3. QED
      BY <3>1, <3>2
  <2>3. PICK h : h = after(k) /\ h \in Seq(S) /\ Remaining(k, n, Len(h))
    BY <1>3
  <2>4. /\ remove_history(h, k) \in Seq(S)
        /\ Len(remove_history(h, k)) = IF k < Len(h) THEN Len(h) - 1 ELSE Len(h)
    BY <2>3, Freed
  <2>5. Len(h) \in Nat
    BY <2>3, LenProperties
  <2>6. Remaining(k + 1, n, IF k < Len(h) THEN Len(h) - 1 ELSE Len(h))
    BY <2>3, <2>5, RemainingStep
  <2>7. QED
    BY <2>2, <2>3, <2>4, <2>6
<1> HIDE DEF turns
<1>4. Nat \subseteq T
  <2> HIDE DEF T
  <2>1. QED
    BY <1>2, <1>3, OfPlots!NatSetInduction
<1>5. PICK h : h = after(n) /\ h \in Seq(S) /\ Remaining(n, n, Len(h))
  BY <1>4
<1>6. RemoveHistory(s) = h
  BY <1>1, <1>5 DEF turns, RemoveHistory, FoldLeft, MapThenFoldSet, Max,
     OfHistory!Folded, OfHistory!FoldLeft, OfHistory!MapThenFoldSet, OfHistory!Max
<1>7. Len(h) \in Nat
  BY <1>5, LenProperties
<1>8. Len(h) = n \div 2
  BY <1>5, <1>7 DEF Remaining
<1>9. QED
  BY <1>1, <1>6, <1>8
-----------------------------------------------------------------------------
(* The entries.                                                             *)
Tokens == {"(", ")", "x", "?"}

\* The session after lines: the entry so far, if one is begun, the history,
\* the answers, the errors, and ans.
Has(c, entry, inside, history, answers, errors, ans) ==
    /\ DOMAIN c = {"calcType", "exit", "imported", "entry", "inside", "history", "answers", "errors", "ans"}
    /\ c.entry = entry /\ c.inside = inside /\ c.history = history
    /\ c.answers = answers /\ c.errors = errors /\ c.ans = ans

\* At first it has nothing.
LEMMA HasNothing == Has(Calculator, <<>>, FALSE, <<>>, <<>>, <<>>, <<>>)
BY DEF Calculator, Has

\* What a line does to it.
LEMMA ReadStep ==
    ASSUME NEW entry, NEW inside, NEW history, NEW answers, NEW errors, NEW ans, NEW e, NEW c, NEW whole,
           Has(c, entry, inside, history, answers, errors, ans), whole = entry \o e
    PROVE  LET d == ReadLine(c, e) IN
           /\ e = <<>> => Has(d, <<>>, FALSE, history, answers, errors, ans)
           /\ e # <<>> /\ ~isCompleteExpression(whole) =>
                 Has(d, whole, TRUE, Append(history, e), answers, errors, ans)
           /\ e # <<>> /\ isCompleteExpression(whole) /\ Correct(whole) =>
                 Has(d, <<>>, FALSE, Append(history, e), Append(answers, whole), errors, whole)
           /\ e # <<>> /\ isCompleteExpression(whole) /\ ~Correct(whole) =>
                 Has(d, <<>>, FALSE, Append(history, e), answers, Append(errors, whole), ans)
<1>1. CASE e = <<>>
  <2>1. ReadLine(c, e) = [c EXCEPT !.inside = FALSE, !.entry = <<>>]
    BY <1>1 DEF ReadLine
  <2>2. QED
    BY <1>1, <2>1 DEF Has
<1>2. PICK b : b = [c EXCEPT !.history = Append(@, e), !.entry = @ \o e]
  OBVIOUS
<1>3. Has(b, whole, inside, Append(history, e), answers, errors, ans)
  BY <1>2 DEF Has
<1>4. CASE e # <<>> /\ ~isCompleteExpression(whole)
  <2>1. ReadLine(c, e) = [b EXCEPT !.inside = TRUE]
    BY <1>2, <1>3, <1>4 DEF ReadLine, Has
  <2>2. QED
    BY <1>3, <1>4, <2>1 DEF Has
<1>5. CASE e # <<>> /\ isCompleteExpression(whole)
  <2>1. PICK f : f = calculate(b, whole)
    OBVIOUS
  <2>2. ReadLine(c, e) = [f EXCEPT !.entry = <<>>, !.inside = FALSE]
    BY <1>2, <1>3, <1>5, <2>1 DEF ReadLine, Has
  <2>3. CASE Correct(whole)
    <3>1. f = [b EXCEPT !.answers = Append(@, whole), !.ans = whole]
      BY <2>1, <2>3 DEF calculate
    <3>2. Has(f, whole, inside, Append(history, e), Append(answers, whole), errors, whole)
      BY <1>3, <3>1 DEF Has
    <3>3. QED
      BY <1>5, <2>2, <2>3, <3>2 DEF Has
  <2>4. CASE ~Correct(whole)
    <3>1. f = [b EXCEPT !.errors = Append(@, whole)]
      BY <2>1, <2>4 DEF calculate
    <3>2. Has(f, whole, inside, Append(history, e), answers, Append(errors, whole), ans)
      BY <1>3, <3>1 DEF Has
    <3>3. QED
      BY <1>5, <2>2, <2>4, <3>2 DEF Has
  <2>5. QED
    BY <2>3, <2>4
<1>6. QED
  BY <1>1, <1>4, <1>5

\* One entry is open, the one that the next line goes on with: what the code
\* has joined so far, unless the next line is the first of it.
Reading(s, first, inside, ans) ==
    /\ inside \in BOOLEAN /\ Open(s) = {first}
    /\ Has(Session(s), Joined(s, first, Len(s)), inside, NonEmpty(s), Texts(s, TRUE), Texts(s, FALSE), ans)
    /\ inside <=> ~Starts(s)[Len(s) + 1]
    /\ Texts(s, TRUE) # <<>> => ans = Last(Texts(s, TRUE))

\* What EntriesCalculated says of lines, with that.
LinesOK(s) ==
    /\ s \in Seq(Seq(Tokens))
    /\ \A j \in 1 .. Len(s) : \A h, i \in Firsts(s, j) : h = i
    /\ \E first, inside, ans : Reading(s, first, inside, ans)

\* Nothing more, and an element more.
LEMMA WithMore == ASSUME NEW S, NEW s \in Seq(S), NEW e \in S PROVE s \o <<>> = s /\ s \o <<e>> = Append(s, e)
OBVIOUS

\* The last of a sequence with an element more.
LEMMA LastAppended == ASSUME NEW S, NEW s \in Seq(S), NEW e \in S PROVE Last(Append(s, e)) = e
BY DEF Last

\* A line more.
LEMMA LinesStep ==
    ASSUME NEW s, LinesOK(s), NEW e \in Seq(Tokens)
    PROVE  LinesOK(Append(s, e))
<1>1. PICK t, n, N, M : t = Append(s, e) /\ n = Len(s) /\ N = n + 1 /\ M = n + 2
  OBVIOUS
<1>2. s \in Seq(Seq(Tokens)) /\ t \in Seq(Seq(Tokens)) /\ n \in Nat /\ Len(t) = N /\ Len(t) + 1 = M
  BY <1>1, Appended DEF LinesOK
<1>3. PICK first, inside, ans : Reading(s, first, inside, ans)
  BY DEF LinesOK
<1>4. first \in 1 .. N
  BY <1>1, <1>3 DEF Reading, Open
<1>5. PICK entry, whole : entry = Joined(s, first, n) /\ whole = Joined(t, first, N)
  OBVIOUS
<1>6. whole = entry \o e /\ whole \in Seq(Tokens)
  <2>1. first \in 1 .. Len(s) + 1
    BY <1>1, <1>4
  <2>2. /\ Joined(Append(s, e), first, Len(s) + 1) = Joined(s, first, Len(s)) \o e
        /\ Joined(s, first, Len(s)) \in Seq(Tokens)
    BY <1>2, <2>1, JoinedNext
  <2>3. whole = entry \o e /\ entry \in Seq(Tokens)
    BY <1>1, <1>5, <2>2
  <2>4. QED
    BY <2>3
<1>7. PICK c, d : c = Session(s) /\ d = Session(t) /\ d = ReadLine(c, e)
  BY <1>1, <1>2, SessionAppend
<1>8. Firsts(t, N) = IF e # <<>> /\ isCompleteExpression(whole) THEN {first} ELSE {}
  <2>1. Firsts(t, N) = {i \in Open(s) : e # <<>> /\ isCompleteExpression(Joined(t, i, N))}
    BY <1>1, <1>2, FirstsAppend
  <2>2. QED
    BY <1>3, <1>5, <2>1 DEF Reading
<1>9. \A j \in 1 .. N : \A h, i \in Firsts(t, j) : h = i
  <2>1. \A j \in 1 .. n : Firsts(t, j) = Firsts(s, j)
    BY <1>1, <1>2, FirstsAppend
  <2>2. 1 .. N = (1 .. n) \cup {N}
    BY <1>1, <1>2
  <2>3. \A j \in 1 .. n : \A h, i \in Firsts(s, j) : h = i
    BY <1>1 DEF LinesOK
  <2>4. QED
    BY <1>8, <2>1, <2>2, <2>3
<1>10. Starts(t)[M] <=> e = <<>> \/ isCompleteExpression(whole)
  <2>1. Starts(t)[M] <=> e = <<>> \/ \E h \in 1 .. N : Starts(s)[h] /\ Completes(t, h, N)
    BY <1>1, <1>2, StartsAppend
  <2>2. \A h \in 1 .. N : Starts(t)[h] <=> Starts(s)[h]
    BY <1>1, <1>2, StartsAppend
  <2>3. Firsts(t, N) = {h \in 1 .. N : Starts(s)[h] /\ Completes(t, h, N)}
    BY <2>2 DEF Firsts
  <2>4. QED
    BY <1>8, <2>1, <2>3
<1>11. Open(t) = IF e = <<>> \/ isCompleteExpression(whole) THEN {M} ELSE {first}
  <2>1. Open(t) = {i \in Open(s) : e # <<>> /\ ~isCompleteExpression(Joined(t, i, N))} \cup {i \in {M} : Starts(t)[i]}
    BY <1>1, <1>2, OpenAppend
  <2>2. QED
    BY <1>3, <1>5, <1>10, <2>1 DEF Reading
<1>12. Joined(t, M, N) = <<>>
  <2>1. SubSeq(t, M, N) = <<>>
    BY <1>1, <1>2, SubSeqEmpty
  <2>2. QED
    BY <2>1, FlattenEmpty DEF Joined
<1>13. Entries(t, N) = IF e # <<>> /\ isCompleteExpression(whole) THEN {whole} ELSE {}
  BY <1>5, <1>8 DEF Entries
<1>14. PICK right, wrong, hist : /\ right = Texts(s, TRUE) /\ wrong = Texts(s, FALSE) /\ hist = NonEmpty(s)
                                 /\ right \in Seq(Seq(Tokens)) /\ wrong \in Seq(Seq(Tokens))
                                 /\ hist \in Seq(Seq(Tokens))
  BY <1>1, <1>2, TextsAppend, NonEmptyAppend
<1>15. /\ Texts(t, TRUE) = right \o EntryText(Entries(t, N), TRUE)
       /\ Texts(t, FALSE) = wrong \o EntryText(Entries(t, N), FALSE)
       /\ NonEmpty(t) = hist \o Kept(e)
  <2>1. ASSUME NEW x PROVE Texts(t, x) = Texts(s, x) \o EntryText(Entries(t, N), x)
    <3>1. Texts(Append(s, e), x) = Texts(s, x) \o EntryText(Entries(Append(s, e), Len(s) + 1), x)
      BY <1>2, TextsAppend
    <3>2. QED
      BY <1>1, <3>1
  <2>2. NonEmpty(t) = NonEmpty(s) \o Kept(e)
    BY <1>1, <1>2, NonEmptyAppend
  <2>3. QED
    BY <1>14, <2>1, <2>2
<1>16. Has(c, entry, inside, hist, right, wrong, ans)
  BY <1>1, <1>3, <1>5, <1>7, <1>14 DEF Reading
<1>17. /\ right \o <<>> = right /\ wrong \o <<>> = wrong /\ hist \o <<>> = hist
       /\ right \o <<whole>> = Append(right, whole) /\ wrong \o <<whole>> = Append(wrong, whole)
       /\ hist \o <<e>> = Append(hist, e)
  BY <1>6, <1>14, WithMore
<1>18. /\ e = <<>> => Has(d, <<>>, FALSE, hist, right, wrong, ans)
       /\ e # <<>> /\ ~isCompleteExpression(whole) => Has(d, whole, TRUE, Append(hist, e), right, wrong, ans)
       /\ e # <<>> /\ isCompleteExpression(whole) /\ Correct(whole) =>
             Has(d, <<>>, FALSE, Append(hist, e), Append(right, whole), wrong, whole)
       /\ e # <<>> /\ isCompleteExpression(whole) /\ ~Correct(whole) =>
             Has(d, <<>>, FALSE, Append(hist, e), right, Append(wrong, whole), ans)
  <2>1. PICK x : Has(c, entry, x, hist, right, wrong, ans)
    BY <1>16
  <2>2. PICK g, b : d = ReadLine(g, b) /\ g = c /\ b = e /\ whole = entry \o b
    BY <1>6, <1>7
  <2>3. Has(g, entry, x, hist, right, wrong, ans)
    BY <2>1, <2>2
  <2>4. QED
    BY <2>2, <2>3, ReadStep
<1>19. CASE e = <<>>
  <2>1. Has(d, <<>>, FALSE, hist, right, wrong, ans)
    BY <1>18, <1>19
  <2>2. Texts(t, TRUE) = right /\ Texts(t, FALSE) = wrong /\ NonEmpty(t) = hist
    <3>1. EntryText(Entries(t, N), TRUE) = <<>> /\ EntryText(Entries(t, N), FALSE) = <<>> /\ Kept(e) = <<>>
      BY <1>13, <1>19, TextOfOne DEF Kept
    <3>2. QED
      BY <1>15, <1>17, <3>1
  <2>3. QED
    <3>1. Open(t) = {M} /\ Starts(t)[Len(t) + 1] /\ Joined(t, M, Len(t)) = <<>>
      BY <1>2, <1>10, <1>11, <1>12, <1>19
    <3>2. right # <<>> => ans = Last(right)
      BY <1>3, <1>14 DEF Reading
    <3>3. Reading(t, M, FALSE, ans)
      BY <1>7, <2>1, <2>2, <3>1, <3>2 DEF Reading
    <3>4. QED
      BY <1>1, <1>2, <1>9, <3>3 DEF LinesOK
<1>20. CASE e # <<>> /\ ~isCompleteExpression(whole)
  <2>1. Has(d, whole, TRUE, Append(hist, e), right, wrong, ans)
    BY <1>18, <1>20
  <2>2. Texts(t, TRUE) = right /\ Texts(t, FALSE) = wrong /\ NonEmpty(t) = Append(hist, e)
    <3>1. EntryText(Entries(t, N), TRUE) = <<>> /\ EntryText(Entries(t, N), FALSE) = <<>> /\ Kept(e) = <<e>>
      BY <1>13, <1>20, TextOfOne DEF Kept
    <3>2. QED
      BY <1>15, <1>17, <3>1
  <2>3. QED
    <3>1. Open(t) = {first} /\ ~Starts(t)[Len(t) + 1] /\ Joined(t, first, Len(t)) = whole
      BY <1>2, <1>5, <1>10, <1>11, <1>20
    <3>2. right # <<>> => ans = Last(right)
      BY <1>3, <1>14 DEF Reading
    <3>3. Reading(t, first, TRUE, ans)
      BY <1>7, <2>1, <2>2, <3>1, <3>2 DEF Reading
    <3>4. QED
      BY <1>1, <1>2, <1>9, <3>3 DEF LinesOK
<1>21. CASE e # <<>> /\ isCompleteExpression(whole) /\ Correct(whole)
  <2>1. Has(d, <<>>, FALSE, Append(hist, e), Append(right, whole), wrong, whole)
    BY <1>18, <1>21
  <2>2. Texts(t, TRUE) = Append(right, whole) /\ Texts(t, FALSE) = wrong /\ NonEmpty(t) = Append(hist, e)
    <3>1. EntryText(Entries(t, N), TRUE) = <<whole>> /\ EntryText(Entries(t, N), FALSE) = <<>> /\ Kept(e) = <<e>>
      BY <1>13, <1>21, TextOfOne, CorrectType DEF Kept
    <3>2. QED
      BY <1>15, <1>17, <3>1
  <2>3. Last(Append(right, whole)) = whole
    BY <1>6, <1>14, LastAppended
  <2>4. QED
    <3>1. Open(t) = {M} /\ Starts(t)[Len(t) + 1] /\ Joined(t, M, Len(t)) = <<>>
      BY <1>2, <1>10, <1>11, <1>12, <1>21
    <3>2. Reading(t, M, FALSE, whole)
      BY <1>7, <2>1, <2>2, <2>3, <3>1 DEF Reading
    <3>3. QED
      BY <1>1, <1>2, <1>9, <3>2 DEF LinesOK
<1>22. CASE e # <<>> /\ isCompleteExpression(whole) /\ ~Correct(whole)
  <2>1. Has(d, <<>>, FALSE, Append(hist, e), right, Append(wrong, whole), ans)
    BY <1>18, <1>22
  <2>2. Texts(t, TRUE) = right /\ Texts(t, FALSE) = Append(wrong, whole) /\ NonEmpty(t) = Append(hist, e)
    <3>1. EntryText(Entries(t, N), TRUE) = <<>> /\ EntryText(Entries(t, N), FALSE) = <<whole>> /\ Kept(e) = <<e>>
      BY <1>13, <1>22, TextOfOne, CorrectType DEF Kept
    <3>2. QED
      BY <1>15, <1>17, <3>1
  <2>3. QED
    <3>1. Open(t) = {M} /\ Starts(t)[Len(t) + 1] /\ Joined(t, M, Len(t)) = <<>>
      BY <1>2, <1>10, <1>11, <1>12, <1>22
    <3>2. right # <<>> => ans = Last(right)
      BY <1>3, <1>14 DEF Reading
    <3>3. Reading(t, M, FALSE, ans)
      BY <1>7, <2>1, <2>2, <3>1, <3>2 DEF Reading
    <3>4. QED
      BY <1>1, <1>2, <1>9, <3>3 DEF LinesOK
<1>23. QED
  BY <1>19, <1>20, <1>21, <1>22

\* No lines: the first will begin an entry.
LEMMA LinesBegin == LinesOK(<<>>)
<1>1. PICK s : s = <<>>
  OBVIOUS
<1>2. s \in Seq(Seq(Tokens)) /\ Len(s) = 0 /\ DOMAIN s = {} /\ 1 .. Len(s) = {} /\ 1 .. Len(s) + 1 = {1}
  <2>1. s \in Seq(Seq(Tokens)) /\ Len(s) = 0
    BY <1>1
  <2>2. 1 .. 0 = {} /\ 1 .. 0 + 1 = {1}
    OBVIOUS
  <2>3. DOMAIN s = {}
    BY <1>1
  <2>4. QED
    BY <2>1, <2>2, <2>3
<1>3. Starts(s)[1]
  <2>1. 1 \in 1 .. Len(s) + 1
    BY <1>2
  <2>2. QED
    BY <1>2, <2>1, StartsIs
<1>4. Open(s) = {1}
  BY <1>2, <1>3 DEF Open, Goes
<1>5. Joined(s, 1, 0) = <<>>
  <2>1. SubSeq(s, 1, 0) = <<>>
    BY SubSeqEmpty
  <2>2. QED
    BY <2>1, FlattenEmpty DEF Joined
<1>6. \A c : Texts(s, c) = <<>>
  <2>1. ASSUME NEW c PROVE Texts(s, c) = <<>>
    <3>1. [j \in DOMAIN s |-> EntryText(Entries(s, j), c)] = <<>>
      BY <1>2
    <3>2. QED
      BY <3>1, FlattenEmpty DEF Texts, EntryText
  <2>2. QED
    BY <2>1
<1>7. NonEmpty(s) = <<>>
  <2>1. [j \in DOMAIN s |-> Kept(s[j])] = <<>>
    BY <1>2
  <2>2. QED
    BY <2>1, FlattenEmpty DEF NonEmpty, Kept
<1>8. Has(Session(s), <<>>, FALSE, <<>>, <<>>, <<>>, <<>>)
  BY <1>1, SessionEmpty, HasNothing
<1>9. LinesOK(s)
  <2>1. Joined(s, 1, Len(s)) = <<>> /\ Starts(s)[Len(s) + 1]
    <3>1. Len(s) = 0 /\ 0 + 1 = 1
      BY <1>2
    <3>2. QED
      BY <1>3, <1>5, <3>1
  <2>2. Texts(s, TRUE) = <<>> /\ Texts(s, FALSE) = <<>>
    BY <1>6
  <2>3. Reading(s, 1, FALSE, <<>>)
    BY <1>4, <1>7, <1>8, <2>1, <2>2 DEF Reading
  <2>4. QED
    BY <1>2, <2>3 DEF LinesOK
<1>10. QED
  BY <1>1, <1>9

\* It says what the property says.
LEMMA LinesMean == ASSUME NEW s, s = input, LinesOK(s) PROVE EntriesCalculated
<1>1. PICK right, wrong, hist :
        right = Texts(s, TRUE) /\ wrong = Texts(s, FALSE) /\ hist = NonEmpty(s)
  <2>1. PICK right : right = Texts(s, TRUE)
    OBVIOUS
  <2>2. PICK wrong : wrong = Texts(s, FALSE)
    OBVIOUS
  <2>3. QED
    BY <2>1, <2>2
<1>2. s \in Seq(Seq(Tokens)) /\ DOMAIN s = 1 .. Len(s)
  BY <1>1 DEF LinesOK
<1>3. PICK entry, inside, ans :
        /\ Has(Session(s), entry, inside, hist, right, wrong, ans)
        /\ inside <=> ~Starts(s)[Len(s) + 1]
        /\ right # <<>> => ans = Last(right)
  <2>1. PICK first, inside, ans : Reading(s, first, inside, ans)
    BY DEF LinesOK
  <2>2. PICK entry : entry = Joined(s, first, Len(s))
    OBVIOUS
  <2>3. /\ Has(Session(s), entry, inside, hist, right, wrong, ans)
        /\ inside <=> ~Starts(s)[Len(s) + 1]
        /\ right # <<>> => ans = Last(right)
    BY <1>1, <2>1, <2>2 DEF Reading
  <2>4. QED
    BY <2>3
<1>4. PICK c : /\ c = Session(s) /\ c.inside = inside /\ c.history = hist /\ c.answers = right
               /\ c.errors = wrong /\ c.ans = ans
  BY <1>3 DEF Has
<1>5. hist \in Seq(Seq(Tokens))
  <2>1. <<>> \in Seq(Tokens)
    OBVIOUS
  <2>2. QED
    BY <1>1, <1>2, <2>1, NonEmptyAppend
<1>6. Len(RemoveHistory(hist)) = Len(hist) \div 2
  BY <1>5, HistoryHalved
<1>7. \A j \in DOMAIN s : \A h, i \in Firsts(s, j) : h = i
  BY <1>1, <1>2 DEF LinesOK
<1>8. QED
  BY <1>1, <1>3, <1>4, <1>6, <1>7 DEF EntriesCalculated

LinesInv == kind = "lines" => LinesOK(input)

\* The session has calculated the entries, whatever the lines are.
LEMMA LinesInvariant == EventsSpec => []LinesInv
<1>1. EventsInit => LinesInv
  BY LinesBegin DEF EventsInit, LinesInv
<1>2. LinesInv /\ [EventsNext]_vars => LinesInv'
  <2>1. SUFFICES ASSUME LinesInv, [EventsNext]_vars, kind' = "lines" PROVE LinesOK(input)'
    BY DEF LinesInv
  <2>2. CASE UNCHANGED vars
    BY <2>1, <2>2 DEF vars, LinesInv
  <2>3. CASE GrowLines
    <3>1. LinesOK(input) /\ \E e \in CalcLines : input' = Append(input, e)
      BY <2>1, <2>3 DEF GrowLines, Grow, LinesInv
    <3>2. CalcLines \subseteq Seq(Tokens)
      BY EventsAssumption DEF Tokens
    <3>3. QED
      BY <3>1, <3>2, LinesStep
  <2>4. CASE GrowPlots \/ GrowArguments \/ GrowViewport
    BY <2>1, <2>4 DEF GrowPlots, GrowArguments, GrowViewport, Grow
  <2>5. QED
    BY <2>1, <2>2, <2>3, <2>4 DEF EventsNext
<1>3. QED
  BY <1>1, <1>2, PTL DEF EventsSpec

\* The command line does what it is told: for all sequences of arguments the
\* first that ends the program does, and those before it are obeyed; for all
\* sequences of lines each entry is calculated once, at the line that
\* completes it, and only every second line of the history is freed.
THEOREM SessionCalculatesAll == EventsSpec => []SessionCalculates
<1>1. ArgumentsInv /\ LinesInv => SessionCalculates
  BY ArgumentsMean, LinesMean DEF ArgumentsInv, LinesInv, SessionCalculates
<1>2. QED
  BY <1>1, ArgumentsInvariant, LinesInvariant, PTL
-----------------------------------------------------------------------------
(* Rounding to a multiple.                                                  *)
USE UnitAssumption

\* Quotient and remainder, with the remainder below the unit.
LEMMA DivMod ==
    ASSUME NEW v \in Int, NEW u \in Nat, u > 0
    PROVE  /\ v \div u \in Int /\ v % u \in 0 .. u - 1
           /\ v = (v \div u) * u + (v % u)
OBVIOUS

\* A multiple by one or more is not below the unit.
LEMMA MultipleAbove == ASSUME NEW a \in Int, NEW u \in Nat, a >= 1 PROVE a * u >= u
OBVIOUS

\* Quotient and remainder are unique.
LEMMA QuotientUnique ==
    ASSUME NEW q \in Int, NEW k \in Int, NEW u \in Nat, u > 0,
           NEW r \in 0 .. u - 1, NEW s \in 0 .. u - 1, q * u + r = k * u + s
    PROVE  q = k
<1>1. (q - k) * u = s - r
  OBVIOUS
<1>2. CASE q - k >= 1
  BY <1>1, <1>2, MultipleAbove
<1>3. CASE k - q >= 1
  <2>1. (k - q) * u = r - s
    OBVIOUS
  <2>2. QED
    BY <1>3, <2>1, MultipleAbove
<1>4. QED
  BY <1>2, <1>3

\* An odd unit is one more than twice its half.
LEMMA Half == Unit \in Nat /\ Unit \div 2 \in Nat /\ Unit = 2 * (Unit \div 2) + 1
OBVIOUS

\* The multiple of Unit that a spin box rounds v to.
Near(v) == ((v + Unit \div 2) \div Unit) * Unit

\* It is a multiple, and v is less than half a unit away.
LEMMA NearClose ==
    ASSUME NEW v \in Int
    PROVE  \E k \in Int : Near(v) = k * Unit /\ 2 * (v - Near(v)) \in 1 - Unit .. Unit - 1
<1>1. PICK h \in Nat : h = Unit \div 2 /\ Unit = 2 * h + 1
  BY Half
<1>2. PICK k, r : k = (v + h) \div Unit /\ r = (v + h) % Unit
  OBVIOUS
<1>3. k \in Int /\ r \in 0 .. Unit - 1 /\ v + h = k * Unit + r
  <2>1. v + h \in Int /\ Unit \in Nat /\ Unit > 0
    BY <1>1
  <2>2. QED
    BY <1>2, <2>1, DivMod
<1>4. Near(v) = k * Unit
  BY <1>1, <1>2 DEF Near
<1>5. PICK n \in Int : n = k * Unit
  BY <1>3
<1>6. v - n = r - h /\ 2 * (r - h) \in 1 - Unit .. Unit - 1
  BY <1>1, <1>3, <1>5
<1>7. QED
  BY <1>3, <1>4, <1>5, <1>6

\* A multiple is rounded to itself.
LEMMA NearSame == ASSUME NEW k \in Int PROVE Near(k * Unit) = k * Unit
<1>1. PICK h \in Nat : h = Unit \div 2 /\ Unit = 2 * h + 1
  BY Half
<1>2. PICK n \in Int : n = k * Unit
  OBVIOUS
<1>3. PICK q, r : q = (n + h) \div Unit /\ r = (n + h) % Unit
  OBVIOUS
<1>4. q \in Int /\ r \in 0 .. Unit - 1 /\ n + h = q * Unit + r
  <2>1. n + h \in Int /\ Unit \in Nat /\ Unit > 0
    BY <1>1
  <2>2. QED
    BY <1>3, <2>1, DivMod
<1>5. q = k
  <2>1. q * Unit + r = k * Unit + h /\ h \in 0 .. Unit - 1 /\ Unit \in Nat /\ Unit > 0
    BY <1>1, <1>2, <1>4
  <2>2. QED
    BY <1>4, <2>1, QuotientUnique
<1>6. QED
  BY <1>1, <1>2, <1>3, <1>5 DEF Near

\* The ends of the range are multiples too.
LEMMA LimitMultiple == \E k \in Int : k > 0 /\ LIMIT = k * Unit
<1>1. PICK k : k = LIMIT \div Unit
  OBVIOUS
<1>2. Unit \in Nat /\ Unit > 0 /\ LIMIT \in Int /\ LIMIT > 0 /\ LIMIT % Unit = 0
  BY Half
<1>3. k \in Int /\ LIMIT = k * Unit + 0
  BY <1>1, <1>2, DivMod
<1>4. k > 0
  <2>1. CASE k <= 0
    <3>1. k * Unit <= 0
      BY <1>2, <1>3, <2>1
    <3>2. QED
      BY <1>2, <1>3, <3>1
  <2>2. QED
    BY <1>3, <2>1
<1>5. QED
  BY <1>2, <1>3, <1>4
-----------------------------------------------------------------------------
(* The boxes.                                                               *)
Mins == {-LIMIT, 0}

Multiple(v) == \E k \in Int : v = k * Unit

\* A value that a box with this minimum can show.
Shows(box, min) == box \in min .. LIMIT /\ Multiple(box)

\* setValue leaves the box with a value it can show, close to what it is given.
LEMMA SetValueShows ==
    ASSUME NEW v \in Int, NEW min \in Mins
    PROVE  Shows(setValue(v, min), min) /\ Displayed(v, setValue(v, min), min)
<1>1. PICK k \in Int : Near(v) = k * Unit /\ 2 * (v - Near(v)) \in 1 - Unit .. Unit - 1
  BY NearClose
<1>2. PICK n \in Int : n = Near(v)
  BY <1>1
<1>3. LIMIT \in Nat /\ min \in Int /\ min <= LIMIT /\ Unit \in Nat /\ -LIMIT \in Int
  BY DEF Mins
<1>4. Multiple(LIMIT) /\ Multiple(min)
  <2>1. PICK j \in Int : LIMIT = j * Unit
    BY LimitMultiple
  <2>2. -LIMIT = (-j) * Unit /\ -j \in Int
    BY <1>3, <2>1
  <2>3. 0 = 0 * Unit
    BY <1>3
  <2>4. Multiple(LIMIT) /\ Multiple(-LIMIT) /\ Multiple(0)
    BY <2>1, <2>2, <2>3 DEF Multiple
  <2>5. QED
    BY <2>4 DEF Mins
<1>5. setValue(v, min) = IF n < min THEN min ELSE IF n > LIMIT THEN LIMIT ELSE n
  BY <1>2, <1>3 DEF setValue, Near
<1>6. CASE n < min
  <2>1. setValue(v, min) = min
    BY <1>5, <1>6
  <2>2. Shows(min, min)
    BY <1>3, <1>4 DEF Shows
  <2>3. Displayed(v, min, min)
    <3>1. v < min \/ 2 * (v - min) \in -Unit .. Unit
      BY <1>1, <1>2, <1>3, <1>6
    <3>2. QED
      BY <3>1 DEF Displayed
  <2>4. QED
    BY <2>1, <2>2, <2>3
<1>7. CASE n > LIMIT
  <2>1. setValue(v, min) = LIMIT
    BY <1>2, <1>3, <1>5, <1>7
  <2>2. Shows(LIMIT, min)
    BY <1>3, <1>4 DEF Shows
  <2>3. Displayed(v, LIMIT, min)
    <3>1. v > LIMIT \/ 2 * (v - LIMIT) \in -Unit .. Unit
      BY <1>1, <1>2, <1>3, <1>7
    <3>2. QED
      BY <3>1 DEF Displayed
  <2>4. QED
    BY <2>1, <2>2, <2>3
<1>8. CASE ~(n < min) /\ ~(n > LIMIT)
  <2>1. setValue(v, min) = n
    BY <1>5, <1>8
  <2>2. Shows(n, min)
    BY <1>1, <1>2, <1>3, <1>8 DEF Shows, Multiple
  <2>3. 2 * (v - n) \in -Unit .. Unit
    BY <1>1, <1>2, <1>3
  <2>4. QED
    BY <2>1, <2>2, <2>3 DEF Displayed
<1>9. QED
  BY <1>6, <1>7, <1>8

\* A value that the box can show stays as it is.
LEMMA SetValueSame ==
    ASSUME NEW min \in Mins, NEW box, Shows(box, min) PROVE setValue(box, min) = box
<1>1. PICK k \in Int : box = k * Unit
  BY DEF Shows, Multiple
<1>2. Near(box) = box
  BY <1>1, NearSame
<1>3. ~(box < min) /\ ~(box > LIMIT) /\ min \in Int /\ LIMIT \in Int /\ box \in Int
  BY <1>1 DEF Shows, Mins
<1>4. QED
  BY <1>2, <1>3 DEF setValue, Near

\* A box from 0 shows 0 exactly for what is not half a unit.
LEMMA SetValueFlat == ASSUME NEW v \in Int PROVE setValue(v, 0) = 0 <=> 2 * v < Unit
<1>1. PICK k \in Int : Near(v) = k * Unit /\ 2 * (v - Near(v)) \in 1 - Unit .. Unit - 1
  BY NearClose
<1>2. PICK n \in Int : n = Near(v)
  BY <1>1
<1>3. LIMIT \in Nat /\ LIMIT > 0 /\ Unit \in Nat
  OBVIOUS
<1>4. setValue(v, 0) = IF n < 0 THEN 0 ELSE IF n > LIMIT THEN LIMIT ELSE n
  BY <1>2, <1>3 DEF setValue, Near
<1>5. setValue(v, 0) = 0 <=> n <= 0
  BY <1>2, <1>3, <1>4
<1>6. CASE k >= 1
  <2>1. n >= Unit
    BY <1>1, <1>2, <1>3, <1>6, MultipleAbove
  <2>2. QED
    BY <1>1, <1>2, <1>3, <1>5, <2>1, Half
<1>7. CASE k <= 0
  <2>1. n <= 0
    BY <1>1, <1>2, <1>3, <1>7
  <2>2. QED
    BY <1>1, <1>2, <1>3, <1>5, <2>1
<1>8. QED
  BY <1>6, <1>7
-----------------------------------------------------------------------------
(* The Viewport tab.                                                        *)
\* Every box holds a value it can show.
BoxesOK(b) ==
    /\ b \in Rectangle
    /\ Shows(b.top, -LIMIT) /\ Shows(b.left, -LIMIT)
    /\ Shows(b.width, 0) /\ Shows(b.height, 0)

\* What the graph tells the boxes they can show.
LEMMA MovedOK == ASSUME NEW r \in Rectangle PROVE BoxesOK(setViewport(r))
<1>1. /\ r.top \in Int /\ r.left \in Int /\ r.width \in Int /\ -r.height \in Int
      /\ 0 \in Mins /\ -LIMIT \in Mins
  BY DEF Rectangle, Mins
<1>2. /\ Shows(setValue(r.top, -LIMIT), -LIMIT) /\ Shows(setValue(r.left, -LIMIT), -LIMIT)
      /\ Shows(setValue(r.width, 0), 0) /\ Shows(setValue(-r.height, 0), 0)
  BY <1>1, SetValueShows
<1>3. \A x, min : Shows(x, min) => x \in Int
  BY DEF Shows
<1>4. QED
  BY <1>2, <1>3 DEF BoxesOK, setViewport, Rectangle

\* What the boxes tell the graph is a viewport.
LEMMA ViewportOK == ASSUME NEW b, BoxesOK(b) PROVE viewport(b) \in Rectangle
<1>1. b \in Rectangle /\ -b.height \in Int
  BY DEF BoxesOK, Rectangle
<1>2. viewport(b) = [b EXCEPT !.height = -b.height]
  BY DEF viewport
<1>3. QED
  BY <1>1, <1>2 DEF Rectangle

\* The boxes show again what they told the graph, so that Apply leaves them.
LEMMA ShowsAgain == ASSUME NEW b, BoxesOK(b) PROVE setViewport(viewport(b)) = b
<1>1. PICK t \in Int, l \in Int, x \in Int, y \in Int :
        b = [top |-> t, left |-> l, width |-> x, height |-> y]
  BY DEF BoxesOK, Rectangle
<1>2. viewport(b) = [top |-> t, left |-> l, width |-> x, height |-> -y]
  BY <1>1 DEF viewport
<1>3. -(-y) = y
  OBVIOUS
<1>4. /\ Shows(t, -LIMIT) /\ Shows(l, -LIMIT) /\ Shows(x, 0) /\ Shows(y, 0)
      /\ 0 \in Mins /\ -LIMIT \in Mins
  BY <1>1 DEF BoxesOK, Mins
<1>5. /\ setValue(t, -LIMIT) = t /\ setValue(l, -LIMIT) = l
      /\ setValue(x, 0) = x /\ setValue(y, 0) = y
  BY <1>4, SetValueSame
<1>6. QED
  BY <1>1, <1>2, <1>3, <1>5 DEF setViewport

\* Apply is at rest once the boxes hold what they can show.
LEMMA OKSettles == ASSUME NEW v, BoxesOK(v.boxes) PROVE Settles(v)
<1>1. PICK b : b = v.boxes
  OBVIOUS
<1>2. PICK a : a = emitViewport(v)
  OBVIOUS
<1>3. a = [graph |-> viewport(b), boxes |-> b]
  BY <1>1, <1>2, ShowsAgain DEF emitViewport, Moved
<1>4. a.boxes = b
  BY <1>3
<1>5. emitViewport(a) = a
  BY <1>1, <1>2, <1>4 DEF emitViewport
<1>6. QED
  BY <1>1, <1>2, <1>4, <1>5 DEF Settles

\* What the graph tells is shown to half a unit or at the end of the range,
\* and Apply flattens what is not half a unit wide or high, nothing else.
LEMMA MovedAgrees == ASSUME NEW r \in Rectangle PROVE Agrees(Moved(r))
<1>1. PICK b : b = setViewport(r)
  OBVIOUS
<1>2. /\ b.left = setValue(r.left, -LIMIT) /\ b.top = setValue(r.top, -LIMIT)
      /\ b.width = setValue(r.width, 0) /\ b.height = setValue(-r.height, 0)
  BY <1>1 DEF setViewport
<1>3. /\ r.top \in Int /\ r.left \in Int /\ r.width \in Int /\ -r.height \in Int
      /\ -2 * r.height = 2 * (-r.height) /\ 0 \in Mins /\ -LIMIT \in Mins
  BY DEF Rectangle, Mins
<1>4. /\ Displayed(r.left, b.left, -LIMIT) /\ Displayed(r.top, b.top, -LIMIT)
      /\ Displayed(r.width, b.width, 0) /\ Displayed(-r.height, b.height, 0)
  BY <1>2, <1>3, SetValueShows
<1>5. PICK again : again = emitViewport(Moved(r)).graph
  OBVIOUS
<1>6. again.width = b.width /\ again.height = -b.height /\ b.height \in Int
  <2>1. again = viewport(b)
    BY <1>1, <1>5 DEF emitViewport, Moved
  <2>2. b \in Rectangle
    BY <1>1, MovedOK DEF BoxesOK
  <2>3. QED
    BY <2>1, <2>2 DEF viewport, Rectangle
<1>7. (again.width = 0 <=> 2 * r.width < Unit) /\ (b.height = 0 <=> 2 * (-r.height) < Unit)
  BY <1>2, <1>3, <1>6, SetValueFlat
<1>8. again.height = 0 <=> -2 * r.height < Unit
  BY <1>3, <1>6, <1>7
<1>9. Moved(r).graph = r /\ Moved(r).boxes = b
  BY <1>1 DEF Moved
<1>10. QED
  BY <1>4, <1>5, <1>7, <1>8, <1>9 DEF Agrees
\* Shown is a fold, of which the first viewport is the base.
LEMMA ShownFolded == ASSUME NEW r, NEW s PROVE Shown(r, s) = OfViewport!Folded(Moved(r), s)
BY DEF Shown, FoldLeft, MapThenFoldSet, Max,
       OfViewport!Folded, OfViewport!FoldLeft, OfViewport!MapThenFoldSet, OfViewport!Max

\* At first the graph shows that viewport.
LEMMA ShownEmpty == ASSUME NEW r PROVE Shown(r, <<>>) = Moved(r)
BY ShownFolded, OfViewport!FoldEmpty

\* An event more changes what is shown once.
LEMMA ShownAppend ==
    ASSUME NEW r, NEW S, NEW s \in Seq(S), NEW e
    PROVE  Shown(r, Append(s, e)) = ViewportEvent(Shown(r, s), e)
BY ShownFolded, OfViewport!FoldAppend

ViewportEvents ==
    {<<"moved", r>> : r \in Rectangle} \cup {<<"apply">>} \cup {<<"typed", b, v>> : b \in Boxes, v \in Int}

\* The graph has a viewport, and every box a value it can show.
WidgetOK(w) == \E g, b : w = [graph |-> g, boxes |-> b] /\ g \in Rectangle /\ BoxesOK(b)

\* What ViewportApplied says of the last event.
Rests(w, e) == (e[1] # "typed" => Agrees(w)) /\ (e[1] = "apply" => emitViewport(w) = w)

\* Any viewport of the graph will do.
LEMMA MovedRests == ASSUME NEW r \in Rectangle PROVE WidgetOK(Moved(r)) /\ Agrees(Moved(r))
BY MovedOK, MovedAgrees DEF Moved, WidgetOK

\* An event keeps the invariant, changes the graph only to a viewport that
\* the boxes show, and leaves Apply with nothing to do if it was Apply.
LEMMA ViewportStep ==
    ASSUME NEW w, WidgetOK(w), NEW e \in ViewportEvents, NEW x, x = ViewportEvent(w, e)
    PROVE  WidgetOK(x) /\ Rests(x, e) /\ (x.graph # w.graph => Agrees(x))
<1>1. PICK g, b : w = [graph |-> g, boxes |-> b] /\ g \in Rectangle /\ BoxesOK(b)
  BY DEF WidgetOK
<1>2. CASE \E r \in Rectangle : e = <<"moved", r>>
  <2>1. PICK r \in Rectangle : e = <<"moved", r>>
    BY <1>2
  <2>2. x = Moved(r) /\ e[1] = "moved"
    BY <2>1 DEF ViewportEvent
  <2>3. QED
    BY <2>2, MovedRests DEF Rests
<1>3. CASE e = <<"apply">>
  <2>1. x = emitViewport(w) /\ x = Moved(viewport(b)) /\ e[1] = "apply"
    BY <1>1, <1>3 DEF ViewportEvent, emitViewport
  <2>2. viewport(b) \in Rectangle
    BY <1>1, ViewportOK
  <2>3. emitViewport(x) = x
    BY <1>1, <2>1, OKSettles DEF Settles
  <2>4. QED
    BY <2>1, <2>2, <2>3, MovedRests DEF Rests
<1>4. CASE \E box \in Boxes, v \in Int : e = <<"typed", box, v>>
  <2>1. PICK box \in Boxes, v \in Int : e = <<"typed", box, v>>
    BY <1>4
  <2>2. PICK min : min = IF box \in {"top", "left"} THEN -LIMIT ELSE 0
    OBVIOUS
  <2>3. PICK n : n = setValue(v, min) /\ Shows(n, min)
    BY <2>2, SetValueShows DEF Mins
  <2>4. n \in Int
    BY <2>2, <2>3 DEF Shows
  <2>5. x = [graph |-> g, boxes |-> [b EXCEPT ![box] = n]] /\ e[1] = "typed"
    BY <1>1, <2>1, <2>2, <2>3 DEF ViewportEvent, Typed
  <2>6. BoxesOK([b EXCEPT ![box] = n])
    BY <1>1, <2>2, <2>3, <2>4 DEF BoxesOK, Rectangle, Boxes
  <2>7. PICK c : c = [b EXCEPT ![box] = n]
    OBVIOUS
  <2>8. x = [graph |-> g, boxes |-> c] /\ BoxesOK(c)
    BY <2>5, <2>6, <2>7
  <2>9. WidgetOK(x) /\ x.graph = w.graph
    BY <1>1, <2>8 DEF WidgetOK
  <2>10. Rests(x, e)
    BY <2>5 DEF Rests
  <2>11. QED
    BY <2>9, <2>10
<1>5. QED
  BY <1>2, <1>3, <1>4 DEF ViewportEvents

ShownAfter(events) == Shown(events[1][2], Tail(events))

\* The graph was given a viewport first, and after that the boxes and the
\* graph stay in order.
ViewportState(events) ==
    /\ events \in Seq(ViewportEvents) /\ \E r \in Rectangle : events[1] = <<"moved", r>>
    /\ WidgetOK(ShownAfter(events))
    /\ Rests(ShownAfter(events), Last(events))

ViewportInv == kind = "viewport" /\ input # <<>> => ViewportState(input)

\* The first event.
LEMMA ViewportBegins ==
    ASSUME NEW r \in Rectangle, NEW e, e = <<"moved", r>>
    PROVE  ViewportState(Append(<<>>, e))
<1>1. PICK t : t = Append(<<>>, e)
  OBVIOUS
<1>2. t = <<e>> /\ t[1] = e /\ Tail(t) = <<>> /\ Last(t) = e /\ e \in ViewportEvents
  BY <1>1 DEF ViewportEvents, Last
<1>3. t \in Seq(ViewportEvents)
  BY <1>2
<1>4. ShownAfter(t) = Moved(r)
  BY <1>2, ShownEmpty DEF ShownAfter
<1>5. e[1] = "moved"
  OBVIOUS
<1>6. QED
  BY <1>1, <1>2, <1>3, <1>4, <1>5, MovedRests DEF ViewportState, Rests

\* An event more.
LEMMA ViewportGoesOn ==
    ASSUME NEW s, s # <<>>, ViewportState(s), NEW e \in ViewportEvents
    PROVE  /\ ViewportState(Append(s, e))
           /\ ShownAfter(Append(s, e)).graph # ShownAfter(s).graph => Agrees(ShownAfter(Append(s, e)))
<1>1. PICK t : t = Append(s, e)
  OBVIOUS
<1>2. s \in Seq(ViewportEvents) /\ Tail(s) \in Seq(ViewportEvents)
  BY DEF ViewportState
<1>3. t \in Seq(ViewportEvents) /\ t[1] = s[1] /\ Tail(t) = Append(Tail(s), e)
  BY <1>1, <1>2
<1>4. Last(t) = e
  BY <1>1, <1>2 DEF Last
<1>5. ShownAfter(t) = ViewportEvent(ShownAfter(s), e)
  <2>1. PICK r, u : r = s[1][2] /\ u = Tail(s)
    OBVIOUS
  <2>2. ShownAfter(s) = Shown(r, u) /\ ShownAfter(t) = Shown(r, Append(u, e))
    BY <1>3, <2>1 DEF ShownAfter
  <2>3. u \in Seq(ViewportEvents)
    BY <1>2, <2>1
  <2>4. Shown(r, Append(u, e)) = ViewportEvent(Shown(r, u), e)
    BY <2>3, ShownAppend
  <2>5. QED
    BY <2>2, <2>4
<1>6. /\ WidgetOK(ShownAfter(t)) /\ Rests(ShownAfter(t), e)
      /\ ShownAfter(t).graph # ShownAfter(s).graph => Agrees(ShownAfter(t))
  BY <1>5, ViewportStep DEF ViewportState
<1>7. QED
  BY <1>1, <1>3, <1>4, <1>6 DEF ViewportState

\* What a step of the tab appends.
LEMMA ViewportGrows ==
    ASSUME GrowViewport
    PROVE  \E e \in ViewportEvents :
              /\ input' = Append(input, e) /\ kind' = kind
              /\ input = <<>> => \E r \in Rectangle : e = <<"moved", r>>
<1>1. PICK e \in {<<"moved", r>> : r \in Rects}
                 \cup IF input = <<>> THEN {}
                      ELSE {<<"apply">>} \cup {<<"typed", b, v>> : b \in Boxes, v \in BoxValues} :
        input' = Append(input, e) /\ kind' = kind
  BY DEF GrowViewport, Grow
<1>2. Rects \subseteq Rectangle /\ BoxValues \subseteq Int
  BY EventsAssumption
<1>3. e \in ViewportEvents /\ (input = <<>> => \E r \in Rectangle : e = <<"moved", r>>)
  <2>1. CASE input = <<>>
    <3>1. \E r \in Rectangle : e = <<"moved", r>>
      BY <1>1, <1>2, <2>1
    <3>2. QED
      BY <3>1 DEF ViewportEvents
  <2>2. CASE input # <<>>
    <3>1. \/ \E r \in Rects : e = <<"moved", r>>
          \/ e = <<"apply">>
          \/ \E b \in Boxes, v \in BoxValues : e = <<"typed", b, v>>
      BY <1>1, <2>2
    <3>2. QED
      BY <1>2, <2>2, <3>1 DEF ViewportEvents
  <2>3. QED
    BY <2>1, <2>2
<1>4. QED
  BY <1>1, <1>3

\* Boxes and graph are in order whatever is shown and typed.
LEMMA ViewportInvariant == EventsSpec => []ViewportInv
<1>1. EventsInit => ViewportInv
  BY DEF EventsInit, ViewportInv
<1>2. ViewportInv /\ [EventsNext]_vars => ViewportInv'
  <2>1. SUFFICES ASSUME ViewportInv, [EventsNext]_vars, kind' = "viewport", input' # <<>>
                 PROVE  ViewportState(input)'
    BY DEF ViewportInv
  <2>2. CASE UNCHANGED vars
    BY <2>1, <2>2 DEF vars, ViewportInv
  <2>3. CASE GrowViewport
    <3>1. PICK e \in ViewportEvents : /\ input' = Append(input, e) /\ kind' = kind
                                      /\ input = <<>> => \E r \in Rectangle : e = <<"moved", r>>
      BY <2>3, ViewportGrows
    <3>2. ViewportState(Append(input, e))
      BY <2>1, <3>1, ViewportBegins, ViewportGoesOn DEF ViewportInv
    <3>3. QED
      BY <3>1, <3>2
  <2>4. CASE GrowPlots \/ GrowArguments \/ GrowLines
    BY <2>1, <2>4 DEF GrowPlots, GrowArguments, GrowLines, Grow
  <2>5. QED
    BY <2>1, <2>2, <2>3, <2>4 DEF EventsNext
<1>3. QED
  BY <1>1, <1>2, PTL DEF EventsSpec

\* Unless something is being typed the boxes show what the graph does, and
\* Apply gives the graph what they show, once: for every unit and range, all
\* rectangles and all typed values.
THEOREM ViewportIsApplied == EventsSpec => []ViewportApplied
<1>1. ViewportInv => ViewportApplied
  <2>1. ASSUME ViewportState(input)
        PROVE  /\ Last(input)[1] # "typed" => Agrees(Widget)
               /\ Settles(Widget)
               /\ Last(input)[1] = "apply" => emitViewport(Widget) = Widget
    <3>1. Widget = ShownAfter(input)
      BY DEF Widget, ShownAfter
    <3>2. Settles(Widget)
      BY <2>1, <3>1, OKSettles DEF ViewportState, WidgetOK
    <3>3. QED
      BY <2>1, <3>1, <3>2 DEF ViewportState, Rests
  <2>2. QED
    BY <2>1 DEF ViewportInv, ViewportApplied
<1>2. QED
  BY <1>1, ViewportInvariant, PTL

\* Whenever the graph's viewport changes, the boxes show it to half a unit or
\* the end of their range, and Apply would flatten it exactly when it is not
\* half a unit wide or high.
THEOREM ChangeAgrees ==
    EventsSpec => [][kind = "viewport" /\ input # <<>> /\ Widget'.graph # Widget.graph => Agrees(Widget)']_vars
<1>1. ViewportInv /\ [EventsNext]_vars =>
        [kind = "viewport" /\ input # <<>> /\ Widget'.graph # Widget.graph => Agrees(Widget)']_vars
  <2>1. SUFFICES ASSUME ViewportInv, EventsNext, kind = "viewport", input # <<>>, Widget'.graph # Widget.graph
                 PROVE  Agrees(Widget)'
    OBVIOUS
  <2>2. GrowViewport
    BY <2>1 DEF EventsNext, GrowPlots, GrowArguments, GrowLines, Grow
  <2>3. PICK e \in ViewportEvents : input' = Append(input, e)
    BY <2>2, ViewportGrows
  <2>4. PICK s, t : s = input /\ t = Append(s, e)
    OBVIOUS
  <2>5. Widget = ShownAfter(s) /\ Widget' = ShownAfter(t)
    BY <2>3, <2>4 DEF Widget, ShownAfter
  <2>6. ShownAfter(t).graph # ShownAfter(s).graph => Agrees(ShownAfter(t))
    BY <2>1, <2>4, ViewportGoesOn DEF ViewportInv
  <2>7. PICK x : x = ShownAfter(t)
    OBVIOUS
  <2>8. Agrees(x) /\ Widget' = x
    BY <2>1, <2>5, <2>6, <2>7
  <2>9. QED
    BY <2>8
<1>2. QED
  BY <1>1, ViewportInvariant, PTL DEF EventsSpec
=============================================================================
