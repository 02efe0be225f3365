------------------------------- MODULE Mobile -------------------------------
(***************************************************************************)
(* The variables that KAlgebraMobile keeps for the plots of                *)
(* functionsModel().                                                       *)
(***************************************************************************)
EXTENDS Integers, SequencesExt

(* Plots and variables.  `rows' are the names of the plots in the model,    *)
(* `m_vars' gives a name its value: "plot", or "other" from the console.    *)
NoPlots == [rows |-> <<>>, m_vars |-> <<>>]

modify(m_vars, name, value) ==
    [n \in DOMAIN m_vars \cup {name} |-> IF n = name THEN value ELSE m_vars[n]]

\* A new plot gets a name that no plot has, and its row a variable.
addFunction(m, name) ==
    [rows |-> Append(m.rows, name), m_vars |-> modify(m.m_vars, name, "plot")]

\* Mutant: the variables from this row on are removed.
functionRemovedRest(m, row) ==
    [m EXCEPT !.m_vars = Restrict(@, DOMAIN @ \ {m.rows[i] : i \in row .. Len(m.rows)})]

\* The name is read in the row when it is gone already: it is the name of
\* the plot that came next, if there is one.
functionRemoved(m, row) ==
    [m EXCEPT !.m_vars = IF row > Len(m.rows) THEN @ ELSE Restrict(@, DOMAIN @ \ {m.rows[row]})]

removeRow(m, row) == functionRemoved([m EXCEPT !.rows = RemoveAt(@, row)], row)

\* All rows go at once, and there is no name to read.
clearPlots(m) == [m EXCEPT !.rows = <<>>]

\* The console sets a variable.
consoleSets(m, name) == [m EXCEPT !.m_vars = modify(@, name, "other")]

Event(m, e) ==
    CASE e[1] = "add" -> addFunction(m, e[2])
      [] e[1] = "remove" -> removeRow(m, e[2])
      [] e[1] = "clear" -> clearPlots(m)
      [] e[1] = "set" -> consoleSets(m, e[2])

Plots(events) == FoldLeft(Event, NoPlots, events)
=============================================================================
