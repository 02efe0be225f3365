----------------------------- MODULE CommandLine -----------------------------
(***************************************************************************)
(* calgebra, the calculator on the command line: its arguments, the loop   *)
(* that reads lines, and the history that it frees.  A line is a sequence  *)
(* of tokens: "(" and ")", "x", and "?" for an expression that fails.      *)
(***************************************************************************)
EXTENDS Integers, SequencesExt

Unclosed(entry) == Len(SelectSeq(entry, LAMBDA c : c = "(")) - Len(SelectSeq(entry, LAMBDA c : c = ")"))

\* An entry is complete when every parenthesis is closed.
isCompleteExpression(entry) == Unclosed(entry) <= 0

Correct(entry) == Unclosed(entry) = 0 /\ "?" \notin Range(entry)

\* What the session has: the answers, as the entries that were evaluated;
\* what ans is; and which errors were printed.
Calculator == [calcType |-> "Evaluate", exit |-> -1, imported |-> <<>>, entry |-> <<>>, inside |-> FALSE,
               history |-> <<>>, answers |-> <<>>, errors |-> <<>>, ans |-> <<>>]

\* One argument.  --help and a file that is not there end the program.
Argument(c, arg) ==
    CASE c.exit # -1 -> c
      [] c.exit = -1 /\ arg \in {"--calculate", "--evaluate"} ->
             [c EXCEPT !.calcType = IF arg = "--calculate" THEN "Calculate" ELSE "Evaluate"]
      [] c.exit = -1 /\ arg = "--print-time" -> c
      [] c.exit = -1 /\ arg = "--help" -> [c EXCEPT !.exit = 0]
      [] c.exit = -1 /\ arg = "missing" -> [c EXCEPT !.exit = 1]
      [] OTHER -> [c EXCEPT !.imported = Append(@, arg)]

Arguments(args) == FoldLeft(Argument, Calculator, args)

\* ans keeps its value if the entry fails.
calculate(c, e) ==
    IF Correct(e) THEN [c EXCEPT !.answers = Append(@, e), !.ans = e]
    ELSE [c EXCEPT !.errors = Append(@, e)]

\* Mutant: an empty line does not end an entry.
ReadLineOn(c, line) ==
    LET d == [c EXCEPT !.history = IF line = <<>> THEN @ ELSE Append(@, line), !.entry = @ \o line]
    IN  IF line # <<>> /\ isCompleteExpression(d.entry)
        THEN [calculate(d, d.entry) EXCEPT !.entry = <<>>, !.inside = FALSE] ELSE [d EXCEPT !.inside = TRUE]

\* One turn of the loop.  `inside' is for the prompt.
ReadLine(c, line) ==
    LET d == [c EXCEPT !.history = Append(@, line), !.entry = @ \o line]
    IN  CASE line = <<>> -> [c EXCEPT !.inside = FALSE, !.entry = <<>>]
          [] line # <<>> /\ isCompleteExpression(d.entry) ->
                 [calculate(d, d.entry) EXCEPT !.entry = <<>>, !.inside = FALSE]
          [] OTHER -> [d EXCEPT !.inside = TRUE]

Session(lines) == FoldLeft(ReadLine, Calculator, lines)

\* remove_history(i), unless the loop is over.
remove_history(history, i) == IF i < Len(history) THEN RemoveAt(history, i + 1) ELSE history

\* for (i = 0; i < length; i++) remove_history(i): the lines not freed.
RemoveHistory(history) == FoldLeft(remove_history, history, [i \in DOMAIN history |-> i - 1])
=============================================================================
