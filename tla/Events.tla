------------------------------- MODULE Events -------------------------------
(***************************************************************************)
(* The parts of the program that are driven by a sequence of events and    *)
(* run once for each: the plots of the mobile application, the arguments   *)
(* and the lines of the command line, the Viewport tab.  The state is the  *)
(* kind of the events and the sequence so far; the properties compare what *)
(* the code has made of it with what it should be.                         *)
(***************************************************************************)
EXTENDS Growing, Mobile, CommandLine, Viewport

CONSTANTS
    PlotNames, Args, CalcLines, Rects, BoxValues,
    MaxEvents, MaxArgs, MaxLines, MaxMoves      \* bounds

Files == {"file", "file2"}

\* Lines are sequences, an argument that is no option is a file, lengths
\* are integers.
ASSUME EventsAssumption ==
    /\ Args \subseteq {"--calculate", "--evaluate", "--print-time", "--help", "missing"} \cup Files
    /\ CalcLines \subseteq Seq({"(", ")", "x", "?"})
    /\ Rects \subseteq Rectangle /\ BoxValues \subseteq Int

EventsInit == input = <<>> /\ kind \in {"plots", "arguments", "lines", "viewport"}

GrowPlots ==
    /\ kind = "plots"
    /\ LET rows == Plots(input).rows IN
       Grow("plots", {<<"add", n>> : n \in PlotNames \ Range(rows)} \cup {<<"remove", i>> : i \in DOMAIN rows}
                     \cup {<<"clear">>} \cup {<<"set", n>> : n \in PlotNames}, MaxEvents)

GrowArguments == Grow("arguments", Args, MaxArgs)

GrowLines == Grow("lines", CalcLines, MaxLines)

Boxes == {"top", "left", "width", "height"}

\* The first viewport is that of the constructor.
GrowViewport ==
    Grow("viewport", {<<"moved", r>> : r \in Rects}
                     \cup IF input = <<>> THEN {}
                          ELSE {<<"apply">>} \cup {<<"typed", b, v>> : b \in Boxes, v \in BoxValues}, MaxMoves)

EventsNext == GrowPlots \/ GrowArguments \/ GrowLines \/ GrowViewport

EventsSpec == EventsInit /\ [][EventsNext]_vars
-----------------------------------------------------------------------------
(* The plots of the mobile application.                                     *)
\* The event gives the name a variable, by a plot or by the console.
Gives(e, n) == e \in {<<"add", n>>, <<"set", n>>}

\* Event i removes the plot in the row above that of the name.
RemovesAbove(events, i, n) ==
    LET rows == Plots(SubSeq(events, 1, i - 1)).rows IN
    events[i][1] = "remove" /\ events[i][2] < Len(rows) /\ rows[events[i][2] + 1] = n

\* The events that gave the name a variable it still has.
Lives(events, n) ==
    {i \in DOMAIN events : Gives(events[i], n) /\ \A j \in i .. Len(events) : ~RemovesAbove(events, j, n)}

\* A name has a variable if and only if it was given one, by its plot or by
\* the console, and after that no plot was removed from the row above it:
\* the variable of a plot that is removed stays, and the next plot's goes.
VariableOfPlot ==
    \A n \in IF kind = "plots" THEN PlotNames ELSE {} :
        LET m_vars == Plots(input).m_vars
            lives == Lives(input, n)
        IN  /\ n \in DOMAIN m_vars <=> lives # {}
            /\ lives # {} => m_vars[n] = IF input[Max(lives)][1] = "add" THEN "plot" ELSE "other"
-----------------------------------------------------------------------------
(* The command line.                                                        *)
\* The arguments that end the program, and those before the first of them.
Endings(args) == {i \in DOMAIN args : args[i] \in {"--help", "missing"}}

Obeyed(args) == SubSeq(args, 1, Min(Endings(args) \cup {Len(args) + 1}) - 1)

Imported(args) == FlattenSeq([i \in DOMAIN args |-> IF args[i] \in Files THEN <<args[i]>> ELSE <<>>])

Joined(lines, i, j) == FlattenSeq(SubSeq(lines, i, j))

\* Lines i to j follow each other without an empty one, and are complete at
\* the last and at none before.
Completes(lines, i, j) ==
    /\ \A k \in i .. j : lines[k] # <<>>
    /\ isCompleteExpression(Joined(lines, i, j))
    /\ \A k \in i .. j - 1 : ~isCompleteExpression(Joined(lines, i, k))

\* Where an entry may start: first, after an empty line, or after an entry.
Starts(lines) ==
    LET starts[i \in 1 .. Len(lines) + 1] ==
            i = 1 \/ lines[i - 1] = <<>> \/ \E h \in 1 .. i - 1 : starts[h] /\ Completes(lines, h, i - 1)
    IN  starts

\* The first lines of the entries that end with line j.
Firsts(lines, j) == {i \in 1 .. j : Starts(lines)[i] /\ Completes(lines, i, j)}

Entries(lines, j) == {Joined(lines, i, j) : i \in Firsts(lines, j)}

\* The entries in their order, those that are correct or those that are not.
Texts(lines, correct) ==
    LET text(j) == {e \in Entries(lines, j) : Correct(e) = correct} IN
    FlattenSeq([j \in DOMAIN lines |-> IF text(j) = {} THEN <<>> ELSE <<CHOOSE e \in text(j) : TRUE>>])

NonEmpty(lines) == FlattenSeq([j \in DOMAIN lines |-> IF lines[j] = <<>> THEN <<>> ELSE <<lines[j]>>])

\* Arguments are obeyed in their order up to the first that ends the
\* program, files before it are imported, and the last mode given counts.
ArgumentsObeyed ==
    LET c == Arguments(input)
        ends == Endings(input)
        obeyed == Obeyed(input)
    IN  /\ c.exit = IF ends = {} THEN -1 ELSE IF input[Min(ends)] = "missing" THEN 1 ELSE 0
        /\ c.imported = Imported(obeyed)
        /\ c.calcType = "Calculate" <=>
              \E i \in DOMAIN obeyed : /\ obeyed[i] = "--calculate"
                                       /\ \A j \in i .. Len(obeyed) : obeyed[j] # "--evaluate"

\* An entry is lines that follow each other, none of them empty, the first
\* after an entry or an empty line, and calculated at the first line that
\* completes it, once: nothing is joined across an empty line, no line is
\* lost but those of an entry given up, and ans is the last that succeeded.
\* At the end only every second line of the history is freed.
EntriesCalculated ==
    LET c == Session(input)
        right == Texts(input, TRUE)
    IN  /\ \A j \in DOMAIN input : \A h, i \in Firsts(input, j) : h = i
        /\ c.answers = right /\ c.errors = Texts(input, FALSE)
        /\ right # <<>> => c.ans = Last(right)
        /\ c.history = NonEmpty(input)
        /\ c.inside <=> ~Starts(input)[Len(input) + 1]
        /\ Len(RemoveHistory(c.history)) = Len(c.history) \div 2

\* The command line does what it is told, argument by argument and line by
\* line.
SessionCalculates ==
    /\ kind = "arguments" => ArgumentsObeyed
    /\ kind = "lines" => EntriesCalculated
-----------------------------------------------------------------------------
(* The Viewport tab.                                                        *)
\* Graph and boxes after the events.
Widget == Shown(input[1][2], Tail(input))

\* Unless something is being typed the boxes show the viewport of the
\* graph, to half a unit, or a limit.  Apply gives the graph what they show:
\* once is enough, and it changes nothing that the boxes can show.  It makes
\* a viewport flat that was upside down, or smaller than half a unit.
ViewportApplied ==
    kind = "viewport" /\ input # <<>> =>
        /\ Last(input)[1] # "typed" => Agrees(Widget)
        /\ Settles(Widget)
        /\ Last(input)[1] = "apply" => emitViewport(Widget) = Widget
=============================================================================
