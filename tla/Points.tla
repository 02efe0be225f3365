------------------------------- MODULE Points -------------------------------
(***************************************************************************)
(* What /func/2d and /func/3d make of the points of a request: which of    *)
(* their coordinates are read, which are compared, and what is answered.   *)
(* Whether a point is near a plot is left to Analitza.                     *)
(***************************************************************************)
EXTENDS JsonSerializer

\* Which way round a plot is given: "x" for y as a function of x (as any
\* first character but "y" and "(" is taken), "y", or an equation.
Forms2D == {"x", "y", "equation"}

\* The same in space: the first and the fourth character of the text, or
\* an equation.
Forms3D == {<<"x", "y">>, <<"x", "z">>, <<"y", "z">>, <<"r", "p">>, <<"=", "=">>}

Pair(point, n) == [i \in 0 .. n - 1 |-> Index(point, i)]

\* "(x, y)", the key of a point in the answer.
prod_lit(c) == Listed(40, [i \in 1 .. Cardinality(DOMAIN c) |-> dump(c[i - 1])], <<44, 32>>, 41)

\* Mutant: the coordinate that is compared is the one that is put in.
Compared2DSame(form, c) ==
    CASE form = "equation" -> Boolean(TRUE) [] form = "y" -> c[1] [] OTHER -> c[0]

\* The coordinate that is converted to a float, to compare it.
Compared2D(form, c) ==
    CASE form = "equation" -> Boolean(TRUE) [] form = "y" -> c[0] [] OTHER -> c[1]

\* In space the first that is left once two are taken out of the map; a
\* name that is no coordinate takes nothing out.
Compared3D(form, c) ==
    LET left == {i \in 0 .. 2 : <<"x", "y", "z">>[i + 1] \notin Range(form)}
    IN  IF form = <<"=", "=">> THEN Boolean(TRUE) ELSE c[Min(left)]

Coordinates(points, n) == [i \in DOMAIN Elements(points) |-> Pair(Elements(points)[i], n)]

\* The keys that the points add to the answer about one plot, or an
\* exception, which the handler turns into 400.
Answer(points, coordinates, compared) ==
    IF \A i \in DOMAIN compared : Indexable(Elements(points)[i]) /\ IsArithmetic(compared[i])
    THEN {prod_lit(c) : c \in Range(coordinates)} ELSE {<<Thrown>>}

status_func2d(points, form) ==
    LET c == Coordinates(points, 2)
    IN  Answer(points, c, [i \in DOMAIN c |-> Compared2D(form, c[i])])

status_func3d(points, form) ==
    LET c == Coordinates(points, 3)
    IN  Answer(points, c, [i \in DOMAIN c |-> Compared3D(form, c[i])])
=============================================================================
