------------------------------- MODULE Table -------------------------------
(***************************************************************************)
(* calculateTable of the mobile application: what the page shows, and      *)
(* whether the temporary variable is gone.  Numbers are floating point     *)
(* numbers with a mantissa of Precision bits; those here are all integers. *)
(***************************************************************************)
EXTENDS Integers, Sequences

CONSTANT Precision

ASSUME PrecisionAssumption == Precision \in Nat \ {0}

\* The distance of two numbers near n.
Gap(n) ==
    LET size == IF n < 0 THEN -n ELSE n
    IN  2 ^ (CHOOSE k \in 0 .. size : /\ size < 2 ^ (k + Precision)
                                      /\ k > 0 => size >= 2 ^ (k + Precision - 1))

\* The nearest number, of two the even one.
Round(n) ==
    LET g == Gap(n)
        q == n \div g
        r == n % g
    IN  IF 2 * r < g \/ (2 * r = g /\ q % 2 = 0) THEN q * g ELSE (q + 1) * g

\* Mutant: the limit itself is left out.
RECURSIVE LoopShort(_, _, _, _, _)
LoopShort(i, from, to, step, fails) ==
    CASE i >= to \/ i < from -> <<>>
      [] i \in from .. to - 1 /\ i \in fails -> <<i>>
      [] i \in from .. to - 1 \ fails /\ Round(i + step) = i -> <<i, i>>
      [] OTHER -> <<i>> \o LoopShort(Round(i + step), from, to, step, fails)

RECURSIVE Loop(_, _, _, _, _)
\* for (i = from; i <= to && i >= from && isCorrect; i += step): the row of
\* a value that the function fails at is the last.  A row that comes again
\* comes forever.
Loop(i, from, to, step, fails) ==
    CASE i > to \/ i < from -> <<>>
      [] i \in from .. to /\ i \in fails -> <<i>>
      [] i \in from .. to \ fails /\ Round(i + step) = i -> <<i, i>>
      [] OTHER -> <<i>> \o Loop(Round(i + step), from, to, step, fails)

\* A step of the wrong sign is assigned to a property that RealInput does
\* not have: the function throws before it shows anything.
calculateTable(from, to, step, isCorrect, fails) ==
    LET told(page, rows) == [page |-> page, rows |-> rows, clean |-> TRUE]
    IN  CASE (to - from > 0) # (step > 0) -> [page |-> "none", rows |-> <<>>, clean |-> FALSE]
          [] OTHER ->
             CASE step = 0 -> told("step is 0", <<>>)
               [] step # 0 /\ from = to -> told("same ends", <<>>)
               [] step # 0 /\ from # to /\ ~isCorrect -> told("errors", <<>>)
               [] OTHER -> told("rows", Loop(from, from, to, step, fails))
=============================================================================
