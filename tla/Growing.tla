------------------------------ MODULE Growing ------------------------------
(***************************************************************************)
(* An input of one kind, which grows by a piece at a time: what is done    *)
(* with it is a function of the input, and every input up to a length is   *)
(* a state.                                                                *)
(***************************************************************************)
EXTENDS Integers, SequencesExt

VARIABLES kind, input

vars == <<kind, input>>

Grow(k, pieces, max) ==
    /\ kind = k /\ Len(input) < max
    /\ \E p \in pieces : input' = Append(input, p)
    /\ UNCHANGED kind

\* An input whose pieces are parts of a text.
Text == FlattenSeq(input)
=============================================================================
