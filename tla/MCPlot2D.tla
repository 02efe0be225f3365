------------------------------ MODULE MCPlot2D ------------------------------
(* Small instances of Plot2D for TLC.                                       *)
EXTENDS Plot2D, TLC

Symmetry == Permutations(Ids) \cup Permutations(Curves)
=============================================================================
