--------------------------- MODULE MCFixedWindow ---------------------------
(***************************************************************************)
(* Instances of FixedWindow for TLC.                                       *)
(***************************************************************************)
EXTENDS FixedWindow, TLC

\* Callers are interchangeable.
Symmetry == Permutations(Callers)
=============================================================================
