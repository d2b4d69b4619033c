-------------------------- MODULE MCSlidingWindow --------------------------
(***************************************************************************)
(* Instances of SlidingWindow for TLC.                                     *)
(***************************************************************************)
EXTENDS SlidingWindow, TLC

\* Callers are interchangeable.
Symmetry == Permutations(Callers)
=============================================================================
