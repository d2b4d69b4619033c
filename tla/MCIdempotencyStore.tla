------------------------ MODULE MCIdempotencyStore ------------------------
(***************************************************************************)
(* Instances of IdempotencyStore for TLC.                                  *)
(***************************************************************************)
EXTENDS IdempotencyStore, TLC
=============================================================================
