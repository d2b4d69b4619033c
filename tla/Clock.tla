------------------------------- MODULE Clock -------------------------------
(***************************************************************************)
(* The clock of the modules that count time in ticks and meet one of the   *)
(* conversions to whole seconds: the EXPIRE and TTL of Redis as go-redis   *)
(* uses them, and the NumericDate of a token.                              *)
(***************************************************************************)
EXTENDS Integers

CONSTANT Second     \* clock ticks in a second

ASSUME SecondAssumption == Second \in Nat \ {0}
=============================================================================
