------------------------- MODULE MCTokenRevocation -------------------------
(***************************************************************************)
(* Instances of TokenRevocation for TLC.                                   *)
(***************************************************************************)
EXTENDS TokenRevocation, TLC

CONSTANTS u1, u2, j1, j2, j3, s1

Claims(sub, jti, sid, exp) == [sub |-> sub, jti |-> jti, sid |-> sid, exp |-> exp]

\* Two tokens of a session, one of them without a jti; another user's token
\* with the same jti, which never expires.
SomeTokens ==
    {Claims(u1, j1, s1, 2), Claims(u1, None, s1, 2), Claims(u2, j1, None, None)}

\* A session whose tokens expire one after the other.
OneSession == {Claims(u1, j1, s1, 1), Claims(u1, j2, s1, 2), Claims(u1, j3, s1, 3)}

\* Callers are interchangeable.
Symmetry == Permutations(Callers)
=============================================================================
