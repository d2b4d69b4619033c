------------------------------- MODULE Quota -------------------------------
(***************************************************************************)
(* What a windowed rate limiter promises, without saying how: a window has *)
(* Rate slots, a request is granted only with a slot of its own, it is     *)
(* refused only when every slot is taken, and no slot is lost: a window    *)
(* ends only when each slot taken in it has been granted.                  *)
(***************************************************************************)
EXTENDS Naturals

CONSTANT Rate       \* slots of a window

VARIABLES
    taken,          \* slots of the current window that belong to a request
    granted,        \* requests of the current window that were told yes
    verdict         \* what the last step told a caller

Init ==
    /\ taken = 0
    /\ granted = 0
    /\ verdict = "none"

\* A request gets a slot and is not answered yet.
Take ==
    /\ taken < Rate
    /\ taken' = taken + 1
    /\ verdict' = "none"
    /\ UNCHANGED granted

\* A request that holds a slot is told yes.
Grant ==
    /\ granted < taken
    /\ granted' = granted + 1
    /\ verdict' = "granted"
    /\ UNCHANGED taken

TakeAndGrant ==
    /\ taken < Rate
    /\ taken' = taken + 1
    /\ granted' = granted + 1
    /\ verdict' = "granted"

Refuse ==
    /\ taken = Rate
    /\ verdict' = "refused"
    /\ UNCHANGED <<taken, granted>>

\* The next window begins.
Renew ==
    /\ granted = taken
    /\ taken' = 0
    /\ granted' = 0
    /\ verdict' = "none"

\* Something the quota does not see.
Quiet ==
    /\ verdict' = "none"
    /\ UNCHANGED <<taken, granted>>

Next == Take \/ Grant \/ TakeAndGrant \/ Refuse \/ Renew \/ Quiet

Spec == Init /\ [][Next]_<<taken, granted, verdict>>
=============================================================================
