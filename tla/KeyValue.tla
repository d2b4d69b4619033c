----------------------------- MODULE KeyValue -----------------------------
(***************************************************************************)
(* What a storage with locks promises its callers: for each key a value    *)
(* and a lock, that have nothing to do with each other or with other keys, *)
(* and that last as long as they were asked to.  `reply` is what the last  *)
(* operation returned.                                                     *)
(***************************************************************************)
EXTENDS Integers

CONSTANTS
    Keys,       \* the callers' keys
    Values,     \* what can be stored
    Lives,      \* how long values and locks may last, in ticks, or Forever
    Grain       \* what is left of a value is told in multiples of Grain ticks

VARIABLES
    value,      \* for each key its value and the ticks it has left
    locked,     \* for each key the ticks its lock has left; 0 when it is free
    reply       \* what the last operation returned

kvVars == <<value, locked, reply>>

Forever == -1
Nothing == [of |-> "nothing", left |-> 0]

\* Nothing was asked, or no answer came.
NoReply == [op |-> "none"]
Failure == [op |-> "error"]

KVInit ==
    /\ value = [k \in Keys |-> Nothing]
    /\ locked = [k \in Keys |-> 0]
    /\ reply = NoReply

\* An operation answers, or its answer is lost.
Returns(answer) == reply' \in {answer, Failure}

Put(k, v, left) ==
    /\ value' = [value EXCEPT ![k] = [of |-> v, left |-> left]]
    /\ Returns([op |-> "set"])
    /\ UNCHANGED locked

\* A value in the place of another may keep its end.
Replace(k, v) == Put(k, v, IF value[k].left = 0 THEN Forever ELSE value[k].left)

Remove(k) ==
    /\ value' = [value EXCEPT ![k] = Nothing]
    /\ Returns([op |-> "delete"])
    /\ UNCHANGED locked

Look(k) ==
    /\ Returns([op |-> "get", val |-> value[k].of])
    /\ UNCHANGED <<value, locked>>

\* What may be told of the ticks left: no more than half a Grain from the truth, so
\* maybe 0 of a value that is there; and 0 if there is none or it has no end.
Near(left) ==
    IF left \in {0, Forever} THEN {0}
    ELSE {told \in 0 .. left + Grain : 2 * (told - left) <= Grain /\ 2 * (left - told) <= Grain}

Remaining(k) ==
    /\ \E told \in Near(value[k].left) : Returns([op |-> "ttl", left |-> told])
    /\ UNCHANGED <<value, locked>>

\* A lock is taken only when it is free.
Acquire(k, left) ==
    /\ locked' = IF locked[k] = 0 THEN [locked EXCEPT ![k] = left] ELSE locked
    /\ Returns([op |-> "lock", taken |-> locked[k] = 0])
    /\ UNCHANGED value

Release(k) ==
    /\ locked' = [locked EXCEPT ![k] = 0]
    /\ Returns([op |-> "unlock"])
    /\ UNCHANGED value

Fail == reply' = Failure /\ UNCHANGED <<value, locked>>

Sooner(left) == IF left > 0 THEN left - 1 ELSE left

Pass ==
    /\ value' = [k \in Keys |->
         IF value[k].left = 1 THEN Nothing ELSE [value[k] EXCEPT !.left = Sooner(@)]]
    /\ locked' = [k \in Keys |-> Sooner(locked[k])]
    /\ reply' = NoReply

KVNext ==
    \/ \E k \in Keys :
         \/ \E left \in Lives :
              Acquire(k, left) \/ \E v \in Values : Put(k, v, left)
         \/ \E v \in Values : Replace(k, v)
         \/ Remove(k) \/ Look(k) \/ Remaining(k) \/ Release(k)
    \/ Fail
    \/ Pass

KVSpec == KVInit /\ [][KVNext]_kvVars
=============================================================================
