---------------------------- MODULE TokenBucket ----------------------------
(***************************************************************************)
(* The token bucket algorithm of the Redis rate limiter, checkTokenBucket  *)
(* and its Lua script in src/middleware/ratelimit/store.go, for one        *)
(* limiter key.                                                            *)
(*                                                                         *)
(* The script runs atomically in Redis, but the `now` it works with is the *)
(* caller's: scripts may run in another order than their times, and those  *)
(* of two servers are of two clocks.  Time is relative: the bucket and a   *)
(* call have the age of the `now` they carry.                              *)
(*                                                                         *)
(* A token is Window units, so that a tick of refill is Rate units and all *)
(* numbers are whole.                                                      *)
(***************************************************************************)
EXTENDS Clock

CONSTANTS
    Callers,    \* requests that may be in CheckAndRecord at the same time
    Rate,       \* RedisStoreConfig.Rate: the capacity, in tokens
    Window,     \* RedisStoreConfig.Window, in ticks
    MaxDelay,   \* bound: ticks a caller's `now` lags behind its script
    Retries,    \* bound: times the client repeats a command
    Faults      \* what may go wrong: a subset of FaultKinds

\* "error": the script does not run and the client returns an error; "lost":
\* it runs, and its reply is lost or malformed; "retried": the client runs it
\* again, its first reply lost.
FaultKinds == {"error", "lost", "retried"}

ASSUME RateAssumption == Rate \in Nat \ {0}
ASSUME TimeAssumption == Window \in Nat \ {0}
ASSUME BoundAssumption == MaxDelay \in Nat /\ Retries \in Nat
ASSUME FaultAssumption == Faults \subseteq FaultKinds

VARIABLES
    bucket,     \* the Redis hash: units it holds, age of last_refill, TTL
    call,       \* for each caller, whether it calls, the age of its `now`, and
                \* how often the client has repeated the script
    reply,      \* what the last step returned to a caller
    birth,      \* history: age of the `now` the bucket was created with
    spent,      \* history: tokens taken from this bucket
    rewound     \* history: ticks refusals have moved last_refill back by

vars == <<bucket, call, reply, birth, spent, rewound>>

Full == Rate * Window

NoTTL == -1
Missing == [live |-> FALSE, units |-> 0, age |-> 0, ttl |-> NoTTL]
Idle == [busy |-> FALSE, age |-> 0, repeats |-> 0]
NoReply == [verdict |-> "none", reset |-> 0]

AtMost(bound, n) == IF n < bound THEN n ELSE bound

\* The least integer not below a / b.
CeilDiv(a, b) == -((-a) \div b)

\* math.ceil(capacity / refill_rate): the window, in whole seconds.
KeyTTL == CeilDiv(Window, Second) * Second

-----------------------------------------------------------------------------
(* The script.  Its result is the bucket it leaves, its answer, and when a  *)
(* token is to be had, counted from `now`, which is `age` ticks old.        *)

\* (Mutation of Created: a new bucket starts empty, and refuses.)
CreatedEmpty(age) ==
    [bucket  |-> [live |-> TRUE, units |-> 0, age |-> age, ttl |-> KeyTTL],
     verdict |-> "denied",
     reset   |-> Window \div Rate]

Created(age) ==
    [bucket  |-> [live |-> TRUE, units |-> Full - Window, age |-> age, ttl |-> KeyTTL],
     verdict |-> "allowed",
     reset   |-> Window \div Rate]

\* (Mutation of Refilled: the capacity is forgotten.)
RefilledUncapped(b, age) == b.units + Rate * (b.age - age)

\* last_refill is b.age ticks old: now - last_refill is b.age - age.
Refilled(b, age) == AtMost(Full, b.units + Rate * (b.age - age))

\* (Mutation of WaitFrom: rounded down.)
WaitFromFloor(units) == (Window - units) \div Rate

WaitFrom(units) == CeilDiv(Window - units, Rate)

\* (Mutation of Spent: last_refill is not stored.)
SpentKeepsTime(b, age) ==
    LET left == Refilled(b, age) - Window
    IN  [bucket  |-> [b EXCEPT !.units = left],
         verdict |-> "allowed",
         reset   |-> WaitFrom(left)]

Spent(b, age) ==
    LET left == Refilled(b, age) - Window
    IN  [bucket  |-> [b EXCEPT !.units = left, !.age = age],
         verdict |-> "allowed",
         reset   |-> WaitFrom(left)]

\* Only last_refill is stored: the units refilled since the last one are not.
Refused(b, age) ==
    [bucket  |-> [b EXCEPT !.age = age],
     verdict |-> "denied",
     reset   |-> WaitFrom(Refilled(b, age))]

Script(b, age) ==
    IF ~b.live THEN Created(age)
    ELSE IF Refilled(b, age) >= Window THEN Spent(b, age)
    ELSE Refused(b, age)

\* Redis runs the script for a call of that age.
Run(age) ==
    LET r == Script(bucket, age)
    IN  /\ bucket' = r.bucket
        /\ birth' = IF bucket.live THEN birth ELSE age
        /\ spent' = IF r.verdict = "allowed" THEN spent + 1 ELSE spent
        /\ rewound' = IF r.verdict = "denied" /\ age > bucket.age
                        THEN rewound + (age - bucket.age) ELSE rewound

-----------------------------------------------------------------------------
Init ==
    /\ bucket = Missing
    /\ call = [c \in Callers |-> Idle]
    /\ reply = NoReply
    /\ birth = 0
    /\ spent = 0
    /\ rewound = 0

\* A request enters CheckAndRecord with the current time.
Begin(c) ==
    /\ ~call[c].busy
    /\ call' = [call EXCEPT ![c] = [busy |-> TRUE, age |-> 0, repeats |-> 0]]
    /\ reply' = NoReply
    /\ UNCHANGED <<bucket, birth, spent, rewound>>

\* A reset time is an offset from the instant of the reply.
Return(c, verdict, reset) ==
    /\ call' = [call EXCEPT ![c] = Idle]
    /\ reply' = [verdict |-> verdict, reset |-> reset - call[c].age]

Eval(c) ==
    /\ call[c].busy
    /\ Run(call[c].age)
    /\ LET r == Script(bucket, call[c].age) IN Return(c, r.verdict, r.reset)

\* One tick of the clock.  A bucket whose TTL runs out is gone.
Tick ==
    /\ \A c \in Callers : call[c].busy => call[c].age < MaxDelay
    /\ call' = [c \in Callers |->
                  IF call[c].busy THEN [call[c] EXCEPT !.age = @ + 1] ELSE Idle]
    /\ IF bucket.live /\ bucket.ttl > 1
         THEN /\ bucket' = [bucket EXCEPT !.age = @ + 1, !.ttl = @ - 1]
              /\ birth' = birth + 1
              /\ UNCHANGED <<spent, rewound>>
         ELSE /\ bucket' = Missing
              /\ birth' = 0 /\ spent' = 0 /\ rewound' = 0
    /\ reply' = NoReply

-----------------------------------------------------------------------------
(* What may go wrong with the call.                                         *)

\* The client returns an error, whether or not the script ran, or a result
\* that is not three values: the request is let through.
EvalFails(c) ==
    /\ call[c].busy
    /\ \/ "error" \in Faults /\ UNCHANGED <<bucket, birth, spent, rewound>>
       \/ "lost" \in Faults /\ Run(call[c].age)
    /\ Return(c, "failopen", Window)

\* The script ran and its reply was lost; the client is about to repeat it.
EvalRepeats(c) ==
    /\ "retried" \in Faults
    /\ call[c].busy
    /\ call[c].repeats < Retries
    /\ Run(call[c].age)
    /\ call' = [call EXCEPT ![c].repeats = @ + 1]
    /\ reply' = NoReply

-----------------------------------------------------------------------------
Next ==
    \/ \E c \in Callers : Begin(c) \/ Eval(c) \/ EvalFails(c) \/ EvalRepeats(c)
    \/ Tick

Spec == Init /\ [][Next]_vars

\* Time passes, clients keep asking, and a call gets its answer.
FairSpec ==
    /\ Spec
    /\ WF_vars(Tick)
    /\ \A c \in Callers : WF_vars(Begin(c)) /\ WF_vars(Eval(c))

-----------------------------------------------------------------------------
(* Properties.                                                              *)

Buckets == [live : BOOLEAN, units : 0 .. Full - Window, age : Nat,
            ttl : {NoTTL} \cup 1 .. KeyTTL]
Calls == [busy : BOOLEAN, age : 0 .. MaxDelay, repeats : 0 .. Retries]
Replies == [verdict : {"none", "allowed", "denied", "failopen"}, reset : Int]

\* Values are of their types: what the script stores is never below zero nor
\* above what is left of a full bucket after a request.
TypeOK ==
    /\ bucket \in Buckets
    /\ bucket.live => bucket.ttl # NoTTL
    /\ call \in [Callers -> Calls]
    /\ reply \in Replies
    /\ birth \in Nat
    /\ spent \in Nat
    /\ rewound \in Nat

\* A bucket never gives more than it got: its capacity, and Rate units for
\* each tick from the `now` it was created with to last_refill.  Ticks that
\* refusals with an older `now` moved last_refill back by are got twice.
Conservation ==
    bucket.live =>
        bucket.units + Window * spent <= Full + Rate * (birth - bucket.age + rewound)

\* The units there are `ticks` from now if nobody asks before.
AvailableAfter(ticks) == AtMost(Full, bucket.units + Rate * (bucket.age + ticks))

\* At the reset time of an allowed request a token is there, if nobody takes
\* one before and the bucket still exists.
ResetHasToken ==
    reply.verdict = "allowed" => AvailableAfter(reply.reset) >= Window

\* While clients keep asking, tokens keep being given (or requests let
\* through by an error): even to clients that ask so often that every refusal
\* throws away the refill so far.
KeepsServing == []<><<spent' = spent + 1 \/ reply'.verdict = "failopen">>_vars

\* A refusal takes nothing from the bucket: unused tokens accumulate, as the
\* comment of checkTokenBucket says.
RefusalIsFree ==
    [][reply'.verdict = "denied" => AvailableAfter(0)' >= AvailableAfter(0)]_vars
=============================================================================
