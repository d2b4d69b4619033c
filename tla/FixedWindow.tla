---------------------------- MODULE FixedWindow ----------------------------
(***************************************************************************)
(* The fixed window algorithm of the Redis rate limiter, checkFixedWindow  *)
(* in src/middleware/ratelimit/store.go, for one limiter key.              *)
(*                                                                         *)
(* A call is INCR and, for the caller that created the counter, EXPIRE NX: *)
(* two Redis commands with other callers and the clock in between.  Time   *)
(* is relative: the counter has a countdown, a call has the age of the     *)
(* `now` it was given.  Nothing else in the state refers to a date, so the *)
(* clock may run for ever.                                                 *)
(***************************************************************************)
EXTENDS Clock, FiniteSets, Functions

CONSTANTS
    Callers,    \* requests that may be in CheckAndRecord at the same time
    Rate,       \* RedisStoreConfig.Rate
    Window,     \* RedisStoreConfig.Window, in clock ticks
    MaxDelay,   \* bound: ticks from `now` to the last command of a call
    MaxCount,   \* bound: no call begins with the counter at MaxCount
    Faults      \* what may go wrong: a subset of FaultKinds

\* "error": a command is not applied and the client returns an error;
\* "lost": it is applied, its reply is not received and the client returns
\* an error; "retried": the client repeats a command whose reply it missed,
\* and returns the reply to the repetition; "crash": the caller dies.
FaultKinds == {"error", "lost", "retried", "crash"}

ASSUME RateAssumption == Rate \in Nat \ {0}
ASSUME TimeAssumption ==
    /\ Window \in Nat \ {0}
    /\ MaxDelay \in Nat
ASSUME BoundAssumption == MaxCount \in Nat
ASSUME FaultAssumption == Faults \subseteq FaultKinds

VARIABLES
    counter,    \* the Redis counter: its value, 0 when missing, and its TTL
    call,       \* where each caller is and how old its `now` is
    reply,      \* what the last step returned to a caller
    admitted,   \* history: requests that got a place within Rate from this counter
    recent      \* history: requests that got one, by age in ticks

vars == <<counter, call, reply, admitted, recent>>

NoTTL == -1
Missing == [n |-> 0, ttl |-> NoTTL]
Idle == [pc |-> "idle", age |-> 0]

\* (Mutations of KeyTTL: the window's length is ignored; ticks taken for seconds.)
KeyTTLOfASecond == Second
KeyTTLUnscaled == IF Window < Second THEN 1 ELSE Window \div Second

\* EXPIRE counts in seconds: the client cuts a duration down to whole
\* seconds, and lifts one below a second to a second.
KeyTTL == IF Window < Second THEN Second ELSE Window - (Window % Second)

-----------------------------------------------------------------------------
(* Replies.  A reset time is an offset from the instant of the reply.       *)

NoReply == [verdict |-> "none", remaining |-> 0, reset |-> 0]

\* (Mutation of Remaining: this request is not counted.)
RemainingBefore(count) == Rate - count + 1

Remaining(count) == Rate - count

Allow(c, count) ==
    [verdict |-> "allowed", remaining |-> Remaining(count),
     reset |-> Window - call[c].age]

Deny(c) ==
    [verdict |-> "denied", remaining |-> 0, reset |-> Window - call[c].age]

FailOpen(c) ==
    [verdict |-> "failopen", remaining |-> Rate - 1,
     reset |-> Window - call[c].age]

\* (Mutations of Verdict: one request too many, one too few.)
VerdictLax(c, count) == IF count > Rate + 1 THEN Deny(c) ELSE Allow(c, count)
VerdictStrict(c, count) == IF count >= Rate THEN Deny(c) ELSE Allow(c, count)

Verdict(c, count) == IF count > Rate THEN Deny(c) ELSE Allow(c, count)

\* The call of c returns r.
Return(c, r) ==
    /\ reply' = r
    /\ call' = [call EXCEPT ![c] = Idle]

-----------------------------------------------------------------------------
Init ==
    /\ counter = Missing
    /\ call = [c \in Callers |-> Idle]
    /\ reply = NoReply
    /\ admitted = 0
    /\ recent = [a \in 0 .. Window - 1 |-> 0]

\* A request enters CheckAndRecord with the current time.
Begin(c) ==
    /\ call[c].pc = "idle"
    /\ counter.n < MaxCount
    /\ call' = [call EXCEPT ![c] = [pc |-> "incr", age |-> 0]]
    /\ reply' = NoReply
    /\ UNCHANGED <<counter, admitted, recent>>

\* (Mutation of FirstInWindow: INCR taken to return the value before.)
FirstFromZero(count) == count = 0

FirstInWindow(count) == count = 1

\* A request has its place from INCR on, whenever it is told.
Place(r) ==
    IF r.verdict = "allowed"
      THEN admitted' = admitted + 1 /\ recent' = [recent EXCEPT ![0] = @ + 1]
      ELSE UNCHANGED <<admitted, recent>>

\* INCR answered with count: only the first in the window goes on to EXPIRE.
AfterIncr(c, count) ==
    /\ Place(Verdict(c, count))
    /\ IF FirstInWindow(count)
         THEN call' = [call EXCEPT ![c].pc = "expire"] /\ reply' = NoReply
         ELSE Return(c, Verdict(c, count))

Incr(c) ==
    /\ call[c].pc = "incr"
    /\ counter' = [counter EXCEPT !.n = @ + 1]
    /\ AfterIncr(c, counter.n + 1)

\* EXPIRE key KeyTTL NX.  Its result is not looked at.
SetExpiry(k) == IF k.n > 0 /\ k.ttl = NoTTL THEN [k EXCEPT !.ttl = KeyTTL] ELSE k

ExpireNX(c) ==
    /\ call[c].pc = "expire"
    /\ counter' = SetExpiry(counter)
    /\ Return(c, Verdict(c, 1))
    /\ UNCHANGED <<admitted, recent>>

\* One tick of the clock.  A counter whose TTL runs out is gone, and with it
\* the window.
Tick ==
    /\ \A c \in Callers : call[c].pc # "idle" => call[c].age < MaxDelay
    /\ call' = [c \in Callers |->
                  IF call[c].pc = "idle" THEN Idle
                  ELSE [call[c] EXCEPT !.age = @ + 1]]
    /\ counter' = IF counter.ttl = NoTTL THEN counter
                  ELSE IF counter.ttl = 1 THEN Missing
                  ELSE [counter EXCEPT !.ttl = @ - 1]
    /\ admitted' = IF counter.ttl = 1 THEN 0 ELSE admitted
    /\ recent' = [a \in 0 .. Window - 1 |-> IF a = 0 THEN 0 ELSE recent[a - 1]]
    /\ reply' = NoReply

-----------------------------------------------------------------------------
(* What may go wrong with a command, and with a caller.                     *)

\* INCR is applied twice.
IncrRetried(c) ==
    /\ "retried" \in Faults
    /\ call[c].pc = "incr"
    /\ counter' = [counter EXCEPT !.n = @ + 2]
    /\ AfterIncr(c, counter.n + 2)

\* EXPIRE NX is applied and its reply is lost: the client sends it again, for as
\* long as it does not get one, and the counter may be another one by then.
ExpireNXRepeats(c) ==
    /\ "retried" \in Faults
    /\ call[c].pc = "expire"
    /\ counter' = SetExpiry(counter)
    /\ reply' = NoReply
    /\ UNCHANGED <<call, admitted, recent>>

\* INCR returns an error, applied or not: the request is let through.
IncrFails(c) ==
    /\ call[c].pc = "incr"
    /\ \/ "error" \in Faults /\ UNCHANGED counter
       \/ "lost" \in Faults /\ counter' = [counter EXCEPT !.n = @ + 1]
    /\ Return(c, FailOpen(c))
    /\ UNCHANGED <<admitted, recent>>

\* EXPIRE is not applied: nobody notices, and the request goes on.
ExpireNXFails(c) ==
    /\ "error" \in Faults
    /\ call[c].pc = "expire"
    /\ Return(c, Verdict(c, 1))
    /\ UNCHANGED <<counter, admitted, recent>>

\* The caller dies between two commands.
Crash(c) ==
    /\ "crash" \in Faults
    /\ call[c].pc # "idle"
    /\ call' = [call EXCEPT ![c] = Idle]
    /\ reply' = NoReply
    /\ UNCHANGED <<counter, admitted, recent>>

-----------------------------------------------------------------------------
Step(c) == Incr(c) \/ ExpireNX(c)

Fault(c) ==
    \/ IncrRetried(c) \/ IncrFails(c)
    \/ ExpireNXRepeats(c) \/ ExpireNXFails(c)
    \/ Crash(c)

Next ==
    \/ \E c \in Callers : Begin(c) \/ Step(c) \/ Fault(c)
    \/ Tick

Spec == Init /\ [][Next]_vars

\* Time passes, and a call that began gets its answers.
WindowFairness == WF_vars(Tick) /\ \A c \in Callers : WF_vars(Step(c))

-----------------------------------------------------------------------------
(* Properties.                                                              *)

Counters == [n : Nat, ttl : {NoTTL} \cup 1 .. KeyTTL]
Calls == [pc : {"idle", "incr", "expire"}, age : 0 .. MaxDelay]
Replies == [verdict : {"none", "allowed", "denied", "failopen"},
            remaining : 0 .. Rate - 1, reset : Int]

\* Values are of their types.  The remaining quota an answer announces is
\* never that of an untouched window and never below zero.
TypeOK ==
    /\ counter \in Counters
    /\ call \in [Callers -> Calls]
    /\ reply \in Replies
    /\ admitted \in Nat
    /\ recent \in [0 .. Window - 1 -> Nat]

\* A counter admits at most Rate requests in its life, however its callers
\* interleave and whatever fails, with an EXPIRE of one counter that comes to the
\* next one too (requests let through by an error are not counted: nothing was
\* counted for them).
AtMostRatePerWindow == admitted <= Rate

\* A span of Window ticks sees at most twice Rate requests admitted: what a fixed
\* window is known to guarantee, as long as a counter lives as long as the window.
\* EXPIRE cuts its life down to whole seconds: of a window of whole seconds it
\* takes nothing, of one with a fraction it takes the fraction.
AtMostTwoWindows == SumFunction(recent) <= 2 * Rate

\* Whatever the window's length, and whatever fails, a span of it meets no more
\* than three counters: EXPIRE takes less than half of a window.
AtMostThreeWindows == SumFunction(recent) <= 3 * Rate

\* A counter without a TTL has a caller about to give it one, so no limiter
\* key refuses for ever.  Holds as long as no command fails and no caller
\* dies: INCR and EXPIRE are two commands.
CounterExpires ==
    counter.n > 0 /\ counter.ttl = NoTTL => \E c \in Callers : call[c].pc = "expire"

\* Every window ends: a counter is always gone some day, however many
\* requests keep hitting it.
WindowEnds == counter.n > 0 ~> counter.n = 0

\* Requests of this window that were told yes: all that have a place but the one
\* that is at EXPIRE.
Told == IF \E c \in Callers : call[c].pc = "expire" THEN admitted - 1 ELSE admitted

\* The fixed window is a quota of Rate slots per window.  The first Rate
\* increments of a counter are its slots.
Abstract ==
    INSTANCE Quota WITH
        taken   <- IF counter.n < Rate THEN counter.n ELSE Rate,
        granted <- Told,
        verdict <- CASE reply.verdict = "allowed" -> "granted"
                     [] reply.verdict = "denied"  -> "refused"
                     [] OTHER                     -> "none"

ImplementsQuota == Abstract!Spec
=============================================================================
