--------------------------- MODULE SlidingWindow ---------------------------
(***************************************************************************)
(* The sliding window algorithm of the Redis rate limiter,                 *)
(* checkSlidingWindow in src/middleware/ratelimit/store.go, for one        *)
(* limiter key.                                                            *)
(*                                                                         *)
(* A call is up to four Redis commands: drop the entries that left the     *)
(* window, count the rest, add an entry for this request, and give the key *)
(* a new TTL; a refused call reads the oldest entry instead.  Other        *)
(* callers and the clock come between any two of them.                     *)
(*                                                                         *)
(* A tick is a millisecond, the resolution of the scores.  What the clock  *)
(* reads within a millisecond is one of 1 .. Nanos: it is part of the      *)
(* member of an entry, not of its score.  Time is relative: an entry and a *)
(* call have the age of their `now`.                                       *)
(***************************************************************************)
EXTENDS Clock, FiniteSets, FiniteSetsExt

CONSTANTS
    Callers,    \* requests that may be in CheckAndRecord at the same time
    Rate,       \* RedisStoreConfig.Rate
    Window,     \* RedisStoreConfig.Window, in ticks
    Nanos,      \* bound: instants told apart within a tick
    MaxDelay,   \* bound: ticks from `now` to the last command of a call
    Envs        \* the environments explored: a subset of Environments

\* "calm": calls do not overlap, no two have the same `now`, none takes a
\* tick, nothing fails; "busy": calls overlap, share instants and take time;
\* "faulty": commands fail and callers die too.
Environments == {"calm", "busy", "faulty"}

ASSUME RateAssumption == Rate \in Nat \ {0}
ASSUME TimeAssumption == Window \in Nat \ {0}
ASSUME BoundAssumption ==
    /\ Nanos \in Nat \ {0}
    /\ MaxDelay \in Nat
ASSUME CallersAssumption == IsFiniteSet(Callers) /\ Callers # {}
ASSUME EnvAssumption == Envs \subseteq Environments

VARIABLES
    env,        \* the environment, chosen once
    zset,       \* the sorted set: the entries of the key younger than MaxAge
    stale,      \* how many more it has, of that age or older
    ttl,        \* the TTL of the key
    call,       \* where each caller is, and its `now`
    reply,      \* what the last step returned to a caller
    recent      \* history: requests admitted, by the age of their `now`

vars == <<env, zset, stale, ttl, call, reply, recent>>

NoTTL == -1

\* An entry this old is out of the window of every call, now and later.
MaxAge == Window + MaxDelay

Count == Cardinality(zset) + stale

\* An idle caller remembers the last instant it used in this tick.
Idle(nano) == [pc |-> "idle", age |-> 0, nano |-> nano]

\* EXPIRE counts in seconds: the client cuts a duration down to whole
\* seconds, and lifts one below a second to a second.
KeyTTL == IF Window < Second THEN Second ELSE Window - (Window % Second)

-----------------------------------------------------------------------------
(* Replies.  A reset time is an offset from the instant of the reply.       *)

NoReply == [verdict |-> "none", reset |-> 0]
Allow(c) == [verdict |-> "allowed", reset |-> Window - call[c].age]
FailOpen(c) == [verdict |-> "failopen", reset |-> Window - call[c].age]

\* (Mutation of ResetOf: the newest entry taken for the oldest.)
ResetOfNewest(c) ==
    IF Count = 0 THEN Window - call[c].age
    ELSE IF zset = {} THEN Window - MaxAge
    ELSE Window - Min({e.age : e \in zset})

\* The oldest entry leaves the window first (a stale one left it at least
\* MaxDelay ago).
ResetOf(c) ==
    IF Count = 0 THEN Window - call[c].age
    ELSE IF stale > 0 THEN Window - MaxAge
    ELSE Window - Max({e.age : e \in zset})

Deny(c) == [verdict |-> "denied", reset |-> ResetOf(c)]

\* The call of c returns r.
Return(c, r) ==
    /\ reply' = r
    /\ call' = [call EXCEPT ![c] = Idle(IF @.age = 0 THEN @.nano ELSE 0)]
    /\ recent' = IF r.verdict = "allowed" /\ call[c].age < Window
                   THEN [recent EXCEPT ![call[c].age] = @ + 1]
                   ELSE recent

\* The call of c goes on to the command pc.
Proceed(c, pc) ==
    /\ call' = [call EXCEPT ![c].pc = pc]
    /\ reply' = NoReply
    /\ UNCHANGED recent

-----------------------------------------------------------------------------
Init ==
    /\ env \in Envs
    /\ zset = {}
    /\ stale = 0
    /\ ttl = NoTTL
    /\ call = [c \in Callers |-> Idle(0)]
    /\ reply = NoReply
    /\ recent = [a \in 0 .. Window - 1 |-> 0]

\* A request enters CheckAndRecord.  The clock of a caller does not repeat
\* an instant; two callers may read the same one.
Begin(c) ==
    /\ call[c].pc = "idle"
    /\ \E nano \in call[c].nano + 1 .. Nanos :
         /\ env = "calm" =>
              \A d \in Callers : call[d].pc = "idle" /\ call[d].nano < nano
         /\ call' = [call EXCEPT ![c] = [pc |-> "zrem", age |-> 0, nano |-> nano]]
    /\ reply' = NoReply
    /\ UNCHANGED <<env, zset, stale, ttl, recent>>

OutOfWindow(c, e) == e.age >= call[c].age + Window

\* ZREMRANGEBYSCORE key 0 windowStart.  Its result is not looked at.  A
\* sorted set without entries is no key, and has no TTL.
ZRem(c) ==
    /\ call[c].pc = "zrem"
    /\ zset' = {e \in zset : ~OutOfWindow(c, e)}
    /\ stale' = 0
    /\ ttl' = IF zset' = {} THEN NoTTL ELSE ttl
    /\ Proceed(c, "zcard")
    /\ UNCHANGED env

\* (Mutation of Full: one entry too many.)
FullLax(count) == count > Rate

Full(count) == count >= Rate

ZCard(c) ==
    /\ call[c].pc = "zcard"
    /\ Proceed(c, IF Full(Count) THEN "zrange" ELSE "zadd")
    /\ UNCHANGED <<env, zset, stale, ttl>>

\* A refused call reads the oldest entry for its reset time.
ZRange(c) ==
    /\ call[c].pc = "zrange"
    /\ Return(c, Deny(c))
    /\ UNCHANGED <<env, zset, stale, ttl>>

\* The entry is the member now.UnixNano() with the score now.UnixMilli().
Entry(c) == [age |-> call[c].age, nano |-> call[c].nano]

\* (Mutation of ZAdd: the call ends without an EXPIRE.)
ZAddLast(c) ==
    /\ call[c].pc = "zadd"
    /\ zset' = zset \cup {Entry(c)}
    /\ Return(c, Allow(c))
    /\ UNCHANGED <<env, stale, ttl>>

ZAdd(c) ==
    /\ call[c].pc = "zadd"
    /\ zset' = zset \cup {Entry(c)}
    /\ Proceed(c, "expire")
    /\ UNCHANGED <<env, stale, ttl>>

\* (Mutations of NewTTL: a TTL is never renewed, as with EXPIRE NX; a
\* second is added for safety.)
NewTTLOnce(t) == IF t = NoTTL THEN KeyTTL ELSE t
NewTTLPadded(t) == KeyTTL + Second

NewTTL(t) == KeyTTL

\* EXPIRE key, on a missing key nothing.  Its result is not looked at.
Expire(c) ==
    /\ call[c].pc = "expire"
    /\ ttl' = IF Count = 0 THEN NoTTL ELSE NewTTL(ttl)
    /\ Return(c, Allow(c))
    /\ UNCHANGED <<env, zset, stale>>

Aged(e) == [e EXCEPT !.age = @ + 1]
Young == {e \in zset : e.age + 1 < MaxAge}

\* One tick of the clock.  A key whose TTL runs out is gone.
Tick ==
    /\ \A c \in Callers : call[c].pc # "idle" =>
         env # "calm" /\ call[c].age < MaxDelay
    /\ call' = [c \in Callers |->
                  IF call[c].pc = "idle" THEN Idle(0) ELSE Aged(call[c])]
    /\ IF ttl = 1
         THEN zset' = {} /\ stale' = 0
         ELSE /\ zset' = {Aged(e) : e \in Young}
              /\ stale' = stale + Cardinality(zset \ Young)
    /\ ttl' = IF ttl \in {NoTTL, 1} THEN NoTTL ELSE ttl - 1
    /\ recent' = [a \in 0 .. Window - 1 |-> IF a = 0 THEN 0 ELSE recent[a - 1]]
    /\ reply' = NoReply
    /\ UNCHANGED env

-----------------------------------------------------------------------------
(* What may go wrong.  A command may not be applied, or be applied and its  *)
(* reply lost; the client returns an error for both.  A repeated command    *)
(* does here what it does once.                                             *)

\* The old entries are not removed, and the call goes on.
ZRemFails(c) ==
    /\ env = "faulty"
    /\ call[c].pc = "zrem"
    /\ Proceed(c, "zcard")
    /\ UNCHANGED <<env, zset, stale, ttl>>

ZCardFails(c) ==
    /\ env = "faulty"
    /\ call[c].pc = "zcard"
    /\ Return(c, FailOpen(c))
    /\ UNCHANGED <<env, zset, stale, ttl>>

\* The request is let through, and the key gets no TTL if its entry is added.
ZAddFails(c) ==
    /\ env = "faulty"
    /\ call[c].pc = "zadd"
    /\ zset' \in {zset, zset \cup {Entry(c)}}
    /\ Return(c, FailOpen(c))
    /\ UNCHANGED <<env, stale, ttl>>

\* ZRANGE fails: the reset time is that of an empty window.  EXPIRE fails:
\* nobody notices.
LastFails(c) ==
    /\ env = "faulty"
    /\ \/ /\ call[c].pc = "zrange"
          /\ Return(c, [verdict |-> "denied", reset |-> Window - call[c].age])
       \/ call[c].pc = "expire" /\ Return(c, Allow(c))
    /\ UNCHANGED <<env, zset, stale, ttl>>

\* The caller dies between two commands.
Crash(c) ==
    /\ env = "faulty"
    /\ call[c].pc # "idle"
    /\ call' = [call EXCEPT ![c] = Idle(IF @.age = 0 THEN @.nano ELSE 0)]
    /\ reply' = NoReply
    /\ UNCHANGED <<env, zset, stale, ttl, recent>>

-----------------------------------------------------------------------------
Step(c) == ZRem(c) \/ ZCard(c) \/ ZRange(c) \/ ZAdd(c) \/ Expire(c)

Fault(c) ==
    ZRemFails(c) \/ ZCardFails(c) \/ ZAddFails(c) \/ LastFails(c) \/ Crash(c)

Next ==
    \/ \E c \in Callers : Begin(c) \/ Step(c) \/ Fault(c)
    \/ Tick

Spec == Init /\ [][Next]_vars

-----------------------------------------------------------------------------
(* Properties.                                                              *)

Entries == [age : 0 .. MaxAge - 1, nano : 0 .. Nanos]
Calls == [pc : {"idle", "zrem", "zcard", "zrange", "zadd", "expire"},
          age : 0 .. MaxDelay, nano : 0 .. Nanos]

Replies == [verdict : {"none", "allowed", "denied", "failopen"}, reset : Int]

\* Values are of their types; the TTL of a key is never above KeyTTL.
TypeOK ==
    /\ env \in Environments
    /\ zset \subseteq Entries
    /\ stale \in Nat
    /\ ttl \in {NoTTL} \cup 1 .. KeyTTL
    /\ call \in [Callers -> Calls]
    /\ reply \in Replies
    /\ recent \in [0 .. Window - 1 -> Nat]

AtZAdd == {c \in Callers : call[c].pc = "zadd"}

\* The sorted set never holds more than Rate entries and one for each caller
\* but one, those about to be added included: what callers between their
\* count and their add can exceed the rate by, whatever fails.
EntriesBounded ==
    Count + Cardinality(AtZAdd) <= Rate + Cardinality(Callers) - 1

\* As long as nothing fails, a key without a TTL has a caller about to give
\* it one, so abandoned limiter keys do not pile up in Redis.
KeyExpires ==
    env # "faulty" /\ Count > 0 /\ ttl = NoTTL =>
        \E c \in Callers : call[c].pc = "expire"

Admitted == SumFunction(recent)

\* No more than Rate requests are admitted in any span of Window ticks:
\* what the documentation says of the algorithm.
WindowLimit == Admitted <= Rate

\* In a calm environment the limit is kept, if EXPIRE cuts nothing off the
\* window: else the key is gone while its entries still count.
CalmWindowLimit == env = "calm" => WindowLimit

\* In a calm environment a request is refused only when the window is full,
\* and its reset time is the first one at which it is not.
CalmRefusal ==
    env = "calm" /\ reply.verdict = "denied" =>
        /\ Admitted = Rate
        /\ reply.reset =
             Min({k \in 1 .. Window :
                    SumFunctionOnSet(recent, 0 .. Window - 1 - k) < Rate})
=============================================================================
