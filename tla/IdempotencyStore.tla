------------------------- MODULE IdempotencyStore -------------------------
(***************************************************************************)
(* The Redis store of the idempotency middleware,                          *)
(* src/middleware/idempotency/store.go, for one idempotency key: its       *)
(* record, its lock, and the requests of any number of servers that carry  *)
(* the key.                                                                *)
(*                                                                         *)
(* Get, Set, Lock and Unlock are one Redis command each and so atomic.     *)
(* Their caller is not part of the repository.  It is modelled as the most *)
(* careful one the interface allows: it looks for the record, takes the    *)
(* lock, looks again, runs the handler, stores the record and unlocks; it  *)
(* gives up what an error leaves open and begins again.  What this caller  *)
(* does not get from the store, no caller gets.                            *)
(***************************************************************************)
EXTENDS Integers

CONSTANTS
    Requests,       \* requests with the key, on any server
    LockTTL,        \* RedisStoreConfig.LockTTL, in ticks
    RecordTTL,      \* the ttl Set is called with, in ticks; 0 for no expiry
    MaxMishaps,     \* bound: how often something goes wrong
    Faults          \* what may go wrong: a subset of FaultKinds

\* "error": a command does not run and the client returns an error; "lost": it
\* runs, and its reply is lost; "retried": the client runs it again, its first
\* reply lost; "crash": a server dies in the middle of a request.
FaultKinds == {"error", "lost", "retried", "crash"}

ASSUME TTLAssumption == LockTTL \in Nat \ {0} /\ RecordTTL \in Nat
ASSUME BoundAssumption == MaxMishaps \in Nat
ASSUME FaultAssumption == Faults \subseteq FaultKinds

\* No response.
Nobody == "nobody"

ASSUME NobodyAssumption == Nobody \notin Requests

VARIABLES
    record,     \* the record's entry in Redis: whose response it is, and its TTL
    lock,       \* the lock's entry in Redis and its TTL
    req,        \* for each request: the next step of its caller, the response
                \* it has, and the ticks left of the lease Lock gave it
    mishaps,    \* how often something has gone wrong
    runs,       \* history: handlers started since the record last expired, or
                \* a handler's response was last lost
    disturbed   \* history: since a request last had the lock to itself, a
                \* lease lapsed under its holder or an Unlock was repeated

vars == <<record, lock, req, mishaps, runs, disturbed>>

NoTTL == -1
NoRecord == [live |-> FALSE, of |-> Nobody, ttl |-> 0]
NoLock == [held |-> FALSE, ttl |-> 0]

\* The requests between a successful Lock and the end of Unlock.
CriticalSteps == {"recheck", "handle", "store", "unlock"}
Critical == {r \in Requests : req[r].pc \in CriticalSteps}

-----------------------------------------------------------------------------
(* The commands.                                                            *)

\* (Mutation of Found: the record is looked for under another name.)
FoundNever == FALSE

\* GET: redis.Nil is a miss, not an error.
Found == record.live

\* (Mutation of Recorded: the record is stored under another name.)
RecordedElsewhere(r) == record

\* A ttl of zero is none, and the entry stays.
Expiry(ttl) == IF ttl = 0 THEN NoTTL ELSE ttl

\* SET with the caller's ttl.
Recorded(r) == [live |-> TRUE, of |-> r, ttl |-> Expiry(RecordTTL)]

\* (Mutation of Free: SET without NX.)
FreeAlways == TRUE

\* NX: redis.Nil when there is a lock, whoever holds it.
Free == ~lock.held

\* (Mutations of Taken: the lock never expires; an off-by-one in its lease.)
TakenForever == [held |-> TRUE, ttl |-> NoTTL]
TakenLonger == [held |-> TRUE, ttl |-> LockTTL + 1]

\* SET ... NX with lockTTL.
Taken == [held |-> TRUE, ttl |-> LockTTL]

Locked == IF Free THEN Taken ELSE lock

\* DEL, whoever holds the lock.
Unlocked == NoLock

-----------------------------------------------------------------------------
Init ==
    /\ record = NoRecord
    /\ lock = NoLock
    /\ req = [r \in Requests |-> [pc |-> "start", answer |-> Nobody, lease |-> 0]]
    /\ mishaps = 0
    /\ runs = 0
    /\ disturbed = FALSE

\* Request r goes on at step pc, with the response of `answer` and a lease.
\* Once nobody is in the middle of anything, an earlier disturbance is over.
GoTo(r, pc, answer, lease, disturbs) ==
    /\ req' = [req EXCEPT ![r] = [pc |-> pc, answer |-> answer, lease |-> lease]]
    /\ disturbed' = (Critical' # {} /\ (disturbed \/ disturbs))

\* Get, before the lock is taken or under it: the response there is, or the
\* lock, or the handler.
Get(r) ==
    /\ req[r].pc \in {"start", "recheck"}
    /\ LET first == req[r].pc = "start"
       IN  IF Found
             THEN /\ GoTo(r, IF first THEN "done" ELSE "unlock", record.of, req[r].lease, FALSE)
                  /\ UNCHANGED runs
             ELSE /\ GoTo(r, IF first THEN "lock" ELSE "handle", Nobody, req[r].lease, FALSE)
                  /\ runs' = IF first THEN runs ELSE runs + 1
    /\ UNCHANGED <<record, lock, mishaps>>

\* Lock: TRUE if the entry was not there; otherwise the request begins again.
Lock(r) ==
    /\ req[r].pc = "lock"
    /\ lock' = Locked
    /\ IF Free THEN GoTo(r, "recheck", Nobody, LockTTL, FALSE)
               ELSE GoTo(r, "start", Nobody, 0, FALSE)
    /\ UNCHANGED <<record, mishaps, runs>>

\* The handler, which takes any time, has a response.
Handle(r) ==
    /\ req[r].pc = "handle"
    /\ GoTo(r, "store", r, req[r].lease, FALSE)
    /\ UNCHANGED <<record, lock, mishaps, runs>>

Set(r) ==
    /\ req[r].pc = "store"
    /\ record' = Recorded(r)
    /\ GoTo(r, "unlock", r, req[r].lease, FALSE)
    /\ UNCHANGED <<lock, mishaps, runs>>

\* Unlock ends a request that has a response.
AfterUnlock(r) == IF req[r].answer = Nobody THEN "start" ELSE "done"

Unlock(r) ==
    /\ req[r].pc = "unlock"
    /\ lock' = Unlocked
    /\ GoTo(r, AfterUnlock(r), req[r].answer, 0, FALSE)
    /\ UNCHANGED <<record, mishaps, runs>>

Left(ttl) == IF ttl = NoTTL THEN NoTTL ELSE ttl - 1
Less(lease) == IF lease = 0 THEN 0 ELSE lease - 1

\* One tick of the clock: entries whose TTL runs out are gone.
Tick ==
    /\ record' = IF record.live /\ record.ttl # 1
                   THEN [record EXCEPT !.ttl = Left(@)] ELSE NoRecord
    /\ lock' = IF lock.held /\ lock.ttl # 1
                 THEN [lock EXCEPT !.ttl = Left(@)] ELSE NoLock
    /\ req' = [r \in Requests |-> [req[r] EXCEPT !.lease = Less(@)]]
    /\ runs' = IF record.live /\ record.ttl = 1 THEN 0 ELSE runs
    /\ disturbed' = (disturbed \/ \E r \in Critical : req[r].lease = 1)
    /\ UNCHANGED mishaps

-----------------------------------------------------------------------------
(* What may go wrong.                                                       *)

Mishap(kind) ==
    /\ kind \in Faults
    /\ mishaps < MaxMishaps
    /\ mishaps' = mishaps + 1

\* An error of Get: the request begins again, unlocking first if it must.
GetFails(r) ==
    /\ Mishap("error")
    /\ req[r].pc \in {"start", "recheck"}
    /\ GoTo(r, IF req[r].pc = "start" THEN "start" ELSE "unlock", Nobody, req[r].lease, FALSE)
    /\ UNCHANGED <<record, lock, runs>>

\* An error of Lock: the request begins again, whether or not SET NX ran.
LockFails(r) ==
    /\ req[r].pc = "lock"
    /\ \/ Mishap("error") /\ UNCHANGED lock
       \/ Mishap("lost") /\ lock' = Locked
    /\ GoTo(r, "start", Nobody, 0, FALSE)
    /\ UNCHANGED <<record, runs>>

\* SET NX ran, its reply was lost, and the client is about to repeat it.
LockRepeats(r) ==
    /\ Mishap("retried")
    /\ req[r].pc = "lock"
    /\ lock' = Locked
    /\ UNCHANGED <<record, req, runs, disturbed>>

\* An error of Set: the response goes out all the same.
SetFails(r) ==
    /\ req[r].pc = "store"
    /\ \/ Mishap("error") /\ runs' = 0 /\ UNCHANGED record
       \/ Mishap("lost") /\ record' = Recorded(r) /\ UNCHANGED runs
    /\ GoTo(r, "unlock", r, req[r].lease, FALSE)
    /\ UNCHANGED lock

SetRepeats(r) ==
    /\ Mishap("retried")
    /\ req[r].pc = "store"
    /\ record' = Recorded(r)
    /\ UNCHANGED <<lock, req, runs, disturbed>>

\* An error of Unlock is not acted on.
UnlockFails(r) ==
    /\ req[r].pc = "unlock"
    /\ \/ Mishap("error") /\ UNCHANGED lock
       \/ Mishap("lost") /\ lock' = Unlocked
    /\ GoTo(r, AfterUnlock(r), req[r].answer, 0, FALSE)
    /\ UNCHANGED <<record, runs>>

\* DEL ran, its reply was lost, and the client is about to repeat it.
UnlockRepeats(r) ==
    /\ Mishap("retried")
    /\ req[r].pc = "unlock"
    /\ lock' = Unlocked
    /\ GoTo(r, "unlock", req[r].answer, req[r].lease, TRUE)
    /\ UNCHANGED <<record, runs>>

\* A server dies: its request is never heard of again.
Crash(r) ==
    /\ Mishap("crash")
    /\ req[r].pc \notin {"done", "gone"}
    /\ GoTo(r, "gone", Nobody, 0, FALSE)
    /\ runs' = IF req[r].pc \in {"handle", "store"} THEN 0 ELSE runs
    /\ UNCHANGED <<record, lock>>

-----------------------------------------------------------------------------
Next ==
    \/ \E r \in Requests :
         \/ Get(r) \/ Lock(r) \/ Handle(r) \/ Set(r) \/ Unlock(r)
         \/ GetFails(r) \/ LockFails(r) \/ LockRepeats(r) \/ SetFails(r)
         \/ SetRepeats(r) \/ UnlockFails(r) \/ UnlockRepeats(r) \/ Crash(r)
    \/ Tick

Spec == Init /\ [][Next]_vars

\* Time passes, handlers end, and a request that is not cut off goes on.
FairSpec ==
    /\ Spec
    /\ WF_vars(Tick)
    /\ \A r \in Requests :
         WF_vars(Get(r) \/ Lock(r) \/ Handle(r) \/ Set(r) \/ Unlock(r))

-----------------------------------------------------------------------------
(* Properties.                                                              *)

Steps == {"start", "lock", "done", "gone"} \cup CriticalSteps
Responses == Requests \cup {Nobody}
Records == [live : BOOLEAN, of : Responses, ttl : {NoTTL} \cup 0 .. RecordTTL]
Locks == [held : BOOLEAN, ttl : 0 .. LockTTL]
Reqs == [pc : Steps, answer : Responses, lease : 0 .. LockTTL]

\* Values are of their types, and a lock is never without an expiry.
TypeOK ==
    /\ record \in Records /\ (record.live <=> record.ttl # 0)
    /\ lock \in Locks /\ (lock.held <=> lock.ttl > 0)
    /\ req \in [Requests -> Reqs]
    /\ mishaps \in 0 .. MaxMishaps
    /\ runs \in Nat
    /\ disturbed \in BOOLEAN

\* Lock is exclusive, through lost, failed and repeated commands and crashes,
\* as long as no holder outlives its lease and no Unlock is repeated.
Exclusive == \A r, s \in Critical : r # s => disturbed

\* A handler is started again only when the record has expired or a response
\* was lost before it was stored: never beside another one, and never because
\* a request looked for the record too early.
AtMostOnce ==
    [][\A r \in Requests :
         req[r].pc = "recheck" /\ req'[r].pc = "handle" => runs = 0 \/ disturbed]_vars

\* A stored response is the one every repetition gets until it expires: no
\* other request stores its own over it.
StoredOnce ==
    [][record.live /\ record'.live => record'.of = record.of \/ disturbed]_vars

\* Every request gets a response: a lock whose holder died, or whose Unlock or
\* reply was lost, does not block the key for good.
Answered == \A r \in Requests : <>(req[r].pc \in {"done", "gone"})

\* Two requests whose leases both run do not both hold the lock: the exclusive
\* lock of Lock's comment, as far as a lease of lockTTL can be exclusive.
LeaseHolderAlone ==
    \A r, s \in Critical : r # s => req[r].lease = 0 \/ req[s].lease = 0
=============================================================================
