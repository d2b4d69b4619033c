----------------------------- MODULE CacheStore -----------------------------
(***************************************************************************)
(* The Redis store of the response cache, src/middleware/cache/store.go,   *)
(* for one key.  Get, Set and Delete are one command each.  Their callers  *)
(* are requests that look the response up, compute it when it is missing   *)
(* and store it, and whoever changes the data behind it and then deletes   *)
(* the response.                                                           *)
(***************************************************************************)
EXTENDS Integers

CONSTANTS
    Fills,          \* the requests for the response, on any server
    CacheTTL,       \* the ttl of Set, in ticks
    MaxVersion      \* bound: how often the data changes

ASSUME CacheTTLAssumption == CacheTTL \in Nat \ {0}
ASSUME MaxVersionAssumption == MaxVersion \in Nat

VARIABLES
    data,       \* the version of the data the response is made from
    deleting,   \* the data has changed and the Delete of the response is due
    cached,     \* the entry in Redis: the version it was made from, and its TTL
    fill,       \* for each request its next step, the version it has, and, as
                \* history, whether a Delete came after it had it
    raced       \* history: the entry outlived a Delete, which failed or was
                \* overtaken by a request

cacheVars == <<data, deleting, cached, fill, raced>>

NoResponse == [live |-> FALSE, version |-> 0, ttl |-> 0]

\* (Mutation of Cached: the response is stored without an expiry.)
CachedForever(version) == [live |-> TRUE, version |-> version, ttl |-> -1]

\* What Set stores: the response, all its parts, with the ttl.
Cached(version) == [live |-> TRUE, version |-> version, ttl |-> CacheTTL]

\* (Mutation of Purged: Delete removes another name.)
PurgedNothing == cached

\* What Delete leaves.
Purged == NoResponse

CacheInit ==
    /\ data = 0
    /\ deleting = FALSE
    /\ cached = NoResponse
    /\ fill = [r \in Fills |-> [pc |-> "look", version |-> 0, late |-> FALSE]]
    /\ raced = FALSE

FillTo(r, pc, version) ==
    fill' = [fill EXCEPT ![r] = [pc |-> pc, version |-> version, late |-> FALSE]]

\* Get: redis.Nil is a miss; an error, of the command or of the conversion, is
\* one to its caller as well.
CacheGet(r) ==
    /\ fill[r].pc = "look"
    /\ \/ ~cached.live /\ FillTo(r, "compute", 0)
       \/ cached.live /\ FillTo(r, "done", cached.version)
    /\ UNCHANGED <<data, deleting, cached, raced>>

CacheGetFails(r) ==
    /\ fill[r].pc = "look"
    /\ FillTo(r, "compute", 0)
    /\ UNCHANGED <<data, deleting, cached, raced>>

\* The handler, from the data there are at some instant.
Compute(r) ==
    /\ fill[r].pc = "compute"
    /\ FillTo(r, "store", data)
    /\ UNCHANGED <<data, deleting, cached, raced>>

CacheSet(r) ==
    /\ fill[r].pc = "store"
    /\ cached' = Cached(fill[r].version)
    /\ raced' = fill[r].late
    /\ FillTo(r, "done", fill[r].version)
    /\ UNCHANGED <<data, deleting>>

\* An error of Set, whose command did not run, or of the conversion.
CacheSetFails(r) ==
    /\ fill[r].pc = "store"
    /\ FillTo(r, "done", fill[r].version)
    /\ UNCHANGED <<data, deleting, cached, raced>>

\* A request for the response comes again.
Ask(r) ==
    /\ fill[r].pc = "done"
    /\ FillTo(r, "look", 0)
    /\ UNCHANGED <<data, deleting, cached, raced>>

Change ==
    /\ data < MaxVersion
    /\ ~deleting
    /\ data' = data + 1
    /\ deleting' = TRUE
    /\ UNCHANGED <<cached, fill, raced>>

\* The responses that requests have in hand are from before this Delete.
AllLate == fill' = [r \in Fills |-> [fill[r] EXCEPT !.late = fill[r].pc = "store"]]

CacheDelete ==
    /\ deleting
    /\ deleting' = FALSE
    /\ cached' = Purged
    /\ raced' = FALSE
    /\ AllLate
    /\ UNCHANGED data

CacheDeleteFails ==
    /\ deleting
    /\ deleting' = FALSE
    /\ raced' = TRUE
    /\ AllLate
    /\ UNCHANGED <<data, cached>>

CacheTick ==
    /\ cached.live
    /\ cached' = IF cached.ttl = 1 THEN NoResponse
                 ELSE [cached EXCEPT !.ttl = IF @ > 0 THEN @ - 1 ELSE @]
    /\ UNCHANGED <<data, deleting, fill, raced>>

CacheNext ==
    \/ \E r \in Fills :
         \/ CacheGet(r) \/ CacheGetFails(r) \/ Compute(r)
         \/ CacheSet(r) \/ CacheSetFails(r) \/ Ask(r)
    \/ Change \/ CacheDelete \/ CacheDeleteFails \/ CacheTick

CacheSpec == CacheInit /\ [][CacheNext]_cacheVars

\* The clock runs, handlers end, commands are answered, and a Delete that is due
\* is sent.  Nobody has to ask.
CacheFairness ==
    /\ WF_cacheVars(CacheTick)
    /\ WF_cacheVars(CacheDelete)
    /\ \A r \in Fills : WF_cacheVars(Compute(r)) /\ WF_cacheVars(CacheSet(r))

-----------------------------------------------------------------------------
(* Properties.                                                              *)

\* A response is stale only until the Delete that is due, unless that Delete
\* failed, or a request computed its response before the Delete and stored it
\* after it: no other order of the commands leaves an old response behind.
FreshUnlessRaced ==
    cached.live /\ cached.version # data => deleting \/ raced

\* Whatever raced, and whatever failed, a stale response does not stay once the
\* data stop changing: its TTL ends it.
EventuallyFresh == <>[](cached.live => cached.version = data)
=============================================================================
