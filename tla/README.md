# A verification of zerohttp-contrib

TLA+ models of the parts of this repository that keep state others share, the
TLC runs that check them, and theorems about them that TLAPS proves. Line
numbers are those of `src/` at the modelled commit. `PROJECT.json` maps each
definition to the lines it models.

## The system

The repository holds adapters for the zerohttp web framework. Most of them hand
calls to a library. The ones with a logic of their own keep their state in
Redis, so that it is shared by every request of every server, and work on it
with a few commands per call.

| Component | State | Operations | Hard behaviour |
|---|---|---|---|
| Rate limiter, fixed window (`middleware/ratelimit/store.go` 181-205) | a counter with a TTL per limiter key | `CheckAndRecord`: INCR, then EXPIRE NX by the first caller | two commands; an error or a crash in between; TTLs cut down to seconds; repeated INCR |
| Rate limiter, sliding window (209-249) | a sorted set of request times with a TTL | ZREMRANGEBYSCORE, ZCARD, then ZADD and EXPIRE, or ZRANGE | the count is stale when the entry is added; shared nanoseconds; errors that are dropped |
| Rate limiter, token bucket (33-64, 156-177) | a hash (tokens, last_refill) with a TTL | one Lua script | callers' clocks differ, scripts run out of order; the bucket expires while used; repeated scripts |
| Rate limiter, configuration (112-152) | none | defaults, dispatch, names, Close | name spaces of the algorithms and of other packages |
| Idempotency store (`middleware/idempotency/store.go`) | a record and a lock per key, each with a TTL | Get, Set, Lock (SET NX), Unlock (DEL) | lapsed leases, an Unlock that deletes another's lock, repeated commands, crashes, failed Set; lock and record names that meet |
| Redis storage (`storage/redis.go`) | values and locks with TTLs | Get, Set, Delete, Lock, Unlock, TTL, Close | lost replies, lapsed leases, lock and value names that meet; `lockTTL` is never used |
| JWT token store, revocation (`middleware/jwtauth`) | revoked tokens and sessions with TTLs, in any storage | Revoke, IsRevoked | two Sets per Revoke; check, then revoke; TTLs of expired tokens; keys of tokens that meet |
| JWT token store, tokens and claims (same) | the key set, shared with its owner | Generate, Validate | claims that go round through refreshes; times in seconds; keys that change; a configuration half of which is read |
| Cache store (`middleware/cache/store.go`) | responses with TTLs | Get, Set, Delete | a response stored after the Delete that should have removed it |
| HTTP/3, WebTransport servers (`extensions/http3`, `webtransport`) | the wrapped `http3.Server` and its TLS configuration | New, four ways to start, Shutdown, Close | two starts at once; a retry with another manager; a stop during a start |
| Autocert manager (`extensions/autocert`) | host names, a policy | New, Hostnames, GetCertificate, HTTPHandler | slices shared with callers |
| Tracer (`middleware/tracer`) | the provider, spans | constructors, Start, SetStatus, SetAttributes, RecordError, End, shutdown | spans that end around shutdown; a context that is cancelled before it |
| Huma adapter (`adapters/huma`) | routes, the context of a request | Handle, SetStatus, headers, body, Unwrap, Param | a status that is written when it is set; contexts in contexts; a parameter that is unescaped twice |
| Zerolog adapter (`adapters/zerolog`) | loggers that descend from one another | WithFields, WithContext, six levels | buffers that loggers share; fields of one request in another's entry |
| WebSocket (`extensions/websocket`), compression (`middleware/compress`) | none | pass calls on | none of their own |

Interactions: the zerohttp middlewares (not in this repository) call the stores
through interfaces; the stores call a Redis client. The JWT token store works
through `StorageAdapter` on any `storage.Storage`, the Redis storage among them.
No component has goroutines or locks of its own: all concurrency is that of
requests, servers and Redis.

What makes each part correct:

- *rate limiter*: no more requests than promised, none refused without need, a
  reset time that is true, and no key that is stuck or left behind;
- *idempotency store*: a lock with one holder, one execution per key while its
  response is remembered, one response, and no key blocked for good;
- *storage*: values and locks of all keys apart, that last as asked for, and a
  lock that stays its caller's for the lease;
- *token store*: a revoked token or session stays revoked until it expires; the
  store accepts its own tokens in time, none after its end, and their identity
  survives refreshes;
- *cache*: no response older than the last Delete, and no stale one for ever;
- *names*: what one package keeps under a name is no other package's entry;
- *servers*: a listener presents the certificates the server was configured with
  first, and a manager reports the hosts it serves;
- *tracer*: what ended before shutdown is exported when the program ends;
- *Huma adapter*: the status and headers a middleware sees are those that were
  sent, and a parameter is what the client meant;
- *logger*: an entry has its own logger's fields and no others.

## Modules

| Module | Models |
|---|---|
| `Clock` | the number of ticks in a second, for the modules that meet a conversion to seconds |
| `Quota` | the abstract windowed limiter: Rate slots per window, granted, refused, renewed |
| `FixedWindow` | `checkFixedWindow` for one key, implements `Quota` |
| `SlidingWindow` | `checkSlidingWindow` for one key |
| `TokenBucket` | `checkTokenBucket` and its script for one key |
| `IdempotencyStore` | the store's four operations for one key, under a caller |
| `TokenRevocation` | Revoke and IsRevoked of the JWT token store, on the Redis storage |
| `TokenClaims` | NewTokenStore, Generate, Validate, with the conversions of claims |
| `KeyValue` | the abstract storage: values and locks of keys, what each operation answers |
| `RedisStorage` | the generic Redis storage, several keys under names in one Redis; implements `KeyValue` |
| `CacheStore` | the response cache for one key, under requests and a writer |
| `SharedRedis` | constructors, names and Close of all five packages on one Redis client |
| `TlsServers` | HTTP/3 server, WebTransport server, autocert manager |
| `Tracer` | the tracer, its spans and its shutdown |
| `HumaAdapter` | registration, the response side of the context, path parameters |
| `ZerologLogger` | loggers, their buffers and the entries they write |
| `MCPackages` | the modules from `TokenClaims` to `ZerologLogger` (`KeyValue` through `RedisStorage`), and `FixedWindow` as long as nothing fails, for one run |
| other `MC*` | the instances TLC checks |
| `FixedWindowProofs`, `SlidingWindowProofs`, `TokenBucketProofs`, `IdempotencyStoreProofs` | theorems and proofs about the module named |
| `TokenStoreProofs` | the same for `TokenRevocation` and `TokenClaims` |
| `StorageProofs` | the same for `RedisStorage`, `CacheStore` and the names of `SharedRedis` |
| `AdapterProofs` | the same for `Tracer`, `TlsServers`, `HumaAdapter` and `ZerologLogger` |
| `SumTheorems` | lemmas on the sums of functions, for the two windows |

**Common conventions.** One action per Redis command, because Redis runs a
command at once and everything can happen between two of them. A Lua script is
one command. A call that is in the middle of its commands has a `pc`. *Time is
relative*: keys have a TTL that counts down, calls and entries an age that
counts up, reset times are offsets from the instant of the reply. No date
appears in a state, so the clock runs for ever in a finite model. `Tick` is one
tick of the clock and expires what is due. *Faults* are chosen by a constant:
`error` (the command did not run), `lost` (it ran, its reply did not arrive),
`retried` (the client repeats it after a lost reply, which go-redis does on its
own), `crash` (the caller dies between two commands).

**FixedWindow.** `Begin` enters `CheckAndRecord`; `Incr` is INCR with the
branch of line 192; `ExpireNX` is line 193 with the verdict of 196-204;
`IncrFails` is the fail-open return of 186-189; `ExpireNXFails` the dropped
error of 193; `ExpireNXRepeats` the client's repetitions of an EXPIRE whose reply
it lost, the last of which may reach the next window's counter. `KeyTTL` is the
client's conversion of a duration to the whole seconds EXPIRE takes. `admitted` and
`recent` are history variables: a request counts from its INCR on (`Place`), when
its place is taken, and not from its reply. The model caps the counter with
`MaxCount`: a request begins only below it.

**SlidingWindow.** An entry is the pair of its member (a nanosecond) and score
(a millisecond), so two requests of the same nanosecond share one. Entries so
old that no call can still see them inside its window are only counted
(`stale`). The environment is chosen in the initial state: `calm` (calls do not
overlap), `busy` (they do), `faulty` (commands fail and callers die too), which
lets one run state both what holds for all and what holds only without
overlaps.

**TokenBucket.** A token is `Window` units, so that a tick refills `Rate` units
and there are no fractions; the script's floating point is not modelled.
`Created`, `Spent` and `Refused` are the three branches of the script. The age
of the caller's `now` when the script runs covers delays, reordering and clocks
that are up to `MaxDelay` ticks apart. `birth`, `spent` and `rewound` are history.

**IdempotencyStore.** The caller, the zerohttp middleware, is not in this
repository. The model gives the store the most careful one its interface
allows: Get, Lock, Get again, run the handler, Set, Unlock, and begin again
after an error that leaves the outcome open. What this caller does not get, no
caller does. `Handle` takes any number of ticks. `disturbed` is history: since a
request last had the lock to itself, a lease lapsed under its holder or an Unlock
was sent twice; it ends when nobody is between Lock and Unlock. `runs` counts the
handlers started for what the store should remember.

**TokenRevocation.** A token is the record of its sub, jti, sid and exp. `Revoke`
computes the first TTL, `SetToken` and `SetSession` are the two Sets (the second
computes its TTL when the first is done), `IsRevoked`, `GetSession` and
`GetToken` the two Gets in their order. `life` is the ticks a token has left. The
keys are pairs: a claim whose text contains the separator, so that two pairs
make one string, is not modelled. `begun`, `revoked` and `by` are history: what Revoke
was called for, done for, and done for before an IsRevoked began.

**TokenClaims.** Claims are functions from names to tagged values, so that a
claim of a wrong type, a list of audiences, a number of seconds and an instant
are told apart. `Carried`, `Issuing`, `End` and `TokenType` are the four layers
of `Generate`, the last one on top; `TokenToMap` is the way back. A token that
`Validate` accepted can be the source of the next one (`Regenerate`), as in a
refresh. The owner of the key set changes it at any time, and `Verifies` uses the
first key only. `made` is history: the claims, instant and ttl of the token.

**RedisStorage.** A name is a sequence of words, so that the suffix of a lock
and the missing separator after a prefix count. `EntryAt` with and without
`LockSuffix` is the refinement: to `KeyValue` a key has a value and a lock. A
command that ran may answer `Lost`. `lease` and the entry's `by` are history.
`SetFor` is the TTL a SET leaves: none for a ttl that is not positive, and for a
duration of -1, which the client sends as KEEPTTL, that of the value before.
`Rounded` is Redis's TTL, the nearest whole second. So `KeyValue` promises no more
than a time right to half a `Grain`, here a second: 0 may be told of a value that
is there, with an end.

**CacheStore.** Requests go through Get, compute and Set, with another command
possible between any two; the writer changes the data and then deletes the
response. `raced` is history: the entry outlived a Delete that failed, or was
stored by a request that computed it before a Delete.

**SharedRedis.** Each package's constructor merges the user's configuration with
its defaults (`Store`), and `NamesOf` is the set of names its operations use,
each with its use.

**TlsServers.** A start with a manager reads `TLSConfig` (`AutocertBegins`), sets it
(`SetTLSConfig`) and listens, with other goroutines between; `overlapped` is
history: two starts found nothing set. Slices are modelled by the arrays they are in.
`Policy` is `autocert.HostWhitelist`: `ToASCII`, a constant, is what idna makes of a
hostname, and one it refuses (a wildcard) is in the slice and not in the policy.
`HostsKept` reads what Hostnames returned (`reported`), not the slice.

**Tracer.** The SDK's batcher is external: it takes an ended span if it has room,
exports or loses it later, and shutdown waits for it or for its context.

**HumaAdapter.** net/http's response is external: the first final status commits
the headers. A path is a sequence of segments, each of which may be a parameter, and
a character has the number of times it is escaped, which is what the two
unescapings tell apart. `HasRawPath` is of the whole path, as line 78 tests it:
`DefaultSpelling` says which characters net/url would have written in that way.

**ZerologLogger.** `buffers` are zerolog's; `With` copies one. `given` is history.

## Runs

| Run | Expected | What it shows |
|---|---|---|
| `fixed_window` | pass | three callers, every fault, a window of five ticks that EXPIRE cuts to three: a counter admits at most Rate requests, a span of the window's length at most three times Rate |
| `fixed_window_fraction` | violation | two callers, no faults, a window of one and a half seconds in quarters of one: EXPIRE cuts it to a second, and a span of its length sees the requests of three counters |
| `fixed_window_leak` | violation | one failed EXPIRE and the counter never expires; line 180 calls it atomic |
| `sliding_window` | pass | all environments: overshoot of the set bounded by the callers, no key left without a TTL unless something fails; without overlaps, exact limit, refusals only when the window is full, and the exact reset time |
| `sliding_window_race` | violation | two overlapping calls both take the last place; lines 76 and 208 promise otherwise |
| `token_bucket` | pass | all faults, clocks a tick apart: conservation, honest reset times after an allowed request, and service never stops (liveness) |
| `token_bucket_refusal` | violation | a refusal loses the refill since the last request (line 60); line 155 says unused tokens accumulate |
| `idempotency` | pass | three requests, two mishaps of any kind: exclusive lock, one handler, one stored response unless disturbed; every request is answered (liveness) |
| `idempotency_exclusive` | violation | an Unlock after a lapsed lease deletes the next holder's lock; line 143 calls the lock exclusive |
| `token_revocation` | pass | every fault, two tokens of one session and another subject's with the same jti: a revocation holds, reaches nobody else, and leaves nothing behind for ever |
| `packages` | pass | nine instances that need no run of their own, one per initial state (`part`): as long as nothing fails the fixed window implements `Quota`, leaves no counter without a TTL and without a caller about to set it, ends every window (liveness), and lets at most two windows' requests into a span of whole seconds; storage refines `KeyValue`, keeps leases and lets locks fall; the cache is fresh unless raced, and in the end; names stay apart; own tokens are accepted, end in time and keep their identity; status, headers and parameters are right; entries are whole; spans are flushed; first configuration and hosts are kept |
| `token_revocation_session` | violation | no fault: a session's revocation is cut short by that of a token that expires sooner; line 340 promises otherwise |

**Bounds.** Two or three callers: each property relates at most two of them and
the third plays the environment (the one who creates the next window, or takes
the lock that was deleted). Windows of two ticks and more have a first and a
last tick, those of three a middle; `Second` is one tick or a part of the window, so that the
conversion to seconds both changes and keeps the TTL. `MaxDelay` of one or two
lets a key expire during a call. `MaxCount` is above Rate by the number of
callers that overshoot. `MaxMishaps = 2` combines any two faults (a crash of the
holder and a repeated command, for example); a request never runs twice, so the
model is finite without a bound on retries. In `token_revocation` the tokens that
share an entry have one exp (`EntriesAgree`): `token_revocation_session` shows
what happens otherwise.

In `packages`: for the fixed window three callers, no faults, a second and a window of
three ticks; two keys, values with
KEEPTTL and of two ticks of three in a second, so that TTL rounds up, and down to 0
with a tick left, locks with no end and of one tick, two lockers, so that a lease
lapses while another caller waits; two requests and two changes of the data for
the cache, so that a response computed before a Delete is stored after it; three
keys, one of them with a separator and one that reads like a token's, and four
configurations for the names; two configurations and four sets of claims with
right and wrong types, two keys, three ticks to a second and a clock that stops at
`LastInstant = 4`, the end of a ttl of four ticks, whose token ends a tick earlier; statuses that are informational,
final and an error's, two header values (`MaxValues`) and two contexts around
one (`MaxWraps`), paths of two segments escaped up to two times, in some of
which the first one is spelled otherwise than net/url would write it; three loggers (`MaxLoggers`),
one of which two descend from; two spans and a batch of one (`BatchLimit`); two
goroutines and two managers, with hosts that are kept, converted and refused.

**Fairness.** `FairSpec` of the modules with a liveness run of their own asks for weak fairness of `Tick` (the clock does not
stop), of each step of a call that has begun (a command is answered; go-redis
has timeouts), and of a new request where the property is about service
(`TokenBucket`: clients that keep asking). Nothing is assumed about faults, and
`MaxMishaps` bounds them, so `Answered` says that requests are answered once
mishaps stop. A handler is assumed to end, not to end within its lease. `packages` asks
for the clock of Redis (`StorageTick`, `CacheTick`), and for the cache that a
Delete which is due is sent, handlers end and commands are answered
(`CacheDelete`, `Compute`, `CacheSet`), and for the fixed window the clock and the
answers to calls that began (`WindowFairness`); nothing of the callers of the storage, who
may all die with their locks. Where a package does not run its actions are never
possible, and its fairness asks nothing.

**Deadlock** is checked in all runs but `packages`: `Tick` is always possible
once calls end. In `packages` some parts really end: a process that exited after
Fatal, a program after the tracer's shutdown, a server that was closed.

**Mutants.** Each property of a passing run is violated by a small change of one
definition, listed in `PROJECT.json`; the changed forms stand before the
definitions and are marked "Mutation of".

## Proofs

TLC checks small instances; the theorems hold for every number of callers, rate,
window, TTL, set of keys, claims and tokens and set of faults that the named
assumptions admit (positive rates, windows, lock TTLs and exps; for
`SlidingWindow` a finite set of callers; for `RedisStorage` keys none of which is
another one with the suffix of its lock; for the others types only, and that
`"unset"` is no manager's name).

- `FixedWindowProofs`: `TypeCorrectness`, `RateBound`, `NoLeakedCounter`,
  `QuotaImplemented`. `AtMostRatePerWindow` is not inductive. The invariant adds
  that an admitted request has a slot of its own in the counter (an `Expire`
  step still to come holds one too), that at most one caller of a counter's life
  is on its way to EXPIRE, and that without faults the counter it is about to
  expire is the one it created. The refinement follows step by step: INCR below
  the rate is Take or TakeAndGrant, above it Refuse, expiry is Renew.
  `TwoWindowsBound` and `ThreeWindowsBound` say what any span of the window's length
  sees. The invariant (`ThreeWindows`) cuts the span in three: the last `b` ticks
  saw only what the present counter admitted, the ticks up to `d` and the rest at
  most Rate each. A tick moves the cuts. A counter expires `KeyTTL` ticks after its
  EXPIRE at the earliest, and what it admitted becomes the middle part. If EXPIRE
  cuts nothing off (`WholeWindow`: windows of whole seconds, or below one) the last
  part is empty, and the bound is twice Rate;
  as EXPIRE cuts off less than half of the window (`HalfKept`), it is always three
  times Rate. Without `WholeWindow` the first bound is false
  (`fixed_window_fraction`).
- `SlidingWindowProofs`: `TypeCorrectness`, `EntryBound`, `NoLeakedKey`, `CalmLimit`,
  `CalmRefusalRight`. The first bound counts the callers about to add: one that
  passed the check saw fewer than Rate entries, and each of the others can add one.
  The last two are about calls that do not overlap. The invariant (`CalmInv`): the
  requests admitted in the last b ticks are as many as the entries of that age, for
  every b (`Counted`), because no two requests share a member (`NewInstants`) and the
  key outlives the entries that count (`KeptLong`); what a call counted is still so
  when it adds or reads the oldest (`StillSo`). They need `WholeWindow`, a window that
  EXPIRE does not cut: else the key is gone while entries count, and the limit is
  lost even without overlaps (TLC finds that with a window of one and a half seconds).
- `SumTheorems`: the sum over a set is split at any element (`SumSplit`), and from it
  what a step in a function does to its sums over 0 .. n - 1. The community module
  defines sums by recursion over subsets with CHOOSE; that there is such a function,
  and only one, is shown by induction on sets of numbers (`SetInduction`).
- `TokenBucketProofs`: `TypeCorrectness`, `ConservationHolds`, `ResetHasTokenHolds`.
  `Conservation` is inductive once a missing bucket has no history; a refusal with
  an older `now` moves `last_refill` back and is paid for by `rewound`. For the reset
  time: waiting the rounded up number of ticks refills what is missing
  (`WaitFromEnough`), and a new bucket has enough although its wait is rounded down
  (`CreatedEnough`).
- `IdempotencyStoreProofs`: `TypeCorrectness`, `LockIsExclusive`, `HandledOnce`,
  `ResponseKept`. The invariant: undisturbed, whoever is between Lock and Unlock
  has the lock, and a lease as long as the lock's TTL (`HolderHasLock`); a started
  handler is still running or its response is stored (`RunsAccounted`); and the
  record beside a running handler is its own (`OwnRecord`).
- `StorageProofs`, storage: `KeyValueImplemented`, the refinement, and `LeaseKeptHolds`.
  Names of different keys differ, and no value has the name of a lock
  (`NamesDiffer`, from `LockNamesApart`); so a command changes one value or one
  lock of the abstract storage (`ValueChanged`, `LockChanged`). The invariant:
  before the constructor there is no entry, an entry has time left, and a lease
  and the lock it is for end in the same tick (`LeaseMatches`). A SET leaves a TTL
  that was asked for or is there already (`SetForIs`), and the answer of TTL is at
  most half a second from the truth (`RoundedIsNear`).
- `StorageProofs`, cache: `FreshHolds`. A request about to store an old response is
  one that a Delete has overtaken, or the Delete is still due (`HandsFresh`).
- `StorageProofs`, names: `NamesApartHolds`, for all sequences as keys and prefixes.
  Of two beginnings of one name one begins the other (`ShorterBegins`), which
  `WellNamed` excludes for two packages; within a package the names differ in a
  word after the prefix, in the key, or in the suffix of a lock.
- `TokenStoreProofs`, claims: `OwnTokensAcceptedHolds`, `EndsInTimeHolds`,
  `IdentityKeptHolds`. Lemmas say what each layer of `Generate` leaves under a name
  (`BuiltIs`, `IssuingIs`, `CarriedIs`). The invariant: the token's end is its ttl's
  cut to the second, its other times are no later than those of the claims or than
  Generate, issuer and audience are the configured ones unless the claims have
  others (`TokenOK`), and what was accepted is still that token, in time
  (`ValidatedOK`).
- `TokenStoreProofs`, revocation: `TypeCorrectness`, `RevocationHolds`,
  `EternalOnlyExpiredHolds`, `OnlyRevokedHolds`. The first of the last three needs
  `EntriesAgree`, and the last that claims of two kinds do not read the same
  (`ClaimsApart`). The invariant: a TTL in a caller's hand is enough for its token
  (`CallTTL`), each entry of a revoked token, and the first one when the second is about
  to be set, lasts as long as the token (`Lasts`), and an IsRevoked that has missed the
  session's entry has only its own token left to find (`CallerInv`).
- `AdapterProofs`: `FlushedAtEndHolds`: a span that ended in time is in the batch or
  exported (`DueTaken`), and after a shutdown that flushed nothing is left in the batch
  (`BatchEmptied`). `FirstConfigServedHolds`: unless two starts overlapped, the
  configuration that is set is the first one (`FirstKept`); who is about to set one
  found none (`ConfiguresFirst`), and who listens follows one (`ListensConfigured`).
  `HostsKeptHolds`: unless the caller changed it, the slice of a manager is the one its
  policy was made of, and what it reported are the hosts in it (`GivenKept`); what
  Hostnames returns is never that slice. `StatusAsSentHolds`: as long as the handler runs and misuses
  nothing, the status of the context is the one that was sent, and what is not
  sent yet is not lost (`AgreeSoFar`). `ParamUnescapedOnceHolds`: unescaping
  again changes a value just when it has an escape left (`UnescapedAgain`).
  `EntryWholeHolds`: a logger's buffer holds what it and its ancestors were given
  (`BuffersHold`).

Each invariant was checked on an instance before it was proved.

Only model-checked: liveness (`WindowEnds`, `KeepsServing`, `Answered`,
`LocksFall`, `EventuallyFresh`), which needs ENABLED. Every other property that a
run expects to hold is also a theorem.

## Where code and text disagree

The five runs that expect a violation are findings in `PROJECT.json`. Met while
modelling, and modelled as the code has them:

- Lock of the Redis storage takes its argument's ttl; lines 112-114 of
  `storage/redis.go` say it expires after the configured `lockTTL`, which nothing
  reads. With a ttl of 0 the lock has no expiry.
- TTL of the Redis storage is Redis's, in whole seconds and rounded: of a key in its
  last half second it returns 0, which lines 142-143 of `storage/redis.go` say means
  that there is no key or no TTL.
- A window with a fraction of a second, such as 1.5s, has keys that live a second
  (lines 193 and 243 of `ratelimit/store.go`): a fixed window then lets three times
  the rate through in a span of its length, a sliding one loses its limit.
- A negative `LockTTL` is replaced by the default in the storage, and taken as it
  is by the idempotency store: a lock without expiry.
- Cache and idempotency have the empty prefix by default: one key, one entry.
- Close of any store closes the client that all of them were given; the rate
  limiter then lets everything pass.
- The token store never calls a `KeySelector`, reads neither `RequiredClaims` nor
  `ValidateNotBefore`, and checks the times whatever `ValidateExpiration` says. A
  ttl that is not positive makes a token without an end. A refreshed token keeps
  the `iat` and `type` of the old one.
- The tracer's shutdown uses the context of its constructor and drops the error:
  once that context is cancelled nothing more is flushed.
- A second start with another manager keeps the first one's configuration, even if
  the first start failed. `Hostnames` follows the slice the caller gave, the policy
  does not; and it reports hosts that the policy has converted (capitals, letters
  that are not ASCII) or dropped without an error (a wildcard).
- The Huma context writes a status when it is set, drops operations with other
  methods without an error, and unescapes a parameter twice if the URL has a
  `RawPath`, which another segment of the path may be the cause of.
- An error field loses its key in a call, and its text in `WithFields`. An
  attribute of an unknown type becomes the empty string.

## Not modelled

- The `now + window` that the fixed window gives as "end of current window"
  (line 196): it is later than the window's end for all but its first request.
  The refinement does not look at reset times.
- Floating point in the script and the truncation of its remaining tokens.
- JSON conversion of records: a hit, a miss, or an error. That of private claims: an
  instant or a value of a type with a name comes back from Validate as text, or as
  JSON has it. What the client cuts off a duration below a millisecond.
- Claims that are no map: Generate refuses them and nothing changes.
- A name that can be cut into words in two ways: the prefix `x` with the key `a:k` is
  the prefix `xa:` with the key `k` to Redis, and not to `SharedRedis`, whose words
  are not put together of others.
- An error field with a nil pointer in it, which zerolog leaves out of the entry.
- Redis itself failing over and losing acknowledged writes.
- WebSocket and compression: they hand calls to libraries, with no state and no
  order of calls. The examples, which only show the packages.
- Huma's accessors of a request (Method, URL, Query, ...): each returns a value of
  the request. Autocert's `GetCertificate` and `HTTPHandler`: the ACME library's.
- Connections and sessions of the servers and their draining; signing and parsing
  of tokens; the wording of log entries and the names and attributes of spans.
- Who checks `IsRevoked` and then revokes a token at a refresh: the zerohttp
  middleware. Two refreshes with one token are not kept apart by this store.

## Plan

1. The token store of `TokenClaims` on the revocations of `TokenRevocation`, with
   the refresh that checks and revokes as zerohttp does it.
2. A bound for the sliding window of overlapping calls: how far the requests
   admitted in a span exceed the entries, by the instants that callers share.
3. What the abstract specifications promise, stated and proved of them alone.
