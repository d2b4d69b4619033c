---------------------------- MODULE RedisStorage ----------------------------
(***************************************************************************)
(* The generic Redis storage, src/storage/redis.go: values and locks of    *)
(* several keys under names in one Redis, and callers that lock with TTLs  *)
(* of their own choice.  Every operation is one command and so atomic; its *)
(* reply may be lost, or it may fail.  A name is a sequence of the pieces  *)
(* that the code concatenates.                                             *)
(***************************************************************************)
EXTENDS Clock, Sequences

CONSTANTS
    Words,           \* the strings that names are put together of
    StorageKeys,     \* the keys of Get, Set, Delete, Lock, Unlock and TTL
    StorageValues,   \* the values of Set
    StorageTTLs,     \* the ttls that callers pass to Set, in ticks
    LockTTLs,        \* and those they pass to Lock
    StorageConfigs,  \* the RedisStorageConfigs that NewRedisStorage may be given
    Lockers,         \* the callers of Lock and Unlock
    Unowned          \* stands for no locker

LockSuffix == <<":lock">>

ASSUME WordsAssumption == ":lock" \in Words
ASSUME StorageKeysAssumption ==
    StorageKeys \subseteq Seq(Words) \ {<<>>}
ASSUME StorageTTLAssumption == StorageTTLs \cup LockTTLs \subseteq Int
ASSUME StorageConfigAssumption ==
    StorageConfigs \subseteq [keyPrefix : Seq(Words), lockTTL : Int]
ASSUME UnownedAssumption == Unowned \notin Lockers

\* No key is another one with the suffix of its lock: the name of a value would
\* be that of a lock.
ASSUME LockNamesApart ==
    \A k, l \in StorageKeys : k # l \o LockSuffix

VARIABLES
    storage,    \* the RedisStorage: its keyPrefix and lockTTL, and whether it is open
    entries,    \* the entries of Redis: for each name a value or a lock, its TTL
                \* and, as history, the locker it is of
    answer,     \* what the last operation returned
    lease       \* for each caller: the key it locked, and what is left of the
                \* ttl it asked for

storageVars == <<storage, entries, answer, lease>>

NoExpiry == -1
NoEntry == [of |-> "nothing", ttl |-> 0, by |-> Unowned]
LockValue == "1"
NoLease == [key |-> <<>>, left |-> 0]

Lost == [op |-> "error"]
Unasked == [op |-> "none"]

DefaultLockTTL == 30
Unmade == [keyPrefix |-> <<>>, lockTTL |-> DefaultLockTTL, is |-> "unmade"]

-----------------------------------------------------------------------------
\* makeKey: a prefix, if any, goes before the key, without a separator.
ValueName(k) == storage.keyPrefix \o k

\* (Mutation of LockName: the lock goes by the key's own name.)
LockNameOfValue(k) == ValueName(k)

\* makeLockKey.
LockName(k) == ValueName(k) \o LockSuffix

\* A SET with a ttl that is not positive has none.
KeepFor(ttl) == IF ttl > 0 THEN ttl ELSE NoExpiry

EntryAt(name) == IF name \in DOMAIN entries THEN entries[name] ELSE NoEntry

\* The entries with one more, or with one replaced.
With(name, entry) ==
    [n \in DOMAIN entries \cup {name} |-> IF n = name THEN entry ELSE entries[n]]

Without(names) == [n \in DOMAIN entries \ names |-> entries[n]]

\* (Mutation of Vacant: SET without NX.)
VacantAlways(k) == TRUE

\* The duration that go-redis sends as KEEPTTL, of a nanosecond below 0.
KeepTTL == -1

\* The TTL of a value that is set: with KEEPTTL that of the one it replaces.
SetFor(k, ttl) ==
    IF ttl = KeepTTL /\ ValueName(k) \in DOMAIN entries
      THEN EntryAt(ValueName(k)).ttl
      ELSE KeepFor(ttl)

\* The TTL of Redis is in seconds, rounded to the nearest: in the last half second
\* of a key it is 0.
Rounded(t) ==
    LET rest == t % Second
    IN  IF 2 * rest < Second THEN t - rest ELSE t - rest + Second

\* NX.
Vacant(k) == LockName(k) \notin DOMAIN entries

\* The reply arrives, or is lost and is an error to the caller.
Answers(result) == answer' \in {result, Lost}

-----------------------------------------------------------------------------
StorageInit ==
    /\ storage = Unmade
    /\ entries = <<>>
    /\ answer = Unasked
    /\ lease = [c \in Lockers |-> NoLease]

\* The first configuration counts; a lockTTL that is not positive is the
\* default.  No operation reads it.
NewRedisStorage(cfg) ==
    /\ storage = Unmade
    /\ storage' = [keyPrefix |-> cfg.keyPrefix, is |-> "open",
                   lockTTL |-> IF cfg.lockTTL > 0 THEN cfg.lockTTL ELSE DefaultLockTTL]
    /\ UNCHANGED <<entries, answer, lease>>

StorageGet(k) ==
    /\ storage.is = "open"
    /\ Answers([op |-> "get", val |-> EntryAt(ValueName(k)).of])
    /\ UNCHANGED <<storage, entries, lease>>

StorageSet(k, v, ttl) ==
    /\ storage.is = "open"
    /\ entries' = With(ValueName(k), [of |-> v, ttl |-> SetFor(k, ttl), by |-> Unowned])
    /\ Answers([op |-> "set"])
    /\ UNCHANGED <<storage, lease>>

StorageDelete(k) ==
    /\ storage.is = "open"
    /\ entries' = Without({ValueName(k)})
    /\ Answers([op |-> "delete"])
    /\ UNCHANGED <<storage, lease>>

\* TTL: -1 and -2, no expiry and no entry, are both 0.
StorageTTL(k) ==
    /\ storage.is = "open"
    /\ LET ttl == EntryAt(ValueName(k)).ttl
       IN  Answers([op |-> "ttl", left |-> IF ttl < 0 THEN 0 ELSE Rounded(ttl)])
    /\ UNCHANGED <<storage, entries, lease>>

\* Lock: the caller's ttl, not lockTTL.  A caller that gets TRUE has a lease.
StorageLock(c, k, ttl) ==
    /\ storage.is = "open"
    /\ lease[c] = NoLease
    /\ entries' = IF Vacant(k)
                    THEN With(LockName(k), [of |-> LockValue, ttl |-> KeepFor(ttl), by |-> c])
                    ELSE entries
    /\ Answers([op |-> "lock", taken |-> Vacant(k)])
    /\ lease' = IF Vacant(k) /\ answer' # Lost
                  THEN [lease EXCEPT ![c] = [key |-> k, left |-> KeepFor(ttl)]]
                  ELSE lease
    /\ UNCHANGED storage

\* Unlock, by a caller that has locked, whether or not its lease still runs.
StorageUnlock(c) ==
    /\ storage.is = "open"
    /\ lease[c] # NoLease
    /\ entries' = Without({LockName(lease[c].key)})
    /\ Answers([op |-> "unlock"])
    /\ lease' = [lease EXCEPT ![c] = NoLease]
    /\ UNCHANGED storage

\* An operation on a client that is closed or out of reach: no command runs.
StorageFails ==
    /\ storage # Unmade
    /\ answer' = Lost
    /\ UNCHANGED <<storage, entries, lease>>

StorageClose ==
    /\ storage.is = "open"
    /\ storage' = [storage EXCEPT !.is = "closed"]
    /\ UNCHANGED <<entries, answer, lease>>

\* A caller dies with its lock.
LockerDies(c) ==
    /\ lease[c] # NoLease
    /\ lease' = [lease EXCEPT ![c] = NoLease]
    /\ UNCHANGED <<storage, entries, answer>>

Down(left) == IF left > 0 THEN left - 1 ELSE left

StorageTick ==
    /\ entries' = [n \in {m \in DOMAIN entries : entries[m].ttl # 1} |->
                     [entries[n] EXCEPT !.ttl = Down(@)]]
    /\ lease' = [c \in Lockers |-> [lease[c] EXCEPT !.left = Down(@)]]
    /\ answer' = Unasked
    /\ UNCHANGED storage

StorageNext ==
    \/ \E cfg \in StorageConfigs : NewRedisStorage(cfg)
    \/ \E k \in StorageKeys :
         \/ StorageGet(k) \/ StorageDelete(k) \/ StorageTTL(k)
         \/ \E v \in StorageValues, ttl \in StorageTTLs : StorageSet(k, v, ttl)
         \/ \E c \in Lockers, ttl \in LockTTLs : StorageLock(c, k, ttl)
    \/ \E c \in Lockers : StorageUnlock(c) \/ LockerDies(c)
    \/ StorageFails \/ StorageClose \/ StorageTick

StorageSpec == StorageInit /\ [][StorageNext]_storageVars

\* Redis counts TTLs down.
StorageFairness == WF_storageVars(StorageTick)

-----------------------------------------------------------------------------
(* Properties.                                                              *)

\* What the entries are to a caller, who knows keys and no names.
ValuesHeld ==
    [k \in StorageKeys |->
       [of |-> EntryAt(ValueName(k)).of, left |-> EntryAt(ValueName(k)).ttl]]

LocksHeld == [k \in StorageKeys |-> EntryAt(LockName(k)).ttl]

KV == INSTANCE KeyValue WITH
        Keys <- StorageKeys,
        Values <- StorageValues,
        Lives <- {KeepFor(ttl) : ttl \in StorageTTLs \cup LockTTLs},
        Grain <- Second,
        value <- ValuesHeld,
        locked <- LocksHeld,
        reply <- answer

\* The storage keeps the promise of KeyValue: values and locks of all keys are
\* apart, last as asked, and every answer is that of the abstract storage.  What
\* is told of a value's end is right to half a second, so that 0 is no sign that a
\* value is gone or has no end (redis.go:143 says that it is one).
ImplementsKeyValue == KV!KVSpec

\* A caller whose lease runs has the lock it took.
HasLock(c) == lease[c].left # 0 /\ EntryAt(LockName(lease[c].key)).by = c

\* A lock whose lease still runs goes only by its own caller, or by the Unlock
\* of one that does not have its own lock of the key any more: no expiry comes
\* early, and no Set, Delete or Lock of anyone removes it.
LeaseKept ==
    [][\A c \in Lockers :
         HasLock(c) /\ lease'[c].left # 0 /\ ~HasLock(c)' =>
           \E d \in Lockers \ {c} :
             lease[d].key = lease[c].key /\ ~HasLock(d) /\ lease'[d] = NoLease
      ]_storageVars

\* A lock that was taken with a ttl falls, whatever becomes of its caller: that
\* of one that died, or never heard that it has it, does not stay.
LocksFall ==
    \A k \in StorageKeys :
      (LockName(k) \in DOMAIN entries /\ EntryAt(LockName(k)).ttl # NoExpiry)
        ~> (LockName(k) \notin DOMAIN entries)
=============================================================================
