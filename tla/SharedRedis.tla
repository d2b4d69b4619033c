---------------------------- MODULE SharedRedis ----------------------------
(***************************************************************************)
(* The names that the packages of this repository use in one Redis: how    *)
(* the constructors arrive at their prefixes and how a name is made of a   *)
(* key.  Servers build a store of each package they use, with or without a *)
(* configuration, on one client.  A string is the sequence of its words    *)
(* and separators.                                                         *)
(***************************************************************************)
EXTENDS Integers, Sequences
LOCAL INSTANCE SequencesExt

CONSTANTS
    CallerKeys,     \* the keys that callers pass
    UserConfigs     \* the configurations they pass: prefix, algorithm, lockTTL

ASSUME NamesAssumption ==
    /\ CallerKeys \subseteq Seq(STRING)
    /\ \A cfg \in UserConfigs : cfg.prefix \in Seq(STRING)

Packages == {"ratelimit", "idempotency", "cache", "storage", "jwt"}

VARIABLES
    stores,     \* for each package the store there is, if any
    client      \* the Redis client all of them were given: open or closed

sharedVars == <<stores, client>>

NoStore == [built |-> FALSE]
Sep == <<":">>

\* The Default...Configs.  The storage has no default, and its keys no separator.
DefaultPrefix ==
    [ratelimit |-> <<"ratelimit", ":">>, idempotency |-> <<>>, cache |-> <<>>,
     storage |-> <<>>, jwt |-> <<"jwt">>]

DefaultAlgorithm == "token_bucket"
DefaultTTLOfLocks == 30

\* What is set in the user's configuration counts (window and rate likewise).
Chosen(given, unset, default) == IF given = unset THEN default ELSE given

\* A lockTTL below zero is set for the idempotency store, not for the storage.
LockTTLOf(p, ttl) ==
    IF ttl > 0 \/ (p = "idempotency" /\ ttl < 0) THEN ttl ELSE DefaultTTLOfLocks

Store(p, cfg) ==
    [built |-> TRUE,
     prefix |-> Chosen(cfg.prefix, <<>>, DefaultPrefix[p]),
     algorithm |-> Chosen(cfg.algorithm, "", DefaultAlgorithm),
     lockTTL |-> LockTTLOf(p, cfg.lockTTL)]

SharedInit ==
    /\ stores = [p \in Packages |-> NoStore]
    /\ client = "open"

\* NewRedisStore, NewRedisStorage, NewStorageAdapter (on the Redis storage).
Build(p, cfg) ==
    /\ ~stores[p].built
    /\ p = "jwt" => stores["storage"].built
    /\ stores' = [stores EXCEPT ![p] = Store(p, cfg)]
    /\ UNCHANGED client

\* Close of any of them, the token store's through its storage, closes the
\* client it was given.
CloseStore(p) ==
    /\ stores[p].built
    /\ client = "open"
    /\ client' = "closed"
    /\ UNCHANGED stores

SharedNext == \E p \in Packages : CloseStore(p) \/ \E cfg \in UserConfigs : Build(p, cfg)

SharedSpec == SharedInit /\ [][SharedNext]_sharedVars

-----------------------------------------------------------------------------
(* Names.                                                                   *)

\* CheckAndRecord: an algorithm it does not know is the token bucket.
AlgorithmPart(algorithm) ==
    CASE algorithm = "fixed_window" -> "fw"
      [] algorithm = "sliding_window" -> "sw"
      [] OTHER -> "tb"

\* (Mutation of Separated: makeKey forgets the prefix.)
SeparatedNever(prefix) == <<>>

\* makeKey of the idempotency and cache stores.
Separated(prefix) == IF prefix = <<>> THEN <<>> ELSE prefix \o Sep

\* What stands between the prefix and the key, for each kind of name.
Kinds(p) ==
    CASE p = "ratelimit" -> {<<AlgorithmPart(stores[p].algorithm), ":">>}
      [] p = "jwt" -> {Sep \o <<"token", ":">>, Sep \o <<"session", ":">>}
      [] OTHER -> {<<>>}

\* What stands before that: makeKey's prefix and, for JWT, the storage's.
Before(p) ==
    LET prefix == stores[p].prefix
    IN  CASE p \in {"idempotency", "cache"} -> Separated(prefix)
          [] p = "jwt" -> stores["storage"].prefix \o prefix
          [] OTHER -> prefix

\* makeLockKey.
Endings(p) == IF p \in {"idempotency", "storage"} THEN {<<>>, <<":", "lock">>} ELSE {<<>>}

BuiltPackages == {p \in Packages : stores[p].built}

\* The names a store uses, each with what it uses it for.  They are compared word by
\* word: no word is put together of others.
NamesOf(p) ==
    {[name |-> Before(p) \o kind \o k \o suffix,
      use |-> <<p, kind, k, suffix>>] : kind \in Kinds(p), k \in CallerKeys, suffix \in Endings(p)}

-----------------------------------------------------------------------------
(* Properties.                                                              *)

\* The prefix a server chose for a package; the JWT store's is in the storage's.
Prefix(p) ==
    IF p = "jwt" THEN stores["storage"].prefix \o stores["jwt"].prefix ELSE stores[p].prefix

\* What a server has to see to: the prefix of no package begins with that of
\* another one (the empty prefix begins every one), the storage's callers keep
\* away from the keys of the JWT store that works on it, and no key is another
\* one with the suffix of a lock.
WellNamed ==
    /\ \A p, q \in BuiltPackages :
         p # q /\ {p, q} # {"storage", "jwt"} => ~IsPrefix(Prefix(p), Prefix(q))
    /\ \A k, l \in CallerKeys : k # l \o <<":", "lock">>
    /\ "jwt" \in BuiltPackages =>
         \A k \in CallerKeys : ~IsPrefix(stores["jwt"].prefix \o Sep, k)

\* That is enough: two uses, of one package or of two, never meet in one name.
\* The defaults are not well named: cache and idempotency have no prefix at all,
\* and a cached response and an idempotency record of one key are one entry.
NamesApart ==
    WellNamed =>
      \A p, q \in BuiltPackages : \A m \in NamesOf(p), n \in NamesOf(q) :
        m.name = n.name => (p = q /\ m.use = n.use)
=============================================================================
