---------------------------- MODULE StorageProofs ----------------------------
(***************************************************************************)
(* What stands in Redis.  The Redis storage keeps the promise of KeyValue, *)
(* for every set of keys, values, TTLs, configurations and callers, and a  *)
(* lease keeps its lock; no order of commands leaves an old response in    *)
(* the cache, but the two that CacheStore names; and the names of two      *)
(* packages in one Redis are apart where WellNamed is kept.                *)
(***************************************************************************)
EXTENDS RedisStorage, CacheStore, SharedRedis, SequenceTheorems, TLAPS
LOCAL INSTANCE SequencesExt

-----------------------------------------------------------------------------
(* The Redis storage.                                                       *)

\* What entries has under a name.
At(ents, name) == IF name \in DOMAIN ents THEN ents[name] ELSE NoEntry

\* The names of the value and of the lock of a key.
V(k) == storage.keyPrefix \o k
L(k) == (storage.keyPrefix \o k) \o LockSuffix

ConfigOK ==
    /\ storage \in [keyPrefix : Seq(Words), lockTTL : Int, is : {"unmade", "open", "closed"}]
    /\ storage = Unmade => DOMAIN entries = {}

\* What SET leaves of a ttl: time, or no end; never 0.
TTLs == {NoExpiry} \cup (Nat \ {0})

Entries ==
    [of : StorageValues \cup {LockValue}, ttl : TTLs, by : Lockers \cup {Unowned}]

\* An entry that is there has time left.
EntriesOK == \A n \in DOMAIN entries : entries[n] \in Entries

LeasesOK ==
    /\ lease \in [Lockers -> [key : Seq(Words), left : Int]]
    /\ \A c \in Lockers : lease[c] = NoLease \/ lease[c].key \in StorageKeys

\* A lease and the lock it is for end in the same tick.
LeaseMatches ==
    \A c \in Lockers : \A k \in StorageKeys :
      lease[c].key = k /\ lease[c].left # 0 /\ At(entries, L(k)).by = c =>
        At(entries, L(k)).ttl = lease[c].left

StorageInv == ConfigOK /\ EntriesOK /\ LeasesOK /\ LeaseMatches

-----------------------------------------------------------------------------
(* Names.                                                                   *)

\* No two keys share a name, and no value has the name of a lock.
LEMMA NamesDiffer ==
    ASSUME NEW p \in Seq(Words), NEW k \in StorageKeys, NEW l \in StorageKeys
    PROVE  /\ p \o k = p \o l => k = l
           /\ (p \o k) \o LockSuffix = (p \o l) \o LockSuffix => k = l
           /\ p \o k # (p \o l) \o LockSuffix
<1>1. k \in Seq(Words) /\ l \in Seq(Words) /\ LockSuffix \in Seq(Words)
  BY StorageKeysAssumption, WordsAssumption DEF LockSuffix
<1>2. p \o k \in Seq(Words) /\ p \o l \in Seq(Words) /\ l \o LockSuffix \in Seq(Words)
  BY <1>1, ConcatProperties
<1>3. p \o k = p \o l => k = l
  BY <1>1, ConcatSimplifications
<1>4. (p \o k) \o LockSuffix = (p \o l) \o LockSuffix => p \o k = p \o l
  BY <1>1, <1>2, ConcatSimplifications
<1>5. p \o k = (p \o l) \o LockSuffix => k = l \o LockSuffix
  <2>1. (p \o l) \o LockSuffix = p \o (l \o LockSuffix)
    BY <1>1, ConcatAssociative
  <2> QED
    BY <1>1, <1>2, <2>1, ConcatSimplifications
<1> QED
  BY <1>3, <1>4, <1>5, LockNamesApart

\* What the entries have under a name after SET and after DEL.
LEMMA AtChanged ==
    ASSUME NEW name, NEW e,
           \/ entries' = With(name, e)
           \/ entries' = Without({name}) /\ e = NoEntry
    PROVE  \A x : At(entries', x) = IF x = name THEN e ELSE At(entries, x)
<1>1. CASE entries' = With(name, e)
  BY <1>1 DEF With, At
<1>2. CASE entries' = Without({name}) /\ e = NoEntry
  BY <1>2 DEF Without, At
<1> QED
  BY <1>1, <1>2

\* The abstract storage, by the entries under the names of the keys.
LEMMA HeldIs ==
    /\ ValuesHeld = [k \in StorageKeys |->
                       [of |-> At(entries, storage.keyPrefix \o k).of,
                        left |-> At(entries, storage.keyPrefix \o k).ttl]]
    /\ LocksHeld = [k \in StorageKeys |->
                      At(entries, (storage.keyPrefix \o k) \o LockSuffix).ttl]
    /\ ValuesHeld' = [k \in StorageKeys |->
                       [of |-> At(entries', storage'.keyPrefix \o k).of,
                        left |-> At(entries', storage'.keyPrefix \o k).ttl]]
    /\ LocksHeld' = [k \in StorageKeys |->
                      At(entries', (storage'.keyPrefix \o k) \o LockSuffix).ttl]
    /\ \A c \in Lockers :
         /\ HasLock(c) <=>
              /\ lease[c].left # 0
              /\ At(entries, (storage.keyPrefix \o lease[c].key) \o LockSuffix).by = c
         /\ HasLock(c)' <=>
              /\ lease'[c].left # 0
              /\ At(entries', (storage'.keyPrefix \o lease'[c].key) \o LockSuffix).by = c
  BY DEF ValuesHeld, LocksHeld, HasLock, EntryAt, ValueName, LockName, At

-----------------------------------------------------------------------------
(* What a command does to the abstract storage.                             *)

\* SET and DEL of a value: one value changes, and no lock does.
LEMMA ValueChanged ==
    ASSUME ConfigOK, NEW k \in StorageKeys, NEW e, storage' = storage,
           \/ entries' = With(ValueName(k), e)
           \/ entries' = Without({ValueName(k)}) /\ e = NoEntry
    PROVE  /\ ValuesHeld' = [ValuesHeld EXCEPT ![k] = [of |-> e.of, left |-> e.ttl]]
           /\ LocksHeld' = LocksHeld
           /\ \A j \in StorageKeys : At(entries', L(j)) = At(entries, L(j))
<1>1. \A x : At(entries', x) = IF x = V(k) THEN e ELSE At(entries, x)
  <2>1. ValueName(k) = V(k)
    BY DEF ValueName, V
  <2>2. \A x : At(entries', x) = IF x = ValueName(k) THEN e ELSE At(entries, x)
    BY AtChanged
  <2> QED
    BY <2>1, <2>2
<1>2. storage.keyPrefix \in Seq(Words)
  BY DEF ConfigOK
<1>3. \A j \in StorageKeys : (V(j) = V(k) => j = k) /\ L(j) # V(k)
  BY <1>2, NamesDiffer DEF V, L
<1>4. \A j \in StorageKeys : At(entries', L(j)) = At(entries, L(j))
  BY <1>1, <1>3
<1>5. \A j \in StorageKeys : At(entries', V(j)) = IF j = k THEN e ELSE At(entries, V(j))
  BY <1>1, <1>3
<1>6. LocksHeld' = LocksHeld
  BY <1>4, HeldIs DEF L
<1>7. ValuesHeld' = [j \in StorageKeys |->
                       IF j = k THEN [of |-> e.of, left |-> e.ttl]
                       ELSE [of |-> At(entries, V(j)).of, left |-> At(entries, V(j)).ttl]]
  BY <1>5, HeldIs DEF V
<1>8. ValuesHeld = [j \in StorageKeys |->
                       [of |-> At(entries, V(j)).of, left |-> At(entries, V(j)).ttl]]
  BY HeldIs DEF V
<1> QED
  BY <1>4, <1>6, <1>7, <1>8

\* SET NX and DEL of a lock: one lock changes, and no value does.
LEMMA LockChanged ==
    ASSUME ConfigOK, NEW k \in StorageKeys, NEW e, storage' = storage,
           \/ entries' = With(LockName(k), e)
           \/ entries' = Without({LockName(k)}) /\ e = NoEntry
    PROVE  /\ ValuesHeld' = ValuesHeld
           /\ LocksHeld' = [LocksHeld EXCEPT ![k] = e.ttl]
           /\ \A j \in StorageKeys :
                At(entries', L(j)) = IF j = k THEN e ELSE At(entries, L(j))
<1>1. \A x : At(entries', x) = IF x = L(k) THEN e ELSE At(entries, x)
  <2>1. LockName(k) = L(k)
    BY DEF LockName, ValueName, L
  <2>2. \A x : At(entries', x) = IF x = LockName(k) THEN e ELSE At(entries, x)
    BY AtChanged
  <2> QED
    BY <2>1, <2>2
<1>2. storage.keyPrefix \in Seq(Words)
  BY DEF ConfigOK
<1>3. \A j \in StorageKeys : (L(j) = L(k) => j = k) /\ V(j) # L(k)
  BY <1>2, NamesDiffer DEF V, L
<1>4. \A j \in StorageKeys :
        At(entries', L(j)) = IF j = k THEN e ELSE At(entries, L(j))
  BY <1>1, <1>3
<1>5. \A j \in StorageKeys : At(entries', V(j)) = At(entries, V(j))
  BY <1>1, <1>3
<1>6. ValuesHeld' = ValuesHeld
  BY <1>5, HeldIs DEF V
<1>7. /\ LocksHeld' = [j \in StorageKeys |-> IF j = k THEN e.ttl ELSE At(entries, L(j)).ttl]
      /\ LocksHeld = [j \in StorageKeys |-> At(entries, L(j)).ttl]
  BY <1>4, HeldIs DEF L
<1> QED
  BY <1>4, <1>6, <1>7

\* A command leaves entries with time left.
LEMMA EntriesKept ==
    ASSUME EntriesOK, NEW name, NEW e,
           \/ entries' = With(name, e) /\ e \in Entries
           \/ entries' = Without({name})
    PROVE  EntriesOK'
  BY DEF EntriesOK, With, Without

\* SET takes no ttl for none, and never 0.
LEMMA KeepForIs ==
    ASSUME NEW ttl \in StorageTTLs \cup LockTTLs
    PROVE  KeepFor(ttl) \in TTLs
  BY StorageTTLAssumption DEF KeepFor, TTLs

\* With KEEPTTL it leaves the TTL that is there.
LEMMA SetForIs ==
    ASSUME StorageInv, NEW k \in StorageKeys, NEW ttl \in StorageTTLs
    PROVE  /\ SetFor(k, ttl) \in TTLs
           /\ \/ SetFor(k, ttl) = KeepFor(ttl)
              \/ SetFor(k, ttl) = IF EntryAt(ValueName(k)).ttl = 0 THEN NoExpiry
                                   ELSE EntryAt(ValueName(k)).ttl
<1>1. CASE ttl = KeepTTL /\ ValueName(k) \in DOMAIN entries
  <2>1. SetFor(k, ttl) = EntryAt(ValueName(k)).ttl
    BY <1>1 DEF SetFor
  <2>2. EntryAt(ValueName(k)).ttl \in TTLs
    BY <1>1 DEF StorageInv, EntriesOK, Entries, EntryAt
  <2> QED
    BY <2>1, <2>2 DEF TTLs, NoExpiry
<1>2. CASE ~(ttl = KeepTTL /\ ValueName(k) \in DOMAIN entries)
  BY <1>2, KeepForIs DEF SetFor
<1> QED
  BY <1>1, <1>2

\* What TTL answers is at most half a second from the truth.
LEMMA RoundedIsNear ==
    ASSUME NEW t \in Nat \ {0}
    PROVE  Rounded(t) \in KV!Near(t)
<1> DEFINE rest == t % Second
<1>1. Second \in Nat \ {0} /\ rest \in 0 .. Second - 1
  BY SecondAssumption
<1>2. rest <= t
  <2>1. t = Second * (t \div Second) + rest /\ t \div Second \in Nat
    BY SecondAssumption
  <2>2. ASSUME NEW q \in Nat PROVE Second * q >= 0
    BY SecondAssumption
  <2> HIDE DEF rest
  <2>3. PICK m \in Int : m = Second * (t \div Second) /\ m >= 0
    BY <2>1, <2>2, SecondAssumption
  <2> QED
    BY <1>1, <2>1, <2>3
<1>3. Rounded(t) = IF 2 * rest < Second THEN t - rest ELSE t - rest + Second
  BY DEF Rounded
<1> HIDE DEF rest
<1>4. /\ Rounded(t) \in 0 .. t + Second
      /\ 2 * (Rounded(t) - t) <= Second /\ 2 * (t - Rounded(t)) <= Second
  BY <1>1, <1>2, <1>3
<1> QED
  BY <1>4 DEF KV!Near, KV!Forever

-----------------------------------------------------------------------------
(* The steps.                                                               *)

AbstractStep == KV!KVNext \/ UNCHANGED KV!kvVars

\* A step that runs no command that writes.
LEMMA NoWrite ==
    ASSUME StorageInv, storage'.keyPrefix = storage.keyPrefix, entries' = entries
    PROVE  /\ UNCHANGED <<ValuesHeld, LocksHeld>>
           /\ EntriesOK'
           /\ lease' = lease => LeasesOK' /\ LeaseMatches'
<1>1. UNCHANGED <<ValuesHeld, LocksHeld>>
  BY HeldIs
<1> QED
  BY <1>1 DEF StorageInv, EntriesOK, LeasesOK, LeaseMatches, L

\* The constructor: nothing is in Redis yet, so nobody sees the names change.
LEMMA NewStep ==
    ASSUME StorageInv, NEW cfg \in StorageConfigs, NewRedisStorage(cfg)
    PROVE  StorageInv' /\ AbstractStep
<1>1. /\ DOMAIN entries = {} /\ entries' = entries /\ answer' = answer /\ lease' = lease
  BY DEF NewRedisStorage, StorageInv, ConfigOK
<1>2. \A x : At(entries, x) = NoEntry /\ At(entries', x) = NoEntry
  BY <1>1 DEF At
<1>3. UNCHANGED <<ValuesHeld, LocksHeld>>
  BY <1>2, HeldIs
<1>4. ConfigOK'
  <2>1. cfg.keyPrefix \in Seq(Words) /\ cfg.lockTTL \in Int
    BY StorageConfigAssumption
  <2>2. DOMAIN entries' = {}
    BY <1>1
  <2> QED
    BY <2>1, <2>2 DEF NewRedisStorage, ConfigOK, DefaultLockTTL
<1>5. LeaseMatches'
  <2>1. \A c \in Lockers : Unowned # c
    BY UnownedAssumption
  <2> QED
    BY <1>1, <1>2, <2>1 DEF LeaseMatches, NoEntry
<1>6. EntriesOK' /\ LeasesOK'
  BY <1>1 DEF StorageInv, EntriesOK, LeasesOK
<1> QED
  BY <1>1, <1>3, <1>4, <1>5, <1>6 DEF StorageInv, AbstractStep, KV!kvVars

\* Get returns what the abstract storage has, and TTL what is near to it.
LEMMA ReadStep ==
    ASSUME StorageInv, NEW k \in StorageKeys, StorageGet(k) \/ StorageTTL(k)
    PROVE  StorageInv' /\ AbstractStep
<1>1. UNCHANGED <<storage, entries, lease>>
  BY DEF StorageGet, StorageTTL
<1>2. UNCHANGED <<ValuesHeld, LocksHeld>> /\ StorageInv'
  BY <1>1, NoWrite DEF StorageInv, ConfigOK
<1>3. ValuesHeld[k] = [of |-> EntryAt(ValueName(k)).of, left |-> EntryAt(ValueName(k)).ttl]
  BY DEF ValuesHeld
<1>4. CASE StorageGet(k)
  <2>1. KV!Look(k)
    BY <1>2, <1>3, <1>4 DEF StorageGet, Answers, Lost, KV!Look, KV!Returns, KV!Failure
  <2> QED
    BY <1>2, <2>1 DEF AbstractStep, KV!KVNext
<1>5. CASE StorageTTL(k)
  <2> DEFINE ttl == EntryAt(ValueName(k)).ttl
             told == IF ttl < 0 THEN 0 ELSE Rounded(ttl)
  <2>1. ttl \in TTLs \cup {0}
    BY DEF StorageInv, EntriesOK, Entries, EntryAt, NoEntry
  <2>2. answer' \in {[op |-> "ttl", left |-> told], Lost} /\ ValuesHeld[k].left = ttl
    BY <1>3, <1>5 DEF StorageTTL, Answers
  <2> HIDE DEF ttl
  <2>3. told \in KV!Near(ttl)
    <3>1. CASE ttl = NoExpiry
      BY <3>1 DEF NoExpiry, KV!Near, KV!Forever
    <3>2. CASE ttl = 0
      <4>1. Rounded(0) = 0
        BY SecondAssumption DEF Rounded
      <4> QED
        BY <3>2, <4>1 DEF KV!Near
    <3>3. CASE ttl \in Nat \ {0}
      BY <3>3, RoundedIsNear
    <3> QED
      BY <2>1, <3>1, <3>2, <3>3 DEF TTLs
  <2> HIDE DEF told
  <2>4. KV!Remaining(k)
    BY <1>2, <2>2, <2>3 DEF Lost, KV!Remaining, KV!Returns, KV!Failure
  <2> QED
    BY <1>2, <2>4 DEF AbstractStep, KV!KVNext
<1> QED
  BY <1>4, <1>5

\* An open storage has been made.
LEMMA OpenIsMade == storage.is = "open" => storage # Unmade
  BY DEF Unmade

\* Set and Delete change the value of their key.
LEMMA ValueStep ==
    ASSUME StorageInv, NEW k \in StorageKeys,
           \/ StorageDelete(k)
           \/ \E v \in StorageValues, ttl \in StorageTTLs : StorageSet(k, v, ttl)
    PROVE  StorageInv' /\ AbstractStep
<1>1. UNCHANGED <<storage, lease>> /\ storage # Unmade
  <2>1. UNCHANGED <<storage, lease>> /\ storage.is = "open"
    BY Zenon DEF StorageDelete, StorageSet
  <2> QED
    BY <2>1, OpenIsMade
<1>2. \A j \in StorageKeys : L(j)' = L(j)
  BY <1>1 DEF L
<1>3. ASSUME \A j \in StorageKeys : At(entries', L(j)) = At(entries, L(j)), EntriesOK'
      PROVE  StorageInv'
  BY <1>1, <1>2, <1>3 DEF StorageInv, ConfigOK, LeasesOK, LeaseMatches
<1>4. CASE StorageDelete(k)
  <2>1. entries' = Without({ValueName(k)}) /\ storage' = storage
    BY <1>4 DEF StorageDelete
  <2>2. /\ ValuesHeld' = [ValuesHeld EXCEPT ![k] = [of |-> NoEntry.of, left |-> NoEntry.ttl]]
        /\ LocksHeld' = LocksHeld
        /\ \A j \in StorageKeys : At(entries', L(j)) = At(entries, L(j))
    BY <2>1, ValueChanged DEF StorageInv
  <2>3. EntriesOK'
    BY <2>1, EntriesKept DEF StorageInv
  <2>4. KV!Remove(k)
    BY <1>4, <2>2 DEF StorageDelete, Answers, Lost, NoEntry, KV!Remove, KV!Nothing, KV!Returns, KV!Failure
  <2> QED
    BY <1>3, <2>2, <2>3, <2>4 DEF AbstractStep, KV!KVNext
<1>5. ASSUME NEW v \in StorageValues, NEW ttl \in StorageTTLs, StorageSet(k, v, ttl)
      PROVE  StorageInv' /\ AbstractStep
  <2> DEFINE e == [of |-> v, ttl |-> SetFor(k, ttl), by |-> Unowned]
  <2>1. entries' = With(ValueName(k), e) /\ storage' = storage
    BY <1>5 DEF StorageSet
  <2>2. e \in Entries
    BY SetForIs DEF Entries
  <2> HIDE DEF e
  <2>3. /\ ValuesHeld' = [ValuesHeld EXCEPT ![k] = [of |-> e.of, left |-> e.ttl]]
        /\ LocksHeld' = LocksHeld
        /\ \A j \in StorageKeys : At(entries', L(j)) = At(entries, L(j))
    BY <2>1, ValueChanged DEF StorageInv
  <2>4. EntriesOK'
    BY <2>1, <2>2, EntriesKept DEF StorageInv
  <2>5. KV!Put(k, v, SetFor(k, ttl))
    BY <1>5, <2>3 DEF e, StorageSet, Answers, Lost, KV!Put, KV!Returns, KV!Failure
  <2>6. KV!Put(k, v, KeepFor(ttl)) \/ KV!Replace(k, v)
    <3>1. ValuesHeld[k].left = EntryAt(ValueName(k)).ttl
      BY DEF ValuesHeld
    <3>2. \/ SetFor(k, ttl) = KeepFor(ttl)
          \/ SetFor(k, ttl) = IF ValuesHeld[k].left = 0 THEN KV!Forever ELSE ValuesHeld[k].left
      BY <3>1, SetForIs DEF NoExpiry, KV!Forever
    <3> QED
      BY <2>5, <3>2 DEF KV!Replace
  <2> QED
    BY <1>3, <2>3, <2>4, <2>6 DEF AbstractStep, KV!KVNext
<1> QED
  BY <1>4, <1>5

\* Lock: NX is the question whether the abstract lock is free.
LEMMA LockStep ==
    ASSUME StorageInv, NEW c \in Lockers, NEW k \in StorageKeys, NEW ttl \in LockTTLs,
           StorageLock(c, k, ttl)
    PROVE  StorageInv' /\ AbstractStep
<1> DEFINE e == [of |-> LockValue, ttl |-> KeepFor(ttl), by |-> c]
<1>1. storage' = storage /\ storage # Unmade
  BY OpenIsMade DEF StorageLock
<1>2. \A j \in StorageKeys : L(j)' = L(j)
  BY <1>1 DEF L
<1>3. Vacant(k) <=> LocksHeld[k] = 0
  <2>1. LocksHeld[k] = At(entries, L(k)).ttl /\ L(k) = LockName(k)
    BY HeldIs DEF L, LockName, ValueName
  <2> QED
    BY <2>1 DEF Vacant, At, NoEntry, StorageInv, EntriesOK, Entries, TTLs, NoExpiry
<1>4. CASE Vacant(k)
  <2>1. /\ entries' = With(LockName(k), e)
        /\ answer' \in {[op |-> "lock", taken |-> TRUE], Lost}
        /\ \/ lease' = [lease EXCEPT ![c] = [key |-> k, left |-> KeepFor(ttl)]]
           \/ lease' = lease
        /\ lease[c] = NoLease
    BY <1>4 DEF StorageLock, Answers
  <2>2. e \in Entries
    BY KeepForIs DEF Entries
  <2>3. e.ttl = KeepFor(ttl) /\ e.by = c
    OBVIOUS
  <2> HIDE DEF e
  <2>4. /\ ValuesHeld' = ValuesHeld
        /\ LocksHeld' = [LocksHeld EXCEPT ![k] = e.ttl]
        /\ \A j \in StorageKeys : At(entries', L(j)) = IF j = k THEN e ELSE At(entries, L(j))
    BY <1>1, <2>1, LockChanged DEF StorageInv
  <2>5. EntriesOK'
    BY <2>1, <2>2, EntriesKept DEF StorageInv
  <2>6. LeasesOK'
    <3>1. k \in Seq(Words) /\ KeepFor(ttl) \in Int
      BY StorageKeysAssumption, KeepForIs DEF TTLs, NoExpiry
    <3>2. CASE lease' = lease
      BY <3>2 DEF StorageInv, LeasesOK
    <3>3. CASE lease' = [lease EXCEPT ![c] = [key |-> k, left |-> KeepFor(ttl)]]
      <4>1. [key |-> k, left |-> KeepFor(ttl)] \in [key : Seq(Words), left : Int]
        BY <3>1
      <4>2. lease' \in [Lockers -> [key : Seq(Words), left : Int]]
        BY <3>3, <4>1 DEF StorageInv, LeasesOK
      <4>3. ASSUME NEW d \in Lockers
            PROVE  lease'[d] = NoLease \/ lease'[d].key \in StorageKeys
        BY <3>3 DEF StorageInv, LeasesOK
      <4> QED
        BY <4>2, <4>3 DEF LeasesOK
    <3> QED
      BY <2>1, <3>2, <3>3
  <2>7. ASSUME NEW d \in Lockers, NEW j \in StorageKeys,
               lease'[d].key = j, lease'[d].left # 0, At(entries', L(j)).by = d
        PROVE  At(entries', L(j)).ttl = lease'[d].left
    <3>1. CASE d = c
      BY <2>1, <2>3, <2>4, <2>7, <3>1 DEF NoLease, StorageInv, LeasesOK
    <3>2. CASE d # c
      <4>1. lease'[d] = lease[d] /\ j # k
        BY <2>1, <2>3, <2>4, <2>7, <3>2 DEF StorageInv, LeasesOK
      <4> QED
        BY <2>4, <2>7, <4>1 DEF StorageInv, LeaseMatches
    <3> QED
      BY <3>1, <3>2
  <2>8. StorageInv'
    BY <1>1, <1>2, <2>5, <2>6, <2>7 DEF StorageInv, ConfigOK, LeaseMatches
  <2>9. KV!Acquire(k, KeepFor(ttl))
    BY <1>3, <1>4, <2>1, <2>3, <2>4 DEF Lost, KV!Acquire, KV!Returns, KV!Failure
  <2> QED
    BY <2>8, <2>9 DEF AbstractStep, KV!KVNext
<1>5. CASE ~Vacant(k)
  <2>1. /\ UNCHANGED <<storage, entries, lease>>
        /\ answer' \in {[op |-> "lock", taken |-> FALSE], Lost}
    BY <1>5 DEF StorageLock, Answers
  <2>2. UNCHANGED <<ValuesHeld, LocksHeld>> /\ StorageInv'
    BY <2>1, NoWrite DEF StorageInv, ConfigOK
  <2>3. KV!Acquire(k, KeepFor(ttl))
    BY <1>3, <1>5, <2>1, <2>2 DEF Lost, KV!Acquire, KV!Returns, KV!Failure
  <2> QED
    BY <2>2, <2>3 DEF AbstractStep, KV!KVNext
<1> QED
  BY <1>4, <1>5

\* Unlock frees the lock, whoever has it.
LEMMA UnlockStep ==
    ASSUME StorageInv, NEW c \in Lockers, StorageUnlock(c)
    PROVE  StorageInv' /\ AbstractStep
<1> DEFINE k == lease[c].key
<1>1. /\ storage' = storage /\ storage # Unmade /\ k \in StorageKeys
      /\ lease' = [lease EXCEPT ![c] = NoLease]
      /\ entries' = Without({LockName(k)})
  BY OpenIsMade DEF StorageUnlock, StorageInv, LeasesOK
<1> HIDE DEF k
<1>2. \A j \in StorageKeys : L(j)' = L(j)
  BY <1>1 DEF L
<1>3. /\ ValuesHeld' = ValuesHeld
      /\ LocksHeld' = [LocksHeld EXCEPT ![k] = NoEntry.ttl]
      /\ \A j \in StorageKeys :
           At(entries', L(j)) = IF j = k THEN NoEntry ELSE At(entries, L(j))
  BY <1>1, LockChanged DEF StorageInv
<1>4. EntriesOK'
  BY <1>1, EntriesKept DEF StorageInv
<1>5. LeasesOK'
  <2>1. NoLease \in [key : Seq(Words), left : Int]
    BY DEF NoLease
  <2> QED
    BY <1>1, <2>1 DEF StorageInv, LeasesOK
<1>6. ASSUME NEW d \in Lockers, NEW j \in StorageKeys,
             lease'[d].key = j, lease'[d].left # 0, At(entries', L(j)).by = d
      PROVE  At(entries', L(j)).ttl = lease'[d].left
  <2>1. d # c
    BY <1>1, <1>6 DEF StorageInv, LeasesOK, NoLease
  <2>2. j # k
    BY <1>3, <1>6, UnownedAssumption DEF NoEntry
  <2> QED
    BY <1>1, <1>3, <1>6, <2>1, <2>2 DEF StorageInv, LeasesOK, LeaseMatches
<1>7. StorageInv'
  <2>1. ConfigOK'
    BY <1>1 DEF StorageInv, ConfigOK
  <2>2. LeaseMatches'
    BY <1>2, <1>6 DEF LeaseMatches
  <2> QED
    BY <1>4, <1>5, <2>1, <2>2 DEF StorageInv
<1>8. KV!Release(k)
  BY <1>3 DEF StorageUnlock, Answers, Lost, NoEntry, KV!Release, KV!Returns, KV!Failure
<1> QED
  BY <1>1, <1>7, <1>8 DEF AbstractStep, KV!KVNext

\* One tick of an entry, and of what is under a name.
LEMMA AtTick ==
    ASSUME StorageInv, StorageTick, NEW x
    PROVE  /\ At(entries, x).ttl = 1 => At(entries', x) = NoEntry
           /\ At(entries, x).ttl # 1 =>
                At(entries', x) = [At(entries, x) EXCEPT !.ttl = Down(@)]
<1>1. CASE x \in DOMAIN entries
  BY <1>1 DEF StorageTick, At
<1>2. CASE x \notin DOMAIN entries
  <2>1. At(entries, x) = NoEntry /\ At(entries', x) = NoEntry
    BY <1>2 DEF StorageTick, At
  <2> QED
    BY <2>1 DEF NoEntry, Down
<1> QED
  BY <1>1, <1>2

\* What is under a name is an entry or nothing.
LEMMA AtTypes ==
    ASSUME StorageInv, NEW x
    PROVE  \/ At(entries, x) = NoEntry
           \/ At(entries, x) \in Entries
  BY DEF StorageInv, EntriesOK, At

\* A tick of Redis is one of the abstract storage.
LEMMA TickStep ==
    ASSUME StorageInv, StorageTick
    PROVE  StorageInv' /\ AbstractStep
<1>1. storage' = storage
  BY DEF StorageTick
<1>2. ASSUME NEW x, At(entries, x).ttl # 1
      PROVE  /\ At(entries', x).of = At(entries, x).of
             /\ At(entries', x).by = At(entries, x).by
             /\ At(entries', x).ttl = Down(At(entries, x).ttl)
  BY <1>2, AtTick, AtTypes DEF Entries, NoEntry
<1>3. EntriesOK'
  <2> SUFFICES ASSUME NEW n \in DOMAIN entries' PROVE entries'[n] \in Entries
    BY DEF EntriesOK
  <2>1. /\ n \in DOMAIN entries /\ entries[n].ttl # 1
        /\ entries'[n] = [entries[n] EXCEPT !.ttl = Down(@)]
    BY DEF StorageTick
  <2>2. entries[n] \in Entries
    BY <2>1 DEF StorageInv, EntriesOK
  <2>3. Down(entries[n].ttl) \in TTLs
    BY <2>1, <2>2 DEF Entries, TTLs, NoExpiry, Down
  <2> QED
    BY <2>1, <2>2, <2>3 DEF Entries
<1>4. ASSUME NEW c \in Lockers
      PROVE  /\ lease'[c] = [key |-> lease[c].key, left |-> Down(lease[c].left)]
             /\ lease'[c].key = lease[c].key /\ lease'[c].left = Down(lease[c].left)
             /\ lease'[c] \in [key : Seq(Words), left : Int]
  <2>1. /\ lease'[c] = [lease[c] EXCEPT !.left = Down(@)]
        /\ lease[c] \in [key : Seq(Words), left : Int]
    BY DEF StorageTick, StorageInv, LeasesOK
  <2>2. Down(lease[c].left) \in Int
    BY <2>1 DEF Down
  <2> QED
    BY <2>1, <2>2
<1>5. LeasesOK'
  <2>1. \A c \in Lockers : lease'[c] \in [key : Seq(Words), left : Int]
    BY <1>4
  <2>2. lease' \in [Lockers -> [key : Seq(Words), left : Int]]
    BY <2>1 DEF StorageTick
  <2>3. ASSUME NEW c \in Lockers
        PROVE  lease'[c] = NoLease \/ lease'[c].key \in StorageKeys
    <3>1. CASE lease[c] = NoLease
      <4>1. lease[c].key = <<>> /\ lease[c].left = 0 /\ Down(0) = 0
        BY <3>1 DEF NoLease, Down
      <4> QED
        BY <1>4, <4>1 DEF NoLease
    <3>2. CASE lease[c].key \in StorageKeys
      BY <1>4, <3>2
    <3> QED
      BY <3>1, <3>2 DEF StorageInv, LeasesOK
  <2> QED
    BY <2>2, <2>3 DEF LeasesOK
<1>6. LeaseMatches'
  <2> SUFFICES ASSUME NEW c \in Lockers, NEW k \in StorageKeys,
                      lease'[c].key = k, lease'[c].left # 0, At(entries', L(k)).by = c
               PROVE  At(entries', L(k)).ttl = lease'[c].left
    BY <1>1 DEF LeaseMatches, L
  <2>1. lease[c].key = k /\ lease[c].left # 0 /\ lease'[c].left = Down(lease[c].left)
    <3>1. Down(0) = 0
      BY DEF Down
    <3> QED
      BY <1>4, <3>1
  <2>2. At(entries, L(k)).ttl # 1
    BY AtTick, UnownedAssumption DEF NoEntry
  <2>3. At(entries, L(k)).ttl = lease[c].left
    BY <1>2, <2>1, <2>2 DEF StorageInv, LeaseMatches
  <2> QED
    BY <1>2, <2>1, <2>2, <2>3
<1>7. ValuesHeld' = [k \in StorageKeys |->
        IF ValuesHeld[k].left = 1 THEN KV!Nothing
        ELSE [ValuesHeld[k] EXCEPT !.left = KV!Sooner(@)]]
  <2>1. \A k \in StorageKeys :
          ValuesHeld[k] = [of |-> At(entries, V(k)).of, left |-> At(entries, V(k)).ttl]
    BY HeldIs DEF V
  <2>2. ValuesHeld' = [k \in StorageKeys |->
                         [of |-> At(entries', V(k)).of, left |-> At(entries', V(k)).ttl]]
    BY <1>1, HeldIs DEF V
  <2>3. ASSUME NEW k \in StorageKeys
        PROVE  [of |-> At(entries', V(k)).of, left |-> At(entries', V(k)).ttl]
                 = IF ValuesHeld[k].left = 1 THEN KV!Nothing
                   ELSE [ValuesHeld[k] EXCEPT !.left = KV!Sooner(@)]
    <3> DEFINE a == At(entries, V(k))
    <3>1. CASE a.ttl = 1
      <4>1. At(entries', V(k)) = NoEntry
        BY <3>1, AtTick
      <4>2. ValuesHeld[k].left = 1
        <5>1. ValuesHeld[k] = [of |-> a.of, left |-> a.ttl]
          BY <2>1
        <5> HIDE DEF a
        <5> QED
          BY <3>1, <5>1
      <4> QED
        BY <4>1, <4>2 DEF NoEntry, KV!Nothing
    <3>2. CASE a.ttl # 1
      <4>1. /\ At(entries', V(k)).of = a.of
            /\ At(entries', V(k)).ttl = KV!Sooner(a.ttl)
        BY <1>2, <3>2 DEF Down, KV!Sooner
      <4>2. ValuesHeld[k] = [of |-> a.of, left |-> a.ttl]
        BY <2>1
      <4> HIDE DEF a
      <4> QED
        BY <3>2, <4>1, <4>2
    <3> QED
      BY <3>1, <3>2
  <2> QED
    BY <2>2, <2>3
<1>8. LocksHeld' = [k \in StorageKeys |-> KV!Sooner(LocksHeld[k])]
  <2>1. \A k \in StorageKeys : LocksHeld[k] = At(entries, L(k)).ttl
    BY HeldIs DEF L
  <2>2. LocksHeld' = [k \in StorageKeys |-> At(entries', L(k)).ttl]
    BY <1>1, HeldIs DEF L
  <2>3. ASSUME NEW k \in StorageKeys
        PROVE  At(entries', L(k)).ttl = KV!Sooner(LocksHeld[k])
    <3>1. CASE At(entries, L(k)).ttl = 1
      BY <2>1, <3>1, AtTick DEF NoEntry, KV!Sooner
    <3>2. CASE At(entries, L(k)).ttl # 1
      BY <1>2, <2>1, <3>2 DEF Down, KV!Sooner
    <3> QED
      BY <3>1, <3>2
  <2> QED
    BY <2>2, <2>3
<1>9. ConfigOK'
  BY <1>1 DEF StorageTick, StorageInv, ConfigOK
<1>10. KV!Pass
  BY <1>7, <1>8 DEF StorageTick, Unasked, KV!Pass, KV!NoReply
<1> QED
  BY <1>3, <1>5, <1>6, <1>9, <1>10 DEF StorageInv, AbstractStep, KV!KVNext

\* Failures, Close, and a caller that dies.
LEMMA OtherStep ==
    ASSUME StorageInv,
           StorageFails \/ StorageClose \/ \E c \in Lockers : LockerDies(c)
    PROVE  StorageInv' /\ AbstractStep
<1>1. CASE StorageFails
  <2>1. UNCHANGED <<storage, entries, lease>> /\ answer' = Lost
    BY <1>1 DEF StorageFails
  <2>2. UNCHANGED <<ValuesHeld, LocksHeld>> /\ StorageInv'
    BY <2>1, NoWrite DEF StorageInv, ConfigOK
  <2>3. KV!Fail
    BY <2>1, <2>2 DEF Lost, KV!Fail, KV!Failure
  <2> QED
    BY <2>2, <2>3 DEF AbstractStep, KV!KVNext
<1>2. CASE StorageClose
  <2>1. /\ storage' = [storage EXCEPT !.is = "closed"] /\ storage.is = "open"
        /\ UNCHANGED <<entries, answer, lease>>
    BY <1>2 DEF StorageClose
  <2>2. ConfigOK' /\ storage'.keyPrefix = storage.keyPrefix
    BY <2>1 DEF StorageInv, ConfigOK, Unmade
  <2> QED
    BY <2>1, <2>2, NoWrite DEF StorageInv, AbstractStep, KV!kvVars
<1>3. ASSUME NEW c \in Lockers, LockerDies(c) PROVE StorageInv' /\ AbstractStep
  <2>1. lease' = [lease EXCEPT ![c] = NoLease] /\ UNCHANGED <<storage, entries, answer>>
    BY <1>3 DEF LockerDies
  <2>2. UNCHANGED <<ValuesHeld, LocksHeld>> /\ EntriesOK' /\ ConfigOK'
    BY <2>1, NoWrite DEF StorageInv, ConfigOK
  <2>3. NoLease \in [key : Seq(Words), left : Int] /\ NoLease.left = 0
    BY DEF NoLease
  <2>4. LeasesOK'
    BY <2>1, <2>3 DEF StorageInv, LeasesOK
  <2>5. LeaseMatches'
    BY <2>1, <2>3 DEF StorageInv, LeasesOK, LeaseMatches, L
  <2> QED
    BY <2>1, <2>2, <2>4, <2>5 DEF StorageInv, AbstractStep, KV!kvVars
<1> QED
  BY <1>1, <1>2, <1>3

\* Nothing is there at the start.
LEMMA StorageStart == StorageInit => StorageInv /\ KV!KVInit
<1> SUFFICES ASSUME StorageInit PROVE StorageInv /\ KV!KVInit
  OBVIOUS
<1>1. /\ storage = Unmade /\ DOMAIN entries = {} /\ answer = Unasked
      /\ lease = [c \in Lockers |-> NoLease]
  BY DEF StorageInit
<1>2. \A x : At(entries, x) = NoEntry
  BY <1>1 DEF At
<1>3. NoLease \in [key : Seq(Words), left : Int]
  BY DEF NoLease
<1>4. \A c \in Lockers : Unowned # c
  BY UnownedAssumption
<1>5. Unmade \in [keyPrefix : Seq(Words), lockTTL : Int, is : {"unmade", "open", "closed"}]
  BY DEF Unmade, DefaultLockTTL
<1>6. ConfigOK /\ EntriesOK
  BY <1>1, <1>5 DEF ConfigOK, EntriesOK
<1>7. LeasesOK
  BY <1>1, <1>3 DEF LeasesOK
<1>8. LeaseMatches
  BY <1>2, <1>4 DEF LeaseMatches, NoEntry
<1>9. KV!KVInit
  BY <1>1, <1>2, HeldIs DEF KV!KVInit, KV!Nothing, KV!NoReply, NoEntry, Unasked
<1> QED
  BY <1>6, <1>7, <1>8, <1>9 DEF StorageInv

\* Every step keeps the invariant and is one of the abstract storage, or none.
LEMMA StorageStep ==
    StorageInv /\ [StorageNext]_storageVars => StorageInv' /\ AbstractStep
<1>1. ASSUME StorageInv, StorageNext PROVE StorageInv' /\ AbstractStep
  BY <1>1, NewStep, ReadStep, ValueStep, LockStep, UnlockStep, TickStep, OtherStep
     DEF StorageNext
<1>2. ASSUME StorageInv, UNCHANGED storageVars PROVE StorageInv' /\ AbstractStep
  <2>1. UNCHANGED <<storage, entries, answer, lease>>
    BY <1>2 DEF storageVars
  <2> QED
    BY <1>2, <2>1, NoWrite DEF StorageInv, ConfigOK, AbstractStep, KV!kvVars
<1> QED
  BY <1>1, <1>2

\* The invariant holds in every state.
THEOREM StorageInvariance == StorageSpec => []StorageInv
<1>1. StorageInit => StorageInv
  BY StorageStart
<1>2. StorageInv /\ [StorageNext]_storageVars => StorageInv'
  BY StorageStep
<1> QED
  BY <1>1, <1>2, PTL DEF StorageSpec

\* The Redis storage implements the abstract one: for every set of keys whose
\* values have no names of locks, every prefix and every ttl, each command gives
\* the answer, and leaves the values and locks, that KeyValue promises.
THEOREM KeyValueImplemented == StorageSpec => ImplementsKeyValue
<1>1. StorageInit => KV!KVInit
  BY StorageStart
<1>2. StorageInv /\ [StorageNext]_storageVars => [KV!KVNext]_(KV!kvVars)
  BY StorageStep DEF AbstractStep
<1> QED
  BY <1>1, <1>2, StorageInvariance, PTL DEF StorageSpec, ImplementsKeyValue, KV!KVSpec

-----------------------------------------------------------------------------
(* Leases.                                                                  *)

\* The one way to lose a lock under a running lease.
LostOnlyToUnlock(c) ==
    HasLock(c) /\ lease'[c].left # 0 /\ ~HasLock(c)' =>
      \E d \in Lockers \ {c} :
        lease[d].key = lease[c].key /\ ~HasLock(d) /\ lease'[d] = NoLease

\* A caller with a lock has it under the name of a key.
LEMMA LockHeld ==
    ASSUME StorageInv, NEW c \in Lockers, HasLock(c)
    PROVE  /\ lease[c].key \in StorageKeys
           /\ lease[c].left # 0
           /\ At(entries, L(lease[c].key)).by = c
           /\ lease[c] # NoLease
<1>1. lease[c].left # 0 /\ At(entries, L(lease[c].key)).by = c
  BY HeldIs DEF L
<1>2. lease[c] # NoLease
  BY <1>1 DEF NoLease
<1> QED
  BY <1>1, <1>2 DEF StorageInv, LeasesOK

\* It keeps it if its entry stays its own.
LEMMA LockStays ==
    ASSUME StorageInv, NEW c \in Lockers, HasLock(c), NEW k \in StorageKeys,
           storage'.keyPrefix = storage.keyPrefix,
           lease[c].key = k, lease'[c].key = k, lease'[c].left # 0,
           At(entries', L(k)).by = At(entries, L(k)).by
    PROVE  HasLock(c)'
<1>1. At(entries, L(k)).by = c
  BY LockHeld
<1> QED
  BY <1>1, HeldIs DEF L

\* Steps that leave the entries of locks, or the leases, alone.
LEMMA LeaseQuiet ==
    ASSUME StorageInv, NEW c \in Lockers, storage'.keyPrefix = storage.keyPrefix,
           \A j \in StorageKeys : At(entries', L(j)) = At(entries, L(j)),
           lease'[c] = lease[c] \/ lease'[c] = NoLease
    PROVE  LostOnlyToUnlock(c)
<1> SUFFICES ASSUME HasLock(c), lease'[c].left # 0 PROVE HasLock(c)'
  BY DEF LostOnlyToUnlock
<1>1. lease'[c] = lease[c]
  BY DEF NoLease
<1> QED
  BY <1>1, LockHeld, LockStays

\* Steps of callers.
LEMMA LeaseOfCallers ==
    ASSUME StorageInv, NEW c \in Lockers, NEW d \in Lockers,
           \/ StorageUnlock(d) \/ LockerDies(d)
           \/ \E k \in StorageKeys, ttl \in LockTTLs : StorageLock(d, k, ttl)
    PROVE  LostOnlyToUnlock(c)
<1> SUFFICES ASSUME HasLock(c), lease'[c].left # 0, ~HasLock(c)'
             PROVE  /\ d # c /\ lease[d].key = lease[c].key
                    /\ ~HasLock(d) /\ lease'[d] = NoLease
  BY DEF LostOnlyToUnlock
<1>1. lease \in [Lockers -> [key : Seq(Words), left : Int]] /\ NoLease.left = 0
  BY DEF StorageInv, LeasesOK, NoLease
<1>2. CASE LockerDies(d)
  <2>1. /\ storage' = storage /\ entries' = entries
        /\ lease' = [lease EXCEPT ![d] = NoLease]
    BY <1>2 DEF LockerDies
  <2>2. lease'[c] = lease[c]
    BY <1>1, <2>1
  <2> QED
    BY <2>1, <2>2, LockHeld, LockStays
<1>3. CASE StorageUnlock(d)
  <2> DEFINE j == lease[d].key
  <2>1. /\ storage' = storage /\ entries' = Without({LockName(j)})
        /\ lease' = [lease EXCEPT ![d] = NoLease] /\ j \in StorageKeys
    BY <1>3 DEF StorageUnlock, StorageInv, LeasesOK
  <2>2. d # c /\ lease'[c] = lease[c] /\ lease'[d] = NoLease
    BY <1>1, <2>1
  <2> HIDE DEF j
  <2>3. \A k \in StorageKeys : k # j => At(entries', L(k)) = At(entries, L(k))
    BY <2>1, LockChanged DEF StorageInv
  <2>4. lease[c].key = j
    BY <2>1, <2>2, <2>3, LockHeld, LockStays
  <2>5. ~HasLock(d)
    BY <2>2, <2>4, LockHeld DEF j
  <2> QED
    BY <2>2, <2>4, <2>5 DEF j
<1>4. ASSUME NEW k \in StorageKeys, NEW ttl \in LockTTLs, StorageLock(d, k, ttl)
      PROVE  FALSE
  <2> DEFINE e == [of |-> LockValue, ttl |-> KeepFor(ttl), by |-> d]
  <2>1. storage' = storage /\ lease[d] = NoLease
    BY <1>4 DEF StorageLock
  <2>2. d # c
    BY <2>1, LockHeld
  <2>3. lease'[c] = lease[c]
    BY <1>1, <1>4, <2>2 DEF StorageLock
  <2>4. CASE ~Vacant(k)
    <3>1. entries' = entries
      BY <1>4, <2>4 DEF StorageLock
    <3> QED
      BY <2>1, <2>3, <3>1, LeaseQuiet, LockHeld, LockStays
  <2>5. CASE Vacant(k)
    <3>1. entries' = With(LockName(k), e)
      BY <1>4, <2>5 DEF StorageLock
    <3> HIDE DEF e
    <3>2. \A j \in StorageKeys : j # k => At(entries', L(j)) = At(entries, L(j))
      BY <2>1, <3>1, LockChanged DEF StorageInv
    <3>3. At(entries, L(k)).by # c
      <4>1. L(k) = LockName(k)
        BY DEF L, LockName, ValueName
      <4> QED
        BY <2>5, <4>1, UnownedAssumption DEF Vacant, At, NoEntry
    <3>4. lease[c].key # k
      BY <3>3, LockHeld
    <3> QED
      BY <2>1, <2>3, <3>2, <3>4, LockHeld, LockStays
  <2> QED
    BY <2>4, <2>5
<1> QED
  BY <1>2, <1>3, <1>4

\* A tick ends a lock no sooner than its lease.
LEMMA LeaseOfTick ==
    ASSUME StorageInv, NEW c \in Lockers, StorageTick
    PROVE  LostOnlyToUnlock(c)
<1> SUFFICES ASSUME HasLock(c), lease'[c].left # 0 PROVE HasLock(c)'
  BY DEF LostOnlyToUnlock
<1> DEFINE k == lease[c].key
<1>1. k \in StorageKeys /\ At(entries, L(k)).by = c /\ lease[c].left # 0
  BY LockHeld
<1>2. At(entries, L(k)).ttl = lease[c].left
  BY <1>1 DEF StorageInv, LeaseMatches
<1>3. /\ lease'[c] = [lease[c] EXCEPT !.left = Down(@)]
      /\ lease[c] \in [key : Seq(Words), left : Int]
      /\ storage' = storage
  BY DEF StorageTick, StorageInv, LeasesOK
<1>4. lease'[c].key = k /\ lease'[c].left = Down(lease[c].left)
  BY <1>3
<1>5. At(entries, L(k)).ttl # 1
  BY <1>2, <1>4 DEF Down
<1> HIDE DEF k
<1>6. At(entries', L(k)).by = At(entries, L(k)).by
  BY <1>5, AtTick, AtTypes DEF Entries, NoEntry
<1> QED
  BY <1>1, <1>3, <1>4, <1>6, LockStays DEF k

\* Steps that run no command of a caller.
LEMMA LeaseOfOthers ==
    ASSUME StorageInv, NEW c \in Lockers,
           \/ StorageFails \/ StorageClose
           \/ \E cfg \in StorageConfigs : NewRedisStorage(cfg)
    PROVE  LostOnlyToUnlock(c)
<1>1. CASE StorageFails \/ StorageClose
  <2>1. storage'.keyPrefix = storage.keyPrefix /\ UNCHANGED <<entries, lease>>
    BY <1>1 DEF StorageFails, StorageClose, StorageInv, ConfigOK
  <2> QED
    BY <2>1, LeaseQuiet
<1>2. CASE \E cfg \in StorageConfigs : NewRedisStorage(cfg)
  <2>1. DOMAIN entries = {}
    BY <1>2 DEF NewRedisStorage, StorageInv, ConfigOK
  <2>2. \A x : At(entries, x).by # c
    BY <2>1, UnownedAssumption DEF At, NoEntry
  <2> QED
    BY <2>2, LockHeld DEF LostOnlyToUnlock
<1> QED
  BY <1>1, <1>2

\* Commands on values.
LEMMA LeaseOfValues ==
    ASSUME StorageInv, NEW c \in Lockers, NEW k \in StorageKeys,
           \/ StorageGet(k) \/ StorageTTL(k) \/ StorageDelete(k)
           \/ \E v \in StorageValues, ttl \in StorageTTLs : StorageSet(k, v, ttl)
    PROVE  LostOnlyToUnlock(c)
<1>1. CASE StorageGet(k) \/ StorageTTL(k)
  <2>1. UNCHANGED <<storage, entries, lease>>
    BY <1>1 DEF StorageGet, StorageTTL
  <2> QED
    BY <2>1, LeaseQuiet
<1>2. CASE StorageDelete(k)
  <2>1. /\ storage' = storage /\ lease' = lease
        /\ entries' = Without({ValueName(k)})
    BY <1>2 DEF StorageDelete
  <2>2. \A j \in StorageKeys : At(entries', L(j)) = At(entries, L(j))
    BY <2>1, ValueChanged DEF StorageInv
  <2> QED
    BY <2>1, <2>2, LeaseQuiet
<1>3. ASSUME NEW v \in StorageValues, NEW ttl \in StorageTTLs, StorageSet(k, v, ttl)
      PROVE  LostOnlyToUnlock(c)
  <2> DEFINE e == [of |-> v, ttl |-> SetFor(k, ttl), by |-> Unowned]
  <2>1. /\ storage' = storage /\ lease' = lease
        /\ entries' = With(ValueName(k), e)
    BY <1>3 DEF StorageSet
  <2> HIDE DEF e
  <2>2. \A j \in StorageKeys : At(entries', L(j)) = At(entries, L(j))
    BY <2>1, ValueChanged DEF StorageInv
  <2> QED
    BY <2>1, <2>2, LeaseQuiet
<1> QED
  BY <1>1, <1>2, <1>3

\* A lock whose lease runs is lost only to the Unlock of another caller that
\* does not have it any more: for every number of callers, keys and ttls.
THEOREM LeaseKeptHolds == StorageSpec => LeaseKept
<1>1. ASSUME StorageInv, StorageNext, NEW c \in Lockers PROVE LostOnlyToUnlock(c)
  BY <1>1, LeaseOfCallers, LeaseOfTick, LeaseOfOthers, LeaseOfValues DEF StorageNext
<1>2. StorageInv /\ [StorageNext]_storageVars =>
        [\A c \in Lockers :
           HasLock(c) /\ lease'[c].left # 0 /\ ~HasLock(c)' =>
             \E d \in Lockers \ {c} :
               lease[d].key = lease[c].key /\ ~HasLock(d) /\ lease'[d] = NoLease
        ]_storageVars
  BY <1>1 DEF LostOnlyToUnlock
<1> QED
  BY <1>2, StorageInvariance, PTL DEF StorageSpec, LeaseKept

-----------------------------------------------------------------------------
(* The cache.                                                               *)

FillStates ==
    [pc : {"look", "compute", "store", "done"}, version : Int, late : BOOLEAN]

Responses == [live : BOOLEAN, version : Int, ttl : Int]

\* The types, as far as the proofs need them.
CacheTypeOK ==
    /\ data \in Nat
    /\ deleting \in BOOLEAN
    /\ raced \in BOOLEAN
    /\ cached \in Responses
    /\ fill \in [Fills -> FillStates]

\* A request that is about to store an old response is one of those that the
\* Delete has overtaken, or the Delete is still due.
HandsFresh ==
    \A r \in Fills :
      fill[r].pc = "store" /\ fill[r].version # data => deleting \/ fill[r].late

CacheInv == CacheTypeOK /\ HandsFresh /\ FreshUnlessRaced

\* Nobody has a response at the start.
LEMMA CacheStart == CacheInit => CacheInv
<1> SUFFICES ASSUME CacheInit PROVE CacheInv
  OBVIOUS
<1>1. /\ data = 0 /\ deleting = FALSE /\ raced = FALSE
      /\ cached = [live |-> FALSE, version |-> 0, ttl |-> 0]
      /\ fill = [r \in Fills |-> [pc |-> "look", version |-> 0, late |-> FALSE]]
  BY DEF CacheInit, NoResponse
<1>2. cached \in Responses /\ ~cached.live
  BY <1>1 DEF Responses
<1>3. [pc |-> "look", version |-> 0, late |-> FALSE] \in FillStates
  BY DEF FillStates
<1>4. fill \in [Fills -> FillStates] /\ \A r \in Fills : fill[r].pc = "look"
  BY <1>1, <1>3
<1> QED
  BY <1>1, <1>2, <1>4 DEF CacheInv, CacheTypeOK, HandsFresh, FreshUnlessRaced

\* What a request goes on with is from the data there are, or not to be stored.
LEMMA FillStep ==
    ASSUME CacheInv, NEW r \in Fills, NEW pc \in {"look", "compute", "store", "done"},
           NEW version \in Int, FillTo(r, pc, version),
           pc = "store" => version = data,
           UNCHANGED <<data, deleting>>
    PROVE  fill' \in [Fills -> FillStates] /\ HandsFresh'
<1>1. fill' \in [Fills -> FillStates]
  BY DEF CacheInv, CacheTypeOK, FillTo, FillStates
<1>2. ASSUME NEW q \in Fills, fill'[q].pc = "store", fill'[q].version # data
      PROVE  deleting \/ fill'[q].late
  <2>1. CASE q = r
    <3>1. fill'[r] = [pc |-> pc, version |-> version, late |-> FALSE]
      BY DEF CacheInv, CacheTypeOK, FillTo
    <3> QED
      BY <1>2, <2>1, <3>1
  <2>2. CASE q # r
    <3>1. fill'[q] = fill[q]
      BY <2>2 DEF CacheInv, CacheTypeOK, FillTo
    <3> QED
      BY <1>2, <3>1 DEF CacheInv, HandsFresh
  <2> QED
    BY <2>1, <2>2
<1> QED
  BY <1>1, <1>2 DEF HandsFresh

\* A request's step that leaves the cache alone.
LEMMA QuietStep ==
    ASSUME CacheInv, NEW r \in Fills, NEW pc \in {"look", "compute", "store", "done"},
           NEW version \in Int, FillTo(r, pc, version),
           pc = "store" => version = data,
           UNCHANGED <<data, deleting, cached, raced>>
    PROVE  CacheInv'
<1>1. fill' \in [Fills -> FillStates] /\ HandsFresh'
  BY FillStep
<1> QED
  BY <1>1 DEF CacheInv, CacheTypeOK, FreshUnlessRaced

\* The steps of a request.
LEMMA RequestSteps ==
    ASSUME CacheInv, NEW r \in Fills,
           CacheGet(r) \/ CacheGetFails(r) \/ Compute(r)
             \/ CacheSet(r) \/ CacheSetFails(r) \/ Ask(r)
    PROVE  CacheInv'
<1>1. /\ data \in Int /\ fill[r].version \in Int /\ cached.version \in Int
      /\ fill[r].late \in BOOLEAN
  BY DEF CacheInv, CacheTypeOK, FillStates, Responses
<1>2. CASE CacheGet(r)
  BY <1>1, <1>2, QuietStep DEF CacheGet
<1>3. CASE CacheGetFails(r)
  BY <1>3, QuietStep DEF CacheGetFails
<1>4. CASE Compute(r)
  BY <1>1, <1>4, QuietStep DEF Compute
<1>5. CASE CacheSet(r)
  <2>1. /\ cached' = [live |-> TRUE, version |-> fill[r].version, ttl |-> CacheTTL]
        /\ raced' = fill[r].late /\ UNCHANGED <<data, deleting>>
        /\ fill[r].pc = "store" /\ FillTo(r, "done", fill[r].version)
    BY <1>5 DEF CacheSet, Cached
  <2>2. fill' \in [Fills -> FillStates] /\ HandsFresh'
    BY <1>1, <2>1, FillStep
  <2>3. cached' \in Responses /\ raced' \in BOOLEAN
    BY <1>1, <2>1, CacheTTLAssumption DEF Responses
  <2>4. FreshUnlessRaced'
    BY <1>1, <2>1 DEF CacheInv, HandsFresh, FreshUnlessRaced
  <2> QED
    BY <2>1, <2>2, <2>3, <2>4 DEF CacheInv, CacheTypeOK
<1>6. CASE CacheSetFails(r)
  BY <1>1, <1>6, QuietStep DEF CacheSetFails
<1>7. CASE Ask(r)
  BY <1>7, QuietStep DEF Ask
<1> QED
  BY <1>2, <1>3, <1>4, <1>5, <1>6, <1>7

\* After a Delete, done or failed, the requests that are about to store know.
LEMMA LateTypes ==
    ASSUME CacheTypeOK, AllLate
    PROVE  /\ fill' \in [Fills -> FillStates]
           /\ \A r \in Fills : fill'[r].pc = "store" => fill'[r].late
  BY DEF CacheTypeOK, AllLate, FillStates

\* The steps of the owner of the data, and of Redis.
LEMMA OtherSteps ==
    ASSUME CacheInv, Change \/ CacheDelete \/ CacheDeleteFails \/ CacheTick
    PROVE  CacheInv'
<1> USE DEF CacheInv
<1>1. CASE Change
  BY <1>1, MaxVersionAssumption DEF Change, CacheTypeOK, HandsFresh, FreshUnlessRaced
<1>2. CASE CacheDelete
  <2>1. /\ cached' = [live |-> FALSE, version |-> 0, ttl |-> 0]
        /\ deleting' = FALSE /\ raced' = FALSE /\ AllLate /\ UNCHANGED data
    BY <1>2 DEF CacheDelete, Purged, NoResponse
  <2>2. cached' \in Responses /\ ~cached'.live
    BY <2>1 DEF Responses
  <2> QED
    BY <2>1, <2>2, LateTypes DEF CacheTypeOK, HandsFresh, FreshUnlessRaced
<1>3. CASE CacheDeleteFails
  BY <1>3, LateTypes DEF CacheDeleteFails, CacheTypeOK, HandsFresh, FreshUnlessRaced
<1>4. CASE CacheTick
  <2>1. /\ cached' \in Responses
        /\ cached'.live => cached.live /\ cached'.version = cached.version
    <3>1. CASE cached.ttl = 1
      BY <1>4, <3>1 DEF CacheTick, NoResponse, Responses
    <3>2. CASE cached.ttl # 1
      BY <1>4, <3>2 DEF CacheTick, CacheTypeOK, Responses
    <3> QED
      BY <3>1, <3>2
  <2> QED
    BY <1>4, <2>1 DEF CacheTick, CacheTypeOK, HandsFresh, FreshUnlessRaced
<1> QED
  BY <1>1, <1>2, <1>3, <1>4

\* The invariant holds in every state: CacheStore's Get, Set and Delete from any
\* number of requests, whatever fails.
THEOREM CacheInvariance == CacheSpec => []CacheInv
<1>1. CacheInit => CacheInv
  BY CacheStart
<1>2. CacheInv /\ [CacheNext]_cacheVars => CacheInv'
  <2>1. ASSUME CacheInv, CacheNext PROVE CacheInv'
    BY <2>1, RequestSteps, OtherSteps DEF CacheNext
  <2>2. ASSUME CacheInv, UNCHANGED cacheVars PROVE CacheInv'
    BY <2>2 DEF CacheInv, CacheTypeOK, HandsFresh, FreshUnlessRaced, cacheVars
  <2> QED
    BY <2>1, <2>2
<1> QED
  BY <1>1, <1>2, PTL DEF CacheSpec

\* A response in the cache is older than the data only while the Delete is due,
\* or after it failed or was overtaken: for every number of requests, every TTL
\* and every number of changes.
THEOREM FreshHolds == CacheSpec => []FreshUnlessRaced
<1>1. CacheInv => FreshUnlessRaced
  BY DEF CacheInv
<1> QED
  BY <1>1, CacheInvariance, PTL

-----------------------------------------------------------------------------
(* The names in a shared Redis.                                             *)

\* The words of names.
Letters == STRING \cup {":", "lock", "token", "session", "ratelimit", "jwt", "fw", "sw", "tb"}

Names == Seq(Letters)

\* A store that is there has a prefix, and the JWT store a storage to work on.
StoresOK ==
    /\ DOMAIN stores = Packages
    /\ \A p \in BuiltPackages : stores[p].prefix \in Names
    /\ stores["jwt"].built => stores["storage"].built

\* Of two beginnings of one sequence the shorter one begins the longer one.
LEMMA ShorterBegins ==
    ASSUME NEW S, NEW a \in Seq(S), NEW b \in Seq(S), NEW c \in Seq(S), NEW d \in Seq(S),
           a \o c = b \o d, Len(a) <= Len(b)
    PROVE  IsPrefix(a, b)
<1>1. Len(a) \in Nat /\ Len(b) \in Nat /\ Len(c) \in Nat /\ Len(d) \in Nat
  BY LenProperties
<1>2. \A i \in 1 .. Len(a) : a[i] = b[i] /\ a[i] \in S /\ b[i] \in S
  <2>1. /\ \A i \in 1 .. Len(a) + Len(c) : (a \o c)[i] = IF i <= Len(a) THEN a[i] ELSE c[i - Len(a)]
        /\ \A i \in 1 .. Len(b) + Len(d) : (b \o d)[i] = IF i <= Len(b) THEN b[i] ELSE d[i - Len(b)]
    BY ConcatProperties
  <2>2. TAKE i \in 1 .. Len(a)
  <2>3. i \in 1 .. Len(b) /\ i \in 1 .. Len(a) + Len(c) /\ i \in 1 .. Len(b) + Len(d)
    BY <1>1
  <2>4. a[i] = b[i]
    BY <1>1, <2>1, <2>3
  <2> QED
    BY <2>3, <2>4, ElementOfSeq
<1>3. /\ SubSeq(a, 1, Len(a)) \in Seq(S) /\ SubSeq(b, 1, Len(a)) \in Seq(S)
      /\ Len(SubSeq(a, 1, Len(a))) = Len(a) /\ Len(SubSeq(b, 1, Len(a))) = Len(a)
      /\ \A i \in 1 .. Len(a) : SubSeq(a, 1, Len(a))[i] = a[i] /\ SubSeq(b, 1, Len(a))[i] = b[i]
  BY <1>1, <1>2, SubSeqProperties
<1>4. SubSeq(a, 1, Len(a)) = SubSeq(b, 1, Len(a))
  BY <1>2, <1>3, SeqEqual
<1> QED
  BY <1>4 DEF IsPrefix

\* If they are of one length they are the same, and so are the rests.
LEMMA SameHead ==
    ASSUME NEW S, NEW a \in Seq(S), NEW b \in Seq(S), NEW c \in Seq(S), NEW d \in Seq(S),
           a \o c = b \o d, Len(a) = Len(b)
    PROVE  a = b /\ c = d
<1>1. Len(a) \in Nat /\ Len(a) <= Len(b)
  BY LenProperties
<1>2. IsPrefix(a, b)
  BY <1>1, ShorterBegins
<1>3. SubSeq(a, 1, Len(a)) = SubSeq(b, 1, Len(b))
  BY <1>2 DEF IsPrefix
<1>4. a = b
  BY <1>3, SubSeqFull
<1> QED
  BY <1>4, ConcatSimplifications

\* Names can be put together, in any order.
Joined(a, b) == a \o b

LEMMA JoinedNames == \A a, b \in Names : Joined(a, b) \in Names
  BY ConcatProperties DEF Names, Joined

LEMMA JoinedGroups ==
    \A a, b, c \in Names : Joined(Joined(a, b), c) = Joined(a, Joined(b, c))
  BY ConcatAssociative DEF Names, Joined

\* The order that NamesOf has, and the one that WellNamed needs.
LEMMA Regrouped ==
    ASSUME NEW a \in Names, NEW b \in Names, NEW c \in Names, NEW d \in Names, NEW e \in Names
    PROVE  Joined(Joined(Joined(a, b), Joined(c, d)), e) =
             Joined(a, Joined(Joined(b, c), Joined(d, e)))
<1>1. /\ Joined(a, b) \in Names /\ Joined(c, d) \in Names /\ Joined(d, e) \in Names
      /\ Joined(c, Joined(d, e)) \in Names
  BY JoinedNames
<1> QED
  BY <1>1, JoinedGroups

\* How two names begin, and what they have in common then.
LEMMA JoinedHeads ==
    ASSUME NEW a \in Names, NEW b \in Names, NEW c \in Names, NEW d \in Names,
           Joined(a, c) = Joined(b, d)
    PROVE  /\ IsPrefix(a, b) \/ IsPrefix(b, a)
           /\ Len(a) <= Len(b) => IsPrefix(a, b)
           /\ Len(a) = Len(b) => a = b /\ c = d
<1>1. a \o c = b \o d
  BY DEF Joined
<1>2. Len(a) \in Nat /\ Len(b) \in Nat
  BY LenProperties DEF Names
<1>3. Len(a) <= Len(b) => IsPrefix(a, b)
  BY <1>1, ShorterBegins DEF Names
<1>4. Len(b) <= Len(a) => IsPrefix(b, a)
  BY <1>1, ShorterBegins DEF Names
<1>5. Len(a) = Len(b) => a = b /\ c = d
  BY <1>1, SameHead DEF Names
<1> QED
  BY <1>2, <1>3, <1>4, <1>5

LEMMA JoinedLength ==
    ASSUME NEW a \in Names, NEW b \in Names
    PROVE  Len(Joined(a, b)) = Len(a) + Len(b) /\ Len(a) \in Nat /\ Len(b) \in Nat
  BY ConcatProperties, LenProperties DEF Names, Joined

LEMMA JoinedEmpty == ASSUME NEW a \in Names PROVE Joined(a, <<>>) = a
  BY ConcatEmptySeq DEF Names, Joined

\* The separators and the words that the code puts into a name.
LEMMA WordsAreNames ==
    /\ <<>> \in Names /\ Len(<<>>) = 0
    /\ Sep \in Names /\ Len(Sep) = 1
    /\ <<":", "lock">> \in Names /\ Len(<<":", "lock">>) = 2
    /\ <<"token", ":">> \in Names /\ Len(<<"token", ":">>) = 2
    /\ <<"session", ":">> \in Names /\ Len(<<"session", ":">>) = 2
    /\ <<"ratelimit", ":">> \in Names /\ <<"jwt">> \in Names
<1>1. \A x \in Letters : <<x>> \in Seq(Letters) /\ Len(<<x>>) = 1
  OBVIOUS
<1>2. \A x, y \in Letters : <<x, y>> \in Seq(Letters) /\ Len(<<x, y>>) = 2
  OBVIOUS
<1>3. {":", "lock", "token", "session", "ratelimit", "jwt"} \subseteq Letters
  BY DEF Letters
<1> QED
  BY <1>1, <1>2, <1>3, EmptySeq DEF Names, Sep

\* Every word of a caller is one of a name.
LEMMA CallersNames ==
    /\ CallerKeys \subseteq Names
    /\ \A cfg \in UserConfigs : cfg.prefix \in Names
  BY NamesAssumption, SeqMonotonic DEF Names, Letters

-----------------------------------------------------------------------------
\* The parts of the names of a store.
LEMMA KindsAre ==
    ASSUME NEW p \in Packages
    PROVE  /\ Kinds(p) \subseteq Names
           /\ \A kind, other \in Kinds(p) : Len(kind) = Len(other)
<1>1. CASE p = "ratelimit"
  <2>1. PICK kind : Kinds(p) = {kind} /\ kind = <<AlgorithmPart(stores[p].algorithm), ":">>
    BY <1>1 DEF Kinds
  <2>2. AlgorithmPart(stores[p].algorithm) \in Letters /\ ":" \in Letters
    BY DEF AlgorithmPart, Letters
  <2>3. kind \in Names
    BY <2>1, <2>2 DEF Names
  <2> QED
    BY <2>1, <2>3
<1>2. CASE p = "jwt"
  <2>1. Kinds(p) = {Joined(Sep, <<"token", ":">>), Joined(Sep, <<"session", ":">>)}
    BY <1>2 DEF Kinds, Joined
  <2>2. ASSUME NEW word \in {<<"token", ":">>, <<"session", ":">>}
        PROVE  Joined(Sep, word) \in Names /\ Len(Joined(Sep, word)) = 3
    <3>1. word \in Names /\ Len(word) = 2 /\ Sep \in Names /\ Len(Sep) = 1
      BY WordsAreNames
    <3>2. Joined(Sep, word) \in Names
      BY <3>1, JoinedNames
    <3>3. Len(Joined(Sep, word)) = Len(Sep) + Len(word)
      BY <3>1, JoinedLength
    <3> QED
      BY <3>1, <3>2, <3>3
  <2> QED
    BY <2>1, <2>2
<1>3. CASE p \notin {"ratelimit", "jwt"}
  <2>1. Kinds(p) = {<<>>}
    BY <1>3 DEF Kinds
  <2> QED
    BY <2>1, WordsAreNames
<1> QED
  BY <1>1, <1>2, <1>3

LEMMA EndingsAre ==
    ASSUME NEW p \in Packages, NEW suffix \in Endings(p)
    PROVE  /\ suffix \in Names /\ Len(suffix) <= 2
           /\ suffix = <<>> \/ suffix = <<":", "lock">>
<1>1. suffix = <<>> \/ suffix = <<":", "lock">>
  BY DEF Endings
<1>2. CASE suffix = <<>>
  BY <1>2, WordsAreNames
<1>3. CASE suffix = <<":", "lock">>
  BY <1>3, WordsAreNames
<1> QED
  BY <1>1, <1>2, <1>3

LEMMA BeforeIs ==
    ASSUME StoresOK, NEW p \in BuiltPackages
    PROVE  /\ Before(p) \in Names /\ Prefix(p) \in Names
           /\ \E sep \in Names : Before(p) = Joined(Prefix(p), sep)
<1>1. p \in Packages /\ stores[p].prefix \in Names
  BY DEF StoresOK, BuiltPackages
<1>2. CASE p \in {"idempotency", "cache"}
  <2>1. Prefix(p) = stores[p].prefix /\ Before(p) = Separated(Prefix(p))
    BY <1>2 DEF Prefix, Before
  <2>2. CASE Prefix(p) = <<>>
    <3>1. Before(p) = <<>>
      BY <2>1, <2>2 DEF Separated
    <3> QED
      BY <1>1, <2>1, <2>2, <3>1, WordsAreNames, JoinedEmpty
  <2>3. CASE Prefix(p) # <<>>
    <3>1. Before(p) = Joined(Prefix(p), Sep)
      BY <2>1, <2>3 DEF Separated, Joined
    <3> QED
      BY <1>1, <2>1, <3>1, WordsAreNames, JoinedNames
  <2> QED
    BY <2>2, <2>3
<1>3. CASE p = "jwt"
  <2>1. "storage" \in BuiltPackages
    BY <1>3 DEF StoresOK, BuiltPackages, Packages
  <2>2. stores["storage"].prefix \in Names
    BY <2>1 DEF StoresOK
  <2>3. Before(p) = Prefix(p) /\ Prefix(p) = Joined(stores["storage"].prefix, stores["jwt"].prefix)
    BY <1>3 DEF Prefix, Before, Joined
  <2> QED
    BY <1>1, <1>3, <2>2, <2>3, JoinedNames, JoinedEmpty, WordsAreNames
<1>4. CASE p \notin {"idempotency", "cache", "jwt"}
  <2>1. Before(p) = Prefix(p) /\ Prefix(p) = stores[p].prefix
    BY <1>4 DEF Prefix, Before
  <2> QED
    BY <1>1, <2>1, JoinedEmpty, WordsAreNames
<1> QED
  BY <1>2, <1>3, <1>4

\* A name, of its four parts.
NameOf(before, kind, k, suffix) == Joined(Joined(Joined(before, kind), k), suffix)

\* It begins with the prefix of its store.
LEMMA NameBegins ==
    ASSUME StoresOK, NEW p \in BuiltPackages, NEW kind \in Kinds(p), NEW k \in CallerKeys,
           NEW suffix \in Endings(p)
    PROVE  \E rest \in Names : NameOf(Before(p), kind, k, suffix) = Joined(Prefix(p), rest)
<1>1. p \in Packages /\ kind \in Names /\ k \in Names /\ suffix \in Names
  BY KindsAre, EndingsAre, CallersNames DEF BuiltPackages
<1>2. PICK sep \in Names : Before(p) = Joined(Prefix(p), sep)
  BY BeforeIs
<1>3. Prefix(p) \in Names
  BY BeforeIs
<1>4. PICK tail \in Names : tail = Joined(kind, Joined(k, suffix))
  BY <1>1, JoinedNames
<1>5. Joined(sep, tail) \in Names
  BY JoinedNames
<1>6. /\ Joined(Prefix(p), sep) \in Names /\ Joined(k, suffix) \in Names
      /\ Joined(Joined(Prefix(p), sep), kind) \in Names
  BY <1>1, <1>3, JoinedNames
<1>7. NameOf(Before(p), kind, k, suffix) = Joined(Joined(Prefix(p), sep), tail)
  BY <1>1, <1>2, <1>4, <1>6, JoinedGroups DEF NameOf
<1>8. Joined(Joined(Prefix(p), sep), tail) = Joined(Prefix(p), Joined(sep, tail))
  BY <1>3, JoinedGroups
<1> QED
  BY <1>5, <1>7, <1>8

\* One name is one use of its store.
LEMMA OneUseOfAStore ==
    ASSUME StoresOK, WellNamed, NEW p \in BuiltPackages,
           NEW kind \in Kinds(p), NEW k \in CallerKeys, NEW suffix \in Endings(p),
           NEW other \in Kinds(p), NEW l \in CallerKeys, NEW ending \in Endings(p),
           NameOf(Before(p), kind, k, suffix) = NameOf(Before(p), other, l, ending)
    PROVE  kind = other /\ k = l /\ suffix = ending
<1>1. /\ p \in Packages /\ Before(p) \in Names
      /\ kind \in Names /\ k \in Names /\ suffix \in Names
      /\ other \in Names /\ l \in Names /\ ending \in Names
  BY KindsAre, EndingsAre, CallersNames, BeforeIs DEF BuiltPackages
<1>2. PICK head \in Names : head = Joined(Before(p), kind)
  BY <1>1, JoinedNames
<1>3. PICK head2 \in Names : head2 = Joined(Before(p), other)
  BY <1>1, JoinedNames
<1>4. Len(head) = Len(head2)
  <2>1. Len(head) = Len(Before(p)) + Len(kind)
    BY <1>1, <1>2, JoinedLength
  <2>2. Len(head2) = Len(Before(p)) + Len(other)
    BY <1>1, <1>3, JoinedLength
  <2>3. Len(kind) = Len(other)
    BY <1>1, KindsAre
  <2> QED
    BY <2>1, <2>2, <2>3
<1>5. PICK tail \in Names : tail = Joined(k, suffix)
  BY <1>1, JoinedNames
<1>6. PICK tail2 \in Names : tail2 = Joined(l, ending)
  BY <1>1, JoinedNames
<1>7. Joined(head, tail) = Joined(head2, tail2)
  BY <1>1, <1>2, <1>3, <1>5, <1>6, JoinedGroups DEF NameOf
<1>8. head = head2 /\ tail = tail2
  BY <1>4, <1>7, JoinedHeads
<1>9. kind = other
  BY <1>1, <1>2, <1>3, <1>8, JoinedHeads
<1>10. k = l /\ suffix = ending
  <2>1. \/ suffix = <<>>
        \/ suffix = <<":", "lock">>
    BY <1>1, EndingsAre
  <2>2. \/ ending = <<>>
        \/ ending = <<":", "lock">>
    BY <1>1, EndingsAre
  <2>3. CASE suffix = ending
    <3>1. Len(k) = Len(l)
      <4>1. Len(tail) = Len(k) + Len(suffix) /\ Len(k) \in Nat /\ Len(suffix) \in Nat
        BY <1>1, <1>5, JoinedLength
      <4>2. Len(tail2) = Len(l) + Len(ending) /\ Len(l) \in Nat
        BY <1>1, <1>6, JoinedLength
      <4> QED
        BY <1>8, <2>3, <4>1, <4>2
    <3> QED
      BY <1>1, <1>5, <1>6, <1>8, <2>3, <3>1, JoinedHeads
  <2>4. CASE suffix = <<>> /\ ending = <<":", "lock">>
    <3>1. k = Joined(l, <<":", "lock">>)
      BY <1>1, <1>5, <1>6, <1>8, <2>4, JoinedEmpty
    <3> QED
      BY <3>1 DEF WellNamed, Joined
  <2>5. CASE ending = <<>> /\ suffix = <<":", "lock">>
    <3>1. l = Joined(k, <<":", "lock">>)
      BY <1>1, <1>5, <1>6, <1>8, <2>5, JoinedEmpty
    <3> QED
      BY <3>1 DEF WellNamed, Joined
  <2> QED
    BY <2>1, <2>2, <2>3, <2>4, <2>5
<1> QED
  BY <1>9, <1>10

\* The JWT store's names begin with its own prefix behind that of the storage, and
\* no key of another caller of the storage does.
LEMMA TokenNamesApart ==
    ASSUME StoresOK, WellNamed, "jwt" \in BuiltPackages, "storage" \in BuiltPackages,
           NEW kind \in Kinds("storage"), NEW k \in CallerKeys, NEW suffix \in Endings("storage"),
           NEW other \in Kinds("jwt"), NEW l \in CallerKeys, NEW ending \in Endings("jwt"),
           NameOf(Before("storage"), kind, k, suffix) = NameOf(Before("jwt"), other, l, ending)
    PROVE  FALSE
<1>1. /\ k \in Names /\ suffix \in Names /\ Len(suffix) <= 2 /\ l \in Names
      /\ stores["storage"].prefix \in Names /\ stores["jwt"].prefix \in Names
  BY EndingsAre, CallersNames DEF BuiltPackages, StoresOK
<1>2. kind = <<>> /\ ending = <<>> /\ Before("storage") = stores["storage"].prefix
  BY DEF Kinds, Endings, Before
<1>3. Before("jwt") = Joined(stores["storage"].prefix, stores["jwt"].prefix)
  BY DEF Before, Joined
<1>4. PICK word \in Names : Len(word) = 2 /\ other = Joined(Sep, word)
  <2>1. other = Joined(Sep, <<"token", ":">>) \/ other = Joined(Sep, <<"session", ":">>)
    BY DEF Kinds, Joined
  <2> QED
    BY <2>1, WordsAreNames
<1>5. PICK first \in Names : first = stores["storage"].prefix
  BY <1>1
<1>6. PICK second \in Names : second = stores["jwt"].prefix
  BY <1>1
<1>7. PICK sep \in Names : sep = Sep /\ Len(sep) = 1
  BY WordsAreNames
<1>8. NameOf(Before("jwt"), other, l, ending) =
        Joined(first, Joined(Joined(second, sep), Joined(word, l)))
  <2>1. /\ Joined(first, second) \in Names /\ Joined(sep, word) \in Names
        /\ Joined(Joined(first, second), Joined(sep, word)) \in Names
        /\ Joined(Joined(Joined(first, second), Joined(sep, word)), l) \in Names
    BY <1>1, JoinedNames
  <2>2. NameOf(Before("jwt"), other, l, ending) =
          Joined(Joined(Joined(first, second), Joined(sep, word)), l)
    BY <1>2, <1>3, <1>4, <1>5, <1>6, <1>7, <2>1, JoinedEmpty DEF NameOf
  <2> QED
    BY <1>1, <2>2, Regrouped
<1>9. NameOf(Before("storage"), kind, k, suffix) = Joined(first, Joined(k, suffix))
  BY <1>1, <1>2, <1>5, JoinedEmpty, JoinedGroups DEF NameOf
<1>10. PICK tail \in Names : tail = Joined(k, suffix)
  BY <1>1, JoinedNames
<1>11. PICK begin \in Names : begin = Joined(second, sep)
  BY JoinedNames
<1>12. PICK rest \in Names : rest = Joined(word, l)
  BY <1>1, JoinedNames
<1>13. tail = Joined(begin, rest)
  <2>1. Joined(begin, rest) \in Names
    BY JoinedNames
  <2>2. Joined(first, tail) = Joined(first, Joined(begin, rest))
    BY <1>8, <1>9, <1>10, <1>11, <1>12
  <2> QED
    BY <2>1, <2>2, JoinedHeads
<1>14. Len(begin) <= Len(k)
  <2>1. Len(tail) = Len(k) + Len(suffix) /\ Len(k) \in Nat /\ Len(suffix) \in Nat
    BY <1>1, <1>10, JoinedLength
  <2>2. Len(tail) = Len(begin) + Len(rest) /\ Len(begin) \in Nat /\ Len(rest) \in Nat
    BY <1>13, JoinedLength
  <2>3. Len(rest) = Len(word) + Len(l) /\ Len(l) \in Nat
    BY <1>1, <1>12, JoinedLength
  <2> QED
    BY <1>1, <1>4, <2>1, <2>2, <2>3
<1>15. IsPrefix(begin, k)
  <2>1. k \in Names /\ suffix \in Names
    BY <1>1
  <2>2. Joined(begin, rest) = Joined(k, suffix)
    BY <1>10, <1>13
  <2> QED
    BY <1>14, <2>1, <2>2, JoinedHeads
<1> QED
  BY <1>6, <1>7, <1>11, <1>15 DEF WellNamed, Joined

\* Where the stores are as the constructors leave them, names are apart.
LEMMA NamesApartThen == ASSUME StoresOK PROVE NamesApart
<1> SUFFICES ASSUME WellNamed, NEW p \in BuiltPackages, NEW q \in BuiltPackages,
                    NEW m \in NamesOf(p), NEW n \in NamesOf(q), m.name = n.name
             PROVE  p = q /\ m.use = n.use
  BY DEF NamesApart
<1>1. PICK kind \in Kinds(p), k \in CallerKeys, suffix \in Endings(p) :
        m = [name |-> NameOf(Before(p), kind, k, suffix), use |-> <<p, kind, k, suffix>>]
  BY DEF NamesOf, NameOf, Joined
<1>2. PICK other \in Kinds(q), l \in CallerKeys, ending \in Endings(q) :
        n = [name |-> NameOf(Before(q), other, l, ending), use |-> <<q, other, l, ending>>]
  BY DEF NamesOf, NameOf, Joined
<1>3. NameOf(Before(p), kind, k, suffix) = NameOf(Before(q), other, l, ending)
  BY <1>1, <1>2
<1>4. CASE p = q
  <2>1. kind = other /\ k = l /\ suffix = ending
    BY <1>3, <1>4, OneUseOfAStore
  <2> QED
    BY <1>1, <1>2, <1>4, <2>1
<1>5. CASE p # q /\ {p, q} # {"storage", "jwt"}
  <2>1. PICK rest \in Names : NameOf(Before(p), kind, k, suffix) = Joined(Prefix(p), rest)
    BY NameBegins
  <2>2. PICK rest2 \in Names : NameOf(Before(q), other, l, ending) = Joined(Prefix(q), rest2)
    BY NameBegins
  <2>3. Prefix(p) \in Names /\ Prefix(q) \in Names
    BY BeforeIs
  <2>4. IsPrefix(Prefix(p), Prefix(q)) \/ IsPrefix(Prefix(q), Prefix(p))
    BY <1>3, <2>1, <2>2, <2>3, JoinedHeads
  <2>5. {q, p} # {"storage", "jwt"} /\ q # p
    BY <1>5
  <2> QED
    BY <1>5, <2>4, <2>5 DEF WellNamed
<1>6. CASE p = "storage" /\ q = "jwt"
  BY <1>3, <1>6, TokenNamesApart
<1>7. CASE p = "jwt" /\ q = "storage"
  BY <1>3, <1>7, TokenNamesApart
<1> QED
  BY <1>4, <1>5, <1>6, <1>7

\* A constructor leaves a store with a prefix.
LEMMA BuildStep ==
    ASSUME StoresOK, NEW p \in Packages, NEW cfg \in UserConfigs, Build(p, cfg)
    PROVE  StoresOK'
<1> DEFINE prefix == Chosen(cfg.prefix, <<>>, DefaultPrefix[p])
           algorithm == Chosen(cfg.algorithm, "", DefaultAlgorithm)
           lockTTL == LockTTLOf(p, cfg.lockTTL)
           new == [built |-> TRUE, prefix |-> prefix, algorithm |-> algorithm, lockTTL |-> lockTTL]
<1>1. Store(p, cfg) = new
  BY Zenon DEF Store
<1>2. prefix \in Names
  <2>1. cfg.prefix \in Names
    BY CallersNames
  <2>2. DefaultPrefix[p] \in Names
    BY WordsAreNames DEF DefaultPrefix, Packages
  <2> QED
    BY <2>1, <2>2 DEF Chosen
<1> HIDE DEF prefix, algorithm, lockTTL
<1>3. new.built /\ new.prefix = prefix
  OBVIOUS
<1> HIDE DEF new
<1>4. /\ stores' = [stores EXCEPT ![p] = new]
      /\ p = "jwt" => stores["storage"].built
  BY <1>1 DEF Build
<1>5. DOMAIN stores = Packages
  BY DEF StoresOK
<1>6. DOMAIN stores' = Packages /\ stores'[p] = new
      /\ \A q \in Packages : q # p => stores'[q] = stores[q]
  BY <1>4, <1>5
<1>7. \A q \in BuiltPackages' : stores'[q].prefix \in Names
  BY <1>2, <1>3, <1>6 DEF StoresOK, BuiltPackages
<1>8. stores'["jwt"].built => stores'["storage"].built
  BY <1>3, <1>4, <1>6 DEF StoresOK, Packages
<1> QED
  BY <1>6, <1>7, <1>8 DEF StoresOK

\* The invariant holds in every state of the shared Redis.
THEOREM StoresInvariance == SharedSpec => []StoresOK
<1>1. SharedInit => StoresOK
  <2> SUFFICES ASSUME SharedInit PROVE StoresOK
    OBVIOUS
  <2>1. DOMAIN stores = Packages /\ \A p \in Packages : ~stores[p].built
    BY DEF SharedInit, NoStore
  <2> QED
    BY <2>1 DEF StoresOK, BuiltPackages, Packages
<1>2. ASSUME StoresOK, [SharedNext]_sharedVars PROVE StoresOK'
  <2>1. ASSUME NEW p \in Packages, NEW cfg \in UserConfigs, Build(p, cfg) PROVE StoresOK'
    BY <1>2, <2>1, BuildStep
  <2>2. ASSUME NEW p \in Packages, CloseStore(p) PROVE StoresOK'
    BY <1>2, <2>2 DEF CloseStore, StoresOK, BuiltPackages
  <2>3. CASE UNCHANGED sharedVars
    BY <1>2, <2>3 DEF sharedVars, StoresOK, BuiltPackages
  <2> QED
    BY <1>2, <2>1, <2>2, <2>3 DEF SharedNext
<1> QED
  BY <1>1, <1>2, PTL DEF SharedSpec

\* No two uses meet in one name where WellNamed is kept, for all keys and prefixes
\* of callers, and every order of constructors and Close.
THEOREM NamesApartHolds == SharedSpec => []NamesApart
<1>1. StoresOK => NamesApart
  BY NamesApartThen
<1> QED
  BY <1>1, StoresInvariance, PTL
=============================================================================
