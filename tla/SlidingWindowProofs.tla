------------------------ MODULE SlidingWindowProofs ------------------------
(***************************************************************************)
(* Theorems about SlidingWindow, for every number of callers, rate, window *)
(* and set of environments, and their proofs.                              *)
(***************************************************************************)
EXTENDS SlidingWindow, SumTheorems, FiniteSetTheorems, FunctionTheorems, TLAPS

Typed == TypeOK /\ IsFiniteSet(zset)

MissingHasNoTTL == Count = 0 => ttl = NoTTL

IInv ==
    /\ Typed
    /\ EntriesBounded
    /\ MissingHasNoTTL
    /\ KeyExpires

-----------------------------------------------------------------------------
\* A key's TTL is at least a tick.
LEMMA KeyTTLPositive == KeyTTL \in Nat /\ KeyTTL >= 1
<1>1. CASE Window < Second
  BY <1>1, TimeAssumption, SecondAssumption DEF KeyTTL
<1>2. CASE ~(Window < Second)
  <2>1. Window % Second \in 0 .. Second - 1
    BY TimeAssumption, SecondAssumption
  <2> QED
    BY <1>2, <2>1, TimeAssumption, SecondAssumption DEF KeyTTL
<1> QED
  BY <1>1, <1>2

\* A set of numbers below a bound has a largest one.
LEMMA MaxExists ==
    ASSUME NEW b \in Nat, NEW S \in SUBSET (0 .. b), S # {}
    PROVE  Max(S) \in S /\ \A y \in S : y <= Max(S)
<1> DEFINE T == {b - x : x \in S}
<1>1. T \subseteq Nat /\ T # {}
  <2>1. \A x \in S : b - x \in Nat
    OBVIOUS
  <2>2. PICK x \in S : TRUE
    OBVIOUS
  <2> QED
    BY <2>1, <2>2
<1>2. PICK m \in T : \A y \in T : ~(<<y, m>> \in OpToRel(<, Nat))
  <2>1. \E x \in T : \A y \in T : ~(<<y, x>> \in OpToRel(<, Nat))
    BY <1>1, NatLessThanWellFounded, WFMin
  <2> QED
    BY <2>1
<1>3. PICK x \in S : m = b - x
  OBVIOUS
<1>4. \A y \in S : x >= y
  <2> SUFFICES ASSUME NEW y \in S, ~(x >= y) PROVE FALSE
    OBVIOUS
  <2>1. b - y \in T /\ b - y \in Nat /\ m \in Nat /\ b - y < m
    BY <1>1, <1>3
  <2> QED
    BY <1>2, <2>1 DEF OpToRel
<1> QED
  BY <1>4 DEF Max

LEMMA CountFacts ==
    ASSUME TypeOK, IsFiniteSet(zset)
    PROVE  /\ Cardinality(zset) \in Nat
           /\ stale \in Nat
           /\ Count \in Nat
           /\ Count = 0 <=> zset = {} /\ stale = 0
<1>1. Cardinality(zset) \in Nat /\ (Cardinality(zset) = 0 <=> zset = {})
  BY FS_CardinalityType, FS_EmptySet
<1> QED
  BY <1>1 DEF Count, TypeOK

LEMMA AtZAddFinite == IsFiniteSet(AtZAdd) /\ IsFiniteSet(AtZAdd')
<1>1. AtZAdd \in SUBSET Callers /\ AtZAdd' \in SUBSET Callers
  BY DEF AtZAdd
<1> QED
  BY <1>1, CallersAssumption, FS_Subset

\* The reset time of a refusal is a number.
LEMMA ResetType ==
    ASSUME TypeOK, IsFiniteSet(zset), NEW c \in Callers
    PROVE  ResetOf(c) \in Int
<1>1. Window \in Int /\ MaxAge \in Int /\ MaxAge >= 1 /\ call[c].age \in Int
  BY TimeAssumption, BoundAssumption DEF TypeOK, Calls, MaxAge
<1>2. CASE zset = {} \/ stale > 0
  <2>1. Count = 0 \/ stale > 0
    BY <1>2, CountFacts DEF TypeOK
  <2> QED
    BY <1>1, <2>1 DEF ResetOf
<1>3. CASE zset # {}
  <2> DEFINE S == {e.age : e \in zset}
  <2>1. S \subseteq 0 .. MaxAge - 1 /\ S # {} /\ MaxAge - 1 \in Nat
    BY <1>1, <1>3 DEF TypeOK, Entries
  <2>2. Max(S) \in S
    BY <2>1, MaxExists
  <2>3. Max(S) \in Int
    BY <1>1, <2>1, <2>2
  <2> QED
    BY <1>1, <2>3 DEF ResetOf
<1> QED
  BY <1>2, <1>3, CountFacts

\* A call that returns, or goes on, leaves the types of what it changes.
LEMMA ReturnType ==
    ASSUME TypeOK, NEW c \in Callers, NEW r \in Replies, Return(c, r)
    PROVE  call' \in [Callers -> Calls] /\ reply' = r /\ recent' \in [0 .. Window - 1 -> Nat]
<1>1. call[c] \in Calls
  BY DEF TypeOK
<1>2. Idle(IF call[c].age = 0 THEN call[c].nano ELSE 0) \in Calls
  BY <1>1, BoundAssumption DEF Idle, Calls
<1>3. call' \in [Callers -> Calls]
  BY <1>2 DEF Return, TypeOK
<1>4. recent' \in [0 .. Window - 1 -> Nat]
  <2>1. CASE r.verdict = "allowed" /\ call[c].age < Window
    <3>1. call[c].age \in 0 .. Window - 1
      BY <1>1, <2>1, TimeAssumption DEF Calls
    <3>2. recent' = [recent EXCEPT ![call[c].age] = @ + 1]
      BY <2>1 DEF Return
    <3> QED
      BY <3>1, <3>2 DEF TypeOK
  <2>2. CASE ~(r.verdict = "allowed" /\ call[c].age < Window)
    BY <2>2 DEF Return, TypeOK
  <2> QED
    BY <2>1, <2>2
<1> QED
  BY <1>3, <1>4 DEF Return

LEMMA ProceedType ==
    ASSUME TypeOK, NEW c \in Callers,
           NEW pc \in {"zrem", "zcard", "zrange", "zadd", "expire"}, Proceed(c, pc)
    PROVE  call' \in [Callers -> Calls] /\ reply' \in Replies /\ recent' \in [0 .. Window - 1 -> Nat]
<1>1. [call[c] EXCEPT !.pc = pc] \in Calls
  BY DEF TypeOK, Calls
<1>2. call' = [call EXCEPT ![c] = [call[c] EXCEPT !.pc = pc]]
  BY DEF Proceed
<1>3. call' \in [Callers -> Calls]
  BY <1>1, <1>2 DEF TypeOK
<1> QED
  BY <1>3 DEF Proceed, TypeOK, NoReply, Replies

LEMMA ReplyTypes ==
    ASSUME TypeOK, IsFiniteSet(zset), NEW c \in Callers
    PROVE  /\ Allow(c) \in Replies
           /\ FailOpen(c) \in Replies
           /\ Deny(c) \in Replies
           /\ [verdict |-> "denied", reset |-> Window - call[c].age] \in Replies
<1>1. Window - call[c].age \in Int
  BY TimeAssumption DEF TypeOK, Calls
<1> QED
  BY <1>1, ResetType DEF Allow, FailOpen, Deny, Replies

LEMMA EntryType ==
    ASSUME TypeOK, NEW c \in Callers, call[c].pc = "zadd"
    PROVE  Entry(c) \in Entries
BY TimeAssumption, BoundAssumption DEF TypeOK, Calls, Entry, Entries, MaxAge

\* Ageing the entries of a key keeps their number: two of them never become
\* one, and those that grow stale are counted.
LEMMA AgeingKeepsCount ==
    ASSUME TypeOK, IsFiniteSet(zset)
    PROVE  LET aged == {Aged(e) : e \in Young}
           IN  /\ aged \subseteq Entries
               /\ IsFiniteSet(aged)
               /\ Cardinality(zset \ Young) \in Nat
               /\ Cardinality(aged) + Cardinality(zset \ Young) = Cardinality(zset)
<1> DEFINE aged == {Aged(e) : e \in Young}
           f == [e \in Young |-> Aged(e)]
<1>1. Young \subseteq zset /\ IsFiniteSet(Young)
  <2>1. Young \in SUBSET zset
    BY DEF Young
  <2> QED
    BY <2>1, FS_Subset
<1>2. \A e \in Young : Aged(e) \in Entries /\ e \in Entries
  BY TimeAssumption, BoundAssumption DEF Young, Aged, Entries, TypeOK, MaxAge
<1>3. \A d, e \in Young : Aged(d) = Aged(e) => d = e
  <2> SUFFICES ASSUME NEW d \in Young, NEW e \in Young, Aged(d) = Aged(e)
               PROVE  d = e
    OBVIOUS
  <2>1. d \in Entries /\ e \in Entries
    BY <1>2
  <2>2. /\ Aged(d).age = d.age + 1 /\ Aged(d).nano = d.nano
        /\ Aged(e).age = e.age + 1 /\ Aged(e).nano = e.nano
    BY <2>1 DEF Aged, Entries
  <2>3. d.age = e.age /\ d.nano = e.nano
    BY <2>1, <2>2 DEF Entries
  <2> QED
    BY <2>1, <2>3 DEF Entries
<1>4. f \in Bijection(Young, aged)
  BY <1>3, Fun_IsBij
<1>5. IsFiniteSet(aged) /\ Cardinality(aged) = Cardinality(Young)
  BY <1>1, <1>4, FS_Bijection DEF ExistsBijection
<1>6. Cardinality(zset \ Young) = Cardinality(zset) - Cardinality(Young)
  <2>1. zset \cap Young = Young
    BY <1>1
  <2> QED
    BY <2>1, FS_Difference
<1>7. Cardinality(zset) \in Nat /\ Cardinality(Young) \in Nat /\ Cardinality(zset \ Young) \in Nat
  BY <1>1, FS_CardinalityType, FS_Difference
<1> QED
  BY <1>2, <1>5, <1>6, <1>7

-----------------------------------------------------------------------------
\* One step keeps types, and the sorted set finite.
LEMMA TypeStep == Typed /\ [Next]_vars => Typed'
<1> SUFFICES ASSUME TypeOK, IsFiniteSet(zset), [Next]_vars
             PROVE  TypeOK' /\ IsFiniteSet(zset')
  BY DEF Typed
<1>1. ASSUME NEW c \in Callers, Begin(c) PROVE TypeOK' /\ IsFiniteSet(zset')
  <2>1. PICK nano \in call[c].nano + 1 .. Nanos :
          call' = [call EXCEPT ![c] = [pc |-> "zrem", age |-> 0, nano |-> nano]]
    BY <1>1 DEF Begin
  <2>2. [pc |-> "zrem", age |-> 0, nano |-> nano] \in Calls
    BY BoundAssumption DEF TypeOK, Calls
  <2>3. call' \in [Callers -> Calls]
    BY <2>1, <2>2 DEF TypeOK
  <2> QED
    BY <1>1, <2>3 DEF Begin, TypeOK, NoReply, Replies
<1>2. ASSUME NEW c \in Callers, ZRem(c) PROVE TypeOK' /\ IsFiniteSet(zset')
  <2>1. zset' \in SUBSET zset
    BY <1>2 DEF ZRem
  <2>2. IsFiniteSet(zset')
    BY <2>1, FS_Subset
  <2> QED
    BY <1>2, <2>1, <2>2, ProceedType DEF ZRem, TypeOK
<1>3. ASSUME NEW c \in Callers, ZCard(c) PROVE TypeOK' /\ IsFiniteSet(zset')
  BY <1>3, ProceedType DEF ZCard, TypeOK
<1>4. ASSUME NEW c \in Callers, ZRange(c) PROVE TypeOK' /\ IsFiniteSet(zset')
  BY <1>4, ReturnType, ReplyTypes DEF ZRange, TypeOK
<1>5. ASSUME NEW c \in Callers, ZAdd(c) PROVE TypeOK' /\ IsFiniteSet(zset')
  <2>1. Entry(c) \in Entries
    BY <1>5, EntryType DEF ZAdd
  <2> QED
    BY <1>5, <2>1, ProceedType, FS_AddElement DEF ZAdd, TypeOK
<1>6. ASSUME NEW c \in Callers, Expire(c) PROVE TypeOK' /\ IsFiniteSet(zset')
  <2>1. ttl' \in {NoTTL} \cup 1 .. KeyTTL
    BY <1>6, KeyTTLPositive DEF Expire, NewTTL
  <2> QED
    BY <1>6, <2>1, ReturnType, ReplyTypes DEF Expire, TypeOK
<1>7. ASSUME Tick PROVE TypeOK' /\ IsFiniteSet(zset')
  <2>1. call' \in [Callers -> Calls]
    <3>1. ASSUME NEW c \in Callers, call[c].pc # "idle"
          PROVE  Aged(call[c]) \in Calls
      <4>1. call[c] \in Calls /\ call[c].age < MaxDelay
        BY <1>7, <3>1 DEF Tick, TypeOK
      <4> QED
        BY <4>1, BoundAssumption DEF Calls, Aged
    <3>2. Idle(0) \in Calls
      BY BoundAssumption DEF Idle, Calls
    <3> QED
      BY <1>7, <3>1, <3>2 DEF Tick
  <2>2. /\ zset' \subseteq Entries /\ IsFiniteSet(zset')
        /\ stale' \in Nat
    <3>1. CASE ttl = 1
      BY <1>7, <3>1, FS_EmptySet DEF Tick
    <3>2. CASE ttl # 1
      <4>1. zset' = {Aged(e) : e \in Young} /\ stale' = stale + Cardinality(zset \ Young)
        BY <1>7, <3>2 DEF Tick
      <4> QED
        BY <4>1, AgeingKeepsCount DEF TypeOK
    <3> QED
      BY <3>1, <3>2
  <2>3. ttl' \in {NoTTL} \cup 1 .. KeyTTL
    <3>1. CASE ttl \in {NoTTL, 1}
      BY <1>7, <3>1 DEF Tick
    <3>2. CASE ttl \in 2 .. KeyTTL
      BY <1>7, <3>2, KeyTTLPositive DEF Tick, NoTTL
    <3> QED
      BY <3>1, <3>2, KeyTTLPositive DEF TypeOK
  <2>4. recent' \in [0 .. Window - 1 -> Nat]
    BY <1>7, TimeAssumption DEF Tick, TypeOK
  <2> QED
    BY <1>7, <2>1, <2>2, <2>3, <2>4 DEF Tick, TypeOK, NoReply, Replies
<1>8. ASSUME NEW c \in Callers, ZRemFails(c) PROVE TypeOK' /\ IsFiniteSet(zset')
  BY <1>8, ProceedType DEF ZRemFails, TypeOK
<1>9. ASSUME NEW c \in Callers, ZCardFails(c) PROVE TypeOK' /\ IsFiniteSet(zset')
  BY <1>9, ReturnType, ReplyTypes DEF ZCardFails, TypeOK
<1>10. ASSUME NEW c \in Callers, ZAddFails(c) PROVE TypeOK' /\ IsFiniteSet(zset')
  <2>1. Entry(c) \in Entries
    BY <1>10, EntryType DEF ZAddFails
  <2>2. zset' \subseteq Entries /\ IsFiniteSet(zset')
    BY <1>10, <2>1, FS_AddElement DEF ZAddFails, TypeOK
  <2> QED
    BY <1>10, <2>2, ReturnType, ReplyTypes DEF ZAddFails, TypeOK
<1>11. ASSUME NEW c \in Callers, LastFails(c) PROVE TypeOK' /\ IsFiniteSet(zset')
  BY <1>11, ReturnType, ReplyTypes DEF LastFails, TypeOK
<1>12. ASSUME NEW c \in Callers, Crash(c) PROVE TypeOK' /\ IsFiniteSet(zset')
  <2>1. Idle(IF call[c].age = 0 THEN call[c].nano ELSE 0) \in Calls
    BY BoundAssumption DEF Idle, Calls, TypeOK
  <2>2. call' \in [Callers -> Calls]
    BY <1>12, <2>1 DEF Crash, TypeOK
  <2> QED
    BY <1>12, <2>2 DEF Crash, TypeOK, NoReply, Replies
<1>13. CASE UNCHANGED vars
  BY <1>13 DEF vars, TypeOK
<1> QED
  BY <1>1, <1>2, <1>3, <1>4, <1>5, <1>6, <1>7, <1>8, <1>9, <1>10, <1>11, <1>12, <1>13
  DEF Next, Step, Fault

LEMMA TypeInit == Init => Typed
<1>1. Init => IsFiniteSet(zset)
  BY FS_EmptySet DEF Init
<1>2. Init => TypeOK
  BY TimeAssumption, BoundAssumption, EnvAssumption
  DEF Init, TypeOK, Idle, Calls, NoReply, Replies, NoTTL
<1> QED
  BY <1>1, <1>2 DEF Typed

\* Values keep their types: above all, the sorted set stays a set of entries
\* with a TTL of at most KeyTTL.
THEOREM TypeCorrectness == Spec => []TypeOK
<1>1. Typed => TypeOK
  BY DEF Typed
<1> QED
  BY <1>1, TypeInit, TypeStep, PTL DEF Spec

-----------------------------------------------------------------------------
\* Which callers are about to add, after the calls have changed.
LEMMA AtZAddAfter ==
    ASSUME TypeOK, NEW c \in Callers, NEW cc \in Calls,
           call' = [call EXCEPT ![c] = cc]
    PROVE  AtZAdd' = IF cc.pc = "zadd" THEN AtZAdd \cup {c} ELSE AtZAdd \ {c}
BY DEF TypeOK, AtZAdd

\* The bound on entries survives a step of a caller that gives up an add it
\* was about to make for each entry it creates.
LEMMA BoundKept ==
    ASSUME TypeOK, TypeOK', IsFiniteSet(zset), IsFiniteSet(zset'), EntriesBounded,
           Count' <= Count, AtZAdd' \subseteq AtZAdd
    PROVE  EntriesBounded'
<1>1. Cardinality(AtZAdd') <= Cardinality(AtZAdd)
  BY AtZAddFinite, FS_Subset
<1>2. Cardinality(AtZAdd) \in Nat /\ Cardinality(AtZAdd') \in Nat /\ Cardinality(Callers) \in Nat
  BY AtZAddFinite, CallersAssumption, FS_CardinalityType
<1>3. Count \in Nat /\ Count' \in Nat
  BY CountFacts, FS_CardinalityType DEF Count, TypeOK
<1> QED
  BY <1>1, <1>2, <1>3, RateAssumption DEF EntriesBounded

LEMMA BoundKeptByAdd ==
    ASSUME TypeOK, TypeOK', IsFiniteSet(zset), IsFiniteSet(zset'), EntriesBounded,
           NEW c \in AtZAdd, AtZAdd' = AtZAdd \ {c}, Count' <= Count + 1
    PROVE  EntriesBounded'
<1>1. Cardinality(AtZAdd') = Cardinality(AtZAdd) - 1
  BY AtZAddFinite, FS_RemoveElement
<1>2. Cardinality(AtZAdd) \in Nat /\ Cardinality(AtZAdd') \in Nat /\ Cardinality(Callers) \in Nat
  BY AtZAddFinite, CallersAssumption, FS_CardinalityType
<1>3. Count \in Nat /\ Count' \in Nat
  BY CountFacts, FS_CardinalityType DEF Count, TypeOK
<1> QED
  BY <1>1, <1>2, <1>3, RateAssumption DEF EntriesBounded

\* One step keeps the inductive invariant.
LEMMA InvStep == IInv /\ [Next]_vars => IInv'
<1> SUFFICES ASSUME IInv, [Next]_vars PROVE IInv'
  OBVIOUS
<1>0. /\ TypeOK /\ IsFiniteSet(zset) /\ TypeOK' /\ IsFiniteSet(zset')
      /\ Typed' /\ EntriesBounded /\ MissingHasNoTTL /\ KeyExpires
  BY TypeStep DEF IInv, Typed
<1> DEFINE Rest == EntriesBounded /\ MissingHasNoTTL /\ KeyExpires
<1>1. /\ Count \in Nat /\ Cardinality(zset) \in Nat /\ stale \in Nat
      /\ call \in [Callers -> Calls]
      /\ \A c \in Callers : call[c] \in Calls
  BY <1>0, CountFacts DEF TypeOK
<1>2. Count' \in Nat /\ Cardinality(zset') \in Nat /\ stale' \in Nat
  BY <1>0, FS_CardinalityType DEF Count, TypeOK
<1>3. ASSUME NEW c \in Callers, NEW pc \in {"zrem", "zcard", "zrange", "expire"},
             Proceed(c, pc)
      PROVE  /\ AtZAdd' = AtZAdd \ {c} /\ call'[c].pc = pc
             /\ \A d \in Callers \ {c} : call'[d] = call[d]
  <2>1. [call[c] EXCEPT !.pc = pc] \in Calls /\ [call[c] EXCEPT !.pc = pc].pc = pc
    BY <1>1 DEF Calls
  <2>2. call' = [call EXCEPT ![c] = [call[c] EXCEPT !.pc = pc]]
    BY <1>3 DEF Proceed
  <2> QED
    BY <1>0, <1>1, <2>1, <2>2, AtZAddAfter
<1>4. ASSUME NEW c \in Callers, NEW r, Return(c, r) \/ Crash(c)
      PROVE  /\ AtZAdd' = AtZAdd \ {c}
             /\ \A d \in Callers \ {c} : call'[d] = call[d]
  <2> DEFINE idle == Idle(IF call[c].age = 0 THEN call[c].nano ELSE 0)
  <2>1. idle \in Calls /\ idle.pc = "idle"
    BY <1>1, BoundAssumption DEF Idle, Calls
  <2>2. call' = [call EXCEPT ![c] = idle]
    BY <1>4 DEF Return, Crash
  <2> QED
    BY <1>0, <1>1, <2>1, <2>2, AtZAddAfter
<1>5. ASSUME env' = env, Count' > 0 /\ ttl' = NoTTL => Count > 0 /\ ttl = NoTTL,
             NEW c \in Callers, call[c].pc # "expire",
             \A d \in Callers \ {c} : call'[d] = call[d]
      PROVE  KeyExpires'
  BY <1>0, <1>5 DEF KeyExpires
<1>6. ASSUME NEW c \in Callers, Begin(c) PROVE Rest'
  <2>1. PICK nano \in call[c].nano + 1 .. Nanos :
          call' = [call EXCEPT ![c] = [pc |-> "zrem", age |-> 0, nano |-> nano]]
    BY <1>6 DEF Begin
  <2>2. [pc |-> "zrem", age |-> 0, nano |-> nano] \in Calls
    BY <1>1, BoundAssumption DEF Calls
  <2>3. AtZAdd' \subseteq AtZAdd
    BY <1>0, <2>1, <2>2, AtZAddAfter
  <2>4. \A d \in Callers \ {c} : call'[d] = call[d]
    BY <1>1, <2>1
  <2>5. Count' = Count /\ ttl' = ttl /\ env' = env /\ call[c].pc # "expire"
    BY <1>6 DEF Begin, Count
  <2>6. EntriesBounded'
    BY <1>0, <1>1, <2>3, <2>5, BoundKept
  <2>7. KeyExpires'
    BY <1>5, <2>4, <2>5
  <2> QED
    BY <1>0, <2>5, <2>6, <2>7 DEF MissingHasNoTTL
<1>7. ASSUME NEW c \in Callers, ZRem(c) PROVE Rest'
  <2>1. /\ zset' \in SUBSET zset /\ stale' = 0 /\ env' = env
        /\ ttl' = IF zset' = {} THEN NoTTL ELSE ttl
        /\ call[c].pc = "zrem" /\ Proceed(c, "zcard")
    BY <1>7 DEF ZRem
  <2>2. Count' = Cardinality(zset') /\ Count' <= Count
    <3>1. Cardinality(zset') <= Cardinality(zset)
      BY <1>0, <2>1, FS_Subset
    <3> QED
      BY <1>1, <1>2, <2>1, <3>1 DEF Count
  <2>3. AtZAdd' \subseteq AtZAdd /\ \A d \in Callers \ {c} : call'[d] = call[d]
    BY <1>3, <2>1
  <2>4. Count' = 0 <=> zset' = {}
    BY <1>0, <2>2, FS_EmptySet
  <2>5. EntriesBounded'
    BY <1>0, <2>2, <2>3, BoundKept
  <2>6. MissingHasNoTTL'
    BY <2>1, <2>4 DEF MissingHasNoTTL
  <2>7. KeyExpires'
    <3>1. Count' > 0 /\ ttl' = NoTTL => Count > 0 /\ ttl = NoTTL
      BY <1>1, <1>2, <2>1, <2>2, <2>4
    <3> QED
      BY <1>5, <2>1, <2>3, <3>1
  <2> QED
    BY <2>5, <2>6, <2>7
<1>8. ASSUME NEW c \in Callers, ZCard(c) PROVE Rest'
  <2>1. /\ zset' = zset /\ stale' = stale /\ ttl' = ttl /\ env' = env
        /\ call[c].pc = "zcard"
        /\ Proceed(c, IF Full(Count) THEN "zrange" ELSE "zadd")
    BY <1>8 DEF ZCard
  <2>2. Count' = Count
    BY <2>1 DEF Count
  <2>3. CASE Full(Count)
    <3>1. AtZAdd' \subseteq AtZAdd /\ \A d \in Callers \ {c} : call'[d] = call[d]
      BY <1>3, <2>1, <2>3
    <3>2. EntriesBounded'
      BY <1>0, <1>1, <2>2, <3>1, BoundKept
    <3> QED
      BY <1>0, <1>5, <2>1, <2>2, <3>1, <3>2 DEF MissingHasNoTTL
  <2>4. CASE ~Full(Count)
    <3>1. Count <= Rate - 1
      BY <1>1, <2>4, RateAssumption DEF Full
    <3>2. Cardinality(AtZAdd') <= Cardinality(Callers)
      <4>1. AtZAdd' \in SUBSET Callers
        BY DEF AtZAdd
      <4> QED
        BY <4>1, CallersAssumption, FS_Subset
    <3>3. Cardinality(AtZAdd') \in Nat /\ Cardinality(Callers) \in Nat
      BY AtZAddFinite, CallersAssumption, FS_CardinalityType
    <3>4. EntriesBounded'
      BY <1>1, <2>2, <3>1, <3>2, <3>3, RateAssumption DEF EntriesBounded
    <3>5. \A d \in Callers \ {c} : call'[d] = call[d]
      BY <1>1, <2>1, <2>4 DEF Proceed
    <3> QED
      BY <1>0, <1>5, <2>1, <2>2, <3>4, <3>5 DEF MissingHasNoTTL
  <2> QED
    BY <2>3, <2>4
<1>9. ASSUME NEW c \in Callers, ZRange(c) PROVE Rest'
  <2>1. /\ zset' = zset /\ stale' = stale /\ ttl' = ttl /\ env' = env
        /\ call[c].pc = "zrange" /\ Return(c, Deny(c))
    BY <1>9 DEF ZRange
  <2>2. Count' = Count
    BY <2>1 DEF Count
  <2>3. AtZAdd' \subseteq AtZAdd /\ \A d \in Callers \ {c} : call'[d] = call[d]
    BY <1>4, <2>1
  <2>4. EntriesBounded'
    BY <1>0, <1>1, <2>2, <2>3, BoundKept
  <2> QED
    BY <1>0, <1>5, <2>1, <2>2, <2>3, <2>4 DEF MissingHasNoTTL
<1>10. ASSUME NEW c \in Callers, zset' \in {zset, zset \cup {Entry(c)}}, stale' = stale
       PROVE  Count' >= Count /\ Count' <= Count + 1
  <2>1. Cardinality(zset') \in {Cardinality(zset), Cardinality(zset) + 1}
    BY <1>0, <1>10, FS_AddElement
  <2> QED
    BY <1>1, <1>2, <1>10, <2>1 DEF Count
<1>11. ASSUME NEW c \in Callers, ZAdd(c) PROVE Rest'
  <2>1. /\ zset' = zset \cup {Entry(c)} /\ stale' = stale /\ ttl' = ttl /\ env' = env
        /\ call[c].pc = "zadd" /\ Proceed(c, "expire")
    BY <1>11 DEF ZAdd
  <2>2. Count' >= Count /\ Count' <= Count + 1
    BY <1>10, <2>1
  <2>3. AtZAdd' = AtZAdd \ {c} /\ call'[c].pc = "expire" /\ c \in AtZAdd
    BY <1>3, <2>1 DEF AtZAdd
  <2>4. EntriesBounded'
    BY <1>0, <2>2, <2>3, BoundKeptByAdd
  <2>5. MissingHasNoTTL'
    BY <1>0, <1>1, <1>2, <2>1, <2>2 DEF MissingHasNoTTL
  <2> QED
    BY <2>3, <2>4, <2>5 DEF KeyExpires
<1>12. ASSUME NEW c \in Callers, Expire(c) PROVE Rest'
  <2>1. /\ zset' = zset /\ stale' = stale
        /\ ttl' = IF Count = 0 THEN NoTTL ELSE KeyTTL
        /\ Return(c, Allow(c))
    BY <1>12 DEF Expire, NewTTL
  <2>2. Count' = Count
    BY <2>1 DEF Count
  <2>3. AtZAdd' \subseteq AtZAdd
    BY <1>4, <2>1
  <2>4. EntriesBounded'
    BY <1>0, <1>1, <2>2, <2>3, BoundKept
  <2> QED
    BY <1>1, <2>1, <2>2, <2>4, KeyTTLPositive DEF MissingHasNoTTL, KeyExpires, NoTTL
<1>13. ASSUME Tick PROVE Rest'
  <2>1. \A d \in Callers : call'[d].pc = call[d].pc
    BY <1>1, <1>13 DEF Tick, Idle, Aged, Calls
  <2>2. AtZAdd' = AtZAdd
    BY <2>1 DEF AtZAdd
  <2>3. CASE ttl = 1
    <3>1. zset' = {} /\ stale' = 0 /\ ttl' = NoTTL
      BY <1>13, <2>3 DEF Tick
    <3>2. Count' = 0
      BY <3>1, FS_EmptySet DEF Count
    <3>3. EntriesBounded'
      BY <1>0, <1>1, <2>2, <3>2, BoundKept
    <3> QED
      BY <3>1, <3>2, <3>3 DEF MissingHasNoTTL, KeyExpires
  <2>4. CASE ttl # 1
    <3>1. zset' = {Aged(e) : e \in Young} /\ stale' = stale + Cardinality(zset \ Young)
      BY <1>13, <2>4 DEF Tick
    <3>2. Cardinality(zset') + Cardinality(zset \ Young) = Cardinality(zset)
      BY <1>0, <3>1, AgeingKeepsCount
    <3>3. Cardinality(zset \ Young) \in Nat
      BY <1>0, AgeingKeepsCount
    <3>4. Count' = Count
      BY <1>1, <1>2, <3>1, <3>2, <3>3 DEF Count
    <3>5. EntriesBounded'
      BY <1>0, <1>1, <2>2, <3>4, BoundKept
    <3>6. ttl' = NoTTL <=> ttl = NoTTL
      BY <1>0, <1>13, <2>4, KeyTTLPositive DEF Tick, TypeOK, NoTTL
    <3>7. env' = env
      BY <1>13 DEF Tick
    <3> QED
      BY <1>0, <2>1, <3>4, <3>5, <3>6, <3>7 DEF MissingHasNoTTL, KeyExpires
  <2> QED
    BY <2>3, <2>4
<1>14. ASSUME NEW c \in Callers, Fault(c) PROVE Rest'
  <2>1. env' = "faulty" /\ ttl' = ttl /\ stale' = stale
    BY <1>14 DEF Fault, ZRemFails, ZCardFails, ZAddFails, LastFails, Crash
  <2>2. CASE zset' = zset
    <3>1. Count' = Count
      BY <2>1, <2>2 DEF Count
    <3>2. AtZAdd' \subseteq AtZAdd
      <4>1. CASE ZRemFails(c)
        BY <1>3, <4>1 DEF ZRemFails
      <4>2. CASE ZCardFails(c) \/ ZAddFails(c) \/ LastFails(c) \/ Crash(c)
        BY <1>4, <4>2 DEF ZCardFails, ZAddFails, LastFails
      <4> QED
        BY <1>14, <4>1, <4>2 DEF Fault
    <3>3. EntriesBounded'
      BY <1>0, <1>1, <3>1, <3>2, BoundKept
    <3> QED
      BY <1>0, <2>1, <3>1, <3>3 DEF MissingHasNoTTL, KeyExpires
  <2>3. CASE zset' # zset
    <3>1. ZAddFails(c)
      BY <1>14, <2>3 DEF Fault, ZRemFails, ZCardFails, LastFails, Crash
    <3>2. Count' >= Count /\ Count' <= Count + 1
      BY <1>10, <2>1, <3>1 DEF ZAddFails
    <3>3. AtZAdd' = AtZAdd \ {c} /\ c \in AtZAdd
      BY <1>4, <3>1 DEF ZAddFails, AtZAdd
    <3>4. EntriesBounded'
      BY <1>0, <3>2, <3>3, BoundKeptByAdd
    <3> QED
      BY <1>0, <1>1, <1>2, <2>1, <3>2, <3>4 DEF MissingHasNoTTL, KeyExpires
  <2> QED
    BY <2>2, <2>3
<1>15. CASE UNCHANGED vars
  <2>1. Count' = Count /\ ttl' = ttl /\ env' = env /\ call' = call
    BY <1>15 DEF vars, Count
  <2>2. AtZAdd' = AtZAdd
    BY <2>1 DEF AtZAdd
  <2>3. EntriesBounded'
    BY <1>0, <1>1, <2>1, <2>2, BoundKept
  <2>4. Rest'
    BY <1>0, <2>1, <2>3 DEF MissingHasNoTTL, KeyExpires
  <2> QED
    BY <1>0, <2>4 DEF IInv
<1> QED
  BY <1>0, <1>6, <1>7, <1>8, <1>9, <1>11, <1>12, <1>13, <1>14, <1>15
  DEF Next, Step, IInv

LEMMA InvInit == Init => IInv
<1> SUFFICES ASSUME Init PROVE IInv
  OBVIOUS
<1>1. Count = 0 /\ AtZAdd = {} /\ ttl = NoTTL
  BY FS_EmptySet DEF Init, Count, AtZAdd, Idle
<1>2. Cardinality(Callers) \in Nat /\ Cardinality(Callers) >= 1
  BY CallersAssumption, FS_CardinalityType, FS_EmptySet
<1>3. EntriesBounded
  BY <1>1, <1>2, FS_EmptySet, RateAssumption DEF EntriesBounded
<1> QED
  BY <1>1, <1>3, TypeInit DEF IInv, MissingHasNoTTL, KeyExpires

LEMMA InductiveInvariant == Spec => []IInv
BY InvInit, InvStep, PTL DEF Spec

\* Whatever fails and however callers interleave, the sorted set exceeds the
\* rate by no more than the callers that can be between their count and add.
THEOREM EntryBound == Spec => []EntriesBounded
<1>1. IInv => EntriesBounded
  BY DEF IInv
<1> QED
  BY <1>1, InductiveInvariant, PTL

\* As long as nothing fails, no limiter key is left without a TTL.
THEOREM NoLeakedKey == Spec => []KeyExpires
<1>1. IInv => KeyExpires
  BY DEF IInv
<1> QED
  BY <1>1, InductiveInvariant, PTL

-----------------------------------------------------------------------------
(* In a calm environment the limit is kept.                                 *)

\* The window is a whole number of seconds, or below one: a key outlives the
\* entries that count.
WholeWindow == KeyTTL >= Window

Busy == {c \in Callers : call[c].pc # "idle"}
AtExpire == {c \in Callers : call[c].pc = "expire"}

\* The entry of a request that is not admitted yet.
Pending == IF AtExpire = {} THEN 0 ELSE 1

\* The entries of the last b ticks.
Younger(b) == {e \in zset : e.age < b}

OneAtATime ==
    /\ \A c, d \in Busy : c = d
    /\ \A c \in Callers : call[c].age = 0

\* No entry has the instant of a request that has none yet.
NewInstants ==
    \A e \in zset : e.age = 0 =>
        /\ \E d \in Callers : e.nano <= call[d].nano
        /\ \A c \in Callers :
             call[c].pc \in {"zrem", "zcard", "zadd"} => e.nano < call[c].nano

\* After its ZREMRANGEBYSCORE a call sees only entries that count.
Trimmed ==
    \A c \in Callers : call[c].pc \in {"zcard", "zadd", "zrange", "expire"} =>
        stale = 0 /\ \A e \in zset : e.age < Window

\* The requests admitted in the last ticks are the entries of that age.
Counted ==
    \A b \in 1 .. Window : SumBelow(recent, b) + Pending = Cardinality(Younger(b))

\* A key lives until KeyTTL ticks after its last entry, or longer.
KeptLong == AtExpire = {} /\ ttl # NoTTL => \A e \in zset : e.age + ttl >= KeyTTL

\* What a call found when it counted is still so.
StillSo ==
    \A c \in Callers :
        /\ call[c].pc = "zadd" => Cardinality(zset) < Rate
        /\ call[c].pc = "zrange" => Cardinality(zset) >= Rate
        /\ call[c].pc = "expire" => Cardinality(zset) <= Rate

Within == SumBelow(recent, Window) <= Rate

RefusalRight ==
    reply.verdict = "denied" =>
        /\ SumBelow(recent, Window) = Rate
        /\ reply.reset =
             Min({k \in 1 .. Window : SumBelow(recent, Window - k) < Rate})

CalmInv ==
    /\ OneAtATime
    /\ NewInstants
    /\ Trimmed
    /\ Counted
    /\ KeptLong
    /\ StillSo
    /\ Within
    /\ RefusalRight

\* The types that the proofs below use.
LEMMA CalmTypes ==
    ASSUME Typed
    PROVE  /\ Window \in Nat \ {0} /\ Rate \in Nat \ {0} /\ KeyTTL \in Nat /\ KeyTTL >= 1
           /\ recent \in [0 .. Window - 1 -> Nat]
           /\ \A b \in 0 .. Window : SumBelow(recent, b) \in Nat
           /\ zset \subseteq Entries /\ IsFiniteSet(zset) /\ Cardinality(zset) \in Nat
           /\ \A e \in zset : e.age \in Nat /\ e.nano \in Nat
           /\ \A b : Cardinality(Younger(b)) \in Nat /\ IsFiniteSet(Younger(b))
           /\ \A c \in Callers : call[c] \in Calls
<1>1. Window \in Nat \ {0} /\ Rate \in Nat \ {0} /\ KeyTTL \in Nat /\ KeyTTL >= 1
  BY TimeAssumption, RateAssumption, KeyTTLPositive
<1>2. recent \in [0 .. Window - 1 -> Nat] /\ zset \subseteq Entries /\ IsFiniteSet(zset)
  BY DEF Typed, TypeOK
<1>3. \A b \in 0 .. Window : SumBelow(recent, b) \in Nat
  BY <1>1, <1>2, SumBelowNext
<1>4. \A b : Cardinality(Younger(b)) \in Nat /\ IsFiniteSet(Younger(b))
  <2>1. ASSUME NEW b PROVE Cardinality(Younger(b)) \in Nat /\ IsFiniteSet(Younger(b))
    <3>1. Younger(b) \in SUBSET zset
      BY DEF Younger
    <3> QED
      BY <1>2, <3>1, FS_Subset, FS_CardinalityType
  <2> QED
    BY <2>1
<1>5. \A e \in zset : e.age \in Nat /\ e.nano \in Nat
  BY <1>2 DEF Entries
<1>6. Cardinality(zset) \in Nat
  BY <1>2, FS_CardinalityType
<1>7. \A c \in Callers : call[c] \in Calls
  BY DEF Typed, TypeOK
<1> QED
  BY <1>1, <1>2, <1>3, <1>4, <1>5, <1>6, <1>7

\* A call goes on, or returns; it keeps its instant.
Moves(c, pc) ==
    \A d \in Callers :
        /\ call'[d].age = call[d].age
        /\ call'[d].nano = call[d].nano
        /\ call'[d].pc = IF d = c THEN pc ELSE call[d].pc

LEMMA ProceedMoves ==
    ASSUME Typed, NEW c \in Callers, NEW pc, Proceed(c, pc)
    PROVE  Moves(c, pc)
BY CalmTypes DEF Proceed, Moves, Calls, Typed, TypeOK

LEMMA ReturnMoves ==
    ASSUME Typed, OneAtATime, NEW c \in Callers, NEW r, Return(c, r)
    PROVE  Moves(c, "idle")
<1>1. call' = [call EXCEPT ![c] = Idle(call[c].nano)]
  BY DEF Return, OneAtATime
<1>2. call[c].age = 0 /\ call \in [Callers -> Calls]
  BY DEF OneAtATime, Typed, TypeOK
<1> QED
  BY <1>1, <1>2 DEF Moves, Idle

\* After a step of a call the others are idle, as they were before.
LEMMA MovesOrder ==
    ASSUME OneAtATime, NEW c \in Callers, call[c].pc # "idle", NEW pc, Moves(c, pc)
    PROVE  /\ OneAtATime'
           /\ call'[c].pc = pc
           /\ \A d \in Callers : call'[d].pc # "idle" => d = c
           /\ AtExpire' = IF pc = "expire" THEN {c} ELSE {}
           /\ call[c].pc # "expire" => AtExpire = {}
           /\ call[c].pc = "expire" => AtExpire = {c}
<1>1. \A d \in Callers : call[d].pc # "idle" => d = c
  BY DEF OneAtATime, Busy
<1>2. \A d \in Callers : call'[d].pc # "idle" => d = c
  BY <1>1 DEF Moves
<1>3. OneAtATime'
  BY <1>2 DEF Moves, OneAtATime, Busy
<1>4. call'[c].pc = pc
  BY DEF Moves
<1>5. AtExpire' = IF pc = "expire" THEN {c} ELSE {}
  BY <1>2, <1>4 DEF AtExpire
<1>6. /\ call[c].pc # "expire" => AtExpire = {}
      /\ call[c].pc = "expire" => AtExpire = {c}
  BY <1>1 DEF AtExpire
<1> QED
  BY <1>2, <1>3, <1>4, <1>5, <1>6

LEMMA CalmBegin ==
    ASSUME Typed, CalmInv, env = "calm", NEW c \in Callers, Begin(c)
    PROVE  CalmInv'
<1>1. PICK nano \in call[c].nano + 1 .. Nanos :
        /\ \A d \in Callers : call[d].pc = "idle" /\ call[d].nano < nano
        /\ call' = [call EXCEPT ![c] = [pc |-> "zrem", age |-> 0, nano |-> nano]]
  BY DEF Begin
<1>2. /\ UNCHANGED <<env, zset, stale, ttl, recent>> /\ reply' = NoReply
      /\ call \in [Callers -> Calls]
  BY DEF Begin, Typed, TypeOK
<1>3. \A d \in Callers : call'[d] = IF d = c THEN [pc |-> "zrem", age |-> 0, nano |-> nano]
                                    ELSE call[d]
  BY <1>1, <1>2
<1>4. AtExpire = {} /\ AtExpire' = {}
  BY <1>1, <1>3 DEF AtExpire
<1>5. OneAtATime'
  BY <1>1, <1>3 DEF CalmInv, OneAtATime, Busy
<1>6. NewInstants'
  <2>1. SUFFICES ASSUME NEW e \in zset, e.age = 0
                 PROVE  /\ \E d \in Callers : e.nano <= call'[d].nano
                        /\ \A d \in Callers :
                             call'[d].pc \in {"zrem", "zcard", "zadd"} => e.nano < call'[d].nano
    BY <1>2 DEF NewInstants
  <2>2. PICK d \in Callers : e.nano <= call[d].nano
    BY <2>1 DEF CalmInv, NewInstants
  <2>3. e.nano < nano
    <3>1. call[d].nano < nano /\ call[d].nano \in Nat /\ e.nano \in Nat /\ nano \in Int
      BY <1>1, CalmTypes, BoundAssumption DEF Calls
    <3> QED
      BY <2>2, <3>1
  <2>4. e.nano <= call'[c].nano
    <3>1. e.nano \in Nat /\ nano \in Int /\ call'[c].nano = nano
      BY <1>1, <1>3, CalmTypes, BoundAssumption DEF Calls
    <3> QED
      BY <2>3, <3>1
  <2>5. \A a \in Callers : call'[a].pc \in {"zrem", "zcard", "zadd"} => e.nano < call'[a].nano
    BY <1>1, <1>3, <2>3
  <2> QED
    BY <2>4, <2>5
<1>7. Trimmed' /\ StillSo'
  BY <1>1, <1>3 DEF Trimmed, StillSo
<1>8. Counted'
  BY <1>2, <1>4 DEF CalmInv, Counted, SumBelow, Pending, Younger
<1>9. KeptLong'
  BY <1>2, <1>4 DEF CalmInv, KeptLong
<1>10. Within'
  BY <1>2 DEF CalmInv, Within, SumBelow
<1>11. RefusalRight'
  BY <1>2 DEF RefusalRight, NoReply
<1> QED
  BY <1>5, <1>6, <1>7, <1>8, <1>9, <1>10, <1>11 DEF CalmInv

LEMMA CalmZRem ==
    ASSUME Typed, CalmInv, NEW c \in Callers, ZRem(c)
    PROVE  CalmInv'
<1>1. /\ call[c].pc = "zrem" /\ call[c].age = 0 /\ OneAtATime /\ Moves(c, "zcard")
      /\ recent' = recent /\ reply' = NoReply /\ stale' = 0
  BY ProceedMoves DEF ZRem, Proceed, CalmInv, OneAtATime
<1>2. zset' = {e \in zset : e.age < Window}
  BY <1>1, CalmTypes DEF ZRem, OutOfWindow
<1>3. /\ OneAtATime' /\ call'[c].pc = "zcard"
      /\ \A d \in Callers : call'[d].pc # "idle" => d = c
      /\ AtExpire = {} /\ AtExpire' = {}
  BY <1>1, MovesOrder
<1>4. NewInstants'
  BY <1>1, <1>2, <1>3 DEF CalmInv, NewInstants, Moves
<1>5. Trimmed' /\ StillSo'
  BY <1>1, <1>2, <1>3 DEF Trimmed, StillSo
<1>6. Counted'
  <2>1. ASSUME NEW b \in 1 .. Window PROVE Younger(b)' = Younger(b)
    BY <1>2, CalmTypes DEF Younger
  <2> QED
    BY <1>1, <1>3, <2>1 DEF CalmInv, Counted, SumBelow, Pending
<1>7. KeptLong'
  <2>1. ttl' = NoTTL \/ ttl' = ttl
    BY DEF ZRem
  <2> QED
    BY <1>2, <1>3, <2>1 DEF CalmInv, KeptLong, NoTTL, KeyTTL
<1>8. Within'
  BY <1>1 DEF CalmInv, Within, SumBelow
<1>9. RefusalRight'
  BY <1>1 DEF RefusalRight, NoReply
<1> QED
  BY <1>3, <1>4, <1>5, <1>6, <1>7, <1>8, <1>9 DEF CalmInv

LEMMA CalmZCard ==
    ASSUME Typed, CalmInv, NEW c \in Callers, ZCard(c)
    PROVE  CalmInv'
<1> DEFINE pc == IF Full(Count) THEN "zrange" ELSE "zadd"
<1>1. /\ call[c].pc = "zcard" /\ OneAtATime /\ Moves(c, pc)
      /\ recent' = recent /\ reply' = NoReply /\ stale' = stale /\ zset' = zset /\ ttl' = ttl
  BY ProceedMoves DEF ZCard, Proceed, CalmInv
<1>2. /\ OneAtATime' /\ call'[c].pc = pc
      /\ \A d \in Callers : call'[d].pc # "idle" => d = c
      /\ AtExpire = {} /\ AtExpire' = {}
  BY <1>1, MovesOrder
<1>3. stale = 0 /\ \A e \in zset : e.age < Window
  BY <1>1 DEF CalmInv, Trimmed
<1>4. NewInstants'
  BY <1>1, <1>2 DEF CalmInv, NewInstants, Moves
<1>5. Trimmed'
  BY <1>1, <1>3 DEF Trimmed
<1>6. StillSo'
  <2>1. Count = Cardinality(zset)
    BY <1>3, CalmTypes DEF Count
  <2>2. /\ pc = "zadd" => Cardinality(zset) < Rate
        /\ pc = "zrange" => Cardinality(zset) >= Rate
        /\ pc # "expire" /\ pc # "idle"
    BY <2>1, CalmTypes DEF Full
  <2> HIDE DEF pc
  <2> QED
    BY <1>1, <1>2, <2>2 DEF StillSo
<1>7. Counted'
  BY <1>1, <1>2 DEF CalmInv, Counted, SumBelow, Pending, Younger
<1>8. KeptLong'
  BY <1>1, <1>2 DEF CalmInv, KeptLong
<1>9. Within'
  BY <1>1 DEF CalmInv, Within, SumBelow
<1>10. RefusalRight'
  BY <1>1 DEF RefusalRight, NoReply
<1> QED
  BY <1>2, <1>4, <1>5, <1>6, <1>7, <1>8, <1>9, <1>10 DEF CalmInv

\* What is refused: the window is full, and the oldest entry leaves it first.
LEMMA FullWindow ==
    ASSUME Typed, CalmInv, NEW c \in Callers, call[c].pc = "zrange"
    PROVE  /\ SumBelow(recent, Window) = Rate
           /\ ResetOf(c) = Min({k \in 1 .. Window : SumBelow(recent, Window - k) < Rate})
<1>1. /\ stale = 0 /\ \A e \in zset : e.age < Window
      /\ Cardinality(zset) >= Rate /\ SumBelow(recent, Window) <= Rate
  BY DEF CalmInv, Trimmed, StillSo, Within
<1>2. AtExpire = {} /\ Pending = 0
  BY DEF CalmInv, OneAtATime, Busy, AtExpire, Pending
<1>3. \A b \in 1 .. Window : SumBelow(recent, b) = Cardinality(Younger(b))
  <2>1. ASSUME NEW b \in 1 .. Window PROVE SumBelow(recent, b) = Cardinality(Younger(b))
    <3>1. SumBelow(recent, b) + 0 = Cardinality(Younger(b)) /\ b \in 0 .. Window
      BY <1>2 DEF CalmInv, Counted
    <3>2. SumBelow(recent, b) \in Nat
      BY <3>1, CalmTypes
    <3> QED
      BY <3>1, <3>2
  <2> QED
    BY <2>1
<1>4. Younger(Window) = zset /\ Window \in 1 .. Window /\ Window \in 0 .. Window
  BY <1>1, CalmTypes DEF Younger
<1>5. SumBelow(recent, Window) = Rate /\ Cardinality(zset) = Rate
  <2>1. SumBelow(recent, Window) = Cardinality(zset)
    BY <1>3, <1>4
  <2> QED
    BY <1>1, <2>1, CalmTypes
<1> DEFINE ages == {e.age : e \in zset}
           M == Max(ages)
<1>6. ages \in SUBSET (0 .. Window - 1) /\ Window - 1 \in Nat
  BY <1>1, CalmTypes
<1>7. zset # {}
  BY <1>5, FS_EmptySet, RateAssumption
<1>8. M \in ages /\ M \in 0 .. Window - 1 /\ \A a \in ages : a <= M
  <2> HIDE DEF ages
  <2>1. ages # {}
    BY <1>7 DEF ages
  <2> QED
    BY <1>6, <2>1, MaxExists
<1> HIDE DEF M
<1>9. PICK o \in zset : o.age = M
  BY <1>8
<1>10. \A e \in zset : e.age <= M
  BY <1>8
<1>11. ResetOf(c) = Window - M
  <2>1. Count # 0
    BY <1>1, <1>5, CalmTypes DEF Count
  <2> QED
    BY <1>1, <2>1 DEF ResetOf, M
<1> DEFINE ks == {k \in 1 .. Window : SumBelow(recent, Window - k) < Rate}
<1>12. Window - M \in ks
  <2>1. Window - M \in 1 .. Window /\ Window - (Window - M) = M
    BY <1>8, CalmTypes
  <2>2. SumBelow(recent, M) < Rate
    <3>1. CASE M = 0
      <4>1. SumBelow(recent, 0) = 0
        BY CalmTypes, SumBelowNext
      <4> QED
        BY <3>1, <4>1, CalmTypes
    <3>2. CASE M # 0
      <4>1. SumBelow(recent, M) = Cardinality(Younger(M))
        <5>1. M \in 1 .. Window
          BY <1>8, <3>2, CalmTypes
        <5> QED
          BY <1>3, <5>1
      <4>2. Younger(M) \in SUBSET (zset \ {o})
        BY <1>8, <1>9 DEF Younger
      <4>3. IsFiniteSet(zset \ {o}) /\ Cardinality(zset \ {o}) = Rate - 1
        BY <1>5, CalmTypes, FS_RemoveElement
      <4>4. Cardinality(Younger(M)) <= Rate - 1
        BY <4>2, <4>3, FS_Subset
      <4> QED
        BY <4>1, <4>4, CalmTypes
    <3> QED
      BY <3>1, <3>2
  <2> QED
    BY <2>1, <2>2
<1>13. ASSUME NEW k \in ks PROVE Window - M <= k
  <2>1. SUFFICES ASSUME Window - k > M PROVE FALSE
    BY <1>8, CalmTypes
  <2>2. Window - k \in 1 .. Window
    BY <1>8, <2>1, CalmTypes
  <2>3. Younger(Window - k) = zset
    <3>1. \A e \in zset : e.age < Window - k
      BY <1>8, <1>10, <2>1, <2>2, CalmTypes
    <3> QED
      BY <3>1 DEF Younger
  <2>4. SumBelow(recent, Window - k) = Rate
    BY <1>3, <1>5, <2>2, <2>3
  <2>5. SumBelow(recent, Window - k) < Rate
    OBVIOUS
  <2> QED
    BY <2>4, <2>5, CalmTypes
<1>14. Min(ks) = Window - M
  <2>1. ks \subseteq Int /\ Window - M \in Int
    BY <1>8, CalmTypes
  <2> DEFINE m == Min(ks)
  <2> HIDE DEF ks
  <2>2. m \in ks /\ \A y \in ks : m <= y
    BY <1>12, <1>13 DEF Min
  <2>3. m <= Window - M /\ Window - M <= m /\ m \in Int
    BY <1>12, <1>13, <2>1, <2>2
  <2> HIDE DEF m
  <2>4. m = Window - M
    BY <2>1, <2>3
  <2> QED
    BY <2>4 DEF m
<1> QED
  BY <1>5, <1>11, <1>14

LEMMA CalmZRange ==
    ASSUME Typed, CalmInv, NEW c \in Callers, ZRange(c)
    PROVE  CalmInv'
<1>1. /\ call[c].pc = "zrange" /\ OneAtATime /\ Moves(c, "idle")
      /\ recent' = recent /\ reply' = Deny(c)
      /\ stale' = stale /\ zset' = zset /\ ttl' = ttl
  BY ReturnMoves DEF ZRange, Return, Deny, CalmInv
<1>2. /\ OneAtATime'
      /\ \A d \in Callers : call'[d].pc = "idle"
      /\ AtExpire = {} /\ AtExpire' = {}
  BY <1>1, MovesOrder
<1>3. NewInstants'
  BY <1>1, <1>2 DEF CalmInv, NewInstants, Moves
<1>4. Trimmed' /\ StillSo'
  BY <1>2 DEF Trimmed, StillSo
<1>5. Counted'
  BY <1>1, <1>2 DEF CalmInv, Counted, SumBelow, Pending, Younger
<1>6. KeptLong'
  BY <1>1, <1>2 DEF CalmInv, KeptLong
<1>7. Within'
  BY <1>1 DEF CalmInv, Within, SumBelow
<1>8. RefusalRight'
  BY <1>1, FullWindow DEF RefusalRight, Deny, SumBelow
<1> QED
  BY <1>2, <1>3, <1>4, <1>5, <1>6, <1>7, <1>8 DEF CalmInv

LEMMA CalmZAdd ==
    ASSUME Typed, CalmInv, NEW c \in Callers, ZAdd(c)
    PROVE  CalmInv'
<1> DEFINE new == Entry(c)
<1>1. /\ call[c].pc = "zadd" /\ OneAtATime /\ Moves(c, "expire")
      /\ recent' = recent /\ reply' = NoReply /\ stale' = stale
      /\ zset' = zset \cup {new}
  BY ProceedMoves DEF ZAdd, Proceed, CalmInv
<1>2. /\ OneAtATime' /\ call'[c].pc = "expire"
      /\ \A d \in Callers : call'[d].pc # "idle" => d = c
      /\ AtExpire = {} /\ AtExpire' = {c}
  BY <1>1, MovesOrder
<1>3. new.age = 0 /\ new.nano = call[c].nano
  BY DEF Entry, CalmInv, OneAtATime
<1>4. new \notin zset
  <2>1. SUFFICES ASSUME new \in zset PROVE FALSE
    OBVIOUS
  <2>2. new.nano < call[c].nano
    BY <1>1, <1>3, <2>1 DEF CalmInv, NewInstants
  <2>3. call[c].nano \in Nat
    BY CalmTypes DEF Calls
  <2> HIDE DEF new
  <2> QED
    BY <1>3, <2>2, <2>3
<1>5. stale = 0 /\ (\A e \in zset : e.age < Window) /\ Cardinality(zset) < Rate
  BY <1>1 DEF CalmInv, Trimmed, StillSo
<1>6. call[c].nano <= call'[c].nano
  <2>1. call'[c].nano = call[c].nano /\ call[c].nano \in Nat
    BY <1>1, CalmTypes DEF Moves, Calls
  <2> QED
    BY <2>1
<1> HIDE DEF new
<1>7. NewInstants'
  <2>1. ASSUME NEW e \in zset', e.age = 0 PROVE \E d \in Callers : e.nano <= call'[d].nano
    <3>1. CASE e = new
      BY <1>3, <1>6, <3>1
    <3>2. CASE e \in zset
      BY <1>1, <2>1, <3>2 DEF CalmInv, NewInstants, Moves
    <3> QED
      BY <1>1, <2>1, <3>1, <3>2
  <2>2. \A d \in Callers : call'[d].pc \notin {"zrem", "zcard", "zadd"}
    BY <1>2
  <2> QED
    BY <2>1, <2>2 DEF NewInstants
<1>8. Trimmed'
  BY <1>1, <1>3, <1>5, CalmTypes DEF Trimmed
<1>9. StillSo'
  <2>1. Cardinality(zset') = Cardinality(zset) + 1
    BY <1>1, <1>4, CalmTypes, FS_AddElement
  <2>2. Cardinality(zset') <= Rate
    BY <1>5, <2>1, CalmTypes
  <2> QED
    BY <1>2, <2>2 DEF StillSo
<1>10. Counted'
  <2>1. ASSUME NEW b \in 1 .. Window
        PROVE  SumBelow(recent, b)' + Pending' = Cardinality(Younger(b)')
    <3>1. Younger(b)' = Younger(b) \cup {new} /\ new \notin Younger(b)
      BY <1>1, <1>3, <1>4 DEF Younger
    <3>2. Cardinality(Younger(b)') = Cardinality(Younger(b)) + 1
      BY <3>1, CalmTypes, FS_AddElement
    <3>3. SumBelow(recent, b) + 0 = Cardinality(Younger(b)) /\ b \in 0 .. Window
      BY <1>2 DEF CalmInv, Counted, Pending
    <3>4. SumBelow(recent, b)' = SumBelow(recent, b) /\ Pending' = 1
      BY <1>1, <1>2 DEF SumBelow, Pending
    <3>5. SumBelow(recent, b) \in Nat
      BY <3>3, CalmTypes
    <3> QED
      BY <3>2, <3>3, <3>4, <3>5
  <2> QED
    BY <2>1 DEF Counted
<1>11. KeptLong'
  BY <1>2 DEF KeptLong
<1>12. Within'
  BY <1>1 DEF CalmInv, Within, SumBelow
<1>13. RefusalRight'
  BY <1>1 DEF RefusalRight, NoReply
<1> QED
  BY <1>2, <1>7, <1>8, <1>9, <1>10, <1>11, <1>12, <1>13 DEF CalmInv

LEMMA CalmExpire ==
    ASSUME Typed, CalmInv, NEW c \in Callers, Expire(c), Typed'
    PROVE  CalmInv'
<1>1. /\ call[c].pc = "expire" /\ call[c].age = 0 /\ OneAtATime /\ Moves(c, "idle")
      /\ reply' = Allow(c) /\ reply'.verdict = "allowed"
      /\ stale' = stale /\ zset' = zset
  BY ReturnMoves DEF Expire, Return, Allow, CalmInv, OneAtATime
<1>2. recent' = [recent EXCEPT ![0] = @ + 1]
  BY <1>1, CalmTypes DEF Expire, Return, Allow
<1>3. /\ OneAtATime'
      /\ \A d \in Callers : call'[d].pc = "idle"
      /\ AtExpire = {c} /\ AtExpire' = {}
  BY <1>1, MovesOrder
<1>4. NewInstants'
  BY <1>1, <1>3 DEF CalmInv, NewInstants, Moves
<1>5. Trimmed' /\ StillSo'
  BY <1>3 DEF Trimmed, StillSo
<1>6. ASSUME NEW b \in 1 .. Window PROVE SumBelow(recent, b)' = Cardinality(Younger(b))
  <2>1. \A i \in 0 .. Window - 1 : recent'[i] = IF i = 0 THEN recent[0] + 1 ELSE recent[i]
    BY <1>2, CalmTypes
  <2>2. recent' \in [0 .. Window - 1 -> Nat] /\ recent \in [0 .. Window - 1 -> Nat]
    BY CalmTypes DEF Typed, TypeOK
  <2>3. Window \in Nat /\ b - 1 \in 0 .. Window - 1 /\ (b - 1) + 1 = b
    BY CalmTypes
  <2>4. SumBelow(recent', (b - 1) + 1) = SumBelow(recent, (b - 1) + 1) + 1
    BY <2>1, <2>2, <2>3, SumBelowCount
  <2>5. SumBelow(recent, b)' = SumBelow(recent', b)
    BY DEF SumBelow
  <2>6. SumBelow(recent, b) + 1 = Cardinality(Younger(b))
    BY <1>3 DEF CalmInv, Counted, Pending
  <2> QED
    BY <2>3, <2>4, <2>5, <2>6
<1>7. Counted'
  <2>1. ASSUME NEW b \in 1 .. Window
        PROVE  SumBelow(recent, b)' + Pending' = Cardinality(Younger(b)')
    <3>1. Younger(b)' = Younger(b) /\ Pending' = 0
      BY <1>1, <1>3 DEF Younger, Pending
    <3>2. Cardinality(Younger(b)) \in Nat
      BY CalmTypes
    <3> QED
      BY <1>6, <3>1, <3>2
  <2> QED
    BY <2>1 DEF Counted
<1>8. KeptLong'
  <2>1. ttl' = NoTTL \/ ttl' = KeyTTL
    BY DEF Expire, NewTTL
  <2>2. \A e \in zset : e.age + KeyTTL >= KeyTTL
    BY CalmTypes
  <2> QED
    BY <1>1, <2>1, <2>2 DEF KeptLong, NoTTL, KeyTTL
<1>9. Within'
  <2>1. Younger(Window) = zset /\ Cardinality(zset) <= Rate
    BY <1>1 DEF CalmInv, Trimmed, StillSo, Younger
  <2>2. Window \in 1 .. Window
    BY CalmTypes
  <2> QED
    BY <1>6, <2>1, <2>2 DEF Within
<1>10. RefusalRight'
  BY <1>1 DEF RefusalRight
<1> QED
  BY <1>3, <1>4, <1>5, <1>7, <1>8, <1>9, <1>10 DEF CalmInv

LEMMA CalmTick ==
    ASSUME WholeWindow, Typed, CalmInv, env = "calm", Tick
    PROVE  CalmInv'
<1>1. \A d \in Callers : call[d].pc = "idle" /\ call'[d] = Idle(0)
  BY DEF Tick
<1>2. AtExpire = {} /\ AtExpire' = {} /\ Pending = 0 /\ Pending' = 0
  BY <1>1 DEF AtExpire, Idle, Pending
<1>3. OneAtATime' /\ Trimmed' /\ StillSo'
  BY <1>1 DEF OneAtATime, Busy, Trimmed, StillSo, Idle
<1>4. /\ ttl # 1 => zset' = {Aged(e) : e \in Young}
      /\ ttl = 1 => zset' = {}
      /\ ttl' = IF ttl \in {NoTTL, 1} THEN NoTTL ELSE ttl - 1
      /\ reply' = NoReply
  BY DEF Tick
<1>5. \A e \in Young : e \in zset /\ Aged(e).age = e.age + 1 /\ Aged(e).nano = e.nano
  BY CalmTypes DEF Young, Aged, Entries
<1>6. \A e \in zset' : e.age >= 1
  BY <1>4, <1>5, CalmTypes
<1>7. NewInstants'
  BY <1>6 DEF NewInstants
<1>8. ASSUME NEW a \in 0 .. Window - 1
      PROVE  SumBelow(recent, a + 1)' = SumBelow(recent, a)
  <2>1. recent \in [0 .. Window - 1 -> Nat] /\ Window \in Nat \ {0}
    BY CalmTypes
  <2>2. /\ recent' \in [0 .. Window - 1 -> Nat]
        /\ \A i \in 0 .. Window - 1 : recent'[i] = IF i = 0 THEN 0 ELSE recent[i - 1]
    BY <2>1 DEF Tick
  <2>3. SumBelow(recent', a + 1) = SumBelow(recent, a)
    BY <2>1, <2>2, SumBelowShift
  <2>4. SumBelow(recent, a + 1)' = SumBelow(recent', a + 1)
    BY DEF SumBelow
  <2> QED
    BY <2>3, <2>4
<1>9. ASSUME NEW a \in 0 .. Window - 1 PROVE SumBelow(recent, a) = Cardinality(Younger(a))
  <2>1. CASE a = 0
    <3>1. Younger(0) = {} /\ Cardinality({}) = 0
      BY CalmTypes, FS_EmptySet DEF Younger
    <3>2. SumBelow(recent, 0) = 0
      BY CalmTypes, SumBelowNext
    <3> QED
      BY <2>1, <3>1, <3>2
  <2>2. CASE a # 0
    <3>1. a \in 1 .. Window /\ a \in 0 .. Window
      BY <2>2, CalmTypes
    <3>2. SumBelow(recent, a) + 0 = Cardinality(Younger(a))
      BY <1>2, <3>1 DEF CalmInv, Counted
    <3>3. SumBelow(recent, a) \in Nat
      BY <3>1, CalmTypes
    <3> QED
      BY <3>2, <3>3
  <2> QED
    BY <2>1, <2>2
<1>10. ASSUME NEW a \in 0 .. Window - 1
       PROVE  Cardinality(Younger(a + 1)') = Cardinality(Younger(a))
  <2>1. CASE ttl = 1
    <3>1. \A e \in zset : e.age + 1 >= KeyTTL
      BY <1>2, <2>1 DEF CalmInv, KeptLong, NoTTL
    <3>2. Younger(a) = {}
      BY <3>1, CalmTypes DEF Younger, WholeWindow
    <3>3. Younger(a + 1)' = {}
      BY <1>4, <2>1 DEF Younger
    <3> QED
      BY <3>2, <3>3
  <2>2. CASE ttl # 1
    <3> DEFINE f == [e \in Younger(a) |-> Aged(e)]
    <3>1. \A e \in zset : e.age < a <=> e \in Young /\ e.age + 1 < a + 1
      BY CalmTypes, BoundAssumption DEF Young, MaxAge
    <3>2. Younger(a + 1)' = {Aged(e) : e \in Younger(a)}
      BY <1>4, <1>5, <2>2, <3>1 DEF Younger
    <3>3. \A d, e \in Younger(a) : Aged(d) = Aged(e) => d = e
      <4> SUFFICES ASSUME NEW d \in Younger(a), NEW e \in Younger(a), Aged(d) = Aged(e)
                   PROVE  d = e
        OBVIOUS
      <4>1. d \in Entries /\ e \in Entries /\ d \in Young /\ e \in Young
        BY <3>1, CalmTypes DEF Younger
      <4>2. d.age + 1 = e.age + 1 /\ d.nano = e.nano
        BY <1>5, <4>1
      <4>3. d.age = e.age /\ d.nano = e.nano
        BY <4>1, <4>2 DEF Entries
      <4> QED
        BY <4>1, <4>3 DEF Entries
    <3>4. f \in Bijection(Younger(a), Younger(a + 1)')
      BY <3>2, <3>3, Fun_IsBij
    <3> QED
      BY <3>4, CalmTypes, FS_Bijection DEF ExistsBijection
  <2> QED
    BY <2>1, <2>2
<1>11. Counted'
  <2>1. ASSUME NEW b \in 1 .. Window
        PROVE  SumBelow(recent, b)' + Pending' = Cardinality(Younger(b)')
    <3>1. b - 1 \in 0 .. Window - 1 /\ (b - 1) + 1 = b
      BY CalmTypes
    <3>2. /\ SumBelow(recent, (b - 1) + 1)' = SumBelow(recent, b - 1)
          /\ SumBelow(recent, b - 1) = Cardinality(Younger(b - 1))
          /\ Cardinality(Younger((b - 1) + 1)') = Cardinality(Younger(b - 1))
      BY <1>8, <1>9, <1>10, <3>1
    <3>3. SumBelow(recent, b)' = Cardinality(Younger(b)') /\ Cardinality(Younger(b)') \in Nat
      BY <3>1, <3>2, CalmTypes
    <3> QED
      BY <1>2, <3>3
  <2> QED
    BY <2>1 DEF Counted
<1>12. KeptLong'
  <2>1. ASSUME ttl' # NoTTL, NEW d \in zset' PROVE d.age + ttl' >= KeyTTL
    <3>1. ttl \notin {NoTTL, 1} /\ ttl' = ttl - 1 /\ ttl \in Int
      BY <1>4, <2>1 DEF Typed, TypeOK, NoTTL
    <3>2. PICK e \in Young : d = Aged(e)
      BY <1>4, <2>1, <3>1
    <3>3. d.age = e.age + 1 /\ e.age + ttl >= KeyTTL /\ e.age \in Nat
      BY <1>2, <1>5, <3>1, <3>2, CalmTypes DEF CalmInv, KeptLong
    <3> QED
      BY <3>1, <3>3, CalmTypes
  <2> QED
    BY <2>1 DEF KeptLong, NoTTL, KeyTTL
<1>13. Within'
  <2>1. Window - 1 \in 0 .. Window - 1 /\ (Window - 1) + 1 = Window
        /\ Window - 1 \in 0 .. Window /\ Window \in Window - 1 .. Window
    BY CalmTypes
  <2>2. SumBelow(recent, (Window - 1) + 1)' = SumBelow(recent, Window - 1)
    BY <1>8, <2>1
  <2>3. SumBelow(recent, Window - 1) <= SumBelow(recent, Window)
    BY <2>1, CalmTypes, SumBelowMonotone
  <2>4. SumBelow(recent, Window) <= Rate
    BY DEF CalmInv, Within
  <2>5. SumBelow(recent, Window)' <= Rate
    <3>1. SumBelow(recent, Window)' = SumBelow(recent, Window - 1)
      BY <2>1, <2>2
    <3>2. /\ SumBelow(recent, Window - 1) \in Nat /\ SumBelow(recent, Window) \in Nat
          /\ Rate \in Nat
      BY <2>1, CalmTypes
    <3> QED
      BY <2>3, <2>4, <3>1, <3>2
  <2> QED
    BY <2>5 DEF Within
<1>14. RefusalRight'
  BY <1>4 DEF RefusalRight, NoReply
<1> QED
  BY <1>3, <1>7, <1>11, <1>12, <1>13, <1>14 DEF CalmInv

LEMMA CalmStep ==
    ASSUME WholeWindow, Typed, Typed', env = "calm" => CalmInv, [Next]_vars
    PROVE  env' = env /\ (env' = "calm" => CalmInv')
<1>1. env' = env
  BY DEF Next, Begin, Step, ZRem, ZCard, ZRange, ZAdd, Expire, Fault, ZRemFails,
         ZCardFails, ZAddFails, LastFails, Crash, Tick, vars
<1>2. ASSUME env = "calm" PROVE CalmInv'
  <2>1. CalmInv
    BY <1>2
  <2>2. ASSUME NEW c \in Callers, Begin(c) PROVE CalmInv'
    BY <1>2, <2>1, <2>2, CalmBegin
  <2>3. ASSUME NEW c \in Callers, Step(c) PROVE CalmInv'
    BY <2>1, <2>3, CalmZRem, CalmZCard, CalmZRange, CalmZAdd, CalmExpire DEF Step
  <2>4. ASSUME NEW c \in Callers PROVE ~Fault(c)
    BY <1>2 DEF Fault, ZRemFails, ZCardFails, ZAddFails, LastFails, Crash
  <2>5. CASE Tick
    BY <1>2, <2>1, <2>5, CalmTick
  <2>6. CASE UNCHANGED vars
    BY <2>1, <2>6
    DEF vars, CalmInv, OneAtATime, Busy, NewInstants, Trimmed, Counted, Pending, AtExpire,
        Younger, KeptLong, StillSo, Within, RefusalRight, SumBelow
  <2> QED
    BY <2>2, <2>3, <2>4, <2>5, <2>6 DEF Next
<1> QED
  BY <1>1, <1>2

LEMMA CalmInit == Init => CalmInv
<1> SUFFICES ASSUME Init PROVE CalmInv
  OBVIOUS
<1>1. /\ zset = {} /\ ttl = NoTTL /\ reply = NoReply
      /\ \A c \in Callers : call[c] = Idle(0)
      /\ \A i \in 0 .. Window - 1 : recent[i] = 0
  BY DEF Init
<1>2. Typed
  BY TypeInit
<1>3. OneAtATime /\ Trimmed /\ StillSo /\ NewInstants /\ KeptLong /\ RefusalRight
  BY <1>1 DEF OneAtATime, Busy, Trimmed, StillSo, NewInstants, KeptLong, RefusalRight,
              Idle, NoReply
<1>4. \A b \in 0 .. Window : SumBelow(recent, b) = 0
  BY <1>1, <1>2, CalmTypes, SumBelowNothing
<1>5. Counted
  <2>1. AtExpire = {} /\ Pending = 0
    BY <1>1 DEF AtExpire, Idle, Pending
  <2>2. \A b : Younger(b) = {}
    BY <1>1 DEF Younger
  <2>3. \A b \in 1 .. Window : SumBelow(recent, b) = 0
    BY <1>4, TimeAssumption
  <2> QED
    BY <2>1, <2>2, <2>3, FS_EmptySet DEF Counted
<1>6. Within
  <2>1. Window \in 0 .. Window /\ Rate \in Nat
    BY TimeAssumption, RateAssumption
  <2> QED
    BY <1>4, <2>1 DEF Within
<1> QED
  BY <1>3, <1>5, <1>6 DEF CalmInv

\* In a calm environment, and if the TTL cuts nothing off the window, the
\* requests admitted in its span are the entries that count.
LEMMA CalmInvariance ==
    ASSUME WholeWindow
    PROVE  Spec => [](Typed /\ (env = "calm" => CalmInv))
<1>1. Init => Typed /\ (env = "calm" => CalmInv)
  BY TypeInit, CalmInit
<1>2. Typed /\ (env = "calm" => CalmInv) /\ [Next]_vars
        => Typed' /\ (env = "calm" => CalmInv)'
  BY TypeStep, CalmStep
<1> QED
  BY <1>1, <1>2, PTL DEF Spec

LEMMA AdmittedSum == Typed => Admitted = SumBelow(recent, Window)
<1> SUFFICES ASSUME Typed PROVE Admitted = SumBelow(recent, Window)
  OBVIOUS
<1>1. DOMAIN recent = 0 .. Window - 1
  BY CalmTypes
<1> QED
  BY <1>1 DEF Admitted, SumFunction, SumBelow, SumFunctionOnSet, FoldFunction

\* No span of Window ticks sees more than Rate requests admitted, if calls do
\* not overlap and the window is whole seconds or below one.
THEOREM CalmLimit ==
    ASSUME WholeWindow
    PROVE  Spec => []CalmWindowLimit
<1>1. Typed /\ (env = "calm" => CalmInv) => CalmWindowLimit
  BY AdmittedSum DEF CalmInv, Within, CalmWindowLimit, WindowLimit
<1> QED
  BY <1>1, CalmInvariance, PTL

\* Under the same conditions a request is refused only when the window is full,
\* and is told the first instant at which it is not.
THEOREM CalmRefusalRight ==
    ASSUME WholeWindow
    PROVE  Spec => []CalmRefusal
<1>1. ASSUME Typed, env = "calm" => CalmInv PROVE CalmRefusal
  <2>1. \A k \in 1 .. Window :
          SumFunctionOnSet(recent, 0 .. Window - 1 - k) = SumBelow(recent, Window - k)
    <3>1. \A k \in 1 .. Window : 0 .. Window - 1 - k = 0 .. (Window - k) - 1
      BY TimeAssumption
    <3> QED
      BY <3>1 DEF SumBelow
  <2>2. {k \in 1 .. Window : SumFunctionOnSet(recent, 0 .. Window - 1 - k) < Rate}
          = {k \in 1 .. Window : SumBelow(recent, Window - k) < Rate}
    BY <2>1
  <2> QED
    BY <1>1, <2>2, AdmittedSum DEF CalmInv, RefusalRight, CalmRefusal
<1>2. Typed /\ (env = "calm" => CalmInv) => CalmRefusal
  BY <1>1
<1> QED
  BY <1>2, CalmInvariance, PTL
=============================================================================
