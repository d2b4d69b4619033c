------------------------- MODULE FixedWindowProofs -------------------------
(***************************************************************************)
(* Theorems about FixedWindow, for every number of callers, rate, window   *)
(* and set of faults, and their proofs.                                    *)
(***************************************************************************)
EXTENDS FixedWindow, SumTheorems, TLAPS

AtExpire == {c \in Callers : call[c].pc = "expire"}

Slots == IF counter.n < Rate THEN counter.n ELSE Rate

\* A counter has an increment for each request that it admitted.
AdmittedHaveSlots == admitted <= Slots

MissingHasNoTTL == counter.n = 0 => counter.ttl = NoTTL

\* A caller about to set the TTL sees a counter that waits for it.
ExpireOwnsCounter ==
    \A c \in AtExpire : counter.n >= 1 /\ counter.ttl = NoTTL

OneAtExpire == \A c, d \in AtExpire : c = d

\* Without faults no slot is lost, no counter is left without a TTL, and no EXPIRE
\* comes to another counter than its own.
FaultlessInv ==
    Faults = {} =>
        /\ CounterExpires
        /\ ExpireOwnsCounter
        /\ OneAtExpire
        /\ admitted = Slots
        /\ reply.verdict # "failopen"

IInv ==
    /\ TypeOK
    /\ AdmittedHaveSlots
    /\ MissingHasNoTTL
    /\ FaultlessInv

-----------------------------------------------------------------------------
\* A key's TTL is at least a tick.
LEMMA KeyTTLPositive == KeyTTL \in Nat /\ KeyTTL >= 1
<1>1. CASE Window < Second
  BY <1>1, TimeAssumption, SecondAssumption DEF KeyTTL
<1>2. CASE ~(Window < Second)
  <2>1. Window % Second \in 0 .. Second - 1
    BY TimeAssumption, SecondAssumption
  <2> QED
    BY <1>2, <2>1, TimeAssumption, SecondAssumption DEF KeyTTL
<1> QED
  BY <1>1, <1>2

\* What an answer says of the count it is computed from.
LEMMA VerdictFacts ==
    ASSUME TypeOK, NEW c \in Callers, NEW count \in Nat, count >= 1
    PROVE  /\ Verdict(c, count).verdict \in {"allowed", "denied"}
           /\ Verdict(c, count).verdict = "allowed" <=> count <= Rate
           /\ Verdict(c, count) \in Replies
<1> call[c].age \in Int /\ Window \in Int /\ Rate \in Nat \ {0}
  BY TimeAssumption, RateAssumption DEF TypeOK, Calls
<1>1. CASE count > Rate
  BY <1>1 DEF Verdict, Deny, Replies
<1>2. CASE ~(count > Rate)
  BY <1>2 DEF Verdict, Allow, Remaining, Replies
<1> QED
  BY <1>1, <1>2

\* A call that returns has the types of a call and a reply.
LEMMA ReturnType ==
    ASSUME TypeOK, NEW c \in Callers,
           NEW r \in Replies,
           Return(c, r)
    PROVE  call' \in [Callers -> Calls] /\ reply' = r
<1>1. Idle \in Calls
  BY TimeAssumption DEF Idle, Calls
<1> QED
  BY <1>1 DEF Return, TypeOK

\* A request that gets a place, or does not, leaves the types of the history.
LEMMA PlaceType ==
    ASSUME TypeOK, NEW r, Place(r)
    PROVE  admitted' \in Nat /\ recent' \in [0 .. Window - 1 -> Nat]
<1>1. CASE r.verdict = "allowed"
  <2>1. admitted' \in Nat
    BY <1>1 DEF Place, TypeOK
  <2>2. recent' = [recent EXCEPT ![0] = @ + 1]
    BY <1>1 DEF Place
  <2>3. 0 \in 0 .. Window - 1
    BY TimeAssumption
  <2>4. recent' \in [0 .. Window - 1 -> Nat]
    BY <2>2, <2>3 DEF TypeOK
  <2> QED
    BY <2>1, <2>4
<1>2. CASE r.verdict # "allowed"
  BY <1>2 DEF Place, TypeOK
<1> QED
  BY <1>1, <1>2

LEMMA FailOpenType ==
    ASSUME TypeOK, NEW c \in Callers
    PROVE  FailOpen(c) \in Replies
<1> call[c].age \in Int /\ Window \in Int /\ Rate \in Nat \ {0}
  BY TimeAssumption, RateAssumption DEF TypeOK, Calls
<1> QED
  BY DEF FailOpen, Replies

\* The same for the step after an INCR, whether or not the call goes on.
LEMMA AfterIncrType ==
    ASSUME TypeOK, NEW c \in Callers, NEW count \in Nat, count >= 1,
           AfterIncr(c, count)
    PROVE  /\ call' \in [Callers -> Calls]
           /\ reply' \in Replies
           /\ admitted' \in Nat
           /\ recent' \in [0 .. Window - 1 -> Nat]
<1>1. admitted' \in Nat /\ recent' \in [0 .. Window - 1 -> Nat]
  BY PlaceType DEF AfterIncr
<1>2. CASE FirstInWindow(count)
  <2>1. call' = [call EXCEPT ![c].pc = "expire"] /\ reply' = NoReply
    BY <1>2 DEF AfterIncr
  <2>2. call' \in [Callers -> Calls]
    BY <2>1 DEF TypeOK, Calls
  <2>3. reply' \in Replies
    BY <2>1, RateAssumption DEF NoReply, Replies
  <2> QED
    BY <1>1, <2>2, <2>3
<1>3. CASE ~FirstInWindow(count)
  <2>1. Return(c, Verdict(c, count))
    BY <1>3 DEF AfterIncr
  <2> QED
    BY <1>1, <2>1, VerdictFacts, ReturnType
<1> QED
  BY <1>2, <1>3

\* Type correctness of one step.
LEMMA TypeStep == TypeOK /\ [Next]_vars => TypeOK'
<1> SUFFICES ASSUME TypeOK, [Next]_vars PROVE TypeOK'
  OBVIOUS
<1> USE RateAssumption, TimeAssumption
<1>1. ASSUME NEW c \in Callers, Begin(c) PROVE TypeOK'
  BY <1>1 DEF Begin, TypeOK, NoReply, Calls, Replies
<1>2. ASSUME NEW c \in Callers, Incr(c) PROVE TypeOK'
  <2>1. counter.n + 1 \in Nat /\ counter.n + 1 >= 1
    BY DEF TypeOK, Counters
  <2>2. counter' \in Counters
    BY <1>2 DEF Incr, TypeOK, Counters
  <2> QED
    BY <1>2, <2>1, <2>2, AfterIncrType DEF Incr, TypeOK
<1>3. ASSUME NEW c \in Callers, IncrRetried(c) PROVE TypeOK'
  <2>1. counter.n + 2 \in Nat /\ counter.n + 2 >= 1
    BY DEF TypeOK, Counters
  <2>2. counter' \in Counters
    BY <1>3 DEF IncrRetried, TypeOK, Counters
  <2> QED
    BY <1>3, <2>1, <2>2, AfterIncrType DEF IncrRetried, TypeOK
<1>4. ASSUME NEW c \in Callers, ExpireNX(c) PROVE TypeOK'
  <2>1. counter' \in Counters
    BY <1>4, KeyTTLPositive DEF ExpireNX, SetExpiry, TypeOK, Counters
  <2> QED
    BY <1>4, <2>1, VerdictFacts, ReturnType DEF ExpireNX, TypeOK
<1>5. ASSUME NEW c \in Callers, IncrFails(c) PROVE TypeOK'
  <2>1. counter' \in Counters
    BY <1>5 DEF IncrFails, TypeOK, Counters
  <2> QED
    BY <1>5, <2>1, FailOpenType, ReturnType DEF IncrFails, TypeOK
<1>6. ASSUME NEW c \in Callers, ExpireNXFails(c) PROVE TypeOK'
  BY <1>6, VerdictFacts, ReturnType DEF ExpireNXFails, TypeOK
<1>7. ASSUME NEW c \in Callers, Crash(c) PROVE TypeOK'
  BY <1>7 DEF Crash, TypeOK, NoReply, Idle, Calls, Replies
<1>8. ASSUME Tick PROVE TypeOK'
  <2>1. counter' \in Counters
    <3>1. CASE counter.ttl = NoTTL
      BY <1>8, <3>1 DEF Tick, TypeOK
    <3>2. CASE counter.ttl = 1
      BY <1>8, <3>2 DEF Tick, TypeOK, Missing, NoTTL, Counters
    <3>3. CASE counter.ttl \in 2 .. KeyTTL
      <4>1. counter.ttl # NoTTL /\ counter.ttl # 1 /\ counter.ttl - 1 \in 1 .. KeyTTL
        BY <3>3, KeyTTLPositive DEF NoTTL
      <4>2. counter' = [counter EXCEPT !.ttl = @ - 1]
        BY <1>8, <4>1 DEF Tick
      <4> QED
        BY <4>1, <4>2 DEF TypeOK, Counters
    <3> QED
      BY <3>1, <3>2, <3>3, KeyTTLPositive DEF TypeOK, Counters
  <2>2. call' \in [Callers -> Calls]
    <3>1. ASSUME NEW c \in Callers, call[c].pc # "idle"
          PROVE  [call[c] EXCEPT !.age = @ + 1] \in Calls
      <4>1. call[c] \in Calls /\ call[c].age < MaxDelay
        BY <1>8, <3>1 DEF Tick, TypeOK
      <4> QED
        BY <4>1 DEF Calls
    <3>2. Idle \in Calls
      BY DEF Idle, Calls
    <3> QED
      BY <1>8, <3>1, <3>2 DEF Tick
  <2>3. recent' \in [0 .. Window - 1 -> Nat]
    BY <1>8 DEF Tick, TypeOK
  <2> QED
    BY <1>8, <2>1, <2>2, <2>3 DEF Tick, TypeOK, NoReply, Replies
<1>9. ASSUME NEW c \in Callers, ExpireNXRepeats(c) PROVE TypeOK'
  <2>1. counter' \in Counters
    BY <1>9, KeyTTLPositive DEF ExpireNXRepeats, SetExpiry, TypeOK, Counters
  <2> QED
    BY <1>9, <2>1 DEF ExpireNXRepeats, TypeOK, NoReply, Replies
<1>10. CASE UNCHANGED vars
  BY <1>10 DEF vars, TypeOK
<1> QED
  BY <1>1, <1>2, <1>3, <1>4, <1>5, <1>6, <1>7, <1>8, <1>9, <1>10 DEF Next, Step, Fault

LEMMA TypeInit == Init => TypeOK
BY RateAssumption, TimeAssumption DEF Init, TypeOK, Missing, Idle, NoReply, NoTTL,
  Counters, Calls, Replies

\* Values keep their types: above all, no answer announces a negative
\* remaining quota or that of an untouched window.
THEOREM TypeCorrectness == Spec => []TypeOK
BY TypeInit, TypeStep, PTL DEF Spec

-----------------------------------------------------------------------------
\* Who is about to set the TTL after the calls have changed.
LEMMA AtExpireAfterReturn ==
    ASSUME TypeOK, NEW c \in Callers, NEW r, Return(c, r)
    PROVE  AtExpire' = AtExpire \ {c}
BY DEF Return, AtExpire, TypeOK, Idle

\* An INCR, repeated or not, keeps the invariant.
LEMMA IncrKeepsInv ==
    ASSUME IInv, NEW c \in Callers, NEW k \in 1 .. 2, k = 1 \/ Faults # {},
           call[c].pc = "incr",
           counter' = [counter EXCEPT !.n = @ + k],
           AfterIncr(c, counter.n + k)
    PROVE  /\ AdmittedHaveSlots'
           /\ MissingHasNoTTL'
           /\ FaultlessInv'
<1> DEFINE n == counter.n
<1>1. /\ n \in Nat /\ admitted \in Nat /\ Rate \in Nat \ {0}
      /\ counter'.n = n + k /\ counter'.ttl = counter.ttl
      /\ c \notin AtExpire
  BY RateAssumption DEF IInv, TypeOK, Counters, AtExpire
<1>2. /\ Verdict(c, n + k).verdict \in {"allowed", "denied"}
      /\ Verdict(c, n + k).verdict = "allowed" <=> n + k <= Rate
  BY <1>1, VerdictFacts DEF IInv
<1>3. /\ n + k <= Rate => admitted' = admitted + 1 /\ Slots = n /\ Slots' = n + k
      /\ n + k > Rate => admitted' = admitted /\ Slots' = Rate /\ (k = 1 => Slots = Rate)
      /\ Slots \in Nat /\ Slots <= Rate
  BY <1>1, <1>2 DEF AfterIncr, Place, Slots
<1>4. AdmittedHaveSlots'
  BY <1>1, <1>3 DEF IInv, AdmittedHaveSlots
<1>5. MissingHasNoTTL'
  BY <1>1 DEF MissingHasNoTTL
<1>6. ASSUME Faults = {}
      PROVE  /\ CounterExpires' /\ ExpireOwnsCounter' /\ OneAtExpire'
             /\ admitted' = Slots' /\ reply'.verdict # "failopen"
  <2>1. /\ k = 1 /\ admitted = Slots
        /\ CounterExpires /\ ExpireOwnsCounter /\ OneAtExpire
    BY <1>6 DEF IInv, FaultlessInv
  <2>2. admitted' = Slots'
    BY <1>1, <1>3, <2>1
  <2>3. CASE FirstInWindow(n + k)
    <3>1. n = 0
      BY <1>1, <2>1, <2>3 DEF FirstInWindow
    <3>2. AtExpire = {} /\ counter.ttl = NoTTL
      BY <1>1, <2>1, <3>1 DEF IInv, ExpireOwnsCounter, MissingHasNoTTL
    <3>3. call' = [call EXCEPT ![c].pc = "expire"] /\ reply' = NoReply
      BY <2>3 DEF AfterIncr
    <3>4. AtExpire' = {c} /\ call'[c].pc = "expire"
      BY <3>2, <3>3 DEF AtExpire, IInv, TypeOK, Calls
    <3> QED
      BY <1>1, <2>1, <2>2, <3>1, <3>2, <3>3, <3>4
      DEF ExpireOwnsCounter, OneAtExpire, CounterExpires, NoReply
  <2>4. CASE ~FirstInWindow(n + k)
    <3>1. Return(c, Verdict(c, n + k))
      BY <2>4 DEF AfterIncr
    <3>2. AtExpire' = AtExpire
      BY <1>1, <3>1, AtExpireAfterReturn DEF IInv
    <3>3. \A d \in Callers : call'[d].pc = "expire" <=> call[d].pc = "expire"
      BY <3>2 DEF AtExpire
    <3>4. reply'.verdict # "failopen"
      BY <1>2, <3>1 DEF Return
    <3>5. n >= 1
      BY <1>1, <2>1, <2>4 DEF FirstInWindow
    <3> QED
      BY <1>1, <2>1, <2>2, <3>2, <3>3, <3>4, <3>5
      DEF ExpireOwnsCounter, OneAtExpire, CounterExpires
  <2> QED
    BY <2>3, <2>4
<1> QED
  BY <1>4, <1>5, <1>6 DEF FaultlessInv

\* What EXPIRE NX does to a counter: nothing that the invariant counts by.
LEMMA ExpiryFacts ==
    ASSUME TypeOK
    PROVE  /\ SetExpiry(counter).n = counter.n
           /\ counter.n = 0 => SetExpiry(counter) = counter
           /\ counter.n >= 1 => SetExpiry(counter).ttl # NoTTL
           /\ SetExpiry(counter).ttl \in {counter.ttl, KeyTTL}
BY KeyTTLPositive DEF SetExpiry, TypeOK, Counters, NoTTL

\* So an EXPIRE, repeated or failed, keeps the invariant; one that returns keeps
\* the part that holds without faults.
LEMMA ExpireKeepsInv ==
    ASSUME IInv, NEW c \in Callers, call[c].pc = "expire",
           counter' \in {counter, SetExpiry(counter)}, UNCHANGED admitted,
           \/ Faults # {}
           \/ Return(c, Verdict(c, 1)) /\ counter' = SetExpiry(counter)
    PROVE  /\ AdmittedHaveSlots'
           /\ MissingHasNoTTL'
           /\ FaultlessInv'
<1>1. /\ TypeOK /\ counter.n \in Nat /\ admitted \in Nat /\ Rate \in Nat \ {0}
      /\ c \in AtExpire
  BY RateAssumption DEF IInv, TypeOK, Counters, AtExpire
<1>2. counter'.n = counter.n /\ (counter.n = 0 => counter' = counter)
  BY <1>1, ExpiryFacts
<1>3. Slots' = Slots
  BY <1>2 DEF Slots
<1>4. AdmittedHaveSlots' /\ MissingHasNoTTL'
  BY <1>2, <1>3 DEF IInv, AdmittedHaveSlots, MissingHasNoTTL
<1>5. ASSUME Faults = {} PROVE FaultlessInv'
  <2>1. Return(c, Verdict(c, 1)) /\ counter' = SetExpiry(counter)
    BY <1>5
  <2>2. /\ AtExpire = {c} /\ counter.n >= 1 /\ admitted = Slots
    BY <1>1, <1>5 DEF IInv, FaultlessInv, OneAtExpire, ExpireOwnsCounter
  <2>3. AtExpire' = {}
    BY <1>1, <2>1, <2>2, AtExpireAfterReturn
  <2>4. counter'.ttl # NoTTL
    BY <1>1, <2>1, <2>2, ExpiryFacts
  <2>5. reply'.verdict # "failopen"
    BY <1>1, <2>1, VerdictFacts DEF Return
  <2> QED
    BY <1>3, <2>2, <2>3, <2>4, <2>5
    DEF FaultlessInv, CounterExpires, ExpireOwnsCounter, OneAtExpire
<1> QED
  BY <1>4, <1>5 DEF FaultlessInv

\* One step keeps the inductive invariant.
LEMMA InvStep == IInv /\ [Next]_vars => IInv'
<1> SUFFICES ASSUME IInv, [Next]_vars PROVE IInv'
  OBVIOUS
<1> DEFINE Rest == AdmittedHaveSlots /\ MissingHasNoTTL /\ FaultlessInv
<1>1. TypeOK /\ TypeOK'
  BY TypeStep DEF IInv
<1>2. /\ counter.n \in Nat /\ admitted \in Nat /\ Rate \in Nat \ {0}
      /\ counter \in Counters /\ call \in [Callers -> Calls]
  BY <1>1, RateAssumption DEF TypeOK, Counters
<1>3. ASSUME NEW c \in Callers, Begin(c) PROVE Rest'
  <2>1. AtExpire' = AtExpire
    BY <1>2, <1>3 DEF Begin, AtExpire
  <2>2. counter' = counter /\ admitted' = admitted /\ reply' = NoReply
    BY <1>3 DEF Begin
  <2>3. CounterExpires => CounterExpires'
    BY <2>1, <2>2 DEF CounterExpires, AtExpire
  <2> QED
    BY <2>1, <2>2, <2>3
    DEF IInv, ExpireOwnsCounter, OneAtExpire, AdmittedHaveSlots, MissingHasNoTTL,
        FaultlessInv, Slots, NoReply
<1>4. ASSUME NEW c \in Callers, Incr(c) PROVE Rest'
  BY <1>4, IncrKeepsInv DEF Incr
<1>5. ASSUME NEW c \in Callers, IncrRetried(c) PROVE Rest'
  <2>1. Faults # {}
    BY <1>5 DEF IncrRetried
  <2> QED
    BY <1>5, <2>1, IncrKeepsInv DEF IncrRetried
<1>6. ASSUME NEW c \in Callers, ExpireNX(c) PROVE Rest'
  BY <1>6, ExpireKeepsInv DEF ExpireNX
<1>7. ASSUME NEW c \in Callers, ExpireNXFails(c) \/ ExpireNXRepeats(c) PROVE Rest'
  <2>1. Faults # {} /\ call[c].pc = "expire" /\ admitted' = admitted
    BY <1>7 DEF ExpireNXFails, ExpireNXRepeats
  <2>2. counter' \in {counter, SetExpiry(counter)}
    BY <1>7 DEF ExpireNXFails, ExpireNXRepeats
  <2> QED
    BY <2>1, <2>2, ExpireKeepsInv
<1>8. ASSUME NEW c \in Callers, IncrFails(c) PROVE Rest'
  <2>1. Faults # {} /\ admitted' = admitted
    BY <1>8 DEF IncrFails
  <2>2. /\ counter'.n \in Nat /\ counter'.ttl = counter.ttl
        /\ counter'.n >= counter.n
    BY <1>2, <1>8 DEF IncrFails, Counters
  <2>3. Slots' \in Nat /\ Slots \in Nat /\ Slots' >= Slots
    BY <1>2, <2>2 DEF Slots
  <2> QED
    BY <1>2, <2>1, <2>2, <2>3 DEF IInv, AdmittedHaveSlots, MissingHasNoTTL, FaultlessInv
<1>9. ASSUME NEW c \in Callers, Crash(c) PROVE Rest'
  <2>1. Faults # {} /\ UNCHANGED <<counter, admitted>>
    BY <1>9 DEF Crash
  <2> QED
    BY <2>1 DEF IInv, AdmittedHaveSlots, MissingHasNoTTL, FaultlessInv, Slots
<1>10. ASSUME Tick PROVE Rest'
  <2>1. \A d \in Callers : call'[d].pc = call[d].pc
    BY <1>2, <1>10 DEF Tick, Idle, Calls
  <2>2. AtExpire' = AtExpire
    BY <2>1 DEF AtExpire
  <2>3. reply'.verdict = "none"
    BY <1>10 DEF Tick, NoReply
  <2>4. CASE counter.ttl = NoTTL
    <3>1. counter' = counter /\ admitted' = admitted
      BY <1>10, <2>4 DEF Tick, NoTTL
    <3> QED
      BY <2>1, <2>2, <2>3, <3>1
      DEF IInv, ExpireOwnsCounter, OneAtExpire, AdmittedHaveSlots, MissingHasNoTTL,
          FaultlessInv, CounterExpires, Slots
  <2>5. CASE counter.ttl = 1
    <3>1. counter' = Missing /\ admitted' = 0
      BY <1>10, <2>5 DEF Tick, NoTTL
    <3>2. Faults = {} => AtExpire = {}
      BY <2>5 DEF IInv, FaultlessInv, ExpireOwnsCounter, NoTTL
    <3> QED
      BY <1>2, <2>2, <2>3, <3>1, <3>2
      DEF ExpireOwnsCounter, OneAtExpire, AdmittedHaveSlots, MissingHasNoTTL,
          FaultlessInv, CounterExpires, Slots, Missing
  <2>6. CASE counter.ttl # NoTTL /\ counter.ttl # 1
    <3>1. counter'.n = counter.n /\ admitted' = admitted
      BY <1>2, <1>10, <2>6 DEF Tick, Counters
    <3>2. counter'.ttl # NoTTL
      BY <1>2, <1>10, <2>6, KeyTTLPositive DEF Tick, Counters, NoTTL
    <3>3. counter.n # 0
      BY <2>6 DEF IInv, MissingHasNoTTL
    <3>4. Faults = {} => AtExpire = {}
      BY <2>6 DEF IInv, FaultlessInv, ExpireOwnsCounter
    <3> QED
      BY <2>2, <2>3, <3>1, <3>2, <3>3, <3>4
      DEF IInv, ExpireOwnsCounter, OneAtExpire, AdmittedHaveSlots, MissingHasNoTTL,
          FaultlessInv, CounterExpires, Slots
  <2> QED
    BY <2>4, <2>5, <2>6
<1>11. CASE UNCHANGED vars
  BY <1>11
  DEF vars, IInv, TypeOK, ExpireOwnsCounter, OneAtExpire, AdmittedHaveSlots,
      MissingHasNoTTL, FaultlessInv, CounterExpires, AtExpire, Slots
<1>12. Rest' => IInv'
  BY <1>1 DEF IInv
<1> QED
  BY <1>3, <1>4, <1>5, <1>6, <1>7, <1>8, <1>9, <1>10, <1>11, <1>12
  DEF Next, Step, Fault

LEMMA InvInit == Init => IInv
BY TypeInit, RateAssumption
DEF Init, IInv, ExpireOwnsCounter, OneAtExpire, AdmittedHaveSlots, MissingHasNoTTL,
    FaultlessInv, CounterExpires, AtExpire, Slots, Missing, Idle, NoReply

LEMMA InductiveInvariant == Spec => []IInv
BY InvInit, InvStep, PTL DEF Spec

\* A counter admits at most Rate requests, whatever the interleaving of its
\* callers and whatever fails.
THEOREM RateBound == Spec => []AtMostRatePerWindow
<1>1. IInv => AtMostRatePerWindow
  BY RateAssumption DEF IInv, TypeOK, Counters, AdmittedHaveSlots, Slots, AtMostRatePerWindow
<1> QED
  BY <1>1, InductiveInvariant, PTL

\* Without faults a counter without a TTL has a caller about to set one: no
\* limiter key is left to refuse for ever.
THEOREM NoLeakedCounter ==
    ASSUME Faults = {}
    PROVE  Spec => []CounterExpires
<1>1. IInv => CounterExpires
  BY DEF IInv, FaultlessInv
<1> QED
  BY <1>1, InductiveInvariant, PTL

\* Without faults the algorithm is a quota of Rate slots per window: requests
\* are granted in slots of their own, refused only when all are taken, and a
\* window ends with every slot it gave away granted.
THEOREM QuotaImplemented ==
    ASSUME Faults = {}
    PROVE  Spec => ImplementsQuota
<1> USE DEF Abstract!Init, Abstract!Next, Abstract!Take, Abstract!Grant,
            Abstract!TakeAndGrant, Abstract!Refuse, Abstract!Renew, Abstract!Quiet
<1>1. Init => Abstract!Init
  BY RateAssumption DEF Init, Missing, NoReply, Idle, Told
<1>2. ASSUME IInv, IInv', [Next]_vars
      PROVE  [Abstract!Next]_<<IF counter.n < Rate THEN counter.n ELSE Rate, Told,
                 CASE reply.verdict = "allowed" -> "granted"
                   [] reply.verdict = "denied"  -> "refused"
                   [] OTHER                     -> "none">>
  <2> DEFINE verdict == CASE reply.verdict = "allowed" -> "granted"
                          [] reply.verdict = "denied"  -> "refused"
                          [] OTHER                     -> "none"
  <2>1. /\ counter.n \in Nat /\ admitted \in Nat /\ Rate \in Nat \ {0}
        /\ counter \in Counters /\ call \in [Callers -> Calls]
    BY <1>2, RateAssumption DEF IInv, TypeOK, Counters
  <2>2. /\ Told = (IF AtExpire = {} THEN Slots ELSE Slots - 1)
        /\ Told' = (IF AtExpire' = {} THEN Slots' ELSE Slots' - 1)
        /\ AtExpire # {} => counter.ttl = NoTTL
    BY <1>2 DEF IInv, FaultlessInv, ExpireOwnsCounter, Told, AtExpire
  <2>3. ASSUME NEW c \in Callers, Begin(c) PROVE Abstract!Quiet
    <3>1. AtExpire' = AtExpire /\ counter' = counter /\ reply' = NoReply
      BY <2>1, <2>3 DEF Begin, AtExpire
    <3> QED
      BY <2>2, <3>1 DEF NoReply, Slots
  <2>4. ASSUME NEW c \in Callers, Incr(c)
        PROVE  Abstract!Take \/ Abstract!TakeAndGrant \/ Abstract!Refuse
    <3> DEFINE n == counter.n
    <3>1. counter'.n = n + 1 /\ c \notin AtExpire
      BY <2>1, <2>4 DEF Incr, Counters, AtExpire
    <3>2. CASE FirstInWindow(n + 1)
      <4>1. n = 0 /\ reply' = NoReply /\ call' = [call EXCEPT ![c].pc = "expire"]
        BY <2>1, <2>4, <3>2 DEF Incr, AfterIncr, FirstInWindow
      <4>2. AtExpire = {}
        BY <1>2, <2>1, <4>1 DEF IInv, FaultlessInv, ExpireOwnsCounter
      <4>3. AtExpire' # {}
        BY <2>1, <4>1 DEF AtExpire, Calls
      <4> QED
        BY <2>1, <2>2, <3>1, <4>1, <4>2, <4>3 DEF NoReply, Slots
    <3>3. CASE ~FirstInWindow(n + 1)
      <4>1. Return(c, Verdict(c, n + 1))
        BY <2>4, <3>3 DEF Incr, AfterIncr
      <4>2. AtExpire' = AtExpire
        BY <1>2, <3>1, <4>1, AtExpireAfterReturn DEF IInv
      <4>3. /\ reply'.verdict \in {"allowed", "denied"}
            /\ reply'.verdict = "allowed" <=> n + 1 <= Rate
        BY <1>2, <2>1, <4>1, VerdictFacts DEF Return, IInv
      <4>4. CASE n + 1 <= Rate
        BY <2>1, <2>2, <3>1, <4>2, <4>3, <4>4 DEF Slots
      <4>5. CASE n + 1 > Rate
        BY <2>1, <2>2, <3>1, <4>2, <4>3, <4>5 DEF Slots
      <4> QED
        BY <2>1, <4>4, <4>5
    <3> QED
      BY <3>2, <3>3
  <2>5. ASSUME NEW c \in Callers, ExpireNX(c) PROVE Abstract!Grant
    <3>1. c \in AtExpire /\ counter'.n = counter.n /\ Return(c, Verdict(c, 1))
      BY <1>2, <2>5, ExpiryFacts DEF ExpireNX, IInv, AtExpire
    <3>2. AtExpire = {c} /\ AtExpire' = {} /\ counter.n >= 1
      BY <1>2, <3>1, AtExpireAfterReturn DEF IInv, FaultlessInv, OneAtExpire, ExpireOwnsCounter
    <3>3. reply'.verdict = "allowed"
      BY <1>2, <2>1, <3>1, VerdictFacts DEF IInv, Return
    <3> QED
      BY <2>1, <2>2, <3>1, <3>2, <3>3 DEF Slots
  <2>6. ASSUME Tick PROVE Abstract!Renew \/ Abstract!Quiet
    <3>1. reply' = NoReply
      BY <2>6 DEF Tick
    <3>2. AtExpire' = AtExpire
      BY <2>1, <2>6 DEF Tick, Idle, Calls, AtExpire
    <3>3. CASE counter.ttl = 1
      <4>1. counter' = Missing /\ AtExpire = {}
        BY <2>2, <2>6, <3>3 DEF Tick, NoTTL
      <4> QED
        BY <2>1, <2>2, <3>1, <3>2, <4>1 DEF Slots, Missing, NoReply
    <3>4. CASE counter.ttl # 1
      <4>1. counter'.n = counter.n
        BY <2>1, <2>6, <3>4 DEF Tick, Counters
      <4> QED
        BY <2>1, <2>2, <3>1, <3>2, <4>1 DEF NoReply, Slots
    <3> QED
      BY <3>3, <3>4
  <2>7. ASSUME NEW c \in Callers PROVE ~Fault(c)
    BY DEF Fault, IncrRetried, IncrFails, ExpireNXRepeats, ExpireNXFails, Crash
  <2>8. CASE UNCHANGED vars
    BY <2>8 DEF vars, Told
  <2> QED
    BY <1>2, <2>3, <2>4, <2>5, <2>6, <2>7, <2>8 DEF Next, Step
<1> QED
  BY <1>1, <1>2, InductiveInvariant, PTL DEF Spec, ImplementsQuota, Abstract!Spec

-----------------------------------------------------------------------------
(* The windows that a span of Window ticks meets.                           *)

\* The client does not cut the window: it is whole seconds, or below one.
WholeWindow == KeyTTL >= Window

\* The last b ticks saw no request but those the present counter admitted, the
\* d - b before them at most Rate, and so the rest.  A counter is gone no
\* sooner than its ticks and those before it are out of the span, but for the
\* ticks that EXPIRE cuts off.
SplitAt(b, d) ==
    /\ SumBelow(recent, b) <= admitted
    /\ SumBelow(recent, d) - SumBelow(recent, b) <= Rate
    /\ SumBelow(recent, Window) - SumBelow(recent, d) <= Rate
    /\ counter.ttl # NoTTL => b = Window \/ b + counter.ttl > KeyTTL
    /\ d = Window \/ d >= b + KeyTTL
    /\ WholeWindow => d = Window

ThreeWindows == \E b, d \in 1 .. Window : b <= d /\ SplitAt(b, d)

\* EXPIRE cuts off less than half of the window.
LEMMA HalfKept == 2 * KeyTTL >= Window
<1>1. CASE Window < Second
  BY <1>1, TimeAssumption, SecondAssumption DEF KeyTTL
<1>2. CASE ~(Window < Second)
  <2> DEFINE q == Window \div Second
             r == Window % Second
  <2>1. q \in Int /\ r \in 0 .. Second - 1 /\ Window = Second * q + r
    BY TimeAssumption, SecondAssumption
  <2>2. Window \in Nat /\ Second \in Nat /\ Second >= 1
    BY TimeAssumption, SecondAssumption
  <2> HIDE DEF q
  <2>3. q >= 1
    <3>1. CASE q <= 0
      <4>1. Second * q <= 0
        BY <2>1, <2>2, <3>1
      <4> QED
        BY <1>2, <2>1, <2>2, <4>1
    <3> QED
      BY <2>1, <3>1
  <2>4. Second * q >= Second
    BY <2>1, <2>2, <2>3
  <2>5. KeyTTL = Window - r
    BY <1>2 DEF KeyTTL
  <2> HIDE DEF r
  <2> QED
    BY <2>1, <2>2, <2>4, <2>5
<1> QED
  BY <1>1, <1>2

\* What a request that gets a place does to the sums.
LEMMA PlaceSums ==
    ASSUME TypeOK, NEW r, Place(r), NEW b \in 1 .. Window
    PROVE  SumBelow(recent, b)' = SumBelow(recent, b) + (admitted' - admitted)
<1>1. recent \in [0 .. Window - 1 -> Nat] /\ recent' \in [0 .. Window - 1 -> Nat]
  BY PlaceType DEF TypeOK
<1>2. Window \in Nat \ {0} /\ admitted \in Nat /\ SumBelow(recent, b) \in Nat
  <2>1. Window \in Nat \ {0} /\ admitted \in Nat /\ b \in 0 .. Window
    BY TimeAssumption DEF TypeOK
  <2> QED
    BY <1>1, <2>1, SumBelowNext
<1>3. CASE r.verdict = "allowed"
  <2>1. admitted' - admitted = 1
    BY <1>2, <1>3 DEF Place
  <2>2. \A i \in 0 .. Window - 1 : recent'[i] = IF i = 0 THEN recent[0] + 1 ELSE recent[i]
    BY <1>1, <1>3 DEF Place
  <2>3. b - 1 \in 0 .. Window - 1 /\ (b - 1) + 1 = b
    BY <1>2
  <2>4. SumBelow(recent', (b - 1) + 1) = SumBelow(recent, (b - 1) + 1) + 1
    BY <1>1, <1>2, <2>2, <2>3, SumBelowCount
  <2>5. SumBelow(recent, b)' = SumBelow(recent', b)
    BY DEF SumBelow
  <2> QED
    BY <2>1, <2>3, <2>4, <2>5
<1>4. CASE r.verdict # "allowed"
  <2>1. admitted' = admitted /\ recent' = recent
    BY <1>4 DEF Place
  <2>2. SumBelow(recent, b)' = SumBelow(recent, b)
    BY <2>1 DEF SumBelow
  <2> QED
    BY <1>2, <2>1, <2>2
<1> QED
  BY <1>3, <1>4

\* What a tick does to them.
LEMMA TickSums ==
    ASSUME TypeOK, Tick, NEW b \in 0 .. Window - 1
    PROVE  SumBelow(recent, b + 1)' = SumBelow(recent, b)
<1>1. recent \in [0 .. Window - 1 -> Nat] /\ Window \in Nat \ {0}
  BY TimeAssumption DEF TypeOK
<1>2. /\ recent' \in [0 .. Window - 1 -> Nat]
      /\ \A i \in 0 .. Window - 1 : recent'[i] = IF i = 0 THEN 0 ELSE recent[i - 1]
  BY <1>1 DEF Tick
<1>3. SumBelow(recent', b + 1) = SumBelow(recent, b)
  BY <1>1, <1>2, SumBelowShift
<1>4. SumBelow(recent, b + 1)' = SumBelow(recent', b + 1)
  BY DEF SumBelow
<1> QED
  BY <1>3, <1>4

\* A request that gets a place is counted by the present counter.
LEMMA PlaceKeepsWindows ==
    ASSUME TypeOK, NEW r, Place(r), ThreeWindows, counter'.ttl = counter.ttl
    PROVE  ThreeWindows'
<1>1. PICK b, d \in 1 .. Window : b <= d /\ SplitAt(b, d)
  BY DEF ThreeWindows
<1>2. /\ Window \in Nat \ {0} /\ Window \in 1 .. Window /\ d \in 1 .. Window
      /\ Rate \in Nat /\ KeyTTL \in Nat
      /\ admitted \in Nat /\ admitted' \in Nat
  BY TimeAssumption, RateAssumption, KeyTTLPositive, PlaceType DEF TypeOK
<1>3. /\ recent \in [0 .. Window - 1 -> Nat]
      /\ b \in 0 .. Window /\ d \in 0 .. Window /\ Window \in 0 .. Window
  BY <1>2 DEF TypeOK
<1>4. /\ SumBelow(recent, b) \in Nat /\ SumBelow(recent, d) \in Nat
      /\ SumBelow(recent, Window) \in Nat
  BY <1>2, <1>3, SumBelowNext
<1>5. /\ SumBelow(recent, b)' = SumBelow(recent, b) + (admitted' - admitted)
      /\ SumBelow(recent, d)' = SumBelow(recent, d) + (admitted' - admitted)
      /\ SumBelow(recent, Window)' = SumBelow(recent, Window) + (admitted' - admitted)
  BY <1>2, PlaceSums
<1>6. counter'.ttl # NoTTL => b = Window \/ b + counter'.ttl > KeyTTL
  BY <1>1 DEF SplitAt
<1>7. /\ SumBelow(recent, b)' <= admitted'
      /\ SumBelow(recent, d)' - SumBelow(recent, b)' <= Rate
      /\ SumBelow(recent, Window)' - SumBelow(recent, d)' <= Rate
  BY <1>1, <1>2, <1>4, <1>5 DEF SplitAt
<1>8. (d = Window \/ d >= b + KeyTTL) /\ (WholeWindow => d = Window)
  BY <1>1 DEF SplitAt
<1>9. SplitAt(b, d)'
  BY <1>6, <1>7, <1>8 DEF SplitAt, NoTTL, WholeWindow, KeyTTL
<1> QED
  BY <1>1, <1>2, <1>9 DEF ThreeWindows

\* A tick moves the parts of the span by a tick, until they are out of it; and
\* when the counter is gone the requests it admitted become the middle part.
LEMMA TickKeepsWindows ==
    ASSUME TypeOK, AtMostRatePerWindow, Tick, ThreeWindows
    PROVE  ThreeWindows'
<1>1. PICK b, d \in 1 .. Window : b <= d /\ SplitAt(b, d)
  BY DEF ThreeWindows
<1>2. /\ Window \in Nat \ {0} /\ Rate \in Nat /\ KeyTTL \in Nat /\ KeyTTL >= 1
      /\ admitted \in Nat /\ counter.ttl \in {NoTTL} \cup 1 .. KeyTTL
      /\ recent \in [0 .. Window - 1 -> Nat]
  BY TimeAssumption, RateAssumption, KeyTTLPositive DEF TypeOK, Counters
<1>3. /\ Window - 1 \in 0 .. Window - 1 /\ (Window - 1) + 1 = Window
      /\ Window - 1 \in 0 .. Window /\ Window \in 0 .. Window
      /\ b \in 0 .. Window /\ d \in 0 .. Window
  BY <1>2
<1> DEFINE P(n) == SumBelow(recent, n)
<1>4. /\ P(b) \in Nat /\ P(d) \in Nat /\ P(Window - 1) \in Nat /\ P(Window) \in Nat
      /\ P(0) = 0
  BY <1>2, <1>3, SumBelowNext
<1>5. \A m, n \in 0 .. Window : m <= n => P(m) <= P(n)
  BY <1>2, SumBelowMonotone
<1>6. /\ P(Window - 1) <= P(Window) /\ P(b) <= P(d)
      /\ d <= Window - 1 => P(d) <= P(Window - 1)
      /\ d >= Window - 1 => P(Window - 1) <= P(d)
      /\ b >= Window - 1 => P(Window - 1) <= P(b)
  BY <1>1, <1>2, <1>3, <1>5
<1>7. SumBelow(recent, Window)' = P(Window - 1)
  <2>1. SumBelow(recent, (Window - 1) + 1)' = P(Window - 1)
    BY <1>3, TickSums
  <2> QED
    BY <1>3, <2>1
<1>8. \A n \in 0 .. Window - 1 : SumBelow(recent, n + 1)' = P(n)
  BY TickSums
<1>9. P(b) <= admitted /\ P(d) - P(b) <= Rate /\ P(Window) - P(d) <= Rate
  BY <1>1 DEF SplitAt
<1>10. (d = Window \/ d >= b + KeyTTL) /\ (WholeWindow => d = Window)
  BY <1>1 DEF SplitAt
<1> HIDE DEF P
<1>11. CASE counter.ttl = 1
  <2>1. counter'.ttl = NoTTL /\ admitted' = 0
    BY <1>11, <1>2 DEF Tick, Missing, NoTTL
  <2>2. b = Window \/ b >= KeyTTL
    BY <1>1, <1>2, <1>11 DEF SplitAt, NoTTL
  <2>3. SumBelow(recent, 1)' = 0
    <3>1. SumBelow(recent, 0 + 1)' = P(0)
      BY <1>2, <1>8
    <3> QED
      BY <1>4, <3>1
  <2>4. CASE b < Window - 1
    <3>1. ~WholeWindow
      BY <1>2, <2>2, <2>4 DEF WholeWindow
    <3>2. d >= Window - 1
      BY <1>2, <1>10, <2>2, <2>4, HalfKept
    <3>3. SumBelow(recent, b + 1)' = P(b)
      BY <1>2, <1>8, <2>4
    <3>4. P(b) - 0 <= Rate /\ P(Window - 1) - P(b) <= Rate
      BY <1>2, <1>4, <1>6, <1>9, <3>2 DEF AtMostRatePerWindow
    <3>5. b + 1 >= 1 + KeyTTL
      BY <1>2, <2>2, <2>4
    <3>6. SplitAt(1, b + 1)'
      BY <1>7, <2>1, <2>3, <3>1, <3>3, <3>4, <3>5 DEF SplitAt, NoTTL, WholeWindow, KeyTTL
    <3> QED
      BY <1>2, <2>4, <3>6 DEF ThreeWindows
  <2>5. CASE b >= Window - 1
    <3>1. /\ P(Window - 1) - 0 <= Rate
          /\ P(Window - 1) - P(Window - 1) <= Rate
      BY <1>2, <1>4, <1>6, <1>9, <2>5 DEF AtMostRatePerWindow
    <3>2. SplitAt(1, Window)'
      BY <1>7, <2>1, <2>3, <3>1 DEF SplitAt, NoTTL
    <3> QED
      BY <1>2, <3>2 DEF ThreeWindows
  <2> QED
    BY <1>2, <2>4, <2>5
<1>12. CASE counter.ttl # 1
  <2>1. /\ admitted' = admitted
        /\ counter.ttl = NoTTL => counter'.ttl = NoTTL
        /\ counter.ttl # NoTTL => counter'.ttl = counter.ttl - 1
    BY <1>2, <1>12 DEF Tick, TypeOK, Counters
  <2>2. counter'.ttl # NoTTL => b = Window \/ (b + 1) + counter'.ttl > KeyTTL
    BY <1>1, <1>2, <2>1 DEF SplitAt, NoTTL
  <2>3. CASE d <= Window - 1
    <3>1. SumBelow(recent, b + 1)' = P(b) /\ SumBelow(recent, d + 1)' = P(d)
      BY <1>1, <1>2, <1>8, <2>3
    <3>2. P(Window - 1) - P(d) <= Rate
      BY <1>2, <1>4, <1>6, <1>9
    <3>3. d + 1 >= (b + 1) + KeyTTL /\ ~WholeWindow /\ b # Window
      BY <1>2, <1>10, <2>3
    <3>4. SplitAt(b + 1, d + 1)'
      BY <1>7, <1>9, <2>1, <2>2, <3>1, <3>2, <3>3 DEF SplitAt, NoTTL, WholeWindow, KeyTTL
    <3> QED
      BY <1>1, <1>2, <2>3, <3>4 DEF ThreeWindows
  <2>4. CASE d = Window /\ b <= Window - 1
    <3>1. SumBelow(recent, b + 1)' = P(b)
      BY <1>2, <1>8, <2>4
    <3>2. P(Window - 1) - P(b) <= Rate /\ P(Window - 1) - P(Window - 1) <= Rate
      BY <1>2, <1>4, <1>6, <1>9, <2>4
    <3>3. b # Window
      BY <1>2, <2>4
    <3>4. SplitAt(b + 1, Window)'
      BY <1>7, <1>9, <2>1, <2>2, <3>1, <3>2, <3>3 DEF SplitAt, NoTTL
    <3> QED
      BY <1>2, <2>4, <3>4 DEF ThreeWindows
  <2>5. CASE b = Window
    <3>1. P(Window - 1) <= admitted /\ P(Window - 1) - P(Window - 1) <= Rate
      BY <1>2, <1>4, <1>6, <1>9, <2>5
    <3>2. SplitAt(Window, Window)'
      BY <1>7, <2>1, <3>1 DEF SplitAt, NoTTL
    <3> QED
      BY <1>2, <3>2 DEF ThreeWindows
  <2> QED
    BY <1>2, <2>3, <2>4, <2>5
<1> QED
  BY <1>11, <1>12

LEMMA ThreeWindowsStep ==
    ASSUME IInv, ThreeWindows, [Next]_vars
    PROVE  ThreeWindows'
<1>1. TypeOK /\ AtMostRatePerWindow
  BY RateAssumption DEF IInv, TypeOK, Counters, AdmittedHaveSlots, Slots, AtMostRatePerWindow
<1>2. counter \in Counters /\ counter.n \in Nat
  BY <1>1 DEF TypeOK, Counters
\* A step after which the sums and what is admitted are as before, and the TTL too
\* or that of a new key.
<1>3. ASSUME UNCHANGED <<admitted, recent>>, counter'.ttl \in {counter.ttl, KeyTTL}
      PROVE  ThreeWindows'
  <2>1. PICK b, d \in 1 .. Window : b <= d /\ SplitAt(b, d)
    BY DEF ThreeWindows
  <2>2. counter'.ttl # NoTTL => b = Window \/ b + counter'.ttl > KeyTTL
    BY <1>3, <2>1, KeyTTLPositive DEF SplitAt
  <2>3. SplitAt(b, d)'
    BY <1>3, <2>1, <2>2 DEF SplitAt, SumBelow, NoTTL, WholeWindow, KeyTTL
  <2> QED
    BY <2>1, <2>3 DEF ThreeWindows
<1>4. ASSUME NEW c \in Callers, NEW k \in 1 .. 2, AfterIncr(c, counter.n + k),
             counter' = [counter EXCEPT !.n = @ + k]
      PROVE  ThreeWindows'
  <2>1. counter'.ttl = counter.ttl
    BY <1>2, <1>4 DEF Counters
  <2> QED
    BY <1>1, <1>4, <2>1, PlaceKeepsWindows DEF AfterIncr
<1>5. ASSUME NEW c \in Callers, Begin(c) \/ Crash(c) PROVE ThreeWindows'
  BY <1>3, <1>5 DEF Begin, Crash
<1>6. ASSUME NEW c \in Callers, Incr(c) PROVE ThreeWindows'
  BY <1>4, <1>6 DEF Incr
<1>7. ASSUME NEW c \in Callers, IncrRetried(c) PROVE ThreeWindows'
  BY <1>4, <1>7 DEF IncrRetried
<1>8. ASSUME NEW c \in Callers, IncrFails(c) PROVE ThreeWindows'
  <2>1. counter'.ttl = counter.ttl
    BY <1>2, <1>8 DEF IncrFails, Counters
  <2> QED
    BY <1>3, <1>8, <2>1 DEF IncrFails
<1>9. ASSUME NEW c \in Callers, ExpireNX(c) \/ ExpireNXRepeats(c) \/ ExpireNXFails(c)
      PROVE  ThreeWindows'
  <2>1. counter'.ttl \in {counter.ttl, KeyTTL}
    BY <1>1, <1>9, ExpiryFacts DEF ExpireNX, ExpireNXRepeats, ExpireNXFails
  <2> QED
    BY <1>3, <1>9, <2>1 DEF ExpireNX, ExpireNXRepeats, ExpireNXFails
<1>10. CASE Tick
  BY <1>1, <1>10, TickKeepsWindows
<1>11. CASE UNCHANGED vars
  BY <1>3, <1>11 DEF vars
<1> QED
  BY <1>5, <1>6, <1>7, <1>8, <1>9, <1>10, <1>11 DEF Next, Step, Fault

LEMMA ThreeWindowsInit == Init => ThreeWindows
<1> SUFFICES ASSUME Init PROVE ThreeWindows
  OBVIOUS
<1>1. Window \in Nat \ {0} /\ Rate \in Nat
  BY TimeAssumption, RateAssumption
<1>2. /\ recent \in [0 .. Window - 1 -> Nat]
      /\ \A i \in 0 .. Window - 1 : recent[i] = 0
  BY DEF Init
<1>3. Window \in 0 .. Window /\ Window \in 1 .. Window
  BY <1>1
<1>4. SumBelow(recent, Window) = 0
  BY <1>1, <1>2, <1>3, SumBelowNothing
<1>5. admitted = 0 /\ counter.ttl = NoTTL
  BY DEF Init, Missing
<1>6. SplitAt(Window, Window)
  BY <1>1, <1>4, <1>5 DEF SplitAt
<1> QED
  BY <1>3, <1>6 DEF ThreeWindows

LEMMA WindowsInvariance == Spec => [](IInv /\ ThreeWindows)
<1>1. IInv /\ ThreeWindows /\ [Next]_vars => ThreeWindows'
  BY ThreeWindowsStep
<1> QED
  BY <1>1, ThreeWindowsInit, InvInit, InvStep, PTL DEF Spec

\* What the invariant says of the whole span.
LEMMA SpanBound ==
    ASSUME IInv, ThreeWindows
    PROVE  /\ SumFunction(recent) <= 3 * Rate
           /\ WholeWindow => SumFunction(recent) <= 2 * Rate
<1>1. PICK b, d \in 1 .. Window : b <= d /\ SplitAt(b, d)
  BY DEF ThreeWindows
<1>2. /\ Window \in Nat \ {0} /\ Rate \in Nat /\ admitted \in Nat /\ admitted <= Rate
      /\ recent \in [0 .. Window - 1 -> Nat]
  BY TimeAssumption, RateAssumption
  DEF IInv, TypeOK, Counters, AdmittedHaveSlots, Slots
<1>3. b \in 0 .. Window /\ d \in 0 .. Window /\ Window \in 0 .. Window
  BY <1>2
<1>4. /\ SumBelow(recent, b) \in Nat /\ SumBelow(recent, d) \in Nat
      /\ SumBelow(recent, Window) \in Nat
  BY <1>2, <1>3, SumBelowNext
<1>5. /\ SumBelow(recent, b) <= admitted
      /\ SumBelow(recent, d) - SumBelow(recent, b) <= Rate
      /\ SumBelow(recent, Window) - SumBelow(recent, d) <= Rate
      /\ WholeWindow => d = Window
  BY <1>1 DEF SplitAt
<1>6. SumBelow(recent, Window) <= 3 * Rate
  BY <1>2, <1>4, <1>5
<1>7. WholeWindow => SumBelow(recent, Window) <= 2 * Rate
  BY <1>2, <1>4, <1>5
<1>8. SumFunction(recent) = SumBelow(recent, Window)
  <2>1. DOMAIN recent = 0 .. Window - 1
    BY <1>2
  <2> QED
    BY <2>1 DEF SumFunction, SumBelow, SumFunctionOnSet, FoldFunction
<1> QED
  BY <1>6, <1>7, <1>8

\* A span of Window ticks sees at most twice Rate requests admitted, as long as
\* EXPIRE does not cut the window.
THEOREM TwoWindowsBound ==
    ASSUME WholeWindow
    PROVE  Spec => []AtMostTwoWindows
<1>1. IInv /\ ThreeWindows => AtMostTwoWindows
  BY SpanBound DEF AtMostTwoWindows
<1> QED
  BY <1>1, WindowsInvariance, PTL

\* Whatever EXPIRE cuts off, it sees at most three times Rate.
THEOREM ThreeWindowsBound == Spec => []AtMostThreeWindows
<1>1. IInv /\ ThreeWindows => AtMostThreeWindows
  BY SpanBound DEF AtMostThreeWindows
<1> QED
  BY <1>1, WindowsInvariance, PTL
=============================================================================
