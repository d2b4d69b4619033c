------------------------- MODULE TokenBucketProofs -------------------------
(***************************************************************************)
(* Theorems about TokenBucket, for every number of callers, rate, window   *)
(* and set of faults, and their proofs.                                    *)
(***************************************************************************)
EXTENDS TokenBucket, TLAPS

\* Multiplication distributes: the only fact about products used below.
LEMMA Distributes ==
    ASSUME NEW a \in Int, NEW x \in Int, NEW y \in Int
    PROVE  a * (x + y) = a * x + a * y /\ a * x \in Int
OBVIOUS

LEMMA FullFacts == Full \in Nat /\ Full - Window \in Nat
<1>1. Rate = (Rate - 1) + 1 /\ Rate - 1 \in Nat /\ Window \in Nat
  BY RateAssumption, TimeAssumption
<1>2. Full = (Rate - 1) * Window + Window
  BY <1>1 DEF Full
<1>3. (Rate - 1) * Window \in Nat
  BY <1>1
<1> QED
  BY <1>1, <1>2, <1>3

LEMMA CeilDivType ==
    ASSUME NEW a \in Int, NEW b \in Nat \ {0}
    PROVE  CeilDiv(a, b) \in Int
BY DEF CeilDiv

\* A key's TTL is at least a tick.
LEMMA KeyTTLPositive == KeyTTL \in Nat /\ KeyTTL >= 1
<1> DEFINE q == (-Window) \div Second
<1>1. Window \in Nat \ {0} /\ Second \in Nat \ {0} /\ -Window \in Int
  BY TimeAssumption, SecondAssumption
<1>2. q \in Int /\ q <= -1
  BY <1>1
<1>3. -q \in Nat \ {0} /\ KeyTTL = (-q) * Second
  BY <1>1, <1>2 DEF KeyTTL, CeilDiv
<1>4. \A x, y \in Nat \ {0} : x * y \in Nat /\ x * y >= 1
  OBVIOUS
<1> QED
  BY <1>1, <1>3, <1>4

-----------------------------------------------------------------------------
(* What a run of the script does, case by case.                             *)

Typed ==
    /\ bucket \in Buckets
    /\ bucket.live => bucket.ttl # NoTTL
    /\ birth \in Nat
    /\ spent \in Nat
    /\ rewound \in Nat

\* A bucket that is gone has no history.
NoHistory == ~bucket.live => spent = 0 /\ rewound = 0

LEMMA RefilledFacts ==
    ASSUME NEW b \in Buckets, NEW age \in Nat
    PROVE  /\ Refilled(b, age) \in Int
           /\ Refilled(b, age) <= Full
           /\ Refilled(b, age) <= b.units + Rate * (b.age - age)
<1>1. b.units \in Int /\ b.age - age \in Int
  BY FullFacts DEF Buckets
<1>2. Rate * (b.age - age) \in Int
  BY <1>1, RateAssumption
<1> QED
  BY <1>1, <1>2, FullFacts DEF Refilled, AtMost

LEMMA RunCreates ==
    ASSUME NEW age \in Nat, Run(age), ~bucket.live
    PROVE  /\ bucket' = [live |-> TRUE, units |-> Full - Window, age |-> age, ttl |-> KeyTTL]
           /\ birth' = age
           /\ spent' = spent + 1
           /\ rewound' = rewound
BY DEF Run, Script, Created

LEMMA RunSpends ==
    ASSUME NEW age \in Nat, Run(age), bucket.live, Refilled(bucket, age) >= Window
    PROVE  /\ bucket' = [bucket EXCEPT !.units = Refilled(bucket, age) - Window, !.age = age]
           /\ birth' = birth
           /\ spent' = spent + 1
           /\ rewound' = rewound
BY DEF Run, Script, Spent

LEMMA RunRefuses ==
    ASSUME NEW age \in Nat, Run(age), bucket.live, ~(Refilled(bucket, age) >= Window)
    PROVE  /\ bucket' = [bucket EXCEPT !.age = age]
           /\ birth' = birth
           /\ spent' = spent
           /\ rewound' = IF age > bucket.age THEN rewound + (age - bucket.age) ELSE rewound
BY DEF Run, Script, Refused

\* A run of the script keeps the bucket and its history of their types.
LEMMA RunTyped ==
    ASSUME NEW age \in Nat, Typed, Run(age)
    PROVE  Typed' /\ bucket'.live
<1>1. CASE ~bucket.live
  <2>1. bucket' \in Buckets
    <3>1. Full - Window \in 0 .. Full - Window /\ KeyTTL \in 1 .. KeyTTL
      BY FullFacts, KeyTTLPositive, TimeAssumption
    <3>2. [live |-> TRUE, units |-> Full - Window, age |-> age, ttl |-> KeyTTL] \in Buckets
      BY <3>1 DEF Buckets
    <3> QED
      BY <1>1, <3>2, RunCreates
  <2> QED
    BY <1>1, <2>1, RunCreates, KeyTTLPositive DEF Typed, NoTTL
<1>2. CASE bucket.live /\ Refilled(bucket, age) >= Window
  <2>1. Refilled(bucket, age) - Window \in 0 .. Full - Window
    BY <1>2, RefilledFacts, FullFacts, TimeAssumption DEF Typed
  <2>2. bucket' \in Buckets /\ bucket'.live /\ bucket'.ttl = bucket.ttl
    BY <1>2, <2>1, RunSpends DEF Buckets, Typed
  <2> QED
    <3>1. spent + 1 \in Nat
      BY DEF Typed
    <3> QED
      BY <1>2, <2>2, <3>1, RunSpends DEF Typed
<1>3. CASE bucket.live /\ ~(Refilled(bucket, age) >= Window)
  <2>1. bucket' \in Buckets /\ bucket'.live /\ bucket'.ttl = bucket.ttl
    BY <1>3, RunRefuses DEF Buckets, Typed
  <2>2. bucket.age \in Nat
    BY DEF Typed, Buckets
  <2>3. rewound' \in Nat
    BY <1>3, <2>2, RunRefuses DEF Typed
  <2> QED
    BY <1>3, <2>1, <2>3, RunRefuses DEF Typed
<1> QED
  BY <1>1, <1>2, <1>3

\* A run of the script keeps the accounts of the bucket.
LEMMA RunConserves ==
    ASSUME NEW age \in Nat, Typed, NoHistory, Conservation, Run(age)
    PROVE  Conservation'
<1> DEFINE got == Rate * (birth - bucket.age + rewound)
           fresh == Rate * (bucket.age - age)
           paid == Window * spent
<1>1. /\ Rate \in Int /\ Window \in Int /\ Full \in Int
      /\ bucket.age \in Int /\ bucket.units \in Int /\ age \in Int
      /\ birth \in Int /\ spent \in Int /\ rewound \in Int
  BY RateAssumption, TimeAssumption, FullFacts DEF Typed, Buckets
<1>2. got \in Int /\ fresh \in Int /\ paid \in Int
  BY <1>1
<1>3. Window * (spent + 1) = paid + Window
  BY <1>1, Distributes
<1>4. Rate * (birth - age + rewound) = got + fresh
  <2>1. birth - age + rewound = (birth - bucket.age + rewound) + (bucket.age - age)
    BY <1>1
  <2>2. birth - bucket.age + rewound \in Int /\ bucket.age - age \in Int
    BY <1>1
  <2> HIDE DEF got, fresh
  <2> QED
    BY <1>1, <2>1, <2>2, Distributes DEF got, fresh
<1>5. CASE ~bucket.live
  <2>1. /\ bucket'.units = Full - Window /\ bucket'.age = birth'
        /\ spent' = 1 /\ rewound' = 0 /\ birth' = age
    BY <1>5, RunCreates DEF NoHistory
  <2>2. Rate * (birth' - bucket'.age + rewound') = 0 /\ Window * spent' = Window
    BY <1>1, <2>1
  <2> QED
    BY <1>1, <2>1, <2>2 DEF Conservation, Full
<1>6. CASE bucket.live /\ Refilled(bucket, age) >= Window
  <2>1. Refilled(bucket, age) \in Int /\ Refilled(bucket, age) <= bucket.units + fresh
    BY RefilledFacts DEF Typed
  <2>2. /\ bucket'.units = Refilled(bucket, age) - Window /\ bucket'.age = age
        /\ spent' = spent + 1 /\ rewound' = rewound /\ birth' = birth
    BY <1>6, RunSpends DEF Typed, Buckets
  <2>3. bucket.units + paid <= Full + got
    BY <1>6 DEF Conservation
  <2>4. /\ Window * spent' = paid + Window
        /\ Rate * (birth' - bucket'.age + rewound') = got + fresh
    BY <2>2, <1>3, <1>4
  <2>5. Full' = Full
    BY DEF Full
  <2> HIDE DEF got, fresh, paid
  <2>6. bucket'.units + Window * spent' <= Full + Rate * (birth' - bucket'.age + rewound')
    BY <1>1, <1>2, <2>1, <2>2, <2>3, <2>4
  <2> QED
    BY <2>5, <2>6 DEF Conservation
<1>7. CASE bucket.live /\ ~(Refilled(bucket, age) >= Window)
  <2>1. /\ bucket'.units = bucket.units /\ bucket'.age = age
        /\ spent' = spent /\ birth' = birth
        /\ rewound' = IF age > bucket.age THEN rewound + (age - bucket.age) ELSE rewound
    BY <1>7, RunRefuses DEF Typed, Buckets
  <2>2. bucket.units + paid <= Full + got
    BY <1>7 DEF Conservation
  <2>3. CASE age > bucket.age
    <3>1. birth' - bucket'.age + rewound' = birth - bucket.age + rewound
      BY <1>1, <2>1, <2>3
    <3> QED
      BY <2>1, <2>2, <3>1 DEF Conservation, Full
  <2>4. CASE ~(age > bucket.age)
    <3>1. bucket.age - age \in Nat
      BY <1>1, <2>4
    <3>2. fresh >= 0
      BY <3>1, RateAssumption
    <3>3. Rate * (birth' - bucket'.age + rewound') = got + fresh
      BY <1>4, <2>1, <2>4
    <3>4. Window * spent' = paid
      BY <2>1
    <3> HIDE DEF got, fresh, paid
    <3>5. bucket'.units + Window * spent' <= Full + Rate * (birth' - bucket'.age + rewound')
      BY <1>1, <1>2, <2>1, <2>2, <3>2, <3>3, <3>4
    <3> QED
      BY <3>5 DEF Conservation, Full
  <2> QED
    BY <2>3, <2>4
<1> QED
  BY <1>5, <1>6, <1>7

-----------------------------------------------------------------------------
(* The invariant.                                                           *)

IInv == TypeOK /\ NoHistory /\ Conservation

LEMMA TypeOKTyped == TypeOK => Typed
BY DEF TypeOK, Typed

LEMMA InvInit == Init => IInv
<1> SUFFICES ASSUME Init PROVE IInv
  OBVIOUS
<1>1. Missing \in Buckets /\ ~Missing.live
  BY FullFacts DEF Missing, Buckets, NoTTL
<1>2. Idle \in Calls
  BY BoundAssumption DEF Idle, Calls
<1> QED
  BY <1>1, <1>2 DEF Init, IInv, TypeOK, NoHistory, Conservation, Replies, NoReply

LEMMA CallAge ==
    ASSUME TypeOK, NEW c \in Callers
    PROVE  call[c] \in Calls /\ call[c].age \in Nat /\ call[c].repeats \in Nat
BY BoundAssumption DEF TypeOK, Calls

\* The script's reset is a whole number.
LEMMA ScriptReset ==
    ASSUME Typed, NEW age \in Nat
    PROVE  /\ Script(bucket, age).reset \in Int
           /\ Script(bucket, age).verdict \in {"allowed", "denied"}
<1>1. \A n \in Int : WaitFrom(n) \in Int
  BY CeilDivType, RateAssumption, TimeAssumption DEF WaitFrom
<1>2. Refilled(bucket, age) \in Int /\ Refilled(bucket, age) - Window \in Int
  BY RefilledFacts, TimeAssumption DEF Typed
<1>3. Window \div Rate \in Int
  BY TimeAssumption, RateAssumption
<1>4. CASE ~bucket.live
  BY <1>3, <1>4 DEF Script, Created
<1>5. CASE bucket.live /\ Refilled(bucket, age) >= Window
  BY <1>1, <1>2, <1>5 DEF Script, Spent
<1>6. CASE bucket.live /\ ~(Refilled(bucket, age) >= Window)
  BY <1>1, <1>2, <1>6 DEF Script, Refused
<1> QED
  BY <1>4, <1>5, <1>6

\* The caller's side of a return.
LEMMA ReturnTyped ==
    ASSUME TypeOK, NEW c \in Callers, NEW reset \in Int,
           NEW verdict \in {"allowed", "denied", "failopen"}, Return(c, verdict, reset)
    PROVE  call' \in [Callers -> Calls] /\ reply' \in Replies
<1>1. Idle \in Calls
  BY BoundAssumption DEF Idle, Calls
<1>2. reset - call[c].age \in Int
  BY CallAge
<1> QED
  BY <1>1, <1>2 DEF TypeOK, Return, Replies

\* A step in which the script runs for a call.
LEMMA RunStep ==
    ASSUME IInv, NEW c \in Callers, Run(call[c].age),
           call' \in [Callers -> Calls], reply' \in Replies
    PROVE  IInv'
<1>1. call[c].age \in Nat
  BY CallAge DEF IInv
<1>2. Typed /\ NoHistory /\ Conservation
  BY TypeOKTyped DEF IInv
<1>3. Typed' /\ bucket'.live
  BY <1>1, <1>2, RunTyped
<1>4. Conservation'
  BY <1>1, <1>2, RunConserves
<1> QED
  BY <1>3, <1>4 DEF IInv, TypeOK, Typed, NoHistory

\* A step that leaves the bucket alone.
LEMMA BucketKept ==
    ASSUME IInv, UNCHANGED <<bucket, birth, spent, rewound>>,
           call' \in [Callers -> Calls], reply' \in Replies
    PROVE  IInv'
BY DEF IInv, TypeOK, NoHistory, Conservation, Full, Buckets, KeyTTL

LEMMA TickStep == IInv /\ Tick => IInv'
<1> SUFFICES ASSUME IInv, Tick PROVE IInv'
  OBVIOUS
<1>1. call' \in [Callers -> Calls]
  <2> SUFFICES ASSUME NEW c \in Callers
               PROVE  (IF call[c].busy THEN [call[c] EXCEPT !.age = @ + 1] ELSE Idle) \in Calls
    BY DEF Tick
  <2>1. Idle \in Calls
    BY BoundAssumption DEF Idle, Calls
  <2>2. call[c].busy => call[c].age + 1 \in 0 .. MaxDelay
    BY CallAge, BoundAssumption DEF IInv, Tick
  <2>3. call[c].busy => [call[c] EXCEPT !.age = @ + 1] \in Calls
    BY <2>2, CallAge DEF Calls, IInv
  <2> QED
    BY <2>1, <2>3
<1>2. reply' \in Replies
  BY DEF Tick, NoReply, Replies
<1>3. CASE bucket.live /\ bucket.ttl > 1
  <2>1. /\ bucket' = [bucket EXCEPT !.age = @ + 1, !.ttl = @ - 1]
        /\ birth' = birth + 1 /\ spent' = spent /\ rewound' = rewound
    BY <1>3 DEF Tick
  <2>2. bucket \in Buckets /\ birth \in Nat /\ spent \in Nat /\ rewound \in Nat
    BY DEF IInv, TypeOK
  <2>3. bucket.ttl \in 1 .. KeyTTL /\ bucket.age \in Nat
    BY <1>3, <2>2 DEF Buckets, NoTTL
  <2>4. bucket.ttl - 1 \in 1 .. KeyTTL /\ bucket.ttl - 1 # NoTTL
    BY <1>3, <2>3, KeyTTLPositive DEF NoTTL
  <2>5. bucket' \in Buckets /\ bucket'.ttl # NoTTL /\ bucket'.live
    <3>1. bucket.age + 1 \in Nat
      BY <2>3
    <3>2. bucket' \in Buckets /\ bucket'.ttl = bucket.ttl - 1 /\ bucket'.live = bucket.live
      BY <2>1, <2>2, <2>4, <3>1 DEF Buckets
    <3> QED
      BY <1>3, <2>4, <3>2
  <2>6. birth' - bucket'.age + rewound' = birth - bucket.age + rewound
    BY <2>1, <2>2, <2>3 DEF Buckets
  <2>7. bucket'.units = bucket.units
    BY <2>1, <2>2 DEF Buckets
  <2>8. Conservation'
    BY <1>3, <2>1, <2>6, <2>7 DEF IInv, Conservation, Full
  <2> QED
    BY <1>1, <1>2, <2>1, <2>2, <2>5, <2>8 DEF IInv, TypeOK, NoHistory
<1>4. CASE ~(bucket.live /\ bucket.ttl > 1)
  <2>1. bucket' = Missing /\ birth' = 0 /\ spent' = 0 /\ rewound' = 0
    BY <1>4 DEF Tick
  <2>2. Missing \in Buckets /\ ~Missing.live
    BY FullFacts DEF Missing, Buckets, NoTTL
  <2> QED
    BY <1>1, <1>2, <2>1, <2>2 DEF IInv, TypeOK, NoHistory, Conservation
<1> QED
  BY <1>3, <1>4

LEMMA InvStep == IInv /\ [Next]_vars => IInv'
<1> SUFFICES ASSUME IInv, [Next]_vars PROVE IInv'
  OBVIOUS
<1>a. TypeOK /\ Typed
  BY TypeOKTyped DEF IInv
<1>b. NoReply \in Replies
  BY DEF NoReply, Replies
<1>1. ASSUME NEW c \in Callers, Begin(c) PROVE IInv'
  <2>1. [busy |-> TRUE, age |-> 0, repeats |-> 0] \in Calls
    BY BoundAssumption DEF Calls
  <2>2. call' \in [Callers -> Calls]
    BY <1>1, <1>a, <2>1 DEF Begin, TypeOK
  <2> QED
    BY <1>1, <1>b, <2>2, BucketKept DEF Begin
<1>2. ASSUME NEW c \in Callers, Eval(c) PROVE IInv'
  <2> DEFINE r == Script(bucket, call[c].age)
  <2>1. r.reset \in Int /\ r.verdict \in {"allowed", "denied"}
    BY <1>a, CallAge, ScriptReset
  <2>2. Run(call[c].age) /\ Return(c, r.verdict, r.reset)
    BY <1>2 DEF Eval
  <2> HIDE DEF r
  <2>3. call' \in [Callers -> Calls] /\ reply' \in Replies
    BY <1>a, <2>1, <2>2, ReturnTyped
  <2> QED
    BY <2>2, <2>3, RunStep
<1>3. ASSUME NEW c \in Callers, EvalFails(c) PROVE IInv'
  <2>1. call' \in [Callers -> Calls] /\ reply' \in Replies
    BY <1>3, <1>a, ReturnTyped, TimeAssumption DEF EvalFails
  <2>2. CASE UNCHANGED <<bucket, birth, spent, rewound>>
    BY <2>1, <2>2, BucketKept
  <2>3. CASE Run(call[c].age)
    BY <2>1, <2>3, RunStep
  <2> QED
    BY <1>3, <2>2, <2>3 DEF EvalFails
<1>4. ASSUME NEW c \in Callers, EvalRepeats(c) PROVE IInv'
  <2>1. call[c].repeats + 1 \in 0 .. Retries
    BY <1>4, <1>a, CallAge, BoundAssumption DEF EvalRepeats
  <2>2. [call[c] EXCEPT !.repeats = call[c].repeats + 1] \in Calls
    BY <1>a, <2>1, CallAge DEF Calls
  <2>3. call' \in [Callers -> Calls]
    BY <1>4, <1>a, <2>2 DEF EvalRepeats, TypeOK
  <2> QED
    BY <1>4, <1>b, <2>3, RunStep DEF EvalRepeats
<1>5. CASE Tick
  BY <1>5, TickStep
<1>6. CASE UNCHANGED vars
  BY <1>6, <1>a, BucketKept DEF vars, TypeOK
<1> QED
  BY <1>1, <1>2, <1>3, <1>4, <1>5, <1>6 DEF Next

\* The inductive invariant holds in every state, whatever fails.
THEOREM Invariance == Spec => []IInv
BY InvInit, InvStep, PTL DEF Spec

\* Whatever fails and however the callers' clocks disagree, what the script
\* stores is never below zero nor above what a full bucket has left after a
\* request.
THEOREM TypeCorrectness == Spec => []TypeOK
<1>1. IInv => TypeOK
  BY DEF IInv
<1> QED
  BY <1>1, Invariance, PTL

\* Over a bucket's whole life, the tokens it gives out are at most its capacity
\* and the refill of the time that went by, counting twice what refusals of
\* older callers moved last_refill back by.
THEOREM ConservationHolds == Spec => []Conservation
<1>1. IInv => Conservation
  BY DEF IInv
<1> QED
  BY <1>1, Invariance, PTL

-----------------------------------------------------------------------------
(* The reset time.                                                          *)

\* CeilDiv rounds up.
LEMMA CeilDivBound ==
    ASSUME NEW a \in Int, NEW b \in Nat \ {0}
    PROVE  b * CeilDiv(a, b) \in Int /\ b * CeilDiv(a, b) >= a
<1> DEFINE q == (-a) \div b
<1>1. q \in Int /\ b * q <= -a
  OBVIOUS
<1>2. CeilDiv(a, b) = -q
  BY DEF CeilDiv
<1> HIDE DEF q
<1>3. b * (-q) = -(b * q) /\ b * q \in Int
  BY <1>1
<1> QED
  BY <1>1, <1>2, <1>3

\* Once the units that are missing for a token have come in there is a token.
LEMMA WaitFromEnough ==
    ASSUME NEW units \in Int
    PROVE  /\ WaitFrom(units) \in Int
           /\ units + Rate * WaitFrom(units) >= Window
<1> DEFINE missing == Window - units
           wait == WaitFrom(units)
           got == Rate * wait
<1>1. missing \in Int /\ Window \in Int /\ Rate \in Nat \ {0}
  BY TimeAssumption, RateAssumption
<1>2. wait = CeilDiv(missing, Rate)
  BY DEF WaitFrom
<1> HIDE DEF missing, wait
<1>3. wait \in Int /\ got \in Int /\ got >= missing
  BY <1>1, <1>2, CeilDivType, CeilDivBound
<1> HIDE DEF got
<1>4. units + got >= Window
  BY <1>1, <1>3 DEF missing
<1> QED
  BY <1>3, <1>4 DEF got, wait

\* A full bucket, less one token, has another one after a token's refill even if
\* that is rounded down: it has one already unless the rate is one.
LEMMA CreatedEnough == Full - Window + Rate * (Window \div Rate) >= Window
<1>1. Window \in Nat /\ Rate \in Nat \ {0} /\ Full \in Int
  BY TimeAssumption, RateAssumption, FullFacts
<1>2. CASE Rate = 1
  <2>1. Full = Window /\ Window \div Rate = Window /\ Rate * Window = Window
    BY <1>1, <1>2 DEF Full
  <2> QED
    BY <1>1, <2>1
<1>3. CASE Rate # 1
  <2>1. Rate - 2 \in Nat /\ Full = (Rate - 2) * Window + 2 * Window
    BY <1>1, <1>3 DEF Full
  <2>2. (Rate - 2) * Window \in Nat
    BY <1>1, <2>1
  <2>3. Window \div Rate \in Nat
    BY <1>1
  <2>4. Rate * (Window \div Rate) \in Nat
    BY <1>1, <2>3
  <2> HIDE DEF Full
  <2> QED
    BY <1>1, <2>1, <2>2, <2>4
<1> QED
  BY <1>2, <1>3

\* What a script that allows a request leaves has a token at its reset time.
LEMMA ScriptResetEnough ==
    ASSUME Typed, NEW age \in Nat, Script(bucket, age).verdict = "allowed"
    PROVE  /\ Script(bucket, age).bucket.age = age
           /\ Script(bucket, age).bucket.units \in Int
           /\ Script(bucket, age).reset \in Int
           /\ Script(bucket, age).bucket.units + Rate * Script(bucket, age).reset >= Window
<1> DEFINE left == Refilled(bucket, age) - Window
<1>1. CASE ~bucket.live
  <2>1. /\ Script(bucket, age).bucket.age = age
        /\ Script(bucket, age).bucket.units = Full - Window
        /\ Script(bucket, age).reset = Window \div Rate
    BY <1>1 DEF Script, Created
  <2>2. Window \div Rate \in Int
    BY TimeAssumption, RateAssumption
  <2> QED
    BY <2>1, <2>2, FullFacts, CreatedEnough
<1>2. CASE bucket.live /\ Refilled(bucket, age) >= Window
  <2>1. left \in Int
    BY RefilledFacts, TimeAssumption DEF Typed
  <2> DEFINE after == [bucket EXCEPT !.units = left, !.age = age]
  <2>2. Script(bucket, age) = [bucket |-> after, verdict |-> "allowed", reset |-> WaitFrom(left)]
    BY <1>2 DEF Script, Spent
  <2>3. after.age = age /\ after.units = left
    BY DEF Typed, Buckets
  <2> HIDE DEF left, after
  <2>4. /\ Script(bucket, age).bucket = after
        /\ Script(bucket, age).reset = WaitFrom(left)
    BY <2>2
  <2> QED
    BY <2>1, <2>3, <2>4, WaitFromEnough
<1>3. CASE bucket.live /\ ~(Refilled(bucket, age) >= Window)
  BY <1>3 DEF Script, Refused
<1> QED
  BY <1>1, <1>2, <1>3

\* The reply of a call counts from now, the bucket's last_refill from the `now`
\* of the script: the two differ by the age of the call.
LEMMA ResetStep == IInv /\ ResetHasToken /\ [Next]_vars => ResetHasToken'
<1> SUFFICES ASSUME IInv, ResetHasToken, [Next]_vars PROVE ResetHasToken'
  OBVIOUS
<1>1. ASSUME NEW c \in Callers, Eval(c) PROVE ResetHasToken'
  <2> DEFINE age == call[c].age
             r == Script(bucket, age)
  <2>1. age \in Nat /\ Typed
    BY CallAge, TypeOKTyped DEF IInv
  <2>2. /\ bucket' = r.bucket
        /\ reply' = [verdict |-> r.verdict, reset |-> r.reset - age]
    BY <1>1 DEF Eval, Run, Return
  <2>3. CASE r.verdict = "allowed"
    <3>1. /\ r.bucket.age = age /\ r.bucket.units \in Int /\ r.reset \in Int
          /\ r.bucket.units + Rate * r.reset >= Window
      BY <2>1, <2>3, ScriptResetEnough
    <3> HIDE DEF r, age
    <3>2. bucket'.age + reply'.reset = r.reset
      BY <2>1, <2>2, <3>1
    <3>3. bucket'.units + Rate * (bucket'.age + reply'.reset) >= Window
      BY <2>2, <3>1, <3>2
    <3>4. Full >= Window
      BY FullFacts, TimeAssumption
    <3> QED
      BY <3>3, <3>4 DEF ResetHasToken, AvailableAfter, AtMost, Full
  <2>4. CASE r.verdict # "allowed"
    BY <2>2, <2>4 DEF ResetHasToken
  <2> QED
    BY <2>3, <2>4
<1>2. ASSUME NEW c \in Callers, Begin(c) \/ EvalRepeats(c) PROVE ResetHasToken'
  BY <1>2 DEF Begin, EvalRepeats, ResetHasToken, NoReply
<1>3. ASSUME NEW c \in Callers, EvalFails(c) PROVE ResetHasToken'
  BY <1>3 DEF EvalFails, Return, ResetHasToken
<1>4. CASE Tick
  BY <1>4 DEF Tick, ResetHasToken, NoReply
<1>5. CASE UNCHANGED vars
  BY <1>5 DEF vars, ResetHasToken, AvailableAfter, Full
<1> QED
  BY <1>1, <1>2, <1>3, <1>4, <1>5 DEF Next

\* The reset time of an allowed request is never early, whatever the rate and the
\* window, and however late the script ran after the caller took the time.
THEOREM ResetHasTokenHolds == Spec => []ResetHasToken
<1>1. Init => ResetHasToken
  BY DEF Init, NoReply, ResetHasToken
<1> QED
  BY <1>1, Invariance, ResetStep, PTL DEF Spec
=============================================================================
