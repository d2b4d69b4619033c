---------------------- MODULE IdempotencyStoreProofs ----------------------
(***************************************************************************)
(* Theorems about IdempotencyStore, for every number of requests, TTLs,    *)
(* number of mishaps and set of faults, and their proofs.                  *)
(***************************************************************************)
EXTENDS IdempotencyStore, TLAPS

-----------------------------------------------------------------------------
(* The invariant.                                                           *)

\* Undisturbed, a request in the middle has the lock, and a lease that runs as
\* long as the lock's entry does.
HolderHasLock ==
    ~disturbed => \A r \in Critical : lock.held /\ lock.ttl = req[r].lease

\* A handler that has started is running, or its response is stored.
RunsAccounted ==
    runs # 0 => record.live \/ \E r \in Requests : req[r].pc \in {"handle", "store"}

\* Undisturbed, the record beside a running handler is that handler's.
OwnRecord ==
    ~disturbed => \A r \in Requests :
        req[r].pc \in {"handle", "store"} /\ record.live => record.of = r

IInv == TypeOK /\ HolderHasLock /\ Exclusive /\ RunsAccounted /\ OwnRecord

-----------------------------------------------------------------------------
(* The commands and the caller's steps.                                     *)

LEMMA CommandTypes ==
    /\ Taken \in Locks /\ Taken.held /\ Taken.ttl = LockTTL /\ LockTTL > 0
    /\ NoLock \in Locks /\ ~NoLock.held /\ NoLock.ttl = 0
    /\ NoRecord \in Records /\ ~NoRecord.live /\ NoRecord.ttl = 0
    /\ \A r \in Requests : /\ Recorded(r) \in Records /\ Recorded(r).live
                           /\ Recorded(r).ttl # 0 /\ Recorded(r).of = r
<1>1. Expiry(RecordTTL) \in {NoTTL} \cup 0 .. RecordTTL /\ Expiry(RecordTTL) # 0
  BY TTLAssumption DEF Expiry, NoTTL
<1>2. LockTTL \in 0 .. LockTTL /\ 0 \in 0 .. LockTTL /\ LockTTL > 0
  BY TTLAssumption
<1>3. Taken \in Locks /\ Taken.held /\ Taken.ttl = LockTTL
  BY <1>2 DEF Taken, Locks
<1>4. NoLock \in Locks /\ ~NoLock.held /\ NoLock.ttl = 0
  BY <1>2 DEF NoLock, Locks
<1>5. NoRecord \in Records /\ ~NoRecord.live /\ NoRecord.ttl = 0
  BY TTLAssumption DEF NoRecord, Records, Responses
<1>6. ASSUME NEW r \in Requests
      PROVE  /\ Recorded(r) \in Records /\ Recorded(r).live
             /\ Recorded(r).ttl # 0 /\ Recorded(r).of = r
  BY <1>1 DEF Recorded, Records, Responses
<1> QED
  BY <1>2, <1>3, <1>4, <1>5, <1>6

LEMMA LockedTypes ==
    ASSUME TypeOK
    PROVE  Locked \in Locks /\ (Locked.held <=> Locked.ttl > 0)
BY CommandTypes DEF TypeOK, Locked

\* What GoTo does to the requests.
LEMMA GoToFacts ==
    ASSUME TypeOK, NEW r \in Requests, NEW pc \in Steps, NEW answer \in Responses,
           NEW lease \in 0 .. LockTTL, NEW disturbs \in BOOLEAN,
           GoTo(r, pc, answer, lease, disturbs)
    PROVE  /\ req' \in [Requests -> Reqs]
           /\ req'[r].pc = pc /\ req'[r].answer = answer /\ req'[r].lease = lease
           /\ \A s \in Requests : s # r => req'[s] = req[s]
           /\ disturbed' \in BOOLEAN
           /\ ~disturbed' => Critical' = {} \/ (~disturbed /\ ~disturbs)
           /\ disturbed' => disturbed \/ disturbs
<1>1. [pc |-> pc, answer |-> answer, lease |-> lease] \in Reqs
  BY DEF Reqs
<1>2. req' = [req EXCEPT ![r] = [pc |-> pc, answer |-> answer, lease |-> lease]]
  BY DEF GoTo
<1>3. disturbed' = (Critical' # {} /\ (disturbed \/ disturbs))
  BY DEF GoTo
<1> QED
  BY <1>1, <1>2, <1>3, Zenon DEF TypeOK

LEMMA ReqTypes ==
    ASSUME TypeOK, NEW r \in Requests
    PROVE  /\ req[r] \in Reqs
           /\ req[r].pc \in Steps /\ req[r].answer \in Responses
           /\ req[r].lease \in 0 .. LockTTL
BY DEF TypeOK, Reqs

-----------------------------------------------------------------------------
(* The lock: steps that keep HolderHasLock and Exclusive.                   *)

\* A request moves on with its lease and takes nothing.
LEMMA MovesOn ==
    ASSUME IInv, NEW r \in Requests, NEW pc \in Steps, NEW answer \in Responses,
           GoTo(r, pc, answer, req[r].lease, FALSE), lock' = lock,
           pc \in CriticalSteps => req[r].pc \in CriticalSteps
    PROVE  (HolderHasLock /\ Exclusive)'
<1>1. TypeOK /\ HolderHasLock /\ Exclusive
  BY DEF IInv
<1>2. req[r].lease \in 0 .. LockTTL
  BY <1>1, ReqTypes
<1>3. /\ req'[r].pc = pc /\ req'[r].lease = req[r].lease
      /\ \A s \in Requests : s # r => req'[s] = req[s]
      /\ ~disturbed' => Critical' = {} \/ ~disturbed
  BY <1>1, <1>2, GoToFacts
<1>4. \A s \in Critical' : s \in Critical /\ req'[s].lease = req[s].lease
  BY <1>3 DEF Critical
<1>5. HolderHasLock'
  BY <1>1, <1>3, <1>4 DEF HolderHasLock
<1>6. Exclusive'
  BY <1>1, <1>3, <1>4 DEF Exclusive
<1> QED
  BY <1>5, <1>6

\* A request ends, gives up or dies, having taken, released or left the lock.
LEMMA Leaves ==
    ASSUME IInv, NEW r \in Requests, NEW pc \in Steps \ CriticalSteps,
           NEW answer \in Responses, GoTo(r, pc, answer, 0, FALSE),
           \/ lock' = lock \/ lock' = Locked
           \/ lock' = NoLock /\ req[r].pc \in CriticalSteps
    PROVE  (HolderHasLock /\ Exclusive)'
<1>1. TypeOK /\ HolderHasLock /\ Exclusive
  BY DEF IInv
<1>2. 0 \in 0 .. LockTTL
  BY TTLAssumption
<1>3. /\ req'[r].pc = pc
      /\ \A s \in Requests : s # r => req'[s] = req[s]
      /\ ~disturbed' => Critical' = {} \/ ~disturbed
  BY <1>1, <1>2, GoToFacts
<1>4. \A s \in Critical' : s \in Critical /\ s # r /\ req'[s] = req[s]
  BY <1>3 DEF Critical
<1>5. Exclusive'
  BY <1>1, <1>3, <1>4 DEF Exclusive
<1>6. ASSUME ~disturbed', NEW s \in Critical' PROVE lock'.held /\ lock'.ttl = req'[s].lease
  <2>1. ~disturbed /\ s \in Critical /\ s # r /\ req'[s] = req[s]
    BY <1>3, <1>4, <1>6
  <2>2. lock.held /\ lock.ttl = req[s].lease
    BY <1>1, <2>1 DEF HolderHasLock
  <2>3. req[r].pc \notin CriticalSteps
    BY <1>1, <2>1 DEF Exclusive, Critical
  <2>4. lock' = lock
    BY <2>2, <2>3 DEF Locked, Free
  <2> QED
    BY <2>1, <2>2, <2>4
<1> QED
  BY <1>5, <1>6 DEF HolderHasLock

\* A request takes a free lock.
LEMMA TakesLock ==
    ASSUME IInv, NEW r \in Requests, Free, lock' = Taken,
           GoTo(r, "recheck", Nobody, LockTTL, FALSE)
    PROVE  (HolderHasLock /\ Exclusive)'
<1>1. TypeOK /\ HolderHasLock /\ Exclusive
  BY DEF IInv
<1>2. LockTTL \in 0 .. LockTTL /\ "recheck" \in Steps /\ Nobody \in Responses
  BY TTLAssumption DEF Steps, CriticalSteps, Responses
<1>3. /\ req'[r].lease = LockTTL
      /\ \A s \in Requests : s # r => req'[s] = req[s]
      /\ ~disturbed' => Critical' = {} \/ ~disturbed
  BY <1>1, <1>2, GoToFacts
<1>4. ~disturbed => Critical = {}
  BY <1>1 DEF HolderHasLock, Free
<1>5. ~disturbed' => \A s \in Critical' : s = r
  BY <1>3, <1>4 DEF Critical
<1>6. HolderHasLock'
  BY <1>3, <1>5, CommandTypes DEF HolderHasLock
<1>7. Exclusive'
  BY <1>5 DEF Exclusive
<1> QED
  BY <1>6, <1>7

-----------------------------------------------------------------------------
(* The record: steps that keep RunsAccounted and OwnRecord.                 *)

Running(r) == req[r].pc \in {"handle", "store"}

\* A request moves on without starting or ending a handler.
LEMMA NoHandler ==
    ASSUME IInv, NEW r \in Requests, NEW pc \in Steps, NEW answer \in Responses,
           NEW lease \in 0 .. LockTTL, NEW disturbs \in BOOLEAN,
           GoTo(r, pc, answer, lease, disturbs), UNCHANGED <<record, runs>>,
           Running(r) => pc \in {"handle", "store"} \/ record.live,
           pc \in {"handle", "store"} => Running(r)
    PROVE  (RunsAccounted /\ OwnRecord)'
<1>1. TypeOK /\ RunsAccounted /\ OwnRecord
  BY DEF IInv
<1>2. /\ req'[r].pc = pc
      /\ \A s \in Requests : s # r => req'[s] = req[s]
      /\ ~disturbed' => Critical' = {} \/ ~disturbed
  BY <1>1, GoToFacts
<1>3. RunsAccounted'
  <2> SUFFICES ASSUME runs' # 0, ~record'.live
               PROVE  \E s \in Requests : req'[s].pc \in {"handle", "store"}
    BY DEF RunsAccounted
  <2>1. PICK s \in Requests : Running(s)
    BY <1>1 DEF RunsAccounted, Running
  <2> QED
    BY <1>2, <2>1 DEF Running
<1>4. OwnRecord'
  <2> SUFFICES ASSUME ~disturbed', NEW s \in Requests,
                      req'[s].pc \in {"handle", "store"}, record'.live
               PROVE  record'.of = s
    BY DEF OwnRecord
  <2>1. s \in Critical'
    BY DEF Critical, CriticalSteps
  <2>2. ~disturbed
    BY <1>2, <2>1
  <2>3. Running(s)
    BY <1>2 DEF Running
  <2> QED
    BY <1>1, <2>2, <2>3 DEF OwnRecord, Running
<1> QED
  BY <1>3, <1>4

\* A handler starts after a miss under the lock.
LEMMA StartsHandler ==
    ASSUME IInv, NEW r \in Requests, ~record.live, record' = record,
           GoTo(r, "handle", Nobody, req[r].lease, FALSE)
    PROVE  (RunsAccounted /\ OwnRecord)'
<1>1. TypeOK /\ req[r].lease \in 0 .. LockTTL
  BY ReqTypes DEF IInv
<1>2. "handle" \in Steps /\ Nobody \in Responses
  BY DEF Steps, CriticalSteps, Responses
<1>3. req'[r].pc = "handle"
  BY <1>1, <1>2, GoToFacts
<1> QED
  BY <1>3 DEF RunsAccounted, OwnRecord

\* A response is stored: undisturbed, no other handler is running.
LEMMA Stores ==
    ASSUME IInv, NEW r \in Requests, req[r].pc = "store", record' = Recorded(r),
           \/ GoTo(r, "unlock", r, req[r].lease, FALSE)
           \/ UNCHANGED <<req, disturbed>>
    PROVE  (RunsAccounted /\ OwnRecord)'
<1>1. TypeOK /\ Exclusive /\ req[r].lease \in 0 .. LockTTL
  BY ReqTypes DEF IInv
<1>2. record'.live /\ record'.of = r
  BY CommandTypes
<1>3. "unlock" \in Steps /\ r \in Responses
  BY DEF Steps, CriticalSteps, Responses
<1>4. /\ \A s \in Requests : s # r => req'[s] = req[s]
      /\ ~disturbed' => Critical' = {} \/ ~disturbed
  <2>1. CASE GoTo(r, "unlock", r, req[r].lease, FALSE)
    BY <1>1, <1>3, <2>1, GoToFacts
  <2>2. CASE UNCHANGED <<req, disturbed>>
    BY <2>2
  <2> QED
    BY <2>1, <2>2
<1>5. ASSUME ~disturbed', NEW s \in Requests, req'[s].pc \in {"handle", "store"}
      PROVE  s = r
  <2>1. s \in Critical'
    BY <1>5 DEF Critical, CriticalSteps
  <2>2. ~disturbed
    BY <1>4, <1>5, <2>1
  <2>3. s # r => s \in Critical /\ r \in Critical
    BY <1>4, <1>5 DEF Critical, CriticalSteps
  <2> QED
    BY <1>1, <2>2, <2>3 DEF Exclusive
<1> QED
  BY <1>2, <1>5 DEF RunsAccounted, OwnRecord

\* A response is lost: nobody counts on the handlers so far.
LEMMA Forgets ==
    ASSUME IInv, NEW r \in Requests, NEW pc \in Steps \ {"handle", "store"},
           NEW answer \in Responses, NEW lease \in 0 .. LockTTL,
           GoTo(r, pc, answer, lease, FALSE), runs' = 0, record' = record
    PROVE  (RunsAccounted /\ OwnRecord)'
<1>1. TypeOK /\ OwnRecord
  BY DEF IInv
<1>2. /\ req'[r].pc = pc
      /\ \A s \in Requests : s # r => req'[s] = req[s]
      /\ ~disturbed' => Critical' = {} \/ ~disturbed
  BY <1>1, GoToFacts
<1>3. OwnRecord'
  <2> SUFFICES ASSUME ~disturbed', NEW s \in Requests,
                      req'[s].pc \in {"handle", "store"}, record'.live
               PROVE  record'.of = s
    BY DEF OwnRecord
  <2>1. s \in Critical' /\ s # r
    BY <1>2 DEF Critical, CriticalSteps
  <2> QED
    BY <1>1, <1>2, <2>1 DEF OwnRecord
<1> QED
  BY <1>3 DEF RunsAccounted

-----------------------------------------------------------------------------
(* The steps.                                                               *)

LEMMA InvInit == Init => IInv
<1> SUFFICES ASSUME Init PROVE IInv
  OBVIOUS
<1>1. [pc |-> "start", answer |-> Nobody, lease |-> 0] \in Reqs
  BY TTLAssumption DEF Reqs, Steps, Responses
<1>2. TypeOK
  <2>1. mishaps \in 0 .. MaxMishaps /\ runs \in Nat
    BY BoundAssumption DEF Init
  <2>2. req \in [Requests -> Reqs] /\ disturbed \in BOOLEAN
    BY <1>1 DEF Init
  <2>3. /\ record \in Records /\ (record.live <=> record.ttl # 0)
        /\ lock \in Locks /\ (lock.held <=> lock.ttl > 0)
    BY CommandTypes DEF Init
  <2> QED
    BY <2>1, <2>2, <2>3 DEF TypeOK
<1>3. \A r \in Requests : req[r].pc = "start"
  BY DEF Init
<1>4. Critical = {}
  BY <1>3 DEF Critical, CriticalSteps
<1> QED
  BY <1>2, <1>3, <1>4 DEF Init, IInv, HolderHasLock, Exclusive, RunsAccounted, OwnRecord

LEMMA MishapTypes ==
    ASSUME TypeOK, NEW kind, Mishap(kind)
    PROVE  mishaps' \in 0 .. MaxMishaps
BY BoundAssumption DEF TypeOK, Mishap

\* Get, and its error.
LEMMA GetStep ==
    ASSUME IInv, NEW r \in Requests, Get(r) \/ GetFails(r)
    PROVE  IInv'
<1>1. TypeOK /\ req[r].lease \in 0 .. LockTTL /\ req[r].pc \in Steps
  BY ReqTypes DEF IInv
<1>2. /\ {"start", "lock", "done", "handle", "unlock"} \subseteq Steps
      /\ Nobody \in Responses /\ record.of \in Responses
  BY <1>1 DEF Steps, CriticalSteps, Responses, TypeOK, Records
<1>3. PICK pc \in {"start", "lock", "done", "handle", "unlock"}, answer \in Responses :
        /\ GoTo(r, pc, answer, req[r].lease, FALSE)
        /\ pc \in CriticalSteps => req[r].pc \in CriticalSteps
        /\ \/ pc # "handle" /\ runs' = runs
           \/ pc = "handle" /\ answer = Nobody /\ ~record.live /\ runs' = runs + 1
        /\ record' = record /\ lock' = lock
        /\ mishaps' = mishaps \/ Mishap("error")
        /\ ~Running(r)
  <2>1. CASE Get(r)
    BY <1>2, <2>1 DEF Get, Found, CriticalSteps, Running
  <2>2. CASE GetFails(r)
    BY <1>2, <2>2 DEF GetFails, CriticalSteps, Running
  <2> QED
    BY <2>1, <2>2
<1>4. pc \in Steps
  BY <1>2, <1>3
<1>5. (HolderHasLock /\ Exclusive)'
  BY <1>3, <1>4, MovesOn
<1>6. req' \in [Requests -> Reqs] /\ disturbed' \in BOOLEAN
  BY <1>1, <1>3, <1>4, GoToFacts
<1>7. TypeOK'
  BY <1>1, <1>3, <1>6, MishapTypes DEF TypeOK
<1>8. CASE pc # "handle"
  <2>1. (RunsAccounted /\ OwnRecord)'
    BY <1>1, <1>3, <1>4, <1>8, NoHandler
  <2> QED
    BY <1>5, <1>7, <2>1 DEF IInv
<1>9. CASE pc = "handle"
  <2>1. (RunsAccounted /\ OwnRecord)'
    BY <1>3, <1>9, StartsHandler
  <2> QED
    BY <1>5, <1>7, <2>1 DEF IInv
<1> QED
  BY <1>8, <1>9

\* Lock, its error and its repetition.
LEMMA LockStep ==
    ASSUME IInv, NEW r \in Requests, Lock(r) \/ LockFails(r) \/ LockRepeats(r)
    PROVE  IInv'
<1>1. TypeOK /\ Nobody \in Responses /\ req[r].pc = "lock"
  BY DEF IInv, Responses, Lock, LockFails, LockRepeats
<1>2. /\ "start" \in Steps \ CriticalSteps /\ "recheck" \in Steps
      /\ "start" \in Steps /\ 0 \in 0 .. LockTTL /\ LockTTL \in 0 .. LockTTL
  BY TTLAssumption DEF Steps, CriticalSteps
<1>3. /\ record' = record /\ runs' = runs
      /\ mishaps' \in 0 .. MaxMishaps
      /\ lock' = lock \/ lock' = Locked
  BY <1>1, MishapTypes DEF Lock, LockFails, LockRepeats, TypeOK
<1>4. lock' \in Locks /\ (lock'.held <=> lock'.ttl > 0)
  BY <1>1, <1>3, LockedTypes DEF TypeOK
<1>5. ~Running(r)
  BY <1>1 DEF Running
<1>6. CASE GoTo(r, "start", Nobody, 0, FALSE)
  <2>1. (HolderHasLock /\ Exclusive)'
    BY <1>1, <1>2, <1>3, <1>6, Leaves
  <2>2. (RunsAccounted /\ OwnRecord)'
    BY <1>1, <1>2, <1>3, <1>5, <1>6, NoHandler
  <2>3. req' \in [Requests -> Reqs] /\ disturbed' \in BOOLEAN
    BY <1>1, <1>2, <1>6, GoToFacts
  <2> QED
    BY <1>1, <1>3, <1>4, <2>1, <2>2, <2>3 DEF IInv, TypeOK
<1>7. CASE Lock(r) /\ Free
  <2>1. lock' = Taken /\ GoTo(r, "recheck", Nobody, LockTTL, FALSE)
    BY <1>7 DEF Lock, Locked
  <2>2. (HolderHasLock /\ Exclusive)'
    BY <1>7, <2>1, TakesLock
  <2>3. (RunsAccounted /\ OwnRecord)'
    BY <1>1, <1>2, <1>3, <1>5, <2>1, NoHandler
  <2>4. req' \in [Requests -> Reqs] /\ disturbed' \in BOOLEAN
    BY <1>1, <1>2, <2>1, GoToFacts
  <2> QED
    BY <1>1, <1>3, <1>4, <2>2, <2>3, <2>4 DEF IInv, TypeOK
<1>8. CASE LockRepeats(r)
  <2>1. UNCHANGED <<record, req, runs, disturbed>> /\ lock' = Locked
    BY <1>8 DEF LockRepeats
  <2>2. TypeOK'
    BY <1>1, <1>3, <1>4, <2>1 DEF TypeOK
  <2>3. (Exclusive /\ RunsAccounted /\ OwnRecord)'
    BY <2>1 DEF IInv, Exclusive, RunsAccounted, OwnRecord, Critical
  <2>4. HolderHasLock'
    BY <2>1 DEF IInv, HolderHasLock, Critical, Locked, Free
  <2> QED
    BY <2>2, <2>3, <2>4 DEF IInv
<1> QED
  BY <1>6, <1>7, <1>8 DEF Lock, LockFails

LEMMA HandleStep ==
    ASSUME IInv, NEW r \in Requests, Handle(r)
    PROVE  IInv'
<1>1. TypeOK /\ req[r].lease \in 0 .. LockTTL /\ Running(r)
  BY ReqTypes DEF IInv, Handle, Running
<1>2. "store" \in Steps /\ r \in Responses
  BY DEF Steps, CriticalSteps, Responses
<1>3. GoTo(r, "store", r, req[r].lease, FALSE) /\ UNCHANGED <<record, lock, mishaps, runs>>
  BY DEF Handle
<1>4. (HolderHasLock /\ Exclusive)'
  BY <1>2, <1>3, MovesOn DEF Handle, CriticalSteps
<1>5. (RunsAccounted /\ OwnRecord)'
  BY <1>1, <1>2, <1>3, NoHandler
<1>6. req' \in [Requests -> Reqs] /\ disturbed' \in BOOLEAN
  BY <1>1, <1>2, <1>3, GoToFacts
<1> QED
  BY <1>1, <1>3, <1>4, <1>5, <1>6 DEF IInv, TypeOK

\* Set, its error and its repetition.
LEMMA SetStep ==
    ASSUME IInv, NEW r \in Requests, Set(r) \/ SetFails(r) \/ SetRepeats(r)
    PROVE  IInv'
<1>1. TypeOK /\ req[r].lease \in 0 .. LockTTL /\ req[r].pc = "store"
  BY ReqTypes DEF IInv, Set, SetFails, SetRepeats
<1>2. "unlock" \in Steps /\ "unlock" \in Steps \ {"handle", "store"} /\ r \in Responses
  BY DEF Steps, CriticalSteps, Responses
<1>3. lock' = lock /\ mishaps' \in 0 .. MaxMishaps
  BY <1>1, MishapTypes DEF Set, SetFails, SetRepeats, TypeOK
<1>4. \/ record' = Recorded(r) /\ runs' = runs
      \/ record' = record /\ runs' = 0 /\ GoTo(r, "unlock", r, req[r].lease, FALSE)
  BY DEF Set, SetFails, SetRepeats
<1>5. record' \in Records /\ (record'.live <=> record'.ttl # 0) /\ runs' \in Nat
  <2>1. record \in Records /\ (record.live <=> record.ttl # 0) /\ runs \in Nat
    BY <1>1 DEF TypeOK
  <2>2. CASE record' = Recorded(r) /\ runs' = runs
    BY <2>1, <2>2, CommandTypes
  <2>3. CASE record' = record /\ runs' = 0
    BY <2>1, <2>3
  <2> QED
    BY <1>4, <2>2, <2>3
<1>6. \/ GoTo(r, "unlock", r, req[r].lease, FALSE)
      \/ UNCHANGED <<req, disturbed>>
  BY DEF Set, SetFails, SetRepeats
<1>7. (RunsAccounted /\ OwnRecord)'
  <2>1. CASE record' = Recorded(r)
    BY <1>1, <1>6, <2>1, Stores
  <2>2. CASE record' = record /\ runs' = 0 /\ GoTo(r, "unlock", r, req[r].lease, FALSE)
    BY <1>1, <1>2, <2>2, Forgets
  <2> QED
    BY <1>4, <2>1, <2>2
<1>8. CASE GoTo(r, "unlock", r, req[r].lease, FALSE)
  <2>1. (HolderHasLock /\ Exclusive)'
    BY <1>1, <1>2, <1>3, <1>8, MovesOn DEF CriticalSteps
  <2>2. req' \in [Requests -> Reqs] /\ disturbed' \in BOOLEAN
    BY <1>1, <1>2, <1>8, GoToFacts
  <2> QED
    BY <1>1, <1>3, <1>5, <1>7, <2>1, <2>2 DEF IInv, TypeOK
<1>9. CASE UNCHANGED <<req, disturbed>>
  <2>1. (HolderHasLock /\ Exclusive)'
    BY <1>3, <1>9 DEF IInv, HolderHasLock, Exclusive, Critical
  <2> QED
    BY <1>1, <1>3, <1>5, <1>7, <1>9, <2>1 DEF IInv, TypeOK
<1> QED
  BY <1>6, <1>8, <1>9

\* Unlock, its error and its repetition.
LEMMA UnlockStep ==
    ASSUME IInv, NEW r \in Requests, Unlock(r) \/ UnlockFails(r) \/ UnlockRepeats(r)
    PROVE  IInv'
<1>1. /\ TypeOK /\ req[r].lease \in 0 .. LockTTL /\ req[r].answer \in Responses
      /\ req[r].pc = "unlock"
  BY ReqTypes DEF IInv, Unlock, UnlockFails, UnlockRepeats
<1>2. /\ AfterUnlock(r) \in Steps \ CriticalSteps /\ AfterUnlock(r) \in Steps
      /\ AfterUnlock(r) \notin {"handle", "store"}
      /\ "unlock" \in Steps /\ 0 \in 0 .. LockTTL
  BY TTLAssumption DEF AfterUnlock, Steps, CriticalSteps
<1>3. /\ record' = record /\ runs' = runs /\ mishaps' \in 0 .. MaxMishaps
      /\ lock' = lock \/ lock' = NoLock
  BY <1>1, MishapTypes DEF Unlock, UnlockFails, UnlockRepeats, Unlocked, TypeOK
<1>4. lock' \in Locks /\ (lock'.held <=> lock'.ttl > 0)
  BY <1>1, <1>3, CommandTypes DEF TypeOK
<1>5. ~Running(r) /\ req[r].pc \in CriticalSteps
  BY <1>1 DEF Running, CriticalSteps
<1>6. CASE GoTo(r, AfterUnlock(r), req[r].answer, 0, FALSE)
  <2>1. (HolderHasLock /\ Exclusive)'
    BY <1>1, <1>2, <1>3, <1>5, <1>6, Leaves
  <2>2. (RunsAccounted /\ OwnRecord)'
    BY <1>1, <1>2, <1>3, <1>5, <1>6, NoHandler
  <2>3. req' \in [Requests -> Reqs] /\ disturbed' \in BOOLEAN
    BY <1>1, <1>2, <1>6, GoToFacts
  <2> QED
    BY <1>1, <1>3, <1>4, <2>1, <2>2, <2>3 DEF IInv, TypeOK
<1>7. CASE GoTo(r, "unlock", req[r].answer, req[r].lease, TRUE)
  <2>1. /\ req' \in [Requests -> Reqs] /\ disturbed' \in BOOLEAN
        /\ ~disturbed' => Critical' = {}
    BY <1>1, <1>2, <1>7, GoToFacts
  <2>2. (HolderHasLock /\ Exclusive)'
    BY <2>1 DEF HolderHasLock, Exclusive
  <2>3. (RunsAccounted /\ OwnRecord)'
    BY <1>1, <1>2, <1>3, <1>5, <1>7, NoHandler
  <2> QED
    BY <1>1, <1>3, <1>4, <2>1, <2>2, <2>3 DEF IInv, TypeOK
<1> QED
  BY <1>6, <1>7 DEF Unlock, UnlockFails, UnlockRepeats

LEMMA CrashStep ==
    ASSUME IInv, NEW r \in Requests, Crash(r)
    PROVE  IInv'
<1>1. TypeOK
  BY DEF IInv
<1>2. /\ "gone" \in Steps \ CriticalSteps /\ "gone" \in Steps
      /\ "gone" \in Steps \ {"handle", "store"}
      /\ 0 \in 0 .. LockTTL /\ Nobody \in Responses
  BY TTLAssumption DEF Steps, CriticalSteps, Responses
<1>3. /\ GoTo(r, "gone", Nobody, 0, FALSE)
      /\ record' = record /\ lock' = lock /\ mishaps' \in 0 .. MaxMishaps
      /\ runs' = IF Running(r) THEN 0 ELSE runs
  BY <1>1, MishapTypes DEF Crash, Running
<1>4. (HolderHasLock /\ Exclusive)'
  BY <1>2, <1>3, Leaves
<1>5. req' \in [Requests -> Reqs] /\ disturbed' \in BOOLEAN
  BY <1>1, <1>2, <1>3, GoToFacts
<1>6. CASE Running(r)
  <2>1. (RunsAccounted /\ OwnRecord)'
    BY <1>2, <1>3, <1>6, Forgets
  <2> QED
    BY <1>1, <1>3, <1>4, <1>5, <1>6, <2>1 DEF IInv, TypeOK
<1>7. CASE ~Running(r)
  <2>1. (RunsAccounted /\ OwnRecord)'
    BY <1>2, <1>3, <1>7, NoHandler
  <2> QED
    BY <1>1, <1>3, <1>4, <1>5, <1>7, <2>1 DEF IInv, TypeOK
<1> QED
  BY <1>6, <1>7

\* Entries and leases run out together.
LEMMA TickStep ==
    ASSUME IInv, Tick
    PROVE  IInv'
<1>1. TypeOK /\ HolderHasLock /\ Exclusive /\ RunsAccounted /\ OwnRecord
  BY DEF IInv
<1>2. \A r \in Requests :
        /\ req'[r].pc = req[r].pc
        /\ req'[r].lease = Less(req[r].lease)
        /\ req'[r] \in Reqs
  <2> SUFFICES ASSUME NEW r \in Requests
               PROVE  /\ req'[r].pc = req[r].pc
                      /\ req'[r].lease = Less(req[r].lease)
                      /\ req'[r] \in Reqs
    OBVIOUS
  <2>1. req'[r] = [req[r] EXCEPT !.lease = Less(req[r].lease)]
    BY DEF Tick
  <2>2. req[r] \in Reqs /\ req[r].lease \in 0 .. LockTTL
    BY <1>1, ReqTypes
  <2>3. Less(req[r].lease) \in 0 .. LockTTL
    BY <2>2, TTLAssumption DEF Less
  <2> QED
    BY <2>1, <2>2, <2>3 DEF Reqs
<1>3. req' \in [Requests -> Reqs]
  BY <1>2 DEF Tick
<1>4. Critical' = Critical
  BY <1>2 DEF Critical
<1>5. /\ record' \in Records /\ (record'.live <=> record'.ttl # 0)
      /\ record'.live => record.live /\ record'.of = record.of
      /\ record.live /\ ~record'.live => runs' = 0
      /\ runs' = runs \/ runs' = 0
  <2>1. record \in Records /\ (record.live <=> record.ttl # 0)
    BY <1>1 DEF TypeOK
  <2>2. CASE record.live /\ record.ttl # 1
    <3>1. record' = [record EXCEPT !.ttl = Left(record.ttl)] /\ runs' = runs
      BY <2>2 DEF Tick
    <3>2. record.ttl \in {NoTTL} \cup 0 .. RecordTTL /\ record.ttl # 0
      BY <2>1, <2>2 DEF Records
    <3>3. Left(record.ttl) \in {NoTTL} \cup 0 .. RecordTTL /\ Left(record.ttl) # 0
      BY <2>2, <3>2, TTLAssumption DEF Left, NoTTL
    <3> QED
      BY <2>1, <2>2, <3>1, <3>3 DEF Records
  <2>3. CASE ~(record.live /\ record.ttl # 1)
    <3>1. record' = NoRecord
      BY <2>3 DEF Tick
    <3>2. runs' = IF record.live /\ record.ttl = 1 THEN 0 ELSE runs
      BY DEF Tick
    <3> QED
      BY <2>3, <3>1, <3>2, CommandTypes
  <2> QED
    BY <2>2, <2>3
<1>6. /\ lock' \in Locks /\ (lock'.held <=> lock'.ttl > 0)
      /\ lock.held => lock'.ttl = lock.ttl - 1 /\ (lock'.held <=> lock.ttl # 1)
  <2>1. lock \in Locks /\ (lock.held <=> lock.ttl > 0)
    BY <1>1 DEF TypeOK
  <2>2. CASE lock.held /\ lock.ttl # 1
    <3>1. lock' = [lock EXCEPT !.ttl = Left(lock.ttl)]
      BY <2>2 DEF Tick
    <3>2. lock.ttl \in 2 .. LockTTL
      BY <2>1, <2>2, TTLAssumption DEF Locks
    <3>3. Left(lock.ttl) = lock.ttl - 1 /\ Left(lock.ttl) \in 1 .. LockTTL
      BY <3>2, TTLAssumption DEF Left, NoTTL
    <3> QED
      BY <2>1, <2>2, <3>1, <3>3, TTLAssumption DEF Locks
  <2>3. CASE ~(lock.held /\ lock.ttl # 1)
    <3>1. lock' = NoLock
      BY <2>3 DEF Tick
    <3> QED
      BY <2>3, <3>1, CommandTypes
  <2> QED
    BY <2>2, <2>3
<1>7. disturbed' = (disturbed \/ \E r \in Critical : req[r].lease = 1)
  BY DEF Tick
<1>8. HolderHasLock'
  <2> SUFFICES ASSUME ~disturbed', NEW r \in Critical'
               PROVE  lock'.held /\ lock'.ttl = req'[r].lease
    BY DEF HolderHasLock
  <2>1. r \in Critical /\ r \in Requests /\ ~disturbed /\ req[r].lease # 1
    BY <1>4, <1>7 DEF Critical
  <2>2. lock.held /\ lock.ttl = req[r].lease
    BY <1>1, <2>1 DEF HolderHasLock
  <2>3. lock.ttl \in 1 .. LockTTL
    BY <1>1, <2>2, TTLAssumption DEF TypeOK, Locks
  <2> QED
    BY <1>2, <1>6, <2>1, <2>2, <2>3, TTLAssumption DEF Less
<1>9. Exclusive'
  BY <1>1, <1>4, <1>7 DEF Exclusive
<1>10. (RunsAccounted /\ OwnRecord)'
  <2>1. RunsAccounted'
    BY <1>1, <1>2, <1>5 DEF RunsAccounted
  <2>2. OwnRecord'
    BY <1>1, <1>2, <1>5, <1>7 DEF OwnRecord
  <2> QED
    BY <2>1, <2>2
<1>11. TypeOK'
  <2>1. runs' \in Nat
    BY <1>1, <1>5 DEF TypeOK
  <2>2. disturbed' \in BOOLEAN
    BY <1>7
  <2>3. mishaps' \in 0 .. MaxMishaps
    BY <1>1 DEF Tick, TypeOK
  <2> QED
    BY <1>3, <1>5, <1>6, <2>1, <2>2, <2>3 DEF TypeOK
<1> QED
  BY <1>8, <1>9, <1>10, <1>11 DEF IInv

LEMMA InvStep == IInv /\ [Next]_vars => IInv'
<1> SUFFICES ASSUME IInv, [Next]_vars PROVE IInv'
  OBVIOUS
<1>1. CASE UNCHANGED vars
  <2>1. TypeOK'
    BY <1>1 DEF IInv, TypeOK, vars
  <2>2. (HolderHasLock /\ Exclusive /\ RunsAccounted /\ OwnRecord)'
    BY <1>1 DEF IInv, HolderHasLock, Exclusive, RunsAccounted, OwnRecord, Critical, vars
  <2> QED
    BY <2>1, <2>2 DEF IInv
<1> QED
  BY <1>1, GetStep, LockStep, HandleStep, SetStep, UnlockStep, CrashStep, TickStep DEF Next

-----------------------------------------------------------------------------
(* The theorems.                                                            *)

THEOREM Invariance == Spec => []IInv
BY InvInit, InvStep, PTL DEF Spec

\* Values are of their types, and a lock never stays without an expiry,
\* whatever fails.
THEOREM TypeCorrectness == Spec => []TypeOK
<1>1. IInv => TypeOK
  BY DEF IInv
<1> QED
  BY <1>1, Invariance, PTL

\* However commands fail, repeat or get lost and servers die, two requests are
\* between Lock and Unlock only if a lease lapsed under its holder, or an
\* Unlock was repeated.
THEOREM LockIsExclusive == Spec => []Exclusive
<1>1. IInv => Exclusive
  BY DEF IInv
<1> QED
  BY <1>1, Invariance, PTL

\* Under the same condition a handler does not start while another runs or
\* its response is stored.
THEOREM HandledOnce == Spec => AtMostOnce
<1> DEFINE Once == \A r \in Requests :
              req[r].pc = "recheck" /\ req'[r].pc = "handle" => runs = 0 \/ disturbed
<1>1. IInv /\ [Next]_vars => [Once]_vars
  <2> SUFFICES ASSUME IInv, Next, NEW r \in Requests,
                      req[r].pc = "recheck", req'[r].pc = "handle",
                      runs # 0, ~disturbed
               PROVE  FALSE
    OBVIOUS
  <2>1. TypeOK /\ Exclusive /\ RunsAccounted
    BY DEF IInv
  <2>2. ~record.live
    <3>1. ASSUME NEW s \in Requests, Get(s) PROVE ~record.live
      <4>1. s = r
        BY <2>1, <3>1 DEF Get, GoTo, TypeOK
      <4> QED
        BY <2>1, <3>1, <4>1 DEF Get, GoTo, Found, TypeOK
    <3>2. ASSUME NEW s \in Requests,
                 \/ Lock(s) \/ Handle(s) \/ Set(s) \/ Unlock(s)
                 \/ GetFails(s) \/ LockFails(s) \/ LockRepeats(s) \/ SetFails(s)
                 \/ SetRepeats(s) \/ UnlockFails(s) \/ UnlockRepeats(s) \/ Crash(s)
          PROVE  FALSE
      <4>1. \/ req' = req
            \/ \E pc, answer, lease : /\ req' = [req EXCEPT ![s] =
                                           [pc |-> pc, answer |-> answer, lease |-> lease]]
                                      /\ pc # "handle"
        BY <3>2 DEF Lock, Handle, Set, Unlock, AfterUnlock, GetFails, LockFails,
             LockRepeats, SetFails, SetRepeats, UnlockFails, UnlockRepeats, Crash, GoTo
      <4> QED
        BY <2>1, <4>1 DEF TypeOK
    <3>3. CASE Tick
      BY <2>1, <3>3 DEF Tick, TypeOK, Reqs
    <3> QED
      BY <3>1, <3>2, <3>3 DEF Next
  <2>3. PICK s \in Requests : req[s].pc \in {"handle", "store"}
    BY <2>1, <2>2 DEF RunsAccounted
  <2>4. r \in Critical /\ s \in Critical /\ r # s
    BY <2>3 DEF Critical, CriticalSteps
  <2> QED
    BY <2>1, <2>4 DEF Exclusive
<1> QED
  BY <1>1, Invariance, PTL DEF Spec, AtMostOnce

\* Under the same condition a stored response stays the one that every
\* repetition of the request gets, until it expires.
THEOREM ResponseKept == Spec => StoredOnce
<1> DEFINE Kept == record.live /\ record'.live => record'.of = record.of \/ disturbed
<1>1. IInv /\ [Next]_vars => [Kept]_vars
  <2> SUFFICES ASSUME IInv, Next, record.live, record'.live, ~disturbed
               PROVE  record'.of = record.of
    OBVIOUS
  <2>1. TypeOK /\ OwnRecord
    BY DEF IInv
  <2>2. ASSUME NEW r \in Requests, req[r].pc = "store", record' = Recorded(r)
        PROVE  record'.of = record.of
    BY <2>1, <2>2, CommandTypes DEF OwnRecord
  <2>3. CASE Tick
    BY <2>1, <2>3, CommandTypes DEF Tick, TypeOK, Records
  <2>4. \/ Tick \/ record' = record
        \/ \E r \in Requests : req[r].pc = "store" /\ record' = Recorded(r)
    BY DEF Next, Get, Lock, Handle, Set, Unlock, GetFails, LockFails, LockRepeats,
         SetFails, SetRepeats, UnlockFails, UnlockRepeats, Crash
  <2> QED
    BY <2>2, <2>3, <2>4
<1> QED
  BY <1>1, Invariance, PTL DEF Spec, StoredOnce
=============================================================================
