-------------------------- MODULE TokenRevocation --------------------------
(***************************************************************************)
(* Revocation of tokens and sessions: Revoke and IsRevoked of the JWT      *)
(* token store (src/middleware/jwtauth/token_store.go), through the        *)
(* StorageAdapter (store.go), on the Redis storage (src/storage/redis.go). *)
(*                                                                         *)
(* Revoke is up to two Sets, IsRevoked up to two Gets, with other callers  *)
(* and the clock before, between and after them.  Time is relative: a      *)
(* token has the ticks left until its exp, an entry those left of its TTL. *)
(*                                                                         *)
(* A token is the record of the claims that matter: sub, jti, sid and exp, *)
(* None where a claim is missing, is empty or is not of its type: a string, *)
(* for exp a number, as in the claims that Validate returns.               *)
(***************************************************************************)
EXTENDS Integers

CONSTANTS
    Callers,    \* requests that may be in the token store at the same time
    Tokens,     \* the tokens there are: a set of claims
    None,       \* the value of a claim that is missing
    Horizon,    \* no exp is later than this
    Faults      \* what may go wrong: a subset of FaultKinds

\* "error": an operation of the storage fails; "lost": it is done and
\* reported as failed; "retried": it is done again, its first reply lost;
\* "crash": the caller dies.
FaultKinds == {"error", "lost", "retried", "crash"}

ASSUME HorizonAssumption == Horizon \in Nat
ASSUME TokensAssumption ==
    \A t \in Tokens : t.exp = None \/ t.exp \in 1 .. Horizon
ASSUME NoneAssumption == None \notin Int
ASSUME FaultAssumption == Faults \subseteq FaultKinds

VARIABLES
    storage,    \* the TTL of each entry of the storage, or Absent
    life,       \* for each token the ticks until its exp
    call,       \* for each caller the next operation, its token and TTL
    reply,      \* what the last step answered to IsRevoked
    begun,      \* history: tokens a Revoke was called for
    revoked     \* history: tokens a Revoke was done for without an error

vars == <<storage, life, call, reply, begun, revoked>>

Absent == 0

\* The TTL of an entry that does not expire, the life of a token without exp.
Forever == -1

-----------------------------------------------------------------------------
(* Names of entries.                                                        *)

\* (Mutation of TokenKey: the subject is left out.)
TokenKeyNoSub(t) ==
    IF t.jti # None THEN <<None, t.jti>>
    ELSE IF t.sid # None THEN <<None, t.sid>>
    ELSE <<None, IF t.exp = None THEN 0 ELSE t.exp>>

\* defaultTokenKeyFunc: sub:jti, or sub:sid, or sub:exp.
TokenKey(t) ==
    IF t.jti # None THEN <<t.sub, t.jti>>
    ELSE IF t.sid # None THEN <<t.sub, t.sid>>
    ELSE <<t.sub, IF t.exp = None THEN 0 ELSE t.exp>>

TokenName(t) == <<"token", TokenKey(t)>>
SessionName(t) == <<"session", <<t.sid, None>>>>

HasSession(t) == t.sid # None

NamesOf(t) == {TokenName(t)} \cup (IF HasSession(t) THEN {SessionName(t)} ELSE {})

Names == UNION {NamesOf(t) : t \in Tokens}

\* Tokens that share an entry expire together: then a session's entry does not
\* lose by the revocation of another of its tokens.
EntriesAgree == \A t, u \in Tokens : NamesOf(t) \cap NamesOf(u) # {} => t.exp = u.exp

-----------------------------------------------------------------------------
(* TTLs.                                                                    *)

\* The life of a token without exp does not end.
Alive(t) == life[t] # 0

\* (Mutation of CalculateTTL: a second is subtracted for safety.)
CalculateTTLShort(t) == IF life[t] > 1 THEN life[t] - 1 ELSE 0

\* (Mutation of CalculateTTL: what is left of an endless life is not cut to 0.)
CalculateTTLUnclamped(t) == life[t]

\* calculateTTL: 0 for a token without exp, and for one that has expired.
CalculateTTL(t) == IF life[t] > 0 THEN life[t] ELSE 0

\* Set: a TTL of 0 is no expiry.  What the client cuts off a duration, down to a
\* millisecond, is less than a tick.
Put(name, ttl) ==
    storage' = [storage EXCEPT ![name] = IF ttl = 0 THEN Forever ELSE ttl]

Present(name) == storage[name] # Absent

-----------------------------------------------------------------------------
(* What a caller is doing.  `by` is history: the tokens revoked before an   *)
(* IsRevoked was called that share an entry with its token.                 *)

Idle == [pc |-> "idle", t |-> None, ttl |-> 0, by |-> {}]
NoReply == [result |-> "none", t |-> None, by |-> {}]

SameSession(t, u) == HasSession(t) /\ t.sid = u.sid
Covers(u, t) == u = t \/ SameSession(u, t)

Init ==
    /\ storage = [n \in Names |-> Absent]
    /\ life = [t \in Tokens |-> IF t.exp = None THEN Forever ELSE t.exp]
    /\ call = [c \in Callers |-> Idle]
    /\ reply = NoReply
    /\ begun = {}
    /\ revoked = {}

Done(c) == call' = [call EXCEPT ![c] = Idle]

\* Revoke computes the TTL of the token's entry and calls Set.
Revoke(c, t) ==
    /\ call[c].pc = "idle"
    /\ call' = [call EXCEPT ![c] =
                  [pc |-> "setToken", t |-> t, ttl |-> CalculateTTL(t), by |-> {}]]
    /\ begun' = begun \cup {t}
    /\ reply' = NoReply
    /\ UNCHANGED <<storage, life, revoked>>

\* RevokeToken.  A session's entry has a TTL of its own, computed now.
SetToken(c) ==
    /\ call[c].pc = "setToken"
    /\ LET t == call[c].t
       IN  /\ Put(TokenName(t), call[c].ttl)
           /\ IF HasSession(t)
                THEN /\ call' = [call EXCEPT ![c] =
                                   [pc |-> "setSession", t |-> t,
                                    ttl |-> CalculateTTL(t), by |-> {}]]
                     /\ UNCHANGED revoked
                ELSE Done(c) /\ revoked' = revoked \cup {t}
    /\ reply' = NoReply
    /\ UNCHANGED <<life, begun>>

\* RevokeSession.
SetSession(c) ==
    /\ call[c].pc = "setSession"
    /\ LET t == call[c].t
       IN  Put(SessionName(t), call[c].ttl) /\ revoked' = revoked \cup {t}
    /\ Done(c)
    /\ reply' = NoReply
    /\ UNCHANGED <<life, begun>>

\* IsRevoked looks for the session first.
IsRevoked(c, t) ==
    /\ call[c].pc = "idle"
    /\ call' = [call EXCEPT ![c] =
                  [pc |-> IF HasSession(t) THEN "getSession" ELSE "getToken",
                   t |-> t, ttl |-> 0, by |-> {u \in revoked : Covers(u, t)}]]
    /\ reply' = NoReply
    /\ UNCHANGED <<storage, life, begun, revoked>>

Answer(c, result) ==
    /\ Done(c)
    /\ reply' = [result |-> result, t |-> call[c].t, by |-> call[c].by]

\* IsSessionRevoked.
GetSession(c) ==
    /\ call[c].pc = "getSession"
    /\ IF Present(SessionName(call[c].t))
         THEN Answer(c, "revoked")
         ELSE call' = [call EXCEPT ![c].pc = "getToken"] /\ reply' = NoReply
    /\ UNCHANGED <<storage, life, begun, revoked>>

\* IsTokenRevoked.
GetToken(c) ==
    /\ call[c].pc = "getToken"
    /\ Answer(c, IF Present(TokenName(call[c].t)) THEN "revoked" ELSE "valid")
    /\ UNCHANGED <<storage, life, begun, revoked>>

\* One tick of the clock: an entry whose TTL runs out is gone.
Less(n) == IF n > 0 THEN n - 1 ELSE n

Tick ==
    /\ storage' = [n \in Names |-> Less(storage[n])]
    /\ life' = [t \in Tokens |-> Less(life[t])]
    /\ reply' = NoReply
    /\ UNCHANGED <<call, begun, revoked>>

-----------------------------------------------------------------------------
(* What may go wrong.                                                       *)

NameInHand(c) ==
    IF call[c].pc = "setToken" THEN TokenName(call[c].t) ELSE SessionName(call[c].t)

Setting(c) == call[c].pc \in {"setToken", "setSession"}

\* An error of Set, done or not: Revoke returns it and leaves what is done.
SetFails(c) ==
    /\ Setting(c)
    /\ \/ "error" \in Faults /\ UNCHANGED storage
       \/ "lost" \in Faults /\ Put(NameInHand(c), call[c].ttl)
    /\ Done(c)
    /\ reply' = NoReply
    /\ UNCHANGED <<life, begun, revoked>>

\* SET ran, its reply was lost, and the client is about to repeat it.
SetRepeats(c) ==
    /\ "retried" \in Faults
    /\ Setting(c)
    /\ Put(NameInHand(c), call[c].ttl)
    /\ reply' = NoReply
    /\ UNCHANGED <<life, call, begun, revoked>>

\* An error of Get: IsRevoked returns it, and no answer.
GetFails(c) ==
    /\ "error" \in Faults
    /\ call[c].pc \in {"getSession", "getToken"}
    /\ Answer(c, "error")
    /\ UNCHANGED <<storage, life, begun, revoked>>

Crash(c) ==
    /\ "crash" \in Faults
    /\ call[c].pc # "idle"
    /\ Done(c)
    /\ reply' = NoReply
    /\ UNCHANGED <<storage, life, begun, revoked>>

-----------------------------------------------------------------------------
Next ==
    \/ \E c \in Callers :
         \/ \E t \in Tokens : Revoke(c, t) \/ IsRevoked(c, t)
         \/ SetToken(c) \/ SetSession(c) \/ GetSession(c) \/ GetToken(c)
         \/ SetFails(c) \/ SetRepeats(c) \/ GetFails(c) \/ Crash(c)
    \/ Tick

Spec == Init /\ [][Next]_vars

-----------------------------------------------------------------------------
(* Properties.                                                              *)

Times == Forever .. Horizon
Calls == [pc : {"idle", "setToken", "setSession", "getSession", "getToken"},
          t : Tokens \cup {None}, ttl : 0 .. Horizon, by : SUBSET Tokens]
Replies == [result : {"none", "revoked", "valid", "error"},
            t : Tokens \cup {None}, by : SUBSET Tokens]

\* Values are of their types, and a call has a token.
TypeOK ==
    /\ storage \in [Names -> Times]
    /\ life \in [Tokens -> Times]
    /\ call \in [Callers -> Calls]
    /\ \A c \in Callers : call[c].pc # "idle" => call[c].t \in Tokens
    /\ \A c \in Callers : call[c].pc \in {"setSession", "getSession"} => HasSession(call[c].t)
    /\ reply \in Replies
    /\ begun \subseteq Tokens
    /\ revoked \subseteq Tokens

\* Once Revoke has returned without an error, no IsRevoked called later says
\* that the token, or another one of its session, is not revoked, until the
\* token expires: whatever other callers revoke, and whatever fails.
RevocationLasts == reply.result = "valid" => \A u \in reply.by : ~Alive(u)

\* Two tokens that the documented precedence of claims does not tell apart.
Alike(t, u) ==
    /\ t.sub = u.sub
    /\ t.jti = u.jti
    /\ t.jti = None => t.sid = u.sid /\ (t.sid = None => t.exp = u.exp)

\* A token is said to be revoked only if somebody asked to revoke it, a token
\* it is not told apart from, or a token of its session.
OnlyRevoked ==
    reply.result = "revoked" =>
        \E u \in begun : Alike(u, reply.t) \/ SameSession(u, reply.t)

\* An entry that stays in the storage for ever is one of a token that was
\* revoked after its expiry or has none: a token that is revoked in its life
\* leaves nothing behind.
EternalOnlyExpired ==
    \A n \in Names : storage[n] = Forever =>
        \E u \in begun : n \in NamesOf(u) /\ life[u] \in {0, Forever}
=============================================================================
